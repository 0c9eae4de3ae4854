----------------------------- MODULE MCSessions -----------------------------
(***************************************************************************)
(* AuthSessions with two tenants that have a user each, for what the        *)
(* sessions of one user may suffer from others.                             *)
(***************************************************************************)
EXTENDS AuthSessions, TLC

CONSTANTS u1, t1, t2, r1, r2

MCTenantOf == [u \in Users |-> IF u = u1 THEN t1 ELSE t2]

MCSymmetry == Permutations({r1, r2})
=============================================================================
