----------------------------- MODULE MCResolver -----------------------------
(***************************************************************************)
(* Small instances of TenantResolver.  Jobs, users and credentials are not  *)
(* read by the middleware, and there are none.                             *)
(***************************************************************************)
EXTENDS TenantResolver, TLC

CONSTANTS
  typed,   \* a hostname as somebody typed it
  clean    \* the same hostname after _normalize

MCContactEmail == [t \in Tenants |-> CHOOSE e \in Emails : TRUE]
MCNormal == [h \in Hostnames |-> IF h = typed THEN clean ELSE h]

\* Requests, operators and tenants are interchangeable, where no liveness is checked.
ResolverSymmetry ==
  Permutations(Requests) \cup Permutations(Operators) \cup Permutations(Tenants)
=============================================================================
