----------------------------- MODULE MCPlatform -----------------------------
(***************************************************************************)
(* The components that share no row and no cache key with one another, each *)
(* on its own instance.  What one does leaves the variables of the others   *)
(* alone, so nothing is lost by letting one of them move in a behaviour.    *)
(***************************************************************************)
EXTENDS AuthSessions, LoginGuard, RateLimiter, FineractCalls, TenantCodes,
        OneTimeReveal, SubscriptionSweep, TLC

CONSTANTS t1, r1, r2

VARIABLE moving   \* the component that moves

MCTenantOf == [u \in Users |-> t1]

\* All that is in flight twice is interchangeable.
MCSymmetry == Permutations({r1, r2})

\* A name whose codes are also those of another name.
MCCandidates ==
  [name \in {"a", "a2"} |-> IF name = "a" THEN <<"a", "a2">> ELSE <<"a2", "a22">>]

platformVars == <<moving, sessionVars, guardVars, limiterVars, callVars, codeVars,
                  revealVars, sweepVars>>

PlatformInit ==
  /\ moving \in {"sessions", "guard", "limiter", "calls", "codes", "reveal", "sweep"}
  /\ SessionsInit /\ GuardInit /\ LimiterInit /\ CallsInit /\ CodesInit
  /\ RevealInit /\ SweepInit

PlatformNext ==
  /\ UNCHANGED moving
  /\ \/ moving = "sessions" /\ SessionsNext /\ UNCHANGED <<guardVars, limiterVars, callVars,
          codeVars, revealVars, sweepVars>>
     \/ moving = "guard" /\ GuardNext /\ UNCHANGED <<sessionVars, limiterVars, callVars,
          codeVars, revealVars, sweepVars>>
     \/ moving = "limiter" /\ LimiterNext /\ UNCHANGED <<sessionVars, guardVars, callVars,
          codeVars, revealVars, sweepVars>>
     \/ moving = "calls" /\ CallsNext /\ UNCHANGED <<sessionVars, guardVars, limiterVars,
          codeVars, revealVars, sweepVars>>
     \/ moving = "codes" /\ CodesNext /\ UNCHANGED <<sessionVars, guardVars, limiterVars,
          callVars, revealVars, sweepVars>>
     \/ moving = "reveal" /\ RevealNext /\ UNCHANGED <<sessionVars, guardVars, limiterVars,
          callVars, codeVars, sweepVars>>
     \/ moving = "sweep" /\ SweepNext /\ UNCHANGED <<sessionVars, guardVars, limiterVars,
          callVars, codeVars, revealVars>>

PlatformSpec == PlatformInit /\ [][PlatformNext]_platformVars

-----------------------------------------------------------------------------
\* Every component's variables keep their types: no counter runs over the range in which its
\* component keeps it, and no row gets a state that its readers do not know.
PlatformTypeOK ==
  /\ SessionsTypeOK /\ GuardTypeOK /\ LimiterTypeOK /\ CallsTypeOK /\ CodesTypeOK
  /\ RevealTypeOK /\ SweepTypeOK
=============================================================================
