--------------------------- MODULE PortalContract ---------------------------
(***************************************************************************)
(* What onboarding promises about the portal of a tenant, whichever engine *)
(* brings it up: a host is routed to it before it opens, a route is never  *)
(* taken back, and a provisioning job reports success only for a portal    *)
(* that has opened at least once.                                          *)
(***************************************************************************)
CONSTANTS Tenants,   \* the tenants
          Jobs       \* the provisioning jobs that may report about them

VARIABLES routed,    \* the tenants a primary hostname leads to
          open,      \* the tenants whose portal is served
          opened,    \* the tenants whose portal has been opened
          reported   \* <<job, tenant>>: the job told staff that the tenant is up

portalVars == <<routed, open, opened, reported>>

PortalInit == routed = {} /\ open = {} /\ opened = {} /\ reported = {}

Route(t) ==
  /\ t \notin routed
  /\ routed' = routed \cup {t}
  /\ UNCHANGED <<open, opened, reported>>

Open(t) ==
  /\ t \in routed
  /\ open' = open \cup {t} /\ opened' = opened \cup {t}
  /\ UNCHANGED <<routed, reported>>

Close(t) ==
  /\ open' = open \ {t}
  /\ UNCHANGED <<routed, opened, reported>>

Report(j, t) ==
  /\ t \in opened
  /\ reported' = reported \cup {<<j, t>>}
  /\ UNCHANGED <<routed, open, opened>>

\* A job is rerun, or its failure recorded after all.
Withdraw(j, t) ==
  /\ reported' = reported \ {<<j, t>>}
  /\ UNCHANGED <<routed, open, opened>>

PortalNext ==
  \/ \E t \in Tenants : Route(t) \/ Open(t) \/ Close(t)
  \/ \E j \in Jobs, t \in Tenants : Report(j, t) \/ Withdraw(j, t)

PortalSpec == PortalInit /\ [][PortalNext]_portalVars
=============================================================================
