---------------------------- MODULE StaleCounter ----------------------------
(***************************************************************************)
(* What RateLimitMiddleware and the account lockout have in common: a       *)
(* counter that many requests raise, each by reading it and later writing   *)
(* the value it read plus one.  Requests that overlap lose one another's    *)
(* counts, and a late one sets the counter back.  Nobody reads a full       *)
(* counter.  RateLimiter and LoginGuard implement this specification.       *)
(***************************************************************************)
EXTENDS Naturals, FiniteSets

CONSTANTS
  Procs,   \* requests in flight at the same time
  Full     \* the value at which the counter refuses to be read

VARIABLES
  value,    \* the counter
  hold,     \* the value a request has read, Full when it holds none
  writes    \* values written since the count last started again

counterVars == <<value, hold, writes>>

CounterTypeOK ==
  /\ value \in 0..Full
  /\ hold \in [Procs -> 0..Full]
  /\ writes \in Nat

CounterInit == value = 0 /\ hold = [p \in Procs |-> Full] /\ writes = 0

Holds(p) == hold[p] < Full

Read(p) ==
  /\ ~ Holds(p) /\ value < Full
  /\ hold' = [hold EXCEPT ![p] = value]
  /\ UNCHANGED <<value, writes>>

Write(p) ==
  /\ Holds(p)
  /\ value' = hold[p] + 1
  /\ hold' = [hold EXCEPT ![p] = Full]
  /\ writes' = writes + 1

Drop(p) ==
  /\ Holds(p)
  /\ hold' = [hold EXCEPT ![p] = Full]
  /\ UNCHANGED <<value, writes>>

\* The count starts again: the entry expires, a lock ends, or a request that ends resets the
\* counter.  What the other requests hold stays with them.
StartAgain ==
  /\ value' \in 0..Full
  /\ writes' = 0
  /\ UNCHANGED hold \/ \E p \in Procs : hold' = [hold EXCEPT ![p] = Full]

CounterNext == StartAgain \/ \E p \in Procs : Read(p) \/ Write(p) \/ Drop(p)

CounterSpec == CounterInit /\ [][CounterNext]_counterVars

-----------------------------------------------------------------------------
\* A profile says, of each level below Full, how many requests are at that level or below it.
Levels == 0..Full - 1

Profiles ==
  {f \in [Levels -> 0..Cardinality(Procs)] : \A j, k \in Levels : j <= k => f[j] <= f[k]}

\* A request stands where its next write puts the counter back to, the others at the counter.
Level(p) == IF hold[p] < value THEN hold[p] ELSE value

Profile == [k \in Levels |-> Cardinality({p \in Procs : Level(p) <= k})]

\* The lexicographic order, in which the profile with the smaller entry is the later one.
Before(f, g) == \E k \in Levels : g[k] < f[k] /\ \A j \in Levels : j < k => g[j] <= f[j]

Rank(f) == Cardinality({g \in Profiles : Before(g, f)})

\* Every write makes the profile a later one, and nothing but a start makes it an earlier one.
WritesRanked == writes <= Rank(Profile)

\* However the requests overlap, the values written before the count starts again are fewer
\* than there are profiles: (Full + Cardinality(Procs)) over Cardinality(Procs).
WritesBounded == writes < Cardinality(Profiles)
=============================================================================
