---------------------------- MODULE RateLimiter ----------------------------
(***************************************************************************)
(* RateLimitMiddleware for one key rl:<kind>:<tenant>:<address> in the      *)
(* cache.  A request reads the counter and, when it is let through, writes  *)
(* the value it read plus one with a new lifetime of 60 seconds; other      *)
(* requests of the client run in between.                                  *)
(***************************************************************************)
EXTENDS Naturals, FiniteSets

CONSTANTS
  Callers,       \* requests of the client in flight at the same time
  Limit,         \* LOGIN_RATE_LIMIT_PER_MINUTE or RATE_LIMIT_PER_MINUTE
  Window         \* 60 seconds, in units of the clock

\* A server has finitely many workers.
ASSUME LimiterAssumption ==
  Limit \in Nat \ {0} /\ Window \in Nat \ {0} /\ IsFiniteSet(Callers)

VARIABLES
  counter,    \* the entry: its value and the time it has left, 0 when there is none
  caller,     \* a request inside the middleware, with the count it read
  accepted,   \* history: requests let through since the counter last was not there
  quiet       \* history: the time since a request was let through, up to Window

limiterVars == <<counter, caller, accepted, quiet>>

LimiterTypeOK ==
  /\ counter \in [value : 0..Limit, left : 0..Window]
  /\ caller \in [Callers -> [pc : {"idle", "set"}, count : 0..Limit]]
  /\ accepted \in Nat /\ quiet \in 0..Window

LimiterInit ==
  /\ counter = [value |-> 0, left |-> 0]
  /\ caller = [c \in Callers |-> [pc |-> "idle", count |-> 0]]
  /\ accepted = 0 /\ quiet = Window

\* The limit is passed, not reached.
GetCountLate(c) ==
  /\ caller[c].pc = "idle"
  /\ counter.value <= Limit
  /\ caller' = [caller EXCEPT ![c] = [pc |-> "set", count |-> counter.value]]
  /\ UNCHANGED <<counter, accepted, quiet>>

\* cache.get: below the limit the request goes on.
GetCount(c) ==
  /\ caller[c].pc = "idle"
  /\ counter.value < Limit
  /\ caller' = [caller EXCEPT ![c] = [pc |-> "set", count |-> counter.value]]
  /\ UNCHANGED <<counter, accepted, quiet>>

\* A refused request restarts the window too.
RefuseAndTouch(c) ==
  /\ caller[c].pc = "idle"
  /\ counter.value >= Limit
  /\ counter' = [counter EXCEPT !.left = Window]
  /\ UNCHANGED <<caller, accepted, quiet>>

\* 429: the entry is left alone.
Refuse(c) ==
  /\ caller[c].pc = "idle"
  /\ counter.value >= Limit
  /\ UNCHANGED limiterVars

\* cache.set, and the request is let through.
SetCount(c) ==
  /\ caller[c].pc = "set"
  /\ counter' = [value |-> caller[c].count + 1, left |-> Window]
  /\ caller' = [caller EXCEPT ![c] = [pc |-> "idle", count |-> 0]]
  /\ accepted' = accepted + 1 /\ quiet' = 0

\* Redis does not take the write: the request is answered with 500.
CacheFails(c) ==
  /\ caller[c].pc = "set"
  /\ caller' = [caller EXCEPT ![c] = [pc |-> "idle", count |-> 0]]
  /\ UNCHANGED <<counter, accepted, quiet>>

\* The clock of Redis, whose entry expires.
Age ==
  /\ counter.left > 0
  /\ counter' = IF counter.left = 1 THEN [value |-> 0, left |-> 0]
                ELSE [counter EXCEPT !.left = @ - 1]
  /\ accepted' = IF counter.left = 1 THEN 0 ELSE accepted
  /\ quiet' = IF quiet < Window THEN quiet + 1 ELSE Window
  /\ UNCHANGED caller

LimiterNext == Age \/ \E c \in Callers : GetCount(c) \/ Refuse(c) \/ SetCount(c) \/ CacheFails(c)

LimiterSpec == LimiterInit /\ [][LimiterNext]_limiterVars

-----------------------------------------------------------------------------
\* A client that is refused had a request let through less than a window ago: refusals do
\* not prolong themselves, so a client that waits a window is served.
RefusalsEnd == counter.value > 0 => quiet < Window

\* What a request will write back, less one; Limit when it will write nothing.
CountsRead == [c \in Callers |-> IF caller[c].pc = "set" THEN caller[c].count ELSE Limit]

Entry == INSTANCE StaleCounter
  WITH Procs <- Callers, Full <- Limit,
       value <- counter.value, hold <- CountsRead, writes <- accepted

\* The entry is raised by reading and writing back and in no other way, and an expired entry
\* is all that starts the count again: a request never writes a count past the limit.
RefinesEntry == Entry!CounterSpec

\* Requests that overlap are counted once, and a late one writes back an old count.  Still
\* fewer are let through while the counter lives than there are ways to spread the requests
\* in flight over the counts, however they overlap.
AcceptedBounded == accepted < Cardinality(Entry!Profiles)
=============================================================================
