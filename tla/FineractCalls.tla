--------------------------- MODULE FineractCalls ---------------------------
(***************************************************************************)
(* FineractClient.request() and its transport: one call is up to            *)
(* MaxRetries + 1 HTTP requests, POST and DELETE included, repeated when the *)
(* answer is 502, 503 or 504, does not come in time, or the connection      *)
(* breaks.  Fineract may have executed a request whose answer was lost, and  *)
(* may still execute one that the client gave up.                           *)
(***************************************************************************)
EXTENDS Naturals

CONSTANTS
  Calls,        \* calls about one tenant, of the runs that provision it
  MaxRetries    \* max_retries; 3 in the code

ASSUME CallsAssumption == MaxRetries \in Nat

VARIABLES
  present,      \* what Fineract has of the tenant: itself, its admin user
  call          \* the calls

callVars == <<present, call>>

\* create_tenant, delete_tenant, create_tenant_user, and a POST of the other services.
Operations == {"create", "delete", "user", "post"}

\* lookups: GET requests that come before the one with the effect.  late: requests given up
\* and not yet seen by Fineract.  History: executed, lost count requests of the call that
\* Fineract executed, and whose answer did not come or could not be read.
Call == [op : Operations, pc : {"idle", "waiting", "ok", "failed"}, lookups : 0..2,
         left : 0..MaxRetries, late : Nat, executed : Nat, lost : Nat]

NoCall == [op |-> "post", pc |-> "idle", lookups |-> 0, left |-> 0, late |-> 0,
           executed |-> 0, lost |-> 0]

CallsTypeOK ==
  /\ present \in SUBSET {"tenant", "user"}
  /\ call \in [Calls -> Call]

CallsInit ==
  /\ present = {}
  /\ call = [c \in Calls |-> NoCall]

\* Fineract knows a tenant and a user by name: it refuses a second one, and everything of
\* a tenant it does not have.
Accepts(op) ==
  CASE op = "create" -> "tenant" \notin present
    [] op = "user"   -> "tenant" \in present /\ "user" \notin present
    [] OTHER         -> "tenant" \in present

Effect(op) ==
  CASE op = "create" -> present \cup {"tenant"}
    [] op = "user"   -> present \cup {"user"}
    [] op = "delete" -> {}
    [] OTHER         -> present

\* The request on the wire is the one that has the effect.
Decisive(c) == call[c].pc = "waiting" /\ call[c].lookups = 0

Begin(c, op) ==
  /\ call[c].pc = "idle"
  /\ call' = [call EXCEPT ![c] =
       [op |-> op, pc |-> "waiting", lookups |-> IF op = "user" THEN 2 ELSE 0,
        left |-> MaxRetries, late |-> 0, executed |-> 0, lost |-> 0]]
  /\ UNCHANGED present

\* The head office and the super user role were found: the next request, with its own retries.
LookedUp(c) ==
  /\ call[c].pc = "waiting" /\ call[c].lookups > 0
  /\ call' = [call EXCEPT ![c].lookups = @ - 1, ![c].left = MaxRetries]
  /\ UNCHANGED present

\* A conflict with what is there already is taken for success.
ServedBefore(c) ==
  /\ Decisive(c)
  /\ present' = IF Accepts(call[c].op) THEN Effect(call[c].op) ELSE present
  /\ call' = [call EXCEPT ![c].pc = "ok",
                          ![c].executed = IF Accepts(call[c].op) THEN @ + 1 ELSE @]

\* 201 is not taken for an answer, and the request is repeated.
ServedAgain(c) ==
  /\ Decisive(c)
  /\ Accepts(call[c].op)
  /\ present' = Effect(call[c].op)
  /\ call' = [call EXCEPT ![c].executed = @ + 1, ![c].left = IF @ > 0 THEN @ - 1 ELSE @,
                          ![c].pc = IF call[c].left > 0 THEN @ ELSE "failed"]

\* Executed, and answered with 2xx.
Served(c) ==
  /\ Decisive(c)
  /\ Accepts(call[c].op)
  /\ present' = Effect(call[c].op)
  /\ call' = [call EXCEPT ![c].pc = "ok", ![c].executed = @ + 1]

\* Executed, and answered with 2xx and a body that is not JSON: raises, and is not repeated.
Unreadable(c) ==
  /\ Decisive(c)
  /\ Accepts(call[c].op)
  /\ present' = Effect(call[c].op)
  /\ call' = [call EXCEPT ![c].pc = "failed", ![c].executed = @ + 1, ![c].lost = @ + 1]

\* Any other status raises at once.  delete_tenant swallows it, as it does all that follows.
Refused(c) ==
  /\ call[c].pc = "waiting"
  /\ call' = [call EXCEPT ![c].pc = "failed"]
  /\ UNCHANGED present

\* No answer, or a gateway's: the next attempt, or the end of the call.  seen is what became
\* of the request: executed, still on its way, or gone.
GiveUp(c, seen) ==
  call' = [call EXCEPT ![c].lost = @ + 1,
                       ![c].executed = IF seen = "executed" THEN @ + 1 ELSE @,
                       ![c].late = IF seen = "late" THEN @ + 1 ELSE @,
                       ![c].left = IF @ > 0 THEN @ - 1 ELSE @,
                       ![c].pc = IF call[c].left > 0 THEN @ ELSE "failed"]

AnswerLost(c) ==
  \/ /\ Decisive(c) /\ Accepts(call[c].op)
     /\ present' = Effect(call[c].op)
     /\ GiveUp(c, "executed")
  \/ Decisive(c) /\ GiveUp(c, "late") /\ UNCHANGED present
  \/ call[c].pc = "waiting" /\ GiveUp(c, "gone") /\ UNCHANGED present

\* Fineract comes to a request nobody waits for.
ServedLate(c) ==
  /\ call[c].late > 0
  /\ \/ /\ Accepts(call[c].op)
        /\ present' = Effect(call[c].op)
        /\ call' = [call EXCEPT ![c].late = @ - 1, ![c].executed = @ + 1]
     \/ /\ ~ Accepts(call[c].op)
        /\ call' = [call EXCEPT ![c].late = @ - 1]
        /\ UNCHANGED present

CallStep(c) ==
  \/ LookedUp(c) \/ Served(c) \/ Unreadable(c) \/ Refused(c) \/ AnswerLost(c) \/ ServedLate(c)

CallsNext == \E c \in Calls : CallStep(c) \/ \E op \in Operations : Begin(c, op)

CallsSpec == CallsInit /\ [][CallsNext]_callVars

-----------------------------------------------------------------------------
\* The caller's view: retries and late requests are hidden.
Contract == INSTANCE FineractContract WITH
  operation <- [c \in Calls |-> call[c].op],
  status <- [c \in Calls |-> CASE call[c].pc = "idle" -> "none"
                               [] call[c].pc = "waiting" -> "called"
                               [] OTHER -> call[c].pc],
  effective <- {c \in Calls : call[c].executed > 0}

\* Whatever the transport repeats, a call that is answered with success took effect after
\* it was made and not by another caller's request; only a call that fails may not have.
RefinesContract == Contract!ContractSpec

\* A request that moves money is executed once more than answers were lost, at most: a
\* caller that is told "ok" without a lost answer was served exactly once, one that is
\* refused without a lost answer not at all, and no late request is counted twice.
ExecutionsAccounted ==
  \A c \in Calls :
    call[c].executed + call[c].late <= call[c].lost + (IF call[c].pc = "ok" THEN 1 ELSE 0)
=============================================================================
