------------------------ MODULE FineractCallsProofs ------------------------
(***************************************************************************)
(* Proofs about FineractCalls, for any set of calls and any number of       *)
(* transport retries.                                                      *)
(***************************************************************************)
EXTENDS FineractCalls, TLAPS

\* A call that was not made has left nothing behind.
Untouched == \A c \in Calls : call[c].pc = "idle" => call[c] = NoCall

CallsInv == CallsTypeOK /\ Untouched /\ ExecutionsAccounted

\* What a step does to the row of its call: the types, and the account of executions.
RowKept(k, n) ==
  /\ n \in Call
  /\ n.pc = "idle" => n = NoCall
  /\ n.executed + n.late <= n.lost + (IF n.pc = "ok" THEN 1 ELSE 0)

-----------------------------------------------------------------------------
\* Every operation leaves Fineract with a set of what it knows.
LEMMA EffectType ==
  ASSUME present \in SUBSET {"tenant", "user"}, NEW op
  PROVE  Effect(op) \in SUBSET {"tenant", "user"}
  BY DEF Effect

\* The columns of a row that a step changes keep their types.
LEMMA CallRowTypes ==
  ASSUME NEW k \in Call, NEW pc \in {"idle", "waiting", "ok", "failed"}, NEW lookups \in 0..2,
         NEW left \in 0..MaxRetries, NEW late \in Nat, NEW executed \in Nat, NEW lost \in Nat
  PROVE  /\ [k EXCEPT !.lookups = lookups, !.left = left] \in Call
         /\ [k EXCEPT !.pc = pc] \in Call
         /\ [k EXCEPT !.pc = pc, !.executed = executed] \in Call
         /\ [k EXCEPT !.pc = pc, !.executed = executed, !.lost = lost] \in Call
         /\ [k EXCEPT !.late = late] \in Call
         /\ [k EXCEPT !.late = late, !.executed = executed] \in Call
  BY DEF Call

\* A step that gives one call a good row, and Fineract a set, keeps the invariant.
LEMMA OneRow ==
  ASSUME CallsInv, NEW c \in Calls, NEW n, RowKept(call[c], n),
         call' = [call EXCEPT ![c] = n], present' \in SUBSET {"tenant", "user"}
  PROVE  CallsInv'
  <1>1. CallsTypeOK'
    BY DEF CallsInv, CallsTypeOK, RowKept
  <1>2. \A d \in Calls : call'[d] = IF d = c THEN n ELSE call[d]
    BY DEF CallsInv, CallsTypeOK
  <1>3. Untouched'
    BY <1>2 DEF CallsInv, Untouched, RowKept
  <1>4. ExecutionsAccounted'
    BY <1>2 DEF CallsInv, ExecutionsAccounted, RowKept
  <1>5. QED
    BY <1>1, <1>3, <1>4 DEF CallsInv

\* Giving up a request: one more answer is lost, and at most one execution is added.
LEMMA GiveUpKeeps ==
  ASSUME CallsInv, NEW c \in Calls, call[c].pc = "waiting",
         NEW seen \in {"executed", "late", "gone"}, GiveUp(c, seen),
         present' \in SUBSET {"tenant", "user"}
  PROVE  CallsInv'
  <1> DEFINE k == call[c]
             executed == IF seen = "executed" THEN k.executed + 1 ELSE k.executed
             late == IF seen = "late" THEN k.late + 1 ELSE k.late
             left == IF k.left > 0 THEN k.left - 1 ELSE k.left
             pc == IF k.left > 0 THEN k.pc ELSE "failed"
             n == [k EXCEPT !.lost = k.lost + 1, !.executed = executed, !.late = late,
                            !.left = left, !.pc = pc]
  <1>1. k \in Call
    BY DEF CallsInv, CallsTypeOK
  <1>2. call' = [call EXCEPT ![c] = n]
    BY DEF GiveUp
  <1>3. /\ k.left \in 0..MaxRetries /\ k.late \in Nat /\ k.executed \in Nat /\ k.lost \in Nat
        /\ k.pc = "waiting"
    BY <1>1 DEF Call
  <1>4. k.executed + k.late <= k.lost
    BY <1>3 DEF CallsInv, ExecutionsAccounted
  <1>5. /\ executed \in Nat /\ late \in Nat /\ k.lost + 1 \in Nat
        /\ executed + late <= k.lost + 1
    BY <1>3, <1>4
  <1>6. left \in 0..MaxRetries /\ pc \in {"waiting", "failed"}
    BY <1>3, CallsAssumption
  <1> HIDE DEF k, executed, late, left, pc
  <1>7. n \in Call
    BY <1>1, <1>5, <1>6 DEF Call
  <1>8. n.pc = pc /\ n.executed = executed /\ n.late = late /\ n.lost = k.lost + 1
    BY <1>1 DEF Call
  <1>9. RowKept(k, n)
    <2> HIDE DEF n
    <2>1. QED
      BY <1>3, <1>5, <1>6, <1>7, <1>8 DEF RowKept
  <1>10. QED
    BY <1>2, <1>9, OneRow DEF k

\* Every step of a call keeps the invariant.
LEMMA CallKeeps ==
  ASSUME CallsInv, NEW c \in Calls, CallStep(c)
  PROVE  CallsInv'
  <1> DEFINE k == call[c]
  <1>1. k \in Call /\ present \in SUBSET {"tenant", "user"}
    BY DEF CallsInv, CallsTypeOK
  <1>2. /\ k.pc \in {"idle", "waiting", "ok", "failed"} /\ k.lookups \in 0..2
        /\ k.left \in 0..MaxRetries /\ k.late \in Nat /\ k.executed \in Nat /\ k.lost \in Nat
    BY <1>1 DEF Call
  <1>3. k.executed + k.late <= k.lost + (IF k.pc = "ok" THEN 1 ELSE 0)
    BY DEF CallsInv, ExecutionsAccounted
  <1>4. k.pc = "idle" => k = NoCall
    BY DEF CallsInv, Untouched
  <1>5. CASE LookedUp(c)
    <2> DEFINE n == [k EXCEPT !.lookups = k.lookups - 1, !.left = MaxRetries]
    <2>1. call' = [call EXCEPT ![c] = n] /\ present' = present
      BY <1>5 DEF LookedUp
    <2>2. k.pc = "waiting" /\ k.lookups - 1 \in 0..2 /\ MaxRetries \in 0..MaxRetries
      BY <1>2, <1>5, CallsAssumption DEF LookedUp
    <2>3. n \in Call
      BY <1>1, <1>2, <2>2, CallRowTypes
    <2>4. n.pc = k.pc /\ n.executed = k.executed /\ n.late = k.late /\ n.lost = k.lost
      BY <1>1 DEF Call
    <2>5. RowKept(k, n)
      BY <1>3, <2>2, <2>3, <2>4 DEF RowKept
    <2>6. QED
      BY <1>1, <2>1, <2>5, OneRow
  <1>6. CASE Served(c)
    <2> DEFINE n == [k EXCEPT !.pc = "ok", !.executed = k.executed + 1]
    <2>1. call' = [call EXCEPT ![c] = n] /\ present' \in SUBSET {"tenant", "user"}
      BY <1>1, <1>6, EffectType DEF Served
    <2>2. k.pc = "waiting" /\ k.executed + 1 \in Nat
      BY <1>2, <1>6 DEF Served, Decisive
    <2>3. n \in Call
      BY <1>1, <1>2, <2>2, CallRowTypes
    <2>4. n.pc = "ok" /\ n.executed = k.executed + 1 /\ n.late = k.late /\ n.lost = k.lost
      BY <1>1 DEF Call
    <2>5. RowKept(k, n)
      BY <1>2, <1>3, <2>2, <2>3, <2>4 DEF RowKept
    <2>6. QED
      BY <2>1, <2>5, OneRow
  <1>7. CASE Unreadable(c)
    <2> DEFINE n == [k EXCEPT !.pc = "failed", !.executed = k.executed + 1, !.lost = k.lost + 1]
    <2>1. call' = [call EXCEPT ![c] = n] /\ present' \in SUBSET {"tenant", "user"}
      BY <1>1, <1>7, EffectType DEF Unreadable
    <2>2. k.pc = "waiting" /\ k.executed + 1 \in Nat /\ k.lost + 1 \in Nat
      BY <1>2, <1>7 DEF Unreadable, Decisive
    <2>3. n \in Call
      BY <1>1, <1>2, <2>2, CallRowTypes
    <2>4. n.pc = "failed" /\ n.executed = k.executed + 1 /\ n.late = k.late /\ n.lost = k.lost + 1
      BY <1>1 DEF Call
    <2>5. RowKept(k, n)
      BY <1>2, <1>3, <2>2, <2>3, <2>4 DEF RowKept
    <2>6. QED
      BY <2>1, <2>5, OneRow
  <1>8. CASE Refused(c)
    <2> DEFINE n == [k EXCEPT !.pc = "failed"]
    <2>1. call' = [call EXCEPT ![c] = n] /\ present' = present /\ k.pc = "waiting"
      BY <1>8 DEF Refused
    <2>2. n \in Call
      BY <1>1, <1>2, CallRowTypes
    <2>3. n.pc = "failed" /\ n.executed = k.executed /\ n.late = k.late /\ n.lost = k.lost
      BY <1>1 DEF Call
    <2>4. RowKept(k, n)
      BY <1>2, <1>3, <2>1, <2>2, <2>3 DEF RowKept
    <2>5. QED
      BY <1>1, <2>1, <2>4, OneRow
  <1>9. CASE AnswerLost(c)
    BY <1>1, <1>9, EffectType, GiveUpKeeps DEF AnswerLost, Decisive
  <1>10. CASE ServedLate(c)
    <2>1. k.late > 0 /\ k.late - 1 \in Nat /\ k.executed + 1 \in Nat /\ k.pc # "idle"
      BY <1>2, <1>4, <1>10 DEF ServedLate, NoCall
    <2>2. CASE Accepts(k.op)
      <3> DEFINE n == [k EXCEPT !.late = k.late - 1, !.executed = k.executed + 1]
      <3>1. call' = [call EXCEPT ![c] = n] /\ present' \in SUBSET {"tenant", "user"}
        BY <1>1, <1>10, <2>2, EffectType DEF ServedLate
      <3>2. n \in Call
        BY <1>1, <1>2, <2>1, CallRowTypes
      <3>3. /\ n.pc = k.pc /\ n.executed = k.executed + 1 /\ n.late = k.late - 1
            /\ n.lost = k.lost
        BY <1>1 DEF Call
      <3>4. RowKept(k, n)
        BY <1>2, <1>3, <2>1, <3>2, <3>3 DEF RowKept
      <3>5. QED
        BY <3>1, <3>4, OneRow
    <2>3. CASE ~ Accepts(k.op)
      <3> DEFINE n == [k EXCEPT !.late = k.late - 1]
      <3>1. call' = [call EXCEPT ![c] = n] /\ present' = present
        BY <1>10, <2>3 DEF ServedLate
      <3>2. n \in Call
        BY <1>1, <1>2, <2>1, CallRowTypes
      <3>3. n.pc = k.pc /\ n.executed = k.executed /\ n.late = k.late - 1 /\ n.lost = k.lost
        BY <1>1 DEF Call
      <3>4. RowKept(k, n)
        BY <1>2, <1>3, <2>1, <3>2, <3>3 DEF RowKept
      <3>5. QED
        BY <1>1, <3>1, <3>4, OneRow
    <2>4. QED
      BY <2>2, <2>3
  <1>11. QED
    BY <1>5, <1>6, <1>7, <1>8, <1>9, <1>10 DEF CallStep

\* A call begins with nothing to account for.
LEMMA BeginKeeps ==
  ASSUME CallsInv, NEW c \in Calls, NEW op \in Operations, Begin(c, op)
  PROVE  CallsInv'
  <1> DEFINE n == [op |-> op, pc |-> "waiting", lookups |-> IF op = "user" THEN 2 ELSE 0,
                   left |-> MaxRetries, late |-> 0, executed |-> 0, lost |-> 0]
  <1>1. call' = [call EXCEPT ![c] = n] /\ present' = present
    BY DEF Begin
  <1>2. RowKept(call[c], n)
    BY CallsAssumption DEF RowKept, Call
  <1>3. QED
    BY <1>1, <1>2, OneRow DEF CallsInv, CallsTypeOK

LEMMA CallsInitially ==
  ASSUME CallsInit
  PROVE  CallsInv
  <1>1. NoCall \in Call
    BY CallsAssumption DEF NoCall, Call, Operations
  <1>2. QED
    BY <1>1 DEF CallsInit, CallsInv, CallsTypeOK, Untouched, ExecutionsAccounted, NoCall

LEMMA CallsStep ==
  ASSUME CallsInv, [CallsNext]_callVars
  PROVE  CallsInv'
  <1>1. CASE CallsNext
    BY <1>1, CallKeeps, BeginKeeps DEF CallsNext
  <1>2. CASE UNCHANGED callVars
    BY <1>2 DEF callVars, CallsInv, CallsTypeOK, Untouched, ExecutionsAccounted
  <1>3. QED
    BY <1>1, <1>2

\* The invariant of FineractClient.request() and its transport.
THEOREM CallsCorrect == CallsSpec => []CallsInv
  <1>1. CallsInit => CallsInv
    BY CallsInitially
  <1>2. CallsInv /\ [CallsNext]_callVars => CallsInv'
    BY CallsStep
  <1>3. QED
    BY <1>1, <1>2, PTL DEF CallsSpec

\* A POST is executed once more than answers were lost, at most, with any number of retries.
THEOREM EveryExecutionIsAccounted == CallsSpec => []ExecutionsAccounted
  <1>1. CallsInv => ExecutionsAccounted
    BY DEF CallsInv
  <1>2. QED
    BY <1>1, CallsCorrect, PTL

\* A call that was answered with success was executed.
Answered == \A c \in Calls : call[c].pc = "ok" => call[c].executed > 0

\* The columns a step gives its row decide whether it is still so.
LEMMA AnsweredRow ==
  ASSUME CallsInv, Answered, NEW c \in Calls, NEW n,
         n.pc = "ok" => n.executed > 0, call' = [call EXCEPT ![c] = n]
  PROVE  Answered'
  BY DEF CallsInv, CallsTypeOK, Answered

LEMMA AnsweredStep ==
  ASSUME CallsInv, Answered, [CallsNext]_callVars
  PROVE  Answered'
  <1>1. ASSUME NEW c \in Calls, CallStep(c)
        PROVE  Answered'
    <2> DEFINE k == call[c]
    <2>1. k \in Call /\ k.executed \in Nat /\ (k.pc = "ok" => k.executed > 0)
      BY DEF CallsInv, CallsTypeOK, Answered, Call
    <2>2. CASE LookedUp(c)
      <3>1. k.pc = "waiting" /\ call' = [call EXCEPT ![c] =
              [k EXCEPT !.lookups = k.lookups - 1, !.left = MaxRetries]]
        BY <2>2 DEF LookedUp
      <3>2. [k EXCEPT !.lookups = k.lookups - 1, !.left = MaxRetries].pc = k.pc
        BY <2>1 DEF Call
      <3>3. QED
        BY <3>1, <3>2, AnsweredRow
    <2>3. CASE Served(c)
      <3>1. call' = [call EXCEPT ![c] = [k EXCEPT !.pc = "ok", !.executed = k.executed + 1]]
        BY <2>3 DEF Served
      <3>2. [k EXCEPT !.pc = "ok", !.executed = k.executed + 1].executed > 0
        BY <2>1 DEF Call
      <3>3. QED
        BY <3>1, <3>2, AnsweredRow
    <2>4. CASE Unreadable(c)
      <3>1. call' = [call EXCEPT ![c] = [k EXCEPT !.pc = "failed",
              !.executed = k.executed + 1, !.lost = k.lost + 1]]
        BY <2>4 DEF Unreadable
      <3>2. [k EXCEPT !.pc = "failed", !.executed = k.executed + 1, !.lost = k.lost + 1].pc # "ok"
        BY <2>1 DEF Call
      <3>3. QED
        BY <3>1, <3>2, AnsweredRow
    <2>5. CASE Refused(c)
      <3>1. call' = [call EXCEPT ![c] = [k EXCEPT !.pc = "failed"]]
        BY <2>5 DEF Refused
      <3>2. [k EXCEPT !.pc = "failed"].pc # "ok"
        BY <2>1 DEF Call
      <3>3. QED
        BY <3>1, <3>2, AnsweredRow
    <2>6. CASE AnswerLost(c)
      <3>1. PICK seen \in {"executed", "late", "gone"} : GiveUp(c, seen) /\ k.pc = "waiting"
        BY <2>6 DEF AnswerLost, Decisive
      <3>2. call'[c].pc \in {k.pc, "failed"} /\ \A d \in Calls : d # c => call'[d] = call[d]
        BY <2>1, <3>1 DEF GiveUp, CallsInv, CallsTypeOK, Call
      <3>3. QED
        BY <3>1, <3>2 DEF Answered
    <2>7. CASE ServedLate(c)
      <3>1. /\ call'[c].pc = k.pc /\ call'[c].executed \in {k.executed, k.executed + 1}
            /\ \A d \in Calls : d # c => call'[d] = call[d]
        BY <2>1, <2>7 DEF ServedLate, CallsInv, CallsTypeOK, Call
      <3>2. QED
        BY <2>1, <3>1 DEF Answered
    <2>8. QED
      BY <1>1, <2>2, <2>3, <2>4, <2>5, <2>6, <2>7 DEF CallStep
  <1>2. ASSUME NEW c \in Calls, NEW op \in Operations, Begin(c, op)
        PROVE  Answered'
    BY <1>2, AnsweredRow DEF Begin
  <1>3. CASE UNCHANGED callVars
    BY <1>3 DEF callVars, Answered
  <1>4. QED
    BY <1>1, <1>2, <1>3 DEF CallsNext

\* Exactly once where no answer is lost: a call that succeeds was executed once, one that fails
\* was not, and nothing of either is left on its way.
ServedOnce ==
  \A c \in Calls :
    /\ call[c].pc = "ok" => call[c].executed > 0
    /\ call[c].pc = "ok" /\ call[c].lost = 0 => call[c].executed = 1 /\ call[c].late = 0
    /\ call[c].pc = "failed" /\ call[c].lost = 0 => call[c].executed = 0 /\ call[c].late = 0

\* FineractClient.request() is exactly once while Fineract answers, for any number of retries.
THEOREM CallsAreServedOnce == CallsSpec => []ServedOnce
  <1>1. CallsInit => Answered
    BY DEF CallsInit, NoCall, Answered
  <1>2. CallsInv /\ Answered /\ [CallsNext]_callVars => Answered'
    BY AnsweredStep
  <1>3. CallsInv /\ Answered => ServedOnce
    <2> SUFFICES ASSUME CallsInv, Answered, NEW c \in Calls
                 PROVE  /\ call[c].pc = "ok" => call[c].executed > 0
                        /\ call[c].pc = "ok" /\ call[c].lost = 0
                             => call[c].executed = 1 /\ call[c].late = 0
                        /\ call[c].pc = "failed" /\ call[c].lost = 0
                             => call[c].executed = 0 /\ call[c].late = 0
      BY DEF ServedOnce
    <2>1. call[c].executed \in Nat /\ call[c].late \in Nat /\ call[c].lost \in Nat
      BY DEF CallsInv, CallsTypeOK, Call
    <2>2. call[c].executed + call[c].late
            <= call[c].lost + (IF call[c].pc = "ok" THEN 1 ELSE 0)
      BY DEF CallsInv, ExecutionsAccounted
    <2>3. QED
      BY <2>1, <2>2 DEF Answered
  <1>4. QED
    BY <1>1, <1>2, <1>3, CallsCorrect, PTL DEF CallsSpec

-----------------------------------------------------------------------------
(* The refinement: the caller's view of each step                           *)

Operation == [c \in Calls |-> call[c].op]

StatusOf(pc) == CASE pc = "idle" -> "none" [] pc = "waiting" -> "called" [] OTHER -> pc

CallStatus == [c \in Calls |-> StatusOf(call[c].pc)]

Effective == {c \in Calls : call[c].executed > 0}

\* The request of c was executed, and the call may have been answered.
Executed(c) ==
  /\ Accepts(call[c].op) /\ present' = Effect(call[c].op)
  /\ call'[c].executed = call[c].executed + 1
  /\ call[c].pc # "idle"
  /\ call'[c].pc # call[c].pc => call[c].pc = "waiting" /\ call'[c].pc \in {"ok", "failed"}

\* Nothing was executed, and the call may have failed.
NotExecuted(c) ==
  /\ present' = present /\ call'[c].executed = call[c].executed
  /\ call'[c].pc # call[c].pc => call[c].pc = "waiting" /\ call'[c].pc = "failed"

\* Every step of a call is one of the two, of this call.
LEMMA StepSeen ==
  ASSUME CallsInv, NEW c \in Calls, CallStep(c)
  PROVE  /\ Executed(c) \/ NotExecuted(c)
         /\ call'[c].op = call[c].op
         /\ \A d \in Calls : d # c => call'[d] = call[d]
  <1>1. call \in [Calls -> Call]
    BY DEF CallsInv, CallsTypeOK
  <1>2. call[c].executed \in Nat /\ call[c].late \in Nat
    BY <1>1 DEF Call
  <1>3. call[c].late > 0 => call[c].pc # "idle"
    BY DEF CallsInv, Untouched, NoCall
  <1>4. \A d \in Calls : d # c => call'[d] = call[d]
    BY <1>1 DEF CallStep, LookedUp, Served, Unreadable, Refused, AnswerLost, ServedLate, GiveUp
  <1>5. call'[c].op = call[c].op
    <2>1. LookedUp(c) => call'[c].op = call[c].op
      BY <1>1 DEF LookedUp, Call
    <2>2. Served(c) \/ Unreadable(c) => call'[c].op = call[c].op
      BY <1>1 DEF Served, Unreadable, Call
    <2>3. Refused(c) => call'[c].op = call[c].op
      BY <1>1 DEF Refused, Call
    <2>4. \A seen : GiveUp(c, seen) => call'[c].op = call[c].op
      BY <1>1 DEF GiveUp, Call
    <2>5. ServedLate(c) => call'[c].op = call[c].op
      BY <1>1 DEF ServedLate, Call
    <2>6. QED
      BY <2>1, <2>2, <2>3, <2>4, <2>5 DEF CallStep, AnswerLost
  <1>6. CASE LookedUp(c)
    BY <1>1, <1>6 DEF LookedUp, NotExecuted
  <1>7. CASE Served(c)
    BY <1>1, <1>7 DEF Served, Executed, Decisive
  <1>8. CASE Unreadable(c)
    BY <1>1, <1>8 DEF Unreadable, Executed, Decisive
  <1>9. CASE Refused(c)
    BY <1>1, <1>9 DEF Refused, NotExecuted
  <1>10. CASE AnswerLost(c)
    <2>1. ASSUME GiveUp(c, "executed")
          PROVE  /\ call'[c].executed = call[c].executed + 1
                 /\ call'[c].pc \in {call[c].pc, "failed"}
      BY <1>1, <2>1 DEF GiveUp, Call
    <2>2. ASSUME NEW seen \in {"late", "gone"}, GiveUp(c, seen)
          PROVE  /\ call'[c].executed = call[c].executed
                 /\ call'[c].pc \in {call[c].pc, "failed"}
      BY <1>1, <2>2 DEF GiveUp, Call
    <2>3. QED
      BY <1>4, <1>5, <1>10, <2>1, <2>2 DEF AnswerLost, Executed, NotExecuted, Decisive
  <1>11. CASE ServedLate(c)
    <2>1. call'[c].pc = call[c].pc /\ call[c].pc # "idle"
      BY <1>1, <1>3, <1>11 DEF ServedLate, Call
    <2>2. CASE Accepts(call[c].op)
      BY <1>1, <1>4, <1>5, <1>11, <2>1, <2>2 DEF ServedLate, Executed, Call
    <2>3. CASE ~ Accepts(call[c].op)
      BY <1>1, <1>4, <1>5, <1>11, <2>1, <2>3 DEF ServedLate, NotExecuted, Call
    <2>4. QED
      BY <2>2, <2>3
  <1>12. QED
    BY <1>4, <1>5, <1>6, <1>7, <1>8, <1>9, <1>10, <1>11 DEF CallStep

\* The view changes at the call that takes a step, and nowhere else.
LEMMA ViewSteps ==
  ASSUME CallsInv, CallsInv', NEW c \in Calls, \A d \in Calls : d # c => call'[d] = call[d]
  PROVE  /\ Operation' = [Operation EXCEPT ![c] = call'[c].op]
         /\ CallStatus' = [CallStatus EXCEPT ![c] = StatusOf(call'[c].pc)]
         /\ call'[c].executed > 0 => Effective' = Effective \cup {c}
         /\ call'[c].executed = call[c].executed => Effective' = Effective
  <1>1. Operation' = [Operation EXCEPT ![c] = call'[c].op]
    BY DEF Operation
  <1>2. CallStatus' = [CallStatus EXCEPT ![c] = StatusOf(call'[c].pc)]
    <2> DEFINE S(d) == StatusOf(call[d].pc)
    <2>1. \A d \in Calls : d # c => S(d)' = S(d)
      BY DEF StatusOf
    <2>2. S(c)' = StatusOf(call'[c].pc)
      BY DEF StatusOf
    <2> HIDE DEF S
    <2>3. [d \in Calls |-> S(d)]' = [[d \in Calls |-> S(d)] EXCEPT ![c] = StatusOf(call'[c].pc)]
      BY <2>1, <2>2
    <2>4. QED
      BY <2>3 DEF CallStatus, S
  <1>3. /\ call'[c].executed > 0 => Effective' = Effective \cup {c}
        /\ call'[c].executed = call[c].executed => Effective' = Effective
    BY DEF Effective
  <1>4. QED
    BY <1>1, <1>2, <1>3

\* An execution is an effect of the abstract call.
LEMMA ExecutedRefines ==
  ASSUME CallsInv, CallsInv', NEW c \in Calls, Executed(c), call'[c].op = call[c].op,
         \A d \in Calls : d # c => call'[d] = call[d]
  PROVE  Contract!ContractNext
  <1>0. PICK answer : answer = StatusOf(call'[c].pc)
    OBVIOUS
  <1>1. /\ call[c].pc \in {"idle", "waiting", "ok", "failed"} /\ call[c].executed \in Nat
        /\ call'[c].pc \in {"idle", "waiting", "ok", "failed"}
    BY DEF CallsInv, CallsTypeOK, Call
  <1>2. /\ CallStatus[c] # "none" /\ Operation[c] = call[c].op /\ answer \in {"called", "ok", "failed"}
        /\ answer # CallStatus[c] => CallStatus[c] = "called" /\ answer \in {"ok", "failed"}
    BY <1>0, <1>1 DEF Executed, CallStatus, StatusOf, Operation
  <1>3. /\ Operation' = Operation /\ CallStatus' = [CallStatus EXCEPT ![c] = answer]
        /\ Effective' = Effective \cup {c}
    <2>1. /\ Operation' = [Operation EXCEPT ![c] = call[c].op]
          /\ CallStatus' = [CallStatus EXCEPT ![c] = answer]
      BY <1>0, ViewSteps
    <2>2. call'[c].executed > 0
      BY <1>1 DEF Executed
    <2>3. Effective' = Effective \cup {c}
      BY <2>2, ViewSteps
    <2>4. QED
      BY <2>1, <2>3 DEF Operation
  <1>4. Contract!Accepts(Operation[c]) /\ present' = Contract!After(Operation[c])
    BY <1>2 DEF Executed, Accepts, Effect, Contract!Accepts, Contract!After
  <1>5. Contract!TakeEffect(c, answer)
    BY <1>2, <1>3, <1>4 DEF Contract!TakeEffect, CallStatus, StatusOf, Operation, Effective
  <1>6. QED
    BY <1>2, <1>5 DEF Contract!ContractNext

\* Without an execution, the abstract call fails or nothing is seen.
LEMMA NotExecutedRefines ==
  ASSUME CallsInv, CallsInv', NEW c \in Calls, NotExecuted(c), call'[c].op = call[c].op,
         \A d \in Calls : d # c => call'[d] = call[d]
  PROVE  [Contract!ContractNext]_(Contract!contractVars)
  <1>1. Operation' = Operation /\ Effective' = Effective
    BY ViewSteps DEF NotExecuted, Operation
  <1>2. CASE call'[c].pc = call[c].pc
    <2>1. CallStatus' = [CallStatus EXCEPT ![c] = CallStatus[c]]
      BY <1>2, ViewSteps DEF CallStatus
    <2>2. CallStatus' = CallStatus
      BY <2>1 DEF CallStatus
    <2>3. QED
      BY <1>1, <2>2 DEF NotExecuted, Contract!contractVars, CallStatus, StatusOf, Operation, Effective
  <1>3. CASE call'[c].pc # call[c].pc
    <2>1. CallStatus[c] = "called" /\ CallStatus' = [CallStatus EXCEPT ![c] = "failed"]
      BY <1>3, ViewSteps DEF NotExecuted, CallStatus, StatusOf
    <2>2. Contract!Answer(c, "failed")
      BY <1>1, <2>1 DEF NotExecuted, Contract!Answer, CallStatus, StatusOf, Operation, Effective
    <2>3. QED
      BY <2>2 DEF Contract!ContractNext
  <1>4. QED
    BY <1>2, <1>3

\* The first request of a call is its abstract beginning.
LEMMA BeginRefines ==
  ASSUME CallsInv, CallsInv', NEW c \in Calls, NEW op \in Operations, Begin(c, op)
  PROVE  Contract!ContractNext
  <1>1. /\ call'[c].op = op /\ call'[c].pc = "waiting" /\ call'[c].executed = 0
        /\ \A d \in Calls : d # c => call'[d] = call[d]
    BY DEF Begin, CallsInv, CallsTypeOK
  <1>2. call[c].executed = 0
    BY DEF Begin, CallsInv, Untouched, NoCall
  <1>3. /\ Operation' = [Operation EXCEPT ![c] = op] /\ Effective' = Effective
        /\ CallStatus' = [CallStatus EXCEPT ![c] = "called"] /\ CallStatus[c] = "none"
    BY <1>1, <1>2, ViewSteps DEF CallStatus, StatusOf, Begin
  <1>4. Contract!Make(c, op)
    BY <1>3 DEF Contract!Make, CallStatus, StatusOf, Operation, Effective, Begin
  <1>5. QED
    BY <1>4 DEF Contract!ContractNext, Operations, Contract!Operations

\* FineractClient.request(), with whatever its transport repeats, keeps the contract.
THEOREM CallsImplementContract == CallsSpec => RefinesContract
  <1>1. CallsInit => Contract!ContractInit
    BY DEF CallsInit, NoCall, Contract!ContractInit
  <1>2. CallsInv /\ CallsInv' /\ [CallsNext]_callVars =>
          [Contract!ContractNext]_(Contract!contractVars)
    <2>1. ASSUME CallsInv, CallsInv', NEW c \in Calls, CallStep(c)
          PROVE  [Contract!ContractNext]_(Contract!contractVars)
      BY <2>1, StepSeen, ExecutedRefines, NotExecutedRefines
    <2>2. CASE CallsNext
      BY <2>1, <2>2, BeginRefines DEF CallsNext
    <2>3. CASE UNCHANGED callVars
      BY <2>3 DEF callVars, Contract!contractVars
    <2>4. QED
      BY <2>2, <2>3
  <1>3. QED
    BY <1>1, <1>2, CallsCorrect, PTL DEF CallsSpec, RefinesContract, Contract!ContractSpec
=============================================================================
