-------------------------- MODULE FineractContract --------------------------
(***************************************************************************)
(* What the control plane may rely on when it calls Fineract about one      *)
(* tenant: a call that succeeds took effect since it was made; one that     *)
(* fails, or is swallowed, may have taken effect, and may still do so.      *)
(***************************************************************************)
CONSTANTS Calls

VARIABLES
  present,     \* what Fineract has of the tenant: itself and its admin user
  operation,   \* what a call asks for
  status,      \* where a call stands
  effective    \* the calls that took effect

contractVars == <<present, operation, status, effective>>

Operations == {"create", "delete", "user", "post"}

Accepts(op) ==
  CASE op = "create" -> "tenant" \notin present
    [] op = "user"   -> "tenant" \in present /\ "user" \notin present
    [] OTHER         -> "tenant" \in present

After(op) ==
  CASE op = "create" -> present \cup {"tenant"}
    [] op = "user"   -> present \cup {"user"}
    [] op = "delete" -> {}
    [] OTHER         -> present

ContractInit ==
  /\ present = {} /\ effective = {}
  /\ operation = [c \in Calls |-> "post"]
  /\ status = [c \in Calls |-> "none"]

Make(c, op) ==
  /\ status[c] = "none"
  /\ operation' = [operation EXCEPT ![c] = op]
  /\ status' = [status EXCEPT ![c] = "called"]
  /\ UNCHANGED <<present, effective>>

\* The call takes effect, and may be answered by the same step.  A request that was given
\* up takes effect later, whatever was answered.
TakeEffect(c, answer) ==
  /\ status[c] # "none"
  /\ answer # status[c] => status[c] = "called" /\ answer \in {"ok", "failed"}
  /\ Accepts(operation[c])
  /\ present' = After(operation[c])
  /\ effective' = effective \cup {c}
  /\ status' = [status EXCEPT ![c] = answer]
  /\ UNCHANGED operation

Answer(c, answer) ==
  /\ status[c] = "called"
  /\ answer = "ok" => c \in effective
  /\ status' = [status EXCEPT ![c] = answer]
  /\ UNCHANGED <<present, operation, effective>>

ContractNext ==
  \E c \in Calls :
    \/ \E op \in Operations : Make(c, op)
    \/ \E answer \in {"called", "ok", "failed"} : TakeEffect(c, answer)
    \/ \E answer \in {"ok", "failed"} : Answer(c, answer)

ContractSpec == ContractInit /\ [][ContractNext]_contractVars
=============================================================================
