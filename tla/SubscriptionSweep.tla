------------------------- MODULE SubscriptionSweep -------------------------
(***************************************************************************)
(* sweep_expired_subscriptions, the nightly task, against the staff who     *)
(* create and PATCH subscriptions.  The task reads the rows it will mark,   *)
(* then saves their status one by one; a PATCH reads one row, then saves    *)
(* all its columns.                                                         *)
(***************************************************************************)
CONSTANTS
  Subscriptions,
  Editors         \* PATCH requests in flight at the same time

VARIABLES
  row,       \* the Subscription rows
  sweep,     \* the rows the running task has read and not yet marked
  edit,      \* a PATCH between its read and its save
  found,     \* history: the rows the last task was to mark
  overruled  \* history: rows saved by staff, or left by a killed worker, since it began

sweepVars == <<row, sweep, edit, found, overruled>>

Status == {"TRIAL", "ACTIVE", "PAST_DUE", "CANCELED"}

\* due: current_period_end has passed.  "none": not created.  chosen, history: staff saved
\* this status, or saved the row while the task was about to mark it.
Row == [status : Status \cup {"none"}, due : BOOLEAN, chosen : BOOLEAN]

NoEdit == [of |-> "none", status |-> "none", due |-> FALSE]

SweepTypeOK ==
  /\ row \in [Subscriptions -> Row]
  /\ sweep \in SUBSET Subscriptions /\ found \in SUBSET Subscriptions
  /\ overruled \in SUBSET Subscriptions
  /\ edit \in [Editors -> [of : Subscriptions \cup {"none"}, status : Status \cup {"none"},
                           due : BOOLEAN]]

SweepInit ==
  /\ row = [b \in Subscriptions |-> [status |-> "none", due |-> FALSE, chosen |-> FALSE]]
  /\ edit = [e \in Editors |-> NoEdit]
  /\ sweep = {} /\ found = {} /\ overruled = {}

Current(b) == row[b].status \in {"TRIAL", "ACTIVE"}

Expired == {b \in Subscriptions : row[b].due /\ Current(b)}

\* The task runs over rows; what it was to mark is what had expired.
RunOver(rows) ==
  /\ sweep = {}
  /\ sweep' = rows
  /\ found' = Expired
  /\ overruled' = {}
  /\ UNCHANGED <<row, edit>>

\* Trials are not looked at.
BeginSweepOfActive == RunOver({b \in Expired : row[b].status = "ACTIVE"})

\* The period is not looked at.
BeginSweepOfAll == RunOver({b \in Subscriptions : Current(b)})

\* The query, when the loop begins.
BeginSweep == RunOver(Expired)

\* save(update_fields=["status"]): a period that was renewed since is kept.
MarkPastDue(b) ==
  /\ b \in sweep
  /\ sweep' = sweep \ {b}
  /\ row' = [row EXCEPT ![b].status = "PAST_DUE"]
  /\ UNCHANGED <<edit, found, overruled>>

\* The worker is killed, or a save fails: the rest waits for the next night.
AbandonSweep ==
  /\ sweep # {}
  /\ sweep' = {}
  /\ overruled' = overruled \cup sweep
  /\ UNCHANGED <<row, edit, found>>

\* A row as staff save it.
Save(b, status, due) ==
  /\ row' = [row EXCEPT ![b] = [status |-> status, due |-> due,
                                chosen |-> status = "PAST_DUE" \/ b \in sweep]]
  /\ overruled' = overruled \cup {b}

\* POST, with any status and any period.
CreateSubscription(b, status, due) ==
  /\ row[b].status = "none"
  /\ Save(b, status, due)
  /\ UNCHANGED <<sweep, edit, found>>

ReadSubscription(e, b) ==
  /\ edit[e].of = "none"
  /\ row[b].status # "none"
  /\ edit' = [edit EXCEPT ![e] = [of |-> b, status |-> row[b].status, due |-> row[b].due]]
  /\ UNCHANGED <<row, sweep, found, overruled>>

\* Columns the request names get new values; the others are written back as they were read.
SaveSubscription(e) ==
  /\ edit[e].of # "none"
  /\ \E status \in {edit[e].status, "ACTIVE", "CANCELED"}, due \in {edit[e].due, FALSE} :
       Save(edit[e].of, status, due)
  /\ edit' = [edit EXCEPT ![e] = NoEdit]
  /\ UNCHANGED <<sweep, found>>

\* The period ends, also for a copy that holds its end.
Lapse(b) ==
  /\ row[b].status # "none" /\ ~ row[b].due
  /\ row' = [row EXCEPT ![b].due = TRUE]
  /\ edit' = [e \in Editors |-> IF edit[e].of = b THEN [edit[e] EXCEPT !.due = TRUE] ELSE edit[e]]
  /\ UNCHANGED <<sweep, found, overruled>>

SweepNext ==
  \/ BeginSweep \/ AbandonSweep
  \/ \E b \in Subscriptions : MarkPastDue(b) \/ Lapse(b)
  \/ \E b \in Subscriptions, status \in Status, due \in BOOLEAN : CreateSubscription(b, status, due)
  \/ \E e \in Editors, b \in Subscriptions : ReadSubscription(e, b)
  \/ \E e \in Editors : SaveSubscription(e)

SweepSpec == SweepInit /\ [][SweepNext]_sweepVars

-----------------------------------------------------------------------------
\* After a night, what had expired when the task looked is no longer TRIAL or ACTIVE, unless
\* staff saved it since, possibly from a copy read before, or the worker was killed.
SweepCatchesUp ==
  \A b \in found \ (sweep \cup overruled) : ~ Current(b)

\* A subscription whose period runs is PAST_DUE only because staff saved it so, or renewed it
\* between the task's query and its save: the task itself takes nobody's running period, and
\* a second night does not punish for what was renewed after the first.
PastDueDeserved ==
  \A b \in Subscriptions : row[b].status = "PAST_DUE" => row[b].due \/ row[b].chosen
=============================================================================
