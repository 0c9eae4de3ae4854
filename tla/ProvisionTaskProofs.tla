------------------------- MODULE ProvisionTaskProofs -------------------------
(***************************************************************************)
(* Proofs about ProvisionTask, for any number of tasks, jobs and tenants,   *)
(* any number of retries, and any faults.                                  *)
(***************************************************************************)
EXTENDS ProvisionTask, TLAPS

\* The labels of a task, and the steps of a job, spelled out.
LEMMA TaskLabels ==
  TaskLabel = {"VALIDATE", "CREATE_DB", "create_database", "RUN_FINERACT_SCHEMA",
               "REGISTER_FINERACT_TENANT", "ACTIVATE", "create_primary_domain", "set_ready",
               "finish_job", "record_failure", "mark_failed", "unused", "queued",
               "check_domain", "retry", "done", "exhausted", "dead", "lost"}
  BY DEF TaskLabel, Following, Over

LEMMA CheckpointSteps == Checkpoints \subseteq Steps /\ {"VALIDATE", "DONE"} \subseteq Steps
  <1>1. 1 .. 11 = {1, 2, 3, 4, 5, 6, 7, 8, 9, 10, 11}
    OBVIOUS
  <1>2. QED
    BY <1>1 DEF Steps, StepOrder, Checkpoints

-----------------------------------------------------------------------------
(* The invariant                                                           *)

\* A job belongs to a tenant whose row exists, a task to such a job, and what does not
\* exist is blank.
Owned ==
  /\ \A j \in Jobs : jobs[j].tenant # Nobody => tenants[jobs[j].tenant].exists
  /\ \A id \in TaskIds : task[id].pc # "unused" =>
       task[id].job \in Jobs /\ jobs[task[id].job].tenant \in Tenants
  /\ \A t \in Tenants : ~ tenants[t].exists =>
       tenants[t].status = "PENDING" /\ ~ tenants[t].provisioned_at
  /\ \A j \in Jobs : jobs[j].tenant = Nobody => jobs[j].is_success = "null"
  /\ \A id \in TaskIds : task[id].pc = "unused" => ~ task[id].db_name

\* The statements after VALIDATE, and those after the database was created.
Built == {"RUN_FINERACT_SCHEMA", "REGISTER_FINERACT_TENANT", "ACTIVATE", "check_domain",
          "create_primary_domain", "set_ready", "finish_job", "done"}
Validated == {"CREATE_DB", "create_database"} \cup Built

\* What a task has achieved when it is at a statement.
Achieved ==
  \A id \in TaskIds : task[id].pc # "unused" =>
    /\ task[id].db_name => tenants[TenantOf(id)].db_name
    /\ task[id].pc \in Validated => task[id].db_name
    /\ task[id].pc \in Built => databases[TenantOf(id)] # "none"
    /\ task[id].pc = "set_ready" => HasPrimaryDomain(TenantOf(id))
    /\ task[id].pc = "finish_job" => tenants[TenantOf(id)].provisioned_at

\* The last task that decided: after set_ready it is done, after mark_failed at its retry.
LastWriter ==
  \A t \in Tenants : TasksOf(t) # {} =>
    /\ (\A id \in TasksOf(t) : task[id].pc \in {"finish_job", "done"}) =>
         tenants[t].status = "READY"
    /\ (\A id \in TasksOf(t) : task[id].pc \in {"retry", "exhausted"}) =>
         tenants[t].status = "FAILED" /\ ~ tenants[t].is_active

TaskInv ==
  /\ TaskTypeOK /\ Owned /\ Achieved /\ LastWriter
  /\ ReadyHasPrimaryDomain /\ ReadyHasDatabase /\ SuccessMeansProvisioned

LEMMA TaskInitially ==
  ASSUME TaskInit
  PROVE  TaskInv
  <1> USE DEF TaskInit, RegistryInit
  <1>1. tenants \in TenantTable
    BY DEF TenantTable, TenantRow, NewTenant, Status
  <1>2. jobs \in JobTable
    BY CheckpointSteps DEF JobTable, JobRow, NewJob
  <1>3. task \in [TaskIds -> TaskState]
    BY TaskLabels, TaskAssumption DEF TaskState
  <1>4. /\ kyc \in [Tenants -> BOOLEAN] /\ users \in UserTable
        /\ credentials \in Passwords /\ roles \in Passwords
        /\ databases \in DatabaseOf /\ fineract \in FineractOf
        /\ domains \in SUBSET Domain /\ audit \in AuditLog /\ outbox \in Enqueued
    BY DEF UserTable, Passwords, DatabaseOf, FineractOf, AuditLog, Enqueued
  <1>5. TaskTypeOK
    BY <1>1, <1>2, <1>3, <1>4 DEF TaskTypeOK, RegistryTypeOK
  <1>6. Owned /\ Achieved /\ LastWriter
    BY DEF NewTenant, NewJob, Owned, Achieved, LastWriter, TasksOf
  <1>7. ReadyHasPrimaryDomain /\ ReadyHasDatabase /\ SuccessMeansProvisioned
    BY DEF NewTenant, NewJob, ReadyHasPrimaryDomain, ReadyHasDatabase, SuccessMeansProvisioned
  <1>8. QED
    BY <1>5, <1>6, <1>7 DEF TaskInv

-----------------------------------------------------------------------------
(* A step of a task                                                        *)

\* What a step that gets a task of t to n, and writes tr, must have achieved.
Earned(id, t, n, tr) ==
  /\ n.job = task[id].job /\ n.pc # "unused"
  /\ n.db_name => tenants[t].db_name
  /\ n.pc \in Validated => n.db_name
  /\ n.pc \in Built => databases'[t] # "none"
  /\ n.pc = "set_ready" => HasPrimaryDomain(t)'
  /\ n.pc = "finish_job" => tr.provisioned_at
  /\ n.pc \in {"finish_job", "done"} =>
       tr.status = "READY" \/ (task[id].pc = "finish_job" /\ tr = tenants[t])
  /\ n.pc \in {"retry", "exhausted"} =>
       \/ tr.status = "FAILED" /\ ~ tr.is_active
       \/ task[id].pc = "retry" /\ tr = tenants[t]

\* What it leaves of the rows of its tenant and its job.
Kept(t, jr, tr) ==
  /\ jr.tenant = t
  /\ tr.exists /\ tr.db_name = tenants[t].db_name
  /\ tenants[t].provisioned_at => tr.provisioned_at
  /\ tr.status = "READY" => HasPrimaryDomain(t) /\ tr.db_name /\ databases[t] # "none"
  /\ jr.is_success = "true" => tr.provisioned_at

\* A task may write its own state, the row of its job, and the row of its tenant.
LEMMA TaskMoves ==
  ASSUME TaskInv, NEW id \in TaskIds, NEW t \in Tenants, NEW j \in Jobs,
         task[id].pc # "unused", t = TenantOf(id), j = task[id].job,
         NEW n \in TaskState, NEW jr \in JobRow, NEW tr \in TenantRow,
         task' = [task EXCEPT ![id] = n], jobs' = [jobs EXCEPT ![j] = jr],
         tenants' = [tenants EXCEPT ![t] = tr],
         domains' \in SUBSET Domain, domains \subseteq domains',
         databases' \in DatabaseOf, outbox' \in Enqueued,
         \A u \in Tenants : databases[u] # "none" => databases'[u] # "none",
         UNCHANGED <<kyc, users, credentials, audit, roles, fineract>>,
         Earned(id, t, n, tr), Kept(t, jr, tr)
  PROVE  TaskInv'
  <1> USE DEF Earned, Kept
  <1>0. /\ tenants \in TenantTable /\ jobs \in JobTable /\ task \in [TaskIds -> TaskState]
    BY DEF TaskInv, TaskTypeOK, RegistryTypeOK
  <1>1. TaskTypeOK'
    BY <1>0 DEF TaskInv, TaskTypeOK, RegistryTypeOK, TenantTable, JobTable
  <1>2. /\ task'[id] = n /\ \A k \in TaskIds : k # id => task'[k] = task[k]
        /\ jobs'[j] = jr /\ \A k \in Jobs : k # j => jobs'[k] = jobs[k]
        /\ tenants'[t] = tr /\ \A u \in Tenants : u # t => tenants'[u] = tenants[u]
    BY <1>0 DEF TenantTable, JobTable
  <1>3. jobs[j].tenant = t /\ \A k \in Jobs : jobs'[k].tenant = jobs[k].tenant
    BY <1>2 DEF TenantOf
  <1>4. \A k \in TaskIds : /\ task'[k].job = task[k].job
                           /\ task'[k].pc = "unused" <=> task[k].pc = "unused"
    BY <1>2
  <1>5. Owned'
    BY <1>2, <1>3, <1>4, RegistryAssumption DEF TaskInv, Owned
  <1>6. /\ \A k \in TaskIds : task[k].pc # "unused" =>
             TenantOf(k) \in Tenants /\ TenantOf(k)' = TenantOf(k)
        /\ \A u \in Tenants : TasksOf(u)' = TasksOf(u)
    BY <1>3, <1>4 DEF TaskInv, Owned, TenantOf, TasksOf
  <1>7. \A u \in Tenants : HasPrimaryDomain(u) => HasPrimaryDomain(u)'
    BY DEF HasPrimaryDomain
  <1>8. Achieved'
    BY <1>2, <1>4, <1>6, <1>7 DEF TaskInv, Achieved
  <1>9. LastWriter'
    <2> SUFFICES ASSUME NEW u \in Tenants, TasksOf(u)' # {}
                 PROVE  /\ (\A k \in TasksOf(u)' : task'[k].pc \in {"finish_job", "done"}) =>
                             tenants'[u].status = "READY"
                        /\ (\A k \in TasksOf(u)' : task'[k].pc \in {"retry", "exhausted"}) =>
                             tenants'[u].status = "FAILED" /\ ~ tenants'[u].is_active
      BY DEF LastWriter
    <2>1. TasksOf(u)' = TasksOf(u) /\ TasksOf(u) \subseteq TaskIds /\ id \in TasksOf(t)
      BY <1>6 DEF TasksOf
    <2>2. CASE u = t
      BY <1>2, <2>1, <2>2 DEF TaskInv, LastWriter
    <2>3. CASE u # t
      <3>1. id \notin TasksOf(u)
        BY <2>3 DEF TasksOf
      <3>2. QED
        BY <1>2, <2>1, <2>3, <3>1 DEF TaskInv, LastWriter
    <2>4. QED
      BY <2>2, <2>3
  <1>10. ReadyHasPrimaryDomain' /\ ReadyHasDatabase'
    BY <1>2, <1>7 DEF TaskInv, ReadyHasPrimaryDomain, ReadyHasDatabase
  <1>11. SuccessMeansProvisioned'
    <2> SUFFICES ASSUME NEW k \in Jobs, jobs'[k].is_success = "true"
                 PROVE  tenants'[jobs'[k].tenant].provisioned_at
      BY DEF SuccessMeansProvisioned
    <2>1. CASE k = j
      BY <1>2, <2>1
    <2>2. CASE k # j
      <3>1. tenants[jobs[k].tenant].provisioned_at /\ jobs[k].tenant # Nobody
        BY <1>2, <2>2 DEF TaskInv, SuccessMeansProvisioned, Owned
      <3>2. jobs[k].tenant \in Tenants
        BY <1>0, <3>1 DEF JobTable, JobRow
      <3>3. QED
        BY <1>2, <1>3, <3>1, <3>2
    <2>3. QED
      BY <2>1, <2>2
  <1>12. QED
    BY <1>1, <1>5, <1>8, <1>9, <1>10, <1>11 DEF TaskInv
\* Where a task that was dispatched works.
LEMMA TaskAt ==
  ASSUME TaskInv, NEW id \in TaskIds, task[id].pc # "unused"
  PROVE  /\ task[id] \in TaskState /\ TenantOf(id) \in Tenants /\ task[id].job \in Jobs
         /\ jobs[task[id].job] \in JobRow /\ jobs[task[id].job].tenant = TenantOf(id)
         /\ tenants[TenantOf(id)] \in TenantRow /\ tenants[TenantOf(id)].exists
         /\ TenantOf(id) # Nobody
         /\ task[id].db_name => tenants[TenantOf(id)].db_name
  <1>1. /\ task \in [TaskIds -> TaskState] /\ jobs \in JobTable /\ tenants \in TenantTable
    BY DEF TaskInv, TaskTypeOK, RegistryTypeOK
  <1>2. task[id].job \in Jobs /\ TenantOf(id) \in Tenants /\ TenantOf(id) # Nobody
    BY RegistryAssumption DEF TaskInv, Owned, TenantOf
  <1>3. QED
    BY <1>1, <1>2 DEF TaskInv, Owned, Achieved, TenantOf, JobTable, TenantTable

\* What is written into a task, a job and a tenant.
LEMMA TaskStates ==
  ASSUME NEW q \in TaskState, NEW l \in TaskLabel
  PROVE  /\ [q EXCEPT !.pc = l] \in TaskState
         /\ [q EXCEPT !.pc = l].pc = l /\ [q EXCEPT !.pc = l].job = q.job
         /\ [q EXCEPT !.pc = l].db_name = q.db_name
  BY DEF TaskState

\* What the engine writes into the row of a job, and, below, into that of a tenant.
DoneJob(row) ==
  [row EXCEPT !.current_step = "DONE", !.is_success = "true", !.finished_at = TRUE]
FailedJob(row, n) ==
  [row EXCEPT !.is_success = "false", !.error_message = TRUE, !.retry_count = n]
RequeuedJob(row, n) ==
  [row EXCEPT !.retry_count = n, !.is_success = "null", !.error_message = FALSE]
Failed(row) ==
  [row EXCEPT !.status = "FAILED", !.is_active = FALSE]

LEMMA CheckpointRow ==
  ASSUME NEW row \in JobRow, NEW s \in Steps
  PROVE  /\ [row EXCEPT !.current_step = s] \in JobRow
         /\ [row EXCEPT !.current_step = s].tenant = row.tenant
         /\ [row EXCEPT !.current_step = s].is_success = row.is_success
  BY DEF JobRow

LEMMA DoneRow ==
  ASSUME NEW row \in JobRow
  PROVE  /\ DoneJob(row) \in JobRow
         /\ DoneJob(row).tenant = row.tenant
         /\ DoneJob(row).is_success = "true"
  BY CheckpointSteps DEF JobRow, DoneJob

LEMMA FailedRow ==
  ASSUME NEW row \in JobRow, NEW n \in Nat
  PROVE  /\ FailedJob(row, n) \in JobRow
         /\ FailedJob(row, n).tenant = row.tenant
         /\ FailedJob(row, n).is_success = "false"
  BY DEF JobRow, FailedJob

LEMMA RequeuedRow ==
  ASSUME NEW row \in JobRow, NEW n \in Nat
  PROVE  /\ RequeuedJob(row, n) \in JobRow
         /\ RequeuedJob(row, n).tenant = row.tenant
         /\ RequeuedJob(row, n).is_success = "null"
  BY DEF JobRow, RequeuedJob

LEMMA TenantRows ==
  ASSUME NEW row \in TenantRow
  PROVE  /\ Provisioned(row) \in TenantRow /\ Provisioned(row).exists = row.exists
         /\ Provisioned(row).db_name = row.db_name /\ Provisioned(row).provisioned_at
         /\ Provisioned(row).status = "READY"
  BY DEF TenantRow, Status, Provisioned

LEMMA FailedTenant ==
  ASSUME NEW row \in TenantRow
  PROVE  /\ Failed(row) \in TenantRow
         /\ Failed(row).exists = row.exists
         /\ Failed(row).db_name = row.db_name
         /\ Failed(row).provisioned_at = row.provisioned_at
         /\ Failed(row).status = "FAILED"
         /\ Failed(row).is_active = FALSE
  BY DEF TenantRow, Status, Failed

\* A step that writes no row of a job or a tenant.
LEMMA QuietMoves ==
  ASSUME TaskInv, NEW id \in TaskIds, NEW t \in Tenants,
         task[id].pc # "unused", t = TenantOf(id),
         NEW n \in TaskState, task' = [task EXCEPT ![id] = n],
         domains' \in SUBSET Domain, domains \subseteq domains',
         databases' \in DatabaseOf,
         \A u \in Tenants : databases[u] # "none" => databases'[u] # "none",
         UNCHANGED <<tenants, jobs, kyc, users, credentials, audit, roles, fineract, outbox>>,
         n.job = task[id].job, n.pc # "unused",
         n.db_name => tenants[t].db_name,
         n.pc \in Validated => n.db_name,
         n.pc \in Built => databases'[t] # "none",
         n.pc = "set_ready" => HasPrimaryDomain(t)',
         n.pc # "finish_job",
         n.pc = "done" => task[id].pc = "finish_job",
         n.pc = "exhausted" => task[id].pc = "retry",
         n.pc # "retry"
  PROVE  TaskInv'
  <1>1. PICK j \in Jobs, jr \in JobRow, tr \in TenantRow :
          j = task[id].job /\ jr = jobs[j] /\ tr = tenants[t]
    BY TaskAt
  <1>2. jobs' = [jobs EXCEPT ![j] = jr] /\ tenants' = [tenants EXCEPT ![t] = tr]
    BY <1>1 DEF TaskInv, TaskTypeOK, RegistryTypeOK, JobTable, TenantTable
  <1>3. Kept(t, jr, tr) /\ outbox' \in Enqueued
    BY <1>1, TaskAt DEF TaskInv, TaskTypeOK, RegistryTypeOK, ReadyHasPrimaryDomain,
                        ReadyHasDatabase, SuccessMeansProvisioned, Kept
  <1>4. Earned(id, t, n, tr)
    BY <1>1 DEF Earned
  <1>5. j = task[id].job /\ UNCHANGED <<kyc, users, credentials, audit, roles, fineract>>
    BY <1>1
  <1>6. QED
    BY <1>2, <1>3, <1>4, <1>5, TaskMoves

\* The statement that follows.
LEMMA Follows ==
  /\ Following["VALIDATE"] = "CREATE_DB" /\ Following["CREATE_DB"] = "create_database"
  /\ Following["create_database"] = "RUN_FINERACT_SCHEMA"
  /\ Following["RUN_FINERACT_SCHEMA"] = "REGISTER_FINERACT_TENANT"
  /\ Following["REGISTER_FINERACT_TENANT"] = "ACTIVATE"
  /\ Following["ACTIVATE"] = "check_domain"
  /\ Following["create_primary_domain"] = "set_ready"
  /\ Following["set_ready"] = "finish_job" /\ Following["finish_job"] = "done"
  /\ Following["record_failure"] = "mark_failed" /\ Following["mark_failed"] = "retry"
  BY DEF Following

\* A task goes to a label.
LEMMA Goes ==
  ASSUME TaskInv, NEW id \in TaskIds, task[id].pc # "unused", NEW l \in TaskLabel, GoTo(id, l)
  PROVE  \E n \in TaskState :
           /\ task' = [task EXCEPT ![id] = n] /\ n.pc = l /\ n.job = task[id].job
           /\ n.db_name = task[id].db_name
  <1>1. task[id] \in TaskState
    BY TaskAt
  <1>2. task' = [task EXCEPT ![id] = [task[id] EXCEPT !.pc = l]]
    BY DEF GoTo
  <1>3. QED
    BY <1>1, <1>2, TaskStates

\* Steps that fail, end, or only look.
LEMMA LooseStep ==
  ASSUME TaskInv, NEW id \in TaskIds,
         Fail(id) \/ Die(id) \/ LoseWorker(id) \/ CheckPrimaryDomain(id)
  PROVE  TaskInv'
  <1>1. task[id].pc # "unused"
    BY DEF Fail, Die, LoseWorker, CheckPrimaryDomain, Checkpoints
  <1>2. PICK t \in Tenants : t = TenantOf(id)
    BY <1>1, TaskAt
  <1>3. PICK l \in TaskLabel : GoTo(id, l) /\ l \in {"record_failure", "dead", "lost", "set_ready",
                                                  "create_primary_domain"}
    BY TaskLabels DEF Fail, Die, LoseWorker, CheckPrimaryDomain
  <1>4. PICK n \in TaskState :
          /\ task' = [task EXCEPT ![id] = n] /\ n.pc = l /\ n.job = task[id].job
          /\ n.db_name = task[id].db_name
    BY <1>1, <1>3, Goes
  <1>5. UNCHANGED <<tenants, jobs, kyc, users, credentials, audit, roles, fineract, outbox,
                    domains, databases>>
    BY DEF Fail, Die, LoseWorker, CheckPrimaryDomain, registryVars, externalVars
  <1>6. domains' \in SUBSET Domain /\ databases' \in DatabaseOf
    BY <1>5 DEF TaskInv, TaskTypeOK, RegistryTypeOK
  <1>7. n.db_name => tenants[t].db_name
    BY <1>1, <1>2, <1>4, TaskAt
  <1>8. n.pc \in Validated => /\ task[id].pc = "check_domain"
                              /\ n.pc = "set_ready" => HasPrimaryDomain(t)
    <2>1. Fail(id) => task'[id].pc = "record_failure"
      BY <1>1, TaskAt DEF Fail, GoTo, TaskInv, TaskTypeOK
    <2>2. Die(id) => task'[id].pc = "dead"
      BY <1>1, TaskAt DEF Die, GoTo, TaskInv, TaskTypeOK
    <2>3. LoseWorker(id) => task'[id].pc = "lost"
      BY <1>1, TaskAt DEF LoseWorker, GoTo, TaskInv, TaskTypeOK
    <2>4. task'[id] = n
      BY <1>4 DEF TaskInv, TaskTypeOK
    <2>5. CASE CheckPrimaryDomain(id)
      <3>1. HasPrimaryDomain(t) \/ task'[id].pc = "create_primary_domain"
        BY <1>2, <2>5 DEF CheckPrimaryDomain, GoTo, TaskInv, TaskTypeOK, TaskState
      <3>2. QED
        BY <2>4, <2>5, <3>1 DEF CheckPrimaryDomain
    <2>6. QED
      BY <2>1, <2>2, <2>3, <2>4, <2>5 DEF Validated, Built
  <1>9. task[id].pc = "check_domain" => task[id].db_name /\ databases[t] # "none"
    BY <1>2 DEF TaskInv, Achieved, Validated, Built
  <1>10. HasPrimaryDomain(t)' <=> HasPrimaryDomain(t)
    BY <1>5 DEF HasPrimaryDomain
  <1>11. /\ n.pc # "unused" /\ n.pc # "finish_job" /\ n.pc # "done" /\ n.pc # "exhausted"
         /\ n.pc # "retry"
         /\ n.pc \in Validated => n.db_name
         /\ n.pc \in Built => databases'[t] # "none"
         /\ n.pc = "set_ready" => HasPrimaryDomain(t)'
    <2>1. n.pc \in {"record_failure", "dead", "lost", "set_ready", "create_primary_domain"}
      BY <1>3, <1>4
    <2>2. Built \subseteq Validated /\ "set_ready" \in Built
      BY DEF Built, Validated
    <2>3. databases' = databases
      BY <1>5
    <2>4. n.pc = "set_ready" => HasPrimaryDomain(t)'
      BY <1>8, <1>10, <2>2
    <2>5. n.pc \in Validated => n.db_name /\ databases'[t] # "none"
      BY <1>4, <1>8, <1>9, <2>3
    <2>6. QED
      BY <2>1, <2>2, <2>4, <2>5
  <1>12. /\ domains \subseteq domains'
         /\ \A u \in Tenants : databases[u] # "none" => databases'[u] # "none"
    BY <1>5
  <1>13. QED
    BY <1>1, <1>2, <1>4, <1>5, <1>6, <1>7, <1>11, <1>12, QuietMoves
\* Steps on the way that write no row of a job or a tenant.
LEMMA QuietStep ==
  ASSUME TaskInv, NEW id \in TaskIds,
         LoadJob(id) \/ CreatePostgresqlDatabase(id) \/ AddPrimaryDomain(id) \/ RetryTask(id)
  PROVE  TaskInv'
  <1>1. task[id].pc # "unused"
    BY DEF LoadJob, CreatePostgresqlDatabase, AddPrimaryDomain, RetryTask
  <1>2. PICK t \in Tenants : t = TenantOf(id)
    BY <1>1, TaskAt
  <1>3. PICK q \in TaskState : q = task[id] /\ (q.db_name => tenants[t].db_name)
    BY <1>1, <1>2, TaskAt
  <1>4. /\ domains \in SUBSET Domain /\ databases \in DatabaseOf
        /\ tenants \in TenantTable /\ MaxRetries \in Nat
    BY TaskAssumption DEF TaskInv, TaskTypeOK, RegistryTypeOK
  <1>5. CASE LoadJob(id)
    <2> DEFINE n == [q EXCEPT !.pc = "VALIDATE", !.db_name = tenants[t].db_name]
    <2>1. /\ task' = [task EXCEPT ![id] = n]
          /\ UNCHANGED <<tenants, jobs, kyc, users, credentials, audit, roles, fineract, outbox,
                         domains, databases>>
      BY <1>2, <1>3, <1>5 DEF LoadJob, registryVars, externalVars
    <2>2. tenants[t].db_name \in BOOLEAN
      BY <1>4 DEF TenantTable, TenantRow
    <2>3. /\ n \in TaskState /\ n.pc = "VALIDATE" /\ n.job = q.job
          /\ n.db_name = tenants[t].db_name
      BY <2>2, TaskLabels DEF TaskState
    <2> HIDE DEF n
    <2>4. n.pc \notin Validated /\ n.pc \notin Built
      BY <2>3 DEF Validated, Built
    <2>5. QED
      BY <1>1, <1>2, <1>3, <1>4, <2>1, <2>3, <2>4, QuietMoves
  <1>6. CASE CreatePostgresqlDatabase(id)
    <2> DEFINE n == [q EXCEPT !.pc = "RUN_FINERACT_SCHEMA"]
    <2>1. /\ task' = [task EXCEPT ![id] = n] /\ q.pc = "create_database"
          /\ databases' = [databases EXCEPT ![t] =
                             IF databases[t] = "none" THEN "registry" ELSE databases[t]]
          /\ UNCHANGED <<tenants, jobs, kyc, users, credentials, audit, roles, fineract, outbox,
                         domains>>
      BY <1>2, <1>3, <1>6, Follows DEF CreatePostgresqlDatabase, Continue, registryVars
    <2>2. /\ databases' \in DatabaseOf /\ databases'[t] # "none"
          /\ \A u \in Tenants : databases[u] # "none" => databases'[u] # "none"
      BY <1>4, <2>1 DEF DatabaseOf
    <2>3. n \in TaskState /\ n.pc = "RUN_FINERACT_SCHEMA" /\ n.job = q.job /\ n.db_name = q.db_name
      BY TaskStates, TaskLabels
    <2> HIDE DEF n
    <2>4. q.db_name
      BY <1>1, <1>3, <2>1 DEF TaskInv, Achieved, Validated
    <2>5. QED
      BY <1>1, <1>2, <1>3, <1>4, <2>1, <2>2, <2>3, <2>4, QuietMoves
  <1>7. CASE AddPrimaryDomain(id)
    <2> DEFINE n == [q EXCEPT !.pc = "set_ready"]
    <2>1. /\ task' = [task EXCEPT ![id] = n] /\ q.pc = "create_primary_domain"
          /\ domains' = domains \cup {PrimaryDomain(t)}
          /\ UNCHANGED <<tenants, jobs, kyc, users, credentials, audit, roles, fineract, outbox,
                         databases>>
      BY <1>2, <1>3, <1>7, Follows DEF AddPrimaryDomain, Continue, externalVars
    <2>2. PrimaryDomain(t) \in Domain /\ HasPrimaryDomain(t)'
      <3>1. /\ PrimaryDomain(t) \in Domain
            /\ PrimaryDomain(t).tenant = t /\ PrimaryDomain(t).is_primary
        BY DEF PrimaryDomain, Domain, Hostnames
      <3>2. QED
        BY <2>1, <3>1 DEF HasPrimaryDomain
    <2>3. n \in TaskState /\ n.pc = "set_ready" /\ n.job = q.job /\ n.db_name = q.db_name
      BY TaskStates, TaskLabels
    <2> HIDE DEF n
    <2>4. q.db_name /\ databases[t] # "none"
      BY <1>1, <1>2, <1>3, <2>1 DEF TaskInv, Achieved, Validated, Built
    <2>5. domains' \in SUBSET Domain
      BY <1>4, <2>1, <2>2
    <2>6. QED
      BY <1>1, <1>2, <1>3, <1>4, <2>1, <2>2, <2>3, <2>4, <2>5, QuietMoves
  <1>8. CASE RetryTask(id)
    <2>1. /\ q.pc = "retry" /\ q.retries \in 0 .. MaxRetries
          /\ UNCHANGED <<tenants, jobs, kyc, users, credentials, audit, roles, fineract, outbox,
                         domains, databases>>
      BY <1>3, <1>8 DEF RetryTask, registryVars, externalVars, TaskState
    <2>2. PICK n \in TaskState :
            /\ task' = [task EXCEPT ![id] = n] /\ n.pc \in {"queued", "exhausted"}
            /\ n.job = q.job /\ n.db_name = q.db_name
      <3>1. CASE q.retries < MaxRetries /\
                 task' = [task EXCEPT ![id].pc = "queued", ![id].retries = q.retries + 1]
        <4> DEFINE n == [q EXCEPT !.pc = "queued", !.retries = q.retries + 1]
        <4>1. q.retries + 1 \in 0 .. MaxRetries
          BY <1>4, <2>1, <3>1
        <4>2. /\ n \in TaskState /\ n.pc = "queued" /\ n.job = q.job /\ n.db_name = q.db_name
          BY <4>1, TaskLabels DEF TaskState
        <4>3. task' = [task EXCEPT ![id] = n]
          BY <1>3, <3>1
        <4>4. QED
          BY <4>2, <4>3
      <3>2. CASE GoTo(id, "exhausted")
        BY <1>1, <1>3, <3>2, Goes, TaskLabels
      <3>3. QED
        BY <1>3, <1>8, <3>1, <3>2 DEF RetryTask
    <2>3. n.pc \notin Validated /\ n.pc \notin Built
      BY <2>2 DEF Validated, Built
    <2>4. QED
      BY <1>1, <1>2, <1>3, <1>4, <2>1, <2>2, <2>3, QuietMoves
  <1>9. QED
    BY <1>5, <1>6, <1>7, <1>8
\* Steps that save the job.
LEMMA JobStep ==
  ASSUME TaskInv, NEW id \in TaskIds, Checkpoint(id) \/ CompleteJob(id) \/ FailJob(id)
  PROVE  TaskInv'
  <1>1. task[id].pc # "unused"
    BY DEF Checkpoint, CompleteJob, FailJob, Checkpoints
  <1>2. PICK t \in Tenants, j \in Jobs, tr \in TenantRow :
          t = TenantOf(id) /\ j = task[id].job /\ tr = tenants[t] /\ tr.exists
    BY <1>1, TaskAt
  <1>3. PICK q \in TaskState, row \in JobRow :
          /\ q = task[id] /\ (q.db_name => tenants[t].db_name)
          /\ row = jobs[j] /\ row.tenant = t
    BY <1>1, <1>2, TaskAt
  <1>4. UNCHANGED <<tenants, kyc, domains, users, credentials, audit, roles, databases, fineract,
                    outbox>>
    BY DEF Checkpoint, CompleteJob, FailJob, externalVars
  <1>5. /\ tenants' = [tenants EXCEPT ![t] = tr] /\ domains' \in SUBSET Domain
        /\ domains \subseteq domains' /\ databases' \in DatabaseOf /\ outbox' \in Enqueued
        /\ \A u \in Tenants : databases[u] # "none" => databases'[u] # "none"
    BY <1>2, <1>4 DEF TaskInv, TaskTypeOK, RegistryTypeOK, TenantTable
  <1>6. tr.status = "READY" => HasPrimaryDomain(t) /\ tr.db_name /\ databases[t] # "none"
    BY <1>2 DEF TaskInv, ReadyHasPrimaryDomain, ReadyHasDatabase
  <1>7. row.is_success = "true" => tr.provisioned_at
    BY <1>2, <1>3 DEF TaskInv, SuccessMeansProvisioned
  <1>8. ASSUME NEW n \in TaskState, NEW jr \in JobRow, task' = [task EXCEPT ![id] = n],
               jobs' = [jobs EXCEPT ![j] = jr], jr.tenant = t,
               jr.is_success = "true" => tr.provisioned_at,
               n.job = q.job, n.db_name = q.db_name, n.pc # "unused",
               n.pc \in Validated => n.db_name,
               n.pc \in Built => databases[t] # "none",
               n.pc \notin {"set_ready", "finish_job", "retry", "exhausted"},
               n.pc = "done" => q.pc = "finish_job"
        PROVE  TaskInv'
    <2>1. Kept(t, jr, tr)
      BY <1>2, <1>6, <1>8 DEF Kept
    <2>2. Earned(id, t, n, tr)
      BY <1>2, <1>3, <1>4, <1>8 DEF Earned
    <2>3. QED
      BY <1>1, <1>2, <1>4, <1>5, <1>8, <2>1, <2>2, TaskMoves
  <1>9. q.pc \in Validated => q.db_name
    BY <1>1, <1>3 DEF TaskInv, Achieved
  <1>10. q.pc \in Built => databases[t] # "none"
    BY <1>1, <1>2, <1>3 DEF TaskInv, Achieved
  <1>11. CASE Checkpoint(id)
    <2> DEFINE jr == [row EXCEPT !.current_step = q.pc]
    <2>1. /\ jobs' = [jobs EXCEPT ![j] = jr] /\ q.pc \in Checkpoints
          /\ IF q.pc = "VALIDATE" /\ ~ q.db_name THEN GoTo(id, "record_failure") ELSE Continue(id)
      BY <1>2, <1>3, <1>11 DEF Checkpoint
    <2>2. jr \in JobRow /\ jr.tenant = t /\ jr.is_success = row.is_success
      BY <1>3, <2>1, CheckpointRow, CheckpointSteps
    <2>3. PICK l \in TaskLabel :
            /\ GoTo(id, l)
            /\ \/ l = "record_failure"
               \/ q.pc = "VALIDATE" /\ l = "CREATE_DB" /\ q.db_name
               \/ q.pc = "CREATE_DB" /\ l = "create_database"
               \/ q.pc = "RUN_FINERACT_SCHEMA" /\ l = "REGISTER_FINERACT_TENANT"
               \/ q.pc = "REGISTER_FINERACT_TENANT" /\ l = "ACTIVATE"
               \/ q.pc = "ACTIVATE" /\ l = "check_domain"
      BY <1>3, <2>1, Follows, TaskLabels DEF Checkpoints, Continue, GoTo
    <2>4. PICK n \in TaskState :
            /\ task' = [task EXCEPT ![id] = n] /\ n.pc = l /\ n.job = q.job
            /\ n.db_name = q.db_name
      BY <1>1, <1>3, <2>3, Goes
    <2>5. /\ n.pc \in Validated => n.db_name
          /\ n.pc \in Built => databases[t] # "none"
      BY <1>9, <1>10, <2>3, <2>4 DEF Validated, Built
    <2>6. n.pc \notin {"unused", "set_ready", "finish_job", "retry", "exhausted", "done"}
      BY <2>3, <2>4
    <2> HIDE DEF jr
    <2>7. QED
      BY <1>7, <1>8, <2>1, <2>2, <2>4, <2>5, <2>6
  <1>12. CASE CompleteJob(id)
    <2> DEFINE jr == DoneJob(row)
    <2>1. jobs' = [jobs EXCEPT ![j] = jr] /\ q.pc = "finish_job" /\ GoTo(id, "done")
      BY <1>2, <1>3, <1>12, Follows DEF CompleteJob, Continue, GoTo, DoneJob
    <2>2. jr \in JobRow /\ jr.tenant = t
      BY <1>3, DoneRow
    <2>3. PICK n \in TaskState :
            /\ task' = [task EXCEPT ![id] = n] /\ n.pc = "done" /\ n.job = q.job
            /\ n.db_name = q.db_name
      BY <1>1, <1>3, <2>1, Goes, TaskLabels
    <2>4. tr.provisioned_at
      BY <1>1, <1>2, <1>3, <2>1 DEF TaskInv, Achieved
    <2>5. n.db_name /\ databases[t] # "none"
      BY <1>9, <1>10, <2>1, <2>3 DEF Validated, Built
    <2> HIDE DEF jr
    <2>6. QED
      BY <1>8, <2>1, <2>2, <2>3, <2>4, <2>5
  <1>13. CASE FailJob(id)
    <2>1. PICK k \in Nat : k = q.retries
      BY <1>3, TaskAssumption DEF TaskState
    <2> DEFINE jr == FailedJob(row, k)
    <2>2. jobs' = [jobs EXCEPT ![j] = jr] /\ GoTo(id, "mark_failed")
      BY <1>2, <1>3, <1>13, <2>1, Follows DEF FailJob, Continue, GoTo, FailedJob
    <2>3. jr \in JobRow /\ jr.tenant = t /\ jr.is_success = "false"
      BY <1>3, FailedRow
    <2>4. PICK n \in TaskState :
            /\ task' = [task EXCEPT ![id] = n] /\ n.pc = "mark_failed" /\ n.job = q.job
            /\ n.db_name = q.db_name
      BY <1>1, <1>3, <2>2, Goes, TaskLabels
    <2>5. n.pc \notin Validated /\ n.pc \notin Built
      BY <2>4 DEF Validated, Built
    <2> HIDE DEF jr
    <2>6. QED
      BY <1>8, <2>2, <2>3, <2>4, <2>5
  <1>14. QED
    BY <1>11, <1>12, <1>13

\* Steps that save the tenant.
LEMMA TenantStep ==
  ASSUME TaskInv, NEW id \in TaskIds, ActivateTenant(id) \/ FailTenant(id)
  PROVE  TaskInv'
  <1>1. task[id].pc # "unused"
    BY DEF ActivateTenant, FailTenant
  <1>2. PICK t \in Tenants, j \in Jobs, jr \in JobRow, row \in TenantRow :
          /\ t = TenantOf(id) /\ j = task[id].job /\ jr = jobs[j] /\ jr.tenant = t
          /\ row = tenants[t] /\ row.exists
    BY <1>1, TaskAt
  <1>3. PICK q \in TaskState : q = task[id] /\ (q.db_name => row.db_name)
    BY <1>1, <1>2, TaskAt
  <1>4. UNCHANGED <<jobs, kyc, domains, users, credentials, audit, roles, databases, fineract>>
    BY DEF ActivateTenant, FailTenant, externalVars
  <1>5. /\ jobs' = [jobs EXCEPT ![j] = jr] /\ domains' \in SUBSET Domain
        /\ domains \subseteq domains' /\ databases' \in DatabaseOf
        /\ \A u \in Tenants : databases[u] # "none" => databases'[u] # "none"
    BY <1>2, <1>4 DEF TaskInv, TaskTypeOK, RegistryTypeOK, JobTable
  <1>6. jr.is_success = "true" => row.provisioned_at
    BY <1>2 DEF TaskInv, SuccessMeansProvisioned
  <1>7. CASE ActivateTenant(id)
    <2>1. PICK tr \in TenantRow :
            /\ tr = Provisioned(row) /\ tr.exists /\ tr.db_name = row.db_name
            /\ tr.provisioned_at /\ tr.status = "READY"
      BY <1>2, TenantRows
    <2>2. /\ tenants' = [tenants EXCEPT ![t] = tr] /\ q.pc = "set_ready"
          /\ GoTo(id, "finish_job") /\ BestEffort("send_tenant_activated_email", t)
      BY <1>2, <1>3, <1>7, <2>1, Follows DEF ActivateTenant, Continue, GoTo, OnTenantSave
    <2>3. PICK n \in TaskState :
            /\ task' = [task EXCEPT ![id] = n] /\ n.pc = "finish_job" /\ n.job = q.job
            /\ n.db_name = q.db_name
      BY <1>1, <1>3, <2>2, Goes, TaskLabels
    <2>4. q.db_name /\ databases[t] # "none" /\ HasPrimaryDomain(t)
      BY <1>1, <1>2, <1>3, <2>2 DEF TaskInv, Achieved, Validated, Built
    <2>5. outbox' \in Enqueued
      BY <2>2 DEF BestEffort, Enqueued, CeleryTask, TaskInv, TaskTypeOK, RegistryTypeOK
    <2>6. Kept(t, jr, tr)
      BY <1>2, <1>3, <2>1, <2>4 DEF Kept
    <2>7. Earned(id, t, n, tr)
      BY <1>2, <1>3, <1>4, <2>1, <2>3, <2>4 DEF Earned
    <2>8. QED
      BY <1>1, <1>2, <1>4, <1>5, <2>2, <2>3, <2>5, <2>6, <2>7, TaskMoves
  <1>8. CASE FailTenant(id)
    <2>1. PICK tr \in TenantRow :
            /\ tr = Failed(row)
            /\ tr.exists /\ tr.db_name = row.db_name /\ tr.provisioned_at = row.provisioned_at
            /\ tr.status = "FAILED" /\ tr.is_active = FALSE
      BY <1>2, FailedTenant
    <2>2. /\ tenants' = [tenants EXCEPT ![t] = tr] /\ UNCHANGED outbox
          /\ GoTo(id, "retry")
      <3>1. tenants' = [tenants EXCEPT ![t] =
                          [tenants[t] EXCEPT !.status = "FAILED", !.is_active = FALSE]]
        BY <1>2, <1>8 DEF FailTenant
      <3>2. QED
        BY <1>2, <1>3, <1>8, <2>1, <3>1, Follows
        DEF FailTenant, Continue, GoTo, externalVars, Failed
    <2>3. PICK n \in TaskState :
            /\ task' = [task EXCEPT ![id] = n] /\ n.pc = "retry" /\ n.job = q.job
            /\ n.db_name = q.db_name
      BY <1>1, <1>3, <2>2, Goes, TaskLabels
    <2>4. outbox' \in Enqueued
      BY <2>2 DEF TaskInv, TaskTypeOK, RegistryTypeOK
    <2>5. Kept(t, jr, tr)
      BY <1>2, <1>6, <2>1 DEF Kept
    <2>6. Earned(id, t, n, tr)
      BY <1>2, <1>3, <2>1, <2>3 DEF Earned, Validated, Built
    <2>7. QED
      BY <1>1, <1>2, <1>4, <1>5, <2>2, <2>3, <2>4, <2>5, <2>6, TaskMoves
  <1>9. QED
    BY <1>7, <1>8
-----------------------------------------------------------------------------
(* The requests                                                            *)

\* A request inserts rows of tenants, starts or restarts a job, and puts new tasks on the queue.
Inserted(t) ==
  /\ ~ tenants[t].exists
  /\ tenants'[t].exists /\ tenants'[t].status = "PENDING" /\ ~ tenants'[t].provisioned_at

Restarted(j) ==
  /\ jobs'[j].is_success = "null"
  /\ jobs'[j].tenant \in Tenants /\ tenants'[jobs'[j].tenant].exists
  /\ jobs[j].tenant = Nobody \/ jobs'[j].tenant = jobs[j].tenant

Queued(id) ==
  /\ task[id].pc = "unused" /\ task'[id].pc = "queued"
  /\ ~ task'[id].db_name /\ task'[id].retries = task[id].retries
  /\ task'[id].job \in Jobs /\ jobs'[task'[id].job].tenant \in Tenants

RequestFrame ==
  /\ \A t \in Tenants : tenants'[t] = tenants[t] \/ Inserted(t)
  /\ \A j \in Jobs : jobs'[j] = jobs[j] \/ Restarted(j)
  /\ \A id \in TaskIds : task'[id] = task[id] \/ Queued(id)
  /\ domains \subseteq domains'
  /\ UNCHANGED <<credentials, audit, externalVars>>

RequestTypes ==
  /\ tenants' \in TenantTable /\ jobs' \in JobTable /\ task' \in [TaskIds -> TaskState]
  /\ domains' \in SUBSET Domain /\ kyc' \in [Tenants -> BOOLEAN] /\ users' \in UserTable

LEMMA RequestMoves ==
  ASSUME TaskInv, RequestFrame, RequestTypes
  PROVE  TaskInv'
  <1>0. /\ tenants \in TenantTable /\ jobs \in JobTable /\ task \in [TaskIds -> TaskState]
        /\ UNCHANGED <<credentials, audit, roles, databases, fineract, outbox>>
    BY DEF TaskInv, TaskTypeOK, RegistryTypeOK, RequestFrame, externalVars
  <1>1. TaskTypeOK'
    BY <1>0 DEF TaskInv, TaskTypeOK, RegistryTypeOK, RequestTypes
  <1>2. \A j \in Jobs : jobs[j].tenant # Nobody =>
          jobs[j].tenant \in Tenants /\ jobs'[j].tenant = jobs[j].tenant
    BY <1>0 DEF RequestFrame, Restarted, JobTable, JobRow
  <1>3. /\ \A t \in Tenants : tenants[t].exists => tenants'[t] = tenants[t]
        /\ \A t \in Tenants : tenants'[t].status = "READY" \/ tenants'[t] # tenants[t] =>
             tenants'[t].exists
        /\ \A t \in Tenants : tenants'[t].status = "READY" => tenants'[t] = tenants[t]
    BY DEF RequestFrame, Inserted, TaskInv, Owned
  <1>4. \A t \in Tenants : HasPrimaryDomain(t) => HasPrimaryDomain(t)'
    BY DEF RequestFrame, HasPrimaryDomain
  <1>5. Owned'
    <2>1. ASSUME NEW j \in Jobs, jobs'[j].tenant # Nobody
          PROVE  tenants'[jobs'[j].tenant].exists
      BY <1>2, <1>3, <2>1 DEF RequestFrame, Restarted, TaskInv, Owned
    <2>2. ASSUME NEW id \in TaskIds, task'[id].pc # "unused"
          PROVE  task'[id].job \in Jobs /\ jobs'[task'[id].job].tenant \in Tenants
      BY <1>2, <2>2, RegistryAssumption DEF RequestFrame, Queued, TaskInv, Owned
    <2>3. ASSUME NEW t \in Tenants, ~ tenants'[t].exists
          PROVE  tenants'[t].status = "PENDING" /\ ~ tenants'[t].provisioned_at
      BY <2>3 DEF RequestFrame, Inserted, TaskInv, Owned
    <2>4. ASSUME NEW j \in Jobs, jobs'[j].tenant = Nobody
          PROVE  jobs'[j].is_success = "null"
      BY <2>4 DEF RequestFrame, Restarted, TaskInv, Owned
    <2>5. ASSUME NEW id \in TaskIds, task'[id].pc = "unused"
          PROVE  ~ task'[id].db_name
      BY <2>5 DEF RequestFrame, Queued, TaskInv, Owned
    <2>6. QED
      BY <2>1, <2>2, <2>3, <2>4, <2>5 DEF Owned
  <1>6. \A id \in TaskIds : task[id].pc # "unused" =>
          /\ task'[id] = task[id] /\ TenantOf(id)' = TenantOf(id) /\ TenantOf(id) \in Tenants
          /\ tenants'[TenantOf(id)] = tenants[TenantOf(id)]
    <2> SUFFICES ASSUME NEW id \in TaskIds, task[id].pc # "unused"
                 PROVE  /\ task'[id] = task[id] /\ TenantOf(id)' = TenantOf(id)
                        /\ TenantOf(id) \in Tenants
                        /\ tenants'[TenantOf(id)] = tenants[TenantOf(id)]
      OBVIOUS
    <2>1. /\ task[id].job \in Jobs /\ TenantOf(id) \in Tenants /\ TenantOf(id) # Nobody
          /\ tenants[TenantOf(id)].exists /\ jobs[task[id].job].tenant = TenantOf(id)
      BY TaskAt
    <2>2. task'[id] = task[id]
      BY DEF RequestFrame, Queued
    <2>3. TenantOf(id)' = TenantOf(id)
      BY <1>2, <2>1, <2>2 DEF TenantOf
    <2>4. QED
      BY <1>3, <2>1, <2>2, <2>3
  <1>7. Achieved'
    <2> SUFFICES ASSUME NEW id \in TaskIds, task'[id].pc # "unused"
                 PROVE  /\ task'[id].db_name => tenants'[TenantOf(id)'].db_name
                        /\ task'[id].pc \in Validated => task'[id].db_name
                        /\ task'[id].pc \in Built => databases'[TenantOf(id)'] # "none"
                        /\ task'[id].pc = "set_ready" => HasPrimaryDomain(TenantOf(id))'
                        /\ task'[id].pc = "finish_job" => tenants'[TenantOf(id)'].provisioned_at
      BY DEF Achieved
    <2>1. CASE task[id].pc = "unused"
      BY <2>1 DEF RequestFrame, Queued, Validated, Built
    <2>2. CASE task[id].pc # "unused"
      <3>1. PICK t \in Tenants : t = TenantOf(id)
        BY <1>6, <2>2
      <3>2. task'[id] = task[id] /\ TenantOf(id)' = t /\ tenants'[t] = tenants[t]
        BY <1>6, <2>2, <3>1
      <3>3. task[id].pc = "set_ready" => HasPrimaryDomain(t)'
        BY <1>4, <2>2, <3>1 DEF TaskInv, Achieved
      <3>4. HasPrimaryDomain(t)' => HasPrimaryDomain(TenantOf(id))'
        BY <3>2 DEF HasPrimaryDomain
      <3>5. QED
        BY <1>0, <2>2, <3>1, <3>2, <3>3, <3>4 DEF TaskInv, Achieved
    <2>3. QED
      BY <2>1, <2>2
  <1>8. LastWriter'
    <2> SUFFICES ASSUME NEW u \in Tenants, TasksOf(u)' # {},
                        \A id \in TasksOf(u)' : task'[id].pc # "queued"
                 PROVE  /\ TasksOf(u) # {} /\ TasksOf(u) \subseteq TasksOf(u)'
                        /\ tenants'[u] = tenants[u]
                        /\ \A id \in TasksOf(u) : task'[id] = task[id]
      BY DEF TaskInv, LastWriter
    <2>1. \A id \in TasksOf(u)' : id \in TasksOf(u)
      BY <1>6 DEF RequestFrame, Queued, TasksOf
    <2>2. \A id \in TasksOf(u) : id \in TasksOf(u)' /\ task'[id] = task[id]
                                /\ tenants'[u] = tenants[u]
      BY <1>6 DEF TasksOf
    <2>3. QED
      BY <2>1, <2>2
  <1>9. ReadyHasPrimaryDomain' /\ ReadyHasDatabase'
    BY <1>0, <1>3, <1>4 DEF TaskInv, ReadyHasPrimaryDomain, ReadyHasDatabase
  <1>10. SuccessMeansProvisioned'
    <2> SUFFICES ASSUME NEW j \in Jobs, jobs'[j].is_success = "true"
                 PROVE  tenants'[jobs'[j].tenant].provisioned_at
      BY DEF SuccessMeansProvisioned
    <2>1. jobs'[j] = jobs[j]
      BY DEF RequestFrame, Restarted
    <2>2. jobs[j].tenant # Nobody /\ tenants[jobs[j].tenant].provisioned_at
      BY <2>1 DEF TaskInv, Owned, SuccessMeansProvisioned
    <2>3. QED
      BY <1>2, <1>3, <2>1, <2>2 DEF TaskInv, Owned
  <1>11. QED
    BY <1>1, <1>5, <1>7, <1>8, <1>9, <1>10 DEF TaskInv
\* What the requests insert.
LEMMA NewRows ==
  ASSUME NEW t \in Tenants
  PROVE  /\ \A named \in BOOLEAN :
              /\ NewTenant(named) \in TenantRow /\ NewTenant(named).exists
              /\ NewTenant(named).status = "PENDING" /\ ~ NewTenant(named).provisioned_at
         /\ \A active \in BOOLEAN :
              LET row == [NewTenant(TRUE) EXCEPT !.is_active = active]
              IN  /\ row \in TenantRow /\ row.exists
                  /\ row.status = "PENDING" /\ ~ row.provisioned_at
         /\ NewJob(t) \in JobRow /\ NewJob(t).tenant = t /\ NewJob(t).is_success = "null"
  <1>1. "VALIDATE" \in Steps
    BY CheckpointSteps
  <1>2. QED
    BY <1>1 DEF NewTenant, TenantRow, Status, NewJob, JobRow

\* A tenant's row is inserted.
LEMMA TenantInserted ==
  ASSUME TaskInv, NEW t \in Tenants, NEW row \in TenantRow, ~ tenants[t].exists,
         tenants' = [tenants EXCEPT ![t] = row],
         row.exists, row.status = "PENDING", ~ row.provisioned_at
  PROVE  /\ tenants' \in TenantTable /\ tenants'[t].exists
         /\ \A u \in Tenants : tenants'[u] = tenants[u] \/ Inserted(u)
  BY DEF TaskInv, TaskTypeOK, RegistryTypeOK, TenantTable, Inserted

\* A message is sent for a job of a tenant, or the broker is down.
LEMMA Delays ==
  ASSUME TaskInv, NEW id \in TaskIds, NEW j \in Jobs, jobs'[j].tenant \in Tenants, Delay(id, j)
  PROVE  /\ task' \in [TaskIds -> TaskState]
         /\ \A k \in TaskIds : task'[k] = task[k] \/ Queued(k)
  <1>1. task \in [TaskIds -> TaskState] /\ task[id].pc = "unused" /\ ~ task[id].db_name
    BY DEF Delay, TaskInv, TaskTypeOK, Owned
  <1>2. PICK q \in TaskState : q = task[id]
    BY <1>1
  <1>3. CASE task' = [task EXCEPT ![id].pc = "queued", ![id].job = j]
    <2> DEFINE n == [q EXCEPT !.pc = "queued", !.job = j]
    <2>1. /\ n \in TaskState /\ n.pc = "queued" /\ n.job = j
          /\ n.db_name = q.db_name /\ n.retries = q.retries
      BY TaskLabels DEF TaskState
    <2>2. task' = [task EXCEPT ![id] = n]
      BY <1>2, <1>3
    <2> HIDE DEF n
    <2>3. QED
      BY <1>1, <1>2, <2>1, <2>2 DEF Queued
  <1>4. CASE UNCHANGED task
    BY <1>1, <1>4
  <1>5. QED
    BY <1>3, <1>4 DEF Delay

\* A job is created.
LEMMA JobCreated ==
  ASSUME TaskInv, NEW t \in Tenants, NEW j \in Jobs, NewJobFor(t, j), tenants'[t].exists
  PROVE  /\ jobs' \in JobTable /\ jobs'[j].tenant \in Tenants
         /\ \A k \in Jobs : jobs'[k] = jobs[k] \/ Restarted(k)
         /\ jobs'[j].is_success = jobs[j].is_success
  <1>1. PICK row \in JobRow :
          row = NewJob(t) /\ row.tenant = t /\ row.is_success = "null"
    BY NewRows
  <1>2. /\ jobs' = [jobs EXCEPT ![j] = row] /\ jobs[j].tenant = Nobody
        /\ jobs \in JobTable /\ jobs[j].is_success = "null"
    BY <1>1 DEF NewJobFor, TaskInv, TaskTypeOK, RegistryTypeOK, Owned
  <1>3. jobs' \in JobTable /\ jobs'[j] = row /\ \A k \in Jobs : k # j => jobs'[k] = jobs[k]
    BY <1>2 DEF JobTable
  <1>4. QED
    BY <1>1, <1>2, <1>3 DEF Restarted

LEMMA DispatchMoves ==
  ASSUME TaskInv, Dispatch
  PROVE  RequestFrame /\ RequestTypes
  <1>0. /\ tenants \in TenantTable /\ jobs \in JobTable /\ task \in [TaskIds -> TaskState]
        /\ domains \in SUBSET Domain /\ kyc \in [Tenants -> BOOLEAN] /\ users \in UserTable
    BY DEF TaskInv, TaskTypeOK, RegistryTypeOK
  <1>1. ASSUME NEW t \in Tenants, RegisterOrganization(t) \/ AddTenant(t)
        PROVE  RequestFrame /\ RequestTypes
    <2>1. PICK named \in BOOLEAN : tenants' = [tenants EXCEPT ![t] = NewTenant(named)]
      BY <1>1 DEF RegisterOrganization, AddTenant, CreateTenantRow
    <2>2. /\ ~ tenants[t].exists
          /\ UNCHANGED <<kyc, domains, users, jobs, task, credentials, audit, externalVars>>
      BY <1>1 DEF RegisterOrganization, AddTenant, CreateTenantRow
    <2>3. tenants' \in TenantTable /\ \A u \in Tenants : tenants'[u] = tenants[u] \/ Inserted(u)
      BY <2>1, <2>2, NewRows, TenantInserted
    <2>4. QED
      BY <1>0, <2>2, <2>3 DEF RequestFrame, RequestTypes
  <1>2. ASSUME NEW t \in Tenants, NEW id \in TaskIds, NEW j \in Jobs,
               VerifyKyc(t, id, j) \/ Provision(t, id, j)
        PROVE  RequestFrame /\ RequestTypes
    <2>1. /\ UNCHANGED <<tenants, domains, users, credentials, audit, externalVars>>
          /\ kyc' = kyc \/ kyc' = [kyc EXCEPT ![t] = TRUE]
          /\ tenants[t].exists
          /\ \/ NewJobFor(t, j) /\ Delay(id, j)
             \/ UNCHANGED <<jobs, task>>
      BY <1>2 DEF VerifyKyc, Provision
    <2>2. /\ jobs' \in JobTable /\ \A k \in Jobs : jobs'[k] = jobs[k] \/ Restarted(k)
          /\ task' \in [TaskIds -> TaskState]
          /\ \A k \in TaskIds : task'[k] = task[k] \/ Queued(k)
      BY <1>0, <2>1, JobCreated, Delays
    <2>3. kyc' \in [Tenants -> BOOLEAN]
      BY <1>0, <2>1
    <2>4. QED
      BY <1>0, <2>1, <2>2, <2>3 DEF RequestFrame, RequestTypes
  <1>3. ASSUME NEW j \in Jobs, NEW id \in TaskIds, RetryJob(j, id)
        PROVE  RequestFrame /\ RequestTypes
    <2>1. PICK row \in JobRow, k \in Nat : row = jobs[j] /\ k = row.retry_count + 1
      BY <1>0 DEF JobTable, JobRow
    <2>2. /\ jobs[j].tenant # Nobody /\ jobs' = [jobs EXCEPT ![j] = RequeuedJob(row, k)]
          /\ Delay(id, j)
          /\ UNCHANGED <<tenants, kyc, domains, users, credentials, audit, externalVars>>
      BY <1>3, <2>1 DEF RetryJob, RequeuedJob
    <2>3. /\ jobs' \in JobTable /\ jobs'[j] = RequeuedJob(row, k)
          /\ \A i \in Jobs : i # j => jobs'[i] = jobs[i]
      BY <1>0, <2>2, RequeuedRow DEF JobTable
    <2>4. /\ jobs'[j].tenant = jobs[j].tenant /\ jobs'[j].is_success = "null"
          /\ jobs[j].tenant \in Tenants /\ tenants[jobs[j].tenant].exists
      BY <1>0, <2>1, <2>2, <2>3, RequeuedRow DEF TaskInv, Owned, JobRow
    <2>5. \A i \in Jobs : jobs'[i] = jobs[i] \/ Restarted(i)
      BY <2>2, <2>3, <2>4 DEF Restarted
    <2>6. /\ task' \in [TaskIds -> TaskState]
          /\ \A i \in TaskIds : task'[i] = task[i] \/ Queued(i)
      BY <2>2, <2>4, Delays
    <2>7. QED
      BY <1>0, <2>2, <2>3, <2>5, <2>6 DEF RequestFrame, RequestTypes
  <1>4. ASSUME NEW t \in Tenants, NEW id \in TaskIds, NEW j \in Jobs, NEW e \in Emails,
               NEW inline \in Inlines(t), NEW active \in BOOLEAN,
               AddInAdmin(t, active, e, inline, id, j)
        PROVE  RequestFrame /\ RequestTypes
    <2>1. /\ ~ tenants[t].exists
          /\ tenants' = [tenants EXCEPT ![t] = [NewTenant(TRUE) EXCEPT !.is_active = active]]
          /\ users' = [users EXCEPT ![e] = t]
          /\ domains' = domains \cup (IF inline = {} THEN {PrimaryDomain(t)} ELSE inline)
          /\ NewJobFor(t, j) /\ Delay(id, j)
          /\ UNCHANGED <<kyc, credentials, audit, externalVars>>
      BY <1>4 DEF AddInAdmin
    <2>2. /\ tenants' \in TenantTable /\ tenants'[t].exists
          /\ \A u \in Tenants : tenants'[u] = tenants[u] \/ Inserted(u)
      BY <2>1, NewRows, TenantInserted
    <2>3. /\ jobs' \in JobTable /\ \A k \in Jobs : jobs'[k] = jobs[k] \/ Restarted(k)
          /\ task' \in [TaskIds -> TaskState]
          /\ \A k \in TaskIds : task'[k] = task[k] \/ Queued(k)
      BY <2>1, <2>2, JobCreated, Delays
    <2>4. inline \subseteq Domain /\ PrimaryDomain(t) \in Domain
      BY DEF Inlines, Domain, PrimaryDomain, Hostnames
    <2>5. users' \in UserTable /\ domains' \in SUBSET Domain /\ domains \subseteq domains'
      BY <1>0, <2>1, <2>4 DEF UserTable
    <2>6. QED
      BY <1>0, <2>1, <2>2, <2>3, <2>5 DEF RequestFrame, RequestTypes
  <1>5. QED
    BY <1>1, <1>2, <1>3, <1>4 DEF Dispatch

-----------------------------------------------------------------------------
(* The theorems                                                            *)

LEMMA TaskNextKeeps ==
  ASSUME TaskInv, [TaskNext]_taskVars
  PROVE  TaskInv'
  <1>1. CASE Dispatch
    BY <1>1, DispatchMoves, RequestMoves
  <1>2. ASSUME NEW id \in TaskIds, TaskStep(id) \/ LoseWorker(id)
        PROVE  TaskInv'
    BY <1>2, LooseStep, QuietStep, JobStep, TenantStep DEF TaskStep
  <1>3. CASE UNCHANGED taskVars
    BY <1>3 DEF taskVars, registryVars, externalVars, TaskInv, TaskTypeOK, RegistryTypeOK, Owned,
                Achieved, LastWriter, TasksOf, TenantOf, HasPrimaryDomain, ReadyHasPrimaryDomain,
                ReadyHasDatabase, SuccessMeansProvisioned
  <1>4. QED
    BY <1>1, <1>2, <1>3 DEF TaskNext

\* Every row, message and external system keeps its type, and the invariant holds.
THEOREM TasksCorrect == TaskSpec => []TaskInv
  BY TaskInitially, TaskNextKeeps, PTL DEF TaskSpec

THEOREM TaskTypeCorrect == TaskSpec => []TaskTypeOK
  BY TasksCorrect, PTL DEF TaskInv

\* However the tasks of a tenant retry, race and die, a READY tenant has its database.
THEOREM ReadyTenantsHaveDatabases == TaskSpec => []ReadyHasDatabase
  BY TasksCorrect, PTL DEF TaskInv

\* It also has the primary domain that its links are built from.
THEOREM ReadyTenantsAreReachable == TaskSpec => []ReadyHasPrimaryDomain
  BY TasksCorrect, PTL DEF TaskInv

\* A job that says success has brought its tenant up.
THEOREM SuccessfulTasksProvisioned == TaskSpec => []SuccessMeansProvisioned
  BY TasksCorrect, PTL DEF TaskInv

\* With any number of retries and rival tasks, the status is what the tasks came to.
THEOREM TenantsEndAsTasksSay == TaskSpec => []TasksDecideStatus
  <1>1. TaskInv => TasksDecideStatus
    BY DEF TaskInv, LastWriter, TasksDecideStatus
  <1>2. QED
    BY <1>1, TasksCorrect, PTL
-----------------------------------------------------------------------------
(* The work of a task                                                      *)

\* Work, of the state q of a task.
Cost(q) == IF q.pc \in Over THEN 0 ELSE Left[q.pc] + 14 * (MaxRetries - q.retries)

LEMMA LeftIs ==
  /\ Left["unused"] = 15 /\ Left["queued"] = 14 /\ Left["VALIDATE"] = 13
  /\ Left["CREATE_DB"] = 12 /\ Left["create_database"] = 11
  /\ Left["RUN_FINERACT_SCHEMA"] = 10 /\ Left["REGISTER_FINERACT_TENANT"] = 9
  /\ Left["ACTIVATE"] = 8 /\ Left["check_domain"] = 7 /\ Left["create_primary_domain"] = 6
  /\ Left["set_ready"] = 5 /\ Left["finish_job"] = 4 /\ Left["record_failure"] = 3
  /\ Left["mark_failed"] = 2 /\ Left["retry"] = 1
  BY DEF Left

\* A task that is not over has work left, and one that is over has none.
LEMMA CostIsNat ==
  ASSUME NEW q \in TaskState
  PROVE  Cost(q) \in Nat /\ (q.pc \notin Over => Left[q.pc] \in 1 .. 15)
  <1>1. q.pc \in TaskLabel /\ q.retries \in 0 .. MaxRetries /\ MaxRetries \in Nat
    BY TaskAssumption DEF TaskState
  <1>2. q.pc \notin Over => Left[q.pc] \in 1 .. 15
    BY <1>1, TaskLabels, LeftIs DEF Over
  <1>3. QED
    BY <1>1, <1>2 DEF Cost

\* A step to a later statement of the same attempt, or to an end, uses up work.
LEMMA LaterCosts ==
  ASSUME NEW q \in TaskState, NEW n \in TaskState, q.pc \notin Over, n.retries = q.retries,
         n.pc \in Over \/ Left[n.pc] < Left[q.pc]
  PROVE  Cost(n) < Cost(q)
  <1>1. q.retries \in 0 .. MaxRetries /\ MaxRetries \in Nat
    BY TaskAssumption DEF TaskState
  <1>2. CASE n.pc \in Over
    BY <1>1, <1>2, CostIsNat DEF Cost
  <1>3. CASE n.pc \notin Over
    BY <1>1, <1>3, CostIsNat DEF Cost
  <1>4. QED
    BY <1>2, <1>3

LEMMA LabelCosts ==
  ASSUME TaskInv, NEW id \in TaskIds, NEW l \in TaskLabel, GoTo(id, l),
         task[id].pc \notin Over, l \in Over \/ Left[l] < Left[task[id].pc]
  PROVE  Cost(task'[id]) < Cost(task[id]) /\ \A k \in TaskIds : k # id => task'[k] = task[k]
  <1>1. task \in [TaskIds -> TaskState]
    BY DEF TaskInv, TaskTypeOK
  <1>2. PICK q \in TaskState : q = task[id]
    BY <1>1
  <1>3. /\ task'[id] = [q EXCEPT !.pc = l]
        /\ \A k \in TaskIds : k # id => task'[k] = task[k]
    BY <1>1, <1>2 DEF GoTo
  <1> DEFINE n == [q EXCEPT !.pc = l]
  <1>4. n \in TaskState /\ n.pc = l /\ n.retries = q.retries
    BY DEF TaskState
  <1> HIDE DEF n
  <1>5. Cost(n) < Cost(q)
    BY <1>2, <1>4, LaterCosts
  <1>6. QED
    BY <1>2, <1>3, <1>5 DEF n

\* Each step of a task goes on to a later statement, ends it, or uses up a retry.
LEMMA StepCosts ==
  ASSUME TaskInv, NEW id \in TaskIds, TaskStep(id) \/ LoseWorker(id)
  PROVE  Cost(task'[id]) < Cost(task[id]) /\ \A k \in TaskIds : k # id => task'[k] = task[k]
  <1>0. task \in [TaskIds -> TaskState]
    BY DEF TaskInv, TaskTypeOK
  <1>1. PICK q \in TaskState : q = task[id] /\ q.pc \in TaskLabel /\ q.retries \in 0 .. MaxRetries
    BY <1>0 DEF TaskState
  <1>2. MaxRetries \in Nat
    BY TaskAssumption
  <1>3. CASE Checkpoint(id)
    <2>1. CASE GoTo(id, "record_failure")
      BY <1>3, <2>1, LabelCosts, LeftIs, TaskLabels DEF Checkpoint, Checkpoints, Over
    <2>2. CASE Continue(id)
      <3>1. GoTo(id, Following[task[id].pc])
        BY <2>2 DEF Continue, GoTo
      <3>2. /\ Following[task[id].pc] \in TaskLabel /\ task[id].pc \notin Over
            /\ Left[Following[task[id].pc]] < Left[task[id].pc]
        BY <1>3, Follows, LeftIs, TaskLabels DEF Checkpoint, Checkpoints, Over
      <3>3. QED
        BY <3>1, <3>2, LabelCosts
    <2>3. QED
      BY <1>3, <2>1, <2>2 DEF Checkpoint
  <1>4. CASE \/ CreatePostgresqlDatabase(id) \/ AddPrimaryDomain(id) \/ ActivateTenant(id)
             \/ CompleteJob(id) \/ FailJob(id) \/ FailTenant(id)
    <2>1. GoTo(id, Following[task[id].pc])
      BY <1>4 DEF CreatePostgresqlDatabase, AddPrimaryDomain, ActivateTenant, CompleteJob, FailJob,
                  FailTenant, Continue, GoTo
    <2>2. task[id].pc \in {"create_database", "create_primary_domain", "set_ready", "finish_job",
                           "record_failure", "mark_failed"}
      BY <1>4 DEF CreatePostgresqlDatabase, AddPrimaryDomain, ActivateTenant, CompleteJob, FailJob,
                  FailTenant
    <2>3. /\ Following[task[id].pc] \in TaskLabel /\ task[id].pc \notin Over
          /\ Following[task[id].pc] \in Over \/ Left[Following[task[id].pc]] < Left[task[id].pc]
      BY <2>2, Follows, LeftIs, TaskLabels DEF Over
    <2>4. QED
      BY <2>1, <2>3, LabelCosts
  <1>5. CASE CheckPrimaryDomain(id)
    <2>1. PICK l \in {"set_ready", "create_primary_domain"} : GoTo(id, l)
      BY <1>5 DEF CheckPrimaryDomain
    <2>2. task[id].pc = "check_domain"
      BY <1>5 DEF CheckPrimaryDomain
    <2>3. l \in TaskLabel /\ task[id].pc \notin Over /\ Left[l] < Left[task[id].pc]
      BY <2>1, <2>2, LeftIs, TaskLabels DEF Over
    <2>4. QED
      BY <2>1, <2>3, LabelCosts
  <1>6. CASE Fail(id)
    <2>1. GoTo(id, "record_failure")
      BY <1>6 DEF Fail
    <2>2. task[id].pc \in Checkpoints \cup {"check_domain", "create_primary_domain", "set_ready",
                                            "finish_job", "create_database"}
      BY <1>6 DEF Fail
    <2>3. "record_failure" \in TaskLabel /\ task[id].pc \notin Over
          /\ Left["record_failure"] < Left[task[id].pc]
      BY <2>2, LeftIs, TaskLabels DEF Over, Checkpoints
    <2>4. QED
      BY <2>1, <2>3, LabelCosts
  <1>7. CASE Die(id) \/ LoseWorker(id)
    <2>1. PICK l \in {"dead", "lost"} : GoTo(id, l)
      BY <1>7 DEF Die, LoseWorker
    <2>2. l \in TaskLabel /\ l \in Over /\ task[id].pc \notin Over
      BY <1>7, TaskLabels DEF Die, LoseWorker, Over
    <2>3. QED
      BY <2>1, <2>2, LabelCosts
  <1>8. CASE LoadJob(id)
    <2>1. q.pc = "queued" /\ tenants[TenantOf(id)].db_name \in BOOLEAN
      BY <1>1, <1>8, TaskAt DEF LoadJob, TenantRow
    <2>2. PICK b \in BOOLEAN : b = tenants[TenantOf(id)].db_name
      BY <2>1
    <2>3. task' = [task EXCEPT ![id] = [q EXCEPT !.pc = "VALIDATE", !.db_name = b]]
      BY <1>1, <1>8, <2>2 DEF LoadJob
    <2> DEFINE n == [q EXCEPT !.pc = "VALIDATE", !.db_name = b]
    <2>4. n \in TaskState /\ n.pc = "VALIDATE" /\ n.retries = q.retries
      BY TaskLabels DEF TaskState
    <2>5. task'[id] = n /\ \A k \in TaskIds : k # id => task'[k] = task[k]
      BY <1>0, <2>3
    <2> HIDE DEF n
    <2>6. Cost(n) < Cost(q)
      <3>1. q.pc \notin Over /\ Left[n.pc] < Left[q.pc]
        BY <2>1, <2>4, LeftIs DEF Over
      <3>2. QED
        BY <2>4, <3>1, LaterCosts
    <2>7. QED
      BY <1>1, <2>5, <2>6
  <1>9. CASE RetryTask(id)
    <2>1. q.pc = "retry"
      BY <1>1, <1>9 DEF RetryTask
    <2>2. CASE GoTo(id, "exhausted")
      <3>1. "exhausted" \in TaskLabel /\ "exhausted" \in Over /\ task[id].pc \notin Over
        BY <1>1, <2>1, TaskLabels DEF Over
      <3>2. QED
        BY <2>2, <3>1, LabelCosts
    <2>3. CASE /\ q.retries < MaxRetries
               /\ task' = [task EXCEPT ![id] = [q EXCEPT !.pc = "queued", !.retries = q.retries + 1]]
      <3>1. PICK m \in 0 .. MaxRetries : m = q.retries + 1
        BY <1>1, <1>2, <2>3
      <3> DEFINE n == [q EXCEPT !.pc = "queued", !.retries = m]
      <3>2. n \in TaskState /\ n.pc = "queued" /\ n.retries = m
        BY TaskLabels DEF TaskState
      <3>5. task'[id] = n /\ \A k \in TaskIds : k # id => task'[k] = task[k]
        BY <1>0, <2>3, <3>1
      <3> HIDE DEF n
      <3>3. Cost(n) = 14 + 14 * (MaxRetries - m) /\ Cost(q) = 1 + 14 * (MaxRetries - q.retries)
        BY <2>1, <3>2, LeftIs DEF Cost, Over
      <3>4. Cost(n) < Cost(q)
        BY <1>1, <1>2, <3>1, <3>3
      <3>6. QED
        BY <1>1, <3>4, <3>5
    <2>4. QED
      BY <1>1, <1>9, <2>2, <2>3 DEF RetryTask
  <1>10. QED
    BY <1>3, <1>4, <1>5, <1>6, <1>7, <1>8, <1>9 DEF TaskStep

\* A request queues a task that was unused, which takes one of its 15 statements.
LEMMA DispatchCosts ==
  ASSUME TaskInv, Dispatch, NEW id \in TaskIds, task'[id] # task[id]
  PROVE  Cost(task'[id]) < Cost(task[id])
  <1>1. task \in [TaskIds -> TaskState] /\ task' \in [TaskIds -> TaskState] /\ Queued(id)
    BY DispatchMoves DEF TaskInv, TaskTypeOK, RequestFrame, RequestTypes
  <1>2. PICK q \in TaskState, n \in TaskState : q = task[id] /\ n = task'[id]
    BY <1>1
  <1>3. q.pc = "unused" /\ n.pc = "queued" /\ n.retries = q.retries
    BY <1>1, <1>2 DEF Queued
  <1>4. QED
    BY <1>2, <1>3, LaterCosts, LeftIs DEF Over

\* However often tasks fail, are requeued and race, none runs for ever and none is taken up
\* again after its end: each step lowers a natural number.
THEOREM TasksTerminate ==
  TaskSpec => TasksEnd /\ [](\A id \in TaskIds : Work(id) \in Nat)
  <1>1. \A id \in TaskIds : Work(id) = Cost(task[id]) /\ Work(id)' = Cost(task'[id])
    BY DEF Work, Cost
  <1>2. TaskInv => \A id \in TaskIds : Work(id) \in Nat
    BY <1>1, CostIsNat DEF TaskInv, TaskTypeOK
  <1>3. TaskInv /\ [TaskNext]_taskVars =>
          [\A id \in TaskIds : task'[id] # task[id] => Work(id)' < Work(id)]_taskVars
    <2> SUFFICES ASSUME TaskInv, TaskNext, NEW id \in TaskIds, task'[id] # task[id]
                 PROVE  Cost(task'[id]) < Cost(task[id])
      BY <1>1
    <2>1. CASE Dispatch
      BY <2>1, DispatchCosts
    <2>2. ASSUME NEW k \in TaskIds, TaskStep(k) \/ LoseWorker(k)
          PROVE  Cost(task'[id]) < Cost(task[id])
      BY <2>2, StepCosts
    <2>3. QED
      BY <2>1, <2>2 DEF TaskNext
  <1>4. QED
    BY <1>2, <1>3, TasksCorrect, PTL DEF TaskSpec, TasksEnd

-----------------------------------------------------------------------------
(* The implementation of PortalContract.                                   *)

\* The portal as the rows show it.
Routed == {t \in Tenants : HasPrimaryDomain(t)}
Open == {t \in Tenants : tenants[t].status = "READY"}
Opened == {t \in Tenants : tenants[t].provisioned_at}
Reported == {p \in Jobs \X Tenants : jobs[p[1]].tenant = p[2] /\ jobs[p[1]].is_success = "true"}

LEMMA InitPortal == TaskInit => Portal!PortalInit
  BY DEF TaskInit, RegistryInit, NewTenant, NewJob, HasPrimaryDomain, Portal!PortalInit

\* The actions of the contract, in terms of the rows.
LEMMA PortalActions ==
  ASSUME NEW t \in Tenants, NEW j \in Jobs,
         \/ /\ t \notin Routed /\ Routed' = Routed \cup {t}
            /\ UNCHANGED <<Open, Opened, Reported>>
         \/ /\ t \in Routed /\ Open' = Open \cup {t} /\ Opened' = Opened \cup {t}
            /\ UNCHANGED <<Routed, Reported>>
         \/ Open' = Open \ {t} /\ UNCHANGED <<Routed, Opened, Reported>>
         \/ /\ t \in Opened /\ Reported' = Reported \cup {<<j, t>>}
            /\ UNCHANGED <<Routed, Open, Opened>>
         \/ Reported' = Reported \ {<<j, t>>} /\ UNCHANGED <<Routed, Open, Opened>>
         \/ UNCHANGED <<Routed, Open, Opened, Reported>>
  PROVE  [Portal!PortalNext]_(Portal!portalVars)
  <1>1. CASE /\ t \notin Routed /\ Routed' = Routed \cup {t}
             /\ UNCHANGED <<Open, Opened, Reported>>
    <2>1. Portal!Route(t)
      BY <1>1 DEF Portal!Route, Routed, Open, Opened, Reported
    <2>2. QED
      BY <2>1 DEF Portal!PortalNext
  <1>2. CASE /\ t \in Routed /\ Open' = Open \cup {t} /\ Opened' = Opened \cup {t}
             /\ UNCHANGED <<Routed, Reported>>
    <2>1. Portal!Open(t)
      BY <1>2 DEF Portal!Open, Routed, Open, Opened, Reported
    <2>2. QED
      BY <2>1 DEF Portal!PortalNext
  <1>3. CASE Open' = Open \ {t} /\ UNCHANGED <<Routed, Opened, Reported>>
    <2>1. Portal!Close(t)
      BY <1>3 DEF Portal!Close, Routed, Open, Opened, Reported
    <2>2. QED
      BY <2>1 DEF Portal!PortalNext
  <1>4. CASE /\ t \in Opened /\ Reported' = Reported \cup {<<j, t>>}
             /\ UNCHANGED <<Routed, Open, Opened>>
    <2>1. Portal!Report(j, t)
      BY <1>4 DEF Portal!Report, Routed, Open, Opened, Reported
    <2>2. QED
      BY <2>1 DEF Portal!PortalNext
  <1>5. CASE Reported' = Reported \ {<<j, t>>} /\ UNCHANGED <<Routed, Open, Opened>>
    <2>1. Portal!Withdraw(j, t)
      BY <1>5 DEF Portal!Withdraw, Routed, Open, Opened, Reported
    <2>2. QED
      BY <2>1 DEF Portal!PortalNext
  <1>6. CASE UNCHANGED <<Routed, Open, Opened, Reported>>
    <2>1. UNCHANGED Portal!portalVars
      BY <1>6 DEF Portal!portalVars, Routed, Open, Opened, Reported
    <2>2. QED
      BY <2>1
  <1>7. QED
    BY <1>1, <1>2, <1>3, <1>4, <1>5, <1>6

\* What the rows of one job show.
LEMMA JobReports ==
  ASSUME NEW j \in Jobs, NEW t \in Tenants, jobs[j].tenant = t, jobs'[j].tenant = t,
         \A k \in Jobs : k # j => jobs'[k] = jobs[k]
  PROVE  /\ jobs'[j].is_success = "true" => Reported' = Reported \cup {<<j, t>>}
         /\ jobs'[j].is_success # "true" => Reported' = Reported \ {<<j, t>>}
         /\ jobs'[j].is_success = jobs[j].is_success => Reported' = Reported
  <1>1. \A p \in Jobs \X Tenants : p[1] # j => (p \in Reported' <=> p \in Reported)
    BY DEF Reported
  <1>2. \A u \in Tenants : /\ <<j, u>> \in Reported <=> u = t /\ jobs[j].is_success = "true"
                           /\ <<j, u>> \in Reported' <=> u = t /\ jobs'[j].is_success = "true"
    BY DEF Reported
  <1>3. Reported \subseteq Jobs \X Tenants /\ Reported' \subseteq Jobs \X Tenants
    BY DEF Reported
  <1>4. \A p \in Jobs \X Tenants : p = <<p[1], p[2]>> /\ p[1] \in Jobs /\ p[2] \in Tenants
    OBVIOUS
  <1>5. \A p \in Jobs \X Tenants : p[1] = j /\ p # <<j, t>> => p \notin Reported /\ p \notin Reported'
    BY <1>2, <1>4
  <1>6. <<j, t>> \in Jobs \X Tenants
    OBVIOUS
  <1>7. QED
    BY <1>1, <1>2, <1>3, <1>5, <1>6

\* A request opens and closes nothing.
LEMMA RequestsOpenNothing ==
  ASSUME TaskInv, Dispatch
  PROVE  Open' = Open /\ Opened' = Opened
  BY DispatchMoves DEF RequestFrame, Inserted, TaskInv, Owned, Open, Opened

\* A new job reports nothing.
LEMMA NewJobsReportNothing ==
  ASSUME TaskInv, NEW t \in Tenants, NEW j \in Jobs, NewJobFor(t, j)
  PROVE  Reported' = Reported
  <1>1. PICK row \in JobRow : row = NewJob(t) /\ row.is_success = "null"
    BY NewRows
  <1>2. /\ jobs' = [jobs EXCEPT ![j] = row] /\ jobs \in JobTable /\ jobs[j].is_success = "null"
    BY <1>1 DEF NewJobFor, TaskInv, TaskTypeOK, RegistryTypeOK, Owned
  <1>3. jobs'[j] = row /\ \A k \in Jobs : k # j => jobs'[k] = jobs[k]
    BY <1>2 DEF JobTable
  <1>4. QED
    BY <1>1, <1>2, <1>3 DEF Reported

LEMMA DispatchSimulates ==
  ASSUME TaskInv, Dispatch
  PROVE  [Portal!PortalNext]_(Portal!portalVars)
  <1>0. Open' = Open /\ Opened' = Opened /\ jobs \in JobTable /\ domains \subseteq Domain
    BY RequestsOpenNothing DEF TaskInv, TaskTypeOK, RegistryTypeOK
  <1>1. domains' = domains => Routed' = Routed
    BY DEF Routed, HasPrimaryDomain
  <1>2. ASSUME NEW t \in Tenants, RegisterOrganization(t) \/ AddTenant(t)
        PROVE  UNCHANGED <<Routed, Reported>>
    BY <1>1, <1>2 DEF RegisterOrganization, AddTenant, CreateTenantRow, Reported
  <1>3. ASSUME NEW t \in Tenants, NEW id \in TaskIds, NEW j \in Jobs,
               VerifyKyc(t, id, j) \/ Provision(t, id, j)
        PROVE  UNCHANGED <<Routed, Reported>>
    <2>1. UNCHANGED domains /\ (NewJobFor(t, j) \/ UNCHANGED jobs)
      BY <1>3 DEF VerifyKyc, Provision
    <2>2. jobs' = jobs => Reported' = Reported
      BY DEF Reported
    <2>3. QED
      BY <1>1, <2>1, <2>2, NewJobsReportNothing
  <1>4. ASSUME NEW j \in Jobs, NEW id \in TaskIds, RetryJob(j, id)
        PROVE  [Portal!PortalNext]_(Portal!portalVars)
    <2>1. PICK row \in JobRow, k \in Nat : row = jobs[j] /\ k = row.retry_count + 1
      BY <1>0 DEF JobTable, JobRow
    <2>2. /\ jobs[j].tenant # Nobody /\ jobs' = [jobs EXCEPT ![j] = RequeuedJob(row, k)]
          /\ UNCHANGED domains
      BY <1>4, <2>1 DEF RetryJob, RequeuedJob
    <2>3. PICK t \in Tenants : t = jobs[j].tenant
      BY <1>0, <2>2 DEF JobTable, JobRow
    <2>4. /\ jobs'[j].tenant = t /\ jobs'[j].is_success = "null"
          /\ \A i \in Jobs : i # j => jobs'[i] = jobs[i]
      BY <1>0, <2>1, <2>2, <2>3, RequeuedRow DEF JobTable
    <2>5. Reported' = Reported \ {<<j, t>>}
      BY <2>3, <2>4, JobReports
    <2>6. QED
      BY <1>0, <1>1, <2>2, <2>5, PortalActions
  <1>5. ASSUME NEW t \in Tenants, NEW id \in TaskIds, NEW j \in Jobs, NEW e \in Emails,
               NEW inline \in Inlines(t), NEW active \in BOOLEAN,
               AddInAdmin(t, active, e, inline, id, j)
        PROVE  [Portal!PortalNext]_(Portal!portalVars)
    <2>1. PICK d : /\ domains' = domains \cup {d} /\ d.tenant = t /\ Insertable(d)
      <3>1. inline = {} \/ \E d : inline = {d}
        BY DEF Inlines
      <3>2. \A d \in (IF inline = {} THEN {PrimaryDomain(t)} ELSE inline) :
              d.tenant = t /\ Insertable(d)
        BY <1>5 DEF AddInAdmin
      <3>3. domains' = domains \cup (IF inline = {} THEN {PrimaryDomain(t)} ELSE inline)
        BY <1>5 DEF AddInAdmin
      <3>4. QED
        BY <3>1, <3>2, <3>3
    <2>2. Reported' = Reported
      BY <1>5, NewJobsReportNothing DEF AddInAdmin
    <2>3. CASE d.is_primary
      <3>1. ~ HasPrimaryDomain(t)
        BY <2>1, <2>3 DEF Insertable
      <3>2. \A u \in Tenants : HasPrimaryDomain(u)' <=> HasPrimaryDomain(u) \/ u = t
        BY <2>1, <2>3 DEF HasPrimaryDomain
      <3>3. t \notin Routed /\ Routed' = Routed \cup {t}
        BY <3>1, <3>2 DEF Routed
      <3>4. QED
        BY <1>0, <2>2, <3>3, PortalActions
    <2>4. CASE ~ d.is_primary
      <3>1. Routed' = Routed
        BY <2>1, <2>4 DEF Routed, HasPrimaryDomain
      <3>2. QED
        BY <1>0, <2>2, <3>1, PortalActions
    <2>5. QED
      BY <2>3, <2>4
  <1>6. ASSUME UNCHANGED <<Routed, Reported>>
        PROVE  [Portal!PortalNext]_(Portal!portalVars)
    <2>1. UNCHANGED Portal!portalVars
      BY <1>0, <1>6 DEF Portal!portalVars, Routed, Open, Opened, Reported
    <2>2. QED
      BY <2>1
  <1>7. QED
    BY <1>2, <1>3, <1>4, <1>5, <1>6 DEF Dispatch

\* Each step of a task is one action of the contract, or none.
LEMMA TaskSimulates ==
  ASSUME TaskInv, NEW id \in TaskIds, TaskStep(id) \/ LoseWorker(id)
  PROVE  [Portal!PortalNext]_(Portal!portalVars)
  <1>1. task[id].pc # "unused"
    BY DEF TaskStep, LoadJob, Checkpoint, CreatePostgresqlDatabase, CheckPrimaryDomain,
           AddPrimaryDomain, ActivateTenant, CompleteJob, Fail, FailJob, FailTenant, RetryTask,
           Die, LoseWorker, Checkpoints
  <1>2. PICK t \in Tenants, j \in Jobs, row \in JobRow, tr \in TenantRow :
          /\ t = TenantOf(id) /\ j = task[id].job /\ row = jobs[j] /\ row.tenant = t
          /\ tr = tenants[t]
    BY <1>1, TaskAt
  <1>3. jobs \in JobTable /\ tenants \in TenantTable
    BY DEF TaskInv, TaskTypeOK, RegistryTypeOK
  <1>4. /\ domains' = domains => Routed' = Routed
        /\ tenants' = tenants => Open' = Open /\ Opened' = Opened
        /\ jobs' = jobs => Reported' = Reported
    BY DEF Routed, HasPrimaryDomain, Open, Opened, Reported
  <1>5. CASE AddPrimaryDomain(id)
    <2>1. /\ UNCHANGED <<tenants, jobs>> /\ domains' = domains \cup {PrimaryDomain(t)}
          /\ Insertable(PrimaryDomain(t))
      BY <1>2, <1>5 DEF AddPrimaryDomain
    <2>2. PrimaryDomain(t).tenant = t /\ PrimaryDomain(t).is_primary
      BY DEF PrimaryDomain
    <2>3. ~ HasPrimaryDomain(t)
      BY <2>1, <2>2 DEF Insertable
    <2>4. \A u \in Tenants : HasPrimaryDomain(u)' <=> HasPrimaryDomain(u) \/ u = t
      BY <2>1, <2>2 DEF HasPrimaryDomain
    <2>5. t \notin Routed /\ Routed' = Routed \cup {t}
      BY <2>3, <2>4 DEF Routed
    <2>6. QED
      BY <1>4, <2>1, <2>5, PortalActions
  <1>6. CASE ActivateTenant(id)
    <2>1. PICK new \in TenantRow : new = Provisioned(tr) /\ new.status = "READY" /\ new.provisioned_at
      BY TenantRows
    <2>2. UNCHANGED <<domains, jobs>> /\ tenants' = [tenants EXCEPT ![t] = new]
      BY <1>2, <1>6, <2>1 DEF ActivateTenant
    <2>3. Open' = Open \cup {t} /\ Opened' = Opened \cup {t}
      BY <1>3, <2>1, <2>2 DEF TenantTable, Open, Opened
    <2>4. t \in Routed
      BY <1>1, <1>2, <1>6 DEF ActivateTenant, TaskInv, Achieved, Routed
    <2>5. QED
      BY <1>4, <2>2, <2>3, <2>4, PortalActions
  <1>7. CASE FailTenant(id)
    <2>1. PICK new \in TenantRow :
            new = Failed(tr) /\ new.status = "FAILED" /\ new.provisioned_at = tr.provisioned_at
      BY FailedTenant
    <2>2. UNCHANGED <<domains, jobs>> /\ tenants' = [tenants EXCEPT ![t] = new]
      <3>1. UNCHANGED <<domains, jobs>> /\ tenants' = [tenants EXCEPT ![t] =
                          [tenants[t] EXCEPT !.status = "FAILED", !.is_active = FALSE]]
        BY <1>2, <1>7 DEF FailTenant
      <3>2. QED
        BY <1>2, <2>1, <3>1 DEF Failed
    <2>3. Open' = Open \ {t} /\ Opened' = Opened
      BY <1>2, <1>3, <2>1, <2>2 DEF TenantTable, Open, Opened
    <2>4. QED
      BY <1>4, <2>2, <2>3, PortalActions
  <1>8. CASE CompleteJob(id)
    <2>1. /\ UNCHANGED <<domains, tenants>> /\ jobs' = [jobs EXCEPT ![j] = DoneJob(row)]
      BY <1>2, <1>8 DEF CompleteJob, DoneJob
    <2>2. /\ jobs'[j].tenant = t /\ jobs'[j].is_success = "true"
          /\ \A k \in Jobs : k # j => jobs'[k] = jobs[k]
      BY <1>2, <1>3, <2>1, DoneRow DEF JobTable
    <2>3. Reported' = Reported \cup {<<j, t>>}
      BY <1>2, <2>2, JobReports
    <2>4. t \in Opened
      BY <1>1, <1>2, <1>8 DEF CompleteJob, TaskInv, Achieved, Opened
    <2>5. QED
      BY <1>4, <2>1, <2>3, <2>4, PortalActions
  <1>9. CASE FailJob(id)
    <2>1. PICK k \in Nat : k = task[id].retries
      BY <1>1, TaskAt, TaskAssumption DEF TaskState
    <2>2. /\ UNCHANGED <<domains, tenants>> /\ jobs' = [jobs EXCEPT ![j] = FailedJob(row, k)]
      BY <1>2, <1>9, <2>1 DEF FailJob, FailedJob
    <2>3. /\ jobs'[j].tenant = t /\ jobs'[j].is_success = "false"
          /\ \A i \in Jobs : i # j => jobs'[i] = jobs[i]
      BY <1>2, <1>3, <2>2, FailedRow DEF JobTable
    <2>4. Reported' = Reported \ {<<j, t>>}
      BY <1>2, <2>3, JobReports
    <2>5. QED
      BY <1>4, <2>2, <2>4, PortalActions
  <1>10. CASE Checkpoint(id)
    <2>1. PICK l \in Steps : l = task[id].pc
      BY <1>10, CheckpointSteps DEF Checkpoint
    <2>2. /\ UNCHANGED <<domains, tenants>>
          /\ jobs' = [jobs EXCEPT ![j] = [row EXCEPT !.current_step = l]]
      BY <1>2, <1>10, <2>1 DEF Checkpoint
    <2>3. /\ jobs'[j].tenant = t /\ jobs'[j].is_success = jobs[j].is_success
          /\ \A i \in Jobs : i # j => jobs'[i] = jobs[i]
      BY <1>2, <1>3, <2>2, CheckpointRow DEF JobTable
    <2>4. Reported' = Reported
      BY <1>2, <2>3, JobReports
    <2>5. QED
      BY <1>4, <2>2, <2>4, PortalActions
  <1>11. CASE UNCHANGED <<tenants, jobs, domains>>
    BY <1>2, <1>4, <1>11, PortalActions
  <1>12. QED
    BY <1>5, <1>6, <1>7, <1>8, <1>9, <1>10, <1>11
    DEF TaskStep, LoadJob, CreatePostgresqlDatabase, CheckPrimaryDomain, Fail, RetryTask, Die,
        LoseWorker, registryVars

LEMMA TaskStepSimulates ==
  ASSUME TaskInv, [TaskNext]_taskVars
  PROVE  [Portal!PortalNext]_(Portal!portalVars)
  <1>1. CASE Dispatch
    BY <1>1, DispatchSimulates
  <1>2. ASSUME NEW id \in TaskIds, TaskStep(id) \/ LoseWorker(id)
        PROVE  [Portal!PortalNext]_(Portal!portalVars)
    BY <1>2, TaskSimulates
  <1>3. CASE UNCHANGED taskVars
    BY <1>3 DEF taskVars, registryVars, Portal!portalVars, HasPrimaryDomain
  <1>4. QED
    BY <1>1, <1>2, <1>3 DEF TaskNext

\* The asynchronous engine implements the same portal contract as the synchronous one,
\* retries, rival tasks and jobs that are put back on the queue included.
THEOREM TaskImplementsPortal == TaskSpec => RefinesPortal
  BY TasksCorrect, InitPortal, TaskStepSimulates, PTL
     DEF TaskSpec, RefinesPortal, Portal!PortalSpec
=============================================================================
