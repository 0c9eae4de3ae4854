---------------------------- MODULE ProvisionTask ----------------------------
(***************************************************************************)
(* The asynchronous provisioning engine: the Celery task                   *)
(* provision_tenant_database_task and the five requests that dispatch it.  *)
(* A task id names one message on the broker and all its retries; several  *)
(* tasks, even of one job, run on different workers at the same time.      *)
(***************************************************************************)
EXTENDS TenantRegistry

CONSTANTS
  TaskIds,      \* Celery task ids, bounds the tasks ever dispatched
  MaxRetries,   \* max_retries of the task, 3 in the code
  MaxRequeues   \* bounds how often staff press "retry" on one job

ASSUME TaskAssumption == MaxRetries \in Nat /\ MaxRequeues \in Nat

VARIABLE task   \* where the execution of a task is, and what it has in memory

taskVars == <<registryVars, externalVars, task>>

Following ==
  [VALIDATE                 |-> "CREATE_DB",
   CREATE_DB                |-> "create_database",
   create_database          |-> "RUN_FINERACT_SCHEMA",
   RUN_FINERACT_SCHEMA      |-> "REGISTER_FINERACT_TENANT",
   REGISTER_FINERACT_TENANT |-> "ACTIVATE",
   ACTIVATE                 |-> "check_domain",
   create_primary_domain    |-> "set_ready",
   set_ready                |-> "finish_job",
   finish_job               |-> "done",
   record_failure           |-> "mark_failed",
   mark_failed              |-> "retry"]

Checkpoints == {"VALIDATE", "CREATE_DB", "RUN_FINERACT_SCHEMA", "REGISTER_FINERACT_TENANT",
                "ACTIVATE"}

\* The task succeeded; gave up after recording the failure; left by an exception that
\* nothing records; died with its worker, which had acknowledged the message.
Over == {"done", "exhausted", "dead", "lost"}

TaskLabel == DOMAIN Following \cup {"unused", "queued", "check_domain", "retry"} \cup Over

TaskState == [pc : TaskLabel, job : Jobs \cup {Nobody}, retries : 0 .. MaxRetries,
              db_name : BOOLEAN]

TaskTypeOK == RegistryTypeOK /\ task \in [TaskIds -> TaskState]

TaskInit ==
  /\ RegistryInit
  /\ task = [id \in TaskIds |-> [pc |-> "unused", job |-> Nobody, retries |-> 0,
                                 db_name |-> FALSE]]

TenantOf(id) == jobs[task[id].job].tenant
Continue(id) == task' = [task EXCEPT ![id].pc = Following[task[id].pc]]
GoTo(id, label) == task' = [task EXCEPT ![id].pc = label]

-----------------------------------------------------------------------------
(* The requests that dispatch the task.                                    *)

\* .delay(job): a message, or an exception out of the view when the broker is down.
Delay(id, j) ==
  /\ task[id].pc = "unused"
  /\ \/ task' = [task EXCEPT ![id].pc = "queued", ![id].job = j]
     \/ "broker" \in Faults /\ UNCHANGED task

NewJobFor(t, j) == jobs[j].tenant = Nobody /\ jobs' = [jobs EXCEPT ![j] = NewJob(t)]

\* POST /organizations: the tenant row exists from then on, nothing is dispatched.
RegisterOrganization(t) ==
  /\ ~ tenants[t].exists
  /\ tenants' = [tenants EXCEPT ![t] = NewTenant(TRUE)]
  /\ UNCHANGED <<kyc, domains, users, jobs, credentials, audit, externalVars, task>>

AddTenant(t) == CreateTenantRow(t) /\ UNCHANGED task

VerifyKyc(t, id, j) ==
  /\ tenants[t].exists
  /\ kyc' = [kyc EXCEPT ![t] = TRUE]
  /\ \/ tenants[t].status = "PENDING" /\ NewJobFor(t, j) /\ Delay(id, j)
     \/ tenants[t].status # "PENDING" /\ UNCHANGED <<jobs, task>>
  /\ UNCHANGED <<tenants, domains, users, credentials, audit, externalVars>>

\* POST /tenants/<id>/provision: neither the status nor the KYC flag is looked at.
Provision(t, id, j) ==
  /\ tenants[t].exists
  /\ NewJobFor(t, j) /\ Delay(id, j)
  /\ UNCHANGED <<tenants, kyc, domains, users, credentials, audit, externalVars>>

\* POST /provision-jobs/<id>/retry, whatever the job's outcome so far.
RetryJob(j, id) ==
  /\ jobs[j].tenant # Nobody /\ jobs[j].retry_count < MaxRequeues
  /\ jobs' = [jobs EXCEPT ![j] = [jobs[j] EXCEPT !.retry_count = jobs[j].retry_count + 1,
                                     !.is_success = "null", !.error_message = FALSE]]
  /\ Delay(id, j)
  /\ UNCHANGED <<tenants, kyc, domains, users, credentials, audit, externalVars>>

\* The add form of TenantAdmin, one transaction: the form refuses an address in use, the
\* domain inline may name a host, else the platform subdomain becomes the primary one.
AddInAdmin(t, active, e, inline, id, j) ==
  LET added == IF inline = {} THEN {PrimaryDomain(t)} ELSE inline
  IN  /\ ~ tenants[t].exists /\ users[e] = Nobody
      /\ \A d \in added : d.tenant = t /\ Insertable(d)
      /\ tenants' = [tenants EXCEPT ![t] = [NewTenant(TRUE) EXCEPT !.is_active = active]]
      /\ users' = [users EXCEPT ![e] = t]
      /\ domains' = domains \cup added
      /\ NewJobFor(t, j) /\ Delay(id, j)
      /\ UNCHANGED <<kyc, credentials, audit, externalVars>>

-----------------------------------------------------------------------------
(* provision_tenant_database_task.                                         *)

\* A worker takes the message, loads job and tenant, and saves celery_task_id; an
\* exception here is outside the try block, and nothing retries it.
LoadJob(id) ==
  /\ task[id].pc = "queued"
  /\ task' = [task EXCEPT ![id].pc = "VALIDATE", ![id].db_name = tenants[TenantOf(id)].db_name]
  /\ UNCHANGED <<registryVars, externalVars>>

\* A checkpoint is saved; the one of VALIDATE also needs a db_name to go on.
Checkpoint(id) ==
  /\ task[id].pc \in Checkpoints
  /\ jobs' = [jobs EXCEPT ![task[id].job].current_step = task[id].pc]
  /\ IF task[id].pc = "VALIDATE" /\ ~ task[id].db_name
       THEN GoTo(id, "record_failure")
       ELSE Continue(id)
  /\ UNCHANGED <<tenants, kyc, domains, users, credentials, audit, externalVars>>

\* A slip: an except clause that takes every error for "already exists".
CreateDatabaseSwallowing(id) ==
  /\ task[id].pc = "create_database"
  /\ \/ databases' = [databases EXCEPT ![TenantOf(id)] = IF @ = "none" THEN "registry" ELSE @]
     \/ "postgres" \in Faults /\ UNCHANGED databases
  /\ Continue(id)
  /\ UNCHANGED <<registryVars, roles, fineract, outbox>>

\* "already exists" counts as done; the registry's own role owns the database.
CreatePostgresqlDatabase(id) ==
  /\ task[id].pc = "create_database"
  /\ databases' = [databases EXCEPT ![TenantOf(id)] = IF @ = "none" THEN "registry" ELSE @]
  /\ Continue(id)
  /\ UNCHANGED <<registryVars, roles, fineract, outbox>>

\* A slip: asking for any domain, as the admin form does, and not for a primary one.
CheckAnyDomain(id) ==
  /\ task[id].pc = "check_domain"
  /\ GoTo(id, IF \E d \in domains : d.tenant = TenantOf(id)
                THEN "set_ready" ELSE "create_primary_domain")
  /\ UNCHANGED <<registryVars, externalVars>>

CheckPrimaryDomain(id) ==
  /\ task[id].pc = "check_domain"
  /\ GoTo(id, IF HasPrimaryDomain(TenantOf(id)) THEN "set_ready" ELSE "create_primary_domain")
  /\ UNCHANGED <<registryVars, externalVars>>

AddPrimaryDomain(id) ==
  /\ task[id].pc = "create_primary_domain"
  /\ Insertable(PrimaryDomain(TenantOf(id)))
  /\ domains' = domains \cup {PrimaryDomain(TenantOf(id))}
  /\ Continue(id)
  /\ UNCHANGED <<tenants, kyc, users, jobs, credentials, audit, externalVars>>

ActivateTenant(id) ==
  /\ task[id].pc = "set_ready"
  /\ tenants' = [tenants EXCEPT ![TenantOf(id)] = Provisioned(@)]
  /\ OnTenantSave(TenantOf(id), "READY")
  /\ Continue(id)
  /\ UNCHANGED <<kyc, domains, users, jobs, credentials, audit, roles, databases, fineract>>

CompleteJob(id) ==
  /\ task[id].pc = "finish_job"
  /\ jobs' = [jobs EXCEPT ![task[id].job] = [@ EXCEPT !.current_step = "DONE",
                !.is_success = "true", !.finished_at = TRUE]]
  /\ Continue(id)
  /\ UNCHANGED <<tenants, kyc, domains, users, credentials, audit, externalVars>>

Fail(id) ==
  /\ LET pc == task[id].pc
     IN  \/ /\ "registry" \in Faults
            /\ pc \in Checkpoints \cup {"check_domain", "create_primary_domain", "set_ready",
                                        "finish_job"}
         \/ "postgres" \in Faults /\ pc = "create_database"
         \/ /\ pc = "create_primary_domain"
            /\ ~ Insertable(PrimaryDomain(TenantOf(id)))
  /\ GoTo(id, "record_failure")
  /\ UNCHANGED <<registryVars, externalVars>>

FailJob(id) ==
  /\ task[id].pc = "record_failure"
  /\ jobs' = [jobs EXCEPT ![task[id].job] = [@ EXCEPT !.is_success = "false",
                !.error_message = TRUE, !.retry_count = task[id].retries]]
  /\ Continue(id)
  /\ UNCHANGED <<tenants, kyc, domains, users, credentials, audit, externalVars>>

\* A slip: saving the failure on the job only.
FailJobOnly(id) ==
  /\ task[id].pc = "mark_failed"
  /\ Continue(id)
  /\ UNCHANGED <<registryVars, externalVars>>

FailTenant(id) ==
  /\ task[id].pc = "mark_failed"
  /\ tenants' = [tenants EXCEPT ![TenantOf(id)].status = "FAILED",
                                ![TenantOf(id)].is_active = FALSE]
  /\ Continue(id)
  /\ UNCHANGED <<kyc, domains, users, jobs, credentials, audit, externalVars>>

\* A slip: queueing the task anew, where self.retry would count the attempts.
RetryUncounted(id) ==
  /\ task[id].pc = "retry"
  /\ GoTo(id, "queued")
  /\ UNCHANGED <<registryVars, externalVars>>

\* self.retry: a new message after the countdown, or the end when the retries are used
\* up or the broker does not take it.
RetryTask(id) ==
  /\ task[id].pc = "retry"
  /\ \/ /\ task[id].retries < MaxRetries
        /\ task' = [task EXCEPT ![id].pc = "queued", ![id].retries = @ + 1]
     \/ /\ task[id].retries = MaxRetries \/ "broker" \in Faults
        /\ GoTo(id, "exhausted")
  /\ UNCHANGED <<registryVars, externalVars>>

\* The saves before the try block and in the handler are not protected.
Die(id) ==
  /\ "registry" \in Faults
  /\ task[id].pc \in {"queued", "record_failure", "mark_failed"}
  /\ GoTo(id, "dead")
  /\ UNCHANGED <<registryVars, externalVars>>

\* The worker is killed; the message was acknowledged when the task started.
LoseWorker(id) ==
  /\ "crash" \in Faults
  /\ task[id].pc \notin Over \cup {"unused", "queued"}
  /\ GoTo(id, "lost")
  /\ UNCHANGED <<registryVars, externalVars>>

-----------------------------------------------------------------------------
TaskStep(id) ==
  \/ LoadJob(id) \/ Checkpoint(id) \/ CreatePostgresqlDatabase(id)
  \/ CheckPrimaryDomain(id) \/ AddPrimaryDomain(id) \/ ActivateTenant(id) \/ CompleteJob(id)
  \/ Fail(id) \/ FailJob(id) \/ FailTenant(id) \/ RetryTask(id) \/ Die(id)

\* At most one row in the domain inline; its hostname is typed by hand.
Inlines(t) == {{}} \cup {{d} : d \in [hostname : Hostnames, tenant : {t}, is_primary : BOOLEAN]}

Dispatch ==
  \/ \E t \in Tenants : RegisterOrganization(t) \/ AddTenant(t)
  \/ \E id \in TaskIds, j \in Jobs : RetryJob(j, id)
  \/ \E t \in Tenants, id \in TaskIds, j \in Jobs : VerifyKyc(t, id, j) \/ Provision(t, id, j)
  \/ \E t \in Tenants, id \in TaskIds, j \in Jobs, e \in Emails :
       \E inline \in Inlines(t), active \in BOOLEAN : AddInAdmin(t, active, e, inline, id, j)

TaskNext == \/ Dispatch
            \/ \E id \in TaskIds : TaskStep(id)
            \/ \E id \in TaskIds : LoseWorker(id)

TaskSpec == TaskInit /\ [][TaskNext]_taskVars

\* Workers keep taking messages and executing; no request has to be made.
FairTaskSpec == TaskSpec /\ \A id \in TaskIds : WF_taskVars(TaskStep(id))

-----------------------------------------------------------------------------
TasksOf(t) == {id \in TaskIds : task[id].pc # "unused" /\ TenantOf(id) = t}

\* When all tasks of a tenant are over, the tenant is where they say: READY when all
\* succeeded, although some failed on the way and wrote FAILED; closed and inactive when
\* all gave up.  Retries, rival tasks and lost follow-ups must not leave another status.
TasksDecideStatus ==
  \A t \in Tenants : TasksOf(t) # {} =>
    /\ (\A id \in TasksOf(t) : task[id].pc = "done") => tenants[t].status = "READY"
    /\ (\A id \in TasksOf(t) : task[id].pc = "exhausted") =>
         tenants[t].status = "FAILED" /\ ~ tenants[t].is_active

\* A READY tenant has the Postgres database that its db_name points to.
ReadyHasDatabase ==
  \A t \in Tenants : tenants[t].status = "READY" => tenants[t].db_name /\ databases[t] # "none"

\* A dispatched task brings its tenant to a decision, whatever Postgres and the broker do.
QueuedTaskSettles ==
  \A id \in TaskIds :
    task[id].pc = "queued" ~> (task[id].pc \in Over /\ tenants[TenantOf(id)].status # "PENDING")

\* The statements left in an attempt that fails as late as it can, counted from each label.
Left ==
  [unused |-> 15, queued |-> 14, VALIDATE |-> 13, CREATE_DB |-> 12, create_database |-> 11,
   RUN_FINERACT_SCHEMA |-> 10, REGISTER_FINERACT_TENANT |-> 9, ACTIVATE |-> 8,
   check_domain |-> 7, create_primary_domain |-> 6, set_ready |-> 5, finish_job |-> 4,
   record_failure |-> 3, mark_failed |-> 2, retry |-> 1]

\* The statements a task may still execute: those of this attempt, and 14 for each retry.
Work(id) == IF task[id].pc \in Over THEN 0
              ELSE Left[task[id].pc] + 14 * (MaxRetries - task[id].retries)

\* No task runs for ever, and none is taken up again: whatever fails, whoever requeues its
\* job, and whatever rival tasks do, each step of a task uses up some of its work.
TasksEnd ==
  [][\A id \in TaskIds : task'[id] # task[id] => Work(id)' < Work(id)]_taskVars
=============================================================================
