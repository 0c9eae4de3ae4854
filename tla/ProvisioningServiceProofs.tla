---------------------- MODULE ProvisioningServiceProofs ----------------------
(***************************************************************************)
(* Proofs about ProvisioningService, for any sets of tenants, jobs and      *)
(* addresses and any faults: runs may overlap in any way, except in the    *)
(* theorems that say so, where staff retry one run after the other.        *)
(***************************************************************************)
EXTENDS ProvisioningService, TLAPS

\* The steps of a job, spelled out.
LEMMA StepNames ==
  Steps = {"VALIDATE", "CREATE_DB", "CREATE_DB_USER", "GRANT_PERMISSIONS",
           "RUN_FINERACT_SCHEMA", "REGISTER_FINERACT_TENANT", "SAVE_REGISTRY",
           "CREATE_ADMIN_USER", "SEND_WELCOME_EMAIL", "ACTIVATE", "DONE"}
  <1>1. 1 .. 11 = {1, 2, 3, 4, 5, 6, 7, 8, 9, 10, 11}
    OBVIOUS
  <1>2. QED
    BY <1>1 DEF Steps, StepOrder

\* The labels the actions name are labels of the program, and every statement is
\* followed by a statement or by the end of the run.
LEMMA Labels ==
  /\ {"unused", "begin", "default_db_name", "CREATE_DB", "create_role", "check_database",
      "create_database", "save_db_user", "SEND_WELCOME_EMAIL", "create_tenant_user",
      "ready", "record_failure", "mark_failed", "undo_create_admin_user",
      "undo_register_fineract_tenant", "undo_create_db_user", "undo_create_db",
      "aborted", "crashed"} \subseteq Label
  /\ \A l \in DOMAIN After : After[l] \in Label
  BY DEF After, Label, Ended

\* The labels that are followed by another one.
LEMMA Statements ==
  /\ {"default_db_name", "create_role", "create_database", "save_db_user",
      "store_credential", "grant", "initializing", "create_tenant", "save_identifier",
      "create_tenant_user", "send_welcome_email", "create_primary_domain", "set_ready",
      "record_failure", "undo_create_admin_user", "undo_register_fineract_tenant",
      "write_audit"} \subseteq DOMAIN After
  /\ Bookkeeping \subseteq DOMAIN After /\ Bookkeeping \subseteq Steps
  /\ DropsDatabase \subseteq DOMAIN After /\ DropsRole \subseteq DOMAIN After
  /\ \A l \in DropsDatabase : After[l] \in DOMAIN After
  BY StepNames DEF After, Bookkeeping, DropsDatabase, DropsRole

\* A request that goes to a label of the program keeps the type of its memory.
LEMMA JumpType ==
  ASSUME run \in Memory, NEW j \in Jobs, NEW l \in Label, Jump(j, l)
  PROVE  run' \in Memory
  BY DEF Jump, Memory, RunState

\* So does going on to the statement that follows.
LEMMA AdvanceType ==
  ASSUME run \in Memory, NEW j \in Jobs, run[j].pc \in DOMAIN After, Advance(j)
  PROVE  run' \in Memory
  <1>1. After[run[j].pc] \in Label
    BY Labels
  <1>2. QED
    BY <1>1 DEF Advance, Memory, RunState

\* What a request does to its memory besides.
LEMMA RunStates ==
  ASSUME NEW q \in RunState, NEW l \in Label
  PROVE  /\ [q EXCEPT !.pc = l, !.swallowed = TRUE] \in RunState
         /\ [q EXCEPT !.pc = l, !.db_name = TRUE] \in RunState
         /\ \A step \in Steps : [q EXCEPT !.pc = l, !.current = step] \in RunState
         /\ \A name, id \in BOOLEAN :
              [q EXCEPT !.pc = l, !.db_name = name, !.identifier = id] \in RunState
  BY DEF RunState

LEMMA RunGoesOn ==
  ASSUME run \in Memory, NEW j \in Jobs, NEW next \in RunState,
         run' = [run EXCEPT ![j] = next]
  PROVE  run' \in Memory
  BY DEF Memory

LEMMA SwallowType ==
  ASSUME run \in Memory, NEW j \in Jobs, NEW l \in Label,
         run' = [run EXCEPT ![j].pc = l, ![j].swallowed = TRUE]
  PROVE  run' \in Memory
  <1>1. run[j] \in RunState
    BY DEF Memory
  <1>2. [run[j] EXCEPT !.pc = l, !.swallowed = TRUE] \in RunState
    BY <1>1, RunStates
  <1>3. run' = [run EXCEPT ![j] = [run[j] EXCEPT !.pc = l, !.swallowed = TRUE]]
    OBVIOUS
  <1>4. QED
    BY <1>2, <1>3, RunGoesOn

\* What a request saves of a tenant is a row.
LEMMA SavedRows ==
  ASSUME NEW row \in TenantRow
  PROVE  /\ \A s \in Status : [row EXCEPT !.status = s] \in TenantRow
         /\ [row EXCEPT !.db_name = TRUE] \in TenantRow
         /\ [row EXCEPT !.db_user = TRUE] \in TenantRow
         /\ [row EXCEPT !.identifier = TRUE] \in TenantRow
         /\ Provisioned(row) \in TenantRow
  BY DEF TenantRow, Status, Provisioned

LEMMA TenantSaved ==
  ASSUME tenants \in TenantTable, NEW t, NEW row, tenants' = [tenants EXCEPT ![t] = row],
         t \in Tenants => row \in TenantRow
  PROVE  tenants' \in TenantTable
  BY DEF TenantTable

-----------------------------------------------------------------------------
\* What every reachable state has besides its types: a job belongs to a tenant whose row
\* exists, a request runs only for a job that has been created, a row that does not exist
\* is the blank one, and a job that was not created has no outcome.
Owned ==
  /\ \A j \in Jobs : T(j) # Nobody => tenants[T(j)].exists
  /\ \A j \in Jobs : run[j].pc # "unused" => T(j) # Nobody
  /\ \A t \in Tenants : ~ tenants[t].exists =>
       tenants[t].status = "PENDING" /\ ~ tenants[t].provisioned_at
  /\ \A j \in Jobs : T(j) = Nobody => jobs[j].is_success = "null"

\* What a run has achieved when it gets to the last two statements.
Achieved ==
  /\ \A j \in Jobs : run[j].pc = "set_ready" => HasPrimaryDomain(T(j))
  /\ \A j \in Jobs : run[j].pc = "finish_job" => tenants[T(j)].provisioned_at

IInv == ServiceTypeOK /\ Owned /\ Achieved /\ ReadyHasPrimaryDomain /\ SuccessMeansProvisioned

\* Initially every row is blank and nothing runs.
LEMMA InitIInv == ServiceInit => IInv
  <1> SUFFICES ASSUME ServiceInit PROVE IInv
    OBVIOUS
  <1> USE DEF ServiceInit, RegistryInit
  <1>1. tenants \in TenantTable
    BY DEF TenantTable, TenantRow, NewTenant, Status
  <1>2. jobs \in JobTable
    BY StepNames DEF JobTable, JobRow, NewJob
  <1>3. run \in Memory
    BY StepNames, Labels DEF Memory, RunState
  <1>4. kyc \in [Tenants -> BOOLEAN] /\ users \in UserTable
    BY DEF UserTable
  <1>5. credentials \in Passwords /\ roles \in Passwords
    BY DEF Passwords
  <1>6. databases \in DatabaseOf /\ fineract \in FineractOf
    BY DEF DatabaseOf, FineractOf
  <1>7. domains \in SUBSET Domain /\ audit \in AuditLog /\ outbox \in Enqueued
    BY DEF AuditLog, Enqueued
  <1>8. ServiceTypeOK
    BY <1>1, <1>2, <1>3, <1>4, <1>5, <1>6, <1>7 DEF ServiceTypeOK, RegistryTypeOK
  <1>9. Owned /\ Achieved /\ ReadyHasPrimaryDomain /\ SuccessMeansProvisioned
    BY DEF Owned, Achieved, ReadyHasPrimaryDomain, SuccessMeansProvisioned, T, NewTenant, NewJob
  <1>10. QED
    BY <1>8, <1>9 DEF IInv

-----------------------------------------------------------------------------
\* A run that is somewhere has a job of a tenant.
LEMMA RunHasTenant ==
  ASSUME ServiceTypeOK, Owned, NEW j \in Jobs, run[j].pc # "unused"
  PROVE  T(j) \in Tenants
  BY DEF ServiceTypeOK, RegistryTypeOK, Owned, T, JobTable, JobRow

\* Side effects of a save enqueue tasks this model knows.
LEMMA OutboxType ==
  ASSUME RegistryTypeOK, NEW t \in Tenants, NEW task \in CeleryTask, BestEffort(task, t)
  PROVE  outbox' \in Enqueued
  BY DEF RegistryTypeOK, BestEffort, Enqueued

\* Requests keep the types.
LEMMA RequestType ==
  ASSUME ServiceTypeOK, Owned, Request
  PROVE  ServiceTypeOK'
  <1> USE DEF ServiceTypeOK, RegistryTypeOK, externalVars
  <1>1. CASE \E t \in Tenants : CreateOrganization(t) \/ PostTenant(t)
    <2> PICK t \in Tenants : CreateOrganization(t) \/ PostTenant(t)
      BY <1>1
    <2>1. NewTenant(TRUE) \in TenantRow /\ NewTenant(FALSE) \in TenantRow
      BY DEF NewTenant, TenantRow, Status
    <2>2. CASE CreateOrganization(t)
      <3>1. tenants' \in TenantTable
        BY <2>1, <2>2 DEF CreateOrganization, TenantTable
      <3>2. QED
        BY <2>2, <3>1 DEF CreateOrganization
    <2>3. CASE PostTenant(t)
      <3>1. tenants' \in TenantTable
        BY <2>1, <2>3 DEF PostTenant, CreateTenantRow, TenantTable
      <3>2. QED
        BY <2>3, <3>1 DEF PostTenant, CreateTenantRow
    <2>4. QED
      BY <2>2, <2>3
  <1>2. CASE \E t \in Tenants, j \in Jobs : StartRun(t, j)
    <2> PICK t \in Tenants, j \in Jobs : StartRun(t, j)
      BY <1>2
    <2>1. jobs' \in JobTable
      BY StepNames DEF StartRun, JobTable, JobRow, NewJob
    <2>2. run' \in Memory
      <3>1. /\ run[j] \in RunState /\ "begin" \in Label
            /\ tenants[t].db_name \in BOOLEAN /\ tenants[t].identifier \in BOOLEAN
        BY Labels DEF Memory, TenantTable, TenantRow
      <3>2. run' = [run EXCEPT ![j] = [run[j] EXCEPT !.pc = "begin",
                      !.db_name = tenants[t].db_name, !.identifier = tenants[t].identifier]]
        BY DEF StartRun
      <3>3. QED
        BY <3>1, <3>2, RunStates, RunGoesOn
    <2>3. QED
      BY <2>1, <2>2 DEF StartRun
  <1>3. QED
    BY <1>1, <1>2 DEF Request

\* Statements of run() that save the tenant.
LEMMA TenantSaveType ==
  ASSUME ServiceTypeOK, Owned, NEW j \in Jobs,
         \/ BeginRun(j) \/ DefaultDbName(j) \/ SaveDbUser(j) \/ SetInitializing(j)
         \/ SaveIdentifier(j) \/ SetReady(j) \/ MarkFailed(j)
  PROVE  ServiceTypeOK'
  <1> USE DEF ServiceTypeOK, RegistryTypeOK, externalVars
  <1>1. CASE BeginRun(j)
    <2>1. tenants' \in TenantTable
      <3>1. tenants' = [tenants EXCEPT ![T(j)] = [tenants[T(j)] EXCEPT !.status = "PROVISIONING"]]
        BY <1>1 DEF BeginRun
      <3>2. T(j) \in Tenants => [tenants[T(j)] EXCEPT !.status = "PROVISIONING"] \in TenantRow
        BY SavedRows DEF TenantTable, Status
      <3>3. QED
        BY <3>1, <3>2, TenantSaved
    <2>2. run' \in Memory
      BY <1>1, JumpType, Labels DEF BeginRun
    <2>3. QED
      BY <1>1, <2>1, <2>2 DEF BeginRun
  <1>2. CASE DefaultDbName(j)
    <2>1. tenants' \in TenantTable
      <3>1. tenants' = [tenants EXCEPT ![T(j)] = [tenants[T(j)] EXCEPT !.db_name = TRUE]]
        BY <1>2 DEF DefaultDbName
      <3>2. T(j) \in Tenants => [tenants[T(j)] EXCEPT !.db_name = TRUE] \in TenantRow
        BY SavedRows DEF TenantTable
      <3>3. QED
        BY <3>1, <3>2, TenantSaved
    <2>2. run' \in Memory
      <3>1. run[j] \in RunState /\ After[run[j].pc] \in Label
        BY <1>2, Labels, Statements DEF DefaultDbName, Memory
      <3>2. run' = [run EXCEPT ![j] = [run[j] EXCEPT !.pc = After[run[j].pc], !.db_name = TRUE]]
        BY <1>2 DEF DefaultDbName
      <3>3. QED
        BY <3>1, <3>2, RunStates, RunGoesOn
    <2>3. QED
      BY <1>2, <2>1, <2>2 DEF DefaultDbName
  <1>3. CASE SaveDbUser(j)
    <2>1. tenants' \in TenantTable
      <3>1. tenants' = [tenants EXCEPT ![T(j)] = [tenants[T(j)] EXCEPT !.db_user = TRUE]]
        BY <1>3 DEF SaveDbUser
      <3>2. T(j) \in Tenants => [tenants[T(j)] EXCEPT !.db_user = TRUE] \in TenantRow
        BY SavedRows DEF TenantTable
      <3>3. QED
        BY <3>1, <3>2, TenantSaved
    <2>2. run' \in Memory
      BY <1>3, AdvanceType, Statements DEF SaveDbUser
    <2>3. QED
      BY <1>3, <2>1, <2>2 DEF SaveDbUser
  <1>4. CASE SetInitializing(j)
    <2>1. tenants' \in TenantTable
      <3>1. tenants' = [tenants EXCEPT ![T(j)] = [tenants[T(j)] EXCEPT !.status = "INITIALIZING"]]
        BY <1>4 DEF SetInitializing
      <3>2. T(j) \in Tenants => [tenants[T(j)] EXCEPT !.status = "INITIALIZING"] \in TenantRow
        BY SavedRows DEF TenantTable, Status
      <3>3. QED
        BY <3>1, <3>2, TenantSaved
    <2>2. run' \in Memory
      BY <1>4, AdvanceType, Statements DEF SetInitializing
    <2>3. QED
      BY <1>4, <2>1, <2>2 DEF SetInitializing
  <1>5. CASE SaveIdentifier(j)
    <2>1. tenants' \in TenantTable
      <3>1. tenants' = [tenants EXCEPT ![T(j)] = [tenants[T(j)] EXCEPT !.identifier = TRUE]]
        BY <1>5 DEF SaveIdentifier
      <3>2. T(j) \in Tenants => [tenants[T(j)] EXCEPT !.identifier = TRUE] \in TenantRow
        BY SavedRows DEF TenantTable
      <3>3. QED
        BY <3>1, <3>2, TenantSaved
    <2>2. run' \in Memory
      BY <1>5, AdvanceType, Statements DEF SaveIdentifier
    <2>3. QED
      BY <1>5, <2>1, <2>2 DEF SaveIdentifier
  <1>6. CASE SetReady(j)
    <2>1. tenants' \in TenantTable
      <3>1. tenants' = [tenants EXCEPT ![T(j)] = Provisioned(tenants[T(j)])]
        BY <1>6 DEF SetReady
      <3>2. T(j) \in Tenants => Provisioned(tenants[T(j)]) \in TenantRow
        BY SavedRows DEF TenantTable
      <3>3. QED
        BY <3>1, <3>2, TenantSaved
    <2>2. run' \in Memory
      BY <1>6, AdvanceType, Statements DEF SetReady
    <2>3. T(j) \in Tenants
      BY <1>6, RunHasTenant DEF SetReady
    <2>4. BestEffort("send_tenant_activated_email", T(j))
      BY <1>6 DEF SetReady, OnTenantSave
    <2>5. outbox' \in Enqueued
      BY <2>3, <2>4, OutboxType DEF CeleryTask
    <2>6. QED
      BY <1>6, <2>1, <2>2, <2>5 DEF SetReady
  <1>7. CASE MarkFailed(j)
    <2>1. tenants' \in TenantTable
      <3>1. tenants' = [tenants EXCEPT ![T(j)] = [tenants[T(j)] EXCEPT !.status = "FAILED"]]
        BY <1>7 DEF MarkFailed
      <3>2. T(j) \in Tenants => [tenants[T(j)] EXCEPT !.status = "FAILED"] \in TenantRow
        BY SavedRows DEF TenantTable, Status
      <3>3. QED
        BY <3>1, <3>2, TenantSaved
    <2>2. FirstHandler(run[j].current) \in Label
      BY Labels DEF FirstHandler
    <2>3. run' \in Memory
      BY <1>7, <2>2, JumpType DEF MarkFailed
    <2>4. QED
      BY <1>7, <2>1, <2>3 DEF MarkFailed
  <1>8. QED
    BY <1>1, <1>2, <1>3, <1>4, <1>5, <1>6, <1>7

\* Statements that save the job.
LEMMA JobSaveType ==
  ASSUME ServiceTypeOK, NEW j \in Jobs, Step(j) \/ FinishJob(j) \/ RecordFailure(j)
  PROVE  ServiceTypeOK'
  <1> USE DEF ServiceTypeOK, RegistryTypeOK, externalVars
  <1>1. CASE Step(j)
    <2>1. jobs' \in JobTable
      BY <1>1, Statements DEF Step, JobTable, JobRow
    <2>2. run' \in Memory
      <3>1. run[j] \in RunState /\ run[j].pc \in Steps /\ After[run[j].pc] \in Label
        BY <1>1, Labels, Statements DEF Step, Memory
      <3>2. run' = [run EXCEPT ![j] = [run[j] EXCEPT !.pc = After[run[j].pc],
                                                     !.current = run[j].pc]]
        BY <1>1 DEF Step
      <3>3. QED
        BY <3>1, <3>2, RunStates, RunGoesOn
    <2>3. QED
      BY <1>1, <2>1, <2>2 DEF Step
  <1>2. CASE FinishJob(j)
    <2>1. "DONE" \in Steps /\ "ready" \in Label
      BY StepNames, Labels
    <2>2. run[j].registration_error \in BOOLEAN
      BY DEF Memory, RunState
    <2> DEFINE row == [jobs[j] EXCEPT !.current_step = "DONE", !.is_success = "true",
                         !.error_message = run[j].registration_error, !.finished_at = TRUE]
    <2>3. jobs' = [jobs EXCEPT ![j] = row]
      BY <1>2 DEF FinishJob
    <2>4. row \in JobRow
      BY <2>1, <2>2 DEF JobTable, JobRow
    <2> HIDE DEF row
    <2>5. jobs' \in JobTable
      BY <2>3, <2>4 DEF JobTable
    <2>6. run' \in Memory
      <3>1. run[j] \in RunState
        BY DEF Memory
      <3>2. run' = [run EXCEPT ![j] = [run[j] EXCEPT !.pc = "ready", !.current = "DONE"]]
        BY <1>2 DEF FinishJob
      <3>3. QED
        BY <2>1, <3>1, <3>2, RunStates, RunGoesOn
    <2>7. QED
      BY <1>2, <2>5, <2>6 DEF FinishJob
  <1>3. CASE RecordFailure(j)
    <2>1. run[j].current \in Steps
      BY DEF Memory, RunState
    <2> DEFINE row == [jobs[j] EXCEPT !.current_step = run[j].current, !.is_success = "false",
                         !.error_message = TRUE, !.finished_at = TRUE]
    <2>2. jobs' = [jobs EXCEPT ![j] = row]
      BY <1>3 DEF RecordFailure
    <2>3. row \in JobRow
      BY <2>1 DEF JobTable, JobRow
    <2> HIDE DEF row
    <2>4. jobs' \in JobTable
      BY <2>2, <2>3 DEF JobTable
    <2>5. run' \in Memory
      BY <1>3, AdvanceType, Statements DEF RecordFailure
    <2>6. QED
      BY <1>3, <2>4, <2>5 DEF RecordFailure
  <1>4. QED
    BY <1>1, <1>2, <1>3

\* Statements that talk to the host Postgres or store the password of its role.
LEMMA PostgresType ==
  ASSUME ServiceTypeOK, NEW j \in Jobs,
         \/ CheckRole(j) \/ CreateRole(j) \/ CheckDatabase(j) \/ CreateDatabase(j)
         \/ StoreCredential(j) \/ GrantPermissions(j) \/ DropDatabase(j) \/ DropRole(j)
  PROVE  ServiceTypeOK'
  <1> USE DEF ServiceTypeOK, RegistryTypeOK, registryVars, externalVars
  <1>1. CASE CheckRole(j)
    BY <1>1, JumpType, Labels DEF CheckRole
  <1>2. CASE CreateRole(j)
    <2>1. roles' \in Passwords
      BY <1>2 DEF CreateRole, Passwords
    <2>2. QED
      BY <1>2, <2>1, AdvanceType, Statements DEF CreateRole
  <1>3. CASE CheckDatabase(j)
    BY <1>3, JumpType, Labels DEF CheckDatabase
  <1>4. CASE CreateDatabase(j)
    <2>1. databases' \in DatabaseOf
      BY <1>4 DEF CreateDatabase, DatabaseOf
    <2>2. QED
      BY <1>4, <2>1, AdvanceType, Statements DEF CreateDatabase
  <1>5. CASE StoreCredential(j)
    <2>1. credentials' \in Passwords
      BY <1>5 DEF StoreCredential, Passwords
    <2>2. QED
      BY <1>5, <2>1, AdvanceType, Statements DEF StoreCredential
  <1>6. CASE GrantPermissions(j)
    <2>1. databases' \in DatabaseOf
      BY <1>6 DEF GrantPermissions, DatabaseOf
    <2>2. QED
      BY <1>6, <2>1, AdvanceType, Statements DEF GrantPermissions
  <1>7. CASE DropDatabase(j)
    <2>1. databases' \in DatabaseOf
      BY <1>7 DEF DropDatabase, DatabaseOf
    <2>2. run' \in Memory
      <3>1. CASE Advance(j)
        BY <1>7, <3>1, AdvanceType, Statements DEF DropDatabase
      <3>2. CASE run' = [run EXCEPT ![j].pc = After[After[run[j].pc]], ![j].swallowed = TRUE]
        <4>1. After[After[run[j].pc]] \in Label
          BY <1>7, Labels, Statements DEF DropDatabase
        <4>2. QED
          BY <3>2, <4>1, SwallowType
      <3>3. QED
        BY <1>7, <3>1, <3>2 DEF DropDatabase
    <2>3. QED
      BY <1>7, <2>1, <2>2 DEF DropDatabase
  <1>8. CASE DropRole(j)
    <2>1. roles' \in Passwords
      BY <1>8 DEF DropRole, Passwords
    <2>2. run' \in Memory
      <3>1. CASE Advance(j)
        BY <1>8, <3>1, AdvanceType, Statements DEF DropRole
      <3>2. CASE run' = [run EXCEPT ![j].pc = After[run[j].pc], ![j].swallowed = TRUE]
        <4>1. After[run[j].pc] \in Label
          BY <1>8, Labels, Statements DEF DropRole
        <4>2. QED
          BY <3>2, <4>1, SwallowType
      <3>3. QED
        BY <1>8, <3>1, <3>2 DEF DropRole
    <2>3. QED
      BY <1>8, <2>1, <2>2 DEF DropRole
  <1>9. QED
    BY <1>1, <1>2, <1>3, <1>4, <1>5, <1>6, <1>7, <1>8

\* Calls to Fineract.
LEMMA FineractType ==
  ASSUME ServiceTypeOK, NEW j \in Jobs,
         \/ CreateFineractTenant(j) \/ SaveIdentifierAgain(j) \/ CreateFineractUser(j)
         \/ UndoRegisterFineractTenant(j)
  PROVE  ServiceTypeOK'
  <1> USE DEF ServiceTypeOK, RegistryTypeOK, registryVars, externalVars
  <1>1. CASE CreateFineractTenant(j)
    <2>1. fineract' \in FineractOf
      BY <1>1 DEF CreateFineractTenant, FineractOf
    <2>2. run' \in Memory
      BY <1>1, Labels, Statements DEF CreateFineractTenant, Memory, RunState
    <2>3. QED
      BY <1>1, <2>1, <2>2 DEF CreateFineractTenant
  <1>2. CASE SaveIdentifierAgain(j)
    <2>1. run' \in Memory
      BY <1>2 DEF SaveIdentifierAgain, Memory, RunState
    <2>2. QED
      BY <1>2, <2>1 DEF SaveIdentifierAgain
  <1>3. CASE CreateFineractUser(j)
    <2>1. fineract' \in FineractOf
      BY <1>3 DEF CreateFineractUser, FineractOf
    <2>2. run' \in Memory
      BY <1>3, Labels, Statements DEF CreateFineractUser, Memory, RunState
    <2>3. QED
      BY <1>3, <2>1, <2>2 DEF CreateFineractUser
  <1>4. CASE UndoRegisterFineractTenant(j)
    <2>1. fineract' \in FineractOf
      BY <1>4 DEF UndoRegisterFineractTenant, FineractOf
    <2>2. run' \in Memory
      <3>1. CASE Advance(j)
        BY <1>4, <3>1, AdvanceType, Statements DEF UndoRegisterFineractTenant
      <3>2. CASE run' = [run EXCEPT ![j].pc = After[run[j].pc], ![j].swallowed = TRUE]
        <4>1. After[run[j].pc] \in Label
          BY <1>4, Labels, Statements DEF UndoRegisterFineractTenant
        <4>2. QED
          BY <3>2, <4>1, SwallowType
      <3>3. QED
        BY <1>4, <3>1, <3>2 DEF UndoRegisterFineractTenant
    <2>3. QED
      BY <1>4, <2>1, <2>2 DEF UndoRegisterFineractTenant
  <1>5. QED
    BY <1>1, <1>2, <1>3, <1>4

\* The users, the domain, the mail, the audit log, and what an exception does.
LEMMA OtherType ==
  ASSUME ServiceTypeOK, Owned, NEW j \in Jobs,
         \/ CreateAdminUser(j) \/ UndoCreateAdminUser(j) \/ SendWelcomeEmail(j)
         \/ CreatePrimaryDomain(j) \/ WriteAudit(j) \/ Raise(j) \/ Escape(j) \/ Crash(j)
  PROVE  ServiceTypeOK'
  <1> USE DEF ServiceTypeOK, RegistryTypeOK, registryVars, externalVars
  <1>1. CASE CreateAdminUser(j)
    <2>1. users' \in UserTable
      BY <1>1, RunHasTenant, RegistryAssumption DEF CreateAdminUser, UserTable
    <2>2. run' \in Memory
      BY <1>1, JumpType, Labels DEF CreateAdminUser
    <2>3. QED
      BY <1>1, <2>1, <2>2 DEF CreateAdminUser
  <1>2. CASE UndoCreateAdminUser(j)
    <2>1. users' \in UserTable
      BY <1>2 DEF UndoCreateAdminUser, UserTable
    <2>2. QED
      BY <1>2, <2>1, AdvanceType, Statements DEF UndoCreateAdminUser
  <1>3. CASE SendWelcomeEmail(j)
    <2>1. outbox' \in Enqueued
      BY <1>3, RunHasTenant, OutboxType DEF SendWelcomeEmail, CeleryTask
    <2>2. QED
      BY <1>3, <2>1, AdvanceType, Statements DEF SendWelcomeEmail
  <1>4. CASE CreatePrimaryDomain(j)
    <2>1. T(j) \in Tenants
      BY <1>4, RunHasTenant DEF CreatePrimaryDomain
    <2>2. PrimaryDomain(T(j)) \in Domain
      BY <2>1 DEF PrimaryDomain, Domain, Hostnames
    <2>3. domains' \in SUBSET Domain
      BY <1>4, <2>2 DEF CreatePrimaryDomain
    <2>4. QED
      BY <1>4, <2>3, AdvanceType, Statements DEF CreatePrimaryDomain
  <1>5. CASE WriteAudit(j)
    <2>1. T(j) \in Tenants
      BY <1>5, RunHasTenant DEF WriteAudit
    <2>2. audit' \in AuditLog
      BY <1>5, <2>1 DEF WriteAudit, AuditLog, AuditAction
    <2>3. QED
      BY <1>5, <2>2, AdvanceType, Statements DEF WriteAudit
  <1>6. CASE Raise(j)
    <2> DEFINE failed == CASE run[j].pc \in Bookkeeping -> run[j].pc
                           [] run[j].pc = "finish_job"  -> "DONE"
                           [] OTHER                     -> run[j].current
    <2>1. "DONE" \in Steps /\ "record_failure" \in Label
      BY StepNames, Labels
    <2>2. failed \in Steps
      BY <2>1, Statements DEF Memory, RunState
    <2>3. run' = [run EXCEPT ![j].pc = "record_failure", ![j].current = failed]
      BY <1>6 DEF Raise
    <2> HIDE DEF failed
    <2>4. run' \in Memory
      BY <2>1, <2>2, <2>3 DEF Memory, RunState
    <2>5. QED
      BY <1>6, <2>4 DEF Raise
  <1>7. CASE Escape(j)
    BY <1>7, JumpType, Labels DEF Escape
  <1>8. CASE Crash(j)
    BY <1>8, JumpType, Labels DEF Crash
  <1>9. QED
    BY <1>1, <1>2, <1>3, <1>4, <1>5, <1>6, <1>7, <1>8

\* Every step keeps the types.
LEMMA TypeStep ==
  ASSUME ServiceTypeOK, Owned, [ServiceNext]_vars
  PROVE  ServiceTypeOK'
  <1>1. CASE Request
    BY <1>1, RequestType
  <1>2. ASSUME NEW j \in Jobs, RunStep(j) \/ Crash(j) PROVE ServiceTypeOK'
    BY <1>2, TenantSaveType, JobSaveType, PostgresType, FineractType, OtherType DEF RunStep
  <1>3. CASE UNCHANGED vars
    BY <1>3 DEF vars, registryVars, externalVars, ServiceTypeOK, RegistryTypeOK
  <1>4. QED
    BY <1>1, <1>2, <1>3 DEF ServiceNext

-----------------------------------------------------------------------------
\* A step of the run of j: no other run, job or tenant row moves, and the job stays with
\* its tenant, whose row stays.
Frame(j) ==
  /\ run[j].pc # "unused"
  /\ \A k \in Jobs \ {j} : run'[k] = run[k] /\ jobs'[k] = jobs[k]
  /\ jobs'[j].tenant = jobs[j].tenant
  /\ \A t \in Tenants \ {T(j)} : tenants'[t] = tenants[t]
  /\ tenants'[T(j)].exists = tenants[T(j)].exists

\* A step that shows nothing to the users of the portal.
Hidden(j) ==
  /\ domains' = domains
  /\ tenants'[T(j)].status = "READY" <=> tenants[T(j)].status = "READY"
  /\ tenants'[T(j)].provisioned_at = tenants[T(j)].provisioned_at
  /\ jobs'[j].is_success = jobs[j].is_success
  /\ run'[j].pc \notin {"set_ready", "finish_job"}

\* The steps that close the portal, and what they all do to it.
Closing(j) == BeginRun(j) \/ SetInitializing(j) \/ MarkFailed(j)

Closed(j) ==
  /\ domains' = domains
  /\ tenants'[T(j)].status # "READY"
  /\ tenants'[T(j)].provisioned_at = tenants[T(j)].provisioned_at
  /\ jobs'[j].is_success = jobs[j].is_success
  /\ run'[j].pc \notin {"set_ready", "finish_job"}

\* The statement after another one is one of the last two only after these.
LEMMA LastStatements ==
  /\ \A l \in DOMAIN After : After[l] = "set_ready" => l = "create_primary_domain"
  /\ \A l \in DOMAIN After : After[l] = "finish_job" => l = "set_ready"
  /\ \A l \in DropsDatabase : After[After[l]] \notin {"set_ready", "finish_job"}
  /\ \A l \in DropsDatabase \cup DropsRole : After[l] \notin {"set_ready", "finish_job"}
  BY DEF After, DropsDatabase, DropsRole

\* Every statement, exception and crash is one of a run that was started.
LEMMA Started ==
  ASSUME NEW j \in Jobs, RunStep(j) \/ Crash(j)
  PROVE  run[j].pc # "unused"
  <1>1. ASSUME MayRaise(j) PROVE run[j].pc # "unused"
    BY <1>1 DEF MayRaise, WritesRegistry, Bookkeeping, CallsPostgres
  <1>2. QED
    BY <1>1 DEF RunStep, BeginRun, DefaultDbName, Step, CheckRole, CreateRole, CheckDatabase,
      CreateDatabase, SaveDbUser, StoreCredential, GrantPermissions, SetInitializing,
      CreateFineractTenant, SaveIdentifier, SaveIdentifierAgain, CreateAdminUser,
      CreateFineractUser, SendWelcomeEmail, CreatePrimaryDomain, SetReady, FinishJob, Raise,
      RecordFailure, MarkFailed, UndoCreateAdminUser, UndoRegisterFineractTenant,
      DropDatabase, DropRole, DropsDatabase, DropsRole, WriteAudit, Escape, Crash, Active,
      Bookkeeping

\* Every step of a run leaves the others alone.
LEMMA FrameStep ==
  ASSUME ServiceTypeOK, Owned, NEW j \in Jobs, RunStep(j) \/ Crash(j)
  PROVE  Frame(j)
  <1>1. jobs \in JobTable /\ tenants \in TenantTable /\ run \in Memory
    BY DEF ServiceTypeOK, RegistryTypeOK
  <1>2. run[j].pc # "unused"
    BY Started
  <1>3. T(j) \in Tenants
    BY <1>2, RunHasTenant
  <1> USE DEF Frame, Advance, Jump, T, externalVars, registryVars
  <1>4. CASE BeginRun(j)
    BY <1>1, <1>2, <1>3, <1>4 DEF BeginRun, TenantTable, TenantRow, Memory
  <1>5. CASE DefaultDbName(j)
    BY <1>1, <1>2, <1>3, <1>5 DEF DefaultDbName, TenantTable, TenantRow, Memory
  <1>6. CASE SaveDbUser(j)
    BY <1>1, <1>2, <1>3, <1>6 DEF SaveDbUser, TenantTable, TenantRow, Memory
  <1>7. CASE SetInitializing(j)
    BY <1>1, <1>2, <1>3, <1>7 DEF SetInitializing, TenantTable, TenantRow, Memory
  <1>8. CASE SaveIdentifier(j)
    BY <1>1, <1>2, <1>3, <1>8 DEF SaveIdentifier, TenantTable, TenantRow, Memory
  <1>9. CASE SetReady(j)
    BY <1>1, <1>2, <1>3, <1>9 DEF SetReady, TenantTable, TenantRow, Memory, Provisioned
  <1>10. CASE MarkFailed(j)
    BY <1>1, <1>2, <1>3, <1>10 DEF MarkFailed, TenantTable, TenantRow, Memory
  <1>11. CASE Step(j)
    BY <1>1, <1>2, <1>3, <1>11 DEF Step, JobTable, JobRow, Memory
  <1>12. CASE FinishJob(j)
    BY <1>1, <1>2, <1>3, <1>12 DEF FinishJob, JobTable, JobRow, Memory
  <1>13. CASE RecordFailure(j)
    BY <1>1, <1>2, <1>3, <1>13 DEF RecordFailure, JobTable, JobRow, Memory
  <1>14. CASE CheckRole(j)
    BY <1>1, <1>2, <1>3, <1>14 DEF CheckRole, Memory
  <1>15. CASE CreateRole(j)
    BY <1>1, <1>2, <1>3, <1>15 DEF CreateRole, Memory
  <1>16. CASE CheckDatabase(j)
    BY <1>1, <1>2, <1>3, <1>16 DEF CheckDatabase, Memory
  <1>17. CASE CreateDatabase(j)
    BY <1>1, <1>2, <1>3, <1>17 DEF CreateDatabase, Memory
  <1>18. CASE StoreCredential(j)
    BY <1>1, <1>2, <1>3, <1>18 DEF StoreCredential, Memory
  <1>19. CASE GrantPermissions(j)
    BY <1>1, <1>2, <1>3, <1>19 DEF GrantPermissions, Memory
  <1>20. CASE DropDatabase(j)
    BY <1>1, <1>2, <1>3, <1>20 DEF DropDatabase, Memory
  <1>21. CASE DropRole(j)
    BY <1>1, <1>2, <1>3, <1>21 DEF DropRole, Memory
  <1>22. CASE CreateFineractTenant(j)
    BY <1>1, <1>2, <1>3, <1>22 DEF CreateFineractTenant, Memory
  <1>23. CASE SaveIdentifierAgain(j)
    BY <1>1, <1>2, <1>3, <1>23 DEF SaveIdentifierAgain, Memory
  <1>24. CASE CreateFineractUser(j)
    BY <1>1, <1>2, <1>3, <1>24 DEF CreateFineractUser, Memory
  <1>25. CASE UndoRegisterFineractTenant(j)
    BY <1>1, <1>2, <1>3, <1>25 DEF UndoRegisterFineractTenant, Memory
  <1>26. CASE CreateAdminUser(j)
    BY <1>1, <1>2, <1>3, <1>26 DEF CreateAdminUser, Memory
  <1>27. CASE UndoCreateAdminUser(j)
    BY <1>1, <1>2, <1>3, <1>27 DEF UndoCreateAdminUser, Memory
  <1>28. CASE SendWelcomeEmail(j)
    BY <1>1, <1>2, <1>3, <1>28 DEF SendWelcomeEmail, Memory
  <1>29. CASE CreatePrimaryDomain(j)
    BY <1>1, <1>2, <1>3, <1>29 DEF CreatePrimaryDomain, Memory
  <1>30. CASE WriteAudit(j)
    BY <1>1, <1>2, <1>3, <1>30 DEF WriteAudit, Memory
  <1>31. CASE Raise(j)
    BY <1>1, <1>2, <1>3, <1>31 DEF Raise, Memory
  <1>32. CASE Escape(j)
    BY <1>1, <1>2, <1>3, <1>32 DEF Escape, Memory
  <1>33. CASE Crash(j)
    BY <1>1, <1>2, <1>3, <1>33 DEF Crash, Memory
  <1>34. QED
    BY <1>4, <1>5, <1>6, <1>7, <1>8, <1>9, <1>10, <1>11, <1>12, <1>13, <1>14, <1>15,
       <1>16, <1>17, <1>18, <1>19, <1>20, <1>21, <1>22, <1>23, <1>24, <1>25, <1>26,
       <1>27, <1>28, <1>29, <1>30, <1>31, <1>32, <1>33 DEF RunStep

\* The statements whose effect the users of the portal do not see.
LEMMA HiddenStep ==
  ASSUME ServiceTypeOK, Owned, NEW j \in Jobs, RunStep(j) \/ Crash(j), ~ Closing(j),
         ~ CreatePrimaryDomain(j), ~ SetReady(j), ~ FinishJob(j), ~ RecordFailure(j)
  PROVE  Hidden(j)
  <1>1. jobs \in JobTable /\ tenants \in TenantTable /\ run \in Memory
    BY DEF ServiceTypeOK, RegistryTypeOK
  <1>2. T(j) \in Tenants
    BY Started, RunHasTenant
  <1>3. \A l \in DOMAIN After \ {"create_primary_domain", "set_ready"} :
          After[l] \notin {"set_ready", "finish_job"}
    BY LastStatements
  <1> USE DEF Hidden, Advance, Jump, T, externalVars, registryVars
  <1>4. CASE DefaultDbName(j)
    BY <1>1, <1>2, <1>3, <1>4, Statements DEF DefaultDbName, TenantTable, TenantRow, Memory
  <1>5. CASE SaveDbUser(j)
    BY <1>1, <1>2, <1>3, <1>5, Statements DEF SaveDbUser, TenantTable, TenantRow, Memory
  <1>6. CASE SaveIdentifier(j)
    BY <1>1, <1>2, <1>3, <1>6, Statements DEF SaveIdentifier, TenantTable, TenantRow, Memory
  <1>7. CASE Step(j)
    BY <1>1, <1>2, <1>3, <1>7, Statements DEF Step, JobTable, JobRow, Memory, Bookkeeping
  <1>8. CASE CheckRole(j)
    BY <1>1, <1>2, <1>3, <1>8, Statements DEF CheckRole, Memory
  <1>9. CASE CreateRole(j)
    BY <1>1, <1>2, <1>3, <1>9, Statements DEF CreateRole, Memory
  <1>10. CASE CheckDatabase(j)
    BY <1>1, <1>2, <1>3, <1>10, Statements DEF CheckDatabase, Memory
  <1>11. CASE CreateDatabase(j)
    BY <1>1, <1>2, <1>3, <1>11, Statements DEF CreateDatabase, Memory
  <1>12. CASE StoreCredential(j)
    BY <1>1, <1>2, <1>3, <1>12, Statements DEF StoreCredential, Memory
  <1>13. CASE GrantPermissions(j)
    BY <1>1, <1>2, <1>3, <1>13, Statements DEF GrantPermissions, Memory
  <1>14. CASE DropDatabase(j)
    <2>1. run'[j].pc \in {After[run[j].pc], After[After[run[j].pc]]}
      BY <1>1, <1>14 DEF DropDatabase, Memory, RunState
    <2>2. run'[j].pc \notin {"set_ready", "finish_job"}
      BY <1>14, <2>1, LastStatements DEF DropDatabase
    <2>3. UNCHANGED registryVars
      BY <1>14 DEF DropDatabase
    <2>4. QED
      BY <2>2, <2>3
  <1>15. CASE DropRole(j)
    <2>1. run'[j].pc = After[run[j].pc]
      BY <1>1, <1>15 DEF DropRole, Memory, RunState
    <2>2. run'[j].pc \notin {"set_ready", "finish_job"}
      BY <1>15, <2>1, LastStatements DEF DropRole
    <2>3. UNCHANGED registryVars
      BY <1>15 DEF DropRole
    <2>4. QED
      BY <2>2, <2>3
  <1>16. CASE CreateFineractTenant(j)
    BY <1>1, <1>2, <1>3, <1>16, Statements DEF CreateFineractTenant, Memory
  <1>17. CASE SaveIdentifierAgain(j)
    BY <1>1, <1>2, <1>3, <1>17, Statements DEF SaveIdentifierAgain, Memory
  <1>18. CASE CreateFineractUser(j)
    BY <1>1, <1>2, <1>3, <1>18, Statements DEF CreateFineractUser, Memory
  <1>19. CASE UndoRegisterFineractTenant(j)
    <2>1. run'[j].pc = After["undo_register_fineract_tenant"]
      BY <1>1, <1>19 DEF UndoRegisterFineractTenant, Memory, RunState
    <2>2. run'[j].pc \notin {"set_ready", "finish_job"}
      BY <1>3, <2>1, Statements
    <2>3. UNCHANGED registryVars
      BY <1>19 DEF UndoRegisterFineractTenant
    <2>4. QED
      BY <2>2, <2>3
  <1>20. CASE CreateAdminUser(j)
    BY <1>1, <1>2, <1>3, <1>20, Statements DEF CreateAdminUser, Memory
  <1>21. CASE UndoCreateAdminUser(j)
    BY <1>1, <1>2, <1>3, <1>21, Statements DEF UndoCreateAdminUser, Memory
  <1>22. CASE SendWelcomeEmail(j)
    BY <1>1, <1>2, <1>3, <1>22, Statements DEF SendWelcomeEmail, Memory
  <1>23. CASE WriteAudit(j)
    BY <1>1, <1>2, <1>3, <1>23, Statements DEF WriteAudit, Memory
  <1>24. CASE Raise(j)
    BY <1>1, <1>2, <1>3, <1>24, Statements DEF Raise, Memory
  <1>25. CASE Escape(j)
    BY <1>1, <1>2, <1>3, <1>25, Statements DEF Escape, Memory
  <1>26. CASE Crash(j)
    BY <1>1, <1>2, <1>3, <1>26, Statements DEF Crash, Memory
  <1>27. QED
    BY <1>4, <1>5, <1>6, <1>7, <1>8, <1>9, <1>10, <1>11, <1>12, <1>13, <1>14, <1>15,
       <1>16, <1>17, <1>18, <1>19, <1>20, <1>21, <1>22, <1>23, <1>24, <1>25, <1>26 DEF RunStep, Closing

\* The statements that close the portal.
LEMMA ClosingStep ==
  ASSUME ServiceTypeOK, Owned, NEW j \in Jobs, Closing(j)
  PROVE  Closed(j)
  <1>1. jobs \in JobTable /\ tenants \in TenantTable /\ run \in Memory
    BY DEF ServiceTypeOK, RegistryTypeOK
  <1>2. T(j) \in Tenants
    BY Started, RunHasTenant DEF Closing, RunStep
  <1> USE DEF Closed, Advance, Jump, T, externalVars
  <1>3. CASE BeginRun(j)
    BY <1>1, <1>2, <1>3 DEF BeginRun, TenantTable, TenantRow, Memory
  <1>4. CASE SetInitializing(j)
    BY <1>1, <1>2, <1>4, LastStatements, Statements
       DEF SetInitializing, TenantTable, TenantRow, Memory
  <1>5. CASE MarkFailed(j)
    BY <1>1, <1>2, <1>5 DEF MarkFailed, FirstHandler, TenantTable, TenantRow, Memory
  <1>6. QED
    BY <1>3, <1>4, <1>5 DEF Closing

\* Started runs, existing tenants and blank rows stay what they are.
LEMMA OwnedStep ==
  ASSUME ServiceTypeOK, Owned, [ServiceNext]_vars
  PROVE  Owned'
  <1>1. jobs \in JobTable /\ tenants \in TenantTable /\ run \in Memory
    BY DEF ServiceTypeOK, RegistryTypeOK
  <1>2. ASSUME NEW t \in Tenants, CreateOrganization(t) \/ PostTenant(t) PROVE Owned'
    BY <1>1, <1>2 DEF CreateOrganization, PostTenant, CreateTenantRow, NewTenant, TenantTable,
                      JobTable, JobRow, Owned, T, externalVars
  <1>3. ASSUME NEW t \in Tenants, NEW j \in Jobs, StartRun(t, j) PROVE Owned'
    BY <1>1, <1>3, RegistryAssumption DEF StartRun, NewJob, JobTable, Memory, Owned, T
  <1>4. ASSUME NEW j \in Jobs, RunStep(j) \/ Crash(j) PROVE Owned'
    <2>1. Frame(j) /\ T(j) \in Tenants
      BY <1>4, FrameStep, Started, RunHasTenant
    <2>2. \A k \in Jobs : T(k)' = T(k)
      BY <2>1 DEF Frame, T
    <2>3. \A t \in Tenants : tenants'[t].exists = tenants[t].exists
      BY <2>1 DEF Frame
    <2>4. \A t \in Tenants : ~ tenants[t].exists => tenants'[t] = tenants[t]
      BY <2>1, RegistryAssumption DEF Frame, Owned
    <2>5. \A k \in Jobs : run'[k].pc # "unused" => T(k) # Nobody
      BY <2>1, RegistryAssumption DEF Frame, Owned
    <2>6. \A k \in Jobs : T(k) = Nobody => jobs'[k] = jobs[k]
      BY <2>1, RegistryAssumption DEF Frame
    <2>7. \A k \in Jobs : T(k)' # Nobody => tenants'[T(k)'].exists
      BY <1>1, <2>2, <2>3 DEF Owned, T, JobTable, JobRow
    <2>8. QED
      BY <2>2, <2>3, <2>4, <2>5, <2>6, <2>7 DEF Owned
  <1>5. CASE UNCHANGED vars
    BY <1>5 DEF Owned, T, vars, registryVars
  <1>6. QED
    BY <1>2, <1>3, <1>4, <1>5 DEF ServiceNext, Request

-----------------------------------------------------------------------------
\* The part of the invariant that is about the portal.
Portals == Achieved /\ ReadyHasPrimaryDomain /\ SuccessMeansProvisioned

\* A primary domain stays where no domain is removed.
LEMMA DomainsStay ==
  ASSUME domains \subseteq domains', NEW t, HasPrimaryDomain(t)
  PROVE  HasPrimaryDomain(t)'
  BY DEF HasPrimaryDomain

\* Every job is of a tenant or not created, and then it has no outcome.
LEMMA JobTenants ==
  ASSUME ServiceTypeOK, Owned, NEW k \in Jobs
  PROVE  /\ T(k) \in Tenants \/ (T(k) = Nobody /\ jobs[k].is_success = "null")
         /\ run[k].pc # "unused" => T(k) \in Tenants
  BY DEF ServiceTypeOK, RegistryTypeOK, Owned, T, JobTable, JobRow

\* A request adds a blank row or a job without outcome; no run gets further.
LEMMA RequestPortals ==
  ASSUME IInv, Request
  PROVE  Portals'
  <1> USE DEF IInv
  <1>1. jobs \in JobTable /\ tenants \in TenantTable /\ run \in Memory
    BY DEF ServiceTypeOK, RegistryTypeOK
  <1>2. ASSUME NEW t \in Tenants, CreateOrganization(t) \/ PostTenant(t) PROVE Portals'
    <2>1. /\ \A u \in Tenants : u # t => tenants'[u] = tenants[u]
          /\ tenants'[t].status = "PENDING" /\ ~ tenants[t].exists
          /\ UNCHANGED <<domains, jobs, run>>
      BY <1>1, <1>2 DEF CreateOrganization, PostTenant, CreateTenantRow, NewTenant, TenantTable
    <2>2. \A k \in Jobs : T(k) # t
      BY <2>1, RegistryAssumption DEF Owned
    <2>3. Achieved'
      BY <2>1, <2>2, JobTenants DEF Achieved, T, HasPrimaryDomain
    <2>4. ReadyHasPrimaryDomain'
      BY <2>1 DEF ReadyHasPrimaryDomain, HasPrimaryDomain
    <2>5. SuccessMeansProvisioned'
      BY <2>1, <2>2, JobTenants DEF SuccessMeansProvisioned, T
    <2>6. QED
      BY <2>3, <2>4, <2>5 DEF Portals
  <1>3. ASSUME NEW t \in Tenants, NEW j \in Jobs, StartRun(t, j) PROVE Portals'
    <2>1. /\ UNCHANGED <<domains, tenants>>
          /\ \A k \in Jobs \ {j} : run'[k] = run[k] /\ jobs'[k] = jobs[k]
          /\ run'[j].pc = "begin" /\ jobs'[j].is_success = "null"
      BY <1>1, <1>3 DEF StartRun, NewJob, JobTable, Memory, RunState
    <2>2. Achieved'
      BY <2>1 DEF Achieved, T, HasPrimaryDomain
    <2>3. ReadyHasPrimaryDomain' /\ SuccessMeansProvisioned'
      BY <2>1 DEF ReadyHasPrimaryDomain, SuccessMeansProvisioned, HasPrimaryDomain
    <2>4. QED
      BY <2>2, <2>3 DEF Portals
  <1>4. QED
    BY <1>2, <1>3 DEF Request

\* What the four statements do that open the portal or report on it.
LEMMA OpeningStep ==
  ASSUME ServiceTypeOK, Owned, NEW j \in Jobs
  PROVE  /\ CreatePrimaryDomain(j) =>
              /\ UNCHANGED <<tenants, jobs>> /\ run'[j].pc = "set_ready"
              /\ domains' = domains \cup {PrimaryDomain(T(j))}
              /\ ~ HasPrimaryDomain(T(j))
         /\ SetReady(j) =>
              /\ UNCHANGED <<domains, jobs>>
              /\ run[j].pc = "set_ready" /\ run'[j].pc = "finish_job"
              /\ tenants'[T(j)].status = "READY" /\ tenants'[T(j)].provisioned_at
         /\ FinishJob(j) =>
              /\ UNCHANGED <<domains, tenants>>
              /\ run[j].pc = "finish_job" /\ run'[j].pc = "ready"
              /\ jobs'[j].is_success = "true"
         /\ RecordFailure(j) =>
              /\ UNCHANGED <<domains, tenants>> /\ run'[j].pc = "mark_failed"
              /\ jobs'[j].is_success = "false"
  <1>1. jobs \in JobTable /\ tenants \in TenantTable /\ run \in Memory
    BY DEF ServiceTypeOK, RegistryTypeOK
  <1>2. run[j].pc # "unused" => T(j) \in Tenants
    BY JobTenants
  <1> USE DEF Advance, After
  <1>3. ASSUME CreatePrimaryDomain(j)
        PROVE  /\ UNCHANGED <<tenants, jobs>> /\ run'[j].pc = "set_ready"
               /\ domains' = domains \cup {PrimaryDomain(T(j))}
               /\ ~ HasPrimaryDomain(T(j))
    BY <1>1, <1>3 DEF CreatePrimaryDomain, Insertable, PrimaryDomain, Memory, RunState
  <1>4. ASSUME SetReady(j)
        PROVE  /\ UNCHANGED <<domains, jobs>>
               /\ run[j].pc = "set_ready" /\ run'[j].pc = "finish_job"
               /\ tenants'[T(j)].status = "READY" /\ tenants'[T(j)].provisioned_at
    BY <1>1, <1>2, <1>4 DEF SetReady, Provisioned, TenantTable, TenantRow, Memory, RunState
  <1>5. ASSUME FinishJob(j)
        PROVE  /\ UNCHANGED <<domains, tenants>>
               /\ run[j].pc = "finish_job" /\ run'[j].pc = "ready"
               /\ jobs'[j].is_success = "true"
    BY <1>1, <1>5 DEF FinishJob, JobTable, JobRow, Memory, RunState
  <1>6. ASSUME RecordFailure(j)
        PROVE  /\ UNCHANGED <<domains, tenants>> /\ run'[j].pc = "mark_failed"
               /\ jobs'[j].is_success = "false"
    BY <1>1, <1>6 DEF RecordFailure, JobTable, JobRow, Memory, RunState
  <1>7. QED
    BY <1>3, <1>4, <1>5, <1>6

\* A step of a run that removes no domain, opens no portal, reports no success and gets
\* to neither of the last two statements.
LEMMA NoNews ==
  ASSUME IInv, NEW j \in Jobs, Frame(j), domains' = domains,
         tenants'[T(j)].status = "READY" => tenants[T(j)].status = "READY",
         tenants'[T(j)].provisioned_at = tenants[T(j)].provisioned_at,
         jobs'[j].is_success = "true" => jobs[j].is_success = "true",
         run'[j].pc \notin {"set_ready", "finish_job"}
  PROVE  Portals'
  <1> USE DEF IInv
  <1>1. T(j) \in Tenants /\ \A k \in Jobs : T(k)' = T(k)
    BY JobTenants DEF Frame, T
  <1>2. \A t \in Tenants : tenants'[t].provisioned_at = tenants[t].provisioned_at
    BY <1>1 DEF Frame
  <1>3. \A t : HasPrimaryDomain(t)' = HasPrimaryDomain(t)
    BY DEF HasPrimaryDomain
  <1>4. Achieved'
    BY <1>1, <1>2, <1>3, JobTenants DEF Frame, Achieved
  <1>5. ReadyHasPrimaryDomain'
    BY <1>1, <1>3 DEF Frame, ReadyHasPrimaryDomain
  <1>6. \A k \in Jobs : jobs'[k].is_success = "true" => jobs[k].is_success = "true"
    BY DEF Frame
  <1>7. SuccessMeansProvisioned'
    BY <1>1, <1>2, <1>6, JobTenants DEF SuccessMeansProvisioned, T
  <1>8. QED
    BY <1>4, <1>5, <1>7 DEF Portals

\* The statements of a run keep what they achieved.
LEMMA RunPortals ==
  ASSUME IInv, NEW j \in Jobs, RunStep(j) \/ Crash(j)
  PROVE  Portals'
  <1> USE DEF IInv
  <1>1. Frame(j) /\ T(j) \in Tenants
    BY FrameStep, Started, RunHasTenant
  <1>2. \A k \in Jobs : T(k)' = T(k)
    BY <1>1 DEF Frame, T
  <1>3. CASE CreatePrimaryDomain(j)
    <2>1. /\ UNCHANGED <<tenants, jobs>> /\ run'[j].pc = "set_ready"
          /\ domains' = domains \cup {PrimaryDomain(T(j))}
      BY <1>3, OpeningStep
    <2>2. \A t : HasPrimaryDomain(t) => HasPrimaryDomain(t)'
      BY <2>1, DomainsStay
    <2>3. HasPrimaryDomain(T(j))'
      <3>1. PrimaryDomain(T(j)) \in domains'
        BY <2>1
      <3>2. PrimaryDomain(T(j)).tenant = T(j) /\ PrimaryDomain(T(j)).is_primary
        BY DEF PrimaryDomain
      <3>3. T(j)' = T(j)
        BY <1>2
      <3>4. QED
        BY <3>1, <3>2, <3>3 DEF HasPrimaryDomain
    <2>4. Achieved'
      BY <1>1, <1>2, <2>1, <2>2, <2>3 DEF Frame, Achieved
    <2>5. ReadyHasPrimaryDomain' /\ SuccessMeansProvisioned'
      BY <2>1, <2>2 DEF ReadyHasPrimaryDomain, SuccessMeansProvisioned
    <2>6. QED
      BY <2>4, <2>5 DEF Portals
  <1>4. CASE SetReady(j)
    <2>1. /\ UNCHANGED <<domains, jobs>>
          /\ run[j].pc = "set_ready" /\ run'[j].pc = "finish_job"
          /\ tenants'[T(j)].status = "READY" /\ tenants'[T(j)].provisioned_at
      BY <1>4, OpeningStep
    <2>2. \A t : HasPrimaryDomain(t)' = HasPrimaryDomain(t)
      BY <2>1 DEF HasPrimaryDomain
    <2>3. \A t \in Tenants : tenants[t].provisioned_at => tenants'[t].provisioned_at
      BY <1>1, <2>1 DEF Frame
    <2>4. Achieved'
      BY <1>1, <1>2, <2>1, <2>2, <2>3, JobTenants DEF Frame, Achieved
    <2>5. ReadyHasPrimaryDomain'
      BY <1>1, <2>1, <2>2 DEF Frame, ReadyHasPrimaryDomain, Achieved
    <2>6. SuccessMeansProvisioned'
      BY <1>2, <2>1, <2>3, JobTenants DEF SuccessMeansProvisioned, T
    <2>7. QED
      BY <2>4, <2>5, <2>6 DEF Portals
  <1>5. CASE FinishJob(j)
    <2>1. /\ UNCHANGED <<domains, tenants>>
          /\ run[j].pc = "finish_job" /\ run'[j].pc = "ready"
      BY <1>5, OpeningStep
    <2>2. Achieved' /\ ReadyHasPrimaryDomain'
      BY <1>1, <1>2, <2>1 DEF Frame, Achieved, ReadyHasPrimaryDomain, HasPrimaryDomain
    <2>3. tenants'[T(j)'].provisioned_at
      BY <1>2, <2>1 DEF Achieved
    <2>4. SuccessMeansProvisioned'
      BY <1>1, <1>2, <2>1, <2>3 DEF Frame, SuccessMeansProvisioned, T
    <2>5. QED
      BY <2>2, <2>4 DEF Portals
  <1>6. CASE RecordFailure(j)
    <2>1. /\ UNCHANGED <<domains, tenants>> /\ run'[j].pc = "mark_failed"
          /\ jobs'[j].is_success = "false"
      BY <1>6, OpeningStep
    <2>2. QED
      BY <1>1, <2>1, NoNews
  <1>7. CASE Closing(j)
    BY <1>1, <1>7, ClosingStep, NoNews DEF Closed
  <1>8. CASE /\ ~ CreatePrimaryDomain(j) /\ ~ SetReady(j) /\ ~ FinishJob(j)
             /\ ~ RecordFailure(j) /\ ~ Closing(j)
    BY <1>1, <1>8, HiddenStep, NoNews DEF Hidden
  <1>9. QED
    BY <1>3, <1>4, <1>5, <1>6, <1>7, <1>8

\* The invariant is inductive.
LEMMA StepIInv ==
  ASSUME IInv, [ServiceNext]_vars
  PROVE  IInv'
  <1>1. ServiceTypeOK' /\ Owned'
    BY TypeStep, OwnedStep DEF IInv
  <1>2. CASE Request
    BY <1>1, <1>2, RequestPortals DEF IInv, Portals
  <1>3. ASSUME NEW j \in Jobs, RunStep(j) \/ Crash(j) PROVE IInv'
    BY <1>1, <1>3, RunPortals DEF IInv, Portals
  <1>4. CASE UNCHANGED vars
    BY <1>1, <1>4 DEF vars, registryVars, IInv, Achieved, ReadyHasPrimaryDomain,
                      SuccessMeansProvisioned, HasPrimaryDomain, T
  <1>5. QED
    BY <1>2, <1>3, <1>4 DEF ServiceNext

-----------------------------------------------------------------------------
\* In every state the program can reach, the inductive invariant holds.
THEOREM InductiveInvariant == ServiceSpec => []IInv
  BY InitIInv, StepIInv, PTL DEF ServiceSpec

\* Rows, external state and the memory of the requests keep their types: every request is
\* at a statement of run(), a job never names a step that ProvisionJob.Step lacks, and a
\* tenant only has a declared status (the code once wrote "ACTIVE", which is not one).
THEOREM TypeCorrect == ServiceSpec => []ServiceTypeOK
  BY InductiveInvariant, PTL DEF IInv

\* However many runs of a tenant overlap, fail, roll back or crash, a tenant that the
\* middleware serves (READY) has the primary domain that its portal links are built from.
THEOREM ReadyTenantsAreRouted == ServiceSpec => []ReadyHasPrimaryDomain
  BY InductiveInvariant, PTL DEF IInv

\* A job is recorded as successful only for a tenant that was provisioned.
THEOREM SuccessfulJobsProvisioned == ServiceSpec => []SuccessMeansProvisioned
  BY InductiveInvariant, PTL DEF IInv

-----------------------------------------------------------------------------
(* The implementation of PortalContract.                                   *)

\* The portal as the rows show it.
Routed == {t \in Tenants : HasPrimaryDomain(t)}
Open == {t \in Tenants : tenants[t].status = "READY"}
Opened == {t \in Tenants : tenants[t].provisioned_at}
Reported == {p \in Jobs \X Tenants : jobs[p[1]].tenant = p[2] /\ jobs[p[1]].is_success = "true"}

\* Nothing is routed, open or reported before the first request.
LEMMA InitPortal == ServiceInit => Portal!PortalInit
  BY DEF ServiceInit, RegistryInit, NewTenant, NewJob, HasPrimaryDomain, Portal!PortalInit

\* A blank row and a job without outcome are not seen at the portal.
LEMMA RequestSimulates ==
  ASSUME IInv, Request
  PROVE  UNCHANGED <<Routed, Open, Opened, Reported>>
  <1> USE DEF IInv
  <1>1. jobs \in JobTable /\ tenants \in TenantTable
    BY DEF ServiceTypeOK, RegistryTypeOK
  <1>2. ASSUME NEW t \in Tenants, CreateOrganization(t) \/ PostTenant(t)
        PROVE  UNCHANGED <<Routed, Open, Opened, Reported>>
    <2>1. /\ \A u \in Tenants : u # t => tenants'[u] = tenants[u]
          /\ tenants'[t].status = "PENDING" /\ ~ tenants'[t].provisioned_at
          /\ tenants[t].status = "PENDING" /\ ~ tenants[t].provisioned_at
          /\ UNCHANGED <<domains, jobs>>
      BY <1>1, <1>2 DEF CreateOrganization, PostTenant, CreateTenantRow, NewTenant,
                        TenantTable, Owned
    <2>2. QED
      BY <2>1 DEF Routed, Open, Opened, Reported, HasPrimaryDomain
  <1>3. ASSUME NEW t \in Tenants, NEW j \in Jobs, StartRun(t, j)
        PROVE  UNCHANGED <<Routed, Open, Opened, Reported>>
    <2>1. /\ UNCHANGED <<domains, tenants>>
          /\ \A k \in Jobs \ {j} : jobs'[k] = jobs[k]
          /\ jobs'[j].is_success = "null" /\ jobs[j].is_success = "null"
      BY <1>1, <1>3 DEF StartRun, NewJob, JobTable, Owned, T
    <2>2. Reported' = Reported
      BY <2>1 DEF Reported
    <2>3. QED
      BY <2>1, <2>2 DEF Routed, Open, Opened, HasPrimaryDomain
  <1>4. QED
    BY <1>2, <1>3 DEF Request

\* What a step of the run of j does to the portal follows from what it does to the row of
\* j and of its tenant.
LEMMA FramePortal ==
  ASSUME IInv, NEW j \in Jobs, Frame(j)
  PROVE  /\ tenants'[T(j)].status = "READY" => Open' = Open \cup {T(j)}
         /\ tenants'[T(j)].status # "READY" => Open' = Open \ {T(j)}
         /\ tenants'[T(j)].provisioned_at => Opened' = Opened \cup {T(j)}
         /\ tenants'[T(j)].provisioned_at = tenants[T(j)].provisioned_at => Opened' = Opened
         /\ jobs'[j].is_success = "true" => Reported' = Reported \cup {<<j, T(j)>>}
         /\ jobs'[j].is_success # "true" => Reported' = Reported \ {<<j, T(j)>>}
         /\ jobs'[j].is_success = jobs[j].is_success => Reported' = Reported
  <1>1. T(j) \in Tenants
    BY JobTenants DEF Frame, IInv
  <1>2. /\ tenants'[T(j)].status = "READY" => Open' = Open \cup {T(j)}
        /\ tenants'[T(j)].status # "READY" => Open' = Open \ {T(j)}
    BY <1>1 DEF Frame, Open
  <1>3. /\ tenants'[T(j)].provisioned_at => Opened' = Opened \cup {T(j)}
        /\ tenants'[T(j)].provisioned_at = tenants[T(j)].provisioned_at => Opened' = Opened
    BY <1>1 DEF Frame, Opened
  <1>4. \A p \in Jobs \X Tenants : p[1] # j => (p \in Reported' <=> p \in Reported)
    BY DEF Frame, Reported
  <1>5. \A t \in Tenants : /\ <<j, t>> \in Reported <=> t = T(j) /\ jobs[j].is_success = "true"
                           /\ <<j, t>> \in Reported' <=> t = T(j) /\ jobs'[j].is_success = "true"
    BY DEF Frame, Reported, T
  <1>6. Reported \subseteq Jobs \X Tenants /\ Reported' \subseteq Jobs \X Tenants
    BY DEF Reported
  <1>7. \A p \in Jobs \X Tenants : p = <<p[1], p[2]>> /\ p[1] \in Jobs /\ p[2] \in Tenants
    OBVIOUS
  <1>8. \A p \in Jobs \X Tenants : p[1] = j /\ p # <<j, T(j)>> => p \notin Reported /\ p \notin Reported'
    BY <1>5, <1>7
  <1>9. <<j, T(j)>> \in Jobs \X Tenants
    BY <1>1
  <1>10. QED
    BY <1>1, <1>2, <1>3, <1>4, <1>5, <1>6, <1>8, <1>9

\* The actions of the contract, in terms of the rows.
LEMMA PortalActions ==
  ASSUME NEW t \in Tenants, NEW j \in Jobs,
         \/ /\ t \notin Routed /\ Routed' = Routed \cup {t}
            /\ UNCHANGED <<Open, Opened, Reported>>
         \/ /\ t \in Routed /\ Open' = Open \cup {t} /\ Opened' = Opened \cup {t}
            /\ UNCHANGED <<Routed, Reported>>
         \/ Open' = Open \ {t} /\ UNCHANGED <<Routed, Opened, Reported>>
         \/ /\ t \in Opened /\ Reported' = Reported \cup {<<j, t>>}
            /\ UNCHANGED <<Routed, Open, Opened>>
         \/ Reported' = Reported \ {<<j, t>>} /\ UNCHANGED <<Routed, Open, Opened>>
         \/ UNCHANGED <<Routed, Open, Opened, Reported>>
  PROVE  [Portal!PortalNext]_(Portal!portalVars)
  <1>1. CASE /\ t \notin Routed /\ Routed' = Routed \cup {t}
             /\ UNCHANGED <<Open, Opened, Reported>>
    <2>1. Portal!Route(t)
      BY <1>1 DEF Portal!Route, Routed, Open, Opened, Reported
    <2>2. QED
      BY <2>1 DEF Portal!PortalNext
  <1>2. CASE /\ t \in Routed /\ Open' = Open \cup {t} /\ Opened' = Opened \cup {t}
             /\ UNCHANGED <<Routed, Reported>>
    <2>1. Portal!Open(t)
      BY <1>2 DEF Portal!Open, Routed, Open, Opened, Reported
    <2>2. QED
      BY <2>1 DEF Portal!PortalNext
  <1>3. CASE Open' = Open \ {t} /\ UNCHANGED <<Routed, Opened, Reported>>
    <2>1. Portal!Close(t)
      BY <1>3 DEF Portal!Close, Routed, Open, Opened, Reported
    <2>2. QED
      BY <2>1 DEF Portal!PortalNext
  <1>4. CASE /\ t \in Opened /\ Reported' = Reported \cup {<<j, t>>}
             /\ UNCHANGED <<Routed, Open, Opened>>
    <2>1. Portal!Report(j, t)
      BY <1>4 DEF Portal!Report, Routed, Open, Opened, Reported
    <2>2. QED
      BY <2>1 DEF Portal!PortalNext
  <1>5. CASE Reported' = Reported \ {<<j, t>>} /\ UNCHANGED <<Routed, Open, Opened>>
    <2>1. Portal!Withdraw(j, t)
      BY <1>5 DEF Portal!Withdraw, Routed, Open, Opened, Reported
    <2>2. QED
      BY <2>1 DEF Portal!PortalNext
  <1>6. CASE UNCHANGED <<Routed, Open, Opened, Reported>>
    <2>1. UNCHANGED Portal!portalVars
      BY <1>6 DEF Portal!portalVars, Routed, Open, Opened, Reported
    <2>2. QED
      BY <2>1
  <1>7. QED
    BY <1>1, <1>2, <1>3, <1>4, <1>5, <1>6

\* Each step of a run is one action of the contract, or none.
LEMMA RunSimulates ==
  ASSUME IInv, NEW j \in Jobs, RunStep(j) \/ Crash(j)
  PROVE  [Portal!PortalNext]_(Portal!portalVars)
  <1>1. ServiceTypeOK /\ Owned
    BY DEF IInv
  <1>2. Frame(j) /\ T(j) \in Tenants
    BY <1>1, FrameStep, Started, RunHasTenant
  <1>3. domains' = domains => Routed' = Routed
    BY DEF Routed, HasPrimaryDomain
  <1>4. CASE CreatePrimaryDomain(j)
    <2>1. /\ UNCHANGED <<tenants, jobs>> /\ domains' = domains \cup {PrimaryDomain(T(j))}
          /\ ~ HasPrimaryDomain(T(j))
      BY <1>1, <1>4, OpeningStep
    <2>2. UNCHANGED <<Open, Opened, Reported>>
      BY <2>1 DEF Open, Opened, Reported
    <2>3. \A t \in Tenants : HasPrimaryDomain(t)' <=> HasPrimaryDomain(t) \/ t = T(j)
      <3>1. PrimaryDomain(T(j)).tenant = T(j) /\ PrimaryDomain(T(j)).is_primary
        BY DEF PrimaryDomain
      <3>2. QED
        BY <2>1, <3>1 DEF HasPrimaryDomain
    <2>4. T(j) \notin Routed /\ Routed' = Routed \cup {T(j)}
      BY <1>2, <2>1, <2>3 DEF Routed
    <2>5. QED
      BY <1>2, <2>2, <2>4, PortalActions
  <1>5. CASE SetReady(j)
    <2>1. UNCHANGED <<domains, jobs>> /\ run[j].pc = "set_ready"
          /\ tenants'[T(j)].status = "READY" /\ tenants'[T(j)].provisioned_at
      BY <1>1, <1>5, OpeningStep
    <2>2. T(j) \in Routed
      BY <1>2, <2>1 DEF IInv, Achieved, Routed
    <2>3. Open' = Open \cup {T(j)} /\ Opened' = Opened \cup {T(j)} /\ Reported' = Reported
      BY <1>2, <2>1, FramePortal
    <2>4. QED
      BY <1>2, <1>3, <2>1, <2>2, <2>3, PortalActions
  <1>6. CASE FinishJob(j)
    <2>1. UNCHANGED <<domains, tenants>> /\ run[j].pc = "finish_job" /\ jobs'[j].is_success = "true"
      BY <1>1, <1>6, OpeningStep
    <2>2. T(j) \in Opened
      BY <1>2, <2>1 DEF IInv, Achieved, Opened
    <2>3. Reported' = Reported \cup {<<j, T(j)>>}
      BY <1>2, <2>1, FramePortal
    <2>4. Open' = Open /\ Opened' = Opened
      BY <2>1 DEF Open, Opened
    <2>5. QED
      BY <1>2, <1>3, <2>1, <2>2, <2>3, <2>4, PortalActions
  <1>7. CASE RecordFailure(j)
    <2>1. UNCHANGED <<domains, tenants>> /\ jobs'[j].is_success = "false"
      BY <1>1, <1>7, OpeningStep
    <2>2. Reported' = Reported \ {<<j, T(j)>>}
      BY <1>2, <2>1, FramePortal
    <2>3. Open' = Open /\ Opened' = Opened
      BY <2>1 DEF Open, Opened
    <2>4. QED
      BY <1>2, <1>3, <2>1, <2>2, <2>3, PortalActions
  <1>8. CASE Closing(j)
    <2>1. Closed(j)
      BY <1>1, <1>8, ClosingStep
    <2>2. Open' = Open \ {T(j)} /\ UNCHANGED <<Opened, Reported>>
      BY <1>2, <2>1, FramePortal DEF Closed
    <2>3. QED
      BY <1>2, <1>3, <2>1, <2>2, PortalActions DEF Closed
  <1>9. CASE /\ ~ CreatePrimaryDomain(j) /\ ~ SetReady(j) /\ ~ FinishJob(j)
             /\ ~ RecordFailure(j) /\ ~ Closing(j)
    <2>1. Hidden(j)
      BY <1>1, <1>9, HiddenStep
    <2>2. Opened' = Opened /\ Reported' = Reported
      BY <1>2, <2>1, FramePortal DEF Hidden
    <2>3. Open' = Open
      BY <1>2, <2>1 DEF Open, Frame, Hidden
    <2>4. QED
      BY <1>2, <1>3, <2>1, <2>2, <2>3, PortalActions DEF Hidden
  <1>10. QED
    BY <1>4, <1>5, <1>6, <1>7, <1>8, <1>9

\* A step of the program is a step of the contract, or is not seen at the portal.
LEMMA StepSimulates ==
  ASSUME IInv, [ServiceNext]_vars
  PROVE  [Portal!PortalNext]_(Portal!portalVars)
  <1>1. CASE Request
    BY <1>1, RequestSimulates DEF Portal!portalVars, Routed, Open, Opened, Reported
  <1>2. ASSUME NEW j \in Jobs, RunStep(j) \/ Crash(j)
        PROVE  [Portal!PortalNext]_(Portal!portalVars)
    BY <1>2, RunSimulates
  <1>3. CASE UNCHANGED vars
    BY <1>3 DEF vars, registryVars, Portal!portalVars, HasPrimaryDomain
  <1>4. QED
    BY <1>1, <1>2, <1>3 DEF ServiceNext

\* The synchronous engine implements the portal contract: it routes a tenant before it
\* opens its portal, takes no route back even when it rolls back, and reports success for
\* a job only when the portal of its tenant has been opened.
THEOREM ServiceImplementsPortal == ServiceSpec => RefinesPortal
  BY InductiveInvariant, InitPortal, StepSimulates, PTL
     DEF ServiceSpec, RefinesPortal, Portal!PortalSpec
-----------------------------------------------------------------------------
\* The steps whose failure makes the rollback remove the users of the tenant, and those
\* whose failure makes it delete the Fineract tenant.
UserSteps == {"CREATE_ADMIN_USER", "SEND_WELCOME_EMAIL", "ACTIVATE", "DONE"}
FineractSteps == UserSteps \cup {"REGISTER_FINERACT_TENANT", "SAVE_REGISTRY"}

\* The statements after the user's row was created, and after the Fineract tenant was.
AfterUser == {"create_tenant_user", "SEND_WELCOME_EMAIL", "send_welcome_email", "ACTIVATE",
              "create_primary_domain", "set_ready", "finish_job"}
AfterTenant == {"save_identifier", "CREATE_ADMIN_USER", "create_user"} \cup AfterUser

\* A run that left something behind without rolling back, or may have.
Gone == {"ready", "aborted", "crashed"}
Failing == {"record_failure", "mark_failed"}

\* The copy of the job names a step whose rollback covers what was done.
StepKnown(q) ==
  /\ q.pc \in AfterUser \cup {"create_user"} => q.current \in UserSteps
  /\ q.pc \in AfterTenant \cup {"create_tenant"} => q.current \in FineractSteps
  /\ q.pc \in AfterTenant => q.identifier

\* What a run still has to answer for: it will undo it, or has not rolled back cleanly.
OwesRole(q) == q.swallowed \/ q.pc \notin {"unused", "write_audit", "failed"}
OwesDatabase(q) ==
  q.swallowed \/ q.pc \notin {"unused", "undo_create_db_role", "write_audit", "failed"}
OwesUser(q) ==
  \/ q.swallowed \/ q.pc \in Gone \cup AfterUser \cup {"undo_create_admin_user"}
  \/ q.pc \in Failing /\ q.current \in UserSteps
OwesFineract(q) ==
  \/ q.swallowed \/ q.pc \in Gone \cup AfterTenant
  \/ q.pc \in Failing /\ q.current \in FineractSteps /\ q.identifier
  \/ q.pc \in {"undo_create_admin_user", "undo_register_fineract_tenant"} /\ q.identifier

\* Everything a tenant owns has a run that answers for it.
Accountable ==
  \A t \in Tenants :
    /\ roles[t] # NoPassword => \E j \in Jobs : T(j) = t /\ OwesRole(run[j])
    /\ databases[t] # "none" => \E j \in Jobs : T(j) = t /\ OwesDatabase(run[j])
    /\ UsersOf(t) # {} => \E j \in Jobs : T(j) = t /\ OwesUser(run[j])
    /\ fineract[t] # "absent" => \E j \in Jobs : T(j) = t /\ OwesFineract(run[j])

RollbackInv == (\A j \in Jobs : StepKnown(run[j])) /\ Accountable

-----------------------------------------------------------------------------
\* The statement after each statement.
LEMMA Follows ==
  /\ After["default_db_name"] = "CREATE_DB" /\ After["CREATE_DB"] = "check_role"
  /\ After["create_role"] = "check_database" /\ After["create_database"] = "save_db_user"
  /\ After["save_db_user"] = "store_credential" /\ After["store_credential"] = "CREATE_DB_USER"
  /\ After["CREATE_DB_USER"] = "GRANT_PERMISSIONS" /\ After["GRANT_PERMISSIONS"] = "grant"
  /\ After["grant"] = "initializing" /\ After["initializing"] = "RUN_FINERACT_SCHEMA"
  /\ After["RUN_FINERACT_SCHEMA"] = "REGISTER_FINERACT_TENANT"
  /\ After["REGISTER_FINERACT_TENANT"] = "create_tenant"
  /\ After["create_tenant"] = "save_identifier"
  /\ After["save_identifier"] = "CREATE_ADMIN_USER" /\ After["CREATE_ADMIN_USER"] = "create_user"
  /\ After["create_tenant_user"] = "SEND_WELCOME_EMAIL"
  /\ After["SEND_WELCOME_EMAIL"] = "send_welcome_email" /\ After["send_welcome_email"] = "ACTIVATE"
  /\ After["ACTIVATE"] = "create_primary_domain" /\ After["create_primary_domain"] = "set_ready"
  /\ After["set_ready"] = "finish_job" /\ After["record_failure"] = "mark_failed"
  /\ After["undo_create_admin_user"] = "undo_register_fineract_tenant"
  /\ After["undo_register_fineract_tenant"] = "undo_create_db_user"
  /\ After["undo_create_db_user"] = "undo_create_db_user_role"
  /\ After["undo_create_db_user_role"] = "undo_create_db"
  /\ After["undo_create_db"] = "undo_create_db_role" /\ After["undo_create_db_role"] = "write_audit"
  /\ After["write_audit"] = "failed"
  BY DEF After

\* The rollback begins early enough.
LEMMA HandlersCover ==
  ASSUME NEW step \in Steps
  PROVE  /\ FirstHandler(step) \in {"undo_create_admin_user", "undo_register_fineract_tenant",
                                    "undo_create_db_user", "undo_create_db"}
         /\ step \in UserSteps => FirstHandler(step) = "undo_create_admin_user"
         /\ step \in FineractSteps =>
              FirstHandler(step) \in {"undo_create_admin_user", "undo_register_fineract_tenant"}
  <1>1. /\ StepOrder[6] = "REGISTER_FINERACT_TENANT" /\ StepOrder[7] = "SAVE_REGISTRY"
        /\ StepOrder[8] = "CREATE_ADMIN_USER" /\ StepOrder[9] = "SEND_WELCOME_EMAIL"
        /\ StepOrder[10] = "ACTIVATE" /\ StepOrder[11] = "DONE"
    BY DEF StepOrder
  <1>2. {6, 7, 8, 9, 10, 11} \subseteq 1..11
    OBVIOUS
  <1>3. ASSUME step \in UserSteps PROVE NotAfter("CREATE_ADMIN_USER", step)
    <2>1. PICK k \in {8, 9, 10, 11} : StepOrder[k] = step
      BY <1>1, <1>3 DEF UserSteps
    <2>2. 8 <= k /\ k \in 1..11
      BY <2>1
    <2>3. QED
      BY <1>1, <1>2, <2>1, <2>2 DEF NotAfter
  <1>4. ASSUME step \in FineractSteps PROVE NotAfter("REGISTER_FINERACT_TENANT", step)
    <2>1. PICK k \in {6, 7, 8, 9, 10, 11} : StepOrder[k] = step
      BY <1>1, <1>4 DEF UserSteps, FineractSteps
    <2>2. 6 <= k /\ k \in 1..11
      BY <2>1
    <2>3. QED
      BY <1>1, <1>2, <2>1, <2>2 DEF NotAfter
  <1>5. ASSUME NotAfter("CREATE_ADMIN_USER", step)
        PROVE  FirstHandler(step) = "undo_create_admin_user"
    <2>1. PICK i \in 1..11, k \in 1..11 :
            i <= k /\ StepOrder[i] = "CREATE_ADMIN_USER" /\ StepOrder[k] = step
      BY <1>5 DEF NotAfter
    <2>2. i \notin {1, 2, 3, 4, 5}
      BY <2>1 DEF StepOrder
    <2>3. 6 <= k
      BY <2>1, <2>2
    <2>4. NotAfter("REGISTER_FINERACT_TENANT", step)
      BY <1>1, <1>2, <2>1, <2>3 DEF NotAfter
    <2>5. QED
      BY <1>5, <2>4 DEF FirstHandler
  <1>6. ASSUME NotAfter("REGISTER_FINERACT_TENANT", step), ~ NotAfter("CREATE_ADMIN_USER", step)
        PROVE  FirstHandler(step) = "undo_register_fineract_tenant"
    BY <1>6 DEF FirstHandler
  <1>7. ASSUME ~ NotAfter("REGISTER_FINERACT_TENANT", step), ~ NotAfter("CREATE_ADMIN_USER", step)
        PROVE  FirstHandler(step) \in {"undo_create_db_user", "undo_create_db"}
    BY <1>7 DEF FirstHandler
  <1>8. QED
    BY <1>3, <1>4, <1>5, <1>6, <1>7

\* A step of the run of j touches no other tenant.
Apart(j) ==
  /\ \A u \in Tenants \ {T(j)} :
       /\ roles'[u] = roles[u] /\ databases'[u] = databases[u]
       /\ fineract'[u] = fineract[u] /\ credentials'[u] = credentials[u]
  /\ \A e \in Emails :
       users'[e] = users[e] \/ {users[e], users'[e]} \subseteq {T(j), Nobody}

\* What the tenant has after it, the run answers for, or another one did before.
Answers(j) ==
  /\ roles'[T(j)] # NoPassword =>
       OwesRole(run'[j]) \/ (roles[T(j)] # NoPassword /\ ~ OwesRole(run[j]))
  /\ databases'[T(j)] # "none" =>
       OwesDatabase(run'[j]) \/ (databases[T(j)] # "none" /\ ~ OwesDatabase(run[j]))
  /\ (\E e \in Emails : users'[e] = T(j)) =>
       OwesUser(run'[j]) \/ (UsersOf(T(j)) # {} /\ ~ OwesUser(run[j]))
  /\ fineract'[T(j)] # "absent" =>
       OwesFineract(run'[j]) \/ (fineract[T(j)] # "absent" /\ ~ OwesFineract(run[j]))

\* What a run answered for it still does.
Inherits(q, n) ==
  /\ OwesRole(q) => OwesRole(n)
  /\ OwesDatabase(q) => OwesDatabase(n)
  /\ OwesUser(q) => OwesUser(n)
  /\ OwesFineract(q) => OwesFineract(n)

LEMMA ApartStep ==
  ASSUME ServiceTypeOK, Owned, NEW j \in Jobs, RunStep(j) \/ Crash(j)
  PROVE  Apart(j)
  <1>1. /\ roles \in Passwords /\ credentials \in Passwords /\ databases \in DatabaseOf
        /\ fineract \in FineractOf /\ users \in UserTable
    BY DEF ServiceTypeOK, RegistryTypeOK
  <1> USE DEF Apart, externalVars, registryVars
  <1>2. CASE CreateRole(j) \/ DropRole(j)
    BY <1>1, <1>2 DEF CreateRole, DropRole, Passwords
  <1>3. CASE CreateDatabase(j) \/ GrantPermissions(j) \/ DropDatabase(j)
    BY <1>1, <1>3 DEF CreateDatabase, GrantPermissions, DropDatabase, DatabaseOf
  <1>4. CASE StoreCredential(j)
    BY <1>1, <1>4 DEF StoreCredential, Passwords
  <1>5. CASE CreateFineractTenant(j) \/ CreateFineractUser(j) \/ UndoRegisterFineractTenant(j)
    BY <1>1, <1>5 DEF CreateFineractTenant, CreateFineractUser, UndoRegisterFineractTenant,
                      FineractOf
  <1>6. CASE CreateAdminUser(j)
    BY <1>1, <1>6 DEF CreateAdminUser, UserTable
  <1>7. CASE UndoCreateAdminUser(j)
    BY <1>1, <1>7 DEF UndoCreateAdminUser, UserTable
  <1>8. CASE \/ BeginRun(j) \/ DefaultDbName(j) \/ Step(j) \/ CheckRole(j) \/ CheckDatabase(j)
             \/ SaveDbUser(j) \/ SetInitializing(j) \/ SaveIdentifier(j) \/ SaveIdentifierAgain(j)
             \/ SendWelcomeEmail(j) \/ CreatePrimaryDomain(j) \/ SetReady(j) \/ FinishJob(j)
             \/ Raise(j) \/ RecordFailure(j) \/ MarkFailed(j) \/ WriteAudit(j) \/ Escape(j)
             \/ Crash(j)
    BY <1>8 DEF BeginRun, DefaultDbName, Step, CheckRole, CheckDatabase, SaveDbUser,
         SetInitializing, SaveIdentifier, SaveIdentifierAgain, SendWelcomeEmail,
         CreatePrimaryDomain, SetReady, FinishJob, Raise, RecordFailure, MarkFailed,
         WriteAudit, Escape, Crash
  <1>9. QED
    BY <1>2, <1>3, <1>4, <1>5, <1>6, <1>7, <1>8 DEF RunStep

\* A step that leaves alone what is owned.
LEMMA QuietAnswers ==
  ASSUME NEW j \in Jobs, UNCHANGED <<roles, databases, users, fineract>>,
         Inherits(run[j], run'[j])
  PROVE  Answers(j)
  BY DEF Answers, Inherits, UsersOf

\* Going on with run() costs nothing of what is answered for.
LEMMA PcInherits ==
  ASSUME NEW q \in RunState, NEW n \in RunState,
         n.current = q.current, n.swallowed = q.swallowed,
         q.identifier => n.identifier,
         \/ q.pc \in {"begin", "default_db_name", "check_role", "check_database", "save_db_user",
                      "store_credential", "initializing"}
            /\ n.pc \in {"default_db_name", "CREATE_DB", "create_role", "check_database",
                 "create_database", "save_db_user", "store_credential", "CREATE_DB_USER",
                 "RUN_FINERACT_SCHEMA"}
         \/ q.pc = "save_identifier" /\ n.pc \in {"save_identifier", "CREATE_ADMIN_USER"}
         \/ q.pc = "send_welcome_email" /\ n.pc = "ACTIVATE"
         \/ q.pc = "create_primary_domain" /\ n.pc = "set_ready"
         \/ q.pc = "set_ready" /\ n.pc = "finish_job"
         \/ q.pc = "record_failure" /\ n.pc = "mark_failed"
         \/ q.pc # "unused" /\ n.pc \in {"aborted", "crashed"}
         \/ q.pc = "write_audit" /\ n.pc = "failed",
         StepKnown(q)
  PROVE  Inherits(q, n) /\ StepKnown(n)
  BY DEF Inherits, StepKnown, OwesRole, OwesDatabase, OwesUser, OwesFineract, AfterUser,
         AfterTenant, Gone, Failing

\* A bookkeeping save: the copy of the job names the step.
LEMMA StepInherits ==
  ASSUME NEW q \in RunState, NEW n \in RunState, StepKnown(q),
         q.pc \in Bookkeeping, n.current = q.pc, n.pc = After[q.pc],
         n.swallowed = q.swallowed, n.identifier = q.identifier
  PROVE  Inherits(q, n) /\ StepKnown(n)
  BY Follows DEF Bookkeeping, Inherits, StepKnown, OwesRole, OwesDatabase, OwesUser, OwesFineract,
         AfterUser, AfterTenant, Gone, Failing, UserSteps, FineractSteps

\* An exception: the copy of the job names the step that failed.
LEMMA RaiseInherits ==
  ASSUME NEW q \in RunState, NEW n \in RunState, StepKnown(q),
         q.pc \in WritesRegistry \cup CallsPostgres \cup {"save_identifier"},
         n.pc = "record_failure", n.swallowed = q.swallowed, n.identifier = q.identifier,
         n.current = CASE q.pc \in Bookkeeping -> q.pc
                       [] q.pc = "finish_job"  -> "DONE"
                       [] OTHER                -> q.current
  PROVE  Inherits(q, n) /\ StepKnown(n)
  BY DEF WritesRegistry, CallsPostgres, Bookkeeping, Inherits, StepKnown, OwesRole, OwesDatabase,
         OwesUser, OwesFineract, AfterUser, AfterTenant, Gone, Failing, UserSteps, FineractSteps

\* The handlers that are run are those of what is answered for.
LEMMA HandlersInherit ==
  ASSUME NEW q \in RunState, NEW n \in RunState,
         q.pc = "mark_failed", n.pc = FirstHandler(q.current),
         n.swallowed = q.swallowed, n.identifier = q.identifier
  PROVE  Inherits(q, n) /\ StepKnown(n)
  <1>1. q.current \in Steps
    BY DEF RunState
  <1>2. QED
    BY <1>1, HandlersCover
    DEF Inherits, StepKnown, OwesRole, OwesDatabase, OwesUser, OwesFineract, AfterUser,
        AfterTenant, Gone, Failing

\* The statements that change nothing a tenant owns.
LEMMA QuietSteps ==
  ASSUME ServiceTypeOK, NEW j \in Jobs, StepKnown(run[j]), run'[j] \in RunState,
         \/ BeginRun(j) \/ DefaultDbName(j) \/ Step(j) \/ CheckRole(j) \/ CheckDatabase(j)
         \/ SaveDbUser(j) \/ StoreCredential(j) \/ SetInitializing(j) \/ SaveIdentifier(j)
         \/ SaveIdentifierAgain(j) \/ SendWelcomeEmail(j) \/ CreatePrimaryDomain(j)
         \/ SetReady(j) \/ FinishJob(j) \/ Raise(j) \/ RecordFailure(j) \/ MarkFailed(j)
         \/ WriteAudit(j) \/ Escape(j) \/ Crash(j)
  PROVE  Answers(j) /\ StepKnown(run'[j])
  <1>1. run \in Memory /\ run[j] \in RunState
    BY DEF ServiceTypeOK, Memory
  <1> USE DEF externalVars, registryVars
  <1>2. UNCHANGED <<roles, databases, users, fineract>>
    BY DEF BeginRun, DefaultDbName, Step, CheckRole, CheckDatabase, SaveDbUser, StoreCredential,
         SetInitializing, SaveIdentifier, SaveIdentifierAgain, SendWelcomeEmail,
         CreatePrimaryDomain, SetReady, FinishJob, Raise, RecordFailure, MarkFailed,
         WriteAudit, Escape, Crash
  <1>3. SUFFICES Inherits(run[j], run'[j]) /\ StepKnown(run'[j])
    BY <1>2, QuietAnswers
  <1> USE DEF Advance, Jump
  <1>4. CASE \/ BeginRun(j) \/ DefaultDbName(j) \/ CheckRole(j) \/ CheckDatabase(j)
             \/ SaveDbUser(j) \/ StoreCredential(j) \/ SetInitializing(j)
    <2>1. /\ run[j].pc \in {"begin", "default_db_name", "check_role", "check_database",
               "save_db_user", "store_credential", "initializing"}
          /\ run'[j].pc \in {"default_db_name", "CREATE_DB", "create_role", "check_database",
               "create_database", "save_db_user", "store_credential", "CREATE_DB_USER",
               "RUN_FINERACT_SCHEMA"}
          /\ run'[j].current = run[j].current /\ run'[j].swallowed = run[j].swallowed
          /\ run'[j].identifier = run[j].identifier
      BY <1>1, <1>4, Follows DEF Memory, RunState, BeginRun, DefaultDbName, CheckRole,
         CheckDatabase, SaveDbUser, StoreCredential, SetInitializing
    <2>2. QED
      BY <1>1, <2>1, PcInherits
  <1>5. CASE \/ SaveIdentifier(j) \/ SaveIdentifierAgain(j) \/ SendWelcomeEmail(j)
             \/ CreatePrimaryDomain(j) \/ SetReady(j) \/ RecordFailure(j) \/ WriteAudit(j)
    <2>1. /\ \/ run[j].pc = "save_identifier"
                /\ run'[j].pc \in {"save_identifier", "CREATE_ADMIN_USER"}
             \/ run[j].pc = "send_welcome_email" /\ run'[j].pc = "ACTIVATE"
             \/ run[j].pc = "create_primary_domain" /\ run'[j].pc = "set_ready"
             \/ run[j].pc = "set_ready" /\ run'[j].pc = "finish_job"
             \/ run[j].pc = "record_failure" /\ run'[j].pc = "mark_failed"
             \/ run[j].pc = "write_audit" /\ run'[j].pc = "failed"
          /\ run'[j].current = run[j].current /\ run'[j].swallowed = run[j].swallowed
          /\ run'[j].identifier = run[j].identifier
      BY <1>1, <1>5, Follows DEF Memory, RunState, SaveIdentifier, SaveIdentifierAgain,
         SendWelcomeEmail, CreatePrimaryDomain, SetReady, RecordFailure, WriteAudit
    <2>2. QED
      BY <1>1, <2>1, PcInherits
  <1>6. CASE Escape(j) \/ Crash(j)
    <2>1. run[j].pc # "unused" /\ run'[j].pc \in {"aborted", "crashed"}
      <3>1. run[j].pc # "unused"
        BY <1>6, Started DEF RunStep
      <3>2. run'[j].pc \in {"aborted", "crashed"}
        BY <1>1, <1>6 DEF Memory, RunState, Escape, Crash
      <3>3. QED
        BY <3>1, <3>2
    <2>2. /\ run'[j].current = run[j].current /\ run'[j].swallowed = run[j].swallowed
          /\ run'[j].identifier = run[j].identifier
      BY <1>1, <1>6 DEF Memory, RunState, Escape, Crash
    <2>3. QED
      BY <1>1, <2>1, <2>2, PcInherits
  <1>7. CASE Step(j)
    BY <1>1, <1>7, StepInherits DEF Step, Memory, RunState
  <1>8. CASE FinishJob(j)
    <2>1. run'[j].pc = "ready"
      BY <1>1, <1>8 DEF FinishJob, Memory, RunState
    <2>2. QED
      BY <2>1 DEF Inherits, StepKnown, OwesRole, OwesDatabase, OwesUser, OwesFineract, Gone,
                  AfterUser, AfterTenant
  <1>9. CASE Raise(j)
    <2>1. run[j].pc \in WritesRegistry \cup CallsPostgres \cup {"save_identifier"}
      BY <1>9 DEF Raise, MayRaise, WritesRegistry, CallsPostgres
    <2>2. /\ run'[j].pc = "record_failure" /\ run'[j].swallowed = run[j].swallowed
          /\ run'[j].identifier = run[j].identifier
          /\ run'[j].current = CASE run[j].pc \in Bookkeeping -> run[j].pc
                                 [] run[j].pc = "finish_job"  -> "DONE"
                                 [] OTHER                     -> run[j].current
      BY <1>1, <1>9 DEF Raise, Memory, RunState
    <2>3. QED
      BY <1>1, <2>1, <2>2, RaiseInherits
  <1>10. CASE MarkFailed(j)
    <2>1. /\ run[j].pc = "mark_failed" /\ run'[j].pc = FirstHandler(run[j].current)
          /\ run'[j].swallowed = run[j].swallowed /\ run'[j].identifier = run[j].identifier
      BY <1>1, <1>10 DEF MarkFailed, Memory, RunState
    <2>2. QED
      BY <1>1, <2>1, HandlersInherit
  <1>11. QED
    BY <1>4, <1>5, <1>6, <1>7, <1>8, <1>9, <1>10

\* The statements that create something, and those that remove it.
LEMMA OwningSteps ==
  ASSUME ServiceTypeOK, Owned, NEW j \in Jobs, StepKnown(run[j]), run'[j] \in RunState,
         \/ CreateRole(j) \/ CreateDatabase(j) \/ GrantPermissions(j)
         \/ CreateFineractTenant(j) \/ CreateFineractUser(j) \/ CreateAdminUser(j)
         \/ UndoCreateAdminUser(j) \/ UndoRegisterFineractTenant(j) \/ DropDatabase(j)
         \/ DropRole(j)
  PROVE  Answers(j) /\ StepKnown(run'[j])
  <1>1. /\ run \in Memory /\ run[j] \in RunState /\ roles \in Passwords
        /\ databases \in DatabaseOf /\ fineract \in FineractOf /\ users \in UserTable
    BY DEF ServiceTypeOK, RegistryTypeOK, Memory
  <1>2. run[j].pc # "unused"
    BY Started DEF RunStep
  <1>3. T(j) \in Tenants
    BY <1>2, RunHasTenant
  <1> USE Follows DEF externalVars, registryVars, Advance, Jump
  <1> DEFINE Same == UNCHANGED <<roles, databases, users, fineract>>
  <1>4. ASSUME CreateRole(j) \/ CreateDatabase(j) \/ GrantPermissions(j)
        PROVE  Answers(j) /\ StepKnown(run'[j])
    <2>1. /\ run'[j].pc \in {"check_database", "save_db_user", "initializing"}
          /\ run[j].pc \in {"create_role", "create_database", "grant"}
          /\ UNCHANGED <<users, fineract>>
      BY <1>1, <1>4 DEF CreateRole, CreateDatabase, GrantPermissions, Memory, RunState
    <2>2. run'[j].swallowed = run[j].swallowed
      BY <1>1, <1>4 DEF CreateRole, CreateDatabase, GrantPermissions, Memory, RunState
    <2>3. QED
      BY <2>1, <2>2 DEF Answers, StepKnown, OwesRole, OwesDatabase, OwesUser, OwesFineract,
         UsersOf, AfterUser, AfterTenant, Gone, Failing
  <1>5. ASSUME CreateFineractTenant(j) PROVE Answers(j) /\ StepKnown(run'[j])
    <2>1. /\ run[j].pc = "create_tenant" /\ run'[j].pc = "save_identifier"
          /\ run'[j].identifier /\ run'[j].current = run[j].current
          /\ run'[j].swallowed = run[j].swallowed
          /\ UNCHANGED <<users, roles, databases>>
      BY <1>1, <1>5 DEF CreateFineractTenant, Memory, RunState
    <2>2. QED
      BY <2>1 DEF Answers, StepKnown, OwesRole, OwesDatabase, OwesUser, OwesFineract,
         UsersOf, AfterUser, AfterTenant, Gone, Failing, UserSteps, FineractSteps
  <1>6. ASSUME CreateFineractUser(j) PROVE Answers(j) /\ StepKnown(run'[j])
    <2>1. /\ run[j].pc = "create_tenant_user" /\ run'[j].pc = "SEND_WELCOME_EMAIL"
          /\ run'[j].identifier = run[j].identifier /\ run'[j].current = run[j].current
          /\ run'[j].swallowed = run[j].swallowed
          /\ UNCHANGED <<users, roles, databases>>
      BY <1>1, <1>6 DEF CreateFineractUser, Memory, RunState
    <2>2. QED
      BY <2>1 DEF Answers, StepKnown, OwesRole, OwesDatabase, OwesUser, OwesFineract,
         UsersOf, AfterUser, AfterTenant, Gone, Failing
  <1>7. ASSUME CreateAdminUser(j) PROVE Answers(j) /\ StepKnown(run'[j])
    <2>1. /\ run[j].pc = "create_user"
          /\ run'[j].pc \in {"SEND_WELCOME_EMAIL", "create_tenant_user"}
          /\ run'[j].identifier = run[j].identifier /\ run'[j].current = run[j].current
          /\ run'[j].swallowed = run[j].swallowed
          /\ UNCHANGED <<fineract, roles, databases>>
      BY <1>1, <1>7 DEF CreateAdminUser, Memory, RunState
    <2>2. QED
      BY <2>1 DEF Answers, StepKnown, OwesRole, OwesDatabase, OwesUser, OwesFineract,
         UsersOf, AfterUser, AfterTenant, Gone, Failing
  <1>8. ASSUME UndoCreateAdminUser(j) PROVE Answers(j) /\ StepKnown(run'[j])
    <2>1. /\ run[j].pc = "undo_create_admin_user"
          /\ run'[j].pc = "undo_register_fineract_tenant"
          /\ run'[j].identifier = run[j].identifier
          /\ run'[j].swallowed = run[j].swallowed
          /\ UNCHANGED <<fineract, roles, databases>>
      BY <1>1, <1>8 DEF UndoCreateAdminUser, Memory, RunState
    <2>2. \A e \in Emails : users'[e] # T(j)
      BY <1>1, <1>3, <1>8, RegistryAssumption DEF UndoCreateAdminUser, UserTable
    <2>3. QED
      BY <2>1, <2>2 DEF Answers, StepKnown, OwesRole, OwesDatabase, OwesUser, OwesFineract,
         AfterUser, AfterTenant, Gone, Failing
  <1>9. ASSUME UndoRegisterFineractTenant(j) PROVE Answers(j) /\ StepKnown(run'[j])
    <2>1. /\ run[j].pc = "undo_register_fineract_tenant"
          /\ run'[j].pc = "undo_create_db_user"
          /\ run[j].swallowed => run'[j].swallowed
          /\ UNCHANGED <<users, roles, databases>>
      BY <1>1, <1>9 DEF UndoRegisterFineractTenant, Memory, RunState
    <2>2. \/ fineract'[T(j)] = "absent" \/ run'[j].swallowed
          \/ UNCHANGED fineract /\ ~ run[j].identifier
      BY <1>1, <1>3, <1>9 DEF UndoRegisterFineractTenant, FineractOf, Memory, RunState
    <2>3. QED
      BY <2>1, <2>2 DEF Answers, StepKnown, OwesRole, OwesDatabase, OwesUser, OwesFineract,
         UsersOf, AfterUser, AfterTenant, Gone, Failing
  <1>10. ASSUME DropDatabase(j) PROVE Answers(j) /\ StepKnown(run'[j])
    <2>1. /\ run[j].pc \in {"undo_create_db_user", "undo_create_db"}
          /\ run'[j].pc \in {"undo_create_db_user_role", "undo_create_db",
                             "undo_create_db_role", "write_audit"}
          /\ run[j].swallowed => run'[j].swallowed
          /\ run'[j].pc = "write_audit" => run'[j].swallowed
          /\ UNCHANGED <<users, roles, fineract>>
          /\ databases'[T(j)] = "none" \/ run'[j].swallowed
      BY <1>1, <1>3, <1>10 DEF DropDatabase, DropsDatabase, DatabaseOf, Memory, RunState
    <2>2. QED
      BY <2>1 DEF Answers, StepKnown, OwesRole, OwesDatabase, OwesUser, OwesFineract,
         UsersOf, AfterUser, AfterTenant, Gone, Failing
  <1>11. ASSUME DropRole(j) PROVE Answers(j) /\ StepKnown(run'[j])
    <2>1. /\ \/ run[j].pc = "undo_create_db_user_role" /\ run'[j].pc = "undo_create_db"
             \/ run[j].pc = "undo_create_db_role" /\ run'[j].pc = "write_audit"
          /\ run[j].swallowed => run'[j].swallowed
          /\ UNCHANGED <<users, databases, fineract>>
          /\ roles'[T(j)] = NoPassword \/ run'[j].swallowed
      BY <1>1, <1>3, <1>11 DEF DropRole, DropsRole, Passwords, Memory, RunState
    <2>2. QED
      BY <2>1 DEF Answers, StepKnown, OwesRole, OwesDatabase, OwesUser, OwesFineract,
         UsersOf, AfterUser, AfterTenant, Gone, Failing
  <1>12. QED
    BY <1>4, <1>5, <1>6, <1>7, <1>8, <1>9, <1>10, <1>11

\* The invariant is inductive.
LEMMA RunRollback ==
  ASSUME ServiceTypeOK, Owned, RollbackInv, ServiceTypeOK', NEW j \in Jobs,
         RunStep(j) \/ Crash(j)
  PROVE  RollbackInv'
  <1>1. StepKnown(run[j]) /\ run'[j] \in RunState
    BY DEF RollbackInv, ServiceTypeOK, Memory
  <1>2. Answers(j) /\ StepKnown(run'[j])
    BY <1>1, QuietSteps, OwningSteps DEF RunStep
  <1>3. Frame(j) /\ Apart(j)
    BY FrameStep, ApartStep
  <1>4. PICK t \in Tenants : t = T(j)
    BY Started, RunHasTenant
  <1>5. \A k \in Jobs : T(k)' = T(k) /\ (k # j => run'[k] = run[k])
    BY <1>3 DEF Frame, T
  <1>6. \A k \in Jobs : StepKnown(run'[k])
    BY <1>2, <1>5 DEF RollbackInv
  <1>7. ASSUME NEW u \in Tenants, u # t
        PROVE  /\ roles'[u] = roles[u] /\ databases'[u] = databases[u]
               /\ fineract'[u] = fineract[u] /\ UsersOf(u)' = UsersOf(u)
    BY <1>3, <1>4, <1>7, RegistryAssumption DEF Apart, UsersOf
  <1>8. \A u \in Tenants \ {t}, k \in Jobs : T(k) = u => k # j
    BY <1>4
  <1>9. ASSUME NEW u \in Tenants PROVE
          /\ roles'[u] # NoPassword => \E k \in Jobs : T(k) = u /\ OwesRole(run'[k])
          /\ databases'[u] # "none" => \E k \in Jobs : T(k) = u /\ OwesDatabase(run'[k])
          /\ UsersOf(u)' # {} => \E k \in Jobs : T(k) = u /\ OwesUser(run'[k])
          /\ fineract'[u] # "absent" => \E k \in Jobs : T(k) = u /\ OwesFineract(run'[k])
    <2>1. CASE u # t
      BY <1>5, <1>7, <1>8, <2>1 DEF RollbackInv, Accountable
    <2>2. CASE u = t
      <3>1. UsersOf(u)' # {} => \E e \in Emails : users'[e] = T(j)
        BY <1>4, <2>2 DEF UsersOf
      <3>2. QED
        BY <1>2, <1>4, <1>5, <2>2, <3>1 DEF RollbackInv, Accountable, Answers
    <2>3. QED
      BY <2>1, <2>2
  <1>10. QED
    BY <1>5, <1>6, <1>9 DEF RollbackInv, Accountable

LEMMA RollbackStep ==
  ASSUME IInv, RollbackInv, [ServiceNext]_vars
  PROVE  RollbackInv'
  <1>1. ServiceTypeOK /\ Owned /\ ServiceTypeOK'
    BY TypeStep DEF IInv
  <1> USE DEF externalVars, registryVars
  <1>2. ASSUME NEW t \in Tenants, CreateOrganization(t) \/ PostTenant(t) PROVE RollbackInv'
    <2>1. UNCHANGED <<roles, databases, fineract, users, jobs, run>>
      BY <1>2 DEF CreateOrganization, PostTenant, CreateTenantRow
    <2>2. QED
      BY <2>1 DEF RollbackInv, Accountable, UsersOf, T
  <1>3. ASSUME NEW t \in Tenants, NEW j \in Jobs, StartRun(t, j) PROVE RollbackInv'
    <2>1. /\ run[j].pc = "unused" /\ run'[j].pc = "begin" /\ jobs[j].tenant = Nobody
          /\ \A k \in Jobs \ {j} : run'[k] = run[k] /\ jobs'[k] = jobs[k]
          /\ UNCHANGED <<roles, databases, users, fineract>>
      <3>1. jobs[j].tenant = Nobody /\ run[j].pc = "unused"
        BY <1>1, <1>3 DEF StartRun, Owned, T
      <3>2. run'[j].pc = "begin"
        BY <1>1, <1>3 DEF StartRun, ServiceTypeOK, Memory, RunState
      <3>3. \A k \in Jobs \ {j} : run'[k] = run[k] /\ jobs'[k] = jobs[k]
        BY <1>1, <1>3 DEF StartRun, ServiceTypeOK, RegistryTypeOK, Memory, JobTable
      <3>4. QED
        BY <1>3, <3>1, <3>2, <3>3 DEF StartRun
    <2>2. \A u \in Tenants, k \in Jobs : T(k) = u => k # j
      BY <2>1, RegistryAssumption DEF T
    <2>3. StepKnown(run'[j])
      BY <2>1 DEF StepKnown, AfterUser, AfterTenant
    <2>4. \A k \in Jobs : StepKnown(run'[k])
      BY <2>1, <2>3 DEF RollbackInv
    <2>5. \A u \in Tenants, k \in Jobs : T(k) = u => T(k)' = u /\ run'[k] = run[k]
      BY <2>1, <2>2 DEF T
    <2>6. \A u \in Tenants : UsersOf(u)' = UsersOf(u)
      BY <2>1 DEF UsersOf
    <2>7. Accountable'
      BY <2>1, <2>5, <2>6 DEF RollbackInv, Accountable
    <2>8. QED
      BY <2>4, <2>7 DEF RollbackInv
  <1>4. ASSUME NEW j \in Jobs, RunStep(j) \/ Crash(j) PROVE RollbackInv'
    BY <1>1, <1>4, RunRollback
  <1>5. CASE UNCHANGED vars
    BY <1>5 DEF vars, RollbackInv, Accountable, UsersOf, T
  <1>6. QED
    BY <1>2, <1>3, <1>4, <1>5 DEF ServiceNext, Request

LEMMA RollbackInitially ==
  ASSUME ServiceInit
  PROVE  RollbackInv
  BY RegistryAssumption
  DEF ServiceInit, RegistryInit, RollbackInv, Accountable, StepKnown, AfterUser, AfterTenant,
      UsersOf

\* A run that rolled back without losing a cleanup answers for nothing.
LEMMA RollbacksAreClean ==
  ASSUME RollbackInv
  PROVE  CleanRollback
  BY DEF RollbackInv, Accountable, CleanRollback, RunsOf, OwesRole, OwesDatabase, OwesUser,
     OwesFineract, Gone, AfterUser, AfterTenant, Failing

\* "Undo" is complete: when every run of a tenant has rolled back and no cleanup was lost,
\* it has no role, database, user or Fineract tenant, for any number of overlapping runs and
\* any answers of Fineract that were lost.
THEOREM RollbacksUndo == ServiceSpec => []CleanRollback
  <1>1. ServiceInit => IInv /\ RollbackInv
    BY InitIInv, RollbackInitially
  <1>2. IInv /\ RollbackInv /\ [ServiceNext]_vars => IInv' /\ RollbackInv'
    BY StepIInv, RollbackStep
  <1>3. RollbackInv => CleanRollback
    BY RollbacksAreClean
  <1>4. QED
    BY <1>1, <1>2, <1>3, PTL DEF ServiceSpec

-----------------------------------------------------------------------------
(* One run after the other                                                 *)

\* The statements at which the role is there, the database is, it may be used, and the
\* password is stored; and those at which the tenant may still, or already, be READY.
WithRole == {"check_database", "create_database", "save_db_user", "store_credential",
             "CREATE_DB_USER", "GRANT_PERMISSIONS", "grant", "initializing",
             "RUN_FINERACT_SCHEMA", "REGISTER_FINERACT_TENANT", "create_tenant"} \cup AfterTenant
WithDatabase == WithRole \ {"check_database", "create_database"}
Granted == {"initializing", "RUN_FINERACT_SCHEMA", "REGISTER_FINERACT_TENANT", "create_tenant"}
             \cup AfterTenant
Stored == WithDatabase \ {"save_db_user", "store_credential"}
MaybeReady == {"begin", "finish_job"} \cup Failing

Alone == \A j, k \in Jobs : Active(j) /\ Active(k) /\ T(j) = T(k) => j = k

\* The address of the organization is the tenant's, so a run that begins now will fail.
Claimed(t) == users[ContactEmail[t]] = t

\* What stands when the only run of t is at l.
Stands(l, t) ==
  /\ l \in WithRole => roles[t] # NoPassword
  /\ l \in WithDatabase => databases[t] # "none"
  /\ l \in Granted => databases[t] = "role"
  /\ l \in AfterUser => Claimed(t)
  /\ l \notin MaybeReady => tenants[t].status # "READY"

Up(t) == databases[t] = "role" /\ roles[t] # NoPassword /\ Claimed(t)

Tidy(q) == ~ q.swallowed /\ q.pc \notin {"aborted", "crashed"}
Clean(t) == \A j \in RunsOf(t) : Tidy(run[j])

\* Between two runs of t: no role, or one whose password is stored.
Fits(t) == roles[t] = NoPassword \/ (Claimed(t) /\ credentials[t] = roles[t])

\* The password of the role when the run of j for t is at l: it is drawn by this run, or
\* the run will not get past the creation of the user.
Keyed(l, t, j) ==
  /\ l = "begin" => Fits(t)
  /\ l \in {"default_db_name", "CREATE_DB", "check_role"} => roles[t] = NoPassword \/ Claimed(t)
  /\ l \in {"create_role", "write_audit"} => roles[t] = NoPassword
  /\ l \in WithRole => roles[t] = j \/ (Claimed(t) /\ l \notin AfterUser)
  /\ l \in Stored => credentials[t] = j
  /\ l \in Failing /\ tenants[t].status = "READY" => credentials[t] = roles[t]

OneByOne ==
  /\ Alone
  /\ \A j \in Jobs : Active(j) => Stands(run[j].pc, T(j))
  /\ \A t \in Tenants : tenants[t].status = "READY" => Up(t)
  /\ \A j \in Jobs : Active(j) /\ Clean(T(j)) => Keyed(run[j].pc, T(j), j)
  /\ \A t \in Tenants : Clean(t) /\ (\A j \in RunsOf(t) : ~ Active(j)) => Fits(t)

\* What a step of the run of j for t, from l to m, must keep.
Keeps(j, t, l, m) ==
  /\ m \notin Ended => Stands(m, t)'
  /\ Tidy(run'[j]) /\ Keyed(l, t, j) => IF m \in Ended THEN Fits(t)' ELSE Keyed(m, t, j)'
  /\ tenants'[t].status = "READY" => Up(t)'

\* Where a run goes without changing what it needs.
Edge(l, m, t) ==
  \/ l = "default_db_name" /\ m = "CREATE_DB"
  \/ l = "CREATE_DB" /\ m = "check_role"
  \/ l = "check_role" /\ m = "create_role" /\ roles[t] = NoPassword
  \/ l = "check_role" /\ m = "check_database" /\ roles[t] # NoPassword
  \/ l = "check_database" /\ m = "create_database"
  \/ l = "check_database" /\ m = "save_db_user" /\ databases[t] # "none"
  \/ l = "save_db_user" /\ m = "store_credential"
  \/ l \in Stored /\ m \in Stored /\ (m \in Granted => l \in Granted)
       /\ (m \in AfterUser <=> l \in AfterUser) /\ l # "finish_job" /\ m # "finish_job"
  \/ l = "finish_job" /\ m = "ready"
  \/ l \notin Failing \cup {"begin"} /\ m = "record_failure"
  \/ l = "record_failure" /\ m = "mark_failed"
  \/ l = "undo_register_fineract_tenant" /\ m = "undo_create_db_user"
  \/ l = "write_audit" /\ m = "failed"
  \/ m \in {"aborted", "crashed"}

LEMMA EdgeStands ==
  ASSUME NEW t \in Tenants, NEW j \in Jobs, NEW l, NEW m, Edge(l, m, t), Stands(l, t),
         m \notin Ended
  PROVE  Stands(m, t)
  BY DEF Edge, Stands, Ended, WithRole, WithDatabase, Granted, Stored, MaybeReady, AfterUser,
         AfterTenant, Failing

LEMMA EdgeKeyed ==
  ASSUME NEW t \in Tenants, NEW j \in Jobs, NEW l, NEW m, Edge(l, m, t), Stands(l, t),
         m \notin {"aborted", "crashed"}, Keyed(l, t, j)
  PROVE  IF m \in Ended THEN Fits(t) ELSE Keyed(m, t, j)
  BY DEF Edge, Stands, Keyed, Fits, Ended, WithRole, WithDatabase, Granted, Stored, MaybeReady,
         AfterUser, AfterTenant, Failing

\* The variables that these are about.
LEMMA SameWorld ==
  ASSUME NEW t \in Tenants, NEW j \in Jobs, NEW l, NEW m, Edge(l, m, t), Stands(l, t),
         UNCHANGED <<roles, databases, users, credentials>>,
         tenants'[t].status = tenants[t].status, run'[j].pc = m,
         tenants[t].status = "READY" => Up(t)
  PROVE  Keeps(j, t, l, m)
  <1>1. Claimed(t)' = Claimed(t) /\ Fits(t)' = Fits(t) /\ Up(t)' = Up(t)
    BY DEF Claimed, Fits, Up
  <1>2. Stands(m, t)' = Stands(m, t) /\ Keyed(m, t, j)' = Keyed(m, t, j)
    BY <1>1 DEF Stands, Keyed
  <1>3. QED
    BY <1>1, <1>2, EdgeStands, EdgeKeyed DEF Keeps, Tidy

\* Every statement, exception and crash is one of a run that is not over.
LEMMA Running ==
  ASSUME NEW j \in Jobs, RunStep(j) \/ Crash(j)
  PROVE  Active(j)
  <1>1. ASSUME MayRaise(j) PROVE run[j].pc \notin Ended
    BY <1>1 DEF MayRaise, WritesRegistry, Bookkeeping, CallsPostgres, Ended
  <1>2. run[j].pc \notin Ended
    BY <1>1 DEF RunStep, BeginRun, DefaultDbName, Step, CheckRole, CreateRole, CheckDatabase,
      CreateDatabase, SaveDbUser, StoreCredential, GrantPermissions, SetInitializing,
      CreateFineractTenant, SaveIdentifier, SaveIdentifierAgain, CreateAdminUser,
      CreateFineractUser, SendWelcomeEmail, CreatePrimaryDomain, SetReady, FinishJob, Raise,
      RecordFailure, MarkFailed, UndoCreateAdminUser, UndoRegisterFineractTenant,
      DropDatabase, DropRole, DropsDatabase, DropsRole, WriteAudit, Escape, Crash, Active,
      Bookkeeping, Ended
  <1>3. QED
    BY <1>2, Started DEF Active

\* What a run does at l before it goes to m, when nothing it needs changes.
LEMMA QuietEdges ==
  ASSUME ServiceTypeOK, NEW j \in Jobs, NEW t \in Tenants, t = T(j),
         NEW l, l = run[j].pc, NEW m, m = run'[j].pc, run'[j] \in RunState,
         \/ DefaultDbName(j) \/ Step(j) \/ CheckRole(j) \/ CheckDatabase(j) \/ SaveDbUser(j)
         \/ CreateFineractTenant(j) \/ SaveIdentifier(j) \/ SaveIdentifierAgain(j)
         \/ CreateFineractUser(j) \/ SendWelcomeEmail(j) \/ CreatePrimaryDomain(j)
         \/ FinishJob(j) \/ Raise(j) \/ RecordFailure(j) \/ UndoRegisterFineractTenant(j)
         \/ WriteAudit(j) \/ Escape(j) \/ Crash(j)
  PROVE  /\ Edge(l, m, t) /\ UNCHANGED <<roles, databases, users, credentials>>
         /\ tenants'[t].status = tenants[t].status
  <1>1. run \in Memory /\ run[j] \in RunState /\ tenants \in TenantTable
    BY DEF ServiceTypeOK, RegistryTypeOK, Memory
  <1>2. UNCHANGED <<roles, databases, users, credentials>>
    BY DEF DefaultDbName, Step, CheckRole, CheckDatabase, SaveDbUser, CreateFineractTenant,
         SaveIdentifier, SaveIdentifierAgain, CreateFineractUser, SendWelcomeEmail,
         CreatePrimaryDomain, FinishJob, Raise, RecordFailure, UndoRegisterFineractTenant,
         WriteAudit, Escape, Crash, externalVars, registryVars
  <1>3. tenants'[t].status = tenants[t].status
    <2>1. CASE DefaultDbName(j) \/ SaveDbUser(j) \/ SaveIdentifier(j)
      BY <1>1, <2>1 DEF DefaultDbName, SaveDbUser, SaveIdentifier, TenantTable, TenantRow
    <2>2. CASE ~ (DefaultDbName(j) \/ SaveDbUser(j) \/ SaveIdentifier(j))
      BY <2>2 DEF Step, CheckRole, CheckDatabase, CreateFineractTenant,
         SaveIdentifierAgain, CreateFineractUser, SendWelcomeEmail,
         CreatePrimaryDomain, FinishJob, Raise, RecordFailure, UndoRegisterFineractTenant,
         WriteAudit, Escape, Crash, externalVars, registryVars
    <2>3. QED
      BY <2>1, <2>2
  <1> USE DEF Advance, Jump
  <1>4. CASE CheckRole(j) \/ CheckDatabase(j)
    <2>1. \/ /\ l = "check_role"
             /\ m = IF roles[t] = NoPassword THEN "create_role" ELSE "check_database"
          \/ /\ l = "check_database"
             /\ m = IF databases[t] = "none" THEN "create_database" ELSE "save_db_user"
      BY <1>1, <1>4 DEF CheckRole, CheckDatabase, Memory, RunState
    <2>2. QED
      BY <1>2, <1>3, <2>1 DEF Edge
  <1>5. CASE Step(j)
    <2>1. l \in Bookkeeping /\ m = After[l]
      BY <1>1, <1>5 DEF Step, Memory, RunState
    <2>2. QED
      BY <1>2, <1>3, <2>1, Follows DEF Edge, Bookkeeping, Stored, WithDatabase, WithRole, Granted,
         AfterUser, AfterTenant
  <1>6. CASE \/ DefaultDbName(j) \/ SaveDbUser(j) \/ CreateFineractTenant(j) \/ SaveIdentifier(j)
             \/ CreateFineractUser(j) \/ SendWelcomeEmail(j) \/ CreatePrimaryDomain(j)
             \/ RecordFailure(j) \/ UndoRegisterFineractTenant(j) \/ WriteAudit(j)
    <2>1. /\ l \in {"default_db_name", "save_db_user", "create_tenant", "save_identifier",
                    "create_tenant_user", "send_welcome_email", "create_primary_domain",
                    "record_failure", "undo_register_fineract_tenant", "write_audit"}
          /\ m = After[l]
      <3>1. CASE CreateFineractTenant(j)
        BY <1>1, <3>1 DEF CreateFineractTenant, Memory, RunState
      <3>2. CASE CreateFineractUser(j)
        BY <1>1, <3>2 DEF CreateFineractUser, Memory, RunState
      <3>3. CASE UndoRegisterFineractTenant(j)
        BY <1>1, <3>3 DEF UndoRegisterFineractTenant, Memory, RunState
      <3>4. CASE \/ DefaultDbName(j) \/ SaveDbUser(j) \/ SaveIdentifier(j) \/ SendWelcomeEmail(j)
                 \/ CreatePrimaryDomain(j) \/ RecordFailure(j) \/ WriteAudit(j)
        BY <1>1, <3>4 DEF DefaultDbName, SaveDbUser, SaveIdentifier, SendWelcomeEmail,
           CreatePrimaryDomain, RecordFailure, WriteAudit, Memory, RunState
      <3>5. QED
        BY <1>6, <3>1, <3>2, <3>3, <3>4
    <2>2. QED
      BY <1>2, <1>3, <2>1, Follows DEF Edge, Stored, WithDatabase, WithRole, Granted,
         AfterUser, AfterTenant
  <1>7. CASE SaveIdentifierAgain(j) \/ FinishJob(j) \/ Raise(j) \/ Escape(j) \/ Crash(j)
    <2>1. \/ l = "save_identifier" /\ m = "save_identifier"
          \/ l = "finish_job" /\ m = "ready"
          \/ l \notin Failing \cup {"begin"} /\ m = "record_failure"
          \/ m \in {"aborted", "crashed"}
      BY <1>1, <1>7 DEF SaveIdentifierAgain, FinishJob, Raise, MayRaise, Escape, Crash, Memory,
         RunState, Failing, WritesRegistry, Bookkeeping, CallsPostgres
    <2>2. QED
      BY <1>2, <1>3, <2>1 DEF Edge, Stored, WithDatabase, WithRole, Granted, AfterUser, AfterTenant
  <1>8. QED
    BY <1>4, <1>5, <1>6, <1>7

\* Saves of the status.
LEMMA StatusKeeps ==
  ASSUME ServiceTypeOK, NEW j \in Jobs, NEW t \in Tenants, t = T(j),
         NEW l, l = run[j].pc, NEW m, m = run'[j].pc, run'[j] \in RunState, Stands(l, t),
         BeginRun(j) \/ SetInitializing(j) \/ SetReady(j) \/ MarkFailed(j)
  PROVE  Keeps(j, t, l, m)
  <1>1. run \in Memory /\ run[j] \in RunState /\ tenants \in TenantTable
    BY DEF ServiceTypeOK, RegistryTypeOK, Memory
  <1>2. UNCHANGED <<roles, databases, users, credentials>>
    BY DEF BeginRun, SetInitializing, SetReady, MarkFailed, externalVars
  <1>3. Claimed(t)' = Claimed(t) /\ Fits(t)' = Fits(t) /\ Up(t)' = Up(t)
    BY <1>2 DEF Claimed, Fits, Up
  <1> USE Follows DEF Advance, Jump
  <1>4. CASE BeginRun(j)
    <2>1. /\ l = "begin" /\ m \in {"default_db_name", "CREATE_DB"}
          /\ tenants'[t].status # "READY"
      BY <1>1, <1>4 DEF BeginRun, Memory, RunState, TenantTable, TenantRow
    <2>2. Stands(m, t)'
      BY <2>1 DEF Stands, WithRole, WithDatabase, Granted, AfterUser, AfterTenant
    <2>3. Keyed(l, t, j) => Keyed(m, t, j)'
      BY <1>2, <1>3, <2>1 DEF Keyed, Fits, WithRole, Stored, WithDatabase, AfterUser, AfterTenant, Failing
    <2>4. QED
      BY <2>1, <2>2, <2>3 DEF Keeps, Ended
  <1>5. CASE SetInitializing(j)
    <2>1. /\ l = "initializing" /\ m = "RUN_FINERACT_SCHEMA" /\ tenants'[t].status # "READY"
      BY <1>1, <1>5 DEF SetInitializing, Memory, RunState, TenantTable, TenantRow
    <2>2. Stands(m, t)'
      BY <1>2, <1>3, <2>1 DEF Stands, WithRole, WithDatabase, Granted, AfterUser, AfterTenant
    <2>3. Keyed(l, t, j) => Keyed(m, t, j)'
      BY <1>2, <1>3, <2>1 DEF Keyed, WithRole, Stored, WithDatabase, AfterUser, AfterTenant, Failing
    <2>4. QED
      BY <2>1, <2>2, <2>3 DEF Keeps, Ended
  <1>6. CASE SetReady(j)
    <2>1. l = "set_ready" /\ m = "finish_job"
      BY <1>1, <1>6 DEF SetReady, Memory, RunState
    <2>2. Stands(m, t)'
      BY <1>2, <1>3, <2>1 DEF Stands, WithRole, WithDatabase, Granted, AfterUser, AfterTenant, MaybeReady
    <2>3. Keyed(l, t, j) => Keyed(m, t, j)'
      BY <1>2, <1>3, <2>1 DEF Keyed, WithRole, Stored, WithDatabase, AfterUser, AfterTenant, Failing
    <2>4. Up(t)'
      BY <1>3, <2>1 DEF Stands, Up, WithRole, WithDatabase, Granted, AfterUser, AfterTenant
    <2>5. QED
      BY <2>1, <2>2, <2>3, <2>4 DEF Keeps, Ended
  <1>7. CASE MarkFailed(j)
    <2>1. l = "mark_failed" /\ m = FirstHandler(run[j].current) /\ tenants'[t].status # "READY"
      BY <1>1, <1>7 DEF MarkFailed, Memory, RunState, TenantTable, TenantRow
    <2>2. m \in {"undo_create_admin_user", "undo_register_fineract_tenant",
                 "undo_create_db_user", "undo_create_db"}
      BY <1>1, <2>1, HandlersCover DEF RunState
    <2>3. Stands(m, t)' /\ Keyed(m, t, j)'
      BY <2>1, <2>2 DEF Stands, Keyed, WithRole, Stored, WithDatabase, Granted, AfterUser,
         AfterTenant, Failing
    <2>4. QED
      BY <2>1, <2>2, <2>3 DEF Keeps, Ended
  <1>8. QED
    BY <1>4, <1>5, <1>6, <1>7

\* What a run makes.
LEMMA MakingKeeps ==
  ASSUME ServiceTypeOK, NEW j \in Jobs, NEW t \in Tenants, t = T(j),
         NEW l, l = run[j].pc, NEW m, m = run'[j].pc, run'[j] \in RunState, Stands(l, t),
         \/ CreateRole(j) \/ CreateDatabase(j) \/ StoreCredential(j) \/ GrantPermissions(j)
         \/ CreateAdminUser(j)
  PROVE  Keeps(j, t, l, m)
  <1>1. /\ run \in Memory /\ run[j] \in RunState /\ roles \in Passwords
        /\ databases \in DatabaseOf /\ credentials \in Passwords /\ users \in UserTable
    BY DEF ServiceTypeOK, RegistryTypeOK, Memory
  <1> USE Follows DEF Advance, Jump
  <1>2. CASE CreateRole(j)
    <2>1. /\ l = "create_role" /\ m = "check_database" /\ roles'[t] = j
          /\ UNCHANGED <<tenants, users, databases>>
      BY <1>1, <1>2 DEF CreateRole, Memory, RunState, Passwords, registryVars
    <2>2. Stands(m, t)'
      BY <2>1, RegistryAssumption DEF Stands, WithRole, WithDatabase, Granted, AfterUser,
         AfterTenant, MaybeReady, Failing
    <2>3. Keyed(m, t, j)'
      BY <2>1 DEF Keyed, WithRole, Stored, WithDatabase, AfterUser, AfterTenant, Failing
    <2>4. tenants'[t].status # "READY"
      BY <2>1 DEF Stands, MaybeReady, Failing
    <2>5. QED
      BY <2>1, <2>2, <2>3, <2>4 DEF Keeps, Ended
  <1>3. CASE CreateDatabase(j) \/ StoreCredential(j) \/ GrantPermissions(j)
    <2>1. /\ \/ l = "create_database" /\ m = "save_db_user" /\ databases'[t] = "role"
                /\ UNCHANGED credentials
             \/ l = "store_credential" /\ m = "CREATE_DB_USER" /\ credentials'[t] = j
                /\ UNCHANGED databases
             \/ l = "grant" /\ m = "initializing" /\ databases'[t] = "role"
                /\ UNCHANGED credentials
          /\ UNCHANGED <<tenants, users, roles>>
      <3>1. CASE CreateDatabase(j)
        BY <1>1, <3>1 DEF CreateDatabase, Memory, RunState, DatabaseOf, registryVars
      <3>2. CASE StoreCredential(j)
        BY <1>1, <3>2 DEF StoreCredential, Memory, RunState, Passwords, externalVars
      <3>3. CASE GrantPermissions(j)
        BY <1>1, <3>3 DEF GrantPermissions, Memory, RunState, DatabaseOf, registryVars
      <3>4. QED
        BY <1>3, <3>1, <3>2, <3>3
    <2>2. Claimed(t)' = Claimed(t)
      BY <2>1 DEF Claimed
    <2>3. Stands(m, t)'
      BY <2>1, <2>2 DEF Stands, WithRole, WithDatabase, Granted, AfterUser, AfterTenant,
         MaybeReady, Failing
    <2>4. Keyed(l, t, j) => Keyed(m, t, j)'
      BY <2>1, <2>2 DEF Keyed, WithRole, Stored, WithDatabase, AfterUser, AfterTenant, Failing
    <2>5. tenants'[t].status # "READY"
      BY <2>1 DEF Stands, MaybeReady, Failing
    <2>6. QED
      BY <2>1, <2>3, <2>4, <2>5 DEF Keeps, Ended
  <1>4. CASE CreateAdminUser(j)
    <2>1. /\ l = "create_user" /\ m \in {"SEND_WELCOME_EMAIL", "create_tenant_user"}
          /\ ~ Claimed(t) /\ Claimed(t)'
          /\ UNCHANGED <<tenants, roles, databases, credentials>>
      BY <1>1, <1>4, RegistryAssumption
      DEF CreateAdminUser, Memory, RunState, UserTable, Claimed, externalVars
    <2>2. Stands(m, t)'
      BY <2>1 DEF Stands, WithRole, WithDatabase, Granted, AfterUser, AfterTenant,
         MaybeReady, Failing
    <2>3. Keyed(l, t, j) => Keyed(m, t, j)'
      BY <2>1 DEF Keyed, WithRole, Stored, WithDatabase, AfterUser, AfterTenant, Failing
    <2>4. tenants'[t].status # "READY"
      BY <2>1 DEF Stands, MaybeReady, Failing
    <2>5. QED
      BY <2>1, <2>2, <2>3, <2>4 DEF Keeps, Ended
  <1>5. QED
    BY <1>2, <1>3, <1>4

\* What a rollback removes.
LEMMA UndoingKeeps ==
  ASSUME ServiceTypeOK, NEW j \in Jobs, NEW t \in Tenants, t = T(j),
         NEW l, l = run[j].pc, NEW m, m = run'[j].pc, run'[j] \in RunState, Stands(l, t),
         UndoCreateAdminUser(j) \/ DropDatabase(j) \/ DropRole(j)
  PROVE  Keeps(j, t, l, m)
  <1>1. /\ run \in Memory /\ run[j] \in RunState /\ roles \in Passwords
    BY DEF ServiceTypeOK, RegistryTypeOK, Memory
  <1>2. l \notin MaybeReady \cup WithRole /\ UNCHANGED tenants
    BY DEF UndoCreateAdminUser, DropDatabase, DropRole, DropsDatabase, DropsRole, MaybeReady,
       Failing, WithRole, AfterTenant, AfterUser, registryVars
  <1>3. tenants'[t].status # "READY"
    BY <1>2 DEF Stands
  <1> USE Follows DEF Advance, Jump
  <1>4. /\ m \in {"undo_register_fineract_tenant", "undo_create_db_user_role", "undo_create_db",
                  "undo_create_db_role", "write_audit"}
        /\ m = "write_audit" /\ Tidy(run'[j]) => roles'[t] = NoPassword
    <2>1. CASE UndoCreateAdminUser(j)
      BY <1>1, <2>1 DEF UndoCreateAdminUser, Memory, RunState
    <2>2. CASE DropDatabase(j)
      BY <1>1, <2>2 DEF DropDatabase, DropsDatabase, Memory, RunState, Tidy
    <2>3. CASE DropRole(j)
      BY <1>1, <2>3 DEF DropRole, DropsRole, Memory, RunState, Passwords, Tidy
    <2>4. QED
      BY <2>1, <2>2, <2>3
  <1>5. Stands(m, t)' /\ m \notin Ended
    BY <1>3, <1>4 DEF Stands, WithRole, WithDatabase, Granted, AfterUser, AfterTenant, Ended
  <1>6. Tidy(run'[j]) => Keyed(m, t, j)'
    BY <1>4 DEF Keyed, WithRole, Stored, WithDatabase, AfterUser, AfterTenant, Failing
  <1>7. QED
    BY <1>3, <1>5, <1>6 DEF Keeps

LEMMA RunKeeps ==
  ASSUME ServiceTypeOK, NEW j \in Jobs, NEW t \in Tenants, t = T(j),
         NEW l, l = run[j].pc, NEW m, m = run'[j].pc, run'[j] \in RunState, Stands(l, t),
         tenants[t].status = "READY" => Up(t), RunStep(j) \/ Crash(j)
  PROVE  Keeps(j, t, l, m)
  <1>1. CASE \/ BeginRun(j) \/ SetInitializing(j) \/ SetReady(j) \/ MarkFailed(j)
    BY <1>1, StatusKeeps
  <1>2. CASE \/ CreateRole(j) \/ CreateDatabase(j) \/ StoreCredential(j) \/ GrantPermissions(j)
             \/ CreateAdminUser(j)
    BY <1>2, MakingKeeps
  <1>3. CASE UndoCreateAdminUser(j) \/ DropDatabase(j) \/ DropRole(j)
    BY <1>3, UndoingKeeps
  <1>4. CASE \/ DefaultDbName(j) \/ Step(j) \/ CheckRole(j) \/ CheckDatabase(j) \/ SaveDbUser(j)
             \/ CreateFineractTenant(j) \/ SaveIdentifier(j) \/ SaveIdentifierAgain(j)
             \/ CreateFineractUser(j) \/ SendWelcomeEmail(j) \/ CreatePrimaryDomain(j)
             \/ FinishJob(j) \/ Raise(j) \/ RecordFailure(j) \/ UndoRegisterFineractTenant(j)
             \/ WriteAudit(j) \/ Escape(j) \/ Crash(j)
    BY <1>4, QuietEdges, SameWorld
  <1>5. QED
    BY <1>1, <1>2, <1>3, <1>4 DEF RunStep

\* A run that was started stays so, and a lost cleanup stays lost.
LEMMA RunGrows ==
  ASSUME ServiceTypeOK, NEW j \in Jobs, RunStep(j) \/ Crash(j)
  PROVE  run'[j].pc # "unused" /\ (run[j].swallowed => run'[j].swallowed)
  <1>1. run \in Memory /\ run[j] \in RunState
    BY DEF ServiceTypeOK, Memory
  <1>2. \A l \in DOMAIN After : After[l] # "unused"
    BY DEF After
  <1> USE Statements DEF Advance, Jump
  <1>3. CASE \/ DefaultDbName(j) \/ Step(j) \/ CreateRole(j) \/ CreateDatabase(j) \/ SaveDbUser(j)
             \/ StoreCredential(j) \/ GrantPermissions(j) \/ SetInitializing(j)
             \/ SaveIdentifier(j) \/ SendWelcomeEmail(j) \/ CreatePrimaryDomain(j)
             \/ SetReady(j) \/ RecordFailure(j) \/ UndoCreateAdminUser(j) \/ WriteAudit(j)
    <2>1. /\ run[j].pc \in DOMAIN After /\ run'[j].pc = After[run[j].pc]
          /\ run'[j].swallowed = run[j].swallowed
      BY <1>1, <1>3 DEF DefaultDbName, Step, CreateRole, CreateDatabase, SaveDbUser,
         StoreCredential, GrantPermissions, SetInitializing, SaveIdentifier, SendWelcomeEmail,
         CreatePrimaryDomain, SetReady, RecordFailure, UndoCreateAdminUser, WriteAudit, Memory,
         RunState
    <2>2. QED
      BY <1>2, <2>1
  <1>4. CASE \/ BeginRun(j) \/ CheckRole(j) \/ CheckDatabase(j) \/ SaveIdentifierAgain(j)
             \/ CreateAdminUser(j) \/ FinishJob(j) \/ Raise(j) \/ Escape(j) \/ Crash(j)
    <2>1. /\ run'[j].pc \in {"CREATE_DB", "default_db_name", "create_role", "check_database",
               "create_database", "save_db_user", "save_identifier", "SEND_WELCOME_EMAIL",
               "create_tenant_user", "ready", "record_failure", "aborted", "crashed"}
          /\ run'[j].swallowed = run[j].swallowed
      BY <1>1, <1>4 DEF BeginRun, CheckRole, CheckDatabase, SaveIdentifierAgain, CreateAdminUser,
         FinishJob, Raise, Escape, Crash, Memory, RunState
    <2>2. QED
      BY <2>1
  <1>5. CASE CreateFineractTenant(j)
    BY <1>1, <1>2, <1>5 DEF CreateFineractTenant, Memory, RunState
  <1>6. CASE CreateFineractUser(j)
    BY <1>1, <1>2, <1>6 DEF CreateFineractUser, Memory, RunState
  <1>7. CASE UndoRegisterFineractTenant(j)
    BY <1>1, <1>2, <1>7 DEF UndoRegisterFineractTenant, Memory, RunState
  <1>8. CASE DropDatabase(j)
    BY <1>1, <1>2, <1>8 DEF DropDatabase, Memory, RunState
  <1>9. CASE DropRole(j)
    BY <1>1, <1>2, <1>9 DEF DropRole, Memory, RunState
  <1>10. CASE MarkFailed(j)
    <2>1. run'[j].pc = FirstHandler(run[j].current) /\ run'[j].swallowed = run[j].swallowed
      BY <1>1, <1>10 DEF MarkFailed, Memory, RunState
    <2>2. QED
      BY <1>1, <2>1, HandlersCover DEF RunState
  <1>11. QED
    BY <1>3, <1>4, <1>5, <1>6, <1>7, <1>8, <1>9, <1>10 DEF RunStep

\* A tenant that a step does not touch.
SameTenant(u) ==
  /\ roles'[u] = roles[u] /\ databases'[u] = databases[u] /\ credentials'[u] = credentials[u]
  /\ tenants'[u].status = tenants[u].status /\ Claimed(u)' = Claimed(u)

LEMMA Untouched ==
  ASSUME NEW u \in Tenants, SameTenant(u)
  PROVE  /\ Fits(u)' = Fits(u) /\ Up(u)' = Up(u)
         /\ \A l : Stands(l, u)' = Stands(l, u)
         /\ \A l, k : Keyed(l, u, k)' = Keyed(l, u, k)
  <1>1. Fits(u)' = Fits(u) /\ Up(u)' = Up(u)
    BY DEF SameTenant, Fits, Up
  <1>2. ASSUME NEW l PROVE Stands(l, u)' = Stands(l, u)
    BY DEF SameTenant, Stands
  <1>3. ASSUME NEW l, NEW k PROVE Keyed(l, u, k)' = Keyed(l, u, k)
    BY <1>1 DEF SameTenant, Keyed
  <1>4. QED
    BY <1>1, <1>2, <1>3

\* A step of a run keeps the tenants apart, and what its own tenant needs.
LEMMA RunOneByOne ==
  ASSUME ServiceTypeOK, Owned, ServiceTypeOK', OneByOne, NEW j \in Jobs, RunStep(j) \/ Crash(j)
  PROVE  OneByOne'
  <1>1. Active(j) /\ Frame(j) /\ Apart(j)
    BY Running, FrameStep, ApartStep
  <1>2. PICK t \in Tenants : t = T(j)
    BY Started, RunHasTenant
  <1>3. PICK l, m : l = run[j].pc /\ m = run'[j].pc
    OBVIOUS
  <1>4. Stands(l, t)
    BY <1>1, <1>2, <1>3 DEF OneByOne
  <1>5. Keeps(j, t, l, m)
    <2>1. run'[j] \in RunState
      BY DEF ServiceTypeOK, Memory
    <2>2. tenants[t].status = "READY" => Up(t)
      BY DEF OneByOne
    <2>3. QED
      BY <1>2, <1>3, <1>4, <2>1, <2>2, RunKeeps
  <1>6. m # "unused" /\ (run[j].swallowed => run'[j].swallowed)
    BY <1>3, RunGrows
  <1>7. \A k \in Jobs : T(k)' = T(k) /\ (k # j => run'[k] = run[k])
    BY <1>1 DEF Frame, T
  <1>8. ASSUME NEW u \in Tenants, u # t PROVE SameTenant(u)
    <2>1. ContactEmail[u] \in Emails
      BY RegistryAssumption
    <2>2. Claimed(u)' = Claimed(u)
      BY <1>1, <1>2, <1>8, <2>1, RegistryAssumption DEF Apart, Claimed
    <2>3. QED
      BY <1>1, <1>2, <1>8, <2>2 DEF Apart, Frame, SameTenant
  <1>9. \A k \in Jobs : Active(k)' => Active(k)
    BY <1>1, <1>7 DEF Active
  <1>10. \A k \in Jobs : k # j => (Active(k)' <=> Active(k))
    BY <1>7 DEF Active
  <1>11. ASSUME NEW k \in Jobs, k # j, Active(k) PROVE T(k) \in Tenants /\ T(k) # t
    <2>1. T(k) \in Tenants
      BY <1>11, RunHasTenant DEF Active
    <2>2. QED
      BY <1>1, <1>2, <1>11, <2>1 DEF OneByOne, Alone
  <1>12. \A u : RunsOf(u)' = RunsOf(u)
    BY <1>7 DEF RunsOf
  <1>13. ASSUME NEW u \in Tenants, Clean(u)' PROVE Clean(u)
    <2>1. \A k \in RunsOf(u) : Tidy(run[k])'
      BY <1>12, <1>13 DEF Clean
    <2>2. ASSUME NEW k \in RunsOf(u) PROVE Tidy(run[k])
      <3>1. CASE k # j
        BY <1>7, <2>1, <3>1 DEF RunsOf, Tidy
      <3>2. CASE k = j
        BY <1>1, <1>6, <2>1, <3>2 DEF Tidy, Active, Ended
      <3>3. QED
        BY <3>1, <3>2
    <2>3. QED
      BY <2>2 DEF Clean
  <1>14. Clean(t)' => Tidy(run'[j])
    BY <1>2, <1>7 DEF Clean, Tidy, RunsOf
  <1>15. Alone'
    BY <1>7, <1>9 DEF OneByOne, Alone
  <1>16. ASSUME NEW k \in Jobs, Active(k)' PROVE Stands(run[k].pc, T(k))'
    <2>1. CASE k = j
      <3>1. m \notin Ended
        BY <1>3, <1>16, <2>1 DEF Active
      <3>2. Stands(m, t)'
        BY <1>5, <3>1 DEF Keeps
      <3>3. QED
        BY <1>2, <1>3, <1>7, <2>1, <3>2
    <2>2. CASE k # j
      <3>1. PICK u \in Tenants, n \in {run[k].pc} : u = T(k)
        BY <1>9, <1>11, <1>16, <2>2
      <3>2. Stands(n, u) /\ u # t
        BY <1>9, <1>11, <1>16, <2>2, <3>1 DEF OneByOne
      <3>3. Stands(n, u)'
        BY <1>8, <3>2, Untouched
      <3>4. QED
        BY <1>7, <2>2, <3>1, <3>3
    <2>3. QED
      BY <2>1, <2>2
  <1>17. ASSUME NEW u \in Tenants, tenants'[u].status = "READY" PROVE Up(u)'
    <2>1. CASE u = t
      BY <1>5, <1>17, <2>1 DEF Keeps
    <2>2. CASE u # t
      <3>1. SameTenant(u)
        BY <1>8, <2>2
      <3>2. Up(u)
        BY <1>17, <3>1 DEF OneByOne, SameTenant
      <3>3. QED
        BY <3>1, <3>2, Untouched
    <2>3. QED
      BY <2>1, <2>2
  <1>18. ASSUME NEW k \in Jobs, Active(k)', NEW u \in Tenants, u = T(k), Clean(u)'
         PROVE  Keyed(run[k].pc, u, k)'
    <2>1. Keyed(run[k].pc, u, k)
      BY <1>9, <1>13, <1>18 DEF OneByOne
    <2>2. CASE k = j
      <3>1. m \notin Ended /\ Tidy(run'[j])
        BY <1>2, <1>3, <1>14, <1>18, <2>2 DEF Active
      <3>2. Keyed(m, t, j)'
        BY <1>2, <1>3, <1>5, <1>18, <2>1, <2>2, <3>1 DEF Keeps
      <3>3. QED
        BY <1>2, <1>3, <1>18, <2>2, <3>2
    <2>3. CASE k # j
      <3>1. PICK n : n = run[k].pc
        OBVIOUS
      <3>2. u # t
        BY <1>9, <1>11, <1>18, <2>3
      <3>3. Keyed(n, u, k)'
        BY <1>8, <2>1, <3>1, <3>2, Untouched
      <3>4. QED
        BY <1>7, <2>3, <3>1, <3>3
    <2>4. QED
      BY <2>2, <2>3
  <1>19. ASSUME NEW u \in Tenants, Clean(u)', \A k \in RunsOf(u)' : ~ Active(k)'
         PROVE  Fits(u)'
    <2>1. Clean(u)
      BY <1>13, <1>19
    <2>2. CASE u = t
      <3>1. j \in RunsOf(u)' /\ Tidy(run'[j])
        BY <1>2, <1>7, <1>14, <1>19, <2>2 DEF RunsOf
      <3>2. m \in Ended
        BY <1>3, <1>6, <1>19, <3>1 DEF Active
      <3>3. Keyed(l, t, j)
        BY <1>1, <1>2, <1>3, <2>1, <2>2 DEF OneByOne
      <3>4. QED
        BY <1>5, <2>2, <3>1, <3>2, <3>3 DEF Keeps
    <2>3. CASE u # t
      <3>1. \A k \in RunsOf(u) : ~ Active(k)
        BY <1>2, <1>10, <1>12, <1>19, <2>3 DEF RunsOf
      <3>2. Fits(u)
        BY <2>1, <3>1 DEF OneByOne
      <3>3. QED
        BY <1>8, <2>3, <3>2, Untouched
    <2>4. QED
      BY <2>2, <2>3
  <1>20. \A k \in Jobs : Active(k)' => T(k)' \in Tenants
    BY <1>2, <1>7, <1>9, <1>11
  <1>21. \A k \in Jobs : Active(k)' /\ Clean(T(k))' => Keyed(run[k].pc, T(k), k)'
    <2>1. ASSUME NEW k \in Jobs, Active(k)', Clean(T(k))'
          PROVE  Keyed(run[k].pc, T(k), k)'
      <3>1. PICK u \in Tenants : u = T(k) /\ u = T(k)'
        BY <1>7, <1>20, <2>1
      <3>2. Clean(u)'
        BY <2>1, <3>1
      <3>3. Keyed(run[k].pc, u, k)'
        BY <1>18, <2>1, <3>1, <3>2
      <3>4. QED
        BY <3>1, <3>3
    <2>2. QED
      BY <2>1
  <1>22. QED
    BY <1>15, <1>16, <1>17, <1>19, <1>21 DEF OneByOne

\* A request that makes a row, and a step that changes nothing.
LEMMA RowOneByOne ==
  ASSUME ServiceTypeOK, Owned, OneByOne, UNCHANGED <<roles, databases, users, credentials, jobs, run>>,
         \A u \in Tenants : tenants'[u].status = "READY" => tenants[u].status = "READY"
  PROVE  OneByOne'
  <1>1. \A u : /\ RunsOf(u)' = RunsOf(u) /\ Clean(u)' = Clean(u)
               /\ Up(u)' = Up(u) /\ Fits(u)' = Fits(u) /\ Claimed(u)' = Claimed(u)
    BY DEF RunsOf, Clean, Tidy, Up, Fits, Claimed, T
  <1>2. \A k \in Jobs : T(k)' = T(k) /\ Active(k)' = Active(k)
    BY DEF T, Active
  <1>3. ASSUME NEW u \in Tenants, NEW l PROVE Stands(l, u) => Stands(l, u)'
    BY <1>1 DEF Stands
  <1>4. ASSUME NEW u \in Tenants, NEW l, NEW k PROVE Keyed(l, u, k) => Keyed(l, u, k)'
    BY <1>1 DEF Keyed
  <1>5. ASSUME NEW k \in Jobs, Active(k) PROVE T(k) \in Tenants
    BY <1>5, RunHasTenant DEF Active
  <1>6. Alone'
    BY <1>2 DEF OneByOne, Alone
  <1>7. ASSUME NEW k \in Jobs, Active(k)' PROVE Stands(run[k].pc, T(k))'
    <2>1. PICK u \in Tenants, n \in {run[k].pc} : u = T(k)
      BY <1>2, <1>5, <1>7
    <2>2. Stands(n, u)'
      BY <1>2, <1>3, <1>7, <2>1 DEF OneByOne
    <2>3. QED
      BY <1>2, <2>1, <2>2
  <1>8. ASSUME NEW k \in Jobs, Active(k)', Clean(T(k))' PROVE Keyed(run[k].pc, T(k), k)'
    <2>1. PICK u \in Tenants, n \in {run[k].pc} : u = T(k) /\ u = T(k)'
      BY <1>2, <1>5, <1>8
    <2>2. Clean(u)'
      BY <1>8, <2>1
    <2>3. Keyed(n, u, k)
      BY <1>1, <1>2, <1>8, <2>1, <2>2 DEF OneByOne
    <2>4. Keyed(n, u, k)'
      BY <1>4, <2>3
    <2>5. QED
      BY <2>1, <2>4
  <1>9. \A u \in Tenants : tenants'[u].status = "READY" => Up(u)'
    BY <1>1 DEF OneByOne
  <1>10. ASSUME NEW u \in Tenants, Clean(u)', \A k \in RunsOf(u)' : ~ Active(k)'
         PROVE  Fits(u)'
    <2>1. \A k \in RunsOf(u) : ~ Active(k)
      BY <1>1, <1>2, <1>10 DEF RunsOf
    <2>2. QED
      BY <1>1, <1>10, <2>1 DEF OneByOne
  <1>11. QED
    BY <1>6, <1>7, <1>8, <1>9, <1>10 DEF OneByOne

\* Staff start a run of a tenant that has no other going on.
LEMMA StartOneByOne ==
  ASSUME ServiceTypeOK, Owned, OneByOne, NEW t \in Tenants, NEW j \in Jobs, StartRun(t, j),
         \A k \in Jobs : T(k) = t => ~ Active(k)
  PROVE  OneByOne'
  <1>1. jobs[j].tenant = Nobody /\ run[j].pc = "unused"
    BY DEF StartRun, Owned, T
  <1>2. T(j)' = t /\ run'[j].pc = "begin"
    BY DEF StartRun, T, NewJob, ServiceTypeOK, RegistryTypeOK, Memory, RunState, JobTable
  <1>3. \A k \in Jobs \ {j} : run'[k] = run[k] /\ T(k)' = T(k) /\ Active(k)' = Active(k)
    BY DEF StartRun, T, Active, ServiceTypeOK, RegistryTypeOK, Memory, JobTable
  <1>4. UNCHANGED <<tenants, roles, databases, users, credentials>>
    BY DEF StartRun, externalVars
  <1>5. \A u \in Tenants : SameTenant(u)
    BY <1>4 DEF SameTenant, Claimed
  <1>6. ASSUME NEW k \in Jobs, k # j, Active(k) PROVE T(k) \in Tenants /\ T(k) # t
    BY <1>6, RunHasTenant DEF Active
  <1>7. T(j) = Nobody
    BY <1>1 DEF T
  <1>8. ASSUME NEW u \in Tenants, NEW k \in RunsOf(u)
        PROVE  k # j /\ k \in RunsOf(u)' /\ run'[k] = run[k]
    BY <1>3, <1>7, <1>8, RegistryAssumption DEF RunsOf
  <1>9. ASSUME NEW u \in Tenants, Clean(u)' PROVE Clean(u)
    <2>1. \A k \in RunsOf(u)' : Tidy(run[k])'
      BY <1>9 DEF Clean
    <2>2. QED
      BY <1>8, <2>1 DEF Clean, Tidy
  <1>10. Alone'
    BY <1>2, <1>3, <1>6 DEF OneByOne, Alone
  <1>11. ASSUME NEW k \in Jobs, Active(k)' PROVE Stands(run[k].pc, T(k))'
    <2>1. CASE k = j
      <3>1. Stands("begin", t)'
        BY DEF Stands, WithRole, WithDatabase, Granted, AfterUser, AfterTenant, MaybeReady
      <3>2. QED
        BY <1>2, <2>1, <3>1
    <2>2. CASE k # j
      <3>1. PICK u \in Tenants, n \in {run[k].pc} : u = T(k)
        BY <1>3, <1>6, <1>11, <2>2
      <3>2. Stands(n, u)
        BY <1>3, <1>11, <2>2, <3>1 DEF OneByOne
      <3>3. Stands(n, u)'
        BY <1>5, <3>2, Untouched
      <3>4. QED
        BY <1>3, <2>2, <3>1, <3>3
    <2>3. QED
      BY <2>1, <2>2
  <1>12. ASSUME NEW k \in Jobs, Active(k)', Clean(T(k))' PROVE Keyed(run[k].pc, T(k), k)'
    <2>1. CASE k = j
      <3>1. Clean(t)'
        BY <1>2, <1>12, <2>1
      <3>2. Fits(t)
        BY <1>9, <3>1 DEF OneByOne, RunsOf
      <3>3. Fits(t)'
        BY <1>5, <3>2, Untouched
      <3>4. Keyed("begin", t, j)'
        BY <3>3 DEF Keyed, WithRole, Stored, WithDatabase, AfterUser, AfterTenant, Failing
      <3>5. QED
        BY <1>2, <2>1, <3>4
    <2>2. CASE k # j
      <3>1. PICK u \in Tenants, n \in {run[k].pc} : u = T(k) /\ u = T(k)'
        BY <1>3, <1>6, <1>12, <2>2
      <3>2. Clean(u)'
        BY <1>12, <3>1
      <3>3. Keyed(n, u, k)
        BY <1>3, <1>9, <1>12, <2>2, <3>1, <3>2 DEF OneByOne
      <3>4. Keyed(n, u, k)'
        BY <1>5, <3>3, Untouched
      <3>5. QED
        BY <1>3, <2>2, <3>1, <3>4
    <2>3. QED
      BY <2>1, <2>2
  <1>13. ASSUME NEW u \in Tenants, tenants'[u].status = "READY" PROVE Up(u)'
    BY <1>4, <1>5, <1>13, Untouched DEF OneByOne
  <1>14. ASSUME NEW u \in Tenants, Clean(u)', \A k \in RunsOf(u)' : ~ Active(k)'
         PROVE  Fits(u)'
    <2>1. \A k \in RunsOf(u) : ~ Active(k)
      BY <1>3, <1>8, <1>14 DEF RunsOf
    <2>2. Fits(u)
      BY <1>9, <1>14, <2>1 DEF OneByOne
    <2>3. QED
      BY <1>5, <2>2, Untouched
  <1>15. QED
    BY <1>10, <1>11, <1>12, <1>13, <1>14 DEF OneByOne

\* The invariant is inductive when staff wait for a run to end before they start the next.
LEMMA OneByOneStep ==
  ASSUME ~ Overlap, IInv, OneByOne, [ServiceNext]_vars
  PROVE  OneByOne'
  <1>1. ServiceTypeOK /\ Owned /\ ServiceTypeOK'
    BY TypeStep DEF IInv
  <1>2. ASSUME NEW t \in Tenants, CreateOrganization(t) \/ PostTenant(t) PROVE OneByOne'
    <2>1. UNCHANGED <<roles, databases, users, credentials, jobs, run>>
      BY <1>2 DEF CreateOrganization, PostTenant, CreateTenantRow, externalVars
    <2>2. tenants' = [tenants EXCEPT ![t] = NewTenant(TRUE)]
          \/ tenants' = [tenants EXCEPT ![t] = NewTenant(FALSE)]
      BY <1>2 DEF CreateOrganization, PostTenant, CreateTenantRow
    <2>3. \A u \in Tenants : tenants'[u].status = "READY" => tenants[u].status = "READY"
      BY <1>1, <2>2 DEF NewTenant, ServiceTypeOK, RegistryTypeOK, TenantTable
    <2>4. QED
      BY <1>1, <2>1, <2>3, RowOneByOne
  <1>3. ASSUME NEW t \in Tenants, NEW j \in Jobs, StartRun(t, j) PROVE OneByOne'
    <2>1. \A k \in Jobs : T(k) = t => ~ Active(k)
      BY <1>3 DEF StartRun
    <2>2. QED
      BY <1>1, <1>3, <2>1, StartOneByOne
  <1>4. ASSUME NEW j \in Jobs, RunStep(j) \/ Crash(j) PROVE OneByOne'
    BY <1>1, <1>4, RunOneByOne
  <1>5. CASE UNCHANGED vars
    BY <1>1, <1>5, RowOneByOne DEF vars, registryVars, externalVars
  <1>6. QED
    BY <1>2, <1>3, <1>4, <1>5 DEF ServiceNext, Request

LEMMA OneByOneInitially ==
  ASSUME ServiceInit
  PROVE  OneByOne
  <1>1. \A j \in Jobs : ~ Active(j)
    BY DEF ServiceInit, Active
  <1>2. \A t \in Tenants : tenants[t].status # "READY" /\ Fits(t)
    BY DEF ServiceInit, RegistryInit, NewTenant, Fits
  <1>3. QED
    BY <1>1, <1>2 DEF OneByOne, Alone

LEMMA ReadyIsUp ==
  ASSUME IInv, OneByOne
  PROVE  ReadyIsServable
  <1>1. ASSUME NEW t \in Tenants, tenants[t].status = "READY"
        PROVE  /\ databases[t] = "role" /\ roles[t] # NoPassword
               /\ UsersOf(t) # {} /\ HasPrimaryDomain(t)
    <2>1. Up(t)
      BY <1>1 DEF OneByOne
    <2>2. ContactEmail[t] \in UsersOf(t)
      BY <2>1, RegistryAssumption DEF Up, Claimed, UsersOf
    <2>3. HasPrimaryDomain(t)
      BY <1>1 DEF IInv, ReadyHasPrimaryDomain
    <2>4. QED
      BY <2>1, <2>2, <2>3 DEF Up
  <1>2. QED
    BY <1>1 DEF ReadyIsServable

LEMMA ReadyIsKeyed ==
  ASSUME IInv, OneByOne
  PROVE  CredentialSurvivesCleanRetries
  <1>1. ASSUME NEW t \in Tenants, tenants[t].status = "READY",
               \A j \in RunsOf(t) : run[j].pc \notin {"aborted", "crashed"} /\ ~ run[j].swallowed
        PROVE  credentials[t] = roles[t]
    <2>1. Clean(t)
      BY <1>1 DEF Clean, Tidy
    <2>2. Up(t)
      BY <1>1 DEF OneByOne
    <2>3. CASE \A j \in RunsOf(t) : ~ Active(j)
      <3>1. Fits(t)
        BY <2>1, <2>3 DEF OneByOne
      <3>2. QED
        BY <2>2, <3>1 DEF Fits, Up
    <2>4. CASE \E j \in RunsOf(t) : Active(j)
      <3>1. PICK j \in Jobs : T(j) = t /\ Active(j)
        BY <2>4 DEF RunsOf
      <3>2. Stands(run[j].pc, t) /\ Keyed(run[j].pc, t, j)
        BY <2>1, <3>1 DEF OneByOne
      <3>3. run[j].pc \in {"begin", "finish_job"} \cup Failing
        BY <1>1, <3>2 DEF Stands, MaybeReady
      <3>4. CASE run[j].pc = "begin"
        BY <2>2, <3>2, <3>4 DEF Keyed, Fits, Up
      <3>5. CASE run[j].pc = "finish_job"
        BY <3>2, <3>5 DEF Keyed, WithRole, Stored, WithDatabase, AfterTenant, AfterUser
      <3>6. CASE run[j].pc \in Failing
        BY <1>1, <3>2, <3>6 DEF Keyed
      <3>7. QED
        BY <3>3, <3>4, <3>5, <3>6
    <2>5. QED
      BY <2>3, <2>4
  <1>2. QED
    BY <1>1 DEF CredentialSurvivesCleanRetries

\* When staff retry one run after the other, a tenant that is READY can be served, whatever
\* earlier runs left behind when they crashed, were aborted or lost a cleanup.
THEOREM ReadyTenantsAreServable == ASSUME ~ Overlap PROVE ServiceSpec => []ReadyIsServable
  <1>1. ServiceInit => IInv /\ OneByOne
    BY InitIInv, OneByOneInitially
  <1>2. IInv /\ OneByOne /\ [ServiceNext]_vars => IInv' /\ OneByOne'
    BY StepIInv, OneByOneStep
  <1>3. IInv /\ OneByOne => ReadyIsServable
    BY ReadyIsUp
  <1>4. QED
    BY <1>1, <1>2, <1>3, PTL DEF ServiceSpec

\* Then the stored credential of a READY tenant is also the password of its role, if its
\* runs finished or rolled back without losing a cleanup.
THEOREM CleanRetriesKeepCredential ==
  ASSUME ~ Overlap PROVE ServiceSpec => []CredentialSurvivesCleanRetries
  <1>1. ServiceInit => IInv /\ OneByOne
    BY InitIInv, OneByOneInitially
  <1>2. IInv /\ OneByOne /\ [ServiceNext]_vars => IInv' /\ OneByOne'
    BY StepIInv, OneByOneStep
  <1>3. IInv /\ OneByOne => CredentialSurvivesCleanRetries
    BY ReadyIsKeyed
  <1>4. QED
    BY <1>1, <1>2, <1>3, PTL DEF ServiceSpec
-----------------------------------------------------------------------------
(* The end of a run                                                        *)

\* Work, of the memory q of a run.
Cost(q) ==
  IF q.pc \in Ended THEN 0
    ELSE Left[q.pc] + (IF q.pc = "save_identifier" /\ ~ q.registration_error THEN 1 ELSE 0)

LEMMA LeftIs ==
  /\ Left["unused"] = 38 /\ Left["begin"] = 37 /\ Left["default_db_name"] = 36
  /\ Left["CREATE_DB"] = 35 /\ Left["check_role"] = 34 /\ Left["create_role"] = 33
  /\ Left["check_database"] = 32 /\ Left["create_database"] = 31 /\ Left["save_db_user"] = 30
  /\ Left["store_credential"] = 29 /\ Left["CREATE_DB_USER"] = 28
  /\ Left["GRANT_PERMISSIONS"] = 27 /\ Left["grant"] = 26 /\ Left["initializing"] = 25
  /\ Left["RUN_FINERACT_SCHEMA"] = 24 /\ Left["REGISTER_FINERACT_TENANT"] = 23
  /\ Left["create_tenant"] = 22 /\ Left["save_identifier"] = 20
  /\ Left["CREATE_ADMIN_USER"] = 19 /\ Left["create_user"] = 18
  /\ Left["create_tenant_user"] = 17 /\ Left["SEND_WELCOME_EMAIL"] = 16
  /\ Left["send_welcome_email"] = 15 /\ Left["ACTIVATE"] = 14
  /\ Left["create_primary_domain"] = 13 /\ Left["set_ready"] = 12 /\ Left["finish_job"] = 11
  /\ Left["record_failure"] = 10 /\ Left["mark_failed"] = 9
  /\ Left["undo_create_admin_user"] = 8 /\ Left["undo_register_fineract_tenant"] = 7
  /\ Left["undo_create_db_user"] = 6 /\ Left["undo_create_db_user_role"] = 5
  /\ Left["undo_create_db"] = 4 /\ Left["undo_create_db_role"] = 3 /\ Left["write_audit"] = 2
  BY DEF Left

\* The labels of a run that is not over, spelled out.
LEMMA GoingOn ==
  ASSUME NEW l \in Label, l \notin Ended
  PROVE  l \in {"unused", "begin", "default_db_name", "CREATE_DB", "check_role", "create_role",
                "check_database", "create_database", "save_db_user", "store_credential",
                "CREATE_DB_USER", "GRANT_PERMISSIONS", "grant", "initializing",
                "RUN_FINERACT_SCHEMA", "REGISTER_FINERACT_TENANT", "create_tenant",
                "save_identifier", "CREATE_ADMIN_USER", "create_user", "create_tenant_user",
                "SEND_WELCOME_EMAIL", "send_welcome_email", "ACTIVATE",
                "create_primary_domain", "set_ready", "finish_job", "record_failure",
                "mark_failed", "undo_create_admin_user", "undo_register_fineract_tenant",
                "undo_create_db_user", "undo_create_db_user_role", "undo_create_db",
                "undo_create_db_role", "write_audit"}
  BY DEF Label, After, Ended

LEMMA LeftIsPositive ==
  ASSUME NEW l \in Label, l \notin Ended
  PROVE  Left[l] \in 2 .. 38
  BY GoingOn, LeftIs

LEMMA CostIsNat ==
  ASSUME NEW q \in RunState
  PROVE  /\ Cost(q) \in Nat
         /\ q.pc \notin Ended => Left[q.pc] <= Cost(q) /\ Left[q.pc] \in 2 .. 38
  <1>1. q.pc \in Label
    BY DEF RunState
  <1>2. q.pc \notin Ended => Left[q.pc] \in 2 .. 38
    BY <1>1, LeftIsPositive
  <1>3. QED
    BY <1>2 DEF Cost

\* Going on to a later statement, or to an end, uses up work: save_identifier is two ahead
\* of the statement before it, for the save that may be repeated.
LEMMA LaterCosts ==
  ASSUME NEW q \in RunState, NEW n \in RunState, q.pc \notin Ended,
         \/ n.pc \in Ended
         \/ n.pc = "save_identifier" /\ q.pc = "create_tenant"
         \/ n.pc # "save_identifier" /\ Left[n.pc] < Left[q.pc]
  PROVE  Cost(n) < Cost(q)
  <1>1. Left[q.pc] <= Cost(q) /\ Left[q.pc] \in 2 .. 38 /\ Cost(q) \in Nat
    BY CostIsNat
  <1>2. CASE n.pc \in Ended
    BY <1>1, <1>2 DEF Cost
  <1>3. CASE n.pc = "save_identifier" /\ q.pc = "create_tenant"
    BY <1>1, <1>3, LeftIs DEF Cost, Ended
  <1>4. CASE n.pc \notin Ended /\ n.pc # "save_identifier" /\ Left[n.pc] < Left[q.pc]
    <2>1. Cost(n) = Left[n.pc] /\ Left[n.pc] \in 2 .. 38
      BY <1>4, CostIsNat DEF Cost
    <2>2. QED
      BY <1>1, <1>4, <2>1
  <1>5. QED
    BY <1>2, <1>3, <1>4

\* Where the statement after a statement is, in that order.
LEMMA FollowingCosts ==
  ASSUME NEW l \in DOMAIN After \ {"begin", "finish_job"}
  PROVE  /\ l \in Label \ Ended
         /\ \/ After[l] \in Ended
            \/ After[l] = "save_identifier" /\ l = "create_tenant"
            \/ After[l] # "save_identifier" /\ Left[After[l]] < Left[l]
  <1>1. l \in Label \ Ended
    BY DEF Label, After, Ended
  <1>2. CASE l \in {"default_db_name", "CREATE_DB", "create_role", "create_database",
                    "save_db_user", "store_credential", "CREATE_DB_USER", "GRANT_PERMISSIONS",
                    "grant", "initializing", "RUN_FINERACT_SCHEMA", "REGISTER_FINERACT_TENANT",
                    "create_tenant", "save_identifier"}
    BY <1>1, <1>2, Follows, LeftIs
  <1>3. CASE l \in {"CREATE_ADMIN_USER", "create_tenant_user", "SEND_WELCOME_EMAIL",
                    "send_welcome_email", "ACTIVATE", "create_primary_domain", "set_ready",
                    "record_failure"}
    BY <1>1, <1>3, Follows, LeftIs
  <1>4. CASE l \in {"undo_create_admin_user", "undo_register_fineract_tenant",
                    "undo_create_db_user", "undo_create_db_user_role", "undo_create_db",
                    "undo_create_db_role", "write_audit"}
    BY <1>1, <1>4, Follows, LeftIs DEF Ended
  <1>5. CASE l \in {"check_role", "check_database", "create_user"}
    BY <1>1, <1>5, LeftIs DEF After
  <1>6. QED
    BY <1>2, <1>3, <1>4, <1>5 DEF After

\* In that order, m is after l, or an end.
Later(m, l) ==
  \/ m \in Ended
  \/ m = "save_identifier" /\ l = "create_tenant"
  \/ m # "save_identifier" /\ Left[m] < Left[l]

\* The run of j goes to label m; the others stay where they are.
Goes(j, m) ==
  /\ run'[j].pc = m
  /\ \A k \in Jobs : k # j => run'[k] = run[k]

LEMMA RunCosts ==
  ASSUME run \in Memory, run' \in Memory, NEW j \in Jobs, NEW m, Goes(j, m),
         run[j].pc \notin Ended, Later(m, run[j].pc)
  PROVE  Cost(run'[j]) < Cost(run[j])
  <1>1. run[j] \in RunState /\ run'[j] \in RunState /\ run'[j].pc = m
    BY DEF Memory, Goes
  <1>2. QED
    BY <1>1, LaterCosts DEF Later

LEMMA JumpGoes ==
  ASSUME run \in Memory, NEW j \in Jobs, NEW m, Jump(j, m)
  PROVE  Goes(j, m)
  BY DEF Memory, RunState, Jump, Goes

LEMMA AdvanceGoes ==
  ASSUME run \in Memory, NEW j \in Jobs, Advance(j)
  PROVE  Goes(j, After[run[j].pc])
  BY DEF Memory, RunState, Advance, Goes

LEMMA SwallowGoes ==
  ASSUME run \in Memory, NEW j \in Jobs, NEW m,
         run' = [run EXCEPT ![j].pc = m, ![j].swallowed = TRUE]
  PROVE  Goes(j, m)
  BY DEF Memory, RunState, Goes

\* Statements that are followed by the next one.
LEMMA AdvancingCosts ==
  ASSUME run \in Memory, NEW j \in Jobs,
         \/ DefaultDbName(j) \/ Step(j) \/ CreateRole(j) \/ CreateDatabase(j) \/ SaveDbUser(j)
         \/ StoreCredential(j) \/ GrantPermissions(j) \/ SetInitializing(j)
         \/ CreateFineractTenant(j) \/ SaveIdentifier(j) \/ CreateFineractUser(j)
         \/ SendWelcomeEmail(j) \/ CreatePrimaryDomain(j) \/ SetReady(j) \/ RecordFailure(j)
         \/ UndoCreateAdminUser(j) \/ UndoRegisterFineractTenant(j) \/ DropRole(j)
         \/ WriteAudit(j)
  PROVE  /\ Goes(j, After[run[j].pc]) /\ Later(After[run[j].pc], run[j].pc)
         /\ run[j].pc \notin Ended
  <1>1. run[j].pc \in DOMAIN After \ {"begin", "finish_job"}
    <2>1. CASE Step(j)
      BY <2>1 DEF Step, Bookkeeping, After
    <2>2. CASE DropRole(j)
      BY <2>2 DEF DropRole, DropsRole, After
    <2>3. CASE \/ DefaultDbName(j) \/ CreateRole(j) \/ CreateDatabase(j) \/ SaveDbUser(j)
               \/ StoreCredential(j) \/ GrantPermissions(j) \/ SetInitializing(j)
               \/ CreateFineractTenant(j) \/ SaveIdentifier(j) \/ CreateFineractUser(j)
               \/ SendWelcomeEmail(j) \/ CreatePrimaryDomain(j) \/ SetReady(j)
               \/ RecordFailure(j) \/ UndoCreateAdminUser(j)
               \/ UndoRegisterFineractTenant(j) \/ WriteAudit(j)
      <3>1. run[j].pc \in {"default_db_name", "create_role", "create_database",
              "save_db_user", "store_credential", "grant", "initializing", "create_tenant",
              "save_identifier", "create_tenant_user", "send_welcome_email",
              "create_primary_domain", "set_ready", "record_failure",
              "undo_create_admin_user", "undo_register_fineract_tenant", "write_audit"}
        BY <2>3 DEF DefaultDbName, CreateRole, CreateDatabase, SaveDbUser, StoreCredential,
             GrantPermissions, SetInitializing, CreateFineractTenant, SaveIdentifier,
             CreateFineractUser, SendWelcomeEmail, CreatePrimaryDomain, SetReady, RecordFailure,
             UndoCreateAdminUser, UndoRegisterFineractTenant, WriteAudit
      <3>2. QED
        BY <3>1 DEF After
    <2>4. QED
      BY <2>1, <2>2, <2>3
  <1>2. Goes(j, After[run[j].pc])
    <2>1. CASE \/ CreateRole(j) \/ CreateDatabase(j) \/ SaveDbUser(j) \/ StoreCredential(j)
               \/ GrantPermissions(j) \/ SetInitializing(j) \/ SaveIdentifier(j)
               \/ SendWelcomeEmail(j) \/ CreatePrimaryDomain(j) \/ SetReady(j)
               \/ RecordFailure(j) \/ UndoCreateAdminUser(j) \/ WriteAudit(j)
      <3>1. Advance(j)
        BY <2>1 DEF CreateRole, CreateDatabase, SaveDbUser, StoreCredential, GrantPermissions,
             SetInitializing, SaveIdentifier, SendWelcomeEmail, CreatePrimaryDomain, SetReady,
             RecordFailure, UndoCreateAdminUser, WriteAudit
      <3>2. QED
        BY <3>1, AdvanceGoes
    <2>2. CASE DropRole(j) \/ UndoRegisterFineractTenant(j)
      <3>1. \/ Advance(j)
            \/ run' = [run EXCEPT ![j].pc = After[run[j].pc], ![j].swallowed = TRUE]
        BY <2>2 DEF DropRole, UndoRegisterFineractTenant
      <3>2. QED
        BY <3>1, AdvanceGoes, SwallowGoes
    <2>3. CASE DefaultDbName(j)
      BY <2>3 DEF DefaultDbName, Memory, RunState, Goes
    <2>4. CASE Step(j)
      BY <2>4 DEF Step, Memory, RunState, Goes
    <2>5. CASE CreateFineractTenant(j)
      BY <2>5 DEF CreateFineractTenant, Memory, RunState, Goes
    <2>6. CASE CreateFineractUser(j)
      BY <2>6 DEF CreateFineractUser, Memory, RunState, Goes
    <2>7. QED
      BY <2>1, <2>2, <2>3, <2>4, <2>5, <2>6
  <1>3. QED
    BY <1>1, <1>2, FollowingCosts DEF Later

\* Statements that choose where to go on, and exceptions.
LEMMA JumpingCosts ==
  ASSUME run \in Memory, NEW j \in Jobs,
         \/ BeginRun(j) \/ CheckRole(j) \/ CheckDatabase(j) \/ CreateAdminUser(j)
         \/ FinishJob(j) \/ Raise(j) \/ MarkFailed(j) \/ DropDatabase(j) \/ Escape(j)
         \/ Crash(j)
  PROVE  /\ run[j].pc \notin Ended
         /\ \E m \in Label : Goes(j, m) /\ Later(m, run[j].pc)
  <1> USE DEF Ended
  <1>1. CASE BeginRun(j) \/ CheckRole(j) \/ CheckDatabase(j) \/ CreateAdminUser(j)
    <2>1. PICK m \in {"CREATE_DB", "default_db_name", "create_role", "check_database",
                      "create_database", "save_db_user", "SEND_WELCOME_EMAIL",
                      "create_tenant_user"} :
            /\ Jump(j, m)
            /\ \/ run[j].pc = "begin" /\ m \in {"CREATE_DB", "default_db_name"}
               \/ run[j].pc = "check_role" /\ m \in {"create_role", "check_database"}
               \/ run[j].pc = "check_database" /\ m \in {"create_database", "save_db_user"}
               \/ /\ run[j].pc = "create_user"
                  /\ m \in {"SEND_WELCOME_EMAIL", "create_tenant_user"}
      BY <1>1 DEF BeginRun, CheckRole, CheckDatabase, CreateAdminUser
    <2>2. m \in Label /\ run[j].pc \notin Ended /\ Later(m, run[j].pc)
      BY <2>1, LeftIs, Labels DEF Later
    <2>3. QED
      BY <2>1, <2>2, JumpGoes
  <1>2. CASE FinishJob(j)
    <2>1. Goes(j, "ready") /\ run[j].pc = "finish_job"
      BY <1>2 DEF FinishJob, Memory, RunState, Goes
    <2>2. "ready" \in Label
      BY Labels
    <2>3. QED
      BY <2>1, <2>2 DEF Later
  <1>3. CASE Raise(j)
    <2>1. Goes(j, "record_failure")
      BY <1>3 DEF Raise, Memory, RunState, Goes
    <2>2. run[j].pc \in Bookkeeping \cup
            {"save_db_user", "store_credential", "initializing", "create_user",
             "create_primary_domain", "set_ready", "finish_job", "save_identifier",
             "check_role", "create_role", "check_database", "create_database", "grant"}
      BY <1>3 DEF Raise, MayRaise, WritesRegistry, CallsPostgres
    <2>3. run[j].pc \notin Ended /\ Left["record_failure"] < Left[run[j].pc]
      BY <2>2, LeftIs DEF Bookkeeping
    <2>4. "record_failure" \in Label
      BY Labels
    <2>5. QED
      BY <2>1, <2>3, <2>4 DEF Later
  <1>4. CASE MarkFailed(j)
    <2>1. run[j].current \in Steps
      BY DEF Memory, RunState
    <2>2. PICK m \in {"undo_create_admin_user", "undo_register_fineract_tenant",
                      "undo_create_db_user", "undo_create_db"} : Jump(j, m)
      BY <1>4, <2>1, HandlersCover DEF MarkFailed
    <2>3. run[j].pc = "mark_failed"
      BY <1>4 DEF MarkFailed
    <2>4. m \in Label /\ Later(m, run[j].pc)
      BY <2>2, <2>3, LeftIs, Labels DEF Later
    <2>5. QED
      BY <2>2, <2>3, <2>4, JumpGoes
  <1>5. CASE DropDatabase(j)
    <2>1. run[j].pc \in {"undo_create_db_user", "undo_create_db"}
      BY <1>5 DEF DropDatabase, DropsDatabase
    <2>2. PICK m \in {After[run[j].pc], After[After[run[j].pc]]} : Goes(j, m)
      BY <1>5, AdvanceGoes, SwallowGoes DEF DropDatabase
    <2>3. m \in {"undo_create_db_user_role", "undo_create_db", "undo_create_db_role",
                 "write_audit"} /\ Left[m] < Left[run[j].pc]
      BY <2>1, <2>2, Follows, LeftIs
    <2>4. m \in Label
      BY <2>3 DEF Label, After
    <2>5. QED
      BY <2>1, <2>2, <2>3, <2>4 DEF Later
  <1>6. CASE Escape(j) \/ Crash(j)
    <2>1. PICK m \in {"aborted", "crashed"} : Jump(j, m)
      BY <1>6 DEF Escape, Crash
    <2>2. run[j].pc \notin Ended
      BY <1>6 DEF Escape, Crash, Active, DropsDatabase
    <2>3. m \in Label
      BY <2>1, Labels
    <2>4. QED
      BY <2>1, <2>2, <2>3, JumpGoes DEF Later
  <1>7. QED
    BY <1>1, <1>2, <1>3, <1>4, <1>5, <1>6

\* The identifier is saved a second time, and not a third.
LEMMA SavingAgainCosts ==
  ASSUME run \in Memory, NEW j \in Jobs, SaveIdentifierAgain(j)
  PROVE  Cost(run'[j]) < Cost(run[j]) /\ \A k \in Jobs : k # j => run'[k] = run[k]
  <1>1. /\ run[j].pc = "save_identifier" /\ ~ run[j].registration_error
        /\ run'[j].pc = "save_identifier" /\ run'[j].registration_error
        /\ \A k \in Jobs : k # j => run'[k] = run[k]
    BY DEF SaveIdentifierAgain, Memory, RunState
  <1>2. QED
    BY <1>1, LeftIs DEF Cost, Ended

\* A request starts a run of a new job.
LEMMA StartCosts ==
  ASSUME IInv, Request, NEW j \in Jobs, run'[j] # run[j]
  PROVE  Cost(run'[j]) < Cost(run[j])
  <1>1. run \in Memory
    BY DEF IInv, ServiceTypeOK
  <1>2. PICK t \in Tenants : StartRun(t, j)
    <2>1. PICK u \in Tenants, k \in Jobs : StartRun(u, k)
      BY DEF Request, CreateOrganization, PostTenant
    <2>2. k = j
      BY <1>1, <2>1 DEF StartRun, Memory
    <2>3. QED
      BY <2>1, <2>2
  <1>3. run[j].pc = "unused"
    BY <1>2 DEF StartRun, IInv, Owned, T
  <1>4. run'[j].pc = "begin"
    BY <1>1, <1>2 DEF StartRun, Memory, RunState
  <1>5. QED
    BY <1>3, <1>4, LeftIs DEF Cost, Ended

LEMMA StepsCost ==
  ASSUME IInv, NEW j \in Jobs, RunStep(j) \/ Crash(j), run' \in Memory
  PROVE  Cost(run'[j]) < Cost(run[j]) /\ \A k \in Jobs : k # j => run'[k] = run[k]
  <1>1. run \in Memory
    BY DEF IInv, ServiceTypeOK
  <1>2. CASE SaveIdentifierAgain(j)
    BY <1>1, <1>2, SavingAgainCosts
  <1>3. CASE ~ SaveIdentifierAgain(j)
    <2>1. run[j].pc \notin Ended /\ \E m : Goes(j, m) /\ Later(m, run[j].pc)
      BY <1>1, <1>3, AdvancingCosts, JumpingCosts DEF RunStep
    <2>2. QED
      BY <1>1, <2>1, RunCosts DEF Goes
  <1>4. QED
    BY <1>2, <1>3

\* Whatever raises where, and however runs overlap: a run goes on for at most 38 steps, and
\* is not taken up again after its end, for each of them lowers a natural number.
THEOREM RunsTerminate ==
  ServiceSpec => RunsEnd /\ [](\A j \in Jobs : Work(j) \in 0 .. 38)
  <1>1. \A j \in Jobs : Work(j) = Cost(run[j]) /\ Work(j)' = Cost(run'[j])
    BY DEF Work, SavesAgain, Cost
  <1>2. IInv => \A j \in Jobs : Work(j) \in 0 .. 38
    <2> SUFFICES ASSUME IInv, NEW j \in Jobs PROVE Cost(run[j]) \in 0 .. 38
      BY <1>1
    <2>1. run[j] \in RunState
      BY DEF IInv, ServiceTypeOK, Memory
    <2>2. QED
      BY <2>1, CostIsNat, LeftIs DEF Cost
  <1>3. IInv /\ IInv' /\ [ServiceNext]_vars =>
          [\A j \in Jobs : run'[j] # run[j] => Work(j)' < Work(j)]_vars
    <2> SUFFICES ASSUME IInv, IInv', ServiceNext, NEW j \in Jobs, run'[j] # run[j]
                 PROVE  Cost(run'[j]) < Cost(run[j])
      BY <1>1
    <2>1. run' \in Memory
      BY DEF IInv, ServiceTypeOK
    <2>2. CASE Request
      BY <2>2, StartCosts
    <2>3. ASSUME NEW k \in Jobs, RunStep(k) \/ Crash(k)
          PROVE  Cost(run'[j]) < Cost(run[j])
      BY <2>1, <2>3, StepsCost
    <2>4. QED
      BY <2>2, <2>3 DEF ServiceNext
  <1>4. QED
    BY <1>2, <1>3, InductiveInvariant, PTL DEF ServiceSpec, RunsEnd

-----------------------------------------------------------------------------
(* What one tenant's run does to the others                                *)

\* A request touches no tenant that is there.
LEMMA RequestsStayApart ==
  ASSUME ServiceTypeOK, Request, NEW t \in Tenants, tenants[t].exists
  PROVE  tenants'[t] = tenants[t]
  <1>1. tenants \in TenantTable
    BY DEF ServiceTypeOK, RegistryTypeOK
  <1>2. QED
    BY <1>1 DEF Request, CreateOrganization, PostTenant, CreateTenantRow, StartRun, TenantTable

LEMMA StepsStayApart ==
  ASSUME IInv, run' \in Memory, NEW j \in Jobs, RunStep(j) \/ Crash(j),
         NEW t \in Tenants, \A k \in RunsOf(t) : run'[k] = run[k]
  PROVE  /\ tenants'[t] = tenants[t]
         /\ roles'[t] = roles[t] /\ databases'[t] = databases[t]
         /\ credentials'[t] = credentials[t] /\ fineract'[t] = fineract[t]
         /\ UsersOf(t)' = UsersOf(t)
  <1>1. run'[j] # run[j]
    <2>1. Cost(run'[j]) < Cost(run[j])
      BY StepsCost
    <2>2. Cost(run[j]) \in Nat
      BY CostIsNat DEF IInv, ServiceTypeOK, Memory
    <2>3. QED
      BY <2>1, <2>2
  <1>2. T(j) # t
    BY <1>1 DEF RunsOf
  <1>3. Frame(j) /\ Apart(j)
    BY FrameStep, ApartStep DEF IInv
  <1>4. UsersOf(t)' = UsersOf(t)
    <2>1. \A e \in Emails : users'[e] = t <=> users[e] = t
      BY <1>2, <1>3, RegistryAssumption DEF Apart
    <2>2. QED
      BY <2>1 DEF UsersOf
  <1>5. QED
    BY <1>2, <1>3, <1>4 DEF Frame, Apart

\* No run and no rollback reaches another tenant, for any tenants, contacts, overlap and faults.
THEOREM TenantsStayApart == ServiceSpec => RunsStayApart
  <1> DEFINE Kept(t) == /\ tenants[t].exists => tenants'[t] = tenants[t]
                        /\ roles'[t] = roles[t] /\ databases'[t] = databases[t]
                        /\ credentials'[t] = credentials[t] /\ fineract'[t] = fineract[t]
                        /\ UsersOf(t)' = UsersOf(t)
  <1>1. IInv /\ IInv' /\ [ServiceNext]_vars =>
          [\A t \in Tenants : (\A j \in RunsOf(t) : run'[j] = run[j]) => Kept(t)]_vars
    <2> SUFFICES ASSUME IInv, IInv', ServiceNext, NEW t \in Tenants,
                        \A j \in RunsOf(t) : run'[j] = run[j]
                 PROVE  Kept(t)
      OBVIOUS
    <2>1. CASE Request
      <3>1. UNCHANGED <<roles, databases, credentials, fineract, users>>
        BY <2>1 DEF Request, CreateOrganization, PostTenant, CreateTenantRow, StartRun, externalVars
      <3>2. tenants[t].exists => tenants'[t] = tenants[t]
        BY <2>1, RequestsStayApart DEF IInv
      <3>3. QED
        BY <3>1, <3>2 DEF UsersOf
    <2>2. ASSUME NEW j \in Jobs, RunStep(j) \/ Crash(j)
          PROVE  Kept(t)
      <3>1. run' \in Memory
        BY DEF IInv, ServiceTypeOK
      <3>2. QED
        BY <2>2, <3>1, StepsStayApart
    <2>3. QED
      BY <2>1, <2>2 DEF ServiceNext
  <1>2. QED
    BY <1>1, InductiveInvariant, PTL DEF ServiceSpec, RunsStayApart
=============================================================================
