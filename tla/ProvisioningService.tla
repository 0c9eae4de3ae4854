------------------------- MODULE ProvisioningService -------------------------
(***************************************************************************)
(* The synchronous provisioning engine: ProvisioningService.run() and its  *)
(* RollbackManager, executed inside the web request of the staff member who *)
(* creates an organization or presses "Retry provisioning".  A run is       *)
(* identified by the ProvisionJob it creates.  Each action is one commit to *)
(* the registry, one SQL statement on the host Postgres, one HTTP call to   *)
(* Fineract, or one exception; runs of several requests interleave between. *)
(***************************************************************************)
EXTENDS TenantRegistry

CONSTANT Overlap   \* staff may start a run while another of the tenant is going on

ASSUME OverlapAssumption == Overlap \in BOOLEAN

VARIABLE run       \* where the request that owns a job is, and what it has in memory

vars == <<registryVars, externalVars, run>>

\* The statement that follows, when no exception is raised.
After ==
  [begin                         |-> "CREATE_DB",
   default_db_name               |-> "CREATE_DB",
   CREATE_DB                     |-> "check_role",
   check_role                    |-> "check_database",
   create_role                   |-> "check_database",
   check_database                |-> "save_db_user",
   create_database               |-> "save_db_user",
   save_db_user                  |-> "store_credential",
   store_credential              |-> "CREATE_DB_USER",
   CREATE_DB_USER                |-> "GRANT_PERMISSIONS",
   GRANT_PERMISSIONS             |-> "grant",
   grant                         |-> "initializing",
   initializing                  |-> "RUN_FINERACT_SCHEMA",
   RUN_FINERACT_SCHEMA           |-> "REGISTER_FINERACT_TENANT",
   REGISTER_FINERACT_TENANT      |-> "create_tenant",
   create_tenant                 |-> "save_identifier",
   save_identifier               |-> "CREATE_ADMIN_USER",
   CREATE_ADMIN_USER             |-> "create_user",
   create_user                   |-> "create_tenant_user",
   create_tenant_user            |-> "SEND_WELCOME_EMAIL",
   SEND_WELCOME_EMAIL            |-> "send_welcome_email",
   send_welcome_email            |-> "ACTIVATE",
   ACTIVATE                      |-> "create_primary_domain",
   create_primary_domain         |-> "set_ready",
   set_ready                     |-> "finish_job",
   finish_job                    |-> "ready",
   record_failure                |-> "mark_failed",
   undo_create_admin_user        |-> "undo_register_fineract_tenant",
   undo_register_fineract_tenant |-> "undo_create_db_user",
   undo_create_db_user           |-> "undo_create_db_user_role",
   undo_create_db_user_role      |-> "undo_create_db",
   undo_create_db                |-> "undo_create_db_role",
   undo_create_db_role           |-> "write_audit",
   write_audit                   |-> "failed"]

Bookkeeping == {"CREATE_DB", "CREATE_DB_USER", "GRANT_PERMISSIONS", "RUN_FINERACT_SCHEMA",
                "REGISTER_FINERACT_TENANT", "CREATE_ADMIN_USER", "SEND_WELCOME_EMAIL",
                "ACTIVATE"}

DropsDatabase == {"undo_create_db_user", "undo_create_db"}
DropsRole == {"undo_create_db_user_role", "undo_create_db_role"}

\* Statements that write the registry or talk to Postgres inside the try block.
WritesRegistry == Bookkeeping \cup
  {"save_db_user", "store_credential", "initializing", "create_user",
   "create_primary_domain", "set_ready", "finish_job"}
CallsPostgres == {"check_role", "create_role", "check_database", "create_database", "grant"}

\* run() returned, raised, was left by an exception nobody handles, or died.
Ended == {"ready", "failed", "aborted", "crashed"}

Label == DOMAIN After \cup {"unused", "mark_failed"} \cup Ended

\* swallowed is history: a cleanup call failed and may have left its object.
RunState == [pc : Label, current : Steps, db_name : BOOLEAN, identifier : BOOLEAN,
             registration_error : BOOLEAN, swallowed : BOOLEAN]

Memory == [Jobs -> RunState]

ServiceTypeOK == RegistryTypeOK /\ run \in Memory

ServiceInit ==
  /\ RegistryInit
  /\ run = [j \in Jobs |-> [pc |-> "unused", current |-> "VALIDATE", db_name |-> FALSE,
                            identifier |-> FALSE, registration_error |-> FALSE,
                            swallowed |-> FALSE]]

T(j) == jobs[j].tenant
Active(j) == run[j].pc \notin Ended \cup {"unused"}
Advance(j) == run' = [run EXCEPT ![j].pc = After[run[j].pc]]
Jump(j, label) == run' = [run EXCEPT ![j].pc = label]

-----------------------------------------------------------------------------
(* The requests.                                                           *)

\* Both names are derived from the tenant_code before the row is inserted.
CreateOrganization(t) ==
  /\ ~ tenants[t].exists
  /\ tenants' = [tenants EXCEPT ![t] = NewTenant(TRUE)]
  /\ kyc' = [kyc EXCEPT ![t] = TRUE]
  /\ UNCHANGED <<domains, users, jobs, credentials, audit, externalVars, run>>

PostTenant(t) == CreateTenantRow(t) /\ UNCHANGED run

\* create_organization and tenant_retry look at nothing but the existence of the row.
StartRun(t, j) ==
  /\ tenants[t].exists
  /\ jobs[j].tenant = Nobody
  /\ Overlap \/ \A k \in Jobs : T(k) = t => ~ Active(k)
  /\ jobs' = [jobs EXCEPT ![j] = NewJob(t)]
  /\ run' = [run EXCEPT ![j] = [@ EXCEPT !.pc = "begin", !.db_name = tenants[t].db_name,
                                         !.identifier = tenants[t].identifier]]
  /\ UNCHANGED <<tenants, kyc, domains, users, credentials, audit, externalVars>>

-----------------------------------------------------------------------------
(* ProvisioningService.run() and the steps it calls.                       *)

BeginRun(j) ==
  /\ run[j].pc = "begin"
  /\ tenants' = [tenants EXCEPT ![T(j)].status = "PROVISIONING"]
  /\ Jump(j, IF run[j].db_name THEN "CREATE_DB" ELSE "default_db_name")
  /\ UNCHANGED <<kyc, domains, users, jobs, credentials, audit, externalVars>>

DefaultDbName(j) ==
  /\ run[j].pc = "default_db_name"
  /\ tenants' = [tenants EXCEPT ![T(j)].db_name = TRUE]
  /\ run' = [run EXCEPT ![j].pc = After[run[j].pc], ![j].db_name = TRUE]
  /\ UNCHANGED <<kyc, domains, users, jobs, credentials, audit, externalVars>>

Step(j) ==
  /\ run[j].pc \in Bookkeeping
  /\ jobs' = [jobs EXCEPT ![j].current_step = run[j].pc]
  /\ run' = [run EXCEPT ![j].pc = After[run[j].pc], ![j].current = run[j].pc]
  /\ UNCHANGED <<tenants, kyc, domains, users, credentials, audit, externalVars>>

CheckRole(j) ==
  /\ run[j].pc = "check_role"
  /\ Jump(j, IF roles[T(j)] = NoPassword THEN "create_role" ELSE "check_database")
  /\ UNCHANGED <<registryVars, externalVars>>

CreateRole(j) ==
  /\ run[j].pc = "create_role"
  /\ roles[T(j)] = NoPassword
  /\ roles' = [roles EXCEPT ![T(j)] = j]
  /\ Advance(j)
  /\ UNCHANGED <<registryVars, databases, fineract, outbox>>

CheckDatabase(j) ==
  /\ run[j].pc = "check_database"
  /\ Jump(j, IF databases[T(j)] = "none" THEN "create_database" ELSE "save_db_user")
  /\ UNCHANGED <<registryVars, externalVars>>

CreateDatabase(j) ==
  /\ run[j].pc = "create_database"
  /\ databases[T(j)] = "none" /\ roles[T(j)] # NoPassword
  /\ databases' = [databases EXCEPT ![T(j)] = "role"]
  /\ Advance(j)
  /\ UNCHANGED <<registryVars, roles, fineract, outbox>>

SaveDbUser(j) ==
  /\ run[j].pc = "save_db_user"
  /\ tenants' = [tenants EXCEPT ![T(j)].db_user = TRUE]
  /\ Advance(j)
  /\ UNCHANGED <<kyc, domains, users, jobs, credentials, audit, externalVars>>

\* A slip with get_or_create: storing the password only when the row is new.
StoreCredentialIfCreated(j) ==
  /\ run[j].pc = "store_credential"
  /\ credentials' = [credentials EXCEPT ![T(j)] = IF @ = NoPassword THEN j ELSE @]
  /\ Advance(j)
  /\ UNCHANGED <<tenants, kyc, domains, users, jobs, audit, externalVars>>

\* The password of this run, whether or not it is the one its role was created with.
StoreCredential(j) ==
  /\ run[j].pc = "store_credential"
  /\ credentials' = [credentials EXCEPT ![T(j)] = j]
  /\ Advance(j)
  /\ UNCHANGED <<tenants, kyc, domains, users, jobs, audit, externalVars>>

GrantPermissions(j) ==
  /\ run[j].pc = "grant"
  /\ databases[T(j)] # "none" /\ roles[T(j)] # NoPassword
  /\ databases' = [databases EXCEPT ![T(j)] = "role"]
  /\ Advance(j)
  /\ UNCHANGED <<registryVars, roles, fineract, outbox>>

SetInitializing(j) ==
  /\ run[j].pc = "initializing"
  /\ tenants' = [tenants EXCEPT ![T(j)].status = "INITIALIZING"]
  /\ Advance(j)
  /\ UNCHANGED <<kyc, domains, users, jobs, credentials, audit, externalVars>>

\* Fineract refuses an identifier it has; a reply may be lost after the tenant was made.
CreateFineractTenant(j) ==
  /\ run[j].pc = "create_tenant"
  /\ \E answered \in {TRUE, FALSE} :
       /\ answered => fineract[T(j)] = "absent"
       /\ ~ answered => fineract[T(j)] # "absent" \/ "fineract" \in Faults
       /\ run' = [run EXCEPT ![j].pc = After[run[j].pc], ![j].identifier = TRUE,
                             ![j].registration_error = ~ answered]
       /\ \/ fineract[T(j)] = "absent" /\ fineract' = [fineract EXCEPT ![T(j)] = "tenant"]
          \/ ~ answered /\ UNCHANGED fineract
  /\ UNCHANGED <<registryVars, roles, databases, outbox>>

SaveIdentifier(j) ==
  /\ run[j].pc = "save_identifier"
  /\ tenants' = [tenants EXCEPT ![T(j)].identifier = TRUE]
  /\ Advance(j)
  /\ UNCHANGED <<kyc, domains, users, jobs, credentials, audit, externalVars>>

\* A slip: an except branch that registers once more, where it only has to save.
RegisterOnceMore(j) ==
  /\ run[j].pc = "save_identifier" /\ ~ run[j].registration_error
  /\ "registry" \in Faults
  /\ Jump(j, "create_tenant")
  /\ UNCHANGED <<registryVars, externalVars>>

\* The first save is inside the try: its failure passes for a registration error,
\* and the except branch saves again.
SaveIdentifierAgain(j) ==
  /\ run[j].pc = "save_identifier" /\ ~ run[j].registration_error
  /\ "registry" \in Faults
  /\ run' = [run EXCEPT ![j].registration_error = TRUE]
  /\ UNCHANGED <<registryVars, externalVars>>

CreateAdminUser(j) ==
  /\ run[j].pc = "create_user"
  /\ users[ContactEmail[T(j)]] = Nobody
  /\ users' = [users EXCEPT ![ContactEmail[T(j)]] = T(j)]
  /\ Jump(j, IF run[j].registration_error THEN "SEND_WELCOME_EMAIL" ELSE "create_tenant_user")
  /\ UNCHANGED <<tenants, kyc, domains, jobs, credentials, audit, externalVars>>

CreateFineractUser(j) ==
  /\ run[j].pc = "create_tenant_user"
  /\ \E answered \in {TRUE, FALSE} :
       /\ answered => fineract[T(j)] = "tenant"
       /\ ~ answered => fineract[T(j)] # "tenant" \/ "fineract" \in Faults
       /\ run' = [run EXCEPT ![j].pc = After[run[j].pc], ![j].registration_error = ~ answered]
       /\ \/ fineract[T(j)] = "tenant" /\ fineract' = [fineract EXCEPT ![T(j)] = "admin"]
          \/ ~ answered /\ UNCHANGED fineract
  /\ UNCHANGED <<registryVars, roles, databases, outbox>>

SendWelcomeEmail(j) ==
  /\ run[j].pc = "send_welcome_email"
  /\ BestEffort("send_welcome_email", T(j))
  /\ Advance(j)
  /\ UNCHANGED <<registryVars, roles, databases, fineract>>

\* A slip: treating the domain as best effort, like the e-mails around it.
CreatePrimaryDomainBestEffort(j) ==
  /\ run[j].pc = "create_primary_domain"
  /\ \/ Insertable(PrimaryDomain(T(j))) /\ domains' = domains \cup {PrimaryDomain(T(j))}
     \/ UNCHANGED domains
  /\ Advance(j)
  /\ UNCHANGED <<tenants, kyc, users, jobs, credentials, audit, externalVars>>

CreatePrimaryDomain(j) ==
  /\ run[j].pc = "create_primary_domain"
  /\ Insertable(PrimaryDomain(T(j)))
  /\ domains' = domains \cup {PrimaryDomain(T(j))}
  /\ Advance(j)
  /\ UNCHANGED <<tenants, kyc, users, jobs, credentials, audit, externalVars>>

SetReady(j) ==
  /\ run[j].pc = "set_ready"
  /\ tenants' = [tenants EXCEPT ![T(j)] = Provisioned(@)]
  /\ OnTenantSave(T(j), "READY")
  /\ Advance(j)
  /\ UNCHANGED <<kyc, domains, users, jobs, credentials, audit, roles, databases, fineract>>

FinishJob(j) ==
  /\ run[j].pc = "finish_job"
  /\ jobs' = [jobs EXCEPT ![j] = [@ EXCEPT !.current_step = "DONE", !.is_success = "true",
                !.error_message = run[j].registration_error, !.finished_at = TRUE]]
  /\ run' = [run EXCEPT ![j].pc = "ready", ![j].current = "DONE"]
  /\ UNCHANGED <<tenants, kyc, domains, users, credentials, audit, externalVars>>

-----------------------------------------------------------------------------
(* Exceptions and the rollback.                                            *)

\* The statement at hand raises: its database fails, or refuses it in this state.
MayRaise(j) ==
  LET pc == run[j].pc
  IN  \/ "registry" \in Faults /\ pc \in WritesRegistry
      \/ "registry" \in Faults /\ pc = "save_identifier" /\ run[j].registration_error
      \/ "postgres" \in Faults /\ pc \in CallsPostgres
      \/ pc = "create_role" /\ roles[T(j)] # NoPassword
      \/ pc = "create_database" /\ (databases[T(j)] # "none" \/ roles[T(j)] = NoPassword)
      \/ pc = "grant" /\ (databases[T(j)] = "none" \/ roles[T(j)] = NoPassword)
      \/ pc = "create_user" /\ users[ContactEmail[T(j)]] # Nobody
      \/ pc = "create_primary_domain" /\ ~ Insertable(PrimaryDomain(T(j)))

\* current_step is assigned before it is saved, so it names the step that failed.
Raise(j) ==
  /\ MayRaise(j)
  /\ run' = [run EXCEPT ![j].pc = "record_failure",
                        ![j].current = CASE run[j].pc \in Bookkeeping -> run[j].pc
                                         [] run[j].pc = "finish_job"  -> "DONE"
                                         [] OTHER                     -> @]
  /\ UNCHANGED <<registryVars, externalVars>>

RecordFailure(j) ==
  /\ run[j].pc = "record_failure"
  /\ jobs' = [jobs EXCEPT ![j] = [@ EXCEPT !.current_step = run[j].current,
                !.is_success = "false", !.error_message = TRUE, !.finished_at = TRUE]]
  /\ Advance(j)
  /\ UNCHANGED <<tenants, kyc, domains, users, credentials, audit, externalVars>>

\* A slip: slicing order[: idx], which leaves the failed step itself standing.
FirstHandlerExclusive(failed) ==
  CASE NotAfter("SEND_WELCOME_EMAIL", failed) -> "undo_create_admin_user"
    [] failed = "CREATE_ADMIN_USER"           -> "undo_register_fineract_tenant"
    [] NotAfter("GRANT_PERMISSIONS", failed)  -> "undo_create_db_user"
    [] failed = "CREATE_DB_USER"              -> "undo_create_db"
    [] OTHER                                  -> "write_audit"

\* reversed(order[: idx + 1]) meets the undo handlers latest step first; the handlers
\* of all earlier steps follow in that order.
FirstHandler(failed) ==
  CASE NotAfter("CREATE_ADMIN_USER", failed) -> "undo_create_admin_user"
    [] ~ NotAfter("CREATE_ADMIN_USER", failed) /\ NotAfter("REGISTER_FINERACT_TENANT", failed)
         -> "undo_register_fineract_tenant"
    [] ~ NotAfter("REGISTER_FINERACT_TENANT", failed) /\ NotAfter("CREATE_DB_USER", failed)
         -> "undo_create_db_user"
    [] OTHER -> "undo_create_db"

\* A slip: the except branch records the job and forgets the tenant.
MarkFailedNowhere(j) ==
  /\ run[j].pc = "mark_failed"
  /\ Jump(j, FirstHandler(run[j].current))
  /\ UNCHANGED <<registryVars, externalVars>>

MarkFailed(j) ==
  /\ run[j].pc = "mark_failed"
  /\ tenants' = [tenants EXCEPT ![T(j)].status = "FAILED"]
  /\ Jump(j, FirstHandler(run[j].current))
  /\ UNCHANGED <<kyc, domains, users, jobs, credentials, audit, externalVars>>

\* The users are looked up by the address of the organization.
UndoCreateAdminUserOfContact(j) ==
  /\ run[j].pc = "undo_create_admin_user"
  /\ users' = [users EXCEPT ![ContactEmail[T(j)]] = Nobody]
  /\ Advance(j)
  /\ UNCHANGED <<tenants, kyc, domains, jobs, credentials, audit, externalVars>>

\* Every user of the tenant, whoever created it.
UndoCreateAdminUser(j) ==
  /\ run[j].pc = "undo_create_admin_user"
  /\ users' = [e \in Emails |-> IF users[e] = T(j) THEN Nobody ELSE users[e]]
  /\ Advance(j)
  /\ UNCHANGED <<tenants, kyc, domains, jobs, credentials, audit, externalVars>>

UndoRegisterFineractTenant(j) ==
  /\ run[j].pc = "undo_register_fineract_tenant"
  /\ \/ run[j].identifier /\ fineract' = [fineract EXCEPT ![T(j)] = "absent"] /\ Advance(j)
     \/ ~ run[j].identifier /\ UNCHANGED fineract /\ Advance(j)
     \/ /\ run[j].identifier /\ "fineract" \in Faults /\ UNCHANGED fineract
        /\ run' = [run EXCEPT ![j].pc = After[run[j].pc], ![j].swallowed = TRUE]
  /\ UNCHANGED <<registryVars, roles, databases, outbox>>

\* drop_all, first statement; when it fails the second one is skipped.
DropDatabase(j) ==
  /\ run[j].pc \in DropsDatabase
  /\ \/ databases' = [databases EXCEPT ![T(j)] = "none"] /\ Advance(j)
     \/ /\ "postgres" \in Faults /\ UNCHANGED databases
        /\ run' = [run EXCEPT ![j].pc = After[After[run[j].pc]], ![j].swallowed = TRUE]
  /\ UNCHANGED <<registryVars, roles, fineract, outbox>>

\* drop_all, second statement: Postgres keeps a role that a database depends on.
DropRole(j) ==
  /\ run[j].pc \in DropsRole
  /\ \/ /\ databases[T(j)] # "role" /\ Advance(j)
        /\ roles' = [roles EXCEPT ![T(j)] = NoPassword]
     \/ /\ databases[T(j)] = "role" \/ "postgres" \in Faults
        /\ run' = [run EXCEPT ![j].pc = After[run[j].pc], ![j].swallowed = TRUE]
        /\ UNCHANGED roles
  /\ UNCHANGED <<registryVars, databases, fineract, outbox>>

WriteAudit(j) ==
  /\ run[j].pc = "write_audit"
  /\ audit' = audit \cup {<<"PROVISIONING_ROLLED_BACK", T(j)>>}
  /\ Advance(j)
  /\ UNCHANGED <<tenants, kyc, domains, users, jobs, credentials, externalVars>>

\* Before the try block and inside the handler nothing catches: the connect of
\* drop_all is outside its own try.
Escape(j) ==
  /\ \/ "registry" \in Faults /\ run[j].pc \in {"begin", "default_db_name", "record_failure",
                                   "mark_failed", "undo_create_admin_user", "write_audit"}
     \/ "postgres" \in Faults /\ run[j].pc \in DropsDatabase
  /\ Jump(j, "aborted")
  /\ UNCHANGED <<registryVars, externalVars>>

\* The web worker that serves the request is killed.
Crash(j) ==
  /\ "crash" \in Faults
  /\ Active(j)
  /\ Jump(j, "crashed")
  /\ UNCHANGED <<registryVars, externalVars>>

-----------------------------------------------------------------------------
RunStep(j) ==
  \/ BeginRun(j) \/ DefaultDbName(j) \/ Step(j)
  \/ CheckRole(j) \/ CreateRole(j) \/ CheckDatabase(j) \/ CreateDatabase(j)
  \/ SaveDbUser(j) \/ StoreCredential(j) \/ GrantPermissions(j) \/ SetInitializing(j)
  \/ CreateFineractTenant(j) \/ SaveIdentifier(j) \/ SaveIdentifierAgain(j)
  \/ CreateAdminUser(j) \/ CreateFineractUser(j) \/ SendWelcomeEmail(j)
  \/ CreatePrimaryDomain(j) \/ SetReady(j) \/ FinishJob(j)
  \/ Raise(j) \/ RecordFailure(j) \/ MarkFailed(j)
  \/ UndoCreateAdminUser(j) \/ UndoRegisterFineractTenant(j)
  \/ DropDatabase(j) \/ DropRole(j) \/ WriteAudit(j) \/ Escape(j)

Request == \/ \E t \in Tenants : CreateOrganization(t) \/ PostTenant(t)
           \/ \E t \in Tenants, j \in Jobs : StartRun(t, j)

ServiceNext == \/ Request
               \/ \E j \in Jobs : RunStep(j)
               \/ \E j \in Jobs : Crash(j)

ServiceSpec == ServiceInit /\ [][ServiceNext]_vars

\* A request thread that was started keeps executing; nobody has to make a request.
FairServiceSpec == ServiceSpec /\ \A j \in Jobs : WF_vars(RunStep(j))

-----------------------------------------------------------------------------
RunsOf(t) == {j \in Jobs : T(j) = t}

\* When every run of a tenant has rolled back and no cleanup error was swallowed, the
\* tenant owns nothing any more: no role, no database, no user, no Fineract tenant.
\* It must survive runs that overlap and replies of Fineract that are lost.
CleanRollback ==
  \A t \in Tenants :
    (\A j \in RunsOf(t) : run[j].pc = "failed" /\ ~ run[j].swallowed) =>
      /\ roles[t] = NoPassword /\ databases[t] = "none"
      /\ fineract[t] = "absent" /\ UsersOf(t) = {}

\* What a run does, its rollback included, is its own tenant's business: the row of a tenant,
\* its role, database, password, Fineract tenant and users change only with a step of one of
\* its own runs.  Tenants of one contact person want one and the same user, and the rollback of
\* the one that was refused must not take it from the other.
RunsStayApart ==
  [][\A t \in Tenants : (\A j \in RunsOf(t) : run'[j] = run[j]) =>
       /\ tenants[t].exists => tenants'[t] = tenants[t]
       /\ roles'[t] = roles[t] /\ databases'[t] = databases[t]
       /\ credentials'[t] = credentials[t] /\ fineract'[t] = fineract[t]
       /\ UsersOf(t)' = UsersOf(t)
    ]_vars

\* A tenant that is READY can be served whatever crashed, was swallowed or left behind by
\* earlier attempts, as long as staff retry one run after the other: its role may use its
\* database, and its first user and its primary domain exist.
ReadyIsServable ==
  \A t \in Tenants : tenants[t].status = "READY" =>
    /\ databases[t] = "role" /\ roles[t] # NoPassword
    /\ UsersOf(t) # {} /\ HasPrimaryDomain(t)

\* The stored credential of a READY tenant is the password its role was created with,
\* provided every earlier run either finished or rolled back without losing a cleanup.
CredentialSurvivesCleanRetries ==
  \A t \in Tenants :
    /\ tenants[t].status = "READY"
    /\ \A j \in RunsOf(t) : run[j].pc \notin {"aborted", "crashed"} /\ ~ run[j].swallowed
    => credentials[t] = roles[t]

\* The dashboard never shows a tenant as being provisioned for ever: its run reaches
\* READY or FAILED, whatever Postgres, Fineract and the broker do.
TenantSettles ==
  \A t \in Tenants :
    tenants[t].status \in {"PROVISIONING", "INITIALIZING"}
      ~> tenants[t].status \in {"READY", "FAILED"}

\* The statements a run may still execute, from each one on: to the end of run(), which may
\* fail at its last statement, and through the whole rollback.
Left ==
  [unused |-> 38, begin |-> 37, default_db_name |-> 36, CREATE_DB |-> 35, check_role |-> 34,
   create_role |-> 33, check_database |-> 32, create_database |-> 31, save_db_user |-> 30,
   store_credential |-> 29, CREATE_DB_USER |-> 28, GRANT_PERMISSIONS |-> 27, grant |-> 26,
   initializing |-> 25, RUN_FINERACT_SCHEMA |-> 24, REGISTER_FINERACT_TENANT |-> 23,
   create_tenant |-> 22, save_identifier |-> 20, CREATE_ADMIN_USER |-> 19,
   create_user |-> 18, create_tenant_user |-> 17, SEND_WELCOME_EMAIL |-> 16,
   send_welcome_email |-> 15, ACTIVATE |-> 14, create_primary_domain |-> 13,
   set_ready |-> 12, finish_job |-> 11, record_failure |-> 10, mark_failed |-> 9,
   undo_create_admin_user |-> 8, undo_register_fineract_tenant |-> 7,
   undo_create_db_user |-> 6, undo_create_db_user_role |-> 5, undo_create_db |-> 4,
   undo_create_db_role |-> 3, write_audit |-> 2]

\* Only the save of the identifier may be executed twice.
SavesAgain(j) == run[j].pc = "save_identifier" /\ ~ run[j].registration_error

Work(j) == IF run[j].pc \in Ended THEN 0
             ELSE Left[run[j].pc] + (IF SavesAgain(j) THEN 1 ELSE 0)

\* A request thread comes to an end whatever raises where: no statement and no cleanup is
\* executed twice, no exception leads back, and a run that ended is not taken up again.
RunsEnd == [][\A j \in Jobs : run'[j] # run[j] => Work(j)' < Work(j)]_vars

\* "Walks backward through completed steps, undoing each one, on failure": a tenant all
\* of whose runs rolled back has no primary domain, the result of the ACTIVATE step.
RollbackUndoesActivate ==
  \A t \in Tenants :
    (\A j \in RunsOf(t) : run[j].pc = "failed" /\ ~ run[j].swallowed) =>
      ~ HasPrimaryDomain(t)

\* "Tenant is READY, but Fineract registration failed and can be retried later": a tenant
\* brought up that way still has its database after the retry.
RegistrationCanBeRetried ==
  \A j \in Jobs : jobs[j].is_success = "true" /\ jobs[j].error_message =>
    databases[T(j)] # "none"
=============================================================================
