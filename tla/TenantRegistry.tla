--------------------------- MODULE TenantRegistry ---------------------------
(***************************************************************************)
(* The persistent state every process of the control plane shares: the     *)
(* rows of the tenant_registry database (tenants, domains, users, provision *)
(* jobs, credentials, audit log), the host Postgres cluster with one role  *)
(* and one database per tenant, the Fineract server, and the Celery tasks  *)
(* enqueued as side effects.  The modules that extend this one add the     *)
(* processes; each of their actions is one commit or one external call.    *)
(***************************************************************************)
EXTENDS Naturals, FiniteSets

CONSTANTS
  Tenants,        \* the tenants that may be onboarded; also their tenant_code
  CustomHosts,    \* hostnames outside <tenant_code>.PLATFORM_BASE_DOMAIN
  Emails,         \* e-mail addresses
  StaffEmails,    \* addresses held by platform staff (users with tenant = NULL)
  ContactEmail,   \* the contact_email of the organization that owns a tenant
  Jobs,           \* primary keys of ProvisionJob rows, bounds the runs started
  Nobody,         \* no user has this address / no tenant owns this job
  Platform,       \* the user with this address is platform staff
  NoPassword,     \* no role or no credential row exists
  Faults          \* which parts of the environment may fail

FaultKinds == {"registry", "postgres", "fineract", "broker", "crash"}

ASSUME RegistryAssumption ==
  /\ ContactEmail \in [Tenants -> Emails]
  /\ StaffEmails \subseteq Emails
  /\ Nobody \notin Tenants /\ Platform \notin Tenants /\ Nobody # Platform
  /\ NoPassword \notin Jobs
  /\ Faults \subseteq FaultKinds

VARIABLES
  tenants,      \* the Tenant row of each tenant_code
  kyc,          \* kyc_verified of the organization that owns the tenant
  domains,      \* the Domain rows
  users,        \* who owns the User row with an address (User.email is unique)
  jobs,         \* the ProvisionJob rows
  credentials,  \* EncryptedCredential: the job whose run generated the password
  audit,        \* AuditLog entries written by the modelled operations
  roles,        \* Postgres role of a tenant: the job that generated its password
  databases,    \* Postgres database of a tenant: absent, or who may use it
  fineract,     \* what the Fineract server holds for a tenant
  outbox        \* Celery tasks enqueued for other workers

registryVars == <<tenants, kyc, domains, users, jobs, credentials, audit>>
externalVars == <<roles, databases, fineract, outbox>>

Status == {"PENDING", "PROVISIONING", "INITIALIZING", "READY", "FAILED", "SUSPENDED"}

\* ProvisionJob.Step in declaration order, which the rollback walks backwards.
StepOrder == <<"VALIDATE", "CREATE_DB", "CREATE_DB_USER", "GRANT_PERMISSIONS",
               "RUN_FINERACT_SCHEMA", "REGISTER_FINERACT_TENANT", "SAVE_REGISTRY",
               "CREATE_ADMIN_USER", "SEND_WELCOME_EMAIL", "ACTIVATE", "DONE">>

Steps == {StepOrder[i] : i \in 1..11}

\* Step s is not declared after step r.
NotAfter(s, r) == \E i, k \in 1..11 : i <= k /\ StepOrder[i] = s /\ StepOrder[k] = r

\* Text columns and timestamps are kept as "is it set".
TenantRow == [exists : BOOLEAN, status : Status, is_active : BOOLEAN,
              db_name : BOOLEAN, db_user : BOOLEAN, identifier : BOOLEAN,
              provisioned_at : BOOLEAN, suspended_at : BOOLEAN]

NewTenant(named) ==
  [exists |-> TRUE, status |-> "PENDING", is_active |-> FALSE,
   db_name |-> named, db_user |-> FALSE, identifier |-> named,
   provisioned_at |-> FALSE, suspended_at |-> FALSE]

Hostnames == Tenants \cup CustomHosts

Domain == [hostname : Hostnames, tenant : Tenants, is_primary : BOOLEAN]

JobRow == [tenant : Tenants \cup {Nobody}, current_step : Steps,
           is_success : {"null", "true", "false"}, error_message : BOOLEAN,
           retry_count : Nat, finished_at : BOOLEAN]

NewJob(t) == [tenant |-> t, current_step |-> "VALIDATE", is_success |-> "null",
              error_message |-> FALSE, retry_count |-> 0, finished_at |-> FALSE]

TenantTable == [Tenants -> TenantRow]
JobTable == [Jobs -> JobRow]
UserTable == [Emails -> Tenants \cup {Nobody, Platform}]
Passwords == [Tenants -> Jobs \cup {NoPassword}]
DatabaseOf == [Tenants -> {"none", "registry", "role"}]
FineractOf == [Tenants -> {"absent", "tenant", "admin"}]
AuditAction == {"PROVISIONING_ROLLED_BACK", "TENANT_SUSPENDED", "TENANT_ACTIVATED"}
AuditLog == SUBSET (AuditAction \X Tenants)
CeleryTask == {"send_welcome_email", "send_tenant_activated_email", "revoke_tenant_sessions"}
Enqueued == SUBSET (CeleryTask \X Tenants)

RegistryTypeOK ==
  /\ tenants \in TenantTable /\ kyc \in [Tenants -> BOOLEAN] /\ domains \in SUBSET Domain
  /\ users \in UserTable /\ jobs \in JobTable /\ credentials \in Passwords
  /\ audit \in AuditLog
  /\ roles \in Passwords /\ databases \in DatabaseOf /\ fineract \in FineractOf
  /\ outbox \in Enqueued

RegistryInit ==
  /\ tenants = [t \in Tenants |-> [NewTenant(FALSE) EXCEPT !.exists = FALSE]]
  /\ kyc = [t \in Tenants |-> FALSE]
  /\ domains = {}
  /\ users = [e \in Emails |-> IF e \in StaffEmails THEN Platform ELSE Nobody]
  /\ jobs = [j \in Jobs |-> NewJob(Nobody)]
  /\ credentials = [t \in Tenants |-> NoPassword]
  /\ audit = {}
  /\ roles = [t \in Tenants |-> NoPassword]
  /\ databases = [t \in Tenants |-> "none"]
  /\ fineract = [t \in Tenants |-> "absent"]
  /\ outbox = {}

-----------------------------------------------------------------------------
HasPrimaryDomain(t) == \E d \in domains : d.tenant = t /\ d.is_primary

\* The hostname is unique, and so is the primary domain of a tenant.
Insertable(d) ==
  /\ \A e \in domains : e.hostname # d.hostname
  /\ d.is_primary => ~ HasPrimaryDomain(d.tenant)

\* DomainManager.generate_subdomain is injective in the tenant_code.
PrimaryDomain(t) == [hostname |-> t, tenant |-> t, is_primary |-> TRUE]

UsersOf(t) == {e \in Emails : users[e] = t}

\* x.delay(...) inside try/except: enqueued, or lost with a warning.
BestEffort(task, t) ==
  \/ outbox' = outbox \cup {<<task, t>>}
  \/ "broker" \in Faults /\ UNCHANGED outbox

\* The post_save receiver of Tenant, called inside save() with the in-memory status.
OnTenantSave(t, status) ==
  CASE status = "READY"     -> BestEffort("send_tenant_activated_email", t)
    [] status = "SUSPENDED" -> BestEffort("revoke_tenant_sessions", t)
    [] OTHER                -> UNCHANGED outbox

\* POST /tenants: both names are read-only there, and unique, so one row has them blank.
CreateTenantRow(t) ==
  /\ ~ tenants[t].exists
  /\ \A u \in Tenants : tenants[u].exists => tenants[u].db_name /\ tenants[u].identifier
  /\ tenants' = [tenants EXCEPT ![t] = NewTenant(FALSE)]
  /\ UNCHANGED <<kyc, domains, users, jobs, credentials, audit, externalVars>>

\* Slips: a status no Tenant may have (the code once wrote it), and a field left out
\* of update_fields.
ProvisionedAsActive(row) == [row EXCEPT !.status = "ACTIVE", !.is_active = TRUE]
ProvisionedUndated(row) == [row EXCEPT !.status = "READY", !.is_active = TRUE]

\* What both provisioning engines save when they finish.
Provisioned(row) ==
  [row EXCEPT !.status = "READY", !.is_active = TRUE, !.provisioned_at = TRUE]

\* How the rows show the portal of a tenant.
Portal == INSTANCE PortalContract WITH
  routed   <- {t \in Tenants : HasPrimaryDomain(t)},
  open     <- {t \in Tenants : tenants[t].status = "READY"},
  opened   <- {t \in Tenants : tenants[t].provisioned_at},
  reported <- {p \in Jobs \X Tenants : /\ jobs[p[1]].tenant = p[2]
                                       /\ jobs[p[1]].is_success = "true"}

-----------------------------------------------------------------------------
\* A READY tenant is the only kind the resolver middleware serves; it must be
\* reachable, so it must have the primary domain every link is built from.
ReadyHasPrimaryDomain ==
  \A t \in Tenants : tenants[t].status = "READY" => HasPrimaryDomain(t)

\* A job recorded as successful means its tenant was brought up: provisioned_at
\* is set on the Tenant row before the job row says so, and is never cleared.
SuccessMeansProvisioned ==
  \A j \in Jobs : jobs[j].is_success = "true" => tenants[jobs[j].tenant].provisioned_at

\* The rows implement the portal contract: a primary domain is committed before READY
\* and is never removed, and a job says success only after provisioned_at was saved.
RefinesPortal == Portal!PortalSpec
=============================================================================
