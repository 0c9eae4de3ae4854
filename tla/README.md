# Verification of the Banking SaaS control plane

TLA+ specifications of the Django control plane in `src/backend` (tenant onboarding on a
shared Postgres host and Apache Fineract), model-checked with TLC and, where marked, proved
with TLAPS.

## 1. Inventory

The program is a set of Django apps served by several web workers, plus Celery workers.
Nothing is shared in memory: processes meet in the registry database, the host Postgres
cluster, the Fineract server, Redis (cache and broker), and there is no lock and no
transaction around most operations. The hard behaviours are therefore interleavings of
requests and tasks between two commits, external effects that a failure leaves half done,
and answers or workers that are lost.

| Component | State | Operations | Talks to | What makes it correct |
|---|---|---|---|---|
| Synchronous provisioning (`provisioning/services.py`, `dashboard/views.py`) | `ProvisionJob`, `Tenant`, `Domain`, `User`, `EncryptedCredential` rows; the request's memory | create organization, retry, the ten steps, rollback | Postgres superuser connection, Fineract, broker | a READY tenant is complete; a rollback leaves nothing; a status is always reached |
| Provisioning task (`provisioning/tasks.py`, `provisioning/views.py`) | the same rows, Celery message and retry count | dispatch (five requests), run, retry | broker, Postgres | the tenant ends where its tasks say; reruns are safe |
| Organizations (`organizations/`) | `Organization.kyc_verified`, registration number | register, verify KYC | dispatches the task | every organization has a tenant |
| Tenant registry (`tenants/models.py`, `services.py`, `signals.py`, `views.py`) | `Tenant`, `Domain`, credential | create, suspend, activate, domains | signals enqueue tasks | unique hostname, one primary domain |
| Tenant admin form (`tenants/admin.py`) | one transaction over tenant, user, domain, job | add tenant | dispatches the task on commit | the address is the new tenant's |
| Resolver middleware (`tenants/middleware.py`) | `domain:<host>` in the cache, 5 minutes | resolve a request | cache, registry | serves READY tenants only, on their own hosts |
| Fineract gateway (`fineract_gateway/`) | none; retries inside a call | create/delete tenant, create user | Fineract | a lost answer is not taken for "nothing happened" |
| Authentication (`authentication/`) | `LoginSession`, lockout counter, MFA secret | login, refresh, logout all, revoke tenant, purge, enrol | registry, broker | suspension and reuse end sessions, nothing else does; a lock holds |
| Dashboard (`dashboard/views.py`) | the staff member's Django session | create organization, retry, reveal password | runs the synchronous engine | a password is revealed once |
| Rate limiting (`authentication/middleware.py`) | counter in the cache | count a request | cache | the limit holds |
| Custom domains (`domains/`) | `Domain.ssl_verified` | add, verify | broker, DNS | only a resolving host is verified |
| Notifications, audit | mails, `AuditLog` | send, append | SMTP | links lead to a portal |
| Subscriptions, billing | `Subscription.status` | CRUD, nightly sweep | | the sweep finds what expired and nobody else |
| Tenant database connections (`tenants/connection_registry.py`) | `settings.DATABASES` per process | register | | uses the stored password |
| Backups, unused `provision_tenant_database_task` of `tenants/tasks.py`, settings, templates, migrations | | | | not modelled |

`PROJECT.json` lists every component with its status, and under `hazards` each place in the
code where one of these can go wrong.

## 2. Plan

Modules in the order they were written; those that exist are in bold.

1. **`TenantRegistry`** the shared rows and external systems; **`PortalContract`** the
   abstract promise of onboarding.
2. **`ProvisioningService`**, **`ProvisionTask`** the two engines, each extending
   `TenantRegistry` with its processes; **`MCProvisioning`**, **`MCTask`** their instances.
3. **`ProvisioningServiceProofs`**, **`ProvisionTaskProofs`** types, inductive invariants,
   refinement of `PortalContract`.
4. **`TenantResolver`** the resolver's cache against suspend, activate, removal and reuse of
   hosts; **`MCResolver`**, **`TenantResolverProofs`**.
5. **`AuthSessions`** rotation against logout, suspension and purge; **`LoginGuard`** lockout
   and second factor; **`RateLimiter`** one counter of the cache; **`StaleCounter`** the
   counter that the last two have in common; **`AuthSessionsProofs`**,
   **`LoginGuardProofs`**, **`StaleCounterProofs`**.
6. **`FineractCalls`** the transport of one call, implementing the abstract
   **`FineractContract`**; **`FineractCallsProofs`**.
7. **`TenantCodes`** how organizations get and lose their tenant and its code,
   **`OneTimeReveal`** the password in the session, **`SubscriptionSweep`** the nightly task.
   **`MCPlatform`** instantiates 5, 6 and 7, **`MCSessions`** the sessions of two tenants;
   **`PlatformProofs`** has the proofs of these three, of `RateLimiter`, and of the types of
   the whole.
8. Left: `ControlPlane`, both engines over one registry with suspend and activate (a run
   overwrites a suspension, `activate` opens what was never provisioned), for which the
   abstract specification would be the status graph of a tenant; the change form of the
   tenant in the admin and the gap between its check and its save; connections of
   `connection_registry.py` that keep a stale password; what the notification tasks read
   when they run.

## 3. Modules and the code

**`TenantRegistry`.** One variable per table or external system: `tenants`, `kyc`, `domains`,
`users`, `jobs`, `credentials`, `audit` (registry database), `roles`, `databases` (host
Postgres), `fineract`, and `outbox` (side-effect tasks on the broker). Text columns and
timestamps are kept as "is it set"; a password is the job whose run drew it; a database is
`registry` when its owner is the control plane's own role (the task creates it that way) and
`role` when the tenant's role owns it or was granted to. `Insertable` is the two unique
constraints of `Domain`; `OnTenantSave` is the `post_save` receiver, part of every action whose
save has a status that enqueues something. `CreateTenantRow` is `POST /tenants`: its serializer
makes both names read-only, and both columns are unique, so one such row can exist with blank
names.

**`ProvisioningService`.** `run[j]` is the request that owns job `j`: the statement it is at
(`pc`), the step in its copy of the job (`current`), the two columns its copy of the tenant
decides on, and whether Fineract failed. `swallowed` is history: a cleanup call failed and
may have left its object. `After` is the program text: the order of statements without
exceptions. Each action is one commit, one SQL statement, or one HTTP call; between any two
of them other requests run. `Raise` takes a run to the `except` branch from any statement
that can fail: because its database fails, or because it is refused in this state (role or
database exists, address in use, hostname or primary domain taken). The rollback is modelled
handler by handler: `FirstHandler` is where `reversed(order[: idx + 1])` meets the first
`_undo_` method, and `drop_all` is the two statements whose second is skipped when the first
fails. `Escape` is an exception that no handler catches (before the `try`, inside the
`except`, or the connect of `drop_all`). `Crash` kills the web worker.

**`ProvisionTask`.** `task[id]` is a Celery message with its retries: queued, executing at a
statement, over. `Delay` is `.delay()`: a message, or an exception out of the view with the
rows already committed. The five requests that dispatch are actions; the admin form is one
action with the domain inline it may carry. The message is acknowledged when the task starts,
so a killed worker loses it (`LoseWorker`); `self.retry` is `RetryTask`.

**`PortalContract`.** Which tenants are routed, open, have been opened, and which jobs told
staff so; open only what is routed, never take a route back, report only what was opened.
`TenantRegistry!Portal` instantiates it with the rows; both engines implement it.

**`TenantResolver`.** `req[r]` is a request inside `TenantResolverMiddleware.__call__`, at
the next call to Redis or the registry (`lookup`, `read_domain`, `fill`, `read_tenant`) or at
its answer. `cache` is the key `domain:<host>`: the tenant's id and the time left. A hit
reads the tenant's row again (`ReadTenant`); a miss answers from the row read together with
the domain (`ReadDomain`), after the fill, which may overwrite anything that happened in
between. `op[s]` is a suspend or activate request: `get_object`, which prefetches the
domains; then the transaction, whose save and `bust_cache` (of the prefetched hosts) happen
before its commit makes the status visible. The row is locked from the save to the commit;
readers are not blocked. `bust_cache` swallows a Redis error at any key; in the middleware
such an error leaves the request (`CacheError`). Everybody else who writes what the
middleware reads is one action each, and none of them touches the cache: registration, the
engines' saves of the status, deletion in the admin, the CRUD of domains. `Tick` is the
clock, and may pass between any two steps: nothing bounds how long a request takes from its
query to its `cache.set`. Hostnames go through `Normal`, which is what `_normalize` does to
them. History: `open`, the tenants that were READY at some time since a request arrived;
`since`, how long ago, up to `TTL`, a host and its tenant were last `Known`: a row, or what a
request that has read the row is still on its way to the cache with.

**`AuthSessions`.** A `LoginSession` row stands for its refresh token (rows are found by the
token's hash). `request[r]` is a login or refresh request before its next statement: `login`,
`revoke_all` and `invalid` (the reuse branch), `revoke` and `issue` (the rotation, which
revokes the copy it read and then inserts). `queued[t]` are `revoke_tenant_sessions` messages;
`BeginSuspend` is the save inside `suspend()`, whose receiver sends the message before
`CommitSuspend`; a worker may lose it. `LogoutAll`, `PurgeExpired` and `Expire` are the
others who write. A token whose row is purged stays `purged`: somebody may still send it.
History: `missed`, `troubled`, and in a row `rotated` and `raced`.

**`LoginGuard`.** One account. `client[c]` is a request's copy of the row: the columns a save
writes back are those of the copy (`RegisterFailedLogin` writes the count it read plus one and
the `locked_until` it read, which was NULL or past). A login that meets the lock is not an
action, since it changes nothing; a wrong second factor ends the login and counts nothing.
`EnrollMFA` replaces any secret, a confirmed one too. Two more kinds of code touch the row.
`SessionLogin` is `authenticate` of `backends.py`, behind the login pages with a Django
session: it checks the password whatever the lock says and neither counts nor resets, so it
changes nothing here. `PostUserForm` and `SaveUserForm` are the User form of the admin, whose
save writes all columns: the count, the lock and `mfa_enabled` from the form as it was
rendered or edited, the rest from the row read at the post. `Longest` is how far ahead staff
set `locked_until`. `guesses` (of `authenticate()` alone), `held` and `imposed`, the lock
staff saved last, are history. `Failures` instantiates `StaleCounter`: a login whose password
is being checked holds the count it read, a wrong password is its write, and anything that
resets `failures`, lets a lock end or saves the form starts the count again.

**`RateLimiter`.** One key: `GetCount` is `cache.get`, `SetCount` is `cache.set` with a new
life of 60 seconds, `Refuse` is 429, `Age` the clock of Redis. `Entry` instantiates
`StaleCounter` with the value of the entry; its expiry starts the count again.

**`StaleCounter`.** What the two have in common, and the abstract specification of both: a
counter raised by reading it and writing back the value read plus one, which nobody reads when
it is full. `writes` counts the values written since the count last started again. A request
has the level it would put the counter back to; `Profile` says how many are at each level or
below.

**`FineractCalls`.** `call[c]` is one call of the client: requests that only look up
(`create_tenant_user` has two), then the one with the effect, each repeated by the transport.
`AnswerLost` is any attempt without a usable answer: the request was executed, is gone, or is
`late` and executed after the client gave it up. `FineractContract` is the caller's view:
called, answered, effective; `ok` only if the call itself took effect.

**`TenantCodes`.** `creator[q]` is a request that creates an organization: in the dashboard
each statement commits by itself, in the API (`tx`) all of them at `Commit`, and an insert
waits for a transaction that holds the same unique key. `Candidates` gives the codes a name
leads to; in the instance the codes of two names overlap, as `acme` and `acme2` do. Staff add
and delete organizations, and add, change and delete tenants, in one transaction each;
`bereft` is history: the organizations that were left without a tenant by one of them, or by a
dashboard request that did not come to its end.

**`OneTimeReveal`.** Django loads the whole session with a request and saves the whole of it
when the request changed it. `page[p]` is a request and its copy; a provisioning run holds its
copy for minutes.

**`SubscriptionSweep`.** `sweep` is what the queryset of the running task has fetched and not
yet saved, `edit` a PATCH between its read and its save of all columns. `due` is the clock.

**`MCPlatform`.** The instance of the modules above. What they have in common no property
relates, so `moving` lets one of them move in each behaviour: the run is the union of their
state spaces and not the product. **`MCSessions`** is `AuthSessions` alone with two tenants,
each with a user.

Definitions named `...BestEffort`, `...Exclusive`, `...Only`, `...Nowhere`, `...IfCreated`,
`...Swallowing`, `...Anyway`, `...Late`, `...SavingAll`, `...AndTouch`, `...Again`, `...Before`,
`...AtOnce`, `...AndKeep`, `...OfActive`, `...OfAll`, `...OfContact`, `...SendingTwice`,
`RegisterOnceMore`, `RetryUncounted`, `ProvisionedAs...`, `ProvisionedUndated`,
`CheckAnyDomain`, `ServeFromCache`, `RevokeUnexpiredSessions`, `RevokeEverySession` and
`BustCacheOrFail` (`ServedLate` is an action of its own and not one of them) are plausible slips
in the definition that follows them. They are part of no specification; replacing the definition
by the slip makes the named property fail, which shows that the property says something about
the code.

## 4. Runs

In the provisioning runs, requests are bounded by the sets of jobs and task ids, and all of
them may be used up: the system then stops, so deadlock is not checked there. The resolver
runs check it. In `platform` and `sessions`, accounts, sessions and counters may be used up too.

| Run | Instance | Shows |
|---|---|---|
| `service_overlap` | 1 tenant, 2 overlapping runs, registry, Postgres and Fineract fail anywhere | types; READY has a domain; success means provisioned; a clean rollback owns nothing; each step of a run uses up work (`RunsEnd`); `RefinesPortal` |
| `service_tenants` | 2 tenants of one contact address, 2 runs, registry and Postgres fail, crashes | READY can be served; a run, its rollback included, touches nothing of the other tenant (`RunsStayApart`); the last stored password is the role's, if no cleanup was lost and no worker killed |
| `service_settles` | 1 tenant, 2 overlapping runs, fair | no tenant stays in progress |
| `task_rivals` | 1 tenant, 2 jobs, 2 messages, 1 Celery retry, 1 staff retry, a custom host | types; READY has database and primary domain; the tasks decide the status; each step of a task uses up work (`TasksEnd`); `RefinesPortal` |
| `task_settles` | the same without staff retry, fair | every dispatched task decides |
| `resolver_suspend` | 1 tenant, 2 requests, 1 operator, entries live 2 units, Redis and registry fail anywhere | types; nobody who arrives after a suspension committed is served; the cache names a tenant for a host it lost for less than the life of an entry, counted from the last moment the row was there or a fill with it on its way |
| `resolver_effect` | 1 tenant, 1 request, 2 operators, Redis fails, fair | a suspension that was begun takes effect |
| `platform` | the seven modules of `MCPlatform`, two requests of each kind in flight, every fault (399,090 states) | types; suspension and reuse end sessions; a lock holds, and guesses, time locked and requests let through are bounded; a refused client is served again; a call that is `ok` took effect and is not executed more often than answers were lost; the limiter and the lockout are stale counters (`RefinesEntry`, `RefinesFailures`); an organization has its tenant; a password is revealed once; the sweep is complete and just |
| `sessions` | 2 tenants with a user each, 2 sessions, 2 requests at a time, every fault (1,572,115 states) | a session ends only by what its own user does or a suspension of its own tenant |

Bounds. Two runs (or two tasks) are what a race needs, three what "a leftover of an earlier
retry meets a later one" needs. One tenant suffices where no row of another tenant is read; the
only statements that read across tenants are the uniqueness of e-mail addresses, hostnames and
blank names, which `service_tenants` and the custom host of `task_rivals` exercise. `MaxRetries`
is 3 in the code; 1 has every branch (a retry left, none left). For the resolver, a stale answer
needs one fill racing one change, and a second request only to overwrite the entry of the first;
2 units of life tell "the entry aged" from "it was renewed". One tenant is enough there: the age
of an entry is counted per host and tenant, and a host that is given to another tenant is one
the first has lost. In `platform` two requests are a race; three sessions are what two winners
of one token leave. It has one user, and `sessions` has two, of two tenants, for what one might
do to the other. `MaxRetries` 2 has every branch of the transport (more than one retry left,
one, none). `MaxFailures` 5 and `Limit` 5 are the code's; `LockTime` 2 and `Window` 2 tell
"renewed" from "running", and `Longest` 3 a lock that staff imposed from one that was taken. The
bounds on guesses and accepted requests are formulas of the constants: fewer than the profiles
of a counter up to 5 over two requests, (5 + 2) over 2 = 21; 20 are reached (the intended bound
is 5). `LockBounded` comes to `imposed + 2 * (LockTime - 1)`, at most 5. The
histories they bound run freely. Two registration numbers are enough for the organization that
waits for another and the one that is bereft. Jobs, task ids, requests, operators, and tenants of one contact
address are interchangeable and used as symmetry sets in the runs without liveness.

Fairness. Only the steps of a started run or a dispatched task are weakly fair: a thread that
holds no lock and waits for nothing keeps executing (every external call has a timeout), and a
Celery worker keeps taking messages. In `resolver_effect` the steps of a transaction are fair:
it waits for nothing but the lock of its row, and is past that when its save was done. Requests,
crashes and faults are never forced, and the liveness runs exclude crashes and registry
failures: with the registry gone no status can be written, and nothing in the code recovers a
run whose worker died.

### Divergences between the code and what it says

Three runs check one statement of a comment, doc string or message each, and TLC refutes it;
`PROJECT.json` quotes them under `findings`.

| Run | Statement | Counterexample |
|---|---|---|
| `service_rollback_domain` | rollback undoes each completed step | no handler for ACTIVATE: the domain stays |
| `service_registration_retry` | a failed Fineract registration can be retried later | the retry fails at the existing admin user, and the rollback drops the live database |
| `resolver_typed` | a stray difference in case, dot or space cannot cause a false "organization not found" | only the request is normalised; a host stored as typed is never found |

`CleanRollback`, `ReadyIsServable` and `CredentialSurvivesCleanRetries` state what remains
true around these: they name exactly the histories (no swallowed cleanup, no overlap, no
crash) under which the promise holds.

The other modules met more of these. They are in the models as the code has them, and the
properties say what holds all the same:

- `AuthenticationService.rotate_refresh` calls `blacklist()` on the decoded token, but the
  blacklist app is not in `INSTALLED_APPS`: refreshing an unexpired token raises (500) and
  changes nothing, an expired one does not decode and is rotated, until the purge of the
  night removes its row. The rotation settings of `SIMPLE_JWT` are read by nothing.
- "Reuse of a revoked/unknown token" is said to end all sessions; an unknown token ends none,
  and a rotation on its way when a revoked one is replayed keeps the session it then issues.
  `ReuseEndsSessions` covers the sessions there were.
- The rate limiter is called sliding-window; each accepted request restarts the window, so a
  client that never pauses is counted since it last did. `RefusalsEnd` and `AcceptedBounded`
  say what this comes to.
- The comment of the primary domain calls the task safe to re-run. One task after the other
  is; of two at a time the second fails at the insert, and may leave the tenant FAILED that
  the first made READY. `TasksDecideStatus` says what status results.
- A stale lookup is said to last `DOMAIN_CACHE_TTL` at worst. A request held up between its
  query and its `cache.set` puts a removed host back for another `TTL`, however long it was
  removed: `StalenessBounded` counts from the moment it was still on its way.
- The lock is looked at by the login of the API only. The login pages of the portal, the
  dashboard and the admin check the same password whether the account is locked or not, and
  count nothing; `GuessesBounded` and `LockHolds` are about `authenticate()` and say so. The
  User form of the admin writes the count and the lock back as they were when it was rendered.
- Failed logins in parallel are counted once, and the last of them may lift a lock just
  taken (`GuessesBounded`, `LockHolds`). A wrong second factor is not counted. Enrolling
  again replaces a confirmed secret.
- The one-time reveal shows a password twice when a retry that fails had loaded the session
  before the page took it out, and shows none when the run is overtaken by another save of
  the session; the page of one tenant may show the password of another.
- The transport repeats POSTs, those that move money included: `ExecutionsAccounted` bounds
  how often one is executed by the answers that were lost. A read timeout surfaces, after
  the retries, as a connection error and not as `FineractTimeoutError`.
- A dashboard request that loses its code to another one, or dies, leaves an organization
  without a tenant, whose registration number cannot be registered again until staff delete
  it. The admin adds organizations without a tenant, too.

## 5. Proofs

`ProvisioningServiceProofs` proves, for any sets of tenants, jobs and addresses, any faults
and, but for two theorems, any overlap, from `RegistryAssumption` only:

- `TypeCorrect`: `ServiceSpec => []ServiceTypeOK`
- `ReadyTenantsAreRouted`: `ServiceSpec => []ReadyHasPrimaryDomain`
- `SuccessfulJobsProvisioned`: `ServiceSpec => []SuccessMeansProvisioned`
- `ServiceImplementsPortal`: `ServiceSpec => RefinesPortal`
- `RollbacksUndo`: `ServiceSpec => []CleanRollback`
- `TenantsStayApart`: `ServiceSpec => RunsStayApart`
- `RunsTerminate`: `ServiceSpec => RunsEnd`, and `Work(j)` is always in `0 .. 38`
- `ReadyTenantsAreServable` and `CleanRetriesKeepCredential`: if `~ Overlap`, then
  `ServiceSpec => []` of `ReadyIsServable` and of `CredentialSurvivesCleanRetries`

None of the safety properties is inductive. `ReadyHasPrimaryDomain` needs to know that a run
which is about to set READY has its domain, whoever removed or rolled back what in between
(`Achieved`); that needs every running job to have a tenant whose row exists (`Owned`), or a
new organization could blank the row under a run. `IInv` is the conjunction. The argument is
in three layers: the types (one lemma per kind of statement); `FrameStep`, `HiddenStep`,
`ClosingStep` and `OpeningStep`, which say of every action which rows it may move and what of
it is seen at the portal; and from these alone, without opening an action again, the
invariant (`RunPortals`) and the simulation (`RunSimulates`): CreatePrimaryDomain is `Route`,
SetReady is `Open`, FinishJob is `Report`, RecordFailure is `Withdraw`, BeginRun,
SetInitializing and MarkFailed are `Close`, and everything else is a stutter.

`RollbacksUndo` and the two about `~ Overlap` depend on the history of every run of a tenant.
`RollbackInv` gives everything a tenant owns a run that answers for it (`Accountable`): one that
will still undo it, or did not roll back cleanly. `StepKnown` is why a run that fails undoes
enough: its copy of the job names a step whose rollback covers what it has done, also when the
failing statement is the save of the step itself. Runs overlap freely in it: a run that finds
the role of another one takes it over when it rolls back.

`OneByOne` is about runs that follow each other. `Stands` says what is there while the only
run of a tenant is at a statement, so a READY tenant is `Up`. `Keyed` follows the password: it
is the one this run drew, or the organization's address is still in use by the first user
(`Claimed`), and then the run fails at the creation of the user before it can say READY.
`Fits` is what is left between two runs: no role, or one whose password is stored. A run that
died or lost a cleanup may leave less, which is why only `ReadyIsServable` holds after those.

`TenantsStayApart` looks at every step of a run for what it does to another tenant: most
write at `T(j)` only, an insert of a user needs its address to be free, and the rollback
deletes the users whose tenant is `T(j)`. A request that starts a run or adds a tenant changes
no row that exists. Only the types are needed besides.

`RunsTerminate` is the part of termination that needs no fairness: `Left` numbers the
statements so that every jump of the program, into the rollback and within it, goes down, and
only the save of the identifier, which its own `except` branch repeats, is counted twice.
With it, `TenantSettles` needs of a run only that it keeps executing, and that the statement
it ends with has left a status.

`TenantResolverProofs` proves, for any sets of tenants, hosts, requests and operators, any
`TTL`, any function `Normal` and any faults, from `RegistryAssumption` and
`ResolverAssumption` only:

- `ResolverTypeCorrect`: `ResolverSpec => []ResolverTypeOK`
- `SuspensionIsImmediate`: `ResolverSpec => []ServedWhileReady`
- `StalenessIsBounded`: `ResolverSpec => []StalenessBounded`

The invariant is `ResolverInv`. `Watched` carries the first property: a request on its way has
seen every tenant that is READY now, because each step that opens one (`Witness`) says so, and a
fill that will answer `served` keeps what it read. The second is an account of time: a row that
is there has age 0 (`RowsAreFresh`), and so has what a request is on its way to the cache with,
although the row may be gone since and any time may pass (`RequestsAreFresh`: it is `Known`, and
a tick ages nothing that is); and for every entry the age of its host plus the time left is at
most `TTL` (`EntriesAge`), which a tick keeps by moving a unit from one to the other.

`ProvisionTaskProofs` proves, for any sets of tenants, jobs and messages, any `MaxRetries` and
any faults, from `RegistryAssumption` and `TaskAssumption` only:

- `TaskTypeCorrect`, `ReadyTenantsHaveDatabases`, `ReadyTenantsAreReachable`,
  `SuccessfulTasksProvisioned`, `TenantsEndAsTasksSay`: `TaskSpec => []` of `TaskTypeOK`,
  `ReadyHasDatabase`, `ReadyHasPrimaryDomain`, `SuccessMeansProvisioned`, `TasksDecideStatus`
- `TaskImplementsPortal`: `TaskSpec => RefinesPortal`
- `TasksTerminate`: `TaskSpec => TasksEnd`, and `Work(id)` is always a natural number: the
  statements left in this attempt, and 14 for each retry that is left

The invariant `TaskInv` adds three things to these. `Owned`: jobs have a tenant whose row
exists, messages a job, and what does not exist is blank. `Achieved`: what a task has done
when it is at a statement, which no other task undoes. `LastWriter`: while all tasks of a
tenant are past `set_ready`, or all past `mark_failed`, its status says so; this is
`TasksDecideStatus` before the tasks are over, and rival tasks write their status in any order
under it. Of every task step it is shown that it moves its own state, its job's row and its
tenant's rows only (`TaskMoves`, with what it earned and kept), of every request that it
leaves tasks and opened tenants alone (`RequestMoves`); the invariant and the simulation
follow from that.

`AuthSessionsProofs`, for any users, tenants, number of sessions and requests, and any faults:
`SuspensionRevokes`, `ReuseRevokes`, `NobodyElseIsLoggedOut`. The invariant `SessionsInv`
follows each request between its read and its write. `RequestsSettled`: what may still issue a
session and is not marked `raced` began while no suspension of the tenant was going on.
`RowsAnnounced`: a live session that is not `raced`, of a tenant that is being or was
suspended, has its revocation on the way, or lost. `BeforeKnown` and `TokensKnown`: the rows a
request has seen are still those of its user. `ReusersTroubled` and `SuspendedTroubled`:
whoever is about to lose all sessions gave a reason.

`FineractCallsProofs`, for any calls and any number of retries: `EveryExecutionIsAccounted`
(inductive with the types), `CallsImplementContract`, where Begin is `Make`, an execution is
`TakeEffect`, any other answer is `Answer`, and lookups, lost attempts and discarded late
requests are stutters; and `CallsAreServedOnce`: a call that is `ok` was executed, and where no
answer was lost it was executed exactly once, and a failed one not at all.

`StaleCounterProofs`, for any limit above 0 and any finite set of requests:
`WritesAreBounded`, `CounterSpec => []WritesBounded`. That a bound exists is not obvious: a
late request sets the counter back, others read the old value, and so on. The argument is an
order on profiles: compare two of them from the lowest level up, and the one with the smaller
entry is the later one (`Before`). A write takes its request out of the level `k` where it
stood and brings nobody to `k` or below, so the profile gets later (`WriteAdvances`); reading
and dropping never make it earlier (`OthersKeep`). `Rank` is how many profiles there are
before it, and `writes <= Rank(Profile)` (`WritesRanked`) is the inductive invariant:
`WritesBounded` alone is not. `OneAtATime` is the sanity check of the bound: with one request
(`ProfilesOfOne`) it is `writes <= Full`, what the code intends.

`PlatformProofs` and `LoginGuardProofs` carry this to the code, for any finite set of workers:
`LimiterRefines` (`LimiterSpec => RefinesEntry`) and `GuardRefines` (`GuardSpec =>
RefinesFailures`) show that each is a stale counter step by step, so `AcceptedAreBounded` and
`GuessesAreBounded` follow, and `OneWorkerKeepsTheLimit` and `OneWorkerCountsEveryGuess` with
them. The finiteness is `LimiterAssumption` and `GuardAssumption`: a server has finitely many
workers, and without it there is no bound.

`LoginGuardProofs` besides: `LocksHold`, as an action property that needs only the types, and
`LocksEnd` (`GuardSpec => []LockBounded`). Its invariant `LockBudget` is an account: the time
the account has been locked, the time that is left of the lock, and a lock's time for each
login on its way that could still renew it, together never exceed the lock staff imposed and
the bound; no login gets on its way while the lock is there. All of these are about the
passwords that `authenticate()` tries: nothing bounds those tried at the other login pages.

`PlatformProofs` besides: `RefusedClientsAreServedAgain`, for any limit, window and callers
(the entry's life and the time since the last accepted request add up to the window or less);
`SweepsCatchUp` and `NobodyIsPunished` (with `SweptDeserved`: what the task
holds has expired or was saved since), `OrganizationsGetTenants` (with `PendingFree`: the
uncommitted tenant of a transaction keeps its code free of other rows; `StaffMoves` is what
every action of staff in the admin has in common), `RevealsOnce` (with
`NotDrawn`: a password that was not drawn is nowhere; and `OnePlace`: one that no two requests
ever had is with the run that draws it, in the session and at most one copy of it, or shown).
All for any sets of rows, requests and passwords.

It ends with `PlatformTypeCorrect` (`PlatformSpec => []PlatformTypeOK`). Its lemma
`PlatformImplements`, that `PlatformSpec` implies the specification of each component, is a
matter of how the instance is put together and says nothing about the code.

Only model-checked: the liveness properties `TenantSettles`, `QueuedTaskSettles` and
`SuspendTakesEffect`, which are out of the prover's reach; `RunsTerminate` and
`TasksTerminate` prove the half of the first two that does not need fairness. Every other
property of a run that passes is a theorem. Not proved either is the closed form of the number
of profiles, (`Full` + n) over n for n requests: it needs an induction over the limit. The
bound is therefore stated as the number itself, and TLC evaluates it.

## 6. Abstractions

- A commit is atomic and is either done or raised; "committed, but the connection failed
  before the acknowledgement" is not modelled for Postgres (it is for Fineract).
- `EncryptedCredential.get_or_create` followed by `save` is one action: nothing reads the
  row in between.
- The in-memory copies keep only the columns the code decides on. All saves of the tenant in
  the engines and services name their `update_fields`, so no other column is written back;
  the change form of the tenant in the admin writes all of them, of which `TenantCodes`
  has the organization and the code.
- In the provisioning modules tenant codes are distinct by construction; `TenantCodes` is
  about how they become so.
- In `ProvisioningService` one Fineract call is one action, including the retries of its
  transport; a call that is not answered may have been applied, but not later than the end of
  the call. `FineractCalls` also has requests that Fineract executes after that.
- In the provisioning modules the clock is not modelled: countdowns and timeouts may happen
  at any time. In `TenantResolver` it is; what the provisioning engines do between two saves
  of the status is left to their own modules.
- The exempt hosts and paths of the middleware reach neither cache nor registry and are left
  out. So is the verification of a custom host: `ssl_verified` is read by nothing.
- In `AuthSessions` tokens do not repeat and access tokens are not modelled: they carry no
  state in the registry and stay valid until they expire, whatever happens to the session.
- In `LoginGuard` a code is the secret it was computed from; drift and replay inside the 30
  seconds of a code are left out. Counts from `MaxFailures` on are one value: all of them lock.
- `guesses`, `held`, `accepted`, `shown`, `raced`, `shared` and the like are history: no guard
  reads them.

## 7. Not modelled

- API keys: created and listed by `authentication/views.py`; nothing checks one.
- Portal: a redirect and a login form, whose Django session is not modelled. Billing: tables
  without operations. Settings, deployment, templates, migrations: configuration and generated
  code.
- Backups call `pg_dump` and keep no state; the provisioning task of `tenants/tasks.py` is
  dispatched by nothing.
- `connection_registry.py` keeps, per process, the password a connection was registered with;
  no view or task of this code opens such a connection.
- Workers of the notification and audit tasks: they send or append, and nothing reads it.
- The other columns of an organization, its registration number included, and of a tenant in
  the change form; deletion of users in the admin; moving a user to another tenant there; the
  admin forms of sessions (which may undo a revocation), of API keys and of subscriptions
  (which writes all columns, as a PATCH does); listing views.
