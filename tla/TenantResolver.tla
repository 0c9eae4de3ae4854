--------------------------- MODULE TenantResolver ---------------------------
(***************************************************************************)
(* TenantResolverMiddleware, which finds the tenant of a request by its     *)
(* Host header through a cache in Redis, against everything that changes    *)
(* the rows it reads: TenantService.suspend() and activate(), the domain    *)
(* CRUD of staff and tenants, deletion in the admin, and the saves of the   *)
(* provisioning engines.  Each action is one call to Redis, one query, or   *)
(* one commit.                                                              *)
(***************************************************************************)
EXTENDS TenantRegistry

CONSTANTS
  Normal,      \* _normalize, from hostnames as typed to hostnames as looked up
  Requests,    \* requests in flight at the same time
  Operators,   \* staff who suspend or activate at the same time
  TTL,         \* DOMAIN_CACHE_TTL, in ticks of the clock
  RedisFails   \* Redis may be unreachable for any call

ASSUME ResolverAssumption ==
  /\ Normal \in [Hostnames -> Hostnames]
  /\ Hostnames # {}
  /\ TTL \in Nat \ {0}
  /\ RedisFails \in BOOLEAN

VARIABLES
  deleted,     \* tenants whose row was deleted; their primary key is never used again
  cache,       \* domain:<host> in Redis: a tenant and the time it has left
  req,         \* a request on its way through the middleware
  op,          \* a suspend or activate request that has not committed
  since        \* history: the time since a host last was a Domain row of a tenant, or a
               \* request was on its way to the cache with such a row

resolverVars == <<registryVars, externalVars, deleted, cache, req, op, since>>

\* What this module reads and writes of the registry is tenants, domains, audit, outbox.
onboarding == <<kyc, users, jobs, credentials, roles, databases, fineract>>

Answers == {"served", "suspended", "not_ready", "not_found", "error"}

\* open is history: the tenants that were READY at some time since the request arrived.
Request == [pc : {"idle", "lookup", "read_domain", "fill", "read_tenant"} \cup Answers,
            host : Hostnames, tenant : Tenants \cup {Nobody}, answer : Answers,
            open : SUBSET Tenants]

Idle == [pc |-> "idle", host |-> CHOOSE h \in Hostnames : TRUE, tenant |-> Nobody,
         answer |-> "error", open |-> {}]

Entry == [tenant : Tenants \cup {Nobody}, left : 0..TTL]
Miss == [tenant |-> Nobody, left |-> 0]

\* hosts are the domains of the tenant, prefetched with it before the transaction begins.
Transaction == [pc : {"idle", "update", "bust", "commit"}, kind : {"suspend", "activate"},
                tenant : Tenants \cup {Nobody}, hosts : SUBSET Hostnames]

NoTransaction == [pc |-> "idle", kind |-> "suspend", tenant |-> Nobody, hosts |-> {}]

Owners(rows) == {<<d.hostname, d.tenant>> : d \in rows}

ResolverTypeOK ==
  /\ RegistryTypeOK /\ deleted \in SUBSET Tenants
  /\ cache \in [Hostnames -> Entry]
  /\ req \in [Requests -> Request]
  /\ op \in [Operators -> Transaction]
  /\ since \in [Hostnames \X Tenants -> 0..TTL]

ResolverInit ==
  /\ RegistryInit
  /\ deleted = {}
  /\ cache = [h \in Hostnames |-> Miss]
  /\ req = [r \in Requests |-> Idle]
  /\ op = [s \in Operators |-> NoTransaction]
  /\ since = [p \in Hostnames \X Tenants |-> TTL]

\* What the rows say, and what a request that has read a row is about to say in the cache.
Known == Owners(domains) \cup
         {<<req[r].host, req[r].tenant>> : r \in {q \in Requests : req[q].pc = "fill"}}

\* The row is locked from the UPDATE of a transaction to its commit.
Locked(t) == \E s \in Operators : op[s].pc \in {"bust", "commit"} /\ op[s].tenant = t

\* Every request on its way now had its chance to find t READY.
Witness(t) ==
  req' = [r \in Requests |->
            IF req[r].pc = "idle" THEN req[r] ELSE [req[r] EXCEPT !.open = @ \cup {t}]]

-----------------------------------------------------------------------------
(* TenantResolverMiddleware.__call__                                        *)

\* The status check, made on the row read last.
Answer(t) ==
  CASE ~ tenants[t].exists             -> "not_found"
    [] tenants[t].status = "SUSPENDED" -> "suspended"
    [] tenants[t].status = "READY"     -> "served"
    [] OTHER                           -> "not_ready"

Arrive(r, h) ==
  /\ req[r].pc = "idle"
  /\ req' = [req EXCEPT ![r].pc = "lookup", ![r].host = Normal[h],
                        ![r].open = {t \in Tenants : tenants[t].status = "READY"}]
  /\ UNCHANGED <<registryVars, externalVars, deleted, cache, op, since>>

CacheGet(r) ==
  /\ req[r].pc = "lookup"
  /\ \/ /\ cache[req[r].host].left = 0
        /\ req' = [req EXCEPT ![r].pc = "read_domain"]
     \/ /\ cache[req[r].host].left > 0
        /\ req' = [req EXCEPT ![r].pc = "read_tenant",
                              ![r].tenant = cache[req[r].host].tenant]
  /\ UNCHANGED <<registryVars, externalVars, deleted, cache, op, since>>

\* The Domain row and its tenant are read by one query.
ReadDomain(r) ==
  /\ req[r].pc = "read_domain"
  /\ \/ \E d \in domains :
          /\ d.hostname = req[r].host
          /\ req' = [req EXCEPT ![r].pc = "fill", ![r].tenant = d.tenant,
                                ![r].answer = Answer(d.tenant)]
     \/ /\ \A d \in domains : d.hostname # req[r].host
        /\ req' = [req EXCEPT ![r].pc = "not_found"]
  /\ UNCHANGED <<registryVars, externalVars, deleted, cache, op, since>>

FillCache(r) ==
  /\ req[r].pc = "fill"
  /\ cache' = [cache EXCEPT ![req[r].host] = [tenant |-> req[r].tenant, left |-> TTL]]
  /\ req' = [req EXCEPT ![r].pc = req[r].answer]
  /\ UNCHANGED <<registryVars, externalVars, deleted, op, since>>

\* Slips: trusting the cached tenant without reading its status again, as an earlier
\* version of the middleware did, and renewing the entry on every hit.
ServeFromCache(r) ==
  /\ req[r].pc = "read_tenant"
  /\ req' = [req EXCEPT ![r].pc = "served"]
  /\ UNCHANGED <<registryVars, externalVars, deleted, cache, op, since>>

ReadTenantAndTouch(r) ==
  /\ req[r].pc = "read_tenant"
  /\ req' = [req EXCEPT ![r].pc = Answer(req[r].tenant)]
  /\ cache' = [cache EXCEPT ![req[r].host] = [tenant |-> req[r].tenant, left |-> TTL]]
  /\ UNCHANGED <<registryVars, externalVars, deleted, op, since>>

ReadTenant(r) ==
  /\ req[r].pc = "read_tenant"
  /\ req' = [req EXCEPT ![r].pc = Answer(req[r].tenant)]
  /\ UNCHANGED <<registryVars, externalVars, deleted, cache, op, since>>

\* A call to Redis that raises leaves the middleware.
CacheError(r) ==
  /\ RedisFails /\ req[r].pc \in {"lookup", "fill"}
  /\ req' = [req EXCEPT ![r].pc = "error"]
  /\ UNCHANGED <<registryVars, externalVars, deleted, cache, op, since>>

Return(r) ==
  /\ req[r].pc \in Answers
  /\ req' = [req EXCEPT ![r] = Idle]
  /\ UNCHANGED <<registryVars, externalVars, deleted, cache, op, since>>

-----------------------------------------------------------------------------
(* TenantService.suspend and activate.                                      *)

GetObject(s, kind, t) ==
  /\ op[s].pc = "idle" /\ tenants[t].exists
  /\ op' = [op EXCEPT ![s] = [pc |-> "update", kind |-> kind, tenant |-> t,
                              hosts |-> {h \in Hostnames : <<h, t>> \in Owners(domains)}]]
  /\ UNCHANGED <<registryVars, externalVars, deleted, cache, req, since>>

\* The UPDATE, seen by nobody yet, and the receiver it calls, which enqueues at once.
Update(s) ==
  /\ op[s].pc = "update"
  /\ tenants[op[s].tenant].exists /\ ~ Locked(op[s].tenant)
  /\ op' = [op EXCEPT ![s].pc = "bust"]
  /\ OnTenantSave(op[s].tenant, IF op[s].kind = "suspend" THEN "SUSPENDED" ELSE "READY")
  /\ UNCHANGED <<registryVars, roles, databases, fineract, deleted, cache, req, since>>

\* A slip: bust_cache without its except branch, which rolls the transaction back.
BustCacheOrFail(s) ==
  /\ op[s].pc = "bust"
  /\ \/ /\ cache' = [h \in Hostnames |->
                       IF h \in op[s].hosts THEN Miss ELSE cache[h]]
        /\ op' = [op EXCEPT ![s].pc = "commit"]
     \/ /\ RedisFails
        /\ op' = [op EXCEPT ![s] = NoTransaction]
        /\ UNCHANGED cache
  /\ UNCHANGED <<registryVars, externalVars, deleted, req, since>>

\* Redis may fail after any number of the keys; the error is swallowed.
BustCache(s) ==
  /\ op[s].pc = "bust"
  /\ \E kept \in SUBSET Hostnames :
       /\ kept # {} => RedisFails
       /\ cache' = [h \in Hostnames |->
                      IF h \in op[s].hosts \ kept THEN Miss ELSE cache[h]]
  /\ op' = [op EXCEPT ![s].pc = "commit"]
  /\ UNCHANGED <<registryVars, externalVars, deleted, req, since>>

CommitSuspend(s) ==
  /\ op[s].pc = "commit" /\ op[s].kind = "suspend"
  /\ tenants' = [tenants EXCEPT ![op[s].tenant].status = "SUSPENDED",
                                ![op[s].tenant].suspended_at = TRUE]
  /\ audit' = audit \cup {<<"TENANT_SUSPENDED", op[s].tenant>>}
  /\ op' = [op EXCEPT ![s] = NoTransaction]
  /\ UNCHANGED <<onboarding, domains, outbox, deleted, cache, req, since>>

CommitActivate(s) ==
  /\ op[s].pc = "commit" /\ op[s].kind = "activate"
  /\ tenants' = [tenants EXCEPT ![op[s].tenant].status = "READY",
                                ![op[s].tenant].is_active = TRUE,
                                ![op[s].tenant].suspended_at = FALSE]
  /\ audit' = audit \cup {<<"TENANT_ACTIVATED", op[s].tenant>>}
  /\ op' = [op EXCEPT ![s] = NoTransaction]
  /\ Witness(op[s].tenant)
  /\ UNCHANGED <<onboarding, domains, outbox, deleted, cache, since>>

\* A statement or the commit fails, or the row is gone when save() updates it: nothing was
\* written, but what the receiver enqueued stays enqueued.
Abort(s) ==
  /\ \/ "registry" \in Faults /\ op[s].pc # "idle"
     \/ op[s].pc = "update" /\ ~ tenants[op[s].tenant].exists
  /\ op' = [op EXCEPT ![s] = NoTransaction]
  /\ UNCHANGED <<registryVars, externalVars, deleted, cache, req, since>>

-----------------------------------------------------------------------------
(* The other writers.  None of them touches the cache.                      *)

Register(t) ==
  /\ ~ tenants[t].exists /\ t \notin deleted
  /\ tenants' = [tenants EXCEPT ![t] = NewTenant(TRUE)]
  /\ UNCHANGED <<onboarding, domains, audit, outbox, deleted, cache, req, op, since>>

\* What the provisioning engines save; their other steps are in modules of their own.
EngineOpens(t) ==
  /\ tenants[t].exists /\ ~ Locked(t)
  /\ tenants' = [tenants EXCEPT ![t] = Provisioned(@)]
  /\ OnTenantSave(t, "READY")
  /\ Witness(t)
  /\ UNCHANGED <<onboarding, domains, audit, deleted, cache, op, since>>

\* PROVISIONING and INITIALIZING, which they save on the way, are answered like FAILED.
EngineCloses(t) ==
  /\ tenants[t].exists /\ ~ Locked(t)
  /\ tenants' = [tenants EXCEPT ![t].status = "FAILED"]
  /\ UNCHANGED <<onboarding, domains, audit, outbox, deleted, cache, req, op, since>>

\* The domain rows become rows.
WriteDomains(rows) ==
  /\ domains' = rows
  /\ since' = [p \in Hostnames \X Tenants |-> IF p \in Owners(rows) THEN 0 ELSE since[p]]
  /\ UNCHANGED <<onboarding, tenants, audit, outbox, deleted, cache, req, op>>

\* DomainViewSet, the domain admin, add_custom_domain, the engines.
AddDomain(d) ==
  /\ tenants[d.tenant].exists /\ Insertable(d)
  /\ WriteDomains(domains \cup {d})

RemoveDomain(d) ==
  /\ d \in domains
  /\ WriteDomains(domains \ {d})

ChangeDomain(d, e) ==
  /\ d \in domains /\ d # e /\ tenants[e.tenant].exists
  /\ \A f \in domains \ {d} :
       f.hostname # e.hostname /\ ~ (f.tenant = e.tenant /\ f.is_primary /\ e.is_primary)
  /\ WriteDomains((domains \ {d}) \cup {e})

\* The row goes, and with it the rows that refer to it.
DeleteTenant(t) ==
  /\ tenants[t].exists /\ ~ Locked(t)
  /\ tenants' = [tenants EXCEPT ![t] = [NewTenant(FALSE) EXCEPT !.exists = FALSE]]
  /\ domains' = {d \in domains : d.tenant # t}
  /\ users' = [e \in Emails |-> IF users[e] = t THEN Nobody ELSE users[e]]
  /\ jobs' = [j \in Jobs |-> IF jobs[j].tenant = t THEN NewJob(Nobody) ELSE jobs[j]]
  /\ credentials' = [credentials EXCEPT ![t] = NoPassword]
  /\ deleted' = deleted \cup {t}
  /\ UNCHANGED <<kyc, audit, externalVars, cache, req, op, since>>

\* Time passes, whatever requests and transactions are on their way: nothing bounds the
\* time between the query of a request and its cache.set.
Tick ==
  /\ cache' = [h \in Hostnames |-> IF cache[h].left \in {0, 1} THEN Miss
                                   ELSE [cache[h] EXCEPT !.left = @ - 1]]
  /\ since' = [p \in Hostnames \X Tenants |->
                 IF p \in Known THEN 0
                 ELSE IF since[p] < TTL THEN since[p] + 1 ELSE TTL]
  /\ UNCHANGED <<registryVars, externalVars, deleted, req, op>>

-----------------------------------------------------------------------------
Middleware(r) == \/ CacheGet(r) \/ ReadDomain(r) \/ FillCache(r) \/ ReadTenant(r)
                 \/ CacheError(r) \/ Return(r)

TransactionStep(s) ==
  Update(s) \/ BustCache(s) \/ CommitSuspend(s) \/ CommitActivate(s) \/ Abort(s)

Write == \/ \E t \in Tenants : Register(t) \/ EngineOpens(t) \/ EngineCloses(t)
                               \/ DeleteTenant(t)
         \/ \E d \in Domain : AddDomain(d) \/ RemoveDomain(d)
         \/ \E d \in domains, e \in Domain : ChangeDomain(d, e)

ResolverNext ==
  \/ \E r \in Requests, h \in Hostnames : Arrive(r, h)
  \/ \E r \in Requests : Middleware(r)
  \/ \E s \in Operators, t \in Tenants, kind \in {"suspend", "activate"} : GetObject(s, kind, t)
  \/ \E s \in Operators : TransactionStep(s)
  \/ Write
  \/ Tick

ResolverSpec == ResolverInit /\ [][ResolverNext]_resolverVars

\* A transaction that has begun goes on to its end.
FairResolverSpec ==
  ResolverSpec /\ \A s \in Operators : WF_resolverVars(TransactionStep(s))

-----------------------------------------------------------------------------
\* No request that arrives after a suspension has committed is served, whatever the cache
\* still holds: a served tenant was READY at some moment since the request arrived.
ServedWhileReady ==
  \A r \in Requests : req[r].pc = "served" => req[r].tenant \in req[r].open

\* "Worst case here is a stale cached domain lookup for up to DOMAIN_CACHE_TTL": the cache
\* names a tenant for a host only if the host was that tenant's within the last TTL, or a
\* request that had read it so was still filling the cache then.  No change of a domain
\* touches the cache, fills race with changes, and a fill may take any time.
StalenessBounded ==
  [][\A r \in Requests :
       req[r].pc = "lookup" /\ req'[r].pc = "read_tenant" =>
         since[<<req[r].host, req'[r].tenant>>] < TTL]_resolverVars

\* A cache that is down "must never roll back the actual status change": a suspension that
\* was begun takes effect.
SuspendTakesEffect ==
  \A s \in Operators, t \in Tenants :
    op[s].pc = "bust" /\ op[s].kind = "suspend" /\ op[s].tenant = t
      ~> tenants[t].status = "SUSPENDED"

\* "so a stray difference in any of those can't cause a false organization not found": a
\* host is not found only if no Domain row has that name up to case, dots and spaces.
NoFalseNotFound ==
  [][\A r \in Requests :
       req[r].pc = "read_domain" /\ req'[r].pc = "not_found" =>
         \A d \in domains : Normal[d.hostname] # req[r].host]_resolverVars
=============================================================================
