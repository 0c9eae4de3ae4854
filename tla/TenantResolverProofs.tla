------------------------ MODULE TenantResolverProofs ------------------------
(***************************************************************************)
(* Proofs about TenantResolver, for any sets of tenants, hosts, requests    *)
(* and operators, any lifetime of a cache entry, and any faults.           *)
(***************************************************************************)
EXTENDS TenantResolver, TLAPS

\* What is known of the tenants that were READY while a request is on its way: it has
\* seen all that are, and the one it is about to be served for.
Watched ==
  \A r \in Requests :
    /\ req[r].pc # "idle" =>
         \A t \in Tenants : tenants[t].status = "READY" => t \in req[r].open
    /\ req[r].pc = "fill" /\ req[r].answer = "served" => req[r].tenant \in req[r].open
    /\ req[r].pc = "served" => req[r].tenant \in req[r].open

\* How old what is known of a host may be: nothing while the row is there, nothing while a
\* request is on its way to the cache with it, and then the time its entry has used up.
RowsAreFresh == \A p \in Owners(domains) : since[p] = 0

EntriesAge ==
  \A h \in Hostnames : cache[h].left > 0 =>
    /\ cache[h].tenant \in Tenants
    /\ since[<<h, cache[h].tenant>>] + cache[h].left <= TTL

RequestsAreFresh ==
  \A r \in Requests :
    /\ req[r].pc = "fill" =>
         req[r].tenant \in Tenants /\ since[<<req[r].host, req[r].tenant>>] = 0
    /\ req[r].pc \in {"read_tenant", "served"} => req[r].tenant \in Tenants

\* A transaction that has begun is one on a tenant.
Targeted == \A s \in Operators : op[s].pc # "idle" => op[s].tenant \in Tenants

ResolverInv ==
  ResolverTypeOK /\ Targeted /\ Watched /\ RowsAreFresh /\ EntriesAge /\ RequestsAreFresh

-----------------------------------------------------------------------------
\* The blank request is a request.
LEMMA IdleType ==
  Idle \in Request /\ NoTransaction \in Transaction /\ Miss \in Entry
  <1>1. (CHOOSE h \in Hostnames : TRUE) \in Hostnames
    BY ResolverAssumption
  <1>2. QED
    BY <1>1, ResolverAssumption DEF Idle, Request, Answers, NoTransaction, Transaction, Miss, Entry

\* The status check gives one of the answers, and only a READY tenant is served.
LEMMA AnswerType ==
  ASSUME NEW t \in Tenants
  PROVE  Answer(t) \in Answers \ {"error"} /\ (Answer(t) = "served" => tenants[t].status = "READY")
  BY DEF Answer, Answers

\* The receiver enqueues tasks and nothing else.
LEMMA ReceiverType ==
  ASSUME outbox \in Enqueued, NEW t \in Tenants, NEW status \in {"READY", "SUSPENDED"},
         OnTenantSave(t, status)
  PROVE  outbox' \in Enqueued
  BY DEF OnTenantSave, BestEffort, Enqueued, CeleryTask

\* The rows the engines, staff and the admin write are rows.
LEMMA RowTypes ==
  /\ NewTenant(TRUE) \in TenantRow
  /\ [NewTenant(FALSE) EXCEPT !.exists = FALSE] \in TenantRow
  /\ \A row \in TenantRow :
       /\ Provisioned(row) \in TenantRow
       /\ [row EXCEPT !.status = "SUSPENDED", !.suspended_at = TRUE] \in TenantRow
       /\ [row EXCEPT !.status = "READY", !.is_active = TRUE, !.suspended_at = FALSE]
            \in TenantRow
  BY DEF NewTenant, TenantRow, Status, Provisioned

\* A request that goes on with a tenant it found is a request, and an entry that ages is
\* an entry.
LEMMA RecordTypes ==
  /\ \A q \in Request, h \in Hostnames, ready \in SUBSET Tenants :
       [q EXCEPT !.pc = "lookup", !.host = h, !.open = ready] \in Request
  /\ \A q \in Request, t \in Tenants \cup {Nobody} :
       [q EXCEPT !.pc = "read_tenant", !.tenant = t] \in Request
  /\ \A q \in Request, t \in Tenants, a \in Answers :
       [q EXCEPT !.pc = "fill", !.tenant = t, !.answer = a] \in Request
  /\ \A q \in Request, a \in Answers : [q EXCEPT !.pc = a] \in Request
  /\ \A e \in Entry : e.left \notin {0, 1} => [e EXCEPT !.left = e.left - 1] \in Entry
  <1>1. \A q \in Request, h \in Hostnames, ready \in SUBSET Tenants :
          [q EXCEPT !.pc = "lookup", !.host = h, !.open = ready] \in Request
    BY DEF Request
  <1>2. \A q \in Request, t \in Tenants \cup {Nobody} :
          [q EXCEPT !.pc = "read_tenant", !.tenant = t] \in Request
    BY DEF Request
  <1>3. \A q \in Request, t \in Tenants, a \in Answers :
          [q EXCEPT !.pc = "fill", !.tenant = t, !.answer = a] \in Request
    BY DEF Request
  <1>4. \A e \in Entry : e.left \notin {0, 1} => [e EXCEPT !.left = e.left - 1] \in Entry
    BY ResolverAssumption DEF Entry
  <1>5. \A q \in Request, a \in Answers : [q EXCEPT !.pc = a] \in Request
    BY DEF Request
  <1>6. QED
    BY <1>1, <1>2, <1>3, <1>4, <1>5

\* A request that is answered is a request.
LEMMA AnsweredType ==
  ASSUME req \in [Requests -> Request], NEW r \in Requests, NEW a \in Answers,
         req' = [req EXCEPT ![r].pc = a]
  PROVE  req' \in [Requests -> Request]
  <1>1. [req[r] EXCEPT !.pc = a] \in Request
    BY RecordTypes
  <1>2. req' = [req EXCEPT ![r] = [req[r] EXCEPT !.pc = a]]
    OBVIOUS
  <1>3. QED
    BY <1>1, <1>2

-----------------------------------------------------------------------------
\* The initial state satisfies the invariant.
LEMMA InitResolverInv == ResolverInit => ResolverInv
  <1> SUFFICES ASSUME ResolverInit PROVE ResolverInv
    OBVIOUS
  <1>1. RegistryTypeOK
    <2>1. [NewTenant(FALSE) EXCEPT !.exists = FALSE] \in TenantRow
      BY RowTypes
    <2>2. tenants \in TenantTable /\ kyc \in [Tenants -> BOOLEAN] /\ domains \in SUBSET Domain
      BY <2>1 DEF ResolverInit, RegistryInit, TenantTable
    <2>3. users \in UserTable /\ credentials \in Passwords /\ roles \in Passwords
      BY DEF ResolverInit, RegistryInit, UserTable, Passwords
    <2>4. jobs \in JobTable
      BY DEF ResolverInit, RegistryInit, JobTable, JobRow, NewJob, Steps, StepOrder
    <2>5. /\ databases \in DatabaseOf /\ fineract \in FineractOf
          /\ audit \in AuditLog /\ outbox \in Enqueued
      BY DEF ResolverInit, RegistryInit, DatabaseOf, FineractOf, AuditLog, Enqueued
    <2>6. QED
      BY <2>2, <2>3, <2>4, <2>5 DEF RegistryTypeOK
  <1>2. ResolverTypeOK
    BY <1>1, IdleType, ResolverAssumption DEF ResolverInit, ResolverTypeOK
  <1>3. Watched /\ RequestsAreFresh /\ Targeted
    BY DEF ResolverInit, Watched, RequestsAreFresh, Targeted, Idle, NoTransaction
  <1>4. RowsAreFresh /\ EntriesAge
    BY DEF ResolverInit, RegistryInit, RowsAreFresh, EntriesAge, Owners, Miss
  <1>5. QED
    BY <1>2, <1>3, <1>4 DEF ResolverInv

-----------------------------------------------------------------------------
\* The steps of the middleware keep the types.
LEMMA MiddlewareType ==
  ASSUME ResolverTypeOK, NEW r \in Requests,
         (\E h \in Hostnames : Arrive(r, h)) \/ Middleware(r)
  PROVE  ResolverTypeOK'
  <1> USE DEF ResolverTypeOK, RegistryTypeOK, registryVars, externalVars
  <1>1. CASE \E h \in Hostnames : Arrive(r, h)
    <2> PICK h \in Hostnames : Arrive(r, h)
      BY <1>1
    <2> DEFINE ready == {t \in Tenants : tenants[t].status = "READY"}
               next == [req[r] EXCEPT !.pc = "lookup", !.host = Normal[h], !.open = ready]
    <2>1. next \in Request
      BY RecordTypes, ResolverAssumption
    <2>2. req' = [req EXCEPT ![r] = next]
      BY DEF Arrive
    <2>3. req' \in [Requests -> Request]
      BY <2>1, <2>2
    <2>4. QED
      BY <2>3 DEF Arrive
  <1>2. CASE CacheGet(r)
    <2>1. cache[req[r].host].tenant \in Tenants \cup {Nobody}
      BY DEF Request, Entry
    <2>2. \/ req' = [req EXCEPT ![r] = [req[r] EXCEPT !.pc = "read_domain"]]
          \/ req' = [req EXCEPT ![r] = [req[r] EXCEPT !.pc = "read_tenant",
                                                      !.tenant = cache[req[r].host].tenant]]
      BY <1>2 DEF CacheGet
    <2>3. [req[r] EXCEPT !.pc = "read_domain"] \in Request
      BY DEF Request
    <2>4. [req[r] EXCEPT !.pc = "read_tenant", !.tenant = cache[req[r].host].tenant] \in Request
      BY <2>1, RecordTypes
    <2>5. req' \in [Requests -> Request]
      BY <2>2, <2>3, <2>4
    <2>6. QED
      BY <1>2, <2>5 DEF CacheGet
  <1>3. CASE ReadDomain(r)
    <2>1. \A d \in domains : d.tenant \in Tenants
      BY DEF Domain
    <2>2. \A d \in domains : Answer(d.tenant) \in Answers
      BY <2>1, AnswerType
    <2>3. CASE \E d \in domains :
                 req' = [req EXCEPT ![r].pc = "fill", ![r].tenant = d.tenant,
                                    ![r].answer = Answer(d.tenant)]
      <3> PICK d \in domains :
                 req' = [req EXCEPT ![r] = [req[r] EXCEPT !.pc = "fill", !.tenant = d.tenant,
                                                          !.answer = Answer(d.tenant)]]
        BY <2>3
      <3>1. d.tenant \in Tenants /\ Answer(d.tenant) \in Answers /\ req[r] \in Request
        BY <2>1, <2>2
      <3>2. [req[r] EXCEPT !.pc = "fill", !.tenant = d.tenant, !.answer = Answer(d.tenant)]
              \in Request
        BY <3>1, RecordTypes
      <3>3. req' \in [Requests -> Request]
        BY <3>2
      <3>4. QED
        BY <1>3, <3>3 DEF ReadDomain
    <2>4. CASE req' = [req EXCEPT ![r].pc = "not_found"]
      <3>1. req' \in [Requests -> Request]
        BY <2>4, AnsweredType DEF Answers
      <3>2. QED
        BY <1>3, <3>1 DEF ReadDomain
    <2>5. QED
      BY <1>3, <2>3, <2>4 DEF ReadDomain
  <1>4. CASE FillCache(r)
    <2>1. req' \in [Requests -> Request]
      <3>1. req[r].answer \in Answers
        BY DEF Request
      <3>2. QED
        BY <1>4, <3>1, AnsweredType DEF FillCache
    <2>2. cache' \in [Hostnames -> Entry]
      BY <1>4, ResolverAssumption DEF FillCache, Request, Entry
    <2>3. QED
      BY <1>4, <2>1, <2>2 DEF FillCache
  <1>5. CASE ReadTenant(r)
    <2>1. Answer(req[r].tenant) \in Answers
      BY DEF Answer, Answers
    <2>2. req' \in [Requests -> Request]
      BY <1>5, <2>1, AnsweredType DEF ReadTenant
    <2>3. QED
      BY <1>5, <2>2 DEF ReadTenant
  <1>6. CASE CacheError(r)
    <2>1. req' \in [Requests -> Request]
      BY <1>6, AnsweredType DEF CacheError, Answers
    <2>2. QED
      BY <1>6, <2>1 DEF CacheError
  <1>7. CASE Return(r)
    <2>1. req' \in [Requests -> Request]
      BY <1>7, IdleType DEF Return
    <2>2. QED
      BY <1>7, <2>1 DEF Return
  <1>8. QED
    BY <1>1, <1>2, <1>3, <1>4, <1>5, <1>6, <1>7 DEF Middleware

\* A change of what requests have witnessed keeps their type.
LEMMA WitnessType ==
  ASSUME req \in [Requests -> Request], NEW t \in Tenants, Witness(t)
  PROVE  req' \in [Requests -> Request]
  BY DEF Witness, Request

\* The steps of a suspend or activate transaction keep the types.
LEMMA TransactionType ==
  ASSUME ResolverTypeOK, Targeted, NEW s \in Operators,
         \/ \E t \in Tenants, kind \in {"suspend", "activate"} : GetObject(s, kind, t)
         \/ TransactionStep(s)
  PROVE  ResolverTypeOK'
  <1> USE DEF ResolverTypeOK, RegistryTypeOK, registryVars, externalVars, onboarding
  <1>1. ASSUME NEW t \in Tenants, NEW kind \in {"suspend", "activate"}, GetObject(s, kind, t)
        PROVE  ResolverTypeOK'
    <2>1. op' \in [Operators -> Transaction]
      BY <1>1 DEF GetObject, Transaction
    <2>2. QED
      BY <1>1, <2>1 DEF GetObject
  <1>u. CASE Update(s)
    <2>1. op[s].tenant \in Tenants
      BY <1>u DEF Update, Targeted
    <2>2. op' \in [Operators -> Transaction]
      BY <1>u DEF Update, Transaction
    <2>3. outbox' \in Enqueued
      BY <1>u, <2>1, ReceiverType DEF Update
    <2>4. QED
      BY <1>u, <2>2, <2>3 DEF Update
  <1>2. CASE BustCache(s)
    <2>1. cache' \in [Hostnames -> Entry]
      BY <1>2, IdleType DEF BustCache
    <2>2. op' \in [Operators -> Transaction]
      BY <1>2 DEF BustCache, Transaction
    <2>3. QED
      BY <1>2, <2>1, <2>2 DEF BustCache
  <1>3. CASE CommitSuspend(s)
    <2>1. op[s].tenant \in Tenants
      BY <1>3 DEF CommitSuspend, Targeted
    <2> DEFINE row == [tenants[op[s].tenant] EXCEPT !.status = "SUSPENDED", !.suspended_at = TRUE]
    <2>2. tenants' \in TenantTable
      <3>1. row \in TenantRow
        BY <2>1, RowTypes DEF TenantTable
      <3>2. tenants' = [tenants EXCEPT ![op[s].tenant] = row]
        BY <1>3 DEF CommitSuspend
      <3>3. QED
        BY <2>1, <3>1, <3>2 DEF TenantTable
    <2>3. audit' \in AuditLog
      BY <1>3, <2>1 DEF CommitSuspend, AuditLog, AuditAction
    <2>4. op' \in [Operators -> Transaction]
      BY <1>3, IdleType DEF CommitSuspend
    <2>5. QED
      BY <1>3, <2>2, <2>3, <2>4 DEF CommitSuspend
  <1>4. CASE CommitActivate(s)
    <2>1. op[s].tenant \in Tenants
      BY <1>4 DEF CommitActivate, Targeted
    <2> DEFINE row == [tenants[op[s].tenant] EXCEPT !.status = "READY", !.is_active = TRUE,
                                                    !.suspended_at = FALSE]
    <2>2. tenants' \in TenantTable
      <3>1. row \in TenantRow
        BY <2>1, RowTypes DEF TenantTable
      <3>2. tenants' = [tenants EXCEPT ![op[s].tenant] = row]
        BY <1>4 DEF CommitActivate
      <3>3. QED
        BY <2>1, <3>1, <3>2 DEF TenantTable
    <2>3. audit' \in AuditLog
      BY <1>4, <2>1 DEF CommitActivate, AuditLog, AuditAction
    <2>4. op' \in [Operators -> Transaction]
      BY <1>4, IdleType DEF CommitActivate
    <2>5. req' \in [Requests -> Request]
      BY <1>4, <2>1, WitnessType DEF CommitActivate
    <2>6. QED
      BY <1>4, <2>2, <2>3, <2>4, <2>5 DEF CommitActivate
  <1>5. CASE Abort(s)
    <2>1. op' \in [Operators -> Transaction]
      BY <1>5, IdleType DEF Abort
    <2>2. QED
      BY <1>5, <2>1 DEF Abort
  <1>6. QED
    BY <1>1, <1>u, <1>2, <1>3, <1>4, <1>5 DEF TransactionStep

\* So do the other writers and the clock.
LEMMA WriteType ==
  ASSUME ResolverTypeOK, Write \/ Tick
  PROVE  ResolverTypeOK'
  <1> USE DEF ResolverTypeOK, RegistryTypeOK, registryVars, externalVars, onboarding
  <1>1. ASSUME NEW t \in Tenants, Register(t)
        PROVE  ResolverTypeOK'
    <2>1. tenants' \in TenantTable
      BY <1>1, RowTypes DEF Register, TenantTable
    <2>2. QED
      BY <1>1, <2>1 DEF Register
  <1>2. ASSUME NEW t \in Tenants, EngineOpens(t)
        PROVE  ResolverTypeOK'
    <2>1. tenants' \in TenantTable
      BY <1>2, RowTypes DEF EngineOpens, TenantTable
    <2>2. outbox' \in Enqueued
      BY <1>2, ReceiverType DEF EngineOpens
    <2>3. req' \in [Requests -> Request]
      BY <1>2, WitnessType DEF EngineOpens
    <2>4. QED
      BY <1>2, <2>1, <2>2, <2>3 DEF EngineOpens
  <1>3. ASSUME NEW t \in Tenants, EngineCloses(t)
        PROVE  ResolverTypeOK'
    <2>1. tenants' \in TenantTable
      BY <1>3 DEF EngineCloses, TenantTable, TenantRow, Status
    <2>2. QED
      BY <1>3, <2>1 DEF EngineCloses
  <1>4. ASSUME NEW t \in Tenants, DeleteTenant(t)
        PROVE  ResolverTypeOK'
    <2>1. tenants' \in TenantTable
      BY <1>4, RowTypes DEF DeleteTenant, TenantTable
    <2>2. users' \in UserTable /\ credentials' \in Passwords
      BY <1>4 DEF DeleteTenant, UserTable, Passwords
    <2>3. NewJob(Nobody) \in JobRow
      BY DEF NewJob, JobRow, Steps, StepOrder
    <2>4. jobs' \in JobTable
      BY <1>4, <2>3 DEF DeleteTenant, JobTable
    <2>5. QED
      BY <1>4, <2>1, <2>2, <2>4 DEF DeleteTenant
  <1>5. ASSUME NEW rows \in SUBSET Domain, WriteDomains(rows)
        PROVE  ResolverTypeOK'
    <2>1. since' \in [Hostnames \X Tenants -> 0..TTL]
      BY <1>5, ResolverAssumption DEF WriteDomains
    <2>2. QED
      BY <1>5, <2>1 DEF WriteDomains
  <1>6. CASE Tick
    <2>1. since' \in [Hostnames \X Tenants -> 0..TTL]
      BY <1>6, ResolverAssumption DEF Tick
    <2>2. cache' \in [Hostnames -> Entry]
      <3>1. \A h \in Hostnames : cache[h].left \notin {0, 1} =>
              [cache[h] EXCEPT !.left = @ - 1] \in Entry
        BY RecordTypes
      <3>2. QED
        BY <1>6, <3>1, IdleType DEF Tick
    <2>3. QED
      BY <1>6, <2>1, <2>2 DEF Tick
  <1>7. ASSUME NEW d \in Domain, AddDomain(d) \/ RemoveDomain(d)
        PROVE  ResolverTypeOK'
    BY <1>5, <1>7 DEF AddDomain, RemoveDomain
  <1>8. ASSUME NEW d \in domains, NEW e \in Domain, ChangeDomain(d, e)
        PROVE  ResolverTypeOK'
    BY <1>5, <1>8 DEF ChangeDomain
  <1>9. QED
    BY <1>1, <1>2, <1>3, <1>4, <1>6, <1>7, <1>8 DEF Write

-----------------------------------------------------------------------------
\* A transaction keeps its tenant until it ends.
LEMMA TargetedStep ==
  ASSUME ResolverTypeOK, Targeted, ResolverNext
  PROVE  Targeted'
  <1>1. ASSUME NEW s \in Operators, NEW t \in Tenants, NEW kind \in {"suspend", "activate"},
               GetObject(s, kind, t)
        PROVE  Targeted'
    BY <1>1 DEF GetObject, Targeted, ResolverTypeOK
  <1>2. ASSUME NEW s \in Operators, TransactionStep(s)
        PROVE  Targeted'
    <2>1. op' = [op EXCEPT ![s] = NoTransaction] \/ BustCache(s) \/ Update(s)
      BY <1>2 DEF TransactionStep, CommitSuspend, CommitActivate, Abort
    <2>2. CASE op' = [op EXCEPT ![s] = NoTransaction]
      BY <2>2 DEF Targeted, ResolverTypeOK, NoTransaction
    <2>3. ASSUME NEW pc \in {"bust", "commit"}, op[s].pc # "idle",
                 op' = [op EXCEPT ![s] = [op[s] EXCEPT !.pc = pc]]
          PROVE  Targeted'
      <3>2. op[s] \in Transaction /\ op[s].tenant \in Tenants
        BY <2>3 DEF ResolverTypeOK, Targeted
      <3>3. [op[s] EXCEPT !.pc = pc].tenant = op[s].tenant
        BY <3>2 DEF Transaction
      <3>4. QED
        BY <2>3, <3>2, <3>3 DEF Targeted, ResolverTypeOK
    <2>4. QED
      BY <2>1, <2>2, <2>3 DEF BustCache, Update
  <1>3. CASE op' = op
    BY <1>3 DEF Targeted
  <1>4. ASSUME NEW r \in Requests, (\E h \in Hostnames : Arrive(r, h)) \/ Middleware(r)
        PROVE  op' = op
    BY <1>4 DEF Arrive, Middleware, CacheGet, ReadDomain, FillCache, ReadTenant, CacheError,
                Return
  <1>5. ASSUME Write \/ Tick
        PROVE  op' = op
    BY <1>5 DEF Write, Register, EngineOpens, EngineCloses, DeleteTenant, AddDomain,
                RemoveDomain, ChangeDomain, WriteDomains, Tick
  <1>6. QED
    BY <1>1, <1>2, <1>3, <1>4, <1>5 DEF ResolverNext

-----------------------------------------------------------------------------
\* A step that opens no tenant and moves no request leaves what they have seen.
LEMMA NothingOpens ==
  ASSUME Watched, req' = req,
         \A t \in Tenants : tenants'[t].status = "READY" => tenants[t].status = "READY"
  PROVE  Watched'
  BY DEF Watched

\* A step that opens one tenant, seen by the requests, leaves it too.
LEMMA OneOpens ==
  ASSUME Watched, req \in [Requests -> Request], NEW u \in Tenants, Witness(u),
         \A t \in Tenants \ {u} :
           tenants'[t].status = "READY" => tenants[t].status = "READY"
  PROVE  Watched'
  <1> SUFFICES ASSUME NEW r \in Requests
               PROVE  /\ req'[r].pc # "idle" =>
                           \A t \in Tenants : tenants'[t].status = "READY" => t \in req'[r].open
                      /\ req'[r].pc = "fill" /\ req'[r].answer = "served" =>
                           req'[r].tenant \in req'[r].open
                      /\ req'[r].pc = "served" => req'[r].tenant \in req'[r].open
    BY DEF Watched
  <1>1. CASE req[r].pc = "idle"
    BY <1>1 DEF Witness
  <1>2. CASE req[r].pc # "idle"
    <2>1. req'[r] = [req[r] EXCEPT !.open = @ \cup {u}]
      BY <1>2 DEF Witness
    <2>2. /\ req'[r].pc = req[r].pc /\ req'[r].answer = req[r].answer
          /\ req'[r].tenant = req[r].tenant /\ req'[r].open = req[r].open \cup {u}
      BY <2>1 DEF Request
    <2>3. QED
      BY <1>2, <2>2 DEF Watched
  <1>3. QED
    BY <1>1, <1>2

\* A request that takes a step: the others and the rows stay, so it is enough to look at
\* its new state.
LEMMA OneMoves ==
  ASSUME Watched, NEW r \in Requests, NEW next, req' = [req EXCEPT ![r] = next],
         DOMAIN req = Requests, tenants' = tenants,
         next.pc # "idle" => \A t \in Tenants : tenants[t].status = "READY" => t \in next.open,
         next.pc = "fill" /\ next.answer = "served" => next.tenant \in next.open,
         next.pc = "served" => next.tenant \in next.open
  PROVE  Watched'
  BY DEF Watched

\* The middleware serves a request only for a tenant the request has seen READY.
LEMMA MiddlewareWatched ==
  ASSUME ResolverTypeOK, Watched, RequestsAreFresh, NEW r \in Requests,
         (\E h \in Hostnames : Arrive(r, h)) \/ Middleware(r)
  PROVE  Watched'
  <1>0. req \in [Requests -> Request] /\ req[r] \in Request
    BY DEF ResolverTypeOK
  <1> DEFINE seen == req[r].pc # "idle" =>
                       \A t \in Tenants : tenants[t].status = "READY" => t \in req[r].open
  <1>s. seen
    BY DEF Watched
  <1>1. ASSUME NEW h \in Hostnames, Arrive(r, h)
        PROVE  Watched'
    <2> DEFINE ready == {t \in Tenants : tenants[t].status = "READY"}
               next == [req[r] EXCEPT !.pc = "lookup", !.host = Normal[h], !.open = ready]
    <2>1. req' = [req EXCEPT ![r] = next] /\ tenants' = tenants
      BY <1>1 DEF Arrive, registryVars
    <2>2. next.pc = "lookup" /\ next.open = ready
      BY <1>0 DEF Request
    <2>3. QED
      BY <1>0, <2>1, <2>2, OneMoves
  <1>2. CASE CacheGet(r)
    <2>0. \/ req' = [req EXCEPT ![r] = [req[r] EXCEPT !.pc = "read_domain"]]
          \/ req' = [req EXCEPT ![r] = [req[r] EXCEPT !.pc = "read_tenant",
                                                      !.tenant = cache[req[r].host].tenant]]
      BY <1>2 DEF CacheGet
    <2>1. PICK next :
            /\ req' = [req EXCEPT ![r] = next]
            /\ \/ next = [req[r] EXCEPT !.pc = "read_domain"]
               \/ next = [req[r] EXCEPT !.pc = "read_tenant",
                                        !.tenant = cache[req[r].host].tenant]
      BY <2>0
    <2>2. next.pc \in {"read_domain", "read_tenant"} /\ next.open = req[r].open
      BY <1>0, <2>1 DEF Request
    <2>3. req[r].pc = "lookup" /\ tenants' = tenants
      BY <1>2 DEF CacheGet, registryVars
    <2>4. QED
      BY <1>0, <1>s, <2>1, <2>2, <2>3, OneMoves
  <1>3. CASE ReadDomain(r)
    <2>1. req[r].pc = "read_domain" /\ tenants' = tenants
      BY <1>3 DEF ReadDomain, registryVars
    <2>2. ASSUME NEW d \in domains,
                 req' = [req EXCEPT ![r].pc = "fill", ![r].tenant = d.tenant,
                                    ![r].answer = Answer(d.tenant)]
          PROVE  Watched'
      <3> DEFINE next == [req[r] EXCEPT !.pc = "fill", !.tenant = d.tenant,
                                        !.answer = Answer(d.tenant)]
      <3>1. d.tenant \in Tenants
        BY DEF ResolverTypeOK, RegistryTypeOK, Domain
      <3>2. Answer(d.tenant) = "served" => d.tenant \in req[r].open
        BY <1>s, <2>1, <3>1, AnswerType
      <3>3. req' = [req EXCEPT ![r] = next]
        BY <2>2
      <3>4. /\ next.pc = "fill" /\ next.tenant = d.tenant
            /\ next.answer = Answer(d.tenant) /\ next.open = req[r].open
        BY <1>0 DEF Request
      <3>5. QED
        BY <1>0, <1>s, <2>1, <3>2, <3>3, <3>4, OneMoves
    <2>3. CASE req' = [req EXCEPT ![r].pc = "not_found"]
      <3>1. /\ [req[r] EXCEPT !.pc = "not_found"].pc = "not_found"
            /\ [req[r] EXCEPT !.pc = "not_found"].open = req[r].open
        BY <1>0 DEF Request
      <3>2. QED
        BY <1>0, <1>s, <2>1, <2>3, <3>1, OneMoves
    <2>4. QED
      BY <1>3, <2>2, <2>3 DEF ReadDomain
  <1>4. ASSUME NEW pc \in Answers, req[r].pc # "idle", tenants' = tenants,
               req' = [req EXCEPT ![r].pc = pc],
               pc = "served" => req[r].tenant \in req[r].open
        PROVE  Watched'
    <2>1. /\ [req[r] EXCEPT !.pc = pc].pc = pc
          /\ [req[r] EXCEPT !.pc = pc].open = req[r].open
          /\ [req[r] EXCEPT !.pc = pc].tenant = req[r].tenant
      BY <1>0 DEF Request
    <2>2. pc # "fill"
      BY DEF Answers
    <2>3. QED
      BY <1>0, <1>s, <1>4, <2>1, <2>2, OneMoves
  <1>5. CASE FillCache(r)
    <2>1. /\ req[r].answer \in Answers /\ req[r].pc = "fill" /\ tenants' = tenants
          /\ req' = [req EXCEPT ![r].pc = req[r].answer]
      BY <1>0, <1>5 DEF FillCache, Request, registryVars
    <2>2. req[r].answer = "served" => req[r].tenant \in req[r].open
      BY <2>1 DEF Watched
    <2>3. QED
      BY <1>4, <2>1, <2>2
  <1>6. CASE ReadTenant(r)
    <2>1. /\ req[r].pc = "read_tenant" /\ tenants' = tenants
          /\ req' = [req EXCEPT ![r].pc = Answer(req[r].tenant)]
      BY <1>6 DEF ReadTenant, registryVars
    <2>2. Answer(req[r].tenant) \in Answers
      BY DEF Answer, Answers
    <2>3. req[r].tenant \in Tenants
      BY <2>1 DEF RequestsAreFresh
    <2>4. Answer(req[r].tenant) = "served" => req[r].tenant \in req[r].open
      BY <1>s, <2>1, <2>3, AnswerType
    <2>5. QED
      BY <1>4, <2>1, <2>2, <2>4
  <1>7. CASE CacheError(r)
    <2>1. /\ req[r].pc # "idle" /\ tenants' = tenants /\ "error" \in Answers
          /\ req' = [req EXCEPT ![r].pc = "error"]
      BY <1>7 DEF CacheError, registryVars, Answers
    <2>2. QED
      BY <1>4, <2>1
  <1>8. CASE Return(r)
    <2>1. req' = [req EXCEPT ![r] = Idle] /\ tenants' = tenants /\ Idle.pc = "idle"
      BY <1>8 DEF Return, registryVars, Idle
    <2>2. QED
      BY <1>0, <2>1, OneMoves
  <1>9. QED
    BY <1>1, <1>2, <1>3, <1>5, <1>6, <1>7, <1>8 DEF Middleware

\* Every step lets the requests see the tenant it opens.
LEMMA WatchedStep ==
  ASSUME ResolverTypeOK, Targeted, Watched, RequestsAreFresh, ResolverNext
  PROVE  Watched'
  <1>0. tenants \in TenantTable /\ req \in [Requests -> Request]
    BY DEF ResolverTypeOK, RegistryTypeOK
  <1>1. ASSUME NEW r \in Requests, (\E h \in Hostnames : Arrive(r, h)) \/ Middleware(r)
        PROVE  Watched'
    BY <1>1, MiddlewareWatched
  <1>2. ASSUME NEW s \in Operators, TransactionStep(s)
        PROVE  Watched'
    <2>1. CASE Update(s) \/ BustCache(s) \/ Abort(s)
      BY <2>1, NothingOpens DEF Update, BustCache, Abort, registryVars
    <2>2. CASE CommitSuspend(s)
      <3>1. op[s].tenant \in Tenants
        BY <2>2 DEF CommitSuspend, Targeted
      <3>2. req' = req /\ \A t \in Tenants :
              tenants'[t].status = "READY" => tenants[t].status = "READY"
        BY <1>0, <2>2, <3>1 DEF CommitSuspend, TenantTable, TenantRow
      <3>3. QED
        BY <3>2, NothingOpens
    <2>3. CASE CommitActivate(s)
      <3>1. op[s].tenant \in Tenants /\ Witness(op[s].tenant)
        BY <2>3 DEF CommitActivate, Targeted
      <3>2. \A t \in Tenants \ {op[s].tenant} : tenants'[t] = tenants[t]
        BY <1>0, <2>3, <3>1 DEF CommitActivate, TenantTable
      <3>3. QED
        BY <1>0, <3>1, <3>2, OneOpens
    <2>4. QED
      BY <1>2, <2>1, <2>2, <2>3 DEF TransactionStep
  <1>3. ASSUME NEW t \in Tenants, EngineOpens(t)
        PROVE  Watched'
    <2>1. \A u \in Tenants \ {t} : tenants'[u] = tenants[u]
      BY <1>0, <1>3 DEF EngineOpens, TenantTable
    <2>2. QED
      BY <1>0, <1>3, <2>1, OneOpens DEF EngineOpens
  <1>4. ASSUME NEW t \in Tenants, Register(t) \/ EngineCloses(t) \/ DeleteTenant(t)
        PROVE  Watched'
    <2>1. NewTenant(TRUE).status # "READY"
      BY DEF NewTenant
    <2>2. [NewTenant(FALSE) EXCEPT !.exists = FALSE].status # "READY"
      BY DEF NewTenant
    <2>3. req' = req
      BY <1>4 DEF Register, EngineCloses, DeleteTenant
    <2>4. \A u \in Tenants \ {t} : tenants'[u] = tenants[u]
      BY <1>0, <1>4 DEF Register, EngineCloses, DeleteTenant, TenantTable
    <2>5. tenants'[t].status # "READY"
      BY <1>0, <1>4, <2>1, <2>2 DEF Register, EngineCloses, DeleteTenant, TenantTable, TenantRow
    <2>6. QED
      BY <2>3, <2>4, <2>5, NothingOpens
  <1>5. ASSUME \/ \E s \in Operators, t \in Tenants, kind \in {"suspend", "activate"} :
                    GetObject(s, kind, t)
               \/ \E d \in Domain : AddDomain(d) \/ RemoveDomain(d)
               \/ \E d \in domains, e \in Domain : ChangeDomain(d, e)
               \/ Tick
        PROVE  Watched'
    <2>1. req' = req /\ tenants' = tenants
      BY <1>5 DEF GetObject, AddDomain, RemoveDomain, ChangeDomain, WriteDomains, Tick, registryVars
    <2>2. QED
      BY <2>1, NothingOpens
  <1>6. QED
    BY <1>1, <1>2, <1>3, <1>4, <1>5 DEF ResolverNext, Write

-----------------------------------------------------------------------------
\* What is known of a host does not get older by a step other than the clock's.
Younger == \A p \in Hostnames \X Tenants : since'[p] <= since[p]

\* A step that leaves the requests, the cache and the age of hosts, or makes hosts younger
\* and drops entries, keeps what is known fresh.
LEMMA StaysFresh ==
  ASSUME ResolverTypeOK, EntriesAge, RequestsAreFresh, Younger,
         since' \in [Hostnames \X Tenants -> 0..TTL],
         \A h \in Hostnames : cache'[h] = cache[h] \/ cache'[h] = Miss,
         \A r \in Requests : /\ req'[r].pc = req[r].pc /\ req'[r].host = req[r].host
                             /\ req'[r].tenant = req[r].tenant
  PROVE  EntriesAge' /\ RequestsAreFresh'
  <1>1. EntriesAge'
    <2> SUFFICES ASSUME NEW h \in Hostnames, cache'[h].left > 0
                 PROVE  /\ cache'[h].tenant \in Tenants
                        /\ since'[<<h, cache'[h].tenant>>] + cache'[h].left <= TTL
      BY DEF EntriesAge
    <2>1. cache'[h] = cache[h]
      BY DEF Miss
    <2>2. cache[h].tenant \in Tenants /\ since[<<h, cache[h].tenant>>] + cache[h].left <= TTL
      BY <2>1 DEF EntriesAge
    <2>3. since'[<<h, cache[h].tenant>>] <= since[<<h, cache[h].tenant>>]
      BY <2>2 DEF Younger
    <2>4. /\ since'[<<h, cache[h].tenant>>] \in Nat /\ since[<<h, cache[h].tenant>>] \in Nat
          /\ cache[h].left \in Nat /\ TTL \in Nat
      BY <2>2, ResolverAssumption DEF ResolverTypeOK, Entry
    <2>5. QED
      BY <2>1, <2>2, <2>3, <2>4
  <1>2. RequestsAreFresh'
    <2> SUFFICES ASSUME NEW r \in Requests
                 PROVE  /\ req'[r].pc = "fill" =>
                             /\ req'[r].tenant \in Tenants
                             /\ since'[<<req'[r].host, req'[r].tenant>>] = 0
                        /\ req'[r].pc \in {"read_tenant", "served"} =>
                             req'[r].tenant \in Tenants
      BY DEF RequestsAreFresh
    <2> DEFINE pair == <<req[r].host, req[r].tenant>>
    <2>1. req[r].host \in Hostnames
      BY DEF ResolverTypeOK, Request
    <2>2. req[r].tenant \in Tenants =>
            since'[pair] \in Nat /\ since[pair] \in Nat /\ since'[pair] <= since[pair]
      BY <2>1, ResolverAssumption DEF ResolverTypeOK, Younger
    <2>3. QED
      BY <2>2, ResolverAssumption DEF RequestsAreFresh
  <1>3. QED
    BY <1>1, <1>2

\* A request whose record becomes next leaves what is known of the others fresh.
LEMMA OneStaysFresh ==
  ASSUME RequestsAreFresh, NEW r \in Requests, NEW next, req' = [req EXCEPT ![r] = next],
         DOMAIN req = Requests, since' = since,
         next.pc = "fill" => next.tenant \in Tenants /\ since[<<next.host, next.tenant>>] = 0,
         next.pc \in {"read_tenant", "served"} => next.tenant \in Tenants
  PROVE  RequestsAreFresh'
  BY DEF RequestsAreFresh

\* The middleware knows a host from a row that is there, or from an entry that has time
\* left; the entry it fills is no older than that row.
LEMMA MiddlewareFresh ==
  ASSUME ResolverTypeOK, RowsAreFresh, EntriesAge, RequestsAreFresh, NEW r \in Requests,
         (\E h \in Hostnames : Arrive(r, h)) \/ Middleware(r)
  PROVE  RowsAreFresh' /\ EntriesAge' /\ RequestsAreFresh'
  <1>0. /\ req \in [Requests -> Request] /\ req[r] \in Request /\ req[r].host \in Hostnames
        /\ cache \in [Hostnames -> Entry] /\ cache[req[r].host] \in Entry
        /\ TTL \in Nat \ {0}
    BY ResolverAssumption DEF ResolverTypeOK, Request
  <1>1. since' = since /\ domains' = domains
    BY DEF Arrive, Middleware, CacheGet, ReadDomain, FillCache, ReadTenant, CacheError, Return,
           registryVars
  <1>2. RowsAreFresh'
    BY <1>1 DEF RowsAreFresh
  <1>3. CASE ~ FillCache(r)
    <2>1. cache' = cache
      BY <1>3 DEF Arrive, Middleware, CacheGet, ReadDomain, ReadTenant, CacheError, Return
    <2>2. EntriesAge'
      BY <1>1, <2>1 DEF EntriesAge
    <2>3. ASSUME NEW h \in Hostnames, Arrive(r, h)
          PROVE  RequestsAreFresh'
      <3> DEFINE ready == {t \in Tenants : tenants[t].status = "READY"}
                 next == [req[r] EXCEPT !.pc = "lookup", !.host = Normal[h], !.open = ready]
      <3>1. req' = [req EXCEPT ![r] = next]
        BY <2>3 DEF Arrive
      <3>2. next.pc = "lookup"
        BY <1>0 DEF Request
      <3>3. QED
        BY <1>0, <1>1, <3>1, <3>2, OneStaysFresh
    <2>4. ASSUME CacheGet(r), cache[req[r].host].left = 0
          PROVE  RequestsAreFresh'
      <3>1. req' = [req EXCEPT ![r] = [req[r] EXCEPT !.pc = "read_domain"]]
        BY <1>0, <2>4 DEF CacheGet, Entry
      <3>2. [req[r] EXCEPT !.pc = "read_domain"].pc = "read_domain"
        BY <1>0 DEF Request
      <3>3. QED
        BY <1>0, <1>1, <3>1, <3>2, OneStaysFresh
    <2>5. ASSUME CacheGet(r), cache[req[r].host].left > 0
          PROVE  RequestsAreFresh'
      <3> DEFINE t == cache[req[r].host].tenant
                 next == [req[r] EXCEPT !.pc = "read_tenant", !.tenant = t]
      <3>0. cache[req[r].host].left # 0
        BY <1>0, <2>5 DEF Entry
      <3>1. req' = [req EXCEPT ![r] = next]
        BY <2>5, <3>0 DEF CacheGet
      <3>2. next.pc = "read_tenant" /\ next.tenant = t /\ next.host = req[r].host
        BY <1>0 DEF Request
      <3>3. t \in Tenants
        BY <1>0, <2>5 DEF EntriesAge
      <3> HIDE DEF t, next
      <3>4. QED
        BY <1>0, <1>1, <3>1, <3>2, <3>3, OneStaysFresh
    <2>6. ASSUME NEW d \in domains, d.hostname = req[r].host,
                 req' = [req EXCEPT ![r].pc = "fill", ![r].tenant = d.tenant,
                                    ![r].answer = Answer(d.tenant)]
          PROVE  RequestsAreFresh'
      <3> DEFINE next == [req[r] EXCEPT !.pc = "fill", !.tenant = d.tenant,
                                        !.answer = Answer(d.tenant)]
      <3>1. req' = [req EXCEPT ![r] = next]
        BY <2>6
      <3>2. next.pc = "fill" /\ next.tenant = d.tenant /\ next.host = req[r].host
        BY <1>0 DEF Request
      <3>3. d.tenant \in Tenants /\ since[<<req[r].host, d.tenant>>] = 0
        BY <2>6 DEF ResolverTypeOK, RegistryTypeOK, Domain, RowsAreFresh, Owners
      <3> HIDE DEF next
      <3>4. QED
        BY <1>0, <1>1, <3>1, <3>2, <3>3, OneStaysFresh
    <2>7. ASSUME ReadTenant(r)
          PROVE  RequestsAreFresh'
      <3>1. /\ req[r].pc = "read_tenant"
            /\ req' = [req EXCEPT ![r] = [req[r] EXCEPT !.pc = Answer(req[r].tenant)]]
        BY <2>7 DEF ReadTenant
      <3>2. Answer(req[r].tenant) \notin {"fill", "read_tenant"}
        BY DEF Answer
      <3>3. /\ [req[r] EXCEPT !.pc = Answer(req[r].tenant)].pc = Answer(req[r].tenant)
            /\ [req[r] EXCEPT !.pc = Answer(req[r].tenant)].tenant = req[r].tenant
            /\ [req[r] EXCEPT !.pc = Answer(req[r].tenant)].host = req[r].host
        BY <1>0 DEF Request
      <3>4. req[r].tenant \in Tenants
        BY <3>1 DEF RequestsAreFresh
      <3>5. QED
        BY <1>0, <1>1, <3>1, <3>2, <3>3, <3>4, OneStaysFresh
    <2>8. ASSUME NEW pc \in {"not_found", "error"}, req' = [req EXCEPT ![r].pc = pc]
          PROVE  RequestsAreFresh'
      <3>1. [req[r] EXCEPT !.pc = pc].pc = pc
        BY <1>0 DEF Request
      <3>2. QED
        BY <1>0, <1>1, <2>8, <3>1, OneStaysFresh
    <2>9. ASSUME req' = [req EXCEPT ![r] = Idle]
          PROVE  RequestsAreFresh'
      BY <1>0, <1>1, <2>9, OneStaysFresh DEF Idle
    <2>10. QED
      <3>1. CacheGet(r) => cache[req[r].host].left = 0 \/ cache[req[r].host].left > 0
        BY DEF CacheGet
      <3>2. RequestsAreFresh'
        BY <1>3, <2>3, <2>4, <2>5, <2>6, <2>7, <2>8, <2>9, <3>1
           DEF Middleware, ReadDomain, CacheError, Return
      <3>3. QED
        BY <1>2, <2>2, <3>2
  <1>4. CASE FillCache(r)
    <2>1. /\ req[r].tenant \in Tenants /\ since[<<req[r].host, req[r].tenant>>] = 0
          /\ req[r].answer \in Answers
      BY <1>0, <1>4 DEF FillCache, RequestsAreFresh, Request
    <2>2. EntriesAge'
      BY <1>0, <1>1, <1>4, <2>1 DEF FillCache, EntriesAge
    <2>3. req' = [req EXCEPT ![r] = [req[r] EXCEPT !.pc = req[r].answer]]
      BY <1>4 DEF FillCache
    <2>4. /\ [req[r] EXCEPT !.pc = req[r].answer].pc = req[r].answer
          /\ [req[r] EXCEPT !.pc = req[r].answer].tenant = req[r].tenant
          /\ [req[r] EXCEPT !.pc = req[r].answer].host = req[r].host
      BY <1>0 DEF Request
    <2>5. req[r].answer \notin {"fill", "read_tenant"}
      BY <1>0, <2>1 DEF Answers
    <2>6. RequestsAreFresh'
      BY <1>0, <1>1, <2>1, <2>3, <2>4, <2>5, OneStaysFresh
    <2>7. QED
      BY <1>2, <2>2, <2>6
  <1>5. QED
    BY <1>3, <1>4

\* What requests witness changes neither where they are nor the host and tenant they have.
LEMMA WitnessMoves ==
  ASSUME req \in [Requests -> Request], NEW t \in Tenants, Witness(t)
  PROVE  \A r \in Requests : /\ req'[r].pc = req[r].pc /\ req'[r].host = req[r].host
                             /\ req'[r].tenant = req[r].tenant
  <1> SUFFICES ASSUME NEW r \in Requests
               PROVE  /\ req'[r].pc = req[r].pc /\ req'[r].host = req[r].host
                      /\ req'[r].tenant = req[r].tenant
    OBVIOUS
  <1>1. req'[r] = req[r] \/ req'[r] = [req[r] EXCEPT !.open = @ \cup {t}]
    BY DEF Witness
  <1>2. QED
    BY <1>1 DEF Request

\* A step that leaves the age of hosts as it is, adds no row and fills no entry.
LEMMA NothingAges ==
  ASSUME ResolverTypeOK, RowsAreFresh, EntriesAge, RequestsAreFresh,
         since' = since, domains' \subseteq domains,
         \A h \in Hostnames : cache'[h] = cache[h] \/ cache'[h] = Miss,
         \A r \in Requests : /\ req'[r].pc = req[r].pc /\ req'[r].host = req[r].host
                             /\ req'[r].tenant = req[r].tenant
  PROVE  RowsAreFresh' /\ EntriesAge' /\ RequestsAreFresh'
  <1>1. RowsAreFresh'
    BY DEF RowsAreFresh, Owners
  <1>2. Younger /\ since' \in [Hostnames \X Tenants -> 0..TTL]
    <2>1. since \in [Hostnames \X Tenants -> 0..TTL]
      BY DEF ResolverTypeOK
    <2>2. \A p \in Hostnames \X Tenants : since[p] <= since[p]
      BY <2>1, ResolverAssumption
    <2>3. QED
      BY <2>1, <2>2 DEF Younger
  <1>3. QED
    BY <1>1, <1>2, StaysFresh

\* A change of the domain rows makes the hosts of the new rows fresh.
LEMMA WriteDomainsFresh ==
  ASSUME ResolverTypeOK, EntriesAge, RequestsAreFresh, NEW rows \in SUBSET Domain,
         WriteDomains(rows)
  PROVE  RowsAreFresh' /\ EntriesAge' /\ RequestsAreFresh'
  <1>0. since \in [Hostnames \X Tenants -> 0..TTL] /\ TTL \in Nat
    BY ResolverAssumption DEF ResolverTypeOK
  <1>1. RowsAreFresh'
    <2>1. Owners(rows) \subseteq Hostnames \X Tenants
      BY DEF Owners, Domain
    <2>2. QED
      BY <2>1 DEF WriteDomains, RowsAreFresh, Owners
  <1>2. since' \in [Hostnames \X Tenants -> 0..TTL]
    BY <1>0 DEF WriteDomains
  <1>3. Younger
    BY <1>0 DEF WriteDomains, Younger
  <1>4. cache' = cache /\ req' = req
    BY DEF WriteDomains
  <1>5. QED
    BY <1>1, <1>2, <1>3, <1>4, StaysFresh

\* A tick takes as much off the life of an entry as it adds to the age of a host, and what
\* the requests under way are about to fill does not age.
LEMMA TickFresh ==
  ASSUME ResolverTypeOK, RowsAreFresh, EntriesAge, RequestsAreFresh, Tick
  PROVE  RowsAreFresh' /\ EntriesAge' /\ RequestsAreFresh'
  <1>0. /\ since \in [Hostnames \X Tenants -> 0..TTL] /\ TTL \in Nat \ {0}
        /\ cache \in [Hostnames -> Entry]
    BY ResolverAssumption DEF ResolverTypeOK
  <1>1. RowsAreFresh'
    <2>1. Owners(domains) \subseteq Hostnames \X Tenants
      BY DEF Owners, ResolverTypeOK, RegistryTypeOK, Domain
    <2>2. QED
      BY <2>1 DEF Tick, RowsAreFresh, Known, registryVars
  <1>2. EntriesAge'
    <2> SUFFICES ASSUME NEW h \in Hostnames, cache'[h].left > 0
                 PROVE  /\ cache'[h].tenant \in Tenants
                        /\ since'[<<h, cache'[h].tenant>>] + cache'[h].left <= TTL
      BY DEF EntriesAge
    <2>1. cache[h] \in Entry /\ cache[h].left \in 0..TTL
      BY <1>0 DEF Entry
    <2>2. /\ cache[h].left \notin {0, 1}
          /\ cache'[h] = [cache[h] EXCEPT !.left = cache[h].left - 1]
      BY <1>0 DEF Tick, Miss
    <2>3. cache'[h].left = cache[h].left - 1 /\ cache'[h].tenant = cache[h].tenant
      BY <2>1, <2>2 DEF Entry
    <2> DEFINE p == <<h, cache[h].tenant>>
    <2>4. cache[h].tenant \in Tenants /\ since[p] + cache[h].left <= TTL
      BY <1>0, <2>1, <2>2 DEF EntriesAge
    <2>5. \/ since'[p] = 0
          \/ since'[p] = since[p] + 1
          \/ since'[p] = TTL /\ ~ (since[p] < TTL)
      BY <2>4 DEF Tick
    <2>6. since[p] \in 0..TTL
      BY <1>0, <2>4
    <2> HIDE DEF p
    <2>7. since'[p] + (cache[h].left - 1) <= TTL
      BY <1>0, <2>1, <2>2, <2>4, <2>5, <2>6
    <2>8. QED
      BY <2>3, <2>4, <2>7 DEF p
  <1>3. RequestsAreFresh'
    <2>1. req' = req
      BY DEF Tick
    <2>2. ASSUME NEW r \in Requests, req[r].pc = "fill"
          PROVE  since'[<<req[r].host, req[r].tenant>>] = 0
      <3>1. <<req[r].host, req[r].tenant>> \in Known
        BY <2>2 DEF Known
      <3>2. <<req[r].host, req[r].tenant>> \in Hostnames \X Tenants
        BY <2>2 DEF RequestsAreFresh, ResolverTypeOK, Request
      <3>3. QED
        BY <3>1, <3>2 DEF Tick
    <2>3. QED
      BY <2>1, <2>2 DEF RequestsAreFresh
  <1>4. QED
    BY <1>1, <1>2, <1>3

\* Every step keeps what is known of the hosts fresh.
LEMMA FreshStep ==
  ASSUME ResolverTypeOK, Targeted, RowsAreFresh, EntriesAge, RequestsAreFresh, ResolverNext
  PROVE  RowsAreFresh' /\ EntriesAge' /\ RequestsAreFresh'
  <1> DEFINE Goal == RowsAreFresh' /\ EntriesAge' /\ RequestsAreFresh'
  <1>0. req \in [Requests -> Request] /\ domains \in SUBSET Domain
    BY DEF ResolverTypeOK, RegistryTypeOK
  <1>1. ASSUME NEW r \in Requests, (\E h \in Hostnames : Arrive(r, h)) \/ Middleware(r)
        PROVE  Goal
    BY <1>1, MiddlewareFresh
  <1>2. ASSUME NEW s \in Operators,
               \/ \E t \in Tenants, kind \in {"suspend", "activate"} : GetObject(s, kind, t)
               \/ TransactionStep(s)
        PROVE  Goal
    <2>1. since' = since /\ domains' = domains
      BY <1>2 DEF GetObject, TransactionStep, Update, BustCache, CommitSuspend, CommitActivate,
                  Abort, registryVars
    <2>2. \A h \in Hostnames : cache'[h] = cache[h] \/ cache'[h] = Miss
      BY <1>2 DEF GetObject, TransactionStep, Update, BustCache, CommitSuspend, CommitActivate,
                  Abort
    <2>3. req' = req \/ CommitActivate(s)
      BY <1>2 DEF GetObject, TransactionStep, Update, BustCache, CommitSuspend, Abort
    <2>4. CommitActivate(s) => op[s].tenant \in Tenants /\ Witness(op[s].tenant)
      BY DEF CommitActivate, Targeted
    <2>5. \A r \in Requests : /\ req'[r].pc = req[r].pc /\ req'[r].host = req[r].host
                              /\ req'[r].tenant = req[r].tenant
      BY <1>0, <2>3, <2>4, WitnessMoves
    <2>6. QED
      BY <2>1, <2>2, <2>5, NothingAges
  <1>3. ASSUME NEW t \in Tenants,
               Register(t) \/ EngineOpens(t) \/ EngineCloses(t) \/ DeleteTenant(t)
        PROVE  Goal
    <2>1. since' = since /\ cache' = cache /\ domains' \subseteq domains
      BY <1>3 DEF Register, EngineOpens, EngineCloses, DeleteTenant
    <2>2. req' = req \/ Witness(t)
      BY <1>3 DEF Register, EngineOpens, EngineCloses, DeleteTenant
    <2>3. \A r \in Requests : /\ req'[r].pc = req[r].pc /\ req'[r].host = req[r].host
                              /\ req'[r].tenant = req[r].tenant
      BY <1>0, <2>2, WitnessMoves
    <2>4. QED
      BY <2>1, <2>3, NothingAges
  <1>4. ASSUME NEW d \in Domain, AddDomain(d) \/ RemoveDomain(d)
        PROVE  Goal
    BY <1>0, <1>4, WriteDomainsFresh DEF AddDomain, RemoveDomain
  <1>5. ASSUME NEW d \in domains, NEW e \in Domain, ChangeDomain(d, e)
        PROVE  Goal
    BY <1>0, <1>5, WriteDomainsFresh DEF ChangeDomain
  <1>6. CASE Tick
    BY <1>6, TickFresh
  <1>7. QED
    BY <1>1, <1>2, <1>3, <1>4, <1>5, <1>6 DEF ResolverNext, Write

-----------------------------------------------------------------------------
\* Every step, and every stutter, keeps the invariant.
LEMMA StepResolverInv ==
  ResolverInv /\ [ResolverNext]_resolverVars => ResolverInv'
  <1>1. ASSUME ResolverInv, ResolverNext
        PROVE  ResolverInv'
    <2>1. ResolverTypeOK'
      BY <1>1, MiddlewareType, TransactionType, WriteType DEF ResolverInv, ResolverNext
    <2>2. Targeted' /\ Watched'
      BY <1>1, TargetedStep, WatchedStep DEF ResolverInv
    <2>3. RowsAreFresh' /\ EntriesAge' /\ RequestsAreFresh'
      BY <1>1, FreshStep DEF ResolverInv
    <2>4. QED
      BY <2>1, <2>2, <2>3 DEF ResolverInv
  <1>2. ASSUME ResolverInv, UNCHANGED resolverVars
        PROVE  ResolverInv'
    BY <1>2 DEF ResolverInv, ResolverTypeOK, RegistryTypeOK, Targeted, Watched, RowsAreFresh,
                EntriesAge, RequestsAreFresh, resolverVars, registryVars, externalVars, Owners
  <1>3. QED
    BY <1>1, <1>2

\* The invariant holds in every reachable state.
THEOREM ResolverInductive == ResolverSpec => []ResolverInv
  <1>1. QED
    BY InitResolverInv, StepResolverInv, PTL DEF ResolverSpec

\* Type correctness: every row, cache entry, request and transaction has its type.
THEOREM ResolverTypeCorrect == ResolverSpec => []ResolverTypeOK
  <1>1. ResolverInv => ResolverTypeOK
    BY DEF ResolverInv
  <1>2. QED
    BY <1>1, ResolverInductive, PTL

\* No request that arrives after a suspension has committed is served, whatever the cache
\* still holds and however many requests and operators there are.
THEOREM SuspensionIsImmediate == ResolverSpec => []ServedWhileReady
  <1>1. ResolverInv => ServedWhileReady
    BY DEF ResolverInv, Watched, ServedWhileReady
  <1>2. QED
    BY <1>1, ResolverInductive, PTL

\* The cache names a tenant for a host only if the host was that tenant's within the last
\* TTL, or was still being filled in so, however long fills take and whatever they race with.
THEOREM StalenessIsBounded == ResolverSpec => StalenessBounded
  <1> DEFINE Found(r) ==
               req[r].pc = "lookup" /\ req'[r].pc = "read_tenant" =>
                 since[<<req[r].host, req'[r].tenant>>] < TTL
  <1>1. ASSUME ResolverInv, [ResolverNext]_resolverVars, NEW r \in Requests
        PROVE  Found(r)
    <2> SUFFICES ASSUME req[r].pc = "lookup", req'[r].pc = "read_tenant"
                 PROVE  since[<<req[r].host, req'[r].tenant>>] < TTL
      OBVIOUS
    <2>1. CacheGet(r)
      <3>1. req \in [Requests -> Request]
        BY <1>1 DEF ResolverInv, ResolverTypeOK
      <3>2. ASSUME NEW q \in Requests, q # r, (\E h \in Hostnames : Arrive(q, h)) \/ Middleware(q)
            PROVE  req'[r] = req[r]
        BY <3>1, <3>2 DEF Middleware, Arrive, CacheGet, ReadDomain, FillCache, ReadTenant,
                          CacheError, Return
      <3>3. ASSUME Middleware(r) \/ \E h \in Hostnames : Arrive(r, h)
            PROVE  CacheGet(r)
        <4>1. "read_tenant" # "error"
          OBVIOUS
        <4>2. ~ CacheError(r)
          BY <3>1, <4>1 DEF CacheError, Request
        <4>3. QED
          BY <3>3, <4>2 DEF Middleware, Arrive, ReadDomain, FillCache, ReadTenant, Return, Answers
      <3>4. ASSUME NEW t \in Tenants, Witness(t)
            PROVE  req'[r].pc = req[r].pc
        BY <3>1, <3>4, WitnessMoves
      <3>5. ASSUME NEW s \in Operators, TransactionStep(s)
            PROVE  req'[r].pc = req[r].pc
        <4>1. CommitActivate(s) => op[s].tenant \in Tenants
          BY <1>1 DEF CommitActivate, ResolverInv, Targeted
        <4>2. QED
          BY <3>4, <3>5, <4>1 DEF TransactionStep, Update, BustCache, CommitSuspend, CommitActivate, Abort
      <3>6. ASSUME \/ Write \/ Tick \/ UNCHANGED resolverVars
                   \/ \E s \in Operators, t \in Tenants, kind \in {"suspend", "activate"} :
                        GetObject(s, kind, t)
            PROVE  req'[r].pc = req[r].pc
        BY <3>4, <3>6 DEF Write, Register, EngineOpens, EngineCloses, DeleteTenant, AddDomain,
              RemoveDomain, ChangeDomain, WriteDomains, Tick, GetObject, resolverVars
      <3>7. QED
        BY <1>1, <3>2, <3>3, <3>5, <3>6 DEF ResolverNext
    <2> DEFINE e == cache[req[r].host]
    <2>2. /\ req \in [Requests -> Request] /\ req[r].host \in Hostnames
          /\ cache \in [Hostnames -> Entry] /\ e \in Entry /\ TTL \in Nat
      BY <1>1, ResolverAssumption DEF ResolverInv, ResolverTypeOK, Request
    <2>3. e.left > 0 /\ req' = [req EXCEPT ![r] = [req[r] EXCEPT !.pc = "read_tenant",
                                                                !.tenant = e.tenant]]
      BY <2>1, <2>2 DEF CacheGet, Request, Entry
    <2>4. req'[r].tenant = e.tenant
      BY <2>2, <2>3 DEF Request
    <2>5. e.tenant \in Tenants /\ since[<<req[r].host, e.tenant>>] + e.left <= TTL
      BY <1>1, <2>2, <2>3 DEF ResolverInv, EntriesAge
    <2>6. since[<<req[r].host, e.tenant>>] \in Nat /\ e.left \in Nat
      BY <1>1, <2>2, <2>5 DEF ResolverInv, ResolverTypeOK, Entry
    <2> HIDE DEF e
    <2>7. QED
      BY <2>2, <2>3, <2>4, <2>5, <2>6
  <1>2. ResolverInv /\ [ResolverNext]_resolverVars => [\A r \in Requests : Found(r)]_resolverVars
    BY <1>1
  <1>3. QED
    BY <1>2, ResolverInductive, PTL DEF ResolverSpec, StalenessBounded
=============================================================================
