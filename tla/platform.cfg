SPECIFICATION PlatformSpec
CONSTANTS
  t1 = t1
  r1 = r1
  r2 = r2
  Users = {u1}
  Tenants = {t1}
  TenantOf <- MCTenantOf
  MaxSessions = 3
  Requests = {r1, r2}
  MaxQueued = 1
  Faults = {"broker", "worker", "registry"}
  Clients = {r1, r2}
  MaxFailures = 5
  LockTime = 2
  Longest = 3
  Secrets = {k1}
  NoSecret = NoSecret
  Callers = {r1, r2}
  Limit = 5
  Window = 2
  Calls = {r1, r2}
  MaxRetries = 2
  Creators = {r1, r2}
  Registrations = {o1, o2}
  Candidates <- MCCandidates
  Nobody = Nobody
  Runs = {p1, p2, p3}
  Pages = {r1, r2}
  NoPassword = NoPassword
  Subscriptions = {b1, b2}
  Editors = {e1}
SYMMETRY MCSymmetry
CHECK_DEADLOCK FALSE
INVARIANTS
  PlatformTypeOK
  SuspensionEndsSessions
  ReuseEndsSessions
  GuessesBounded
  LockBounded
  RefusalsEnd
  AcceptedBounded
  ExecutionsAccounted
  OrganizationsHaveTenants
  RevealedOnce
  SweepCatchesUp
  PastDueDeserved
PROPERTIES
  LockHolds
  RefinesContract
  RefinesEntry
  RefinesFailures
