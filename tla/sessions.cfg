SPECIFICATION SessionsSpec
CONSTANTS
  t1 = t1
  t2 = t2
  u1 = u1
  r1 = r1
  r2 = r2
  Users = {u1, u2}
  Tenants = {t1, t2}
  TenantOf <- MCTenantOf
  MaxSessions = 2
  Requests = {r1, r2}
  MaxQueued = 1
  Faults = {"broker", "worker", "registry"}
SYMMETRY MCSymmetry
CHECK_DEADLOCK FALSE
INVARIANT KeepsSessions
