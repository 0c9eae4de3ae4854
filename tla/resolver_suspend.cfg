SPECIFICATION ResolverSpec
CONSTANTS
  Tenants = {t1}
  CustomHosts = {}
  Jobs = {}
  Emails = {contact}
  StaffEmails = {}
  ContactEmail <- MCContactEmail
  Nobody = Nobody
  Platform = Platform
  NoPassword = NoPassword
  Faults = {"registry"}
  typed = typed
  clean = clean
  Normal <- MCNormal
  Requests = {r1, r2}
  Operators = {s1}
  TTL = 2
  RedisFails = TRUE
INVARIANTS ResolverTypeOK ServedWhileReady
PROPERTY StalenessBounded
SYMMETRY ResolverSymmetry
