SPECIFICATION FairResolverSpec
CONSTANTS
  Tenants = {t1}
  CustomHosts = {}
  Jobs = {}
  Emails = {contact}
  StaffEmails = {}
  ContactEmail <- MCContactEmail
  Nobody = Nobody
  Platform = Platform
  NoPassword = NoPassword
  Faults = {}
  typed = typed
  clean = clean
  Normal <- MCNormal
  Requests = {r1}
  Operators = {s1, s2}
  TTL = 1
  RedisFails = TRUE
PROPERTY SuspendTakesEffect
