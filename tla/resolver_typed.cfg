SPECIFICATION ResolverSpec
CONSTANTS
  Tenants = {t1}
  CustomHosts = {typed, clean}
  Jobs = {}
  Emails = {contact}
  StaffEmails = {}
  ContactEmail <- MCContactEmail
  Nobody = Nobody
  Platform = Platform
  NoPassword = NoPassword
  Faults = {}
  typed = typed
  clean = clean
  Normal <- MCNormal
  Requests = {r1}
  Operators = {}
  TTL = 1
  RedisFails = FALSE
PROPERTY NoFalseNotFound
