SPECIFICATION TaskSpec
CONSTANTS
  Tenants = {t1}
  CustomHosts = {h1}
  Jobs = {j1, j2}
  TaskIds = {k1, k2}
  MaxRetries = 1
  MaxRequeues = 1
  contact = contact
  Emails = {contact}
  StaffEmails = {}
  ContactEmail <- MCContactEmail
  Nobody = Nobody
  Platform = Platform
  NoPassword = NoPassword
  Faults = {"registry", "postgres", "broker", "crash"}
CHECK_DEADLOCK FALSE
SYMMETRY TaskSymmetry
INVARIANTS TaskTypeOK ReadyHasPrimaryDomain ReadyHasDatabase SuccessMeansProvisioned TasksDecideStatus
PROPERTIES RefinesPortal TasksEnd
