SPECIFICATION FairTaskSpec
CONSTANTS
  Tenants = {t1}
  CustomHosts = {}
  Jobs = {j1, j2}
  TaskIds = {k1, k2}
  MaxRetries = 1
  MaxRequeues = 0
  contact = contact
  Emails = {contact}
  StaffEmails = {}
  ContactEmail <- MCContactEmail
  Nobody = Nobody
  Platform = Platform
  NoPassword = NoPassword
  Faults = {"postgres", "broker"}
CHECK_DEADLOCK FALSE
PROPERTY QueuedTaskSettles
