SPECIFICATION ServiceSpec
CONSTANTS
  Tenants = {t1}
  Jobs = {j1}
  CustomHosts = {}
  contact = contact
  Emails = {contact}
  StaffEmails = {}
  ContactEmail <- MCContactEmail
  Nobody = Nobody
  Platform = Platform
  NoPassword = NoPassword
  Faults = {"registry"}
  Overlap = FALSE
CHECK_DEADLOCK FALSE
INVARIANT RollbackUndoesActivate
