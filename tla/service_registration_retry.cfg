SPECIFICATION ServiceSpec
CONSTANTS
  Tenants = {t1}
  Jobs = {j1, j2}
  CustomHosts = {}
  contact = contact
  Emails = {contact}
  StaffEmails = {}
  ContactEmail <- MCContactEmail
  Nobody = Nobody
  Platform = Platform
  NoPassword = NoPassword
  Faults = {"fineract"}
  Overlap = FALSE
CHECK_DEADLOCK FALSE
INVARIANT RegistrationCanBeRetried
