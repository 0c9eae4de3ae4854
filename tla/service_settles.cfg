SPECIFICATION FairServiceSpec
CONSTANTS
  Tenants = {t1}
  Jobs = {j1, j2}
  CustomHosts = {}
  contact = contact
  Emails = {contact}
  StaffEmails = {}
  ContactEmail <- MCContactEmail
  Nobody = Nobody
  Platform = Platform
  NoPassword = NoPassword
  Faults = {"postgres", "fineract", "broker"}
  Overlap = TRUE
CHECK_DEADLOCK FALSE
PROPERTY TenantSettles
