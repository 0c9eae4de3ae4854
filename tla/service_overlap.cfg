SPECIFICATION ServiceSpec
CONSTANTS
  Tenants = {t1}
  Jobs = {j1, j2}
  CustomHosts = {}
  contact = contact
  Emails = {contact}
  StaffEmails = {}
  ContactEmail <- MCContactEmail
  Nobody = Nobody
  Platform = Platform
  NoPassword = NoPassword
  Faults = {"registry", "postgres", "fineract"}
  Overlap = TRUE
CHECK_DEADLOCK FALSE
SYMMETRY JobSymmetry
INVARIANTS ServiceTypeOK ReadyHasPrimaryDomain SuccessMeansProvisioned CleanRollback
PROPERTIES RefinesPortal RunsEnd
