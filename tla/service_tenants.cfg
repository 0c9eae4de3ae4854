SPECIFICATION ServiceSpec
CONSTANTS
  Tenants = {t1, t2}
  Jobs = {j1, j2}
  CustomHosts = {}
  contact = contact
  Emails = {contact}
  StaffEmails = {}
  ContactEmail <- MCContactEmail
  Nobody = Nobody
  Platform = Platform
  NoPassword = NoPassword
  Faults = {"registry", "postgres", "crash"}
  Overlap = FALSE
CHECK_DEADLOCK FALSE
SYMMETRY Symmetry
INVARIANTS ReadyIsServable CredentialSurvivesCleanRetries
PROPERTY RunsStayApart
