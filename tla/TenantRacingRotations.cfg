SPECIFICATION Spec
CONSTANTS
  Handlers = {h1, h2}
  Usernames = {alice}
  PublicKeys = {k1, k2}
  TenantIDs = {t1}
  None = None
  SerialClients = FALSE
  Budget <- NoFailure
INVARIANT KeysAgreeWhenQuiet
CHECK_DEADLOCK FALSE
