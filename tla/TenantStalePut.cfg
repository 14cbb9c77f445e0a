SPECIFICATION Spec
CONSTANTS
  Handlers = {h1, h2}
  Usernames = {alice}
  PublicKeys = {k1}
  TenantIDs = {t1, t2}
  None = None
  SerialClients = FALSE
  Budget <- NoFailure
PROPERTY PutChangesKeysOnly
CHECK_DEADLOCK FALSE
