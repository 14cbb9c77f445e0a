SPECIFICATION Spec
CONSTANTS
  Handlers = {h1}
  Usernames = {alice}
  PublicKeys = {k1}
  TenantIDs = {t1}
  None = None
  SerialClients = TRUE
  Budget <- OneDisconnect
PROPERTY RollbacksUndo
CHECK_DEADLOCK FALSE
