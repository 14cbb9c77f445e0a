SPECIFICATION FairSpec
CONSTANTS
  Handlers = {h1}
  Usernames = {alice}
  PublicKeys = {k1}
  TenantIDs = {t1}
  None = None
  SerialClients = TRUE
  Budget <- OneFault
PROPERTY EveryRemovalCompletes
CHECK_DEADLOCK FALSE
