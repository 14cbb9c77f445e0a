SPECIFICATION FairSpec
CONSTANTS
  Handlers = {h1, h2}
  Usernames = {alice}
  PublicKeys = {k1}
  TenantIDs = {t1, t2}
  None = None
  SerialClients = TRUE
  Budget <- OneFailureEach
PROPERTY RemovalsComplete
CHECK_DEADLOCK FALSE
