SPECIFICATION Spec
CONSTANTS
  Handlers = {h1, h2}
  Usernames = {alice, bob}
  PublicKeys = {k1}
  TenantIDs = {t1, t2, t3}
  None = None
  SerialClients = TRUE
  Budget <- OneFailureEach
SYMMETRY Interchangeable
INVARIANTS TypeOK PrefixIsolation AgreeUnlessDisturbed HookTrailsSFTPGo
PROPERTIES EstablishedAccountsStay ImplementsDirectory
CHECK_DEADLOCK FALSE
