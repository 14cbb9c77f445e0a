SPECIFICATION Spec
CONSTANTS
  Handlers = {h1, h2}
  Usernames = {alice, bob}
  PublicKeys = {k1}
  TenantIDs = {t1, t2, t3}
  None = None
  SerialClients = FALSE
  Budget <- LostCall
SYMMETRY Interchangeable
INVARIANT PrefixIsolation
CHECK_DEADLOCK FALSE
PROPERTIES AddressedFirst ImplementsTable
