SPECIFICATION FairSpec
CONSTANTS
  Handlers = {h1, h2, h3}
  APIKeys = {k1, k2, k3, k4}
  Tokens = {right, wrong}
  BootstrapToken = right
  None = None
  Budget <- OneFailureEach
INVARIANTS TypeOK DeliveredKeysWork NoMoreKeysThanRacers
PROPERTIES WindowCloses SomeoneGetsAKey
