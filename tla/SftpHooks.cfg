SPECIFICATION FairSpec
CONSTANTS
  Handlers = {h1, h2}
  Usernames = {alice}
  TenantIDs = {t1, t2}
  line = line
  blob = blob
  a = a
  b = b
  v1 = v1
  v2 = v2
  PublicKeys = {line}
  KeyOf <- OneKey
  Passwords = {}
  PasswordOf <- NoPasswords
  RecordKeys = {a, b}
  Values = {v1, v2}
  Files <- Sample
  Bad = Bad
  None = None
  Budget <- TwoUploads
INVARIANTS TypeOK RecordsAreTheTenantsOwn LatestFileIngested
PROPERTY FilesGetIngested
CHECK_DEADLOCK FALSE
