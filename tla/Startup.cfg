SPECIFICATION FairSpec
CONSTANTS
  first = first
  second = second
  third = third
  fourth = fourth
  file = file
  other = other
  elsewhere = elsewhere
  set = set
  wrong = wrong
  Processes = {first, second, third, fourth}
  Environment <- Settings
  Fallback <- Defaults
  Databases = {file, other}
  Unusable = {wrong}
  None = None
  Budget <- OneOfEach
INVARIANTS TypeOK ServesCompletely
PROPERTIES StartsFailForAReason ComesUp
CHECK_DEADLOCK FALSE
