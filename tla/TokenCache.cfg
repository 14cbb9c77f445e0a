SPECIFICATION FairSpec
CONSTANTS
  Callers = {c1, c2}
  Lifetimes = {1, 3}
  Slack = 1
  MaxTime = 4
  None = None
  Budget <- TwoOutages
INVARIANTS TypeOK TimelyCallsAccepted HeldForOneFetch StaleCacheIsBounded
PROPERTIES OneFetchPerLifetime EveryCallEnds
