SPECIFICATION Spec
CONSTANTS
  Proxies <- MCProxies
  FailureThreshold = 2
  FatalThresholds = {0, 2}
  FlagCookie = "operator"
  ReplacementCap = 2
  MaxExpiries = 2
  MaxRestarts = 1
INVARIANTS
  TypeOK
  NoCookieOfLeftProxy
  RetryStartsFresh
PROPERTIES
  CappedCallReturns
