SPECIFICATION Spec
CONSTANTS
  Proxies <- MCProxies
  FailureThreshold = 2
  FatalThresholds = {0, 2}
  FlagCookie = "none"
  ReplacementCap = 2
  MaxExpiries = 2
  MaxRestarts = 0
INVARIANT NoFalseEnd
