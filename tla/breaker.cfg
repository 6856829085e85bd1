SPECIFICATION Spec
CONSTANTS
  c1 = c1
  c2 = c2
  c3 = c3
  Callers <- ThreeCallers
  Timeout = 2
  ResetTimeout = 5
  Second = 2
INVARIANTS TypeOK OneProbe RetryAfterSuffices
PROPERTIES EveryCallReturns Recovers
