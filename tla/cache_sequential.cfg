SPECIFICATION Spec
CONSTANTS
  c1 = c1
  c2 = c2
  api = api
  worker = worker
  Clients <- OneClient
  Processes <- ApiOnly
  At <- OneAtApi
  Ops <- AllButDeleteAll
  Timeout = 1
  TTL = 3
  Lag = 1
  MaxWrites = 3
  Faults = {"db"}
INVARIANT FallbackIsCurrent
