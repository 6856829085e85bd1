SPECIFICATION FairSpec
CONSTANTS
  c1 = c1
  c2 = c2
  api = api
  worker = worker
  Clients <- TwoClients
  Processes <- Both
  At <- ApiAndWorker
  Ops <- OpsByProcess
  Timeout = 1
  TTL = 2
  Lag = 1
  MaxWrites = 2
  Faults = {"db", "slow", "store"}
INVARIANTS TypeOK BoundedStaleness
PROPERTY StalenessHeals
