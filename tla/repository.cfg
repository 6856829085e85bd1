SPECIFICATION Spec
CONSTANTS
  c1 = c1
  c2 = c2
  c3 = c3
  t1 = t1
  t2 = t2
  s = s
  Clients <- ThreeClients
  Ids <- TwoIds
  Seed <- s
  Fields = {"name", "status"}
  Adapters = {"postgres", "mongo", "memory"}
INVARIANTS TypeOK AnswersOwnWrite MissingWasAbsent OneRemover
PROPERTY RefinesTaskStore
SYMMETRY CallerSymmetry
CHECK_DEADLOCK FALSE
