SPECIFICATION Spec
CONSTANTS
  m1 = m1
  m2 = m2
  s1 = s1
  s2 = s2
  Msgs <- OneMsg
  Kind <- OneKind
  Slots <- TwoSlots
  MaxRetries = 1
  MaxRestarts = 0
  Faults = {"db", "store"}
INVARIANT FailedMeansNotApplied
CHECK_DEADLOCK FALSE
