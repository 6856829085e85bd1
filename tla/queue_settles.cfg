SPECIFICATION FairSpec
CONSTANTS
  m1 = m1
  m2 = m2
  s1 = s1
  s2 = s2
  Msgs <- TwoMsgs
  Kind <- TwoKinds
  Slots <- TwoSlots
  MaxRetries = 2
  MaxRestarts = 0
  Faults = {"db", "late"}
INVARIANTS TypeOK InProgressIsRunning
PROPERTY EventuallySettled
CHECK_DEADLOCK FALSE
