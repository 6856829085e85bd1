SPECIFICATION Spec
CONSTANTS
  m1 = m1
  m2 = m2
  s1 = s1
  s2 = s2
  Msgs <- OneMsg
  Kind <- OneKind
  Slots <- TwoSlots
  MaxRetries = 1
  MaxRestarts = 2
  Faults = {"db", "late", "broker", "crash", "expiry", "backpressure", "store", "close"}
INVARIANT CompletedMeansApplied
SYMMETRY SlotSymmetry
CHECK_DEADLOCK FALSE
