SPECIFICATION Spec
CONSTANTS
  m1 = m1
  m2 = m2
  s1 = s1
  s2 = s2
  Msgs <- TwoMsgs
  Kind <- TwoKinds
  Slots <- TwoSlots
  MaxRetries = 1
  MaxRestarts = 1
  Faults = {"db", "late", "broker", "crash", "expiry"}
INVARIANTS OnceInv AtMostOnce PendingIsCarried BoundedDuplication
PROPERTY RefinesQueuedWrite
SYMMETRY SlotSymmetry
CHECK_DEADLOCK FALSE
