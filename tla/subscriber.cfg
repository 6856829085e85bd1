SPECIFICATION FairSpec
CONSTANTS
  l1 = l1
  l2 = l2
  Loops <- TwoLoops
  MaxChannels = 5
  Faults = {"close", "error", "batch", "crash"}
INVARIANTS TypeOK OneConsumer NoCloseOverlooked
PROPERTY EventuallySubscribed
CHECK_DEADLOCK FALSE
