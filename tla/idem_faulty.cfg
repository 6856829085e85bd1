SPECIFICATION FairSpec
CONSTANTS
  r1 = r1
  r2 = r2
  r3 = r3
  i1 = i1
  i2 = i2
  Reqs <- TwoReqs
  Instances <- Two
  At <- TwoOnTwo
  Timeout = 1
  HandlerMax = 3
  ClaimTTL = 5
  ResponseTTL = 6
  Poll = 1
  Unreliable = {"get", "claim", "set", "del"}
INVARIANT TypeOK
PROPERTIES EveryoneAnswered RetryIsReplayed
