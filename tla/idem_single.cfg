SPECIFICATION Spec
CONSTANTS
  r1 = r1
  r2 = r2
  r3 = r3
  i1 = i1
  i2 = i2
  Reqs <- ThreeReqs
  Instances <- One
  At <- ThreeOnOne
  Timeout = 1
  HandlerMax = 1
  ClaimTTL = 5
  ResponseTTL = 6
  Poll = 1
  Unreliable = {"get"}
INVARIANTS OneHandler ClaimIsLive
