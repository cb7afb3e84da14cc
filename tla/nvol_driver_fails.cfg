SPECIFICATION FairSpec
CONSTANTS
  k1 = k1
  k2 = k2
  k3 = k3
  v1 = v1
  v2 = v2
  Keys <- OneKey
  Vals = {v1, v2}
  LocalVals = {v1}
  NoKey = NoKey
  NoVal = NoVal
  N = 2
  Headroom = 1
  Puts <- OnePut
  Deletable = {k1}
  Faults = {"tornErase", "writeFail", "headerFail"}
INVARIANTS
  IndexChecksHold
PROPERTY CallsReturn
