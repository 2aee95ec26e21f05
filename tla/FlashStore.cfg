SPECIFICATION Spec
CONSTANTS
  Bits = {1, 2}
  NvStart = 5
  NumNvs = 1
  NumEvents = 2
  PageSize = 4
  NodeNums <- Numbers
  CanIds <- Ids
  Values <- Bytes
  ResetMark <- Mark
INVARIANTS ReadBack IdentityWhole
