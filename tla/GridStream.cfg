SPECIFICATION StreamSpec
CONSTANTS
  Clients = {c1, c2}
  Frames <- Sent
  MaxFrames = 2
  MaxUnread = 15
  GC_MAX_MSG = 14
  MaxAllocFails = 1
SYMMETRY Symmetric
INVARIANTS TypeOK AllQueued
CHECK_DEADLOCK FALSE
