SPECIFICATION Spec
CONSTANTS
  RingSize = 1
  SndBuf = 1
  MaxCan = 2
  MaxGc = 1
  MaxOwn = 1
  MaxConns = 2
  MaxPoolFails = 1
INVARIANT ForwardedInOrder
PROPERTIES BusHeard ClosesBehind
CHECK_DEADLOCK FALSE
