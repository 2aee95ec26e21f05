SPECIFICATION ExSpec
CONSTANTS
  Frag = 2
  Nodes = {a, b}
  a = a
  b = b
  Streams = {s, t, u}
  Subscribed = {s, t, u}
  s = s
  t = t
  u = u
  Messages <- Shapes
  NumTx = 2
  NumRx = 2
  BufLen = 3
  Crcs = {0, 1}
  Checks = {TRUE}
  MaxMessages = 3
  MaxLost = 1
SYMMETRY Symmetric
INVARIANTS ExTypeOK StreamsApart OneContext CompleteIsExact
CHECK_DEADLOCK FALSE
