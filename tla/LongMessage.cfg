SPECIFICATION Spec
CONSTANTS
  Frag = 2
  Senders = {1, 2}
  Streams = {1, 2}
  Subscribed = {1}
  Lengths = {0, 3, 4, 6}
  BufLen = 3
  SeqMod = 3
  LenMod = 5
  MaxMessages = 2
  MaxLost = 1
INVARIANTS TypeOK CleanDelivered
PROPERTIES CompleteIsWhole Released
CHECK_DEADLOCK FALSE
