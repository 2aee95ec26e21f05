SPECIFICATION RxSpec
CONSTANTS
    MaxFrames = 8
    Frame = {1, 2, 3, 4, 5, 6, 7, 8}
    NoFrame = 0
    Torn = 99
    Capacity = 4
    CounterMod = 3
INVARIANTS NeverNull LossesCounted
PROPERTY QuietDrain
CHECK_DEADLOCK FALSE
