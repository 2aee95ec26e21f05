SPECIFICATION FairSpec
CONSTANTS
    MaxCanId = 3
    Bits = 2
    LastCanId = 2
    Priority = {0, 1, 2}
    CanId = {0, 1}
    ENUMERATION_TIMEOUT = 2
    ENUMERATION_HOLDOFF = 4
    ClockMod = 8
    MaxLag = 1
    MaxAsked = 1
INVARIANTS TypeOK FlagsAgree
PROPERTIES LowNotTaken WindowHeld EnumerationEnds
CHECK_DEADLOCK FALSE
