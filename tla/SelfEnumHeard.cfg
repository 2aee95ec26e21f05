SPECIFICATION FairSpec
CONSTANTS
    MaxCanId = 127
    Bits = 8
    LastCanId = 99
    Priority = {11}
    CanId = {1, 2}
    ENUMERATION_TIMEOUT = 2
    ENUMERATION_HOLDOFF = 4
    ClockMod = 8
    MaxLag = 1
    MaxAsked = 1
PROPERTY HeardNotTaken
CHECK_DEADLOCK FALSE
