SPECIFICATION Spec
CONSTANTS
    MaxEvents = 3
    NumEVs = 2
    IdBytes = 2
    Byte = {0, 1, 255}
    Erased = 255
    H = 7
    Hash <- MCHash
    Taught <- MCTaught
    EvIndices = {0, 1, 2}
    EvVals = {0}
INVARIANTS TypeOK HashCoherent CollisionsExact EventsUnique LookupCorrect CountExact
PROPERTY MapSpec
