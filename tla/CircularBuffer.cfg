SPECIFICATION Spec
CONSTANTS
    f1 = f1
    f2 = f2
    Frame = {f1, f2}
    NoFrame = NoFrame
    Capacity = 3
    CounterMod = 3
INVARIANTS RingInv StoredWritten Conservation
PROPERTY FifoSpec
