SPECIFICATION Spec
CONSTANTS
    Threads = {t1, t2}
    Buffers = {b1, b2}
    Values = {zero, v}
    Zero = zero
    Garbage = garbage
    Unallocated = unallocated
    Uses = {"loadFails"}
    None = None
VIEW StateInUse
INVARIANTS
    TypeOK
    ReadsLogical
    NoLeak
    OneLoader
    MutexHeldInside
PROPERTIES
    FollowsUnion
    KeepsContents
    CallReturns
\* The model stops where a wrong pointer is followed.
CHECK_DEADLOCK FALSE
