SPECIFICATION Spec
CONSTANTS
    Threads = {t1}
    Buffers = {b1}
    Values = {zero, v}
    Zero = zero
    Garbage = garbage
    Unallocated = unallocated
    Uses = {"loadFails"}
    None = None
INVARIANT LoadFindsFileInfo
\* The model stops where a wrong pointer is followed.
CHECK_DEADLOCK FALSE
