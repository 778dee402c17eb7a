SPECIFICATION Spec
CONSTANTS
    Threads = {t1}
    Buffers = {b1}
    Values = {zero, v}
    Zero = zero
    Garbage = garbage
    Unallocated = unallocated
    Uses = {}
    None = None
PROPERTY WritesArrive
