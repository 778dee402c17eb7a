SPECIFICATION SpecRead
CONSTANTS
    Threads = {t1, t2}
    Sets = {s1, s2}
    Arrays = {a1, a2, a3}
    Pages = {p}
    Size = 1
    Values = {zero}
    Zero = zero
    Garbage = garbage
    Bytes = bytes
    MaxFailures = 1
    None = None
INVARIANTS
    PageComplete
    LockOrder
PROPERTY MutexReleased
\* The model stops where a null pointer is followed.
CHECK_DEADLOCK FALSE
