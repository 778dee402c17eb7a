SPECIFICATION Spec
CONSTANTS
    Threads = {t1, t2}
    Sets = {s1, s2}
    Arrays = {a1, a2, a3}
    Pages = {p}
    Size = 2
    Values = {zero, v}
    Zero = zero
    Garbage = garbage
    Bytes = bytes
    MaxFailures = 0
    None = None
SYMMETRY Symmetry
INVARIANTS
    TypeOK
    NotWild
    AccessSafe
    WritesAlone
    PageComplete
PROPERTY SetsHaveValues
