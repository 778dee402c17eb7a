SPECIFICATION Spec
CONSTANTS
    Workers = {w1, w2}
    Pollers = {q1}
    MaxTasks = 2
    MaxNotifiers = 2
    Capacities = {0, 2}
    MayThrow = TRUE
    None = None
INVARIANTS
    TypeOK
    CountExact
    OutcomeNotLost
    NoCallAfterRemoval
    FreedQueueUnused
    WaitsForWork
PROPERTIES
    AdmitWithinCapacity
    WriteReturns
    DestructorUnblocked
    LedgerSpec
\* A throwing notifier may leave the destructor waiting for ever.
CHECK_DEADLOCK FALSE
