SPECIFICATION Spec
CONSTANTS
    Workers = {w1}
    Pollers = {q1}
    MaxTasks = 2
    MaxNotifiers = 1
    Capacities = {1, 2}
    MayThrow = TRUE
    None = None
PROPERTY DestructorReturns
\* A throwing notifier may leave the destructor waiting for ever.
CHECK_DEADLOCK FALSE
