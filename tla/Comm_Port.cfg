\* A queue that holds two requests, and one failure of Windows.
SPECIFICATION Spec
CONSTANTS
    QueueSize = 3
    Budgets <- MCBudgets
INVARIANTS RequestsKept OnePassAfterStop
PROPERTIES ThreadsEnd WorkIsDone
CHECK_DEADLOCK FALSE
