\* Two callers and spurious wakeups.
SPECIFICATION LaterSpec
CONSTANTS
    Callers = {cpu, reader}
    Delays = {1, 2}
    Spurious = TRUE
    MaxCalls = 3
    MaxTime = 3
INVARIANT OneLateInvocation
PROPERTY StopEndsThread
CHECK_DEADLOCK FALSE
