\* Fatal errors stop the emulation, as the command line front end sets it.
SPECIFICATION Spec
CONSTANTS
    t1 = t1
    t2 = t2
    None = None
    Timers <- MCTimers
    ErrorCodes = {5, 7}
    BugChecks = {1}
    StopOnFatal = TRUE
    StopOnBugChecks = TRUE
INVARIANT TimerEndsCleanly
PROPERTIES StopsOnFatalError DestructorEnds
CHECK_DEADLOCK FALSE
