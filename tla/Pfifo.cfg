\* Two channels, a write to DMA_PUT for each and a switch; the guest stops the puller or PGRAPH once.
SPECIFICATION Spec
CONSTANTS
    Channels = {c1, c2}
    Memory <- MCMemory
    Starts <- MCStarts
    Puts = {7}
    Drained = TRUE
    MaxSubmits = 2
    MaxSwitches = 1
    MaxPauses = 1
CHECK_DEADLOCK FALSE
INVARIANTS RightContext OneLateMethod
PROPERTIES InOrder AllFinished
