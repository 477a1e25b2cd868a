SPECIFICATION Spec
CONSTANTS
    MaxTimers = 2
    NumEDs = 1
    NumTDs = 3
    Delays <- MCDelays
    Starts = {1}
    FrameCount = 1
    FlagSets <- MCFlags
    Responses = {"ok", "error", "nak"}
    Transitions <- MCTransitions
    Enables <- MCEnables
    Setups <- MCSetups
    Masks <- MCMasks
    FrameModulo = 8
    MaxFrames = 3
    MaxWrites = 5
INVARIANTS FrameSerialised WritebackInTime
CHECK_DEADLOCK FALSE
