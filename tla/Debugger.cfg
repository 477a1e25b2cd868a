SPECIFICATION SessionSpec
CONSTANTS
    Width = 16
    PageSize = 4
    LargeSize = 8
    RamSize = 12
    Tables <- MCTables
    Reserved = {"one"}
    Backends = {"kvm", "haxm", "whvp"}
    GetMayFail = TRUE
    Powerup <- MCPowerup
    GuestSteps <- MCSteps
    GuestStores = {5}
    ClientRequests <- MCRequests
    MaxRequests = 3
    Commands <- MCCommands
    MaxCommands = 3
    MaxTimeouts = 0
    Digit = 2
    RegisterBytes = 2
INVARIANTS Coherent RepliesMatch
PROPERTIES PlainProcessor WritesReachProcessor CommandAnswered
CHECK_DEADLOCK FALSE
