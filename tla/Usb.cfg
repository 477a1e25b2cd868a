SPECIFICATION UsbSpec
CONSTANTS
    RootPorts = 2
    Addresses = {1, 2}
    Owned <- MCOwned
    Enumerated <- MCEnumerated
    Sizes = {0, 8, 20}
    Foci <- MCFoci
INVARIANT PacketsFind
PROPERTIES ConnectionsNoticed TransfersFaithful
CHECK_DEADLOCK FALSE
