SPECIFICATION ChipSpec
CONSTANTS
    BlockSize = 4
    IdentifySize = 2
    Setup <- MCSetup
    Tasks <- MCTasks
    Most <- MCMost
    Class <- MCClass
    DmaAddress <- MCDmaAddress
    Last = 79
INVARIANTS WindowsAnswer LinesJustified IdentifyInOrder PortsAsConfigured SettingsKeep
PROPERTIES BlockArrives BlitMoves
