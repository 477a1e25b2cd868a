\* Every register and the driver, in any order, and the flow control.
SPECIFICATION Spec
CONSTANTS
    z = z
    a = a
    Bytes <- MCBytes
    Zero = z
    FifoLength = 3
    Levels = {1, 2}
    EnableSets <- MCEnableSets
INVARIANT InterruptMatchesState
PROPERTIES OverrunKeepsContents ReaderResumes
CHECK_DEADLOCK FALSE
