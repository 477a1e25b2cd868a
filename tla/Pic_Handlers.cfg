\* Master lines 1 and 3, slave line 3; lines 3 are level triggered.
SPECIFICATION Spec
CONSTANTS
    NumLines = 4
    IRQs = {1, 3, 7}
    Base <- MCBase
    Masks <- MCMasks
    Level <- MCLevel
    MaxNesting = 2
    MaxRaises = 2
INVARIANT HandledOnce
PROPERTY RequestServed
CHECK_DEADLOCK FALSE
