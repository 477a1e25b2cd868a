\* Two guests: one that initializes the controllers and uses automatic end of
\* interrupt, special mask mode and reads, and one that finds them programmed
\* and uses rotation, polling and level triggering.
SPECIFICATION CommandsSpec
CONSTANTS
    NumLines = 3
    IRQs = {1, 4}
    Base <- MCBase
    Masks <- MCMasks
    Guests <- MCGuests
    MaxQueue = 1
INVARIANT UpdateServes
