SPECIFICATION Spec
CONSTANTS
    Keys = {k1, k2}
    Slots <- MCSlots
    PageOf <- MCPageOf
    WordOf <- MCWordOf
    LargePages <- MCLargePages
    MaxWrites = 2
    MaxEpoch = 3
    MaxLent = 1
    MaxFaults = 1
INVARIANTS
    
    NoEarlyFree
    NoSlotLost
    TickWaitsForWorker
SYMMETRY KeySymmetry
CHECK_DEADLOCK FALSE
