SPECIFICATION Spec
CONSTANTS
    Keys = {k1}
    Slots <- MCSlots
    PageOf <- MCPageOf
    WordOf <- MCWordOf
    LargePages <- MCLargePages
    MaxWrites = 2
    MaxEpoch = 2
    MaxLent = 0
    MaxFaults = 0
INVARIANT
    NewestWins
CHECK_DEADLOCK FALSE
