SPECIFICATION MCSpec
CONSTANTS
    Slots = 16384
    MaxShards = 6
    Open = "{"
    Close = "}"
    Plain = {"a", "b"}
    MaxLen = 6
INVARIANTS Partition  CoLocated
CHECK_DEADLOCK FALSE
