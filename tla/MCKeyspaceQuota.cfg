SPECIFICATION Spec
CONSTANTS
    k1 = k1
    k2 = k2
    k3 = k3
    Keys = {k1, k2, k3}
    Hash <- MCHash
    Class <- MCClass
    NrClasses = 2
    InitCap = 1
    MaxCap = 4
    InitOvf = 1
    MaxOvf = 2
    RehashStep = 1
    Objs = {1, 2, 3, 4, 5, 6}
    Home <- MCHome
    Quota = 3
    Times = {1, 2}
    TtlKeys = {k1, k2}
    MaxTime = 1
    MaxMsets = 1
    EvictBatch = 2
    MaxWork = 2
INVARIANT QuotaEvicts
