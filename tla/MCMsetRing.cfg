SPECIFICATION Spec
CONSTANTS
    N = 3
    k1 = k1
    k2 = k2
    k3 = k3
    t1 = t1
    t2 = t2
    t3 = t3
    c1 = c1
    c2 = c2
    c3 = c3
    Keys = {k1, k2, k3}
    Txns = {t1, t2, t3}
    Conns = {c1, c2, c3}
    None = None
    Owner <- RingOwner
    Home <- RingHome
    Prog <- RingProg
    Pairs <- RingPairs
    Present = {k1}
    Cap = 2
    MaxInflight = 1
    MaxOom = 0
INVARIANTS AtomicVisibility SerialOrder WaitsForOlder StatAlive NoneStranded
