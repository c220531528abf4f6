SPECIFICATION Spec
CONSTANTS
    N = 2
    k1 = k1
    k2 = k2
    k3 = k3
    t1 = t1
    t2 = t2
    t3 = t3
    c1 = c1
    c2 = c2
    c3 = c3
    Keys = {k1, k2}
    Txns = {t1, t2, t3}
    Conns = {c1, c2}
    None = None
    Owner <- PairOwner
    Home <- PairHome
    Prog <- PipeProg
    Pairs <- DupPairs
    Present = {k1, k2}
    Cap = 2
    MaxInflight = 2
    MaxOom = 0
INVARIANTS PipelineOrder LastPairWins
