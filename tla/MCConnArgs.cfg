SPECIFICATION Spec
CONSTANTS
    c1 = c1
    c2 = c2
    Conns = {c1, c2}
    Script <- TwoScripts
    Splitting = {c1}
    InitPipe = 1
    InitBuf = 3
    MaxFaults = 1
INVARIANT ArgsIntact
