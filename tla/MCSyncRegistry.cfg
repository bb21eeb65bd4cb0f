SPECIFICATION RegistrySpec
CONSTANTS
    x1 = x1
    x2 = x2
    x3 = x3
    s1 = s1
    s2 = s2
    s3 = s3
    s4 = s4
    h1 = h1
    h2 = h2
    Closer = Closer
    None = None
    RemoteTx <- TwoTx
    LocalTx <- ThirdTx
    Sessions <- FourSessions
    Handlers <- TwoHandlers
    Cap = 1
    Profiles = {{"empty", "need", "end", "reap", "close", "start"}, {"rebegin", "need", "reap", "start"}}
SYMMETRY Symmetry
CHECK_DEADLOCK FALSE
INVARIANTS PumpsAccounted ClosedPeerForgotten
