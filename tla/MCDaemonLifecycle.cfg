SPECIFICATION FairSpec
CONSTANTS
    Torrents = {"t1"}
    Jobs = {"j1"}
    Callers = {"c1", "c2"}
    Configs <- WithAndWithoutIndex
CHECK_DEADLOCK FALSE
INVARIANTS CloseOrderly RestoredComplete
PROPERTY CloseReturns
