SPECIFICATION FairSpec
CONSTANTS
    p1 = p1
    p2 = p2
    k1 = k1
    k2 = k2
    Pubs <- TwoPubs
    NTorrents = 1
    MaxFaults = 1
    Handlers <- TwoHandlers
    None = None
    Local = Local
    MaxGen = 2
    MaxCalls = 2
    Env = {"swap", "local", "unfollow"}
CHECK_DEADLOCK FALSE
INVARIANTS ImportsSound FollowsSaved
PROPERTIES ImportsOnlyAdvance CatchesUp
