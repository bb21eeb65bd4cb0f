SPECIFICATION FairSpec
CONSTANTS
    t1 = t1
    t2 = t2
    g1 = g1
    f1 = f1
    Nobody = Nobody
    Torrents <- TwoTorrents
    Files <- OneFile
    Pool <- OneGoroutine
    Caps = {2}
    InitCap = 1
    Plays <- TwoPlays
CHECK_DEADLOCK FALSE
INVARIANTS CapRespected NoStrandedDownload
PROPERTY QueueDrains
