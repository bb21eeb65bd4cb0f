SPECIFICATION Spec
CONSTANTS
    h = h
    n = n
    i1 = i1
    i2 = i2
    SearchError = SearchError
    Peers <- BothPeers
    Honest <- OneHonest
    Infohashes <- TwoInfohashes
    TxIds = {1}
    LocalResults <- SomeResults
    Scopes = {"n"}
    HonestSharing <- SharesContent
    OurSharing <- SharesEither
    BanThreshold = 20
    Burst = 1
    RankCap = 4
    Limit = 1
    MaxConns = 1
    MaxConnects = 3
    MaxUnasked = 2
CHECK_DEADLOCK FALSE
INVARIANTS HonestUncharged QueryAccounted NoZombies
PROPERTY BanHolds
