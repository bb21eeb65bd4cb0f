SPECIFICATION PublisherSpec
CONSTANTS
    c1 = c1
    c2 = c2
    Contents <- TwoContents
    Empty = Empty
    NoSnapshot = NoSnapshot
    MaxClock = 3
    MaxGen = 5
CONSTRAINT StampBound
CHECK_DEADLOCK FALSE
INVARIANTS SeedsDoNotAccumulate AdvertisedKeptSeeded
PROPERTY ImplementsFeed
