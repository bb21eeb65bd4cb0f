SPECIFICATION FairAggregate
CONSTANTS
    Keywords <- MCKeywords
    Infohashes = {1, 2}
    Fetchers = {"r1", "r2"}
    PageSize = 8
    RecordSize = 2
    MaxTrees = 4
    AggregatePlays <- MCPlays
INVARIANTS AnswersRight RefreshedIsCurrent SeedsHeld
PROPERTY Converges
