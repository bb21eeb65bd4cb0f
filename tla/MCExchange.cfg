SPECIFICATION FairSpec
CONSTANTS
    Plays <- TwoPlays
    MaxPending = 2
    RecCap = 1
CHECK_DEADLOCK FALSE
INVARIANTS HonestSession Reconciled
PROPERTY Finalizes
