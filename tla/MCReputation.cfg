SPECIFICATION Spec
CONSTANTS
    k1 = k1
    k2 = k2
    k3 = k3
    i1 = i1
    i2 = i2
    Keys <- MCKeys
    Self = k1
    Infohashes <- MCInfohashes
    Workers = {t1, t2}
    Searchers = {q1}
    Answers <- MCAnswers
    AlwaysTrusted = {k1}
    SeedList = {k3}
    Hash1 <- MCHash1
    Hash2 <- MCHash2
    BloomM = 7
    BloomK = 2
    MaxAuto = 1
    SourceCap = 1
    MinScore = 300
    MaxAge = 1
    Budgets <- MCBudgets
    Anchors = {k2}
    MaxTracked = 1
    EndorsementThreshold = 1
CHECK_DEADLOCK FALSE
INVARIANTS ConfirmedDurable DocksOnlyClaimers LookupSound RootedAdmission
