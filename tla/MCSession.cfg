SPECIFICATION PlaySpec
CONSTANTS
    i1 = i1
    a1 = a1
    a2 = a2
    k1 = k1
    None = None
    InfoHashes <- OneHash
    Threads <- TwoThreads
    Signers <- OneSigner
    MaxGen = 2
    Kinds = {"file", "magnet"}
    UserOps = {"remove", "pause", "crash"}
    IoFails = TRUE
SYMMETRY Symmetry
INVARIANTS NoResurrection PausePersisted SavedMeansDurable OrderlySessionWhole
