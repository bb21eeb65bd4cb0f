SPECIFICATION FairSpec
CONSTANTS
    i1 = i1
    i2 = i2
    i3 = i3
    kw1 = kw1
    kw2 = kw2
    None = None
    Hashes <- ThreeHashes
    Keywords <- TwoKeywords
    Name <- SharedName
    HitCap = 2
    QueueSize = 1
    Restored = {i3}
    Listed <- OldManifest
    Removable = {i1}
    MaxAdds = 2
    MaxFaults = 1
CHECK_DEADLOCK FALSE
INVARIANT ManifestSound
PROPERTY Converges
