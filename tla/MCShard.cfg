SPECIFICATION Spec
CONSTANTS
    Keys = {k1, k2}
    Vectors = {v}
    Tomb = Tomb
    Unseen = Unseen
    MaxHlc = 2
    SnapThreshold = 3
    Setups <- MCSetups
INVARIANTS
    TypeOK
    AckedDurable
    LiveIsReplay
    SnapshotWithinStableWal
PROPERTIES
    VersionsAdvance
    ImplementsDurableMap
