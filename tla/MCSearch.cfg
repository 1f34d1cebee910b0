SPECIFICATION Spec
CONSTANTS
    M = 2
    M0 = 2
    EfConstruction = 2
    Ranks <- MCRanks
    Setups <- MCSetups
INVARIANTS
    WellLayered
    HoldWhatWasStored
    ExactWhenBroad
    SearchSound
    MergedIsTopK
    SyncingIsLastResort
CHECK_DEADLOCK FALSE
