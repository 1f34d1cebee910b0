SPECIFICATION Spec
CONSTANTS
    Nodes = {1, 2, 3}
    Vnodes = 2
    Points = 4
    Homes = {2}
    RF = 2
    Threads = {t1, t2}
    Dims = {1, 2}
    Thresholds = {0, 1}
    Seed = 1
    MaxStamp = 2
    Calls = {1, 2}
    Setups <- AllSetups
INVARIANTS
    TypeOK
    WalkFollowsFixedOrder
    AnswersHold
    VotersRoutable
    NoOrphanOverride
    AckedServed
    AckedRecoverable
    Reopens
SYMMETRY Symmetry
CHECK_DEADLOCK FALSE
