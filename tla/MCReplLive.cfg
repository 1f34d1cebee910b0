SPECIFICATION FairSpec
CONSTANTS
    Nodes = {1, 2}
    Replicas = {1, 2}
    Coordinators = {1}
    Writes = {w1}
    Reads = {r1}
    Levels = {"QUORUM"}
    MaxHlc = 1
    MaxCrashes = 1
    MaxLate = 1
    Replayers = {1}
    FaultyDisks = {1, 2}
    Nobody = Nobody
INVARIANT TypeOK
PROPERTIES
    RequestsEnd
    HintsGetDelivered
CHECK_DEADLOCK FALSE
