SPECIFICATION Spec
CONSTANTS
    Nodes = {1, 2, 3}
    Replicas = {1, 2, 3}
    Coordinators = {1}
    Writes = {w1, w2}
    Reads = {}
    Levels = {"ONE"}
    MaxHlc = 2
    MaxCrashes = 0
    MaxLate = 0
    Replayers = {1}
    FaultyDisks = {}
    Nobody = Nobody
INVARIANT AckedOrHinted
CHECK_DEADLOCK FALSE
