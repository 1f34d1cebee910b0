SPECIFICATION Spec
CONSTANTS
    Nodes = {1, 2, 3}
    Replicas = {2, 3}
    Coordinators = {1}
    Writes = {w1, w2}
    Reads = {}
    Levels = {"ONE"}
    MaxHlc = 2
    MaxCrashes = 1
    MaxLate = 1
    Replayers = {1}
    FaultyDisks = {1}
    Nobody = Nobody
SYMMETRY WriteSymmetry
INVARIANTS
    VersionsAreWrites
PROPERTIES
    PassKeepsHints
    ReplicasAdvance
CHECK_DEADLOCK FALSE
