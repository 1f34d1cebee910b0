SPECIFICATION Spec
CONSTANTS
    Nodes = {1, 2, 3}
    Replicas = {1, 2, 3}
    Coordinators = {1, 3}
    Writes = {w1, w2}
    Reads = {r1}
    Levels = {"QUORUM"}
    MaxHlc = 3
    MaxCrashes = 0
    MaxLate = 0
    Replayers = {}
    FaultyDisks = {1}
    Nobody = Nobody
SYMMETRY WriteSymmetry
INVARIANTS
    AckedAtQuorum
    ReadYourWrites
CHECK_DEADLOCK FALSE
