SPECIFICATION Spec
CONSTANTS
    Nodes = {1, 2, 3, 4}
    Founders = {2, 3, 4}
    RF = 3
    Level = "QUORUM"
    PromptApply = FALSE
    MaxWrites = 1
    MaxLag = 1
    Scenarios <- AllScenarios
INVARIANTS
    AckedReachable
    ReadsSeeAcked
PROPERTY DiskAdvances
CHECK_DEADLOCK FALSE
