SPECIFICATION FairSpec
CONSTANTS
    Nodes = {1, 2, 3}
    Founders = {2, 3}
    RF = 2
    Level = "QUORUM"
    PromptApply = TRUE
    MaxWrites = 1
    MaxLag = 1
    Scenarios <- OnlyFlaky
PROPERTY RebalanceFinishes
CHECK_DEADLOCK FALSE
