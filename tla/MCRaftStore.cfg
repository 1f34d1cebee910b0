SPECIFICATION Spec
CONSTANTS
    MaxTerm = 2
    MaxIndex = 3
    MaxCrashes = 1
    MaxErrors = 1
    MaxDirErrors = 1
INVARIANTS
    CallsAreDurable
    NoHole
    AppliedIsChosen
CHECK_DEADLOCK FALSE
