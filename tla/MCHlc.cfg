SPECIFICATION Spec
CONSTANTS
    WallLimit = 3
    CounterLimit = 3
INVARIANTS
    LastDominates
    PackIsFaithful
PROPERTY IssuedAboveObserved
