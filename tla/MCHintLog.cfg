SPECIFICATION Spec
CONSTANTS
    Hints = {h1, h2, h3}
    None = None
    MaxFrames = 4
    MaxPasses = 2
    MaxFailures = 2
INVARIANTS
    AckedOnDisk
    OwedIsReadable
CHECK_DEADLOCK FALSE
