SPECIFICATION FairSpec
CONSTANTS
    NPROC = 4
    Systems <- OnlyRing
    MAX_DESCRIPTORS = 3
    CAPACITY = 3
    MAX_HELD = 2
    Irq = {}
INVARIANTS ConnectedToTarget
CHECK_DEADLOCK FALSE
