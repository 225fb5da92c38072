SPECIFICATION Spec
CONSTANTS
    NPROC = 3
    NCPU = 3
    ENTRIES = 4
    CMDLINE = 2
    HEAP = 4
    Modules <- Programs
INVARIANTS KernelEverywhere OwnMemory
