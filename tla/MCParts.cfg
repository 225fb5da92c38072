\* A call ends, and a text that has its full length is not written any further.
CHECK_DEADLOCK FALSE
SPECIFICATION AllSpec
CONSTANTS
    Thread = {"T1", "T2"}
    Idle = "idle"
    MaxDepth = 5
    MaxWaits = 1
    NPROC = 3
    Name <- MCNames
    Wanted <- MCWanted
    PROC_MAX_NAME_LEN = 3
    Cmdlines <- MCCmdlines
    Fronts <- MCFronts
    Flags = {0, 1, 4}
    Word <- MCWord
    MAX_CPU = 4
    CPU_IDS = {0, 1, 3}
    TssPlaces <- MCPlaces
    SCREEN_WIDTH = 3
    SCREEN_HEIGHT = 2
    Printable = {"a", "b"}
    MaxText = 8
    CPUS = {"boot", "second"}
    BYTE = 8
    SNAKE_WIDTH = 4
    SNAKE_HEIGHT = 3
    MAX_LEN = 6
    InitialLen = 3
    Interval = 2
    StartX = 2
    StartY = 1
INVARIANTS LookupsRight HeapSound StacksSound EoiSound NestingBounded TablesRight
           CursorRecovers ShowsText StringsRight SnakeSound
PROPERTIES GrowsWhenFull
