SPECIFICATION FairSpec
CONSTANTS
    Cpu = {c1, c2, c3}
    BITS = 2
    ENTRIES = 4
    PAGE_SIZE = 2
    FixedPages <- MCFixed
    BootInfos <- MCBootInfos
    DEADC0DE = DEADC0DE
INVARIANTS PagesSound PagesConserved FailsOnlyWhenEmpty
PROPERTIES LockReleased
CHECK_DEADLOCK FALSE
