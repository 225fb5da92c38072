SPECIFICATION FairSpec
CONSTANTS
    Entries <- MCEntries
    Cmdline = {1, 3, 4, 8}
INVARIANTS BarrierSound SpreadOverAll
PROPERTIES AllCome
CHECK_DEADLOCK FALSE
