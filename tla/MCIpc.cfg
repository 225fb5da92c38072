\* Everybody may wait for ever after a connection was lost in iostream_attach.
CHECK_DEADLOCK FALSE
SPECIFICATION FairSpec
CONSTANTS
    NPROC = 4
    Systems <- All
    MAX_DESCRIPTORS = 3
    CAPACITY = 3
    MAX_HELD = 2
    Irq = {218}
INVARIANTS TablesSound
PROPERTIES Circulates InterruptTaken
