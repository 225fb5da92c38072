SPECIFICATION FairSpec
CONSTANTS
    STREAM_BUF_LEN = 4
    Byte = {0, 1}
    Messages <- MCMessages
    ReadLens <- MCReadLens
INVARIANTS IInv PeekSafe
PROPERTIES ImplementsChannel CallsComplete
