CONSTANTS
    Ring = 2
    Buffers = {b1, b2, b3}
    None = None
    Freers = 1
SPECIFICATION FairSpec
INVARIANTS
    TypeOK
    BuffersApart
    NoBufferLeaks
    NoFrameForgotten
PROPERTY
    ImplementsRxQueue
    FramesAreRead
