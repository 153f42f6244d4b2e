CONSTANTS
    Ring = 3
    MaxInUse = 7
    Packets = {p1, p2, p3}
    None = None
SPECIFICATION FairSpec
INVARIANTS
    TypeOK
    ReferencesFound
    SentInOrder
PROPERTY
    ImplementsTxQueue
    RoomIsMade
    SenderComesBack
