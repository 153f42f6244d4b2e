CONSTANTS
    KeepAlive = 7
    CommandTimeout = 3
    Period = 3
SPECIFICATION FairSpec
INVARIANTS
    TypeOK
    OutstandingPing
    DeadPeerNoticed
PROPERTIES
    NoFalseAlarm
    DeadPeerEndsRunning
