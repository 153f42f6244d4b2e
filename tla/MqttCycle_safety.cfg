CONSTANTS
    NumSockets = 2
    MaxCounter = 2
SPECIFICATION FairSpec
INVARIANTS
    TypeOK
    SessionOverLiveTunnel
    NoDanglingSocket
    HeapLossBounded
    MailboxFresh
PROPERTIES
    WorkingTunnelIsClosed
    ImplementsBrokerSession
    RecoversUnlessStranded
