CONSTANTS
    NumSockets = 2
    MaxCounter = 1
SPECIFICATION Spec
INVARIANTS
    TlsAfterSntp
