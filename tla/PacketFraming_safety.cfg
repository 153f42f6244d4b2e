CONSTANTS
    Packets = 3
    Layouts <- SomeLayouts
    ReadbufSize = 5
SPECIFICATION Spec
INVARIANTS
    TypeOK
    BoundaryKept
    
    
PROPERTIES
    ImplementsPacketChannel
