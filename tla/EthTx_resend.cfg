CONSTANTS
    Ring = 3
    MaxInUse = 5
    Packets = {p1, p2, p3}
    None = None
SPECIFICATION FairSpec
PROPERTY
    ResendPossible
