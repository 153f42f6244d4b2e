CONSTANTS
    SectorWords = 16
    Saves = {s1, s2}
    Erased = Erased
    Torn = Torn
    Uninit = Uninit
    Midnight = Midnight
    Leftovers <- SomeLeftovers
    MaxFaults = 1
SPECIFICATION Spec
INVARIANTS
    TypeOK
    NothingBeyondAGap
PROPERTIES
    BootRestoresLastSave
    ImplementsSaveStore
