SPECIFICATION LiveSpec
CONSTANTS
    None = None
    Other = Other
    Sessions = {l1, l2}
    Slots = 2
    Layouts <- SampleLayouts
    Faults = {"kill", "fail"}
INVARIANTS
    TypeOK
    OwnDatabase
    CommandConfined
PROPERTIES
    EverythingReturned
