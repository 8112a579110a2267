SPECIFICATION LiveSpec
CONSTANTS
    Names <- SampleNames
    Segments <- SampleSegments
    Requests <- SampleRequests
    Class = "ro"
    MaxWire = 2
    MaxBody = 2
    Validity = 2
    Renewal = 1
    MaxClock = 3
    Faults = {"upstream", "stall"}
CHECK_DEADLOCK FALSE
INVARIANTS
    TypeOK
    OnlyReadsUnlessMarked
    WholeRequests
PROPERTIES
    LeafFresh
    NotStranded
