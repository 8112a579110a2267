SPECIFICATION LiveSpec
CONSTANTS
    Class = "ro"
    MaxWire = 4
    Requests <- SampleRequests
    Faults = {"upstream", "deadline"}
CHECK_DEADLOCK FALSE
INVARIANTS
    TypeOK
    OneReader
    InSync
PROPERTIES
    DisconnectCancels
    DenialIsSent
