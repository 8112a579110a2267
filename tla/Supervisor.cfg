SPECIFICATION Spec
CONSTANTS
    Texts <- FourNames
    Matching <- FourNames
    Reqs = {r1, r2}
    Profiles <- TwoProfiles
    Requests <- Whole
    Faults = {"worker", "mkdir"}
    None = None
CHECK_DEADLOCK FALSE
INVARIANTS TypeOK FrontendsDieFirst NoLostJob KilledForReason
PROPERTIES ShutdownEndsJobs CancelEndsJob
