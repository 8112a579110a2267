SPECIFICATION Spec
CONSTANTS
    Texts <- FourNames
    Matching <- FourNames
    Reqs = {r1, r2}
    Profiles <- ThreeProfiles
    Requests <- Long
    Faults = {}
    None = None
CHECK_DEADLOCK FALSE
INVARIANT KilledForReason
