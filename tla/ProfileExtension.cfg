SPECIFICATION Spec
CONSTANTS
    Texts <- FourNames
    Matching <- FourNames
    Profiles <- LoadedProfiles
    Order <- LoadedOrder
    Default <- LoadedDefault
    Initial = "browse"
    Sessions = {s1, s2}
    Calls = {c1, c2, c3}
    None = None
SYMMETRY Symmetry
INVARIANTS TypeOK ReloadKeepsNarrower
PROPERTIES RestoreNeverEscalates GrantIsReal StaleAnswerIgnored
