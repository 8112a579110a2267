SPECIFICATION Spec
CONSTANTS
    Up = 2
    Down = 2
    Room = 2
    Kinds <- AllKinds
CHECK_DEADLOCK FALSE
INVARIANTS TypeOK InOrder HalfCloseSpares
PROPERTIES NotStranded CommandGoneFreesAll
