SPECIFICATION Spec
CONSTANTS
    None = None
    Clients = {c1, c2}
    Daemons = {d1, d2}
    Conns = {k1, k2}
    Ops = {"attachDefault", "stop", "forceStop"}
    Faults = {"kill", "crash", "timeout"}
    Protocols = {1}
SYMMETRY Symmetry
INVARIANT TypeOK
INVARIANT LockDiscipline
INVARIANT CountExact
INVARIANT SessionCounted
PROPERTY Implements
