SPECIFICATION Spec
CONSTANTS
    None = None
    Clients = {c1, c2}
    Daemons = {d1, d2}
    Conns = {k1, k2, k3}
    Ops = {"attachDefault", "attachNamed", "start", "stop", "forceStop", "list"}
    Faults = {"crash", "spawn"}
    Protocols = {1, 2}
SYMMETRY Symmetry
INVARIANT PlainStopSparesSessions
INVARIANT NoSilentTakeover
