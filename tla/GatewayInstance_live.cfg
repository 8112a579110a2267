SPECIFICATION LiveSpec
CONSTANTS
    None = None
    Clients = {c1, c2}
    Daemons = {d1, d2}
    Conns = {k1, k2}
    Ops = {"attachDefault", "stop"}
    Faults = {"crash", "accept"}
    Protocols = {1}
PROPERTY LockReleased
PROPERTY StopTakesEffect
PROPERTY Implements
