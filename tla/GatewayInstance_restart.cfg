SPECIFICATION Spec
CONSTANTS
    None = None
    Clients = {c1, c2}
    Daemons = {d1, d2}
    Conns = {k1, k2, k3}
    Ops = {"start", "stop"}
    Faults = {}
    Protocols = {1}
SYMMETRY Symmetry
INVARIANT HealthyHasIngress
