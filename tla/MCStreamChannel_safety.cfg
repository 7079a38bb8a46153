SPECIFICATION Spec
CONSTANTS
    Conns = {c1, c2, c3}
    Listeners = {l1, l2}
    None = None
    MAX_CONNECTIONS = 2
    Env = {"pause", "shutdown", "socket"}
SYMMETRY Symmetry
INVARIANT CapacityRespected
INVARIANT ClosedWhenDrained
PROPERTY NoConnectionsWhileClosing
CHECK_DEADLOCK FALSE
