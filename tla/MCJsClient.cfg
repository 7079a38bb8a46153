SPECIFICATION Spec
CONSTANTS
    Calls = {a, b, v}
    Voids = {v}
    Addresses = {near, far}
    MaxConns = 2
    MaxReplies = 1
    Env = {"lost", "retry", "throw"}
    None = None
SYMMETRY Symmetry
INVARIANT CallbackAtMostOnce
INVARIANT OwnAnswer
INVARIANT NoneForgotten
INVARIANT StubsBound
CHECK_DEADLOCK FALSE
