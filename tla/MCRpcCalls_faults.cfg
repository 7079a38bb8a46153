SPECIFICATION Spec
CONSTANTS
    DialerCalls = {a}
    ListenerCalls = {x, y}
    DialerKinds = {"unary", "void", "server_stream", "client_stream"}
    ListenerKinds = {"unary"}
    Outcomes = {"ok", "early", "exception", "BaseEx"}
    Env = {"cancel", "cut", "unknown", "empty_request", "empty_response"}
    MAX_TRANSMISSION_ID = 2
    MaxRequests = 2
    MaxResponses = 1
    None = None
SYMMETRY Symmetry
INVARIANT NoCrossTalk
INVARIANT ContextsMatch
CHECK_DEADLOCK FALSE
