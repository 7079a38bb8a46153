SPECIFICATION FairSpec
CONSTANTS
    DialerCalls = {a, b}
    ListenerCalls = {x}
    DialerKinds = {"unary", "bidi"}
    ListenerKinds = {"void"}
    Outcomes = {"ok"}
    Env = {}
    MAX_TRANSMISSION_ID = 4
    MaxRequests = 1
    MaxResponses = 1
    None = None
INVARIANT StaysOpen
INVARIANT RunOnce
PROPERTY ImplementsRemoteCalls
PROPERTY CallsReturn
CHECK_DEADLOCK FALSE
