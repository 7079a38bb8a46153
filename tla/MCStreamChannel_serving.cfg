SPECIFICATION FairSpec
CONSTANTS
    Conns = {c1, c2, c3}
    Listeners = {l1}
    None = None
    MAX_CONNECTIONS = 1
    Env = {"shutdown"}
INVARIANT PausedOnlyWhenFull
PROPERTY ExitCompletes
PROPERTY ClientsServed
CHECK_DEADLOCK FALSE
