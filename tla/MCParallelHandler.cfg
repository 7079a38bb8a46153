SPECIFICATION FairSpec
CONSTANTS
    Jobs = {j1, j2, j3}
    None = None
    concurrency = 2
    close_on_exception = TRUE
    Outcomes = {"ok", "exception", "BaseEx", "bad_call"}
    Env = {"close"}
INVARIANT PermitsConserved
INVARIANT DoomedNeverRun
INVARIANT GracefulDrains
PROPERTY ImplementsQueue
PROPERTY JoinReturns
CHECK_DEADLOCK FALSE
