SPECIFICATION FairSpec
CONSTANTS
    Jobs = {j1, j2, j3, j4}
    None = None
    close_on_exception = TRUE
    Outcomes = {"ok", "exception", "BaseEx"}
    Env = {"close", "error_handler"}
INVARIANT GracefulDrains
INVARIANT StopsAtFailure
PROPERTY ImplementsQueue
PROPERTY JobsRun
PROPERTY ShutdownCompletes
CHECK_DEADLOCK FALSE
