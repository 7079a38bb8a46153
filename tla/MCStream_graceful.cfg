SPECIFICATION FairSpec
CONSTANTS
    Tasks = {t1}
    None = None
    KEEP_OPEN_ON_EOF = FALSE
    Env = {"close"}
    MaxBytes = 7
INVARIANT CloseLosesNothing
INVARIANT NoForgottenWaiter
INVARIANT QuietWhenClosed
PROPERTY ImplementsLifecycle
PROPERTY ClosingFinishes
PROPERTY WaitersWake
CHECK_DEADLOCK FALSE
