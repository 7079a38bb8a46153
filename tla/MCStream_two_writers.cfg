SPECIFICATION Spec
CONSTANTS
    Tasks = {t1, t2}
    None = None
    KEEP_OPEN_ON_EOF = FALSE
    Env = {"close"}
    MaxBytes = 3
INVARIANT NoForgottenWaiter
CHECK_DEADLOCK FALSE
