SPECIFICATION Spec
CONSTANTS
    Tasks = {t1, t2}
    None = None
    KEEP_OPEN_ON_EOF = TRUE
    Env = {"close", "shutdown", "socket", "callback", "cancel"}
    MaxBytes = 5
INVARIANT DeliveredInOrder
INVARIANT OnCloseOnce
CHECK_DEADLOCK FALSE
