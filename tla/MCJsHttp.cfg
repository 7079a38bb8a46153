SPECIFICATION FairSpec
CONSTANTS
    Requests = {p, q}
    Cookies = {old, fresh}
    Hosts = {home, away}
    MaxHops = 1
    None = None
INVARIANT CallbackOnce
INVARIANT RedirectCarriesCookie
PROPERTY RequestsEnd
CHECK_DEADLOCK FALSE
