SPECIFICATION Spec
CONSTANTS
    Requests = {r1, r2}
    Tokens = {t1, t2, t3, t4}
    Families = {f1, f2, f3}
    Legacy = {}
    NoToken = NoToken
    NoFamily = NoFamily
    MaxConcurrent = 1
    IdleTimeout = 1
    AbsoluteTimeout = 2
    RefreshTTL = 3
    MaxNow = 0
    Crashes = FALSE
    Ops = {"login", "rotate"}
SYMMETRY Symmetry
INVARIANT OneLiveToken
