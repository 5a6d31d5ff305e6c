SPECIFICATION Spec
CONSTANTS
    Requests = {r1}
    Tokens = {t1, t2, t3, t4}
    Families = {f1, f2}
    Legacy = {}
    NoToken = NoToken
    NoFamily = NoFamily
    MaxConcurrent = 1
    IdleTimeout = 1
    AbsoluteTimeout = 2
    RefreshTTL = 3
    MaxNow = 3
    Crashes = FALSE
    Ops = {"login", "rotate", "logout", "revoke", "disable"}
SYMMETRY Symmetry
INVARIANTS OneLiveToken SessionLimit SuspendedHasNoSession AbsoluteCap IdleCap
PROPERTIES FirstReasonKept
