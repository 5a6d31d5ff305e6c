SPECIFICATION Spec
CONSTANTS
    Requests = {r1, r2}
    Tokens = {t1, t2, t3, t4}
    Families = {f1, f2}
    Legacy = {t1}
    NoToken = NoToken
    NoFamily = NoFamily
    MaxConcurrent = 1
    IdleTimeout = 1
    AbsoluteTimeout = 2
    RefreshTTL = 3
    MaxNow = 0
    Crashes = TRUE
    Ops = {"login", "rotate", "logout", "revoke", "disable"}
SYMMETRY Symmetry
INVARIANTS TypeOK HeldTokenHasSession
PROPERTIES RevokedFamilyFrozen SessionHistory
