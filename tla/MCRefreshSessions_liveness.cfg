SPECIFICATION FairSpec
CONSTANTS
    Requests = {r1, r2}
    Tokens = {t1, t2}
    Families = {f1, f2}
    Legacy = {}
    NoToken = NoToken
    NoFamily = NoFamily
    MaxConcurrent = 2
    IdleTimeout = 0
    AbsoluteTimeout = 2
    RefreshTTL = 3
    MaxNow = 0
    Crashes = FALSE
    Ops = {"login", "rotate", "revoke", "disable"}
PROPERTY RevocationCompletes
