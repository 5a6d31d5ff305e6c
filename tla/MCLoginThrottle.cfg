CONSTANTS
    Accounts = {a1}
    Ips = {i1}
    Origins = {i1, NoIp}
    NoIp = NoIp
    NoAccount = NoAccount
    Requests = {r1, r2}
    RedisStates = {TRUE, FALSE}
    Foci = {"overlap", "outage", "flapping"}
    TicksPerSecond = 1
    MaxAttempts <- Limits
    Window <- Windows
    Lockout <- Lockouts
    StrikeTTL = 3
    Multiplier = 2
    MaxLockout = 3
    MaxStrikes = 3
    FallbackMax = 2
    FallbackWindow = 1
    FallbackMaxKeys = 3
SPECIFICATION MCSpec
INVARIANTS TypeOK GuessesBounded LockoutBounded
SYMMETRY Symmetry
