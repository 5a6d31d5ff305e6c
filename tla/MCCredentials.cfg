SPECIFICATION Spec
CONSTANTS
    Pairs = {p1, p2}
    Permissions = {"perm"}
    TeamFact = "team"
    AccessLife = 1
    RefreshLife = 2
    Logouts = {o1}
    NoPair = NoPair
    MaxTime = 3
    Licences = {l1, l2}
    Activations = {a1, a2}
    Issuers = {i1, i2}
    Keys = {k}
    Machines = {m1, m2}
    NoMachine = NoMachine
    NoLicence = NoLicence
    MaxUses = 1
    Validity = 1
    LicenceTime = 1
    ApiKeys = {key1}
    Clients = {client1}
    Tokens = {t1, t2}
    LaunchCodes = {x1}
    Calls = {call1}
    NoSource = NoSource
    ScopeLists <- Asked
    TokenLife <- OneTick
    CodeTTL = 1
    MaxKeys = 1
    CredTime = 2
    Emails = {e1, e2}
    Subjects = {s1}
    SsoConfigs = {c1, c2}
    SamlConfigs = {d1}
    Globals = {google}
    OrgOf <- OrgOfConfig
    DomainLists <- AllOrNone
    Flows = {f1, f2}
    NoIdp = NoIdp
    NoEmail = NoEmail
    Requests = {r1}
    LogoutMsgs = {m1}
    Names = {"n"}
    Indexes = {ix}
    AnyIndex = AnyIndex
    RelayLife = 2
    ReplayTTL = 2
    Windows = {2, 4}
    SamlTime = 4
    l1 = l1
    l2 = l2
    t1 = t1
    t2 = t2
    c1 = c1
    c2 = c2
    d1 = d1
    google = google
    orgA = orgA
    orgB = orgB
INVARIANT TypeOK LogoutHolds ClaimsBoundedStale UsesBounded RevocationBounded TenantIsolation
PROPERTY MessageUsedOnce
SYMMETRY Symmetry
CHECK_DEADLOCK FALSE
