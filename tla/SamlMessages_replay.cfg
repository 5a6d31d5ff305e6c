SPECIFICATION SamlSpec
CONSTANTS
    Requests = {r1}
    LogoutMsgs = {m1}
    Names = {"n"}
    Indexes = {ix}
    AnyIndex = AnyIndex
    RelayLife = 2
    ReplayTTL = 2
    Windows = {2, 4}
    SamlTime = 4
INVARIANT LogoutRequestUsedOnce
CHECK_DEADLOCK FALSE
