CONSTANTS
    Managers = {m1, m2}
    Devices = {d1, d2, d3}
    Codes = {r1, r2, r3}
    Enrolled = {d1}
    Issued = {r1}
    NoDevice = NoDevice
    Logins = {l1, l2}
    Challenges = {c1, c2}
    Otps = {o1, o2, o3}
    NoChallenge = NoChallenge
    NoOtp = NoOtp
    EmailMfa = TRUE
    MaxAttempts = 2
    MaxSends = 2
    Cooldown = 1
    OtpTTL = 1
    Hour = 1
    MaxNow = 1
    d1 = d1
    m1 = m1
    r3 = r3
SPECIFICATION MCSpec
INVARIANT TypeOK ChallengeMintsOnce FactorRedeemedOnce EnabledHasDevice OneLiveCode
PROPERTY RedeemsLiveFactor OtpGuessesBounded RemovedStaysRemoved
SYMMETRY Symmetry
CHECK_DEADLOCK FALSE
