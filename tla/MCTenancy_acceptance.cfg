SPECIFICATION Spec
CONSTANTS
    Foci = {"both"}
    Users = {root, alice, bob}
    Targets = {alice, bob}
    Root = root
    Orgs = {o1, o2}
    DefaultOrg = o2
    Extra = {r1}
    NewNames = {"n"}
    PermSets <- FewPermSets
    RoleSets <- SingleRoles
    Platform = Platform
    Invites = {i1, i2}
    Invitee = bob
    InviteSlots = {s1, s2}
    NoInvite = NoInvite
    MaxAttempts = 2
    MaxChanges = 2
    People = {alice, bob, carol}
    Managers = {alice}
    TeamSlots = {q1}
    Nobody = Nobody
    alice = alice
    bob = bob
    o1 = o1
    o2 = o2
    r1 = r1
INVARIANT AcceptanceIsAtomic
CHECK_DEADLOCK FALSE
