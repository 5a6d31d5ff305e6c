--------------------------- MODULE TenancyProofs ---------------------------
(***************************************************************************)
(* Proofs about tenancy: whose roles who may hold and give (Organizations    *)
(* with Invitations), how often an invitation is spent and how far its       *)
(* counter of wrong codes runs (Invitations), that requests on a team that   *)
(* do not overlap keep it an administrator (Teams), and that they keep their *)
(* properties side by side (MCTenancy).  For every number of users,          *)
(* organisations, roles, invitations and requests.                           *)
(***************************************************************************)
EXTENDS MCTenancy, FiniteSetTheorems, TLAPS

---------------------------------------------------------------------------
(* Roles and memberships                                                   *)

MemberRow == [status : {"none", "invited", "active"}, roles : SUBSET Rows]
RoleRow == [name : Builtin \cup Bootstrap \cup {"none"} \cup NewNames,
            scope : Orgs \cup {Platform}, perms : SUBSET Registry]

\* A row that exists has a name; the built-in ones belong to the platform.
CatalogueSound ==
    \A r \in Rows : /\ role[r] = NoRole \/ role[r].name # "none"
                    /\ r \in Builtin \cup Bootstrap => role[r].scope = Platform

\* What an organisation's members may be given.
Fits(r, o) == role[r] # NoRole /\ role[r].scope \in {Platform, o}

HoldingsSound ==
    /\ \A u \in Users : \A r \in userRoles[u] : role[r] # NoRole /\ role[r].scope = Platform
    /\ \A o \in Orgs, u \in Users : \A r \in member[o][u].roles : Fits(r, o)

RolesInv == OrganizationsTypeOK /\ CatalogueSound /\ HoldingsSound

LEMMA RolesInvInit == OrganizationsInit => RolesInv
<1> SUFFICES ASSUME OrganizationsInit PROVE RolesInv
  OBVIOUS
<1> USE OrganizationsAssumption DEF OrganizationsInit
<1>1. NoRole \in RoleRow /\ \A r \in Bootstrap : PlatformRole(r, SeededPermissions(r)) \in RoleRow
  BY DEF NoRole, RoleRow, PlatformRole, SeededPermissions, Registry, GlobalPermissions
<1>2. NotMember \in MemberRow
  BY DEF NotMember, MemberRow
<1>3. OrganizationsTypeOK
  <2>1. role \in [Rows -> RoleRow]
    <3> HIDE DEF RoleRow
    <3> QED
      BY <1>1
  <2>2. member \in [Orgs -> [Users -> MemberRow]]
    BY <1>2
  <2> QED
    BY <2>1, <2>2 DEF OrganizationsTypeOK, RoleRow, MemberRow, Rows
<1>4. CatalogueSound
  BY DEF CatalogueSound, PlatformRole, NoRole, Bootstrap, Builtin
<1>5. HoldingsSound
  BY DEF HoldingsSound, PlatformRole, NoRole, Bootstrap, NotMember, Rows
<1> QED
  BY <1>3, <1>4, <1>5 DEF RolesInv

LEMMA RolesStayHomeFollows == RolesInv => RolesStayHome
BY DEF RolesInv, HoldingsSound, RolesStayHome, HeldRoles, Fits

\* One membership row is written.
WritesMember(o, v, row) == member' = [member EXCEPT ![o] = [member[o] EXCEPT ![v] = row]]

LEMMA MemberShape ==
    ASSUME OrganizationsTypeOK, NEW o \in Orgs, NEW v \in Users, NEW row \in MemberRow,
           WritesMember(o, v, row)
    PROVE  /\ member' \in [Orgs -> [Users -> MemberRow]]
           /\ member'[o][v] = row
           /\ \A p \in Orgs, w \in Users : p # o \/ w # v => member'[p][w] = member[p][w]
<1>1. member \in [Orgs -> [Users -> MemberRow]]
  BY DEF OrganizationsTypeOK, MemberRow
<1> QED
  BY <1>1 DEF WritesMember

\* One role row is written.
LEMMA RoleShape ==
    ASSUME OrganizationsTypeOK, NEW r \in Rows, NEW row \in RoleRow,
           role' = [role EXCEPT ![r] = row]
    PROVE  /\ role' \in [Rows -> RoleRow]
           /\ role'[r] = row
           /\ \A s \in Rows \ {r} : role'[s] = role[s]
<1>1. role \in [Rows -> RoleRow]
  BY DEF OrganizationsTypeOK, RoleRow
<1> QED
  BY <1>1

\* get_or_create_role on a built-in name.
LEMMA WithRoleShape ==
    ASSUME RolesInv, NEW name \in Builtin, NEW perms \in SUBSET Registry,
           role' = WithRole(name, perms)
    PROVE  /\ role' \in [Rows -> RoleRow]
           /\ \A s \in Rows : role[s] # NoRole \/ s # name => role'[s] = role[s]
           /\ role'[name] # NoRole /\ role'[name].scope = Platform
           /\ CatalogueSound'
<1>1. name \in Rows /\ name # "none" /\ Platform \notin Orgs
  BY OrganizationsAssumption DEF Rows, Builtin
<1>2. CASE role[name] # NoRole
  <2>1. role' = role
    BY <1>2 DEF WithRole
  <2> QED
    BY <1>1, <1>2, <2>1 DEF RolesInv, OrganizationsTypeOK, RoleRow, CatalogueSound
<1>3. CASE role[name] = NoRole
  <2> DEFINE row == PlatformRole(name, perms)
  <2>1. role' = [role EXCEPT ![name] = row]
    BY <1>3 DEF WithRole
  <2>2. row \in RoleRow /\ row.name = name /\ row.scope = Platform
    BY DEF PlatformRole, RoleRow
  <2>3. row # NoRole
    BY <1>1, <2>2 DEF NoRole
  <2> HIDE DEF row
  <2>4. /\ role' \in [Rows -> RoleRow] /\ role'[name] = row
        /\ \A s \in Rows \ {name} : role'[s] = role[s]
    BY <1>1, <2>1, <2>2, RoleShape DEF RolesInv
  <2> QED
    BY <1>1, <1>3, <2>2, <2>3, <2>4 DEF RolesInv, CatalogueSound
<1> QED
  BY <1>2, <1>3

\* A step that writes one membership row, with roles that fit, and may create
\* a role.
LEMMA MembershipKeepsInv ==
    ASSUME RolesInv, NEW o \in Orgs, NEW v \in Users, NEW row \in MemberRow,
           WritesMember(o, v, row),
           role' \in [Rows -> RoleRow],
           CatalogueSound',
           \A s \in Rows : role[s] # NoRole => role'[s] = role[s],
           \A r \in row.roles : role'[r] # NoRole /\ role'[r].scope \in {Platform, o},
           org' \in [Orgs -> {"none", "active", "suspended"}],
           UNCHANGED <<userRoles, claims>>,
           authority' \in {"tenant", "platform"}
    PROVE  RolesInv'
<1>1. /\ member' \in [Orgs -> [Users -> MemberRow]] /\ member'[o][v] = row
      /\ \A p \in Orgs, w \in Users : p # o \/ w # v => member'[p][w] = member[p][w]
  BY MemberShape DEF RolesInv
<1>2. OrganizationsTypeOK'
  BY <1>1 DEF RolesInv, OrganizationsTypeOK, RoleRow, MemberRow
<1>3. HoldingsSound'
  <2>1. /\ \A u \in Users : userRoles[u] \subseteq Rows
        /\ \A p \in Orgs, w \in Users : member[p][w].roles \subseteq Rows
    BY DEF RolesInv, OrganizationsTypeOK
  <2>2. ASSUME NEW p \in Orgs, NEW w \in Users, NEW r \in member'[p][w].roles
        PROVE  role'[r] # NoRole /\ role'[r].scope \in {Platform, p}
    <3>1. CASE p = o /\ w = v
      BY <1>1, <2>2, <3>1
    <3>2. CASE p # o \/ w # v
      BY <1>1, <2>1, <2>2, <3>2 DEF RolesInv, HoldingsSound, Fits
    <3> QED
      BY <3>1, <3>2
  <2>3. ASSUME NEW u \in Users, NEW r \in userRoles'[u]
        PROVE  role'[r] # NoRole /\ role'[r].scope = Platform
    BY <2>1, <2>3 DEF RolesInv, HoldingsSound
  <2> QED
    BY <2>2, <2>3 DEF HoldingsSound, Fits
<1> QED
  BY <1>2, <1>3 DEF RolesInv

LEMMA ByType == \A u : By(u) => authority' \in {"tenant", "platform"}
BY DEF By

LEMMA MemberUpdates ==
    ASSUME RolesInv, NEW o \in Orgs, NEW v \in Users, NEW R \in SUBSET Rows
    PROVE  /\ [member EXCEPT ![o][v].roles = R] =
              [member EXCEPT ![o] = [member[o] EXCEPT ![v] = [member[o][v] EXCEPT !.roles = R]]]
           /\ [member[o][v] EXCEPT !.roles = R] \in MemberRow
           /\ [member[o][v] EXCEPT !.roles = R].roles = R
<1>1. member \in [Orgs -> [Users -> MemberRow]]
  BY DEF RolesInv, OrganizationsTypeOK, MemberRow
<1>2. member[o][v] \in MemberRow
  BY <1>1
<1> QED
  BY <1>1, <1>2 DEF MemberRow

\* CreateOrg, InviteMember, JitProvisionMembership: a built-in role.
LEMMA JoiningKeepsInv ==
    ASSUME RolesInv, NEW u \in Users, NEW o \in Orgs, NEW v \in Users,
           CreateOrg(v, o) \/ InviteMember(u, o, v) \/ JitProvisionMembership(o, v)
    PROVE  RolesInv'
<1>a. authority' \in {"tenant", "platform"} /\ UNCHANGED <<userRoles, claims>>
  BY ByType DEF CreateOrg, InviteMember, JitProvisionMembership
<1>o. org' \in [Orgs -> {"none", "active", "suspended"}]
  BY DEF CreateOrg, InviteMember, JitProvisionMembership, RolesInv, OrganizationsTypeOK
<1>1. PICK name \in Builtin, perms \in SUBSET Registry, st \in {"invited", "active"} :
        /\ role' = WithRole(name, perms)
        /\ member' = [member EXCEPT ![o][v] = [status |-> st, roles |-> {name}]]
  <2>1. CASE CreateOrg(v, o)
    BY <2>1 DEF CreateOrg, Builtin, OrgAdminPermissions, Registry
  <2>2. CASE InviteMember(u, o, v) \/ JitProvisionMembership(o, v)
    BY <2>2 DEF InviteMember, JitProvisionMembership, JoinWith, Builtin
  <2> QED
    BY <2>1, <2>2
<1> DEFINE row == [status |-> st, roles |-> {name}]
<1>2. row \in MemberRow /\ row.roles = {name}
  BY DEF MemberRow, Rows
<1>3. WritesMember(o, v, row)
  BY <1>1 DEF WritesMember
<1> HIDE DEF row
<1>4. /\ role' \in [Rows -> RoleRow] /\ CatalogueSound'
      /\ \A s \in Rows : role[s] # NoRole => role'[s] = role[s]
      /\ role'[name] # NoRole /\ role'[name].scope = Platform
  BY <1>1, WithRoleShape
<1> QED
  BY <1>a, <1>o, <1>2, <1>3, <1>4, MembershipKeepsInv

\* The role lists an organisation's administrator gives or takes away.
LEMMA MemberRolesKeepInv ==
    ASSUME RolesInv, NEW u \in Users, NEW o \in Orgs, NEW v \in Users,
           \/ \E R \in RoleSets : SetMemberRoles(u, o, v, R)
           \/ \E r \in Rows : AddMemberRole(u, o, v, r) \/ RemoveMemberRole(u, o, v, r)
    PROVE  RolesInv'
<1>a. authority' \in {"tenant", "platform"} /\ UNCHANGED <<org, role, userRoles, claims>>
  BY ByType DEF SetMemberRoles, AddMemberRole, RemoveMemberRole
<1>t. /\ \A R \in RoleSets : R \in SUBSET Rows
      /\ member[o][v].roles \in SUBSET Rows
      /\ role \in [Rows -> RoleRow] /\ CatalogueSound
      /\ \A s \in member[o][v].roles : Fits(s, o)
      /\ org \in [Orgs -> {"none", "active", "suspended"}]
  BY OrganizationsAssumption
  DEF RolesInv, OrganizationsTypeOK, RoleRow, HoldingsSound, Rows, Builtin, Bootstrap
<1>1. PICK S \in SUBSET Rows :
        /\ member' = [member EXCEPT ![o][v].roles = S]
        /\ \A s \in S : Fits(s, o)
  <2>1. ASSUME NEW R \in RoleSets, SetMemberRoles(u, o, v, R)
        PROVE  \E S \in SUBSET Rows : /\ member' = [member EXCEPT ![o][v].roles = S]
                                      /\ \A s \in S : Fits(s, o)
    BY <1>t, <2>1 DEF SetMemberRoles, Assignable, Visible, Fits
  <2>2. ASSUME NEW r \in Rows, AddMemberRole(u, o, v, r)
        PROVE  \E S \in SUBSET Rows : /\ member' = [member EXCEPT ![o][v].roles = S]
                                      /\ \A s \in S : Fits(s, o)
    <3>1. member' = [member EXCEPT ![o][v].roles = member[o][v].roles \cup {r}]
      BY <2>2 DEF AddMemberRole
    <3>2. member[o][v].roles \cup {r} \in SUBSET Rows /\ Fits(r, o)
      BY <1>t, <2>2 DEF AddMemberRole, Assignable, Visible, Fits
    <3> QED
      BY <1>t, <3>1, <3>2
  <2>3. ASSUME NEW r \in Rows, RemoveMemberRole(u, o, v, r)
        PROVE  \E S \in SUBSET Rows : /\ member' = [member EXCEPT ![o][v].roles = S]
                                      /\ \A s \in S : Fits(s, o)
    <3>1. member' = [member EXCEPT ![o][v].roles = member[o][v].roles \ {r}]
      BY <2>3 DEF RemoveMemberRole
    <3>2. member[o][v].roles \ {r} \in SUBSET Rows
      BY <1>t
    <3> QED
      BY <1>t, <3>1, <3>2
  <2> QED
    BY <2>1, <2>2, <2>3
<1> DEFINE row == [member[o][v] EXCEPT !.roles = S]
<1>2. /\ row \in MemberRow /\ row.roles = S
      /\ WritesMember(o, v, row)
  BY <1>1, MemberUpdates DEF WritesMember
<1> HIDE DEF row
<1>3. CatalogueSound'
  BY <1>a, <1>t DEF CatalogueSound
<1> QED
  BY <1>a, <1>t, <1>1, <1>2, <1>3, MembershipKeepsInv DEF Fits

\* A step on the catalogue that leaves rows in use where they are.
LEMMA CatalogueKeepsInv ==
    ASSUME RolesInv,
           role' \in [Rows -> RoleRow],
           CatalogueSound',
           \A r \in Rows : \/ role'[r] # NoRole /\ role'[r].scope = role[r].scope
                           \/ ~RoleInUse(r),
           \A u \in Users : \A r \in userRoles'[u] :
               r \in userRoles[u] \/ (role'[r] # NoRole /\ role'[r].scope = Platform),
           userRoles' \in [Users -> SUBSET Rows],
           UNCHANGED <<org, member, claims>>,
           authority' \in {"tenant", "platform"}
    PROVE  RolesInv'
<1>1. OrganizationsTypeOK'
  BY DEF RolesInv, OrganizationsTypeOK, RoleRow
<1>2. ASSUME NEW u \in Users, NEW r \in userRoles'[u]
      PROVE  role'[r] # NoRole /\ role'[r].scope = Platform
  <2>1. CASE r \in userRoles[u]
    <3>1. r \in Rows /\ RoleInUse(r)
      BY <2>1 DEF RolesInv, OrganizationsTypeOK, RoleInUse
    <3> QED
      BY <2>1, <3>1 DEF RolesInv, HoldingsSound
  <2> QED
    BY <1>2, <2>1
<1>3. ASSUME NEW o \in Orgs, NEW u \in Users, NEW r \in member'[o][u].roles
      PROVE  role'[r] # NoRole /\ role'[r].scope \in {Platform, o}
  <2>1. r \in Rows /\ r \in member[o][u].roles /\ RoleInUse(r)
    BY <1>3 DEF RolesInv, OrganizationsTypeOK, RoleInUse
  <2> QED
    BY <2>1 DEF RolesInv, HoldingsSound, Fits
<1> QED
  BY <1>1, <1>2, <1>3 DEF RolesInv, HoldingsSound, Fits

\* A row that is not there is in nobody's hands.
LEMMA AbsentUnused ==
    ASSUME RolesInv, NEW r \in Rows, role[r] = NoRole
    PROVE  ~RoleInUse(r)
BY DEF RolesInv, HoldingsSound, Fits, RoleInUse

LEMMA EditingKeepsInv ==
    ASSUME RolesInv, NEW u \in Users
    PROVE  \/ \E r \in Extra, n \in NewNames, s \in Orgs \cup {Platform}, P \in PermSets :
                 CreateRole(u, r, n, s, P)
           \/ \E r \in Rows, P \in PermSets : UpdateRole(u, r, P)
           \/ \E r \in Rows : DeleteRole(u, r)
           => RolesInv'
<1>u. userRoles \in [Users -> SUBSET Rows] /\ OrganizationsTypeOK /\ role \in [Rows -> RoleRow]
  BY DEF RolesInv, OrganizationsTypeOK, RoleRow
<1>p. \A P, s : PermsAllowed(P, s) => P \in SUBSET Registry
  BY DEF PermsAllowed
<1>1. ASSUME NEW r \in Extra, NEW n \in NewNames, NEW s \in Orgs \cup {Platform}, NEW P \in PermSets,
             CreateRole(u, r, n, s, P)
      PROVE  RolesInv'
  <2> DEFINE row == [name |-> n, scope |-> s, perms |-> P]
  <2>1. /\ role[r] = NoRole /\ role' = [role EXCEPT ![r] = row] /\ P \in SUBSET Registry
        /\ authority' \in {"tenant", "platform"} /\ UNCHANGED <<org, userRoles, member, claims>>
    BY <1>1, <1>p, ByType DEF CreateRole
  <2>2. r \in Rows /\ r \notin Builtin \cup Bootstrap /\ n # "none"
    BY OrganizationsAssumption DEF Rows, Builtin, Bootstrap
  <2>3. row \in RoleRow /\ row.name = n
    BY <2>1 DEF RoleRow
  <2> HIDE DEF row
  <2>4. /\ role' \in [Rows -> RoleRow] /\ role'[r] = row
        /\ \A x \in Rows \ {r} : role'[x] = role[x]
    BY <1>u, <2>1, <2>2, <2>3, RoleShape
  <2>5. CatalogueSound'
    BY <2>2, <2>3, <2>4 DEF RolesInv, CatalogueSound
  <2>6. \A x \in Rows : (role'[x] # NoRole /\ role'[x].scope = role[x].scope) \/ ~RoleInUse(x)
    BY <2>1, <2>2, <2>4, AbsentUnused
  <2> QED
    BY <1>u, <2>1, <2>4, <2>5, <2>6, CatalogueKeepsInv
<1>2. ASSUME NEW r \in Rows, NEW P \in PermSets, UpdateRole(u, r, P) PROVE RolesInv'
  <2> DEFINE row == [role[r] EXCEPT !.perms = P]
  <2>1. /\ role[r] # NoRole /\ role' = [role EXCEPT ![r].perms = P] /\ P \in SUBSET Registry
        /\ authority' \in {"tenant", "platform"} /\ UNCHANGED <<org, userRoles, member, claims>>
    BY <1>2, <1>p, ByType DEF UpdateRole
  <2>2. role' = [role EXCEPT ![r] = row] /\ role[r] \in RoleRow
    BY <1>u, <2>1
  <2>3. row \in RoleRow /\ row.name = role[r].name /\ row.scope = role[r].scope
    BY <2>1, <2>2 DEF RoleRow
  <2> HIDE DEF row
  <2>4. /\ role' \in [Rows -> RoleRow] /\ role'[r] = row
        /\ \A x \in Rows \ {r} : role'[x] = role[x]
    BY <1>u, <2>2, <2>3, RoleShape
  <2>5. row # NoRole
    BY <2>1, <2>3 DEF RolesInv, CatalogueSound, NoRole
  <2>6. CatalogueSound'
    BY <2>1, <2>3, <2>4 DEF RolesInv, CatalogueSound
  <2>7. \A x \in Rows : (role'[x] # NoRole /\ role'[x].scope = role[x].scope) \/ ~RoleInUse(x)
    BY <2>3, <2>4, <2>5, AbsentUnused
  <2> QED
    BY <1>u, <2>1, <2>4, <2>6, <2>7, CatalogueKeepsInv
<1>3. ASSUME NEW r \in Rows, DeleteRole(u, r) PROVE RolesInv'
  <2>1. /\ ~RoleInUse(r) /\ role' = [role EXCEPT ![r] = NoRole]
        /\ authority' \in {"tenant", "platform"} /\ UNCHANGED <<org, userRoles, member, claims>>
    BY <1>3, ByType DEF DeleteRole
  <2>2. NoRole \in RoleRow /\ NoRole.scope = Platform
    BY DEF NoRole, RoleRow
  <2>3. /\ role' \in [Rows -> RoleRow] /\ role'[r] = NoRole
        /\ \A x \in Rows \ {r} : role'[x] = role[x]
    BY <1>u, <2>1, <2>2, RoleShape
  <2>4. CatalogueSound'
    BY <2>2, <2>3 DEF RolesInv, CatalogueSound
  <2>5. \A x \in Rows : (role'[x] # NoRole /\ role'[x].scope = role[x].scope) \/ ~RoleInUse(x)
    BY <2>1, <2>3, AbsentUnused
  <2> QED
    BY <1>u, <2>1, <2>3, <2>4, <2>5, CatalogueKeepsInv
<1> QED
  BY <1>1, <1>2, <1>3

\* create_admin, ensure_platform_admin_role, ensure_org_admin_permissions.
LEMMA StartUpKeepsInv ==
    ASSUME RolesInv, StartUp
    PROVE  RolesInv'
<1>t. role \in [Rows -> RoleRow] /\ userRoles \in [Users -> SUBSET Rows] /\ Root \in Users
  BY OrganizationsAssumption DEF RolesInv, OrganizationsTypeOK, RoleRow
<1>1. ASSUME NEW r \in Bootstrap
      PROVE  /\ r \in Rows /\ role'[r] = PlatformRole(r, role[r].perms \cup SeededPermissions(r))
             /\ role'[r] \in RoleRow /\ role'[r].name # "none" /\ role'[r].scope = Platform
             /\ role'[r] # NoRole /\ role[r].scope = Platform
  <2>1. r \in Rows /\ role'[r] = PlatformRole(r, role[r].perms \cup SeededPermissions(r))
    <3>1. r \in Rows /\ r # "org_admin"
      BY DEF Rows, Bootstrap
    <3> QED
      BY <3>1 DEF StartUp
  <2>2. role[r].perms \in SUBSET Registry /\ SeededPermissions(r) \in SUBSET Registry
    BY <1>t, <2>1 DEF RoleRow, SeededPermissions, Registry, GlobalPermissions
  <2>3. role'[r] \in RoleRow
    BY <2>1, <2>2 DEF PlatformRole, RoleRow
  <2>4. role'[r].name = r /\ role'[r].scope = Platform /\ r # "none"
    BY <2>1 DEF PlatformRole, Bootstrap
  <2> QED
    BY <2>1, <2>3, <2>4 DEF NoRole, RolesInv, CatalogueSound
<1>2. ASSUME NEW r \in Rows \ Bootstrap
      PROVE  /\ role'[r] \in RoleRow
             /\ role'[r].name = role[r].name /\ role'[r].scope = role[r].scope
             /\ role[r] = NoRole => role'[r] = NoRole
  <2>1. CASE r = "org_admin" /\ role[r] # NoRole
    <3>1. role'[r] = [role[r] EXCEPT !.perms = role[r].perms \cup OrgAdminPermissions]
      BY <1>2, <2>1 DEF StartUp, Rows, Bootstrap
    <3>2. role[r] \in RoleRow /\ OrgAdminPermissions \in SUBSET Registry
      BY <1>t, <1>2 DEF OrgAdminPermissions, Registry
    <3> QED
      BY <2>1, <3>1, <3>2 DEF RoleRow
  <2>2. CASE ~(r = "org_admin" /\ role[r] # NoRole)
    <3>1. role'[r] = role[r]
      BY <1>2, <2>2 DEF StartUp
    <3> QED
      BY <1>t, <3>1
  <2> QED
    BY <2>1, <2>2
<1>3. role' \in [Rows -> RoleRow]
  <2>1. \A r \in Rows : role'[r] \in RoleRow
    BY <1>1, <1>2
  <2>2. role' = [r \in Rows |-> role'[r]]
    BY DEF StartUp
  <2> HIDE DEF RoleRow
  <2> QED
    BY <2>1, <2>2
<1>4. ASSUME NEW r \in Rows, role[r] # NoRole
      PROVE  role'[r] # NoRole /\ role'[r].scope = role[r].scope
  <2>1. CASE r \in Bootstrap
    BY <1>1, <2>1
  <2>2. CASE r \notin Bootstrap
    <3>1. role[r].name # "none" /\ role'[r].name = role[r].name /\ role'[r].scope = role[r].scope
      BY <1>2, <1>4, <2>2 DEF RolesInv, CatalogueSound
    <3>2. NoRole.name = "none"
      BY DEF NoRole
    <3> QED
      BY <3>1, <3>2
  <2> QED
    BY <2>1, <2>2
<1>5. CatalogueSound'
  <2>1. ASSUME NEW r \in Rows
        PROVE  /\ role'[r] = NoRole \/ role'[r].name # "none"
               /\ r \in Builtin \cup Bootstrap => role'[r].scope = Platform
    <3>1. CASE r \in Bootstrap
      BY <1>1, <3>1
    <3>2. CASE r \notin Bootstrap
      BY <1>2, <3>2 DEF RolesInv, CatalogueSound
    <3> QED
      BY <3>1, <3>2
  <2> QED
    BY <2>1 DEF CatalogueSound
<1>6. /\ userRoles' \in [Users -> SUBSET Rows]
      /\ \A u \in Users : \A r \in userRoles'[u] : r \in userRoles[u] \/ r \in Bootstrap
      /\ UNCHANGED <<org, member, claims>> /\ authority' \in {"tenant", "platform"}
  BY <1>t DEF StartUp, Rows
<1>7. \A r \in Rows : (role'[r] # NoRole /\ role'[r].scope = role[r].scope) \/ ~RoleInUse(r)
  BY <1>4, AbsentUnused
<1>8. \A u \in Users : \A r \in userRoles'[u] :
          r \in userRoles[u] \/ (role'[r] # NoRole /\ role'[r].scope = Platform)
  BY <1>1, <1>6
<1> QED
  BY <1>3, <1>5, <1>6, <1>7, <1>8, CatalogueKeepsInv

\* Global assignments: only rows of the platform.
LEMMA GlobalRolesKeepInv ==
    ASSUME RolesInv, NEW u \in Users, NEW v \in Users
    PROVE  \/ \E r \in Rows : AssignUserRole(u, v, r) \/ RemoveUserRole(u, v, r)
           \/ \E R \in RoleSets : SetUserRoles(u, v, R)
           => RolesInv'
<1>t. /\ userRoles \in [Users -> SUBSET Rows] /\ role \in [Rows -> RoleRow]
      /\ \A R \in RoleSets : R \in SUBSET Rows
  BY OrganizationsAssumption DEF RolesInv, OrganizationsTypeOK, RoleRow, Rows, Builtin, Bootstrap
<1>1. ASSUME NEW S \in SUBSET Rows, userRoles' = [userRoles EXCEPT ![v] = S],
             \A r \in S : r \in userRoles[v] \/ (role[r] # NoRole /\ role[r].scope = Platform),
             By(u), UNCHANGED <<org, role, member, claims>>
      PROVE  RolesInv'
  <2>1. CatalogueSound'
    BY <1>1 DEF RolesInv, CatalogueSound
  <2>2. authority' \in {"tenant", "platform"} /\ role' \in [Rows -> RoleRow]
    BY <1>t, <1>1, ByType
  <2>3. userRoles' \in [Users -> SUBSET Rows]
    BY <1>t, <1>1
  <2>4. \A r \in Rows : (role'[r] # NoRole /\ role'[r].scope = role[r].scope) \/ ~RoleInUse(r)
    BY <1>1, AbsentUnused
  <2>5. \A w \in Users : \A r \in userRoles'[w] :
          r \in userRoles[w] \/ (role'[r] # NoRole /\ role'[r].scope = Platform)
    BY <1>t, <1>1
  <2> QED
    BY <1>1, <2>1, <2>2, <2>3, <2>4, <2>5, CatalogueKeepsInv
<1>2. ASSUME NEW r \in Rows, AssignUserRole(u, v, r) PROVE RolesInv'
  <2>1. /\ userRoles' = [userRoles EXCEPT ![v] = userRoles[v] \cup {r}]
        /\ role[r] # NoRole /\ role[r].scope = Platform
        /\ By(u) /\ UNCHANGED <<org, role, member, claims>>
    BY <1>2 DEF AssignUserRole
  <2>2. userRoles[v] \cup {r} \in SUBSET Rows
    BY <1>t
  <2> QED
    BY <1>1, <2>1, <2>2
<1>3. ASSUME NEW r \in Rows, RemoveUserRole(u, v, r) PROVE RolesInv'
  <2>1. /\ userRoles' = [userRoles EXCEPT ![v] = userRoles[v] \ {r}]
        /\ By(u) /\ UNCHANGED <<org, role, member, claims>>
    BY <1>3 DEF RemoveUserRole
  <2>2. userRoles[v] \ {r} \in SUBSET Rows
    BY <1>t
  <2> QED
    BY <1>1, <2>1, <2>2
<1>4. ASSUME NEW R \in RoleSets, SetUserRoles(u, v, R) PROVE RolesInv'
  <2>1. /\ userRoles' = [userRoles EXCEPT ![v] = R]
        /\ \A r \in R : role[r] # NoRole /\ role[r].scope = Platform
        /\ By(u) /\ UNCHANGED <<org, role, member, claims>>
    BY <1>4 DEF SetUserRoles
  <2> QED
    BY <1>t, <1>1, <2>1
<1> QED
  BY <1>2, <1>3, <1>4

\* Nothing but tokens, statuses or the history of authority changes.
LEMMA OtherKeepsInv ==
    ASSUME RolesInv, UNCHANGED <<role, userRoles, member>>,
           org' \in [Orgs -> {"none", "active", "suspended"}],
           claims' \in [Users -> SUBSET Registry],
           authority' \in {"tenant", "platform"}
    PROVE  RolesInv'
BY DEF RolesInv, OrganizationsTypeOK, CatalogueSound, HoldingsSound, Fits

\* create_invitation makes sure of the base role and gives it to nobody.
LEMMA BaseRoleKeepsInv ==
    ASSUME RolesInv, role' = WithRole("org_member", {}), UNCHANGED <<org, userRoles, member, claims>>,
           authority' \in {"tenant", "platform"}
    PROVE  /\ RolesInv' /\ role' \in [Rows -> RoleRow]
           /\ \A s \in Rows : role[s] # NoRole => role'[s] = role[s]
           /\ role'["org_member"] # NoRole
<1>1. /\ role' \in [Rows -> RoleRow] /\ CatalogueSound'
      /\ \A s \in Rows : role[s] # NoRole => role'[s] = role[s]
      /\ role'["org_member"] # NoRole
  BY WithRoleShape DEF Builtin
<1>2. OrganizationsTypeOK'
  BY <1>1 DEF RolesInv, OrganizationsTypeOK, RoleRow
<1>3. /\ \A u \in Users : userRoles[u] \subseteq Rows
      /\ \A o \in Orgs, u \in Users : member[o][u].roles \subseteq Rows
  BY DEF RolesInv, OrganizationsTypeOK
<1>4. HoldingsSound'
  BY <1>1, <1>3 DEF RolesInv, HoldingsSound, Fits
<1> QED
  BY <1>1, <1>2, <1>4 DEF RolesInv

LEMMA RolesInvNext == RolesInv /\ OrganizationsNext => RolesInv'
<1> SUFFICES ASSUME RolesInv, OrganizationsNext PROVE RolesInv'
  OBVIOUS
<1>t. /\ Targets \subseteq Users /\ Root \in Users
      /\ org \in [Orgs -> {"none", "active", "suspended"}]
      /\ claims \in [Users -> SUBSET Registry]
      /\ \A R \in SUBSET Rows : PermsOf(R) \in SUBSET Registry
      /\ \A u \in Users : userRoles[u] \in SUBSET Rows
      /\ \A o \in Orgs, u \in Users : member[o][u].roles \in SUBSET Rows
  BY OrganizationsAssumption DEF RolesInv, OrganizationsTypeOK, PermsOf
<1>1. ASSUME NEW u \in Users, IssueToken(u) PROVE RolesInv'
  <2>1. PICK P \in SUBSET Registry : claims' = [claims EXCEPT ![u] = P]
    <3>1. CASE claims' = [claims EXCEPT ![u] = PermsOf(userRoles[u])]
      BY <1>t, <3>1
    <3>2. ASSUME NEW o \in Primary(u),
                 claims' = [claims EXCEPT ![u] = PermsOf(userRoles[u]) \cup MemberPerms(o, u)]
          PROVE  \E P \in SUBSET Registry : claims' = [claims EXCEPT ![u] = P]
      <4>1. o \in Orgs
        BY OrganizationsAssumption DEF Primary, ActiveIn
      <4>2. PermsOf(userRoles[u]) \cup MemberPerms(o, u) \in SUBSET Registry
        BY <1>t, <4>1 DEF MemberPerms
      <4> QED
        BY <3>2, <4>2
    <3> QED
      BY <1>1, <3>1, <3>2 DEF IssueToken
  <2>2. claims' \in [Users -> SUBSET Registry]
    BY <1>t, <2>1
  <2> QED
    BY <1>t, <1>1, <2>2, OtherKeepsInv DEF IssueToken
<1>2. ASSUME NEW u \in Users, NEW o \in Orgs, NEW st \in {"active", "suspended"}, SetOrgStatus(u, o, st)
      PROVE  RolesInv'
  <2>1. org' \in [Orgs -> {"none", "active", "suspended"}] /\ authority' \in {"tenant", "platform"}
    BY <1>t, <1>2, ByType DEF SetOrgStatus
  <2> QED
    BY <1>t, <1>2, <2>1, OtherKeepsInv DEF SetOrgStatus
<1>3. CASE \/ \E u \in Targets, o \in Orgs : CreateOrg(u, o)
           \/ \E u \in Users, v \in Targets, o \in Orgs : InviteMember(u, o, v)
           \/ \E v \in Targets, o \in Orgs : JitProvisionMembership(o, v)
  BY <1>t, <1>3, JoiningKeepsInv
<1>4. CASE \/ \E u \in Users, v \in Targets, o \in Orgs, R \in RoleSets : SetMemberRoles(u, o, v, R)
           \/ \E u \in Users, v \in Targets, o \in Orgs, r \in Rows :
                 AddMemberRole(u, o, v, r) \/ RemoveMemberRole(u, o, v, r)
  BY <1>t, <1>4, MemberRolesKeepInv
<1>5. CASE \/ \E u \in Users, r \in Extra, n \in NewNames, s \in Orgs \cup {Platform}, P \in PermSets :
                 CreateRole(u, r, n, s, P)
           \/ \E u \in Users, r \in Rows, P \in PermSets : UpdateRole(u, r, P)
           \/ \E u \in Users, r \in Rows : DeleteRole(u, r)
  BY <1>5, EditingKeepsInv
<1>6. CASE StartUp
  BY <1>6, StartUpKeepsInv
<1>7. CASE \/ \E u \in Users, v \in Targets, r \in Rows :
                 AssignUserRole(u, v, r) \/ RemoveUserRole(u, v, r)
           \/ \E u \in Users, v \in Targets, R \in RoleSets : SetUserRoles(u, v, R)
  BY <1>t, <1>7, GlobalRolesKeepInv
<1> QED
  BY <1>1, <1>2, <1>3, <1>4, <1>5, <1>6, <1>7 DEF OrganizationsNext

---------------------------------------------------------------------------
(* Invitations                                                             *)

InviteRow == [status : InviteStatus,
              org : Orgs, names : SUBSET (Builtin \cup Bootstrap \cup NewNames),
              byPlatform : BOOLEAN, secret : BOOLEAN, attempts : Nat, late : BOOLEAN]
RequestRow == [pc : {"idle", "revoke", "expire", "claimed", "replayed", "recount"},
               inv : Invites \cup {NoInvite}, attempts : Nat, status : InviteStatus]
PolicyRow == [set : BOOLEAN, required : BOOLEAN, override : BOOLEAN]

\* A row that was accepted is closed for good, a pending one is below the limit
\* of wrong codes and alone in its organisation.
RowsClosed ==
    /\ \A i \in Invites : /\ spent[i] <= 1
                          /\ spent[i] # 0 => inv[i].status \notin {"none", "pending"}
                          /\ Pending(i) => inv[i].attempts < MaxAttempts
    /\ \A i, j \in Invites : Pending(i) /\ Pending(j) /\ inv[i].org = inv[j].org => i = j

\* A request in flight is about a row that was written.  What a replayed code
\* read of it may be old, but a row that is still pending was pending then, and
\* below the limit.
RequestSound(r) ==
    r.pc # "idle" =>
        /\ r.inv \in Invites /\ inv[r.inv].status # "none"
        /\ r.pc = "recount" /\ Pending(r.inv) => r.status # "revoked" /\ r.attempts < MaxAttempts

RequestsSound == \A s \in InviteSlots : RequestSound(ireq[s])

InvitationsInv == RolesInv /\ InvitationsTypeOK /\ RowsClosed /\ RequestsSound

LEMMA InvitationsTypes ==
    InvitationsTypeOK <=>
        /\ OrganizationsTypeOK
        /\ inv \in [Invites -> InviteRow] /\ spent \in [Invites -> 0..2]
        /\ account \in {"none", "plain", "mfa"} /\ madeBy \in Invites \cup {NoInvite}
        /\ policy \in [Orgs -> PolicyRow] /\ ireq \in [InviteSlots -> RequestRow]
BY DEF InvitationsTypeOK, InviteRow, RequestRow, PolicyRow

LEMMA InvitationsTypesNext ==
    InvitationsTypeOK' <=>
        /\ OrganizationsTypeOK'
        /\ inv' \in [Invites -> InviteRow] /\ spent' \in [Invites -> 0..2]
        /\ account' \in {"none", "plain", "mfa"} /\ madeBy' \in Invites \cup {NoInvite}
        /\ policy' \in [Orgs -> PolicyRow] /\ ireq' \in [InviteSlots -> RequestRow]
BY DEF InvitationsTypeOK, InviteRow, RequestRow, PolicyRow

LEMMA IdleRows ==
    /\ NoRowYet \in InviteRow /\ NoRowYet.status = "none"
    /\ IdleInviteReq \in RequestRow /\ IdleInviteReq.pc = "idle"
    /\ NoPolicy \in PolicyRow
BY InvitationsAssumption, OrganizationsAssumption
DEF NoRowYet, InviteRow, InviteStatus, IdleInviteReq, RequestRow, NoPolicy, PolicyRow

LEMMA InvitationsInvInit == InvitationsInit => InvitationsInv
<1> SUFFICES ASSUME InvitationsInit PROVE InvitationsInv
  OBVIOUS
<1>1. RolesInv
  BY RolesInvInit DEF InvitationsInit
<1>2. InvitationsTypeOK
  BY <1>1, IdleRows, InvitationsTypes DEF InvitationsInit, RolesInv
<1>3. /\ \A i \in Invites : inv[i].status = "none" /\ spent[i] = 0
      /\ \A s \in InviteSlots : ireq[s].pc = "idle"
  BY IdleRows DEF InvitationsInit
<1>4. RowsClosed /\ RequestsSound
  BY <1>3 DEF RowsClosed, RequestsSound, RequestSound, Pending
<1> QED
  BY <1>1, <1>2, <1>4 DEF InvitationsInv

\* Steps after which no row is pending that was not, or has come back to be
\* unwritten.
LEMMA ClosingKeepsInv ==
    ASSUME InvitationsInv,
           inv' \in [Invites -> InviteRow],
           ireq' \in [InviteSlots -> RequestRow],
           \A s \in InviteSlots : RequestSound(ireq'[s]),
           policy' \in [Orgs -> PolicyRow],
           account' \in {"none", "plain", "mfa"},
           madeBy' \in Invites \cup {NoInvite},
           \A i \in Invites :
              /\ inv'[i].status = "none" => inv[i].status = "none"
              /\ inv'[i].status = "pending" => /\ inv[i].status = "pending"
                                               /\ inv'[i].org = inv[i].org
                                               /\ inv'[i].attempts < MaxAttempts,
           authority' \in {"tenant", "platform"},
           UNCHANGED <<org, role, userRoles, member, claims, spent>>
    PROVE  InvitationsInv'
<1>1. RolesInv'
  BY OtherKeepsInv DEF InvitationsInv, RolesInv, OrganizationsTypeOK
<1>2. InvitationsTypeOK'
  BY <1>1, InvitationsTypes, InvitationsTypesNext DEF InvitationsInv, RolesInv
<1>3. RowsClosed'
  BY DEF InvitationsInv, RowsClosed, Pending
<1>4. RequestsSound'
  BY DEF RequestsSound, RequestSound, Pending
<1> QED
  BY <1>1, <1>2, <1>3, <1>4 DEF InvitationsInv

\* A request moves.
LEMMA RequestKeepsInv ==
    ASSUME InvitationsInv, NEW s \in InviteSlots, NEW r \in RequestRow,
           ireq' = [ireq EXCEPT ![s] = r], RequestSound(r)
    PROVE  /\ ireq' \in [InviteSlots -> RequestRow]
           /\ \A t \in InviteSlots : RequestSound(ireq'[t])
<1>1. ireq \in [InviteSlots -> RequestRow]
  BY InvitationsTypes DEF InvitationsInv
<1>2. ireq' \in [InviteSlots -> RequestRow]
  BY <1>1
<1>3. ASSUME NEW t \in InviteSlots PROVE RequestSound(ireq'[t])
  <2>1. ireq'[t] = r \/ ireq'[t] = ireq[t]
    BY <1>1
  <2> QED
    BY <2>1 DEF InvitationsInv, RequestsSound
<1> QED
  BY <1>2, <1>3

LEMMA IdleIsSound == RequestSound(IdleInviteReq)
BY IdleRows DEF RequestSound

\* The status, and nothing else that matters here, of one row.
LEMMA CloseShape ==
    ASSUME InvitationsInv, NEW i \in Invites, NEW st \in {"revoked", "expired"}
    PROVE  /\ Closed(i, st) \in [Invites -> InviteRow]
           /\ Closed(i, st)[i].status = st
           /\ \A j \in Invites \ {i} : Closed(i, st)[j] = inv[j]
<1>1. inv \in [Invites -> InviteRow]
  BY InvitationsTypes DEF InvitationsInv
<1>2. Closed(i, st) = [inv EXCEPT ![i] = [inv[i] EXCEPT !.status = st]]
  BY <1>1 DEF Closed
<1>3. [inv[i] EXCEPT !.status = st] \in InviteRow /\ [inv[i] EXCEPT !.status = st].status = st
  BY <1>1 DEF InviteRow, InviteStatus
<1> QED
  BY <1>1, <1>2, <1>3

LEMMA CountShape ==
    ASSUME InvitationsInv, NEW i \in Invites, NEW seen, seen.attempts \in Nat
    PROVE  /\ CountFailure(i, seen) \in [Invites -> InviteRow]
           /\ CountFailure(i, seen)[i].attempts = seen.attempts + 1
           /\ CountFailure(i, seen)[i].org = inv[i].org
           /\ CountFailure(i, seen)[i].status =
                 IF seen.attempts + 1 >= MaxAttempts /\ seen.status # "revoked"
                 THEN "revoked" ELSE inv[i].status
           /\ \A j \in Invites \ {i} : CountFailure(i, seen)[j] = inv[j]
<1>1. inv \in [Invites -> InviteRow] /\ inv[i] \in InviteRow
  BY InvitationsTypes DEF InvitationsInv
<1> DEFINE st == IF seen.attempts + 1 >= MaxAttempts /\ seen.status # "revoked"
                 THEN "revoked" ELSE inv[i].status
           n == seen.attempts + 1
           row == [inv[i] EXCEPT !.attempts = n, !.status = st]
<1>2. CountFailure(i, seen) = [inv EXCEPT ![i] = row]
  BY <1>1 DEF CountFailure
<1>3. n \in Nat /\ st \in InviteStatus
  BY <1>1, InvitationsAssumption DEF InviteRow, InviteStatus
<1> HIDE DEF st, n
<1>4. row \in InviteRow /\ row.attempts = n /\ row.status = st /\ row.org = inv[i].org
  BY <1>1, <1>3 DEF InviteRow
<1> HIDE DEF row
<1>5. /\ CountFailure(i, seen) \in [Invites -> InviteRow] /\ CountFailure(i, seen)[i] = row
      /\ \A j \in Invites \ {i} : CountFailure(i, seen)[j] = inv[j]
  BY <1>1, <1>2, <1>4
<1> QED
  BY <1>4, <1>5 DEF st, n

\* Requests that only read, and the rest of a request that was given up.
LEMMA ReadingKeepsInv ==
    ASSUME InvitationsInv, NEW s \in InviteSlots
    PROVE  \/ \E u \in Users, i \in Invites : RevokeRead(s, u, i)
           \/ \E i \in Invites : PreviewRead(s, i)
           \/ \E i \in Invites, how \in {"claimed", "replayed"} : AcceptStepUp(s, i, how)
           \/ AcceptReload(s)
           \/ AcceptAbandoned(s)
           => InvitationsInv'
<1>t. /\ inv \in [Invites -> InviteRow] /\ policy \in [Orgs -> PolicyRow]
      /\ account \in {"none", "plain", "mfa"} /\ madeBy \in Invites \cup {NoInvite}
      /\ \A i \in Invites : Pending(i) => inv[i].attempts < MaxAttempts
  BY InvitationsTypes DEF InvitationsInv, RowsClosed
<1>1. ASSUME NEW r \in RequestRow, ireq' = [ireq EXCEPT ![s] = r], RequestSound(r),
             authority' \in {"tenant", "platform"},
             UNCHANGED <<org, role, userRoles, member, claims, inv, spent, account, madeBy, policy>>
      PROVE  InvitationsInv'
  <2>1. /\ ireq' \in [InviteSlots -> RequestRow]
        /\ \A t \in InviteSlots : RequestSound(ireq'[t])
    BY <1>1, RequestKeepsInv
  <2>2. \A i \in Invites : inv'[i].status = "pending" => inv'[i].attempts < MaxAttempts
    BY <1>t, <1>1 DEF Pending
  <2> QED
    BY <1>t, <1>1, <2>1, <2>2, ClosingKeepsInv
<1>2. ASSUME NEW u \in Users, NEW i \in Invites, RevokeRead(s, u, i) PROVE InvitationsInv'
  <2> DEFINE r == [IdleInviteReq EXCEPT !.pc = "revoke", !.inv = i]
  <2>1. r \in RequestRow /\ r.pc = "revoke" /\ r.inv = i
    BY IdleRows DEF RequestRow, IdleInviteReq
  <2>2. /\ ireq' = [ireq EXCEPT ![s] = r] /\ authority' \in {"tenant", "platform"} /\ Pending(i)
        /\ UNCHANGED <<org, role, userRoles, member, claims, inv, spent, account, madeBy, policy>>
    BY <1>2, ByType DEF RevokeRead
  <2> HIDE DEF r
  <2>3. RequestSound(r)
    BY <2>1, <2>2 DEF RequestSound, Pending
  <2> QED
    BY <1>1, <2>1, <2>2, <2>3
<1>3. ASSUME NEW i \in Invites, PreviewRead(s, i) PROVE InvitationsInv'
  <2> DEFINE r == [IdleInviteReq EXCEPT !.pc = "expire", !.inv = i]
  <2>1. r \in RequestRow /\ r.pc = "expire" /\ r.inv = i
    BY IdleRows DEF RequestRow, IdleInviteReq
  <2>2. /\ ireq' = [ireq EXCEPT ![s] = r] /\ authority' \in {"tenant", "platform"} /\ Pending(i)
        /\ UNCHANGED <<org, role, userRoles, member, claims, inv, spent, account, madeBy, policy>>
    BY <1>3 DEF PreviewRead
  <2> HIDE DEF r
  <2>3. RequestSound(r)
    BY <2>1, <2>2 DEF RequestSound, Pending
  <2> QED
    BY <1>1, <2>1, <2>2, <2>3
<1>4. ASSUME NEW i \in Invites, NEW how \in {"claimed", "replayed"}, AcceptStepUp(s, i, how)
      PROVE  InvitationsInv'
  <2> DEFINE r == [IdleInviteReq EXCEPT !.pc = how, !.inv = i]
  <2>1. r \in RequestRow /\ r.inv = i /\ r.pc = how
    BY IdleRows DEF RequestRow, IdleInviteReq
  <2>2. /\ ireq' = [ireq EXCEPT ![s] = r] /\ authority' \in {"tenant", "platform"} /\ Pending(i)
        /\ UNCHANGED <<org, role, userRoles, member, claims, inv, spent, account, madeBy, policy>>
    BY <1>4 DEF AcceptStepUp, Open
  <2> HIDE DEF r
  <2>3. RequestSound(r)
    BY <2>1, <2>2 DEF RequestSound, Pending
  <2> QED
    BY <1>1, <2>1, <2>2, <2>3
<1>5. ASSUME AcceptAbandoned(s) PROVE InvitationsInv'
  BY <1>1, <1>5, IdleRows, IdleIsSound DEF AcceptAbandoned
<1>6. ASSUME AcceptReload(s) PROVE InvitationsInv'
  <2> DEFINE i == ireq[s].inv
             r == [ireq[s] EXCEPT !.pc = "recount", !.attempts = inv[i].attempts,
                                  !.status = inv[i].status]
  <2>1. ireq[s] \in RequestRow /\ ireq[s].pc = "replayed" /\ RequestSound(ireq[s])
    BY <1>6, InvitationsTypes DEF InvitationsInv, RequestsSound, AcceptReload
  <2>2. i \in Invites /\ inv[i].status # "none"
    BY <2>1 DEF RequestSound
  <2>3. inv[i].attempts \in Nat /\ inv[i].status \in InviteStatus
    BY <1>t, <2>2 DEF InviteRow
  <2>4. /\ r \in RequestRow /\ r.inv = i
        /\ r.attempts = inv[i].attempts /\ r.status = inv[i].status
    BY <2>1, <2>3 DEF RequestRow
  <2>5. /\ ireq' = [ireq EXCEPT ![s] = r] /\ authority' \in {"tenant", "platform"}
        /\ UNCHANGED <<org, role, userRoles, member, claims, inv, spent, account, madeBy, policy>>
    BY <1>6, InvitationsTypes DEF AcceptReload, InvitationsInv
  <2> HIDE DEF r, i
  <2>6. RequestSound(r)
    BY <1>t, <2>2, <2>4 DEF RequestSound, Pending
  <2> QED
    BY <1>1, <2>4, <2>5, <2>6
<1> QED
  BY <1>2, <1>3, <1>4, <1>5, <1>6

\* Rows closed or counted against, by whoever had read them.
LEMMA WritingKeepsInv ==
    ASSUME InvitationsInv
    PROVE  \/ \E u \in Users, o \in Orgs : ListInvitations(u, o)
           \/ \E s \in InviteSlots : CloseCommit(s) \/ AcceptReplayed(s)
           \/ \E i \in Invites :
                 StartInvitationMfa(i) \/ AcceptWrongCode(i) \/ InvitationLapses(i)
           => InvitationsInv'
<1>t. /\ inv \in [Invites -> InviteRow] /\ policy \in [Orgs -> PolicyRow]
      /\ account \in {"none", "plain", "mfa"} /\ madeBy \in Invites \cup {NoInvite}
      /\ ireq \in [InviteSlots -> RequestRow] /\ RequestsSound
      /\ \A i \in Invites : Pending(i) => inv[i].attempts < MaxAttempts
  BY InvitationsTypes DEF InvitationsInv, RowsClosed
<1>r. ASSUME UNCHANGED ireq
      PROVE  /\ ireq' \in [InviteSlots -> RequestRow]
             /\ \A t \in InviteSlots : RequestSound(ireq'[t])
  BY <1>t, <1>r DEF RequestsSound
<1>1. ASSUME NEW u \in Users, NEW o \in Orgs, ListInvitations(u, o) PROVE InvitationsInv'
  <2>1. /\ authority' \in {"tenant", "platform"}
        /\ UNCHANGED <<org, role, userRoles, member, claims, spent, account, madeBy, policy, ireq>>
    BY <1>1, ByType DEF ListInvitations
  <2>2. inv' = [i \in Invites |-> IF Pending(i) /\ inv[i].org = o /\ inv[i].late
                                 THEN [inv[i] EXCEPT !.status = "expired"] ELSE inv[i]]
    BY <1>1 DEF ListInvitations
  <2>3. ASSUME NEW i \in Invites
        PROVE  /\ inv'[i] \in InviteRow
               /\ inv'[i] = inv[i] \/ inv'[i].status = "expired"
    BY <1>t, <2>2 DEF InviteRow, InviteStatus
  <2>4. inv' \in [Invites -> InviteRow]
    BY <2>2, <2>3
  <2>5. \A i \in Invites :
            /\ inv'[i].status = "none" => inv[i].status = "none"
            /\ inv'[i].status = "pending" => /\ inv[i].status = "pending"
                                             /\ inv'[i].org = inv[i].org
                                             /\ inv'[i].attempts < MaxAttempts
    BY <1>t, <2>3 DEF Pending
  <2> QED
    BY <1>t, <1>r, <2>1, <2>4, <2>5, ClosingKeepsInv
<1>2. ASSUME NEW s \in InviteSlots, CloseCommit(s) PROVE InvitationsInv'
  <2> DEFINE i == ireq[s].inv
             st == IF ireq[s].pc = "revoke" THEN "revoked" ELSE "expired"
  <2>1. /\ inv' = Closed(i, st) /\ ireq' = [ireq EXCEPT ![s] = IdleInviteReq]
        /\ authority' \in {"tenant", "platform"}
        /\ UNCHANGED <<org, role, userRoles, member, claims, spent, account, madeBy, policy>>
    BY <1>2 DEF CloseCommit
  <2>2. i \in Invites /\ st \in {"revoked", "expired"}
    BY <1>t, <1>2 DEF CloseCommit, RequestsSound, RequestSound
  <2> HIDE DEF i, st
  <2>3. /\ inv' \in [Invites -> InviteRow] /\ inv'[i].status = st
        /\ \A j \in Invites \ {i} : inv'[j] = inv[j]
    BY <2>1, <2>2, CloseShape
  <2>4. /\ ireq' \in [InviteSlots -> RequestRow]
        /\ \A t \in InviteSlots : RequestSound(ireq'[t])
    BY <2>1, IdleRows, IdleIsSound, RequestKeepsInv
  <2>5. \A j \in Invites :
            /\ inv'[j].status = "none" => inv[j].status = "none"
            /\ inv'[j].status = "pending" => /\ inv[j].status = "pending"
                                             /\ inv'[j].org = inv[j].org
                                             /\ inv'[j].attempts < MaxAttempts
    BY <1>t, <2>2, <2>3 DEF Pending
  <2> QED
    BY <1>t, <2>1, <2>3, <2>4, <2>5, ClosingKeepsInv
<1>c. ASSUME NEW i \in Invites, NEW seen, seen.attempts \in Nat,
             Pending(i) => seen.status # "revoked", inv' = CountFailure(i, seen)
      PROVE  /\ inv' \in [Invites -> InviteRow]
             /\ \A j \in Invites :
                  /\ inv'[j].status = "none" => inv[j].status = "none"
                  /\ inv'[j].status = "pending" => /\ inv[j].status = "pending"
                                                   /\ inv'[j].org = inv[j].org
                                                   /\ inv'[j].attempts < MaxAttempts
  <2>1. /\ inv' \in [Invites -> InviteRow]
        /\ inv'[i].attempts = seen.attempts + 1 /\ inv'[i].org = inv[i].org
        /\ inv'[i].status = IF seen.attempts + 1 >= MaxAttempts /\ seen.status # "revoked"
                            THEN "revoked" ELSE inv[i].status
        /\ \A j \in Invites \ {i} : inv'[j] = inv[j]
    BY <1>c, CountShape
  <2>2. MaxAttempts \in Int /\ seen.attempts + 1 \in Int
    BY <1>c, InvitationsAssumption
  <2>3. \A j \in Invites \ {i} :
            /\ inv'[j].status = "none" => inv[j].status = "none"
            /\ inv'[j].status = "pending" => /\ inv[j].status = "pending"
                                             /\ inv'[j].org = inv[j].org
                                             /\ inv'[j].attempts < MaxAttempts
    BY <1>t, <2>1 DEF Pending
  <2>4. inv'[i].status = "pending" => inv[i].status = "pending" /\ inv'[i].attempts < MaxAttempts
    BY <1>c, <2>1, <2>2 DEF Pending
  <2>5. inv'[i].status = "none" => inv[i].status = "none"
    BY <2>1
  <2> QED
    BY <2>1, <2>3, <2>4, <2>5
<1>3. ASSUME NEW s \in InviteSlots, AcceptReplayed(s) PROVE InvitationsInv'
  <2> DEFINE i == ireq[s].inv
             seen == ireq[s]
  <2>1. /\ inv' = CountFailure(i, seen) /\ ireq' = [ireq EXCEPT ![s] = IdleInviteReq]
        /\ authority' \in {"tenant", "platform"}
        /\ UNCHANGED <<org, role, userRoles, member, claims, spent, account, madeBy, policy>>
    BY <1>3 DEF AcceptReplayed
  <2>2. /\ i \in Invites /\ seen.attempts \in Nat
        /\ Pending(i) => seen.status # "revoked"
    BY <1>t, <1>3 DEF AcceptReplayed, RequestsSound, RequestSound, RequestRow
  <2> HIDE DEF i, seen
  <2>4. /\ ireq' \in [InviteSlots -> RequestRow]
        /\ \A t \in InviteSlots : RequestSound(ireq'[t])
    BY <2>1, IdleRows, IdleIsSound, RequestKeepsInv
  <2> QED
    BY <1>t, <1>c, <2>1, <2>2, <2>4, ClosingKeepsInv
<1>4. ASSUME NEW i \in Invites, AcceptWrongCode(i) PROVE InvitationsInv'
  <2>1. /\ inv' = CountFailure(i, inv[i]) /\ Pending(i)
        /\ authority' \in {"tenant", "platform"}
        /\ UNCHANGED <<org, role, userRoles, member, claims, spent, account, madeBy, policy, ireq>>
    BY <1>4 DEF AcceptWrongCode, Open
  <2>2. inv[i].attempts \in Nat /\ inv[i].status # "revoked"
    BY <1>t, <2>1 DEF InviteRow, Pending
  <2> QED
    BY <1>t, <1>c, <1>r, <2>1, <2>2, ClosingKeepsInv
<1>5. ASSUME NEW i \in Invites, StartInvitationMfa(i) \/ InvitationLapses(i) PROVE InvitationsInv'
  <2>1. /\ authority' \in {"tenant", "platform"}
        /\ UNCHANGED <<org, role, userRoles, member, claims, spent, account, madeBy, policy, ireq>>
        /\ \/ inv' = [inv EXCEPT ![i].secret = TRUE]
           \/ inv' = [inv EXCEPT ![i].late = TRUE]
    BY <1>5 DEF StartInvitationMfa, InvitationLapses
  <2>2. PICK row \in InviteRow :
          /\ inv' = [inv EXCEPT ![i] = row]
          /\ row.status = inv[i].status /\ row.org = inv[i].org /\ row.attempts = inv[i].attempts
    <3> DEFINE kept == [inv[i] EXCEPT !.secret = TRUE]
               aged == [inv[i] EXCEPT !.late = TRUE]
    <3>1. inv[i] \in InviteRow
      BY <1>t
    <3>2. /\ kept \in InviteRow /\ kept.status = inv[i].status
          /\ kept.org = inv[i].org /\ kept.attempts = inv[i].attempts
      BY <3>1 DEF InviteRow
    <3>3. /\ aged \in InviteRow /\ aged.status = inv[i].status
          /\ aged.org = inv[i].org /\ aged.attempts = inv[i].attempts
      BY <3>1 DEF InviteRow
    <3>4. inv' = [inv EXCEPT ![i] = kept] \/ inv' = [inv EXCEPT ![i] = aged]
      BY <1>t, <2>1
    <3> HIDE DEF kept, aged
    <3> QED
      BY <3>2, <3>3, <3>4
  <2>3. inv' \in [Invites -> InviteRow]
    BY <1>t, <2>2
  <2>4. \A j \in Invites : /\ inv'[j].status = inv[j].status /\ inv'[j].org = inv[j].org
                           /\ inv'[j].attempts = inv[j].attempts
    BY <1>t, <2>2
  <2>5. \A j \in Invites : inv'[j].status = "pending" => inv'[j].attempts < MaxAttempts
    BY <1>t, <2>4 DEF Pending
  <2> QED
    BY <1>t, <1>r, <2>1, <2>3, <2>4, <2>5, ClosingKeepsInv
<1> QED
  BY <1>1, <1>2, <1>3, <1>4, <1>5

\* Policies, the account, the refused acceptance: no row and no request moves.
LEMMA AroundKeepsInv ==
    ASSUME InvitationsInv
    PROVE  \/ \E u \in Users, o \in Orgs, on \in BOOLEAN :
                 SetMfaPolicy(u, o, on) \/ SetMfaOverride(u, o, on)
           \/ \E i \in Invites : AcceptNewUserRefused(i)
           \/ InviteeEnrols
           => InvitationsInv'
<1>t. /\ inv \in [Invites -> InviteRow] /\ policy \in [Orgs -> PolicyRow]
      /\ account \in {"none", "plain", "mfa"} /\ madeBy \in Invites \cup {NoInvite}
      /\ ireq \in [InviteSlots -> RequestRow] /\ RequestsSound
      /\ \A i \in Invites : Pending(i) => inv[i].attempts < MaxAttempts
  BY InvitationsTypes DEF InvitationsInv, RowsClosed
<1>r. ASSUME UNCHANGED ireq
      PROVE  /\ ireq' \in [InviteSlots -> RequestRow]
             /\ \A t \in InviteSlots : RequestSound(ireq'[t])
  BY <1>t, <1>r DEF RequestsSound
<1>0. ASSUME policy' \in [Orgs -> PolicyRow], account' \in {"none", "plain", "mfa"},
             madeBy' \in Invites \cup {NoInvite}, authority' \in {"tenant", "platform"},
             UNCHANGED <<org, role, userRoles, member, claims, inv, spent, ireq>>
      PROVE  InvitationsInv'
  BY <1>t, <1>r, <1>0, ClosingKeepsInv DEF Pending
<1>1. ASSUME NEW u \in Users, NEW o \in Orgs, NEW on \in BOOLEAN,
             SetMfaPolicy(u, o, on) \/ SetMfaOverride(u, o, on)
      PROVE  InvitationsInv'
  <2>1. /\ authority' \in {"tenant", "platform"}
        /\ UNCHANGED <<org, role, userRoles, member, claims, inv, spent, account, madeBy, ireq>>
        /\ \/ policy' = [policy EXCEPT ![o].set = TRUE, ![o].required = on]
           \/ policy' = [policy EXCEPT ![o].override = on]
    BY <1>1, ByType DEF SetMfaPolicy, SetMfaOverride
  <2>2. policy[o] \in PolicyRow /\ on \in BOOLEAN
    BY <1>t
  <2>3. /\ [policy[o] EXCEPT !.set = TRUE, !.required = on] \in PolicyRow
        /\ [policy[o] EXCEPT !.override = on] \in PolicyRow
    BY <2>2 DEF PolicyRow
  <2>4. policy' \in [Orgs -> PolicyRow]
    <3>1. CASE policy' = [policy EXCEPT ![o].set = TRUE, ![o].required = on]
      BY <1>t, <2>3, <3>1
    <3>2. CASE policy' = [policy EXCEPT ![o].override = on]
      BY <1>t, <2>3, <3>2
    <3> QED
      BY <2>1, <3>1, <3>2
  <2> QED
    BY <1>t, <1>0, <2>1, <2>4
<1>2. ASSUME NEW i \in Invites, AcceptNewUserRefused(i) PROVE InvitationsInv'
  BY <1>t, <1>0, <1>2 DEF AcceptNewUserRefused
<1>3. ASSUME InviteeEnrols PROVE InvitationsInv'
  BY <1>t, <1>0, <1>3 DEF InviteeEnrols
<1> QED
  BY <1>1, <1>2, <1>3

\* create_invitation: what was pending for the address in the organisation has
\* lapsed and is closed by the step that writes the new row.
LEMMA CreatingKeepsInv ==
    ASSUME InvitationsInv, NEW u \in Users, NEW o \in Orgs, NEW R \in RoleSets, NEW i \in Invites,
           CreateInvitation(u, o, R, i)
    PROVE  InvitationsInv'
<1>t. /\ inv \in [Invites -> InviteRow] /\ policy \in [Orgs -> PolicyRow]
      /\ account \in {"none", "plain", "mfa"} /\ madeBy \in Invites \cup {NoInvite}
      /\ ireq \in [InviteSlots -> RequestRow] /\ spent \in [Invites -> 0..2]
      /\ role \in [Rows -> RoleRow] /\ RequestsSound /\ RowsClosed
  BY InvitationsTypes DEF InvitationsInv, OrganizationsTypeOK, RoleRow
<1> DEFINE names == {role'[r].name : r \in R}
           new == [NoRowYet EXCEPT !.status = "pending", !.org = o, !.names = names,
                                   !.byPlatform = PlatformAdmin(u)]
<1>1. /\ authority' \in {"tenant", "platform"} /\ inv[i] = NoRowYet
      /\ R \ {"org_member"} \subseteq Visible(o) /\ role' = WithRole("org_member", {})
      /\ UNCHANGED <<org, userRoles, member, claims, spent, account, madeBy, policy, ireq>>
  BY ByType DEF CreateInvitation, KnownRoles, Assignable
<1>b. /\ RolesInv' /\ role' \in [Rows -> RoleRow] /\ role'["org_member"] # NoRole
      /\ \A r \in Rows : role[r] # NoRole => role'[r] = role[r]
  BY <1>1, BaseRoleKeepsInv DEF InvitationsInv
<1>2. inv' = [j \in Invites |->
                 IF j = i THEN new
                 ELSE IF Pending(j) /\ inv[j].org = o THEN [inv[j] EXCEPT !.status = "expired"]
                 ELSE inv[j]]
  BY Zenon DEF CreateInvitation
<1>3. names \subseteq Builtin \cup Bootstrap \cup NewNames
  <2>1. \A r \in R : r \in Rows /\ role'[r] # NoRole
    BY <1>1, <1>b DEF Visible, Rows, Builtin
  <2>2. ASSUME NEW r \in R PROVE role'[r].name \in Builtin \cup Bootstrap \cup NewNames
    BY <1>b, <2>1 DEF RoleRow, RolesInv, CatalogueSound
  <2> QED
    BY <2>2
<1>4. PlatformAdmin(u) \in BOOLEAN
  BY DEF PlatformAdmin
<1> HIDE DEF names
<1>5. /\ new \in InviteRow /\ new.status = "pending" /\ new.org = o /\ new.attempts = 0
  BY <1>3, <1>4, IdleRows DEF NoRowYet, InviteRow, InviteStatus
<1> HIDE DEF new
<1>6. ASSUME NEW j \in Invites \ {i}
      PROVE  /\ inv'[j] \in InviteRow
             /\ \/ inv'[j] = inv[j] /\ ~(Pending(j) /\ inv[j].org = o)
                \/ inv'[j].status = "expired"
  <2>1. inv[j] \in InviteRow
    BY <1>t
  <2>2. [inv[j] EXCEPT !.status = "expired"] \in InviteRow
        /\ [inv[j] EXCEPT !.status = "expired"].status = "expired"
    BY <2>1 DEF InviteRow, InviteStatus
  <2> QED
    BY <1>2, <2>1, <2>2
<1>7. inv'[i] = new /\ inv' \in [Invites -> InviteRow]
  BY <1>2, <1>5, <1>6
<1>8. RolesInv'
  BY <1>b
<1>9. InvitationsTypeOK'
  BY <1>t, <1>1, <1>7, <1>8, InvitationsTypesNext DEF RolesInv
<1>10. spent[i] = 0
  BY <1>t, <1>1, IdleRows DEF RowsClosed
<1>11. RowsClosed'
  <2>1. ASSUME NEW j \in Invites
        PROVE  /\ spent'[j] <= 1
               /\ spent'[j] # 0 => inv'[j].status \notin {"none", "pending"}
               /\ inv'[j].status = "pending" => inv'[j].attempts < MaxAttempts
    <3>1. CASE j = i
      BY <1>t, <1>1, <1>5, <1>7, <1>10, <3>1, InvitationsAssumption DEF RowsClosed
    <3>2. CASE j # i
      BY <1>t, <1>1, <1>6, <3>2 DEF RowsClosed, Pending
    <3> QED
      BY <3>1, <3>2
  <2>2. ASSUME NEW j \in Invites, NEW k \in Invites, inv'[j].status = "pending",
               inv'[k].status = "pending", inv'[j].org = inv'[k].org
        PROVE  j = k
    BY <1>t, <1>5, <1>6, <1>7, <2>2 DEF RowsClosed, Pending
  <2> QED
    BY <2>1, <2>2 DEF RowsClosed, Pending
<1>12. RequestsSound'
  BY <1>t, <1>1, <1>6, IdleRows DEF RequestsSound, RequestSound, Pending
<1> QED
  BY <1>8, <1>9, <1>11, <1>12 DEF InvitationsInv

\* Only the base role is left of a refused request.
LEMMA RefusingKeepsInv ==
    ASSUME InvitationsInv, NEW u \in Users, NEW o \in Orgs, NEW R \in RoleSets,
           CreateInvitationRefused(u, o, R)
    PROVE  InvitationsInv'
<1>1. /\ authority' \in {"tenant", "platform"} /\ role' = WithRole("org_member", {})
      /\ UNCHANGED <<org, userRoles, member, claims, inv, spent, account, madeBy, policy, ireq>>
  BY ByType DEF CreateInvitationRefused, inviteVars
<1>2. RolesInv'
  BY <1>1, BaseRoleKeepsInv DEF InvitationsInv
<1>3. InvitationsTypeOK'
  BY <1>1, <1>2, InvitationsTypes, InvitationsTypesNext DEF InvitationsInv, RolesInv
<1>4. RowsClosed' /\ RequestsSound'
  BY <1>1 DEF InvitationsInv, RowsClosed, RequestsSound, RequestSound, Pending
<1> QED
  BY <1>2, <1>3, <1>4 DEF InvitationsInv

\* _activate_invitation under the row lock.
LEMMA ActivatingKeepsInv ==
    ASSUME InvitationsInv, NEW i \in Invites, NEW R \in RoleSets, Pending(i), Activate(i, R),
           ireq' \in [InviteSlots -> RequestRow], \A s \in InviteSlots : RequestSound(ireq'[s]),
           account' \in {"none", "plain", "mfa"}, madeBy' \in Invites \cup {NoInvite},
           UNCHANGED <<org, role, userRoles, claims, policy>>
    PROVE  InvitationsInv'
<1>t. /\ inv \in [Invites -> InviteRow] /\ policy \in [Orgs -> PolicyRow]
      /\ spent \in [Invites -> 0..2] /\ RowsClosed
      /\ role \in [Rows -> RoleRow] /\ CatalogueSound
      /\ org \in [Orgs -> {"none", "active", "suspended"}]
  BY InvitationsTypes DEF InvitationsInv, RolesInv, OrganizationsTypeOK, RoleRow
<1> DEFINE o == inv[i].org
           row == [status |-> "active", roles |-> R]
           done == [inv[i] EXCEPT !.status = "accepted", !.secret = FALSE]
<1>1. o \in Orgs /\ Invitee \in Users
  BY <1>t, InvitationsAssumption DEF InviteRow
<1>2. /\ R \subseteq Visible(o) /\ authority' \in {"tenant", "platform"}
      /\ inv' = [inv EXCEPT ![i] = done] /\ spent' = [spent EXCEPT ![i] = spent[i] + 1]
  BY <1>t DEF Activate, Assignable, ByInviter
<1>3. member' = [member EXCEPT ![o][Invitee] = row]
  BY DEF Activate
<1>4. WritesMember(o, Invitee, row)
  BY <1>3 DEF WritesMember
<1>5. row \in MemberRow /\ row.roles = R
  BY <1>2 DEF MemberRow, Visible
<1>6. done \in InviteRow /\ done.status = "accepted"
  BY <1>t DEF InviteRow, InviteStatus
<1> HIDE DEF o, row, done
<1>7. RolesInv'
  <2>1. CatalogueSound' /\ role' \in [Rows -> RoleRow]
    BY <1>t DEF CatalogueSound
  <2>2. \A r \in row.roles : role'[r] # NoRole /\ role'[r].scope \in {Platform, o}
    BY <1>2, <1>5 DEF Visible
  <2>3. org' \in [Orgs -> {"none", "active", "suspended"}]
    BY <1>t
  <2> QED
    BY <1>1, <1>2, <1>4, <1>5, <2>1, <2>2, <2>3, MembershipKeepsInv DEF InvitationsInv
<1>8. spent[i] = 0
  BY <1>t DEF RowsClosed, Pending
<1>9. /\ inv' \in [Invites -> InviteRow] /\ inv'[i] = done
      /\ \A j \in Invites \ {i} : inv'[j] = inv[j]
  BY <1>t, <1>2, <1>6
<1>10. /\ spent' \in [Invites -> 0..2] /\ spent'[i] = 1
       /\ \A j \in Invites \ {i} : spent'[j] = spent[j]
  BY <1>t, <1>2, <1>8
<1>11. InvitationsTypeOK'
  BY <1>t, <1>7, <1>9, <1>10, InvitationsTypesNext DEF RolesInv
<1>12. RowsClosed'
  BY <1>t, <1>6, <1>9, <1>10 DEF RowsClosed, Pending
<1>13. RequestsSound'
  BY <1>6, <1>9 DEF RequestsSound, RequestSound, Pending
<1> QED
  BY <1>7, <1>11, <1>12, <1>13 DEF InvitationsInv

LEMMA AcceptingKeepsInv ==
    ASSUME InvitationsInv
    PROVE  \/ \E i \in Invites, R \in RoleSets : AcceptNewUser(i, R) \/ AcceptExistingUser(i, R)
           \/ \E s \in InviteSlots, R \in RoleSets : AcceptAfterStepUp(s, R)
           => InvitationsInv'
<1>t. /\ account \in {"none", "plain", "mfa"} /\ madeBy \in Invites \cup {NoInvite}
      /\ ireq \in [InviteSlots -> RequestRow] /\ RequestsSound
  BY InvitationsTypes DEF InvitationsInv
<1>r. ASSUME UNCHANGED ireq
      PROVE  /\ ireq' \in [InviteSlots -> RequestRow]
             /\ \A t \in InviteSlots : RequestSound(ireq'[t])
  BY <1>t, <1>r DEF RequestsSound
<1>1. ASSUME NEW i \in Invites, NEW R \in RoleSets, AcceptNewUser(i, R) PROVE InvitationsInv'
  <2>1. /\ Pending(i) /\ Activate(i, R) /\ UNCHANGED <<org, role, userRoles, claims, policy, ireq>>
        /\ account' \in {"none", "plain", "mfa"} /\ madeBy' \in Invites \cup {NoInvite}
    BY <1>1 DEF AcceptNewUser, Open
  <2> QED
    BY <1>r, <2>1, ActivatingKeepsInv
<1>2. ASSUME NEW i \in Invites, NEW R \in RoleSets, AcceptExistingUser(i, R) PROVE InvitationsInv'
  <2>1. /\ Pending(i) /\ Activate(i, R) /\ UNCHANGED <<org, role, userRoles, claims, policy, ireq>>
        /\ account' \in {"none", "plain", "mfa"} /\ madeBy' \in Invites \cup {NoInvite}
    BY <1>t, <1>2 DEF AcceptExistingUser, Open
  <2> QED
    BY <1>r, <2>1, ActivatingKeepsInv
<1>3. ASSUME NEW s \in InviteSlots, NEW R \in RoleSets, AcceptAfterStepUp(s, R) PROVE InvitationsInv'
  <2> DEFINE i == ireq[s].inv
  <2>1. /\ Pending(i) /\ Activate(i, R) /\ UNCHANGED <<org, role, userRoles, claims, policy>>
        /\ account' \in {"none", "plain", "mfa"} /\ madeBy' \in Invites \cup {NoInvite}
        /\ ireq' = [ireq EXCEPT ![s] = IdleInviteReq]
    BY <1>t, <1>3 DEF AcceptAfterStepUp, Open
  <2>2. i \in Invites
    BY <1>t, <1>3 DEF AcceptAfterStepUp, RequestsSound, RequestSound
  <2>3. /\ ireq' \in [InviteSlots -> RequestRow]
        /\ \A t \in InviteSlots : RequestSound(ireq'[t])
    BY <2>1, IdleRows, IdleIsSound, RequestKeepsInv
  <2> HIDE DEF i
  <2> QED
    BY <2>1, <2>2, <2>3, ActivatingKeepsInv
<1> QED
  BY <1>1, <1>2, <1>3

LEMMA InvitationsInvNext == InvitationsInv /\ [InvitationsNext]_invitationVars => InvitationsInv'
<1> SUFFICES ASSUME InvitationsInv, [InvitationsNext]_invitationVars PROVE InvitationsInv'
  OBVIOUS
<1>1. CASE InviteActions
  BY <1>1, CreatingKeepsInv, RefusingKeepsInv, ReadingKeepsInv, WritingKeepsInv, AroundKeepsInv,
     AcceptingKeepsInv
  DEF InviteActions
<1>2. CASE OrganizationsNext /\ UNCHANGED inviteVars
  <2>1. RolesInv'
    BY <1>2, RolesInvNext DEF InvitationsInv
  <2>2. UNCHANGED <<inv, spent, account, madeBy, policy, ireq>>
    BY <1>2 DEF inviteVars
  <2>3. InvitationsTypeOK'
    BY <2>1, <2>2, InvitationsTypes, InvitationsTypesNext DEF InvitationsInv, RolesInv
  <2>4. RowsClosed' /\ RequestsSound'
    BY <2>2 DEF InvitationsInv, RowsClosed, RequestsSound, RequestSound, Pending
  <2> QED
    BY <2>1, <2>3, <2>4 DEF InvitationsInv
<1>3. CASE UNCHANGED invitationVars
  <2>1. UNCHANGED <<org, role, userRoles, member, claims, authority, inv, spent, account, madeBy,
                    policy, ireq>>
    BY <1>3 DEF invitationVars, orgVars, inviteVars
  <2>2. RolesInv'
    BY <2>1, OtherKeepsInv DEF InvitationsInv, RolesInv, OrganizationsTypeOK
  <2>3. InvitationsTypeOK'
    BY <2>1, <2>2, InvitationsTypes, InvitationsTypesNext DEF InvitationsInv, RolesInv
  <2>4. RowsClosed' /\ RequestsSound'
    BY <2>1 DEF InvitationsInv, RowsClosed, RequestsSound, RequestSound, Pending
  <2> QED
    BY <2>2, <2>3, <2>4 DEF InvitationsInv
<1> QED
  BY <1>1, <1>2, <1>3 DEF InvitationsNext

LEMMA InvitationsInvHolds == InvitationsSpec => []InvitationsInv
BY InvitationsInvInit, InvitationsInvNext, PTL DEF InvitationsSpec

\* The tables of roles, memberships and invitations keep their shape.
THEOREM TenancyTypeCorrect == InvitationsSpec => []InvitationsTypeOK
<1>1. InvitationsInv => InvitationsTypeOK
  BY DEF InvitationsInv
<1> QED
  BY <1>1, InvitationsInvHolds, PTL

\* Nobody holds a role that was deleted, and an organisation's own role is held
\* in that organisation only: role_in_use counts both kinds of holders before a
\* delete, resolve_roles and resolve_roles_for_org look names up in scope, and
\* the names an invitation kept are looked up again when it is accepted.
THEOREM RolesNeverStray == InvitationsSpec => []RolesStayHome
<1>1. InvitationsInv => RolesStayHome
  BY RolesStayHomeFollows DEF InvitationsInv
<1> QED
  BY <1>1, InvitationsInvHolds, PTL

---------------------------------------------------------------------------
(* How far the counter of wrong codes runs                                 *)

\* The requests that may still write the counter of a row, and the values it has
\* or was read to have.
InFlight(i) == {s \in InviteSlots : ireq[s].pc \in {"replayed", "recount"} /\ ireq[s].inv = i}
Recounts(i) == {s \in InFlight(i) : ireq[s].pc = "recount"}
Counts(i) == {inv[i].attempts} \cup {ireq[s].attempts : s \in Recounts(i)}

AttemptsCap == MaxAttempts + Cardinality(InviteSlots)

\* Each request in flight may add one to whatever was read, and none can start
\* once the row is closed.
RowBounded(i) == \A n \in Counts(i) : n + Cardinality(InFlight(i)) <= AttemptsCap
CountsBounded == \A i \in Invites : RowBounded(i)

LEMMA FewInFlight ==
    \A S \in SUBSET InviteSlots :
        IsFiniteSet(S) /\ Cardinality(S) \in Nat /\ Cardinality(S) <= Cardinality(InviteSlots)
BY InvitationsAssumption, FS_Subset, FS_CardinalityType

LEMMA CountsAreNumbers ==
    ASSUME InvitationsInv, NEW i \in Invites
    PROVE  /\ Counts(i) \subseteq Nat /\ inv[i].attempts \in Nat
           /\ InFlight(i) \in SUBSET InviteSlots
           /\ Pending(i) => \A n \in Counts(i) : n < MaxAttempts
<1>1. inv[i] \in InviteRow /\ ireq \in [InviteSlots -> RequestRow]
  BY InvitationsTypes DEF InvitationsInv
<1>2. inv[i].attempts \in Nat /\ \A s \in InviteSlots : ireq[s].attempts \in Nat
  BY <1>1 DEF InviteRow, RequestRow
<1>3. Pending(i) => \A s \in Recounts(i) : ireq[s].attempts < MaxAttempts
  BY DEF InvitationsInv, RequestsSound, RequestSound, Recounts, InFlight
<1>4. Pending(i) => inv[i].attempts < MaxAttempts
  BY DEF InvitationsInv, RowsClosed
<1> QED
  BY <1>2, <1>3, <1>4 DEF Counts, Recounts, InFlight

\* A row is left alone, is counted against while it is open, or is counted
\* against by a request that was in flight and is no more.
Quiet(i) == InFlight(i)' \subseteq InFlight(i) /\ Counts(i)' \subseteq Counts(i)
CountedOpen(i) == Pending(i) /\ Counts(i)' \subseteq Counts(i) \cup {inv[i].attempts + 1}
CountedLate(i) ==
    \E s \in InFlight(i), n \in Counts(i) :
        InFlight(i)' \subseteq InFlight(i) \ {s} /\ Counts(i)' \subseteq Counts(i) \cup {n + 1}

LEMMA BoundKept ==
    ASSUME InvitationsInv, InvitationsInv', NEW i \in Invites, RowBounded(i),
           Quiet(i) \/ CountedOpen(i) \/ CountedLate(i)
    PROVE  RowBounded(i)'
<1>t. /\ Counts(i) \subseteq Nat /\ Counts(i)' \subseteq Nat /\ inv[i].attempts \in Nat
      /\ InFlight(i) \in SUBSET InviteSlots /\ InFlight(i)' \in SUBSET InviteSlots
      /\ MaxAttempts \in Nat /\ Cardinality(InviteSlots) \in Nat
  <2>1. InFlight(i)' \in SUBSET InviteSlots
    BY DEF InFlight
  <2>2. Counts(i)' \subseteq Nat
    <3>1. inv'[i] \in InviteRow /\ ireq' \in [InviteSlots -> RequestRow]
      BY InvitationsTypesNext DEF InvitationsInv
    <3>2. inv'[i].attempts \in Nat /\ \A s \in InviteSlots : ireq'[s].attempts \in Nat
      BY <3>1 DEF InviteRow, RequestRow
    <3> QED
      BY <3>2 DEF Counts, Recounts, InFlight
  <2> QED
    BY <2>1, <2>2, CountsAreNumbers, FewInFlight, InvitationsAssumption
<1>f. /\ IsFiniteSet(InFlight(i)) /\ Cardinality(InFlight(i)) \in Nat
      /\ IsFiniteSet(InFlight(i)') /\ Cardinality(InFlight(i)') \in Nat
      /\ Cardinality(InFlight(i)') <= Cardinality(InviteSlots)
  BY <1>t, FewInFlight
<1>1. CASE Quiet(i)
  <2>1. Cardinality(InFlight(i)') <= Cardinality(InFlight(i))
    BY <1>f, <1>1, FS_Subset DEF Quiet
  <2>2. ASSUME NEW n \in Counts(i)' PROVE n + Cardinality(InFlight(i)') <= AttemptsCap
    <3>1. n \in Counts(i) /\ n \in Nat
      BY <1>t, <1>1, <2>2 DEF Quiet
    <3>2. n + Cardinality(InFlight(i)) <= AttemptsCap
      BY <3>1 DEF RowBounded
    <3> QED
      BY <1>t, <1>f, <2>1, <3>1, <3>2 DEF AttemptsCap
  <2> QED
    BY <2>2 DEF RowBounded, AttemptsCap
<1>2. CASE CountedOpen(i)
  <2>1. ASSUME NEW n \in Counts(i)' PROVE n <= MaxAttempts /\ n \in Nat
    <3>1. n \in Counts(i) \/ n = inv[i].attempts + 1
      BY <1>2, <2>1 DEF CountedOpen
    <3>2. \A k \in Counts(i) : k < MaxAttempts /\ k \in Nat
      BY <1>t, <1>2, CountsAreNumbers DEF CountedOpen
    <3>3. inv[i].attempts \in Counts(i)
      BY DEF Counts
    <3> QED
      BY <1>t, <3>1, <3>2, <3>3
  <2>2. ASSUME NEW n \in Counts(i)' PROVE n + Cardinality(InFlight(i)') <= AttemptsCap
    BY <1>t, <1>f, <2>1, <2>2 DEF AttemptsCap
  <2> QED
    BY <2>2 DEF RowBounded, AttemptsCap
<1>3. CASE CountedLate(i)
  <2>1. PICK s \in InFlight(i), k \in Counts(i) :
          /\ InFlight(i)' \subseteq InFlight(i) \ {s}
          /\ Counts(i)' \subseteq Counts(i) \cup {k + 1}
    BY <1>3 DEF CountedLate
  <2>2. /\ IsFiniteSet(InFlight(i) \ {s})
        /\ Cardinality(InFlight(i) \ {s}) = Cardinality(InFlight(i)) - 1
    BY <1>f, FS_RemoveElement
  <2>3. Cardinality(InFlight(i)') <= Cardinality(InFlight(i)) - 1
    BY <2>1, <2>2, FS_Subset
  <2>4. ASSUME NEW n \in Counts(i)' PROVE n + Cardinality(InFlight(i)') <= AttemptsCap
    <3>1. \A m \in Counts(i) : m \in Nat /\ m + Cardinality(InFlight(i)) <= AttemptsCap
      BY <1>t DEF RowBounded
    <3>2. n \in Counts(i) \/ n = k + 1
      BY <2>1, <2>4
    <3> QED
      BY <1>t, <1>f, <2>3, <3>1, <3>2 DEF AttemptsCap
  <2> QED
    BY <2>4 DEF RowBounded, AttemptsCap
<1> QED
  BY <1>1, <1>2, <1>3

\* No counter is written, and no request comes to hold one.
LEMMA NothingCounted ==
    ASSUME \A i \in Invites : inv'[i].attempts = inv[i].attempts,
           \A s \in InviteSlots : \/ ireq'[s] = ireq[s]
                                 \/ ireq'[s].pc \notin {"replayed", "recount"}
    PROVE  \A i \in Invites : Quiet(i)
BY DEF Quiet, Counts, Recounts, InFlight

\* Whatever one request or none does to the slots.
LEMMA SlotMoves ==
    ASSUME InvitationsInv, NEW s \in InviteSlots, NEW r, ireq' = [ireq EXCEPT ![s] = r]
    PROVE  ireq'[s] = r /\ \A t \in InviteSlots \ {s} : ireq'[t] = ireq[t]
<1>1. ireq \in [InviteSlots -> RequestRow]
  BY InvitationsTypes DEF InvitationsInv
<1> QED
  BY <1>1

\* The counter is no column of what these write.
LEMMA ActivateCountsNothing ==
    ASSUME InvitationsInv, NEW k \in Invites, NEW R, Activate(k, R)
    PROVE  \A i \in Invites : inv'[i].attempts = inv[i].attempts
<1>1. inv \in [Invites -> InviteRow]
  BY InvitationsTypes DEF InvitationsInv
<1> DEFINE done == [inv[k] EXCEPT !.status = "accepted", !.secret = FALSE]
<1>2. inv' = [inv EXCEPT ![k] = done]
  BY <1>1 DEF Activate
<1>3. done.attempts = inv[k].attempts
  BY <1>1 DEF InviteRow
<1> HIDE DEF done
<1> QED
  BY <1>1, <1>2, <1>3

LEMMA RowsKeepCount ==
    ASSUME InvitationsInv,
           \/ \E u \in Users, o \in Orgs, R \in RoleSets, i \in Invites : CreateInvitation(u, o, R, i)
           \/ \E u \in Users, o \in Orgs : ListInvitations(u, o)
           \/ \E i \in Invites : StartInvitationMfa(i) \/ InvitationLapses(i)
    PROVE  ireq' = ireq /\ \A i \in Invites : inv'[i].attempts = inv[i].attempts
<1>1. inv \in [Invites -> InviteRow]
  BY InvitationsTypes DEF InvitationsInv
<1>2. \A j \in Invites : [inv[j] EXCEPT !.status = "expired"].attempts = inv[j].attempts
  BY <1>1 DEF InviteRow
<1>3. ASSUME NEW u \in Users, NEW o \in Orgs, NEW R \in RoleSets, NEW i \in Invites,
             CreateInvitation(u, o, R, i)
      PROVE  ireq' = ireq /\ \A j \in Invites : inv'[j].attempts = inv[j].attempts
  <2> DEFINE names == {role'[r].name : r \in R}
             new == [NoRowYet EXCEPT !.status = "pending", !.org = o, !.names = names,
                                     !.byPlatform = PlatformAdmin(u)]
  <2>1. /\ ireq' = ireq /\ inv[i] = NoRowYet
        /\ inv' = [j \in Invites |->
                    IF j = i THEN new
                    ELSE IF Pending(j) /\ inv[j].org = o THEN [inv[j] EXCEPT !.status = "expired"]
                    ELSE inv[j]]
    BY <1>3, Zenon DEF CreateInvitation
  <2> HIDE DEF names
  <2>2. new.attempts = NoRowYet.attempts
    BY DEF NoRowYet
  <2> HIDE DEF new
  <2> QED
    BY <1>2, <2>1, <2>2
<1>4. ASSUME NEW u \in Users, NEW o \in Orgs, ListInvitations(u, o)
      PROVE  ireq' = ireq /\ \A j \in Invites : inv'[j].attempts = inv[j].attempts
  BY <1>2, <1>4 DEF ListInvitations
<1>5. ASSUME NEW i \in Invites, StartInvitationMfa(i) \/ InvitationLapses(i)
      PROVE  ireq' = ireq /\ \A j \in Invites : inv'[j].attempts = inv[j].attempts
  <2> DEFINE kept == [inv[i] EXCEPT !.secret = TRUE]
             aged == [inv[i] EXCEPT !.late = TRUE]
  <2>1. inv' = [inv EXCEPT ![i] = kept] \/ inv' = [inv EXCEPT ![i] = aged]
    BY <1>1, <1>5 DEF StartInvitationMfa, InvitationLapses
  <2>2. kept.attempts = inv[i].attempts /\ aged.attempts = inv[i].attempts
    BY <1>1 DEF InviteRow
  <2>3. ireq' = ireq
    BY <1>5 DEF StartInvitationMfa, InvitationLapses
  <2> HIDE DEF kept, aged
  <2> QED
    BY <1>1, <2>1, <2>2, <2>3
<1> QED
  BY <1>3, <1>4, <1>5

\* A row is closed by a request that holds no counter.
LEMMA ClosingCountsNothing ==
    ASSUME InvitationsInv, NEW s \in InviteSlots, CloseCommit(s)
    PROVE  \A i \in Invites : Quiet(i)
<1>1. inv \in [Invites -> InviteRow] /\ RequestSound(ireq[s])
  BY InvitationsTypes DEF InvitationsInv, RequestsSound
<1> DEFINE k == ireq[s].inv
           st == IF ireq[s].pc = "revoke" THEN "revoked" ELSE "expired"
           closed == [inv[k] EXCEPT !.status = st]
<1>2. k \in Invites
  BY <1>1 DEF CloseCommit, RequestSound
<1>3. inv' = [inv EXCEPT ![k] = closed] /\ ireq' = [ireq EXCEPT ![s] = IdleInviteReq]
  BY <1>1 DEF CloseCommit, Closed
<1>4. closed.attempts = inv[k].attempts
  BY <1>1, <1>2 DEF InviteRow
<1> HIDE DEF k, st, closed
<1>5. \A i \in Invites : inv'[i].attempts = inv[i].attempts
  BY <1>1, <1>2, <1>3, <1>4
<1> QED
  BY <1>3, <1>5, SlotMoves, IdleRows, NothingCounted

\* A wrong code is counted against an open row, by the row as it is.
LEMMA WrongCodeCounts ==
    ASSUME InvitationsInv, NEW k \in Invites, AcceptWrongCode(k)
    PROVE  \A i \in Invites : Quiet(i) \/ CountedOpen(i)
<1>1. inv[k].attempts \in Nat
  BY CountsAreNumbers
<1>2. inv' = CountFailure(k, inv[k]) /\ Pending(k) /\ ireq' = ireq
  BY DEF AcceptWrongCode, Open
<1>3. inv'[k].attempts = inv[k].attempts + 1 /\ \A i \in Invites \ {k} : inv'[i] = inv[i]
  BY <1>1, <1>2, CountShape
<1>4. CountedOpen(k)
  BY <1>2, <1>3 DEF CountedOpen, Counts, Recounts, InFlight
<1>5. \A i \in Invites \ {k} : Quiet(i)
  BY <1>2, <1>3 DEF Quiet, Counts, Recounts, InFlight
<1> QED
  BY <1>4, <1>5

\* A code is presented while the row is open.
LEMMA StepUpCounts ==
    ASSUME InvitationsInv, NEW s \in InviteSlots, NEW k \in Invites, NEW how \in {"claimed", "replayed"},
           AcceptStepUp(s, k, how)
    PROVE  \A i \in Invites : Quiet(i) \/ CountedOpen(i)
<1> DEFINE r == [IdleInviteReq EXCEPT !.pc = how, !.inv = k]
<1>1. r.pc = how /\ r.inv = k
  BY DEF IdleInviteReq
<1>2. ireq' = [ireq EXCEPT ![s] = r] /\ Pending(k) /\ inv' = inv
  BY DEF AcceptStepUp, Open
<1> HIDE DEF r
<1>3. ireq'[s] = r /\ \A t \in InviteSlots \ {s} : ireq'[t] = ireq[t]
  BY <1>2, SlotMoves
<1>4. CountedOpen(k)
  BY <1>1, <1>2, <1>3 DEF CountedOpen, Counts, Recounts, InFlight
<1>5. \A i \in Invites \ {k} : Quiet(i)
  BY <1>1, <1>2, <1>3 DEF Quiet, Counts, Recounts, InFlight
<1> QED
  BY <1>4, <1>5

\* The reload reads the counter that is there.
LEMMA ReloadCounts ==
    ASSUME InvitationsInv, NEW s \in InviteSlots, AcceptReload(s)
    PROVE  \A i \in Invites : Quiet(i)
<1> DEFINE k == ireq[s].inv
           r == [ireq[s] EXCEPT !.pc = "recount", !.attempts = inv[k].attempts,
                                !.status = inv[k].status]
<1>1. ireq \in [InviteSlots -> RequestRow] /\ ireq[s] \in RequestRow /\ ireq[s].pc = "replayed"
  BY InvitationsTypes DEF InvitationsInv, AcceptReload
<1>2. r.pc = "recount" /\ r.inv = k /\ r.attempts = inv[k].attempts
  BY <1>1 DEF RequestRow
<1>3. ireq' = [ireq EXCEPT ![s] = r] /\ inv' = inv
  BY <1>1 DEF AcceptReload
<1> HIDE DEF r
<1>4. ireq'[s] = r /\ \A t \in InviteSlots \ {s} : ireq'[t] = ireq[t]
  BY <1>3, SlotMoves
<1> QED
  BY <1>1, <1>2, <1>3, <1>4 DEF Quiet, Counts, Recounts, InFlight

\* What a replayed code read is counted against the row, whatever it is now.
LEMMA ReplayedCounts ==
    ASSUME InvitationsInv, NEW s \in InviteSlots, AcceptReplayed(s)
    PROVE  \A i \in Invites : Quiet(i) \/ CountedLate(i)
<1>1. /\ ireq[s] \in RequestRow /\ RequestSound(ireq[s]) /\ ireq[s].pc = "recount"
      /\ inv' = CountFailure(ireq[s].inv, ireq[s]) /\ ireq' = [ireq EXCEPT ![s] = IdleInviteReq]
  BY InvitationsTypes DEF InvitationsInv, RequestsSound, AcceptReplayed
<1>2. PICK k \in Invites : k = ireq[s].inv /\ ireq[s].attempts \in Nat
  BY <1>1 DEF RequestSound, RequestRow
<1>3. ireq'[s].pc = "idle" /\ \A t \in InviteSlots \ {s} : ireq'[t] = ireq[t]
  BY <1>1, SlotMoves, IdleRows
<1>4. s \in InFlight(k) /\ ireq[s].attempts \in Counts(k)
  BY <1>1, <1>2 DEF InFlight, Recounts, Counts
<1>5. /\ inv'[k].attempts = ireq[s].attempts + 1
      /\ \A i \in Invites \ {k} : inv'[i] = inv[i]
  BY <1>1, <1>2, CountShape
<1> DEFINE n == ireq[s].attempts
<1>6. InFlight(k)' \subseteq InFlight(k) \ {s} /\ Counts(k)' \subseteq Counts(k) \cup {n + 1}
  BY <1>3, <1>5 DEF Counts, Recounts, InFlight
<1>7. CountedLate(k)
  BY <1>4, <1>6 DEF CountedLate
<1>8. \A i \in Invites \ {k} : Quiet(i)
  BY <1>3, <1>5 DEF Quiet, Counts, Recounts, InFlight
<1> QED
  BY <1>7, <1>8

\* The rest writes no counter.
LEMMA OthersCountNothing ==
    ASSUME InvitationsInv,
           \/ \E u \in Users, o \in Orgs, R \in RoleSets : CreateInvitationRefused(u, o, R)
           \/ \E s \in InviteSlots, u \in Users, i \in Invites : RevokeRead(s, u, i)
           \/ \E s \in InviteSlots, i \in Invites : PreviewRead(s, i)
           \/ \E u \in Users, o \in Orgs, on \in BOOLEAN : SetMfaPolicy(u, o, on) \/ SetMfaOverride(u, o, on)
           \/ \E i \in Invites : AcceptNewUserRefused(i)
           \/ \E s \in InviteSlots : AcceptAbandoned(s)
           \/ InviteeEnrols
    PROVE  \A i \in Invites : Quiet(i)
<1>1. CASE \/ \E u \in Users, o \in Orgs, R \in RoleSets : CreateInvitationRefused(u, o, R)
           \/ \E u \in Users, o \in Orgs, on \in BOOLEAN : SetMfaPolicy(u, o, on) \/ SetMfaOverride(u, o, on)
           \/ \E i \in Invites : AcceptNewUserRefused(i)
           \/ InviteeEnrols
  <2>1. inv' = inv /\ ireq' = ireq
    BY <1>1, Zenon DEF CreateInvitationRefused, inviteVars, SetMfaPolicy, SetMfaOverride,
                       AcceptNewUserRefused, InviteeEnrols
  <2> QED
    BY <2>1, NothingCounted
<1>2. ASSUME NEW s \in InviteSlots, NEW r, inv' = inv, ireq' = [ireq EXCEPT ![s] = r],
             r.pc \notin {"replayed", "recount"}
      PROVE  \A i \in Invites : Quiet(i)
  BY <1>2, SlotMoves, NothingCounted
<1>3. ASSUME NEW s \in InviteSlots, NEW i \in Invites, NEW u \in Users, RevokeRead(s, u, i)
      PROVE  \A k \in Invites : Quiet(k)
  <2> DEFINE r == [IdleInviteReq EXCEPT !.pc = "revoke", !.inv = i]
  <2>1. r.pc = "revoke"
    BY DEF IdleInviteReq
  <2>2. inv' = inv /\ ireq' = [ireq EXCEPT ![s] = r]
    BY <1>3 DEF RevokeRead
  <2> HIDE DEF r
  <2> QED
    BY <1>2, <2>1, <2>2
<1>4. ASSUME NEW s \in InviteSlots, NEW i \in Invites, PreviewRead(s, i)
      PROVE  \A k \in Invites : Quiet(k)
  <2> DEFINE r == [IdleInviteReq EXCEPT !.pc = "expire", !.inv = i]
  <2>1. r.pc = "expire"
    BY DEF IdleInviteReq
  <2>2. inv' = inv /\ ireq' = [ireq EXCEPT ![s] = r]
    BY <1>4 DEF PreviewRead
  <2> HIDE DEF r
  <2> QED
    BY <1>2, <2>1, <2>2
<1>5. ASSUME NEW s \in InviteSlots, AcceptAbandoned(s) PROVE \A i \in Invites : Quiet(i)
  BY <1>2, <1>5, IdleRows DEF AcceptAbandoned
<1> QED
  BY <1>1, <1>3, <1>4, <1>5

\* An acceptance that succeeds writes no counter and ends its request.
LEMMA AcceptingCountsNothing ==
    ASSUME InvitationsInv,
           \/ \E i \in Invites, R \in RoleSets : AcceptNewUser(i, R) \/ AcceptExistingUser(i, R)
           \/ \E s \in InviteSlots, R \in RoleSets : AcceptAfterStepUp(s, R)
    PROVE  \A i \in Invites : Quiet(i)
<1>1. ASSUME NEW k \in Invites, NEW R \in RoleSets, AcceptNewUser(k, R) \/ AcceptExistingUser(k, R)
      PROVE  \A i \in Invites : Quiet(i)
  <2>1. Activate(k, R) /\ ireq' = ireq
    BY <1>1, Zenon DEF AcceptNewUser, AcceptExistingUser
  <2> QED
    BY <2>1, ActivateCountsNothing, NothingCounted
<1>2. ASSUME NEW s \in InviteSlots, NEW R \in RoleSets, AcceptAfterStepUp(s, R)
      PROVE  \A i \in Invites : Quiet(i)
  <2>1. Activate(ireq[s].inv, R) /\ ireq' = [ireq EXCEPT ![s] = IdleInviteReq] /\ ireq[s].pc = "claimed"
    BY <1>2, Zenon DEF AcceptAfterStepUp
  <2>2. ireq[s].inv \in Invites
    BY <2>1 DEF InvitationsInv, RequestsSound, RequestSound
  <2>3. \A i \in Invites : inv'[i].attempts = inv[i].attempts
    BY <2>1, <2>2, ActivateCountsNothing
  <2> QED
    BY <2>1, <2>3, SlotMoves, IdleRows, NothingCounted
<1> QED
  BY <1>1, <1>2

\* One conjunct for each kind of step.
LEMMA EveryStepCounts ==
    ASSUME InvitationsInv, [InvitationsNext]_invitationVars
    PROVE  \A i \in Invites : Quiet(i) \/ CountedOpen(i) \/ CountedLate(i)
<1>1. CASE InviteActions
  <2>1. CASE \/ \E u \in Users, o \in Orgs, R \in RoleSets, i \in Invites : CreateInvitation(u, o, R, i)
             \/ \E u \in Users, o \in Orgs : ListInvitations(u, o)
             \/ \E i \in Invites : StartInvitationMfa(i) \/ InvitationLapses(i)
    <3>1. ireq' = ireq /\ \A i \in Invites : inv'[i].attempts = inv[i].attempts
      BY <2>1, RowsKeepCount
    <3> QED
      BY <3>1, NothingCounted
  <2>2. CASE \E s \in InviteSlots : CloseCommit(s) \/ AcceptReload(s) \/ AcceptReplayed(s)
    BY <2>2, ClosingCountsNothing, ReloadCounts, ReplayedCounts
  <2>3. CASE \/ \E i \in Invites : AcceptWrongCode(i)
             \/ \E s \in InviteSlots, i \in Invites, how \in {"claimed", "replayed"} : AcceptStepUp(s, i, how)
    BY <2>3, WrongCodeCounts, StepUpCounts
  <2> QED
    BY <1>1, <2>1, <2>2, <2>3, OthersCountNothing, AcceptingCountsNothing DEF InviteActions
<1>2. CASE UNCHANGED inviteVars
  BY <1>2, NothingCounted DEF inviteVars
<1> QED
  BY <1>1, <1>2 DEF InvitationsNext, invitationVars

LEMMA CountsBoundedNext ==
    InvitationsInv /\ InvitationsInv' /\ CountsBounded /\ [InvitationsNext]_invitationVars
    => CountsBounded'
BY EveryStepCounts, BoundKept DEF CountsBounded

LEMMA CountsBoundedAtFirst ==
    ASSUME InvitationsInv, \A i \in Invites : inv[i] = NoRowYet,
           \A s \in InviteSlots : ireq[s] = IdleInviteReq
    PROVE  CountsBounded
<1>1. ASSUME NEW i \in Invites PROVE RowBounded(i)
  <2>1. InFlight(i) = {} /\ Recounts(i) = {}
    BY IdleRows DEF InFlight, Recounts
  <2>2. Counts(i) = {0}
    BY <2>1 DEF Counts, NoRowYet
  <2>3. Cardinality(InFlight(i)) = 0 /\ Cardinality(InviteSlots) \in Nat
    BY <2>1, FS_EmptySet, FewInFlight
  <2> QED
    BY <2>2, <2>3, InvitationsAssumption DEF RowBounded, AttemptsCap
<1> QED
  BY <1>1 DEF CountsBounded

LEMMA CountsBoundedHolds == InvitationsSpec => []CountsBounded
<1>1. InvitationsInit => CountsBounded
  BY InvitationsInvInit, CountsBoundedAtFirst DEF InvitationsInit
<1> QED
  BY <1>1, CountsBoundedNext, InvitationsInvHolds, PTL DEF InvitationsSpec

LEMMA LimitFollows == InvitationsInv /\ CountsBounded => AttemptsLimited
<1> SUFFICES ASSUME InvitationsInv, CountsBounded, NEW i \in Invites
             PROVE  /\ Pending(i) => inv[i].attempts < MaxAttempts
                    /\ inv[i].attempts <= MaxAttempts + Cardinality(InviteSlots)
  BY DEF AttemptsLimited
<1>1. /\ inv[i].attempts \in Nat /\ Cardinality(InFlight(i)) \in Nat
      /\ Cardinality(InviteSlots) \in Nat /\ MaxAttempts \in Nat
  BY CountsAreNumbers, FewInFlight, InvitationsAssumption
<1>2. inv[i].attempts + Cardinality(InFlight(i)) <= AttemptsCap
  BY DEF CountsBounded, RowBounded, Counts
<1>3. inv[i].attempts <= MaxAttempts + Cardinality(InviteSlots)
  BY <1>1, <1>2 DEF AttemptsCap
<1>4. Pending(i) => inv[i].attempts < MaxAttempts
  BY DEF InvitationsInv, RowsClosed
<1> QED
  BY <1>3, <1>4

\* accept_existing_user counts a replayed code on a row it reads again without a
\* lock: the counter may run past ORG_INVITATION_MAX_ACCEPT_ATTEMPTS, by no more
\* than the requests that overlap, and no invitation stays open at the limit.
THEOREM AttemptsAreLimited == InvitationsSpec => []AttemptsLimited
BY LimitFollows, InvitationsInvHolds, CountsBoundedHolds, PTL

---------------------------------------------------------------------------
(* What a tenant may hand out                                              *)

\* What a step has to leave alone to widen nobody's GLOBAL permissions: the
\* global assignments, the rows members newly hold, the rows that exist.
Harmless ==
    /\ userRoles' = userRoles
    /\ \A o \in Orgs, u \in Users : \A r \in member'[o][u].roles \ Builtin :
          r \in member[o][u].roles \/ role'[r].perms \cap GlobalPermissions = {}
    /\ \A r \in Rows \ Builtin :
          role[r] = NoRole \/ role'[r].perms \cap GlobalPermissions \subseteq role[r].perms

LEMMA HarmlessWidensNothing ==
    ASSUME RolesInv, Harmless
    PROVE  \A u \in Users : HeldGlobal(u)' \subseteq HeldGlobal(u)
<1> SUFFICES ASSUME NEW u \in Users, NEW p \in GlobalPermissions,
                    NEW r \in HeldRoles(u)' \ Builtin, p \in role'[r].perms
             PROVE  r \in HeldRoles(u) /\ p \in role[r].perms
  BY DEF HeldGlobal, PermsOf
<1>1. CASE r \in userRoles[u]
  <2>1. r \in Rows /\ role[r] # NoRole
    BY <1>1 DEF RolesInv, OrganizationsTypeOK, HoldingsSound
  <2> QED
    BY <1>1, <2>1 DEF Harmless, HeldRoles
<1>2. CASE r \notin userRoles[u]
  <2>1. PICK o \in Orgs : r \in member'[o][u].roles
    BY <1>2 DEF HeldRoles, Harmless
  <2>2. r \in member[o][u].roles
    BY <2>1 DEF Harmless
  <2>3. r \in Rows /\ role[r] # NoRole
    BY <2>2 DEF RolesInv, OrganizationsTypeOK, HoldingsSound, Fits
  <2> QED
    BY <2>2, <2>3 DEF Harmless, HeldRoles
<1> QED
  BY <1>1, <1>2

LEMMA ByTenant ==
    \A u : By(u) /\ authority' = "tenant" => ~PlatformAdmin(u) /\ ~LegacyAdmin(u)
BY DEF By

\* resolve_roles_for_org lets a tenant give no role with a GLOBAL permission.
LEMMA TenantGives ==
    ASSUME RolesInv, NEW o \in Orgs, NEW v \in Users, NEW row \in MemberRow,
           WritesMember(o, v, row), UNCHANGED <<role, userRoles>>,
           \A r \in row.roles : \/ r \in member[o][v].roles
                                \/ role[r].perms \cap GlobalPermissions = {}
    PROVE  Harmless
<1>1. /\ member'[o][v] = row
      /\ \A p \in Orgs, w \in Users : p # o \/ w # v => member'[p][w] = member[p][w]
  BY MemberShape DEF RolesInv
<1>2. ASSUME NEW p \in Orgs, NEW w \in Users, NEW r \in member'[p][w].roles
      PROVE  r \in member[p][w].roles \/ role'[r].perms \cap GlobalPermissions = {}
  <2>1. CASE p = o /\ w = v
    BY <1>1, <1>2, <2>1
  <2>2. CASE p # o \/ w # v
    BY <1>1, <1>2, <2>2
  <2> QED
    BY <2>1, <2>2
<1> QED
  BY <1>2 DEF Harmless

LEMMA JoiningHarmless ==
    ASSUME RolesInv, NEW u \in Users, NEW o \in Orgs, NEW v \in Users,
           CreateOrg(v, o) \/ InviteMember(u, o, v) \/ JitProvisionMembership(o, v)
    PROVE  Harmless
<1>1. PICK name \in Builtin, perms \in SUBSET Registry, st \in {"invited", "active"} :
        /\ role' = WithRole(name, perms)
        /\ member' = [member EXCEPT ![o][v] = [status |-> st, roles |-> {name}]]
        /\ userRoles' = userRoles
  <2>1. CASE CreateOrg(v, o)
    BY <2>1 DEF CreateOrg, Builtin, OrgAdminPermissions, Registry
  <2>2. CASE InviteMember(u, o, v) \/ JitProvisionMembership(o, v)
    BY <2>2 DEF InviteMember, JitProvisionMembership, JoinWith, Builtin
  <2> QED
    BY <2>1, <2>2
<1> DEFINE row == [status |-> st, roles |-> {name}]
<1>2. row \in MemberRow /\ row.roles = {name}
  BY DEF MemberRow, Rows
<1>3. WritesMember(o, v, row)
  BY <1>1 DEF WritesMember
<1> HIDE DEF row
<1>4. /\ member'[o][v] = row
      /\ \A p \in Orgs, w \in Users : p # o \/ w # v => member'[p][w] = member[p][w]
  BY <1>2, <1>3, MemberShape DEF RolesInv
<1>5. \A s \in Rows \ Builtin : role'[s] = role[s]
  BY <1>1, WithRoleShape
<1>6. ASSUME NEW p \in Orgs, NEW w \in Users, NEW r \in member'[p][w].roles \ Builtin
      PROVE  r \in member[p][w].roles
  <2>1. CASE p = o /\ w = v
    BY <1>2, <1>4, <1>6, <2>1
  <2>2. CASE p # o \/ w # v
    BY <1>4, <1>6, <2>2
  <2> QED
    BY <2>1, <2>2
<1> QED
  BY <1>1, <1>5, <1>6 DEF Harmless

LEMMA MemberRolesHarmless ==
    ASSUME RolesInv, NEW u \in Users, NEW o \in Orgs, NEW v \in Users, authority' = "tenant"
    PROVE  \/ \E R \in RoleSets : SetMemberRoles(u, o, v, R)
           \/ \E r \in Rows : AddMemberRole(u, o, v, r) \/ RemoveMemberRole(u, o, v, r)
           => Harmless
<1>t. /\ \A R \in RoleSets : R \in SUBSET Rows
      /\ member[o][v].roles \in SUBSET Rows
  BY OrganizationsAssumption DEF RolesInv, OrganizationsTypeOK, Rows, Builtin, Bootstrap
<1>0. ASSUME NEW S \in SUBSET Rows, member' = [member EXCEPT ![o][v].roles = S],
             \A r \in S : r \in member[o][v].roles \/ role[r].perms \cap GlobalPermissions = {},
             UNCHANGED <<role, userRoles>>
      PROVE  Harmless
  <2> DEFINE row == [member[o][v] EXCEPT !.roles = S]
  <2>1. row \in MemberRow /\ row.roles = S /\ WritesMember(o, v, row)
    BY <1>0, MemberUpdates DEF WritesMember
  <2> HIDE DEF row
  <2> QED
    BY <1>0, <2>1, TenantGives
<1>1. ASSUME NEW R \in RoleSets, SetMemberRoles(u, o, v, R) PROVE Harmless
  <2>1. /\ ~PlatformAdmin(u) /\ Assignable(R, o, PlatformAdmin(u))
        /\ member' = [member EXCEPT ![o][v].roles = R] /\ UNCHANGED <<role, userRoles>>
    BY <1>1, ByTenant DEF SetMemberRoles
  <2>2. \A r \in R : role[r].perms \cap GlobalPermissions = {}
    BY <2>1 DEF Assignable, PermsOf
  <2> QED
    BY <1>t, <1>0, <2>1, <2>2
<1>2. ASSUME NEW r \in Rows, AddMemberRole(u, o, v, r) PROVE Harmless
  <2>1. /\ ~PlatformAdmin(u) /\ Assignable({r}, o, PlatformAdmin(u))
        /\ member' = [member EXCEPT ![o][v].roles = member[o][v].roles \cup {r}]
        /\ UNCHANGED <<role, userRoles>>
    BY <1>2, ByTenant DEF AddMemberRole
  <2>2. role[r].perms \cap GlobalPermissions = {} /\ member[o][v].roles \cup {r} \in SUBSET Rows
    BY <1>t, <2>1 DEF Assignable, PermsOf
  <2> QED
    BY <1>0, <2>1, <2>2
<1>3. ASSUME NEW r \in Rows, RemoveMemberRole(u, o, v, r) PROVE Harmless
  <2>1. /\ member' = [member EXCEPT ![o][v].roles = member[o][v].roles \ {r}]
        /\ UNCHANGED <<role, userRoles>>
    BY <1>3 DEF RemoveMemberRole
  <2>2. member[o][v].roles \ {r} \in SUBSET Rows
    BY <1>t
  <2> QED
    BY <1>0, <2>1, <2>2
<1> QED
  BY <1>1, <1>2, <1>3

\* A tenant edits the organisation's own rows only, and _validate_org_scoped_
\* permission_names keeps GLOBAL permissions out of those.
LEMMA EditingHarmless ==
    ASSUME RolesInv, NEW u \in Users, authority' = "tenant"
    PROVE  \/ \E r \in Extra, n \in NewNames, s \in Orgs \cup {Platform}, P \in PermSets :
                 CreateRole(u, r, n, s, P)
           \/ \E r \in Rows, P \in PermSets : UpdateRole(u, r, P)
           \/ \E r \in Rows : DeleteRole(u, r)
           => Harmless
<1>t. role \in [Rows -> RoleRow]
  BY DEF RolesInv, OrganizationsTypeOK, RoleRow
<1>0. ASSUME NEW r \in Rows, NEW row \in RoleRow, role' = [role EXCEPT ![r] = row],
             role[r] = NoRole \/ row.perms \cap GlobalPermissions = {},
             UNCHANGED <<userRoles, member>>
      PROVE  Harmless
  <2>1. role'[r] = row /\ \A x \in Rows \ {r} : role'[x] = role[x]
    BY <1>t, <1>0
  <2>2. \A x \in Rows : role[x] = NoRole \/ role'[x].perms \cap GlobalPermissions \subseteq role[x].perms
    BY <1>0, <2>1
  <2> QED
    BY <1>0, <2>2 DEF Harmless
<1>1. ASSUME NEW r \in Extra, NEW n \in NewNames, NEW s \in Orgs \cup {Platform}, NEW P \in PermSets,
             CreateRole(u, r, n, s, P)
      PROVE  Harmless
  <2> DEFINE row == [name |-> n, scope |-> s, perms |-> P]
  <2>1. /\ role[r] = NoRole /\ role' = [role EXCEPT ![r] = row] /\ PermsAllowed(P, s)
        /\ UNCHANGED <<userRoles, member>> /\ r \in Rows
    BY <1>1 DEF CreateRole, Rows
  <2>2. row \in RoleRow
    BY <2>1 DEF RoleRow, PermsAllowed
  <2> HIDE DEF row
  <2> QED
    BY <1>0, <2>1, <2>2
<1>2. ASSUME NEW r \in Rows, NEW P \in PermSets, UpdateRole(u, r, P) PROVE Harmless
  <2> DEFINE row == [role[r] EXCEPT !.perms = P]
  <2>1. /\ ~PlatformAdmin(u) /\ ~LegacyAdmin(u) /\ MayEdit(u, role[r].scope)
        /\ PermsAllowed(P, role[r].scope)
        /\ role' = [role EXCEPT ![r].perms = P] /\ UNCHANGED <<userRoles, member>>
    BY <1>2, ByTenant DEF UpdateRole
  <2>2. P \subseteq Registry /\ P \cap GlobalPermissions = {}
    BY <2>1 DEF MayEdit, PermsAllowed, Registry
  <2>3. role' = [role EXCEPT ![r] = row] /\ role[r] \in RoleRow
    BY <1>t, <2>1
  <2>4. row \in RoleRow /\ row.perms = P
    BY <2>2, <2>3 DEF RoleRow
  <2> HIDE DEF row
  <2> QED
    BY <1>0, <2>1, <2>2, <2>3, <2>4
<1>3. ASSUME NEW r \in Rows, DeleteRole(u, r) PROVE Harmless
  <2>1. NoRole \in RoleRow /\ NoRole.perms = {}
    BY DEF NoRole, RoleRow
  <2>2. role' = [role EXCEPT ![r] = NoRole] /\ UNCHANGED <<userRoles, member>>
    BY <1>3 DEF DeleteRole
  <2> HIDE DEF RoleRow
  <2> QED
    BY <1>0, <2>1, <2>2
<1> QED
  BY <1>1, <1>2, <1>3

LEMMA UntouchedHarmless == UNCHANGED <<role, userRoles, member>> => Harmless
BY DEF Harmless

LEMMA BaseRoleHarmless ==
    ASSUME RolesInv, role' = WithRole("org_member", {}), UNCHANGED <<userRoles, member>>
    PROVE  Harmless
<1>1. \A s \in Rows \ Builtin : role'[s] = role[s]
  BY WithRoleShape DEF Builtin
<1> QED
  BY <1>1 DEF Harmless

LEMMA OrganizationsHarmless ==
    ASSUME RolesInv, OrganizationsNext, authority' = "tenant"
    PROVE  Harmless
<1>t. Targets \subseteq Users
  BY OrganizationsAssumption
<1>1. CASE \/ \E u \in Users : IssueToken(u)
           \/ \E u \in Users, o \in Orgs, st \in {"active", "suspended"} : SetOrgStatus(u, o, st)
  BY <1>1, UntouchedHarmless DEF IssueToken, SetOrgStatus
<1>3. CASE \/ \E u \in Targets, o \in Orgs : CreateOrg(u, o)
           \/ \E u \in Users, v \in Targets, o \in Orgs : InviteMember(u, o, v)
           \/ \E v \in Targets, o \in Orgs : JitProvisionMembership(o, v)
  BY <1>t, <1>3, JoiningHarmless
<1>4. CASE \/ \E u \in Users, v \in Targets, o \in Orgs, R \in RoleSets : SetMemberRoles(u, o, v, R)
           \/ \E u \in Users, v \in Targets, o \in Orgs, r \in Rows :
                 AddMemberRole(u, o, v, r) \/ RemoveMemberRole(u, o, v, r)
  BY <1>t, <1>4, MemberRolesHarmless
<1>5. CASE \/ \E u \in Users, r \in Extra, n \in NewNames, s \in Orgs \cup {Platform}, P \in PermSets :
                 CreateRole(u, r, n, s, P)
           \/ \E u \in Users, r \in Rows, P \in PermSets : UpdateRole(u, r, P)
           \/ \E u \in Users, r \in Rows : DeleteRole(u, r)
  BY <1>5, EditingHarmless
<1>6. CASE \/ StartUp
           \/ \E u \in Users, v \in Targets, r \in Rows :
                 AssignUserRole(u, v, r) \/ RemoveUserRole(u, v, r)
           \/ \E u \in Users, v \in Targets, R \in RoleSets : SetUserRoles(u, v, R)
  BY <1>6, ByTenant DEF StartUp, AssignUserRole, RemoveUserRole, SetUserRoles
<1> QED
  BY <1>1, <1>3, <1>4, <1>5, <1>6 DEF OrganizationsNext

\* An acceptance gives what the recorded standing of the inviter lets it give.
LEMMA ActivateHarmless ==
    ASSUME InvitationsInv, NEW i \in Invites, NEW R \in RoleSets, Activate(i, R),
           UNCHANGED <<role, userRoles>>, authority' = "tenant"
    PROVE  Harmless
<1> DEFINE o == inv[i].org
           row == [status |-> "active", roles |-> R]
<1>t. inv \in [Invites -> InviteRow] /\ R \in SUBSET Rows
  BY OrganizationsAssumption, InvitationsTypes DEF InvitationsInv, Rows, Builtin, Bootstrap
<1>1. o \in Orgs /\ Invitee \in Users /\ inv[i].byPlatform \in BOOLEAN
  BY <1>t, InvitationsAssumption DEF InviteRow
<1>2. PermsOf(R) \cap GlobalPermissions = {} /\ member' = [member EXCEPT ![o][Invitee] = row]
  BY <1>1 DEF Activate, Assignable, ByInviter
<1>3. row \in MemberRow /\ row.roles = R
  BY <1>t DEF MemberRow
<1>4. WritesMember(o, Invitee, row)
  BY <1>2 DEF WritesMember
<1>5. \A r \in R : role[r].perms \cap GlobalPermissions = {}
  BY <1>2 DEF PermsOf
<1> HIDE DEF o, row
<1> QED
  BY <1>1, <1>3, <1>4, <1>5, TenantGives DEF InvitationsInv

\* Only an acceptance writes memberships or spends an invitation.
Accepts ==
    \/ \E i \in Invites, R \in RoleSets : AcceptNewUser(i, R) \/ AcceptExistingUser(i, R)
    \/ \E s \in InviteSlots, R \in RoleSets : AcceptAfterStepUp(s, R)

LEMMA OnlyAcceptsSpend ==
    ASSUME InviteActions, ~Accepts
    PROVE  UNCHANGED <<userRoles, member, spent>> /\ role' \in {role, WithRole("org_member", {})}
<1> DEFINE Same == UNCHANGED <<userRoles, member, spent>> /\ role' \in {role, WithRole("org_member", {})}
<1>1. \A u \in Users, o \in Orgs, R \in RoleSets, i \in Invites : CreateInvitation(u, o, R, i) => Same
  BY DEF CreateInvitation
<1>0. \A u \in Users, o \in Orgs, R \in RoleSets : CreateInvitationRefused(u, o, R) => Same
  BY DEF CreateInvitationRefused, inviteVars
<1>2. \A u \in Users, o \in Orgs : ListInvitations(u, o) => Same
  BY DEF ListInvitations
<1>3. \A s \in InviteSlots, u \in Users, i \in Invites : RevokeRead(s, u, i) => Same
  BY DEF RevokeRead
<1>4. \A s \in InviteSlots, i \in Invites : PreviewRead(s, i) => Same
  BY DEF PreviewRead
<1>5. \A s \in InviteSlots : CloseCommit(s) => Same
  BY DEF CloseCommit
<1>6. \A u \in Users, o \in Orgs, on \in BOOLEAN :
         SetMfaPolicy(u, o, on) \/ SetMfaOverride(u, o, on) => Same
  BY DEF SetMfaPolicy, SetMfaOverride
<1>7. \A i \in Invites : StartInvitationMfa(i) \/ AcceptWrongCode(i) \/ InvitationLapses(i) => Same
  BY DEF StartInvitationMfa, AcceptWrongCode, InvitationLapses
<1>8. \A i \in Invites : AcceptNewUserRefused(i) => Same
  BY DEF AcceptNewUserRefused
<1>9. \A s \in InviteSlots, i \in Invites, how \in {"claimed", "replayed"} :
         AcceptStepUp(s, i, how) => Same
  BY DEF AcceptStepUp
<1>10. \A s \in InviteSlots : AcceptReload(s) \/ AcceptReplayed(s) \/ AcceptAbandoned(s) => Same
  BY DEF AcceptReload, AcceptReplayed, AcceptAbandoned
<1>11. InviteeEnrols => Same
  BY DEF InviteeEnrols
<1> HIDE DEF Same
<1>12. Same
  BY <1>0, <1>1, <1>2, <1>3, <1>4, <1>5, <1>6, <1>7, <1>8, <1>9, <1>10, <1>11, Zenon
  DEF InviteActions, Accepts
<1> QED
  BY <1>12 DEF Same

LEMMA InviteActionsHarmless ==
    ASSUME InvitationsInv, InviteActions, authority' = "tenant"
    PROVE  Harmless
<1>1. CASE Accepts
  <2>1. ASSUME NEW s \in InviteSlots, NEW R \in RoleSets, AcceptAfterStepUp(s, R) PROVE Harmless
    <3>1. ireq[s].inv \in Invites
      BY <2>1 DEF AcceptAfterStepUp, InvitationsInv, RequestsSound, RequestSound
    <3> QED
      BY <2>1, <3>1, ActivateHarmless DEF AcceptAfterStepUp
  <2>2. ASSUME NEW i \in Invites, NEW R \in RoleSets, AcceptNewUser(i, R) \/ AcceptExistingUser(i, R)
        PROVE  Harmless
    BY <2>2, ActivateHarmless DEF AcceptNewUser, AcceptExistingUser
  <2> QED
    BY <1>1, <2>1, <2>2 DEF Accepts
<1>2. CASE ~Accepts
  BY <1>2, OnlyAcceptsSpend, UntouchedHarmless, BaseRoleHarmless DEF InvitationsInv
<1> QED
  BY <1>1, <1>2

LEMMA TenantStep ==
    InvitationsInv /\ [InvitationsNext]_invitationVars =>
        [authority' = "tenant" => \A u \in Users : HeldGlobal(u)' \subseteq HeldGlobal(u)]_orgVars
<1> SUFFICES ASSUME InvitationsInv, [InvitationsNext]_invitationVars, authority' = "tenant",
                    ~UNCHANGED orgVars
             PROVE  \A u \in Users : HeldGlobal(u)' \subseteq HeldGlobal(u)
  OBVIOUS
<1>1. OrganizationsNext \/ InviteActions
  BY DEF InvitationsNext, invitationVars
<1>2. Harmless
  BY <1>1, OrganizationsHarmless, InviteActionsHarmless DEF InvitationsInv
<1> QED
  BY <1>2, HarmlessWidensNothing DEF InvitationsInv

\* A step taken without a platform permission widens nobody's GLOBAL
\* permissions: the guards of app/rbac.py, resolve_roles_for_org and the
\* inviter's standing kept with an invitation close every way to do it.
THEOREM TenantsGrantNothingGlobal == InvitationsSpec => NoTenantGrant
BY TenantStep, InvitationsInvHolds, PTL DEF InvitationsSpec, NoTenantGrant

\* What an acceptance does to the history of acceptances.
LEMMA SpendingIsPending ==
    ASSUME InvitationsInv, NEW k \in Invites, NEW R \in RoleSets, Open(k), Activate(k, R),
           NEW i \in Invites, spent'[i] # spent[i]
    PROVE  spent[i] = 0 /\ inv[i].status = "pending"
<1>1. spent \in [Invites -> 0..2] /\ RowsClosed
  BY InvitationsTypes DEF InvitationsInv
<1>2. i = k
  BY <1>1 DEF Activate
<1> QED
  BY <1>1, <1>2 DEF Open, Pending, RowsClosed

\* What InvitationSpentOnce says of one step.
SpendingStep ==
    /\ \A i \in Invites : spent'[i] # spent[i] => spent[i] = 0 /\ inv[i].status = "pending"
    /\ \A i, j \in Invites :
          inv'[i].status = "pending" /\ inv'[j].status = "pending" /\ inv'[i].org = inv'[j].org
          => i = j

LEMMA SpentStep ==
    InvitationsInv /\ InvitationsInv' /\ [InvitationsNext]_invitationVars =>
        [SpendingStep]_invitationVars
<1> SUFFICES ASSUME InvitationsInv, InvitationsInv', [InvitationsNext]_invitationVars
             PROVE  SpendingStep
  OBVIOUS
<1>1. \A i, j \in Invites :
         inv'[i].status = "pending" /\ inv'[j].status = "pending" /\ inv'[i].org = inv'[j].org
         => i = j
  BY DEF InvitationsInv, RowsClosed, Pending
<1>2. ASSUME NEW i \in Invites, spent'[i] # spent[i]
      PROVE  spent[i] = 0 /\ inv[i].status = "pending"
  <2>1. PICK k \in Invites, R \in RoleSets : Open(k) /\ Activate(k, R)
    <3>1. InviteActions
      BY <1>2 DEF InvitationsNext, invitationVars, inviteVars
    <3>2. Accepts
      BY <1>2, <3>1, OnlyAcceptsSpend
    <3>3. ASSUME NEW s \in InviteSlots, NEW R \in RoleSets, AcceptAfterStepUp(s, R)
          PROVE  ireq[s].inv \in Invites /\ Open(ireq[s].inv) /\ Activate(ireq[s].inv, R)
      BY <3>3 DEF AcceptAfterStepUp, InvitationsInv, RequestsSound, RequestSound
    <3>4. ASSUME NEW k \in Invites, NEW R \in RoleSets, AcceptNewUser(k, R) \/ AcceptExistingUser(k, R)
          PROVE  Open(k) /\ Activate(k, R)
      BY <3>4 DEF AcceptNewUser, AcceptExistingUser
    <3> QED
      BY <3>2, <3>3, <3>4 DEF Accepts
  <2> QED
    BY <1>2, <2>1, SpendingIsPending
<1> QED
  BY <1>1, <1>2 DEF SpendingStep

\* An invitation makes a member once and only from a pending row: the row is
\* locked and checked again after a step-up gave the lock up, a revocation that
\* read it before writes no more than its status, and active_key keeps a second
\* pending row for the address out.
THEOREM InvitationsAreSpentOnce == InvitationsSpec => InvitationSpentOnce
<1>1. InvitationSpentOnce <=> [][SpendingStep]_invitationVars
  BY DEF InvitationSpentOnce, SpendingStep
<1> QED
  BY <1>1, SpentStep, InvitationsInvHolds, PTL DEF InvitationsSpec

---------------------------------------------------------------------------
(* Teams                                                                   *)

TeamRequest == [pc : {"idle", "commit"}, target : People \cup {Nobody},
                role : TeamRoles \cup {"none"}, seen : TeamRoles \cup {"none"}]

\* What a request found when it counted the administrators is still so: with
\* requests that do not overlap nothing else runs before its commit.
CountStands ==
    \A s \in TeamSlots : treq[s].pc = "commit" =>
        /\ treq[s].target \in People
        /\ treq[s].role # "admin" => ~IsLastAdmin(treq[s].target)

TeamsInv == TeamsTypeOK /\ CountStands

LEMMA TeamsInvInit == TeamsInit => TeamsInv
<1> SUFFICES ASSUME TeamsInit PROVE TeamsInv
  OBVIOUS
<1>1. IdleRequest \in TeamRequest /\ IdleRequest.pc = "idle"
  BY DEF IdleRequest, TeamRequest
<1>2. treq \in [TeamSlots -> TeamRequest] /\ \A s \in TeamSlots : treq[s].pc = "idle"
  BY <1>1 DEF TeamsInit
<1> QED
  BY <1>2 DEF TeamsInit, TeamsInv, TeamsTypeOK, CountStands, TeamRequest

LEMMA TeamsTypesNext == TeamsInv /\ [TeamsNext]_teamVars => TeamsTypeOK'
<1> SUFFICES ASSUME TeamsInv, [TeamsNext]_teamVars PROVE TeamsTypeOK'
  OBVIOUS
<1>i. IdleRequest \in TeamRequest
  BY DEF IdleRequest, TeamRequest
<1>t. /\ team \in BOOLEAN /\ roster \in [People -> TeamRoles \cup {"none"}] /\ bulk \in BOOLEAN
      /\ treq \in [TeamSlots -> TeamRequest]
  BY DEF TeamsInv, TeamsTypeOK, TeamRequest
<1>0. SUFFICES /\ team' \in BOOLEAN /\ roster' \in [People -> TeamRoles \cup {"none"}]
               /\ bulk' \in BOOLEAN /\ treq' \in [TeamSlots -> TeamRequest]
  BY DEF TeamsTypeOK, TeamRequest
<1>1. CASE \/ \E u \in People : CreateTeam(u) \/ DeleteTeam(u)
           \/ \E u, v \in People, r \in TeamRoles : InviteToTeam(u, v, r)
  BY <1>t, <1>1 DEF CreateTeam, DeleteTeam, InviteToTeam
<1>2. ASSUME NEW u \in People, NEW S \in SUBSET People, SetTeamMembers(u, S)
      PROVE  /\ team' \in BOOLEAN /\ roster' \in [People -> TeamRoles \cup {"none"}]
             /\ bulk' \in BOOLEAN /\ treq' \in [TeamSlots -> TeamRequest]
  BY <1>t, <1>2 DEF SetTeamMembers, TeamRoles
<1>3. ASSUME NEW s \in TeamSlots, NEW u \in People, NEW v \in People,
             NEW r \in TeamRoles \cup {"none"}, StartChange(s, u, v, r)
      PROVE  /\ team' \in BOOLEAN /\ roster' \in [People -> TeamRoles \cup {"none"}]
             /\ bulk' \in BOOLEAN /\ treq' \in [TeamSlots -> TeamRequest]
  <2> DEFINE q == [pc |-> "commit", target |-> v, role |-> r, seen |-> roster[v]]
  <2>1. q \in TeamRequest
    BY <1>t DEF TeamRequest
  <2>2. treq' = [treq EXCEPT ![s] = q] /\ bulk' = FALSE /\ UNCHANGED <<team, roster>>
    BY <1>3 DEF StartChange
  <2> HIDE DEF q
  <2> QED
    BY <1>t, <2>1, <2>2
<1>4. ASSUME NEW s \in TeamSlots, CommitChange(s)
      PROVE  /\ team' \in BOOLEAN /\ roster' \in [People -> TeamRoles \cup {"none"}]
             /\ bulk' \in BOOLEAN /\ treq' \in [TeamSlots -> TeamRequest]
  <2>1. treq[s].role \in TeamRoles \cup {"none"} /\ treq[s].target \in People
    BY <1>t, <1>4 DEF CommitChange, TeamsInv, CountStands, TeamRequest
  <2> QED
    BY <1>t, <1>i, <1>4, <2>1 DEF CommitChange
<1>5. CASE UNCHANGED teamVars
  BY <1>t, <1>5 DEF teamVars
<1> QED
  BY <1>1, <1>2, <1>3, <1>4, <1>5 DEF TeamsNext

LEMMA TeamsInvNext == TeamsInv /\ [SerialTeamsNext]_teamVars => TeamsInv'
<1> SUFFICES ASSUME TeamsInv, [SerialTeamsNext]_teamVars PROVE TeamsInv'
  OBVIOUS
<1>1. TeamsTypeOK'
  BY TeamsTypesNext DEF SerialTeamsNext
<1>i. IdleRequest.pc = "idle"
  BY DEF IdleRequest
<1>2. CASE UNCHANGED teamVars
  BY <1>1, <1>2 DEF teamVars, TeamsInv, CountStands, IsLastAdmin, Admins
<1>3. CASE SerialTeamsNext
  <2>1. ASSUME NEW s \in TeamSlots, treq'[s].pc = "commit"
        PROVE  /\ treq'[s].target \in People
               /\ treq'[s].role # "admin" => ~IsLastAdmin(treq[s].target)'
    <3>1. treq[s] = IdleRequest
      BY <1>i, <1>3, <2>1 DEF SerialTeamsNext
    <3>2. PICK t \in TeamSlots, u \in People, v \in People, r \in TeamRoles \cup {"none"} :
            StartChange(t, u, v, r)
      BY <1>i, <1>3, <2>1, <3>1
      DEF SerialTeamsNext, TeamsNext, CreateTeam, DeleteTeam, InviteToTeam, SetTeamMembers, CommitChange,
          TeamsInv, TeamsTypeOK
    <3> DEFINE q == [pc |-> "commit", target |-> v, role |-> r, seen |-> roster[v]]
    <3>3. /\ treq' = [treq EXCEPT ![t] = q] /\ UNCHANGED roster
          /\ r # "admin" => ~IsLastAdmin(v)
      BY <3>2 DEF StartChange
    <3>4. q.target = v /\ q.role = r
      OBVIOUS
    <3> HIDE DEF q
    <3>5. s = t
      BY <1>i, <2>1, <3>1, <3>3 DEF TeamsInv, TeamsTypeOK
    <3>6. treq'[s] = q
      BY <3>3, <3>5 DEF TeamsInv, TeamsTypeOK
    <3>7. IsLastAdmin(treq[s].target)' <=> IsLastAdmin(v)
      BY <3>3, <3>4, <3>6 DEF IsLastAdmin, Admins
    <3> QED
      BY <3>3, <3>4, <3>6, <3>7
  <2> QED
    BY <1>1, <2>1 DEF TeamsInv, CountStands
<1> QED
  BY <1>2, <1>3

\* The member that a request takes from the administrators is not the last
\* one: another is left.
LEMMA AnotherIsLeft ==
    ASSUME NEW v \in Admins, ~IsLastAdmin(v)
    PROVE  \E w \in Admins : w # v
<1> SUFFICES ASSUME Admins = {v} PROVE FALSE
  OBVIOUS
<1>1. Cardinality(Admins) = 1
  BY FS_Singleton
<1> QED
  BY <1>1 DEF IsLastAdmin, Admins

LEMMA AdminStep ==
    TeamsInv /\ [SerialTeamsNext]_teamVars =>
        [Admins # {} => Admins' # {} \/ ~team' \/ bulk']_teamVars
<1> SUFFICES ASSUME TeamsInv, SerialTeamsNext, NEW v \in Admins, Admins' = {}, team'
             PROVE  bulk'
  BY DEF teamVars
<1>t. roster \in [People -> TeamRoles \cup {"none"}] /\ v \in People /\ roster[v] = "admin"
  BY DEF TeamsInv, TeamsTypeOK, Admins
<1>e. \A w \in People : roster'[w] # "admin"
  BY DEF Admins
<1>1. ASSUME NEW s \in TeamSlots, CommitChange(s) PROVE FALSE
  <2> DEFINE w == treq[s].target
  <2>1. /\ w \in People /\ (treq[s].role # "admin" => ~IsLastAdmin(w))
        /\ roster' = roster \/ roster' = [roster EXCEPT ![w] = treq[s].role]
    BY <1>1 DEF CommitChange, TeamsInv, CountStands
  <2> HIDE DEF w
  <2>2. roster' = [roster EXCEPT ![w] = treq[s].role]
    BY <1>t, <1>e, <2>1
  <2>3. v = w /\ treq[s].role # "admin"
    BY <1>t, <1>e, <2>1, <2>2
  <2>4. PICK x \in Admins : x # v
    BY <2>1, <2>3, AnotherIsLeft
  <2> QED
    BY <1>t, <1>e, <2>1, <2>2, <2>3, <2>4 DEF Admins
<1>2. ASSUME NEW u \in People, NEW w \in People, NEW r \in TeamRoles, InviteToTeam(u, w, r)
      PROVE  FALSE
  BY <1>t, <1>e, <1>2 DEF InviteToTeam
<1>3. ASSUME UNCHANGED roster PROVE FALSE
  BY <1>t, <1>e, <1>3
<1> QED
  BY <1>1, <1>2, <1>3 DEF SerialTeamsNext, TeamsNext, CreateTeam, DeleteTeam, SetTeamMembers, StartChange

\* Team requests that do not overlap keep a team that has an administrator one:
\* _is_last_admin is asked by set_member_role, remove_member and leave_team
\* alike.  Overlapping requests do not (the run MCTenancy_teams).
THEOREM TeamsKeepAnAdmin == SerialTeamsSpec => LastAdminKept
<1>1. SerialTeamsSpec => []TeamsInv
  BY TeamsInvInit, TeamsInvNext, PTL DEF SerialTeamsSpec
<1> QED
  BY <1>1, AdminStep, PTL DEF SerialTeamsSpec, LastAdminKept

---------------------------------------------------------------------------
(* The parts side by side: whichever part the run has chosen to move, each  *)
(* step is a step of that part and none of the others.                      *)

\* The founded organisation, with which most parts start, obeys the rules too.
LEMMA FoundedSound == Init => RolesInv
<1> SUFFICES ASSUME Init PROVE RolesInv
  OBVIOUS
<1>0. Root \in Users /\ Platform \notin Orgs
  BY OrganizationsAssumption
<1>1. ASSUME NEW r \in Rows
      PROVE  /\ FoundedRole(r) \in RoleRow
             /\ FoundedRole(r) = NoRole \/ FoundedRole(r).name # "none"
             /\ FoundedRole(r).scope = Platform
             /\ r \in Bootstrap => FoundedRole(r) # NoRole
             /\ Founded /\ r = "org_admin" => FoundedRole(r) # NoRole
  <2>1. /\ NoRole \in RoleRow /\ NoRole.scope = Platform /\ NoRole.name = "none"
    BY DEF NoRole, RoleRow
  <2>2. ASSUME NEW n \in Builtin \cup Bootstrap, NEW P \in SUBSET Registry
        PROVE  /\ PlatformRole(n, P) \in RoleRow /\ PlatformRole(n, P).name # "none"
               /\ PlatformRole(n, P).scope = Platform
    BY DEF PlatformRole, RoleRow, Builtin, Bootstrap
  <2>3. /\ SeededPermissions(r) \in SUBSET Registry /\ OrgAdminPermissions \in SUBSET Registry
        /\ "org_admin" \in Builtin \ Bootstrap /\ "org_member" \in Builtin
    BY DEF SeededPermissions, OrgAdminPermissions, Registry, GlobalPermissions, Builtin, Bootstrap
  <2> QED
    BY <2>1, <2>2, <2>3 DEF FoundedRole
<1>2. role = [r \in Rows |-> FoundedRole(r)]
  BY DEF Init
<1>3. /\ userRoles = [u \in Users |-> FoundedUserRoles(u)]
      /\ \A u \in Users : FoundedUserRoles(u) \subseteq Bootstrap
  BY DEF Init, FoundedUserRoles
<1>4. /\ member = [o \in Orgs |-> [u \in Users |-> FoundedMember(o, u)]]
      /\ \A o \in Orgs, u \in Users :
            /\ FoundedMember(o, u) \in MemberRow
            /\ \A r \in FoundedMember(o, u).roles : Founded /\ r = "org_admin"
  BY DEF Init, FoundedMember, NotMember, MemberRow, Rows, Builtin
<1>5. /\ org \in [Orgs -> {"none", "active", "suspended"}]
      /\ claims \in [Users -> SUBSET Registry] /\ authority = "platform"
  BY DEF Init, FoundedOrg, FoundedClaims, Registry
<1>6. OrganizationsTypeOK
  <2>1. role \in [Rows -> RoleRow]
    BY <1>1, <1>2
  <2>2. userRoles \in [Users -> SUBSET Rows]
    BY <1>3 DEF Rows
  <2>3. member \in [Orgs -> [Users -> MemberRow]]
    BY <1>4
  <2> QED
    BY <1>5, <2>1, <2>2, <2>3 DEF OrganizationsTypeOK, RoleRow, MemberRow
<1>7. CatalogueSound
  BY <1>1, <1>2 DEF CatalogueSound
<1>8. HoldingsSound
  BY <1>1, <1>2, <1>3, <1>4 DEF HoldingsSound, Fits, Rows, Builtin
<1> QED
  BY <1>6, <1>7, <1>8 DEF RolesInv

\* The organisations' own requests move with the invitee's account in place.
TenancyInv ==
    /\ InvitationsInv /\ CountsBounded /\ TeamsInv
    /\ focus \in Foci
    /\ focus \in {"orgs", "founding"} => account = "plain"

LEMMA TenancyInit == Init => TenancyInv
<1> SUFFICES ASSUME Init PROVE TenancyInv
  OBVIOUS
<1>1. RolesInv /\ TeamsInv
  BY FoundedSound, TeamsInvInit DEF Init
<1>2. InvitationsTypeOK
  BY <1>1, IdleRows, InvitationsTypes DEF Init, RolesInv
<1>3. /\ \A i \in Invites : inv[i].status = "none" /\ spent[i] = 0
      /\ \A s \in InviteSlots : ireq[s].pc = "idle"
  BY IdleRows DEF Init
<1>4. RowsClosed /\ RequestsSound
  BY <1>3 DEF RowsClosed, RequestsSound, RequestSound, Pending
<1>5. InvitationsInv
  BY <1>1, <1>2, <1>4 DEF InvitationsInv
<1>6. CountsBounded
  BY <1>5, CountsBoundedAtFirst DEF Init
<1> QED
  BY <1>1, <1>5, <1>6 DEF TenancyInv, Init

\* A step of the whole is a step, or none, of each part.
LEMMA TenancySteps ==
    ASSUME TenancyInv, [Next]_vars
    PROVE  /\ [InvitationsNext]_invitationVars /\ [SerialTeamsNext]_teamVars
           /\ UNCHANGED focus
           /\ focus \in {"orgs", "founding"} => UNCHANGED account
<1>1. CASE UNCHANGED vars
  BY <1>1 DEF vars, invitationVars, inviteVars
<1>2. CASE /\ UNCHANGED focus /\ focus \in {"orgs", "founding"} /\ OrganizationsNext
           /\ UNCHANGED <<inviteVars, teamVars>>
  <2>1. account = "plain" /\ UNCHANGED account
    BY <1>2 DEF TenancyInv, inviteVars
  <2> QED
    BY <1>2, <2>1 DEF InvitationsNext
<1>3. CASE UNCHANGED focus /\ InvitationsFocus /\ UNCHANGED teamVars
  BY <1>3 DEF InvitationsFocus, InvitationsNext
<1>4. CASE /\ UNCHANGED focus /\ focus = "team" /\ SerialTeamsNext
           /\ UNCHANGED invitationVars
  BY <1>4
<1> QED
  BY <1>1, <1>2, <1>3, <1>4 DEF Next

LEMMA TenancyInvHolds == Spec => []TenancyInv
<1>1. TenancyInv /\ [Next]_vars => TenancyInv'
  BY TenancySteps, InvitationsInvNext, CountsBoundedNext, TeamsInvNext DEF TenancyInv
<1> QED
  BY <1>1, TenancyInit, PTL DEF Spec

\* The tables of organisations, invitations and teams keep their shape beside
\* one another.
THEOREM TenancyPartsTypeCorrect == Spec => []TypeOK
<1>1. TenancyInv => TypeOK
  BY DEF TenancyInv, InvitationsInv, TeamsInv, TypeOK
<1> QED
  BY <1>1, TenancyInvHolds, PTL

\* Side by side the parts keep what each promises alone, from the state the
\* first start leaves and from an organisation already founded: resolve_roles,
\* the guards of app/rbac.py, the invitation's row lock and _is_last_admin.
THEOREM TenancyPartsSound ==
    Spec => /\ [](RolesStayHome /\ AttemptsLimited)
            /\ NoTenantGrant /\ InvitationSpentOnce /\ LastAdminKept
<1>1. TenancyInv /\ TenancyInv' /\ [Next]_vars =>
        /\ [authority' = "tenant" =>
              \A u \in Users : HeldGlobal(u)' \subseteq HeldGlobal(u)]_orgVars
        /\ [SpendingStep]_invitationVars
        /\ [Admins # {} => Admins' # {} \/ ~team' \/ bulk']_teamVars
  BY TenancySteps, TenantStep, SpentStep, AdminStep DEF TenancyInv
<1>2. TenancyInv => RolesStayHome /\ AttemptsLimited
  BY RolesStayHomeFollows, LimitFollows DEF TenancyInv, InvitationsInv
<1>3. InvitationSpentOnce <=> [][SpendingStep]_invitationVars
  BY DEF InvitationSpentOnce, SpendingStep
<1> QED
  BY <1>1, <1>2, <1>3, TenancyInvHolds, PTL DEF Spec, NoTenantGrant, LastAdminKept

===========================================================================
