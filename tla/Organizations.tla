--------------------------- MODULE Organizations ---------------------------
(***************************************************************************)
(* Organisations, memberships and roles: the role catalogue and who may    *)
(* change it (app/services/role_service.py and the three route files), the  *)
(* members of an organisation and their roles (app/services/org_service.py, *)
(* app/api/routes_orgs.py) and the guards of app/rbac.py.                   *)
(*                                                                          *)
(* A request is authorised by two different things: the permissions claim   *)
(* of its token, which is as old as the token, for the platform surface and *)
(* for the platform administrator's bypass; the live membership for         *)
(* everything else.  Each request is one step: its writes are one commit    *)
(* and a role that is deleted or assigned twice is refused by the keys of   *)
(* user_roles and membership_roles.                                         *)
(***************************************************************************)
EXTENDS FiniteSets

CONSTANTS
    Users,
    Targets,       \* those whose roles and memberships requests change
    Root,          \* ADMIN_BOOTSTRAP_EMAIL and PLATFORM_OWNER_EMAIL
    Orgs,
    DefaultOrg,    \* the organisation whose slug is "default"
    Extra,         \* identities of the role rows that requests may create
    NewNames,      \* names such a row may be given
    PermSets,      \* permission lists a request may carry
    RoleSets,      \* role lists a request may carry
    Platform       \* roles.organization_id IS NULL

ASSUME OrganizationsAssumption ==
    /\ Root \in Users /\ Targets \subseteq Users
    /\ DefaultOrg \in Orgs
    /\ Platform \notin Orgs
    /\ \A R \in RoleSets : R \subseteq {"org_admin", "org_member", "admin", "platform_admin"} \cup Extra
    /\ (Extra \cup NewNames) \cap {"org_admin", "org_member", "admin", "platform_admin", "none"} = {}

VARIABLES
    org,         \* organizations.status, or "none"
    role,        \* the roles table with role_permissions
    userRoles,   \* user_roles
    member,      \* organization_memberships with membership_roles
    claims,      \* the permissions claim of the token each user presents
    authority    \* by what right the last step was taken (history)

orgVars == <<org, role, userRoles, member, claims, authority>>

\* The part of the permission registry the guards tell apart.
GlobalPermissions == {"manage_all_orgs", "manage_roles"}
Registry == GlobalPermissions \cup {"manage_org", "manage_sso"}
OrgAdminPermissions == {"manage_org", "manage_sso"}

Builtin == {"org_admin", "org_member"}          \* created when first needed
Bootstrap == {"admin", "platform_admin"}        \* seeded at every start
Rows == Builtin \cup Bootstrap \cup Extra
NoRole == [name |-> "none", scope |-> Platform, perms |-> {}]
PlatformRole(name, perms) == [name |-> name, scope |-> Platform, perms |-> perms]
NotMember == [status |-> "none", roles |-> {}]

OrganizationsTypeOK ==
    /\ org \in [Orgs -> {"none", "active", "suspended"}]
    /\ role \in [Rows -> [name : Builtin \cup Bootstrap \cup {"none"} \cup NewNames,
                          scope : Orgs \cup {Platform}, perms : SUBSET Registry]]
    /\ userRoles \in [Users -> SUBSET Rows]
    /\ member \in [Orgs -> [Users -> [status : {"none", "invited", "active"},
                                      roles : SUBSET Rows]]]
    /\ claims \in [Users -> SUBSET Registry]
    /\ authority \in {"tenant", "platform"}

SeededPermissions(r) == IF r = "admin" THEN {"manage_roles"} ELSE {"manage_all_orgs"}

\* After the first start: the default organisation is there, without members.
OrganizationsInit ==
    /\ org = [o \in Orgs |-> IF o = DefaultOrg THEN "active" ELSE "none"]
    /\ role = [r \in Rows |->
                 IF r \in Bootstrap THEN PlatformRole(r, SeededPermissions(r)) ELSE NoRole]
    /\ userRoles = [u \in Users |-> IF u = Root THEN Bootstrap ELSE {}]
    /\ member = [o \in Orgs |-> [u \in Users |-> NotMember]]
    /\ claims = [u \in Users |-> {}]
    /\ authority = "platform"

---------------------------------------------------------------------------
(* Lookups.                                                                *)

\* permissions_for_roles
PermsOf(R) == UNION {role[r].perms : r \in R}
MemberPerms(o, u) == PermsOf(member[o][u].roles)

ActiveIn(u) == {o \in Orgs : member[o][u].status = "active"}

\* resolve_primary_membership; between other organisations the row id decides.
Primary(u) == IF DefaultOrg \in ActiveIn(u) THEN {DefaultOrg} ELSE ActiveIn(u)

\* list_roles_for_scope / get_role_in_scope: what the organisation can see.
Visible(o) == {r \in Rows : role[r] # NoRole /\ role[r].scope \in {Platform, o}}

\* Mutant of RoleInUse: assignments to members overlooked.
UsedGlobally(r) == \E u \in Users : r \in userRoles[u]

\* role_in_use
RoleInUse(r) ==
    \/ \E u \in Users : r \in userRoles[u]
    \/ \E o \in Orgs, u \in Users : r \in member[o][u].roles

\* One row for each requested name.
DistinctNames(R) == \A r, s \in R : role[r].name = role[s].name => r = s

\* Mutant of Assignable: the GLOBAL check forgotten.
AssignableAnyScope(R, o, byPlatform) == R \subseteq Visible(o) /\ DistinctNames(R)

\* resolve_roles_for_org: a role with a GLOBAL permission is for platform
\* administrators to give.
Assignable(R, o, byPlatform) ==
    /\ R \subseteq Visible(o)
    /\ DistinctNames(R)
    /\ byPlatform \/ PermsOf(R) \cap GlobalPermissions = {}

\* _check_name_available
NameAvailable(name, scope) ==
    ~ \E r \in Rows : /\ role[r] # NoRole /\ role[r].name = name
                      /\ role[r].scope \in {Platform, scope}

\* _validate_permission_names and _validate_org_scoped_permission_names
PermsAllowed(perms, scope) ==
    perms \subseteq (IF scope = Platform THEN Registry ELSE Registry \ GlobalPermissions)

\* get_or_create_role on the role table
WithRole(name, perms) ==
    IF role[name] = NoRole THEN [role EXCEPT ![name] = PlatformRole(name, perms)] ELSE role

---------------------------------------------------------------------------
(* Guards (app/rbac.py).                                                   *)

PlatformAdmin(u) == "manage_all_orgs" \in claims[u]
LegacyAdmin(u) == "manage_roles" \in claims[u]

\* require_org_permission_or_platform_admin: the bypass stands in for an
\* org_admin and is held to the permissions that role has now.
OrgPerms(u, o) ==
    IF PlatformAdmin(u) /\ role["org_admin"] # NoRole THEN role["org_admin"].perms
    ELSE IF o \in ActiveIn(u) THEN MemberPerms(o, u) ELSE {}

HasOrgPermission(u, o, p) == org[o] # "none" /\ p \in OrgPerms(u, o)
ManagesOrg(u, o) == HasOrgPermission(u, o, "manage_org")

By(u) == authority' = IF PlatformAdmin(u) \/ LegacyAdmin(u) THEN "platform" ELSE "tenant"

---------------------------------------------------------------------------
(* Tokens.                                                                 *)

\* build_user_claims: global roles and the primary membership's.
IssueToken(u) ==
    /\ \/ Primary(u) = {} /\ claims' = [claims EXCEPT ![u] = PermsOf(userRoles[u])]
       \/ \E o \in Primary(u) :
            claims' = [claims EXCEPT ![u] = PermsOf(userRoles[u]) \cup MemberPerms(o, u)]
    /\ authority' = "tenant"
    /\ UNCHANGED <<org, role, userRoles, member>>

---------------------------------------------------------------------------
(* Organisations and members.                                              *)

CreateOrg(u, o) ==
    /\ org[o] = "none"
    /\ org' = [org EXCEPT ![o] = "active"]
    /\ role' = WithRole("org_admin", OrgAdminPermissions)
    /\ member' = [member EXCEPT ![o][u] = [status |-> "active", roles |-> {"org_admin"}]]
    /\ By(u)
    /\ UNCHANGED <<userRoles, claims>>

SetOrgStatus(u, o, status) ==
    /\ ManagesOrg(u, o) /\ PlatformAdmin(u)
    /\ org[o] # status
    /\ org' = [org EXCEPT ![o] = status]
    /\ By(u)
    /\ UNCHANGED <<role, userRoles, member, claims>>

JoinWith(o, v, status) ==
    /\ member[o][v] = NotMember
    /\ role' = WithRole("org_member", {})
    /\ member' = [member EXCEPT ![o][v] = [status |-> status, roles |-> {"org_member"}]]

InviteMember(u, o, v) ==
    /\ ManagesOrg(u, o)
    /\ JoinWith(o, v, "invited")
    /\ By(u)
    /\ UNCHANGED <<org, userRoles, claims>>

\* A single sign-on of the organisation, whoever's it is.
JitProvisionMembership(o, v) ==
    /\ org[o] # "none"
    /\ JoinWith(o, v, "active")
    /\ authority' = "tenant"
    /\ UNCHANGED <<org, userRoles, claims>>

\* The self-escalation guard of the routes that widen a membership.
NotWidening(u, o, v, R) == u = v => PermsOf(R) \subseteq MemberPerms(o, v)

\* PUT /orgs/{o}/members/{v}/roles and its /organizations twin: replace all.
SetMemberRoles(u, o, v, R) ==
    /\ ManagesOrg(u, o) /\ member[o][v] # NotMember
    /\ Assignable(R, o, PlatformAdmin(u))
    /\ NotWidening(u, o, v, R)
    /\ member' = [member EXCEPT ![o][v].roles = R]
    /\ By(u)
    /\ UNCHANGED <<org, role, userRoles, claims>>

AddMemberRole(u, o, v, r) ==
    /\ ManagesOrg(u, o) /\ member[o][v] # NotMember
    /\ Assignable({r}, o, PlatformAdmin(u))
    /\ NotWidening(u, o, v, {r})
    /\ member' = [member EXCEPT ![o][v].roles = @ \cup {r}]
    /\ By(u)
    /\ UNCHANGED <<org, role, userRoles, claims>>

RemoveMemberRole(u, o, v, r) ==
    /\ ManagesOrg(u, o) /\ r \in member[o][v].roles
    /\ member' = [member EXCEPT ![o][v].roles = @ \ {r}]
    /\ By(u)
    /\ UNCHANGED <<org, role, userRoles, claims>>

---------------------------------------------------------------------------
(* The role catalogue.  The platform surface edits platform roles, the      *)
(* organisation's its own, the legacy /roles surface any role.              *)

MayCreate(u, scope) ==
    IF scope = Platform THEN PlatformAdmin(u) \/ LegacyAdmin(u) ELSE ManagesOrg(u, scope)

MayEdit(u, scope) ==
    \/ LegacyAdmin(u)
    \/ IF scope = Platform THEN PlatformAdmin(u) ELSE ManagesOrg(u, scope)

CreateRole(u, r, name, scope, perms) ==
    /\ role[r] = NoRole
    /\ MayCreate(u, scope)
    /\ NameAvailable(name, scope)
    /\ PermsAllowed(perms, scope)
    /\ role' = [role EXCEPT ![r] = [name |-> name, scope |-> scope, perms |-> perms]]
    /\ By(u)
    /\ UNCHANGED <<org, userRoles, member, claims>>

UpdateRole(u, r, perms) ==
    /\ role[r] # NoRole
    /\ MayEdit(u, role[r].scope)
    /\ PermsAllowed(perms, role[r].scope)
    /\ role' = [role EXCEPT ![r].perms = perms]
    /\ By(u)
    /\ UNCHANGED <<org, userRoles, member, claims>>

DeleteRole(u, r) ==
    /\ role[r] # NoRole
    /\ MayEdit(u, role[r].scope)
    /\ ~RoleInUse(r)
    /\ role' = [role EXCEPT ![r] = NoRole]
    /\ By(u)
    /\ UNCHANGED <<org, userRoles, member, claims>>

\* A later start (app/main.py): create_admin, ensure_platform_admin_role and
\* ensure_org_admin_permissions add what is missing and remove nothing; the
\* bootstrap account gets its two roles back.  org_admin is left uncreated.
StartUp ==
    /\ role' = [r \in Rows |->
                  CASE r \in Bootstrap ->
                         PlatformRole(r, role[r].perms \cup SeededPermissions(r))
                    [] r = "org_admin" /\ role[r] # NoRole ->
                         [role[r] EXCEPT !.perms = @ \cup OrgAdminPermissions]
                    [] OTHER -> role[r]]
    /\ userRoles' = [userRoles EXCEPT ![Root] = @ \cup Bootstrap]
    /\ authority' = "platform"
    /\ UNCHANGED <<org, member, claims>>

---------------------------------------------------------------------------
(* Global assignments: platform roles only.                                *)

AssignUserRole(u, v, r) ==
    /\ PlatformAdmin(u)
    /\ role[r] # NoRole /\ role[r].scope = Platform
    /\ u = v => role[r].perms \subseteq PermsOf(userRoles[v])
    /\ userRoles' = [userRoles EXCEPT ![v] = @ \cup {r}]
    /\ By(u)
    /\ UNCHANGED <<org, role, member, claims>>

RemoveUserRole(u, v, r) ==
    /\ PlatformAdmin(u) /\ r \in userRoles[v]
    /\ userRoles' = [userRoles EXCEPT ![v] = @ \ {r}]
    /\ By(u)
    /\ UNCHANGED <<org, role, member, claims>>

\* PUT /users/{v}/roles, with resolve_roles.
SetUserRoles(u, v, R) ==
    /\ LegacyAdmin(u)
    /\ \A r \in R : role[r] # NoRole /\ role[r].scope = Platform
    /\ u = v => PermsOf(R) \subseteq PermsOf(userRoles[v])
    /\ userRoles' = [userRoles EXCEPT ![v] = R]
    /\ By(u)
    /\ UNCHANGED <<org, role, member, claims>>

---------------------------------------------------------------------------
OrganizationsNext ==
    \/ \E u \in Users : IssueToken(u)
    \/ \E u \in Targets, o \in Orgs : CreateOrg(u, o)
    \/ \E u \in Users, o \in Orgs, st \in {"active", "suspended"} : SetOrgStatus(u, o, st)
    \/ \E u \in Users, v \in Targets, o \in Orgs : InviteMember(u, o, v)
    \/ \E v \in Targets, o \in Orgs : JitProvisionMembership(o, v)
    \/ \E u \in Users, v \in Targets, o \in Orgs, R \in RoleSets : SetMemberRoles(u, o, v, R)
    \/ \E u \in Users, v \in Targets, o \in Orgs, r \in Rows :
          AddMemberRole(u, o, v, r) \/ RemoveMemberRole(u, o, v, r)
    \/ \E u \in Users, r \in Extra, n \in NewNames, s \in Orgs \cup {Platform}, P \in PermSets :
          CreateRole(u, r, n, s, P)
    \/ \E u \in Users, r \in Rows, P \in PermSets : UpdateRole(u, r, P)
    \/ \E u \in Users, r \in Rows : DeleteRole(u, r)
    \/ StartUp
    \/ \E u \in Users, v \in Targets, r \in Rows : AssignUserRole(u, v, r) \/ RemoveUserRole(u, v, r)
    \/ \E u \in Users, v \in Targets, R \in RoleSets : SetUserRoles(u, v, R)

OrganizationsSpec == OrganizationsInit /\ [][OrganizationsNext]_orgVars

---------------------------------------------------------------------------
(* Properties.                                                             *)

HeldRoles(u) == userRoles[u] \cup UNION {member[o][u].roles : o \in Orgs}
HeldGlobal(u) == PermsOf(HeldRoles(u) \ Builtin) \cap GlobalPermissions

\* No step taken without a platform permission widens anyone's GLOBAL
\* permissions: not by giving a role, not by editing one, not by accepting an
\* invitation.  org_admin and org_member are left out: every organisation
\* hands them out, so what a platform administrator puts in them is everyone's.
NoTenantGrant ==
    [][authority' = "tenant" => \A u \in Users : HeldGlobal(u)' \subseteq HeldGlobal(u)]_orgVars

\* Nobody holds a role that was deleted, and an organisation's own role is held
\* by its members only: never by an account as a global role, never by a member
\* of another organisation, whichever name it was asked for by.
RolesStayHome ==
    /\ \A u \in Users : \A r \in HeldRoles(u) : role[r] # NoRole
    /\ \A r \in Rows : role[r].scope # Platform =>
          /\ \A u \in Users : r \notin userRoles[u]
          /\ \A o \in Orgs \ {role[r].scope}, u \in Users : r \notin member[o][u].roles
===========================================================================
