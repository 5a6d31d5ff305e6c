----------------------------- MODULE MCTenancy -----------------------------
(* Organisations with their roles, members and invitations, and one team.   *)
(* `focus` says which part moves; what each moves is bounded further:        *)
(*   "orgs"     roles, members, global assignments and tokens, at most       *)
(*              MaxChanges of them away from the founded state at a time;     *)
(*   "founding" the same from the state the first start leaves;               *)
(*   "life"     two invitations, one request at a time in flight;             *)
(*   "overlap"  one invitation, two requests in flight;                       *)
(*   "both"     one invitation while roles, members and tokens change;        *)
(*   "team"     a team whose requests do not overlap.                         *)
EXTENDS Invitations, Teams, TLC

CONSTANTS Foci, MaxChanges, alice, bob, o1, o2, r1

VARIABLE focus

vars == <<invitationVars, teamVars, focus>>

FewPermSets == {{}, {"manage_all_orgs", "manage_roles"}}
SingleRoles == {R \in SUBSET Rows : Cardinality(R) <= 1}

\* o1 founded by alice beside the default organisation o2, the two built-in
\* roles in use, the root administrator signed in.
Founded == focus # "founding"
FoundedOrg(o) == IF o = DefaultOrg \/ Founded THEN "active" ELSE "none"
FoundedMember(o, u) ==
    IF Founded /\ o = o1 /\ u = alice THEN [status |-> "active", roles |-> {"org_admin"}] ELSE NotMember
FoundedRole(r) ==
    CASE r \in Bootstrap             -> PlatformRole(r, SeededPermissions(r))
      [] Founded /\ r = "org_admin"  -> PlatformRole(r, OrgAdminPermissions)
      [] Founded /\ r = "org_member" -> PlatformRole(r, {})
      [] OTHER                       -> NoRole
FoundedUserRoles(u) == IF u = Root THEN Bootstrap ELSE {}
FoundedClaims(u) == IF Founded /\ u = Root THEN GlobalPermissions ELSE {}

Changes ==
    Cardinality({u \in Users : userRoles[u] # FoundedUserRoles(u)})
  + Cardinality({x \in Orgs \X Users : member[x[1]][x[2]] # FoundedMember(x[1], x[2])})
  + Cardinality({r \in Rows : role[r] # FoundedRole(r)})
  + Cardinality({o \in Orgs : org[o] # FoundedOrg(o)})
  + Cardinality({u \in Users : claims[u] # FoundedClaims(u)})

TypeOK == InvitationsTypeOK /\ TeamsTypeOK /\ focus \in Foci

Init ==
    /\ focus \in Foci
    /\ org = [o \in Orgs |-> FoundedOrg(o)]
    /\ role = [r \in Rows |-> FoundedRole(r)]
    /\ userRoles = [u \in Users |-> FoundedUserRoles(u)]
    /\ member = [o \in Orgs |-> [u \in Users |-> FoundedMember(o, u)]]
    /\ claims = [u \in Users |-> FoundedClaims(u)]
    /\ authority = "platform"
    /\ inv = [i \in Invites |-> NoRowYet]
    /\ spent = [i \in Invites |-> 0]
    /\ madeBy = NoInvite
    /\ policy = [o \in Orgs |-> NoPolicy]
    /\ ireq = [s \in InviteSlots |-> IdleInviteReq]
    /\ TeamsInit
    /\ account = IF focus \in {"orgs", "founding"} THEN "plain" ELSE "none"

\* One organisation, one other member, two kinds of role.
OneOrg ==
    /\ policy'[o2] = NoPolicy /\ member'[o2] = member[o2] /\ org'[o2] = org[o2]
    /\ \A i \in Invites : inv'[i] = NoRowYet \/ inv'[i].org = o1
    /\ member'[o1][alice] = FoundedMember(o1, alice) /\ userRoles'[alice] = {}
    /\ \A i \in Invites : inv'[i].names \subseteq {"n", "org_member"}
    /\ \A r \in Rows \ {r1, "org_member"} : r \notin member'[o1][bob].roles

InvitationsFocus ==
    LET rows == {i \in Invites : inv'[i] # NoRowYet}
        busy == {s \in InviteSlots : ireq'[s] # IdleInviteReq}
    IN \/ focus = "life" /\ InviteActions /\ Cardinality(busy) <= 1
       \/ focus = "overlap" /\ InviteActions /\ Cardinality(rows) <= 1
       \/ /\ focus = "both" /\ InvitationsNext
          /\ Cardinality(rows) <= 1 /\ UNCHANGED <<ireq, policy>>
          /\ Changes' - (IF member'[o1][bob] # NotMember THEN 1 ELSE 0) <= 1

Next ==
    /\ UNCHANGED focus
    /\ \/ /\ focus \in {"orgs", "founding"} /\ OrganizationsNext
          /\ Changes' <= IF Founded THEN MaxChanges ELSE MaxChanges + 2
          /\ UNCHANGED <<inviteVars, teamVars>>
       \/ InvitationsFocus /\ OneOrg /\ UNCHANGED teamVars
       \/ focus = "team" /\ SerialTeamsNext /\ UNCHANGED invitationVars

Spec == Init /\ [][Next]_vars

\* Teams alone, its requests overlapping.
RacingTeams == Init /\ [][TeamsNext /\ UNCHANGED <<invitationVars, focus>>]_vars

\* `authority` belongs to the step that was taken and guards nothing.
View == <<org, role, userRoles, member, claims, inviteVars, teamVars, focus>>

Symmetry == Permutations(Invites) \cup Permutations(InviteSlots) \cup Permutations(TeamSlots)
===========================================================================
