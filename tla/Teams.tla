------------------------------ MODULE Teams ------------------------------
(***************************************************************************)
(* One team of an organisation and its members (app/services/team_service.py,*)
(* app/api/routes_teams.py, require_team_manage_permission in app/rbac.py).  *)
(*                                                                           *)
(* A request that demotes or removes a member counts the administrators and  *)
(* commits later; nothing locks the rows it counted.  Organisation members   *)
(* are never removed by this service, so they are a constant.                *)
(***************************************************************************)
EXTENDS Integers, FiniteSets

CONSTANTS
    People,       \* users of the organisation
    Managers,     \* those whose organisation role grants manage_teams
    TeamSlots,    \* requests on members that may overlap
    Nobody

ASSUME TeamsAssumption == Managers \subseteq People /\ Nobody \notin People

VARIABLES
    team,      \* the teams row exists
    roster,    \* team_memberships.role, or "none"
    bulk,      \* the last step replaced the whole roster (history)
    treq       \* what each request is doing

teamVars == <<team, roster, bulk, treq>>

TeamRoles == {"admin", "member", "viewer"}
IdleRequest == [pc |-> "idle", target |-> Nobody, role |-> "none", seen |-> "none"]

TeamsTypeOK ==
    /\ team \in BOOLEAN
    /\ roster \in [People -> TeamRoles \cup {"none"}]
    /\ bulk \in BOOLEAN
    /\ treq \in [TeamSlots -> [pc : {"idle", "commit"}, target : People \cup {Nobody},
                   role : TeamRoles \cup {"none"}, seen : TeamRoles \cup {"none"}]]

TeamsInit ==
    /\ team = FALSE
    /\ roster = [u \in People |-> "none"]
    /\ bulk = FALSE
    /\ treq = [s \in TeamSlots |-> IdleRequest]

---------------------------------------------------------------------------
Admins == {u \in People : roster[u] = "admin"}

\* The effective role is read afresh: the manage_teams permission, or an admin
\* row of this team.
MayManage(u) == team /\ (u \in Managers \/ roster[u] = "admin")

\* Mutant of IsLastAdmin: off by one.
IsOnlyAdmin(u) == roster[u] = "admin" /\ Cardinality(Admins) < 1

\* _is_last_admin
IsLastAdmin(u) == roster[u] = "admin" /\ Cardinality(Admins) <= 1

CreateTeam(u) ==
    /\ u \in Managers /\ ~team
    /\ team' = TRUE
    /\ bulk' = FALSE
    /\ UNCHANGED <<roster, treq>>

DeleteTeam(u) ==
    /\ u \in Managers /\ team
    /\ team' = FALSE
    /\ roster' = [v \in People |-> "none"]
    /\ bulk' = FALSE
    /\ UNCHANGED treq

\* invite_to_team leaves an existing member's role alone.
InviteToTeam(u, v, role) ==
    /\ MayManage(u)
    /\ roster[v] = "none"
    /\ roster' = [roster EXCEPT ![v] = role]
    /\ bulk' = FALSE
    /\ UNCHANGED <<team, treq>>

\* PUT /members: rows that stay keep their role, new ones are plain members.
SetTeamMembers(u, S) ==
    /\ u \in Managers /\ team
    /\ roster' = [v \in People |->
                    IF v \notin S THEN "none"
                    ELSE IF roster[v] = "none" THEN "member" ELSE roster[v]]
    /\ bulk' = TRUE
    /\ UNCHANGED <<team, treq>>

---------------------------------------------------------------------------
(* set_member_role, remove_member and leave_team: role is what the target   *)
(* is to have, "none" for a removal.                                       *)
StartChange(s, u, v, role) ==
    /\ treq[s] = IdleRequest
    /\ MayManage(u) \/ (u = v /\ role = "none" /\ team)
    /\ roster[v] # "none"
    /\ role # "admin" => ~IsLastAdmin(v)
    /\ treq' = [treq EXCEPT ![s] = [pc |-> "commit", target |-> v, role |-> role,
                                    seen |-> roster[v]]]
    /\ bulk' = FALSE
    /\ UNCHANGED <<team, roster>>

\* The commit; a row that is gone fails it (no row matched).
CommitChange(s) ==
    LET r == treq[s] IN
    /\ r.pc = "commit"
    /\ roster' = IF roster[r.target] = "none" \/ r.role = r.seen THEN roster
                 ELSE [roster EXCEPT ![r.target] = r.role]
    /\ treq' = [treq EXCEPT ![s] = IdleRequest]
    /\ bulk' = FALSE
    /\ UNCHANGED team

TeamsNext ==
    \/ \E u \in People : CreateTeam(u) \/ DeleteTeam(u)
    \/ \E u, v \in People, role \in TeamRoles : InviteToTeam(u, v, role)
    \/ \E u \in People, S \in SUBSET People : SetTeamMembers(u, S)
    \/ \E s \in TeamSlots, u, v \in People, role \in TeamRoles \cup {"none"} :
            StartChange(s, u, v, role)
    \/ \E s \in TeamSlots : CommitChange(s)

TeamsSpec == TeamsInit /\ [][TeamsNext]_teamVars

\* Requests that do not overlap: what has counted commits before anything else.
SerialTeamsNext ==
    TeamsNext /\ \A s \in TeamSlots : treq[s] # IdleRequest => treq'[s] = IdleRequest

SerialTeamsSpec == TeamsInit /\ [][SerialTeamsNext]_teamVars

---------------------------------------------------------------------------
\* A team that has an administrator keeps one: only deleting the team or
\* replacing its whole roster may take the last one away.
LastAdminKept ==
    [][Admins # {} => Admins' # {} \/ ~team' \/ bulk']_teamVars
===========================================================================
