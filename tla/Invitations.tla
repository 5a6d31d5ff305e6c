---------------------------- MODULE Invitations ----------------------------
(***************************************************************************)
(* Mailed invitations of one address to an organisation, and the MFA       *)
(* policy they meet (app/services/org_invitation_service.py, the invitation *)
(* routes, the organisation policy in app/services/mfa_service.py).         *)
(*                                                                          *)
(* An acceptance holds the lock of the invitation row from the check of its *)
(* status to its commit, so it is one step; three things are not: revoking  *)
(* and previewing read the row without a lock and write what they decided,  *)
(* and a sign-in code spent or refused by the anti-replay table ends the    *)
(* transaction, and the lock with it.  After a spent code the row is locked *)
(* again; after a refused one it is only read again.  The invitation keeps  *)
(* role names; the rows behind them are looked up when it is accepted.      *)
(***************************************************************************)
EXTENDS Organizations, Integers

CONSTANTS
    Invites,       \* identities of organization_invitations rows
    Invitee,       \* the user the invited address belongs or will belong to
    InviteSlots,   \* requests that may overlap
    NoInvite,
    MaxAttempts    \* ORG_INVITATION_MAX_ACCEPT_ATTEMPTS

ASSUME InvitationsAssumption ==
    /\ Invitee \in Users \ {Root}
    /\ NoInvite \notin Invites
    /\ MaxAttempts \in Nat \ {0}
    /\ IsFiniteSet(InviteSlots)

VARIABLES
    inv,        \* organization_invitations; `late` once expires_at has passed
    spent,      \* how often each was accepted (history)
    account,    \* the invitee's users row: "none", "plain" or "mfa"
    madeBy,     \* the invitation whose acceptance created the account (history)
    policy,     \* organization_mfa_policies
    ireq        \* what each request is doing

inviteVars == <<inv, spent, account, madeBy, policy, ireq>>
invitationVars == <<orgVars, inviteVars>>

NoRowYet == [status |-> "none", org |-> DefaultOrg, names |-> {}, byPlatform |-> FALSE,
             secret |-> FALSE, attempts |-> 0, late |-> FALSE]
NoPolicy == [set |-> FALSE, required |-> FALSE, override |-> FALSE]
IdleInviteReq == [pc |-> "idle", inv |-> NoInvite, attempts |-> 0, status |-> "none"]
InviteStatus == {"none", "pending", "accepted", "revoked", "expired"}

InvitationsTypeOK ==
    /\ OrganizationsTypeOK
    /\ inv \in [Invites -> [status : InviteStatus, org : Orgs,
                   names : SUBSET (Builtin \cup Bootstrap \cup NewNames),
                   byPlatform : BOOLEAN, secret : BOOLEAN, attempts : Nat, late : BOOLEAN]]
    /\ spent \in [Invites -> 0..2]
    /\ account \in {"none", "plain", "mfa"}
    /\ madeBy \in Invites \cup {NoInvite}
    /\ policy \in [Orgs -> [set : BOOLEAN, required : BOOLEAN, override : BOOLEAN]]
    /\ ireq \in [InviteSlots -> [pc : {"idle", "revoke", "expire", "claimed", "replayed", "recount"},
                                 inv : Invites \cup {NoInvite}, attempts : Nat, status : InviteStatus]]

InvitationsInit ==
    /\ OrganizationsInit
    /\ inv = [i \in Invites |-> NoRowYet]
    /\ spent = [i \in Invites |-> 0]
    /\ account \in {"none", "plain"}
    /\ madeBy = NoInvite
    /\ policy = [o \in Orgs |-> NoPolicy]
    /\ ireq = [s \in InviteSlots |-> IdleInviteReq]

---------------------------------------------------------------------------
\* _pending: the status, the expiry and the organisation.
Pending(i) == inv[i].status = "pending"
Open(i) == Pending(i) /\ ~inv[i].late /\ org[inv[i].org] = "active"

\* _policy_requires_mfa
RequiresMfa(o) == policy[o].required /\ ~policy[o].override

\* The rows the stored names stand for now.
Named(names, o) == {R \in SUBSET Visible(o) : DistinctNames(R) /\ {role[r].name : r \in R} = names}

Closed(i, status) == [inv EXCEPT ![i].status = status]

\* Mutant of CountFailure: the limit forgotten.
CountOnly(i, seen) == [inv EXCEPT ![i].attempts = seen.attempts + 1]

\* A wrong code counts against the invitation, as the request has read it, and
\* closes it at the limit; a column that keeps the value read is not written.
CountFailure(i, seen) ==
    [inv EXCEPT ![i].attempts = seen.attempts + 1,
                ![i].status = IF seen.attempts + 1 >= MaxAttempts /\ seen.status # "revoked"
                              THEN "revoked" ELSE @]

---------------------------------------------------------------------------
(* The organisation's side.                                                *)

MayInvite(u, o) ==
    /\ ManagesOrg(u, o)
    /\ account # "none" => member[o][Invitee].status # "active"

\* The base role is created, where it is missing, before the roles are resolved.
KnownRoles(R) == IF role["org_member"] = NoRole THEN R \ {"org_member"} ELSE R

\* create_invitation: the pending row of the address is locked, and unique by
\* active_key; a mail that cannot be sent rolls everything back.
CreateInvitation(u, o, R, i) ==
    /\ MayInvite(u, o)
    /\ inv[i] = NoRowYet
    /\ R # {} /\ Assignable(KnownRoles(R), o, PlatformAdmin(u))
    /\ \A j \in Invites : Pending(j) /\ inv[j].org = o => inv[j].late
    /\ role' = WithRole("org_member", {})
    /\ inv' = [j \in Invites |->
                 IF j = i THEN [NoRowYet EXCEPT !.status = "pending", !.org = o,
                                  !.names = {role'[r].name : r \in R},
                                  !.byPlatform = PlatformAdmin(u)]
                 ELSE IF Pending(j) /\ inv[j].org = o THEN [inv[j] EXCEPT !.status = "expired"]
                 ELSE inv[j]]
    /\ By(u)
    /\ UNCHANGED <<org, userRoles, member, claims, spent, account, madeBy, policy, ireq>>

\* A role with a GLOBAL permission was asked for: the audited refusal commits,
\* and the base role with it.
CreateInvitationRefused(u, o, R) ==
    /\ MayInvite(u, o) /\ ~PlatformAdmin(u)
    /\ \E r \in R \cap Visible(o) : role[r].perms \cap GlobalPermissions # {}
    /\ role' = WithRole("org_member", {})
    /\ By(u)
    /\ UNCHANGED <<org, userRoles, member, claims, inviteVars>>

\* list_invitations expires, under lock, what is late.
ListInvitations(u, o) ==
    /\ ManagesOrg(u, o)
    /\ \E i \in Invites : Pending(i) /\ inv[i].org = o /\ inv[i].late
    /\ inv' = [i \in Invites |-> IF Pending(i) /\ inv[i].org = o /\ inv[i].late
                                 THEN [inv[i] EXCEPT !.status = "expired"] ELSE inv[i]]
    /\ By(u)
    /\ UNCHANGED <<org, role, userRoles, member, claims, spent, account, madeBy, policy, ireq>>

\* The route reads the row without a lock, revoke_invitation checks and writes.
RevokeRead(s, u, i) ==
    /\ ireq[s] = IdleInviteReq
    /\ Pending(i) /\ ManagesOrg(u, inv[i].org)
    /\ ireq' = [ireq EXCEPT ![s] = [IdleInviteReq EXCEPT !.pc = "revoke", !.inv = i]]
    /\ By(u)
    /\ UNCHANGED <<org, role, userRoles, member, claims, inv, spent, account, madeBy, policy>>

\* preview_invitation of a late row, and the other callers of _pending
\* without a lock.
PreviewRead(s, i) ==
    /\ ireq[s] = IdleInviteReq
    /\ Pending(i) /\ inv[i].late
    /\ ireq' = [ireq EXCEPT ![s] = [IdleInviteReq EXCEPT !.pc = "expire", !.inv = i]]
    /\ authority' = "tenant"
    /\ UNCHANGED <<org, role, userRoles, member, claims, inv, spent, account, madeBy, policy>>

CloseCommit(s) ==
    /\ ireq[s].pc \in {"revoke", "expire"}
    /\ inv' = Closed(ireq[s].inv, IF ireq[s].pc = "revoke" THEN "revoked" ELSE "expired")
    /\ ireq' = [ireq EXCEPT ![s] = IdleInviteReq]
    /\ authority' = "tenant"
    /\ UNCHANGED <<org, role, userRoles, member, claims, spent, account, madeBy, policy>>

\* POST and PATCH /orgs/{o}/mfa-policy, and the platform's override.
SetMfaPolicy(u, o, required) ==
    /\ HasOrgPermission(u, o, "manage_sso")
    /\ policy' = [policy EXCEPT ![o].set = TRUE, ![o].required = required]
    /\ By(u)
    /\ UNCHANGED <<org, role, userRoles, member, claims, inv, spent, account, madeBy, ireq>>

SetMfaOverride(u, o, on) ==
    /\ PlatformAdmin(u) /\ policy[o].set
    /\ policy' = [policy EXCEPT ![o].override = on]
    /\ By(u)
    /\ UNCHANGED <<org, role, userRoles, member, claims, inv, spent, account, madeBy, ireq>>

---------------------------------------------------------------------------
(* The invitee's side.                                                     *)

\* start_invitation_mfa, under the lock.
StartInvitationMfa(i) ==
    /\ Open(i) /\ RequiresMfa(inv[i].org) /\ ~inv[i].secret
    /\ inv' = [inv EXCEPT ![i].secret = TRUE]
    /\ authority' = "tenant"
    /\ UNCHANGED <<org, role, userRoles, member, claims, spent, account, madeBy, policy, ireq>>

\* The right a grant is made by is the inviter's, as it was recorded.
ByInviter(i) == authority' = IF inv[i].byPlatform THEN "platform" ELSE "tenant"

\* Mutant of Activate: the stored names taken for the roles they name.
ActivateByName(i, R) ==
    LET o == inv[i].org IN
    /\ member[o][Invitee].status # "active"
    /\ R \in Named(inv[i].names, o) /\ Assignable(R, o, inv[i].byPlatform)
    /\ member' = [member EXCEPT ![o][Invitee] = [status |-> "active", roles |-> inv[i].names]]
    /\ inv' = [inv EXCEPT ![i].status = "accepted", ![i].secret = FALSE]
    /\ spent' = [spent EXCEPT ![i] = @ + 1]
    /\ ByInviter(i)

\* _activate_invitation: an active member is refused; the roles are resolved
\* again with the inviter's standing.
Activate(i, R) ==
    LET o == inv[i].org IN
    /\ member[o][Invitee].status # "active"
    /\ R \in Named(inv[i].names, o) /\ Assignable(R, o, inv[i].byPlatform)
    /\ member' = [member EXCEPT ![o][Invitee] = [status |-> "active", roles |-> R]]
    /\ inv' = [inv EXCEPT ![i].status = "accepted", ![i].secret = FALSE]
    /\ spent' = [spent EXCEPT ![i] = @ + 1]
    /\ ByInviter(i)

\* accept_new_user: one transaction under the lock.
CodeAccepted(i) == RequiresMfa(inv[i].org) => inv[i].secret

AcceptNewUser(i, R) ==
    /\ Open(i) /\ account = "none"
    /\ CodeAccepted(i)
    /\ account' = IF RequiresMfa(inv[i].org) THEN "mfa" ELSE "plain"
    /\ madeBy' = i
    /\ Activate(i, R)
    /\ UNCHANGED <<org, role, userRoles, claims, policy, ireq>>

\* A role of the invitation has gained a GLOBAL permission: the refusal is
\* audited with a commit of its own, which carries the new account with it.
AcceptNewUserRefused(i) ==
    /\ Open(i) /\ account = "none"
    /\ CodeAccepted(i)
    /\ ~inv[i].byPlatform
    /\ \E r \in Visible(inv[i].org) :
          role[r].name \in inv[i].names /\ role[r].perms \cap GlobalPermissions # {}
    /\ account' = IF RequiresMfa(inv[i].org) THEN "mfa" ELSE "plain"
    /\ madeBy' = i
    /\ authority' = "tenant"
    /\ UNCHANGED <<org, role, userRoles, member, claims, inv, spent, policy, ireq>>

\* A wrong code, of a new or of an enrolled user: counted under the lock.
AcceptWrongCode(i) ==
    /\ Open(i) /\ RequiresMfa(inv[i].org)
    /\ IF account = "none" THEN inv[i].secret ELSE account = "mfa"
    /\ inv' = CountFailure(i, inv[i])
    /\ authority' = "tenant"
    /\ UNCHANGED <<org, role, userRoles, member, claims, spent, account, madeBy, policy, ireq>>

\* accept_existing_user without a policy: one transaction.
AcceptExistingUser(i, R) ==
    /\ Open(i) /\ account # "none" /\ ~RequiresMfa(inv[i].org)
    /\ Activate(i, R)
    /\ UNCHANGED <<org, role, userRoles, claims, account, madeBy, policy, ireq>>

\* With a policy the code is claimed first: a claim commits, a replayed step
\* rolls back, and either releases the lock.
AcceptStepUp(s, i, outcome) ==
    /\ ireq[s] = IdleInviteReq
    /\ Open(i) /\ account = "mfa" /\ RequiresMfa(inv[i].org)
    /\ ireq' = [ireq EXCEPT ![s] = [IdleInviteReq EXCEPT !.pc = outcome, !.inv = i]]
    /\ authority' = "tenant"
    /\ UNCHANGED <<org, role, userRoles, member, claims, inv, spent, account, madeBy, policy>>

\* Mutant of AcceptAfterStepUp: the check before the step-up relied on.
AcceptUnchecked(s, R) ==
    /\ ireq[s].pc = "claimed"
    /\ Activate(ireq[s].inv, R)
    /\ ireq' = [ireq EXCEPT ![s] = IdleInviteReq]
    /\ UNCHANGED <<org, role, userRoles, claims, account, madeBy, policy>>

\* The row is locked and checked again.
AcceptAfterStepUp(s, R) ==
    /\ ireq[s].pc = "claimed" /\ Open(ireq[s].inv)
    /\ Activate(ireq[s].inv, R)
    /\ ireq' = [ireq EXCEPT ![s] = IdleInviteReq]
    /\ UNCHANGED <<org, role, userRoles, claims, account, madeBy, policy>>

\* The rollback expired the row: `mfa_attempts += 1` loads it again, without a
\* lock and whatever has become of it.
AcceptReload(s) ==
    LET row == inv[ireq[s].inv] IN
    /\ ireq[s].pc = "replayed"
    /\ ireq' = [ireq EXCEPT ![s].pc = "recount", ![s].attempts = row.attempts,
                            ![s].status = row.status]
    /\ authority' = "tenant"
    /\ UNCHANGED <<org, role, userRoles, member, claims, inv, spent, account, madeBy, policy>>

AcceptReplayed(s) ==
    /\ ireq[s].pc = "recount"
    /\ inv' = CountFailure(ireq[s].inv, ireq[s])
    /\ ireq' = [ireq EXCEPT ![s] = IdleInviteReq]
    /\ authority' = "tenant"
    /\ UNCHANGED <<org, role, userRoles, member, claims, spent, account, madeBy, policy>>

\* The second check refused the acceptance, or the request died.
AcceptAbandoned(s) ==
    /\ ireq[s].pc \in {"claimed", "replayed", "recount"}
    /\ ireq' = [ireq EXCEPT ![s] = IdleInviteReq]
    /\ authority' = "tenant"
    /\ UNCHANGED <<org, role, userRoles, member, claims, inv, spent, account, madeBy, policy>>

---------------------------------------------------------------------------
(* Around it: time passes, the invitee registers or enrols on his own.      *)

InvitationLapses(i) ==
    /\ Pending(i) /\ ~inv[i].late
    /\ inv' = [inv EXCEPT ![i].late = TRUE]
    /\ authority' = "tenant"
    /\ UNCHANGED <<org, role, userRoles, member, claims, spent, account, madeBy, policy, ireq>>

InviteeEnrols ==
    /\ account' = IF account = "none" THEN "plain" ELSE "mfa"
    /\ account # "mfa"
    /\ authority' = "tenant"
    /\ UNCHANGED <<org, role, userRoles, member, claims, inv, spent, madeBy, policy, ireq>>

InviteActions ==
    \/ \E u \in Users, o \in Orgs, R \in RoleSets, i \in Invites : CreateInvitation(u, o, R, i)
    \/ \E u \in Users, o \in Orgs, R \in RoleSets : CreateInvitationRefused(u, o, R)
    \/ \E u \in Users, o \in Orgs : ListInvitations(u, o)
    \/ \E s \in InviteSlots, u \in Users, i \in Invites : RevokeRead(s, u, i)
    \/ \E s \in InviteSlots, i \in Invites : PreviewRead(s, i)
    \/ \E s \in InviteSlots : CloseCommit(s)
    \/ \E u \in Users, o \in Orgs, on \in BOOLEAN : SetMfaPolicy(u, o, on) \/ SetMfaOverride(u, o, on)
    \/ \E i \in Invites : StartInvitationMfa(i) \/ AcceptWrongCode(i) \/ InvitationLapses(i)
    \/ \E i \in Invites : AcceptNewUserRefused(i)
    \/ \E i \in Invites, R \in RoleSets : AcceptNewUser(i, R) \/ AcceptExistingUser(i, R)
    \/ \E s \in InviteSlots, i \in Invites, how \in {"claimed", "replayed"} : AcceptStepUp(s, i, how)
    \/ \E s \in InviteSlots, R \in RoleSets : AcceptAfterStepUp(s, R)
    \/ \E s \in InviteSlots : AcceptReload(s) \/ AcceptReplayed(s) \/ AcceptAbandoned(s)
    \/ InviteeEnrols

\* An address without an account signs in nowhere and is given nothing.
InviteeAbsent ==
    /\ userRoles'[Invitee] = userRoles[Invitee] /\ claims'[Invitee] = claims[Invitee]
    /\ \A o \in Orgs : member'[o][Invitee] = member[o][Invitee]

InvitationsNext ==
    \/ InviteActions
    \/ OrganizationsNext /\ (account = "none" => InviteeAbsent) /\ UNCHANGED inviteVars

InvitationsSpec == InvitationsInit /\ [][InvitationsNext]_invitationVars

---------------------------------------------------------------------------
(* Properties.                                                             *)

\* An invitation makes a member once, and only while it is pending: not after
\* it was revoked, expired or accepted, although a step-up gives its lock up
\* half-way and a revocation takes none.  At most one is pending for the
\* address in an organisation.
InvitationSpentOnce ==
    [][/\ \A i \in Invites : spent'[i] # spent[i] => spent[i] = 0 /\ inv[i].status = "pending"
       /\ \A i, j \in Invites :
            inv'[i].status = "pending" /\ inv'[j].status = "pending" /\ inv'[i].org = inv'[j].org
            => i = j]_invitationVars

\* The counter of wrong codes is written from a row that was read without a lock
\* after a replayed code, and may run past the limit or fall back.  Still no
\* invitation stays open at its limit, and the counter is never further past it
\* than the requests that overlapped.
AttemptsLimited ==
    \A i \in Invites : /\ Pending(i) => inv[i].attempts < MaxAttempts
                       /\ inv[i].attempts <= MaxAttempts + Cardinality(InviteSlots)

\* "Account creation, role assignment, membership activation, optional TOTP
\* enrollment, invitation consumption, and their audit events share one
\* transaction" (module docstring): an account an acceptance made comes with
\* the invitation consumed.
AcceptanceIsAtomic == madeBy # NoInvite => spent[madeBy] = 1
===========================================================================
