----------------------------- MODULE Licenses -----------------------------
(***************************************************************************)
(* Licence keys of one address: plaintext keys made by POST                 *)
(* /license/generate, digest-only keys issued by an administrator to an      *)
(* existing member (app/services/manual_license_service.py), their           *)
(* activation, renewal and revocation (app/services/license_service.py).     *)
(*                                                                           *)
(* Activation reads the row without a lock and commits twice: mark_used,     *)
(* then bind_machine_id on the row re-read.  The ORM writes the columns it   *)
(* assigned, with the values computed from what was read.  Manual issue,     *)
(* revoke and renew lock what they read, so each is one step after the       *)
(* unlocked lookup of the idempotency key.                                   *)
(***************************************************************************)
EXTENDS Integers, FiniteSets

CONSTANTS
    Licences,     \* identities of license_keys rows
    Activations,  \* slots for /license/validate and /license/pull-token
    Issuers,      \* slots for POST /platform/licenses
    Keys,         \* idempotency keys of one administrator
    Machines,
    NoMachine,
    NoLicence,
    MaxUses,      \* max_uses of a generated licence
    Validity,     \* validity_days, in ticks
    LicenceTime   \* bound on the clock

ASSUME LicensesAssumption ==
    /\ MaxUses \in Nat \ {0}
    /\ Validity \in Nat \ {0}
    /\ LicenceTime \in Nat
    /\ NoMachine \notin Machines
    /\ NoLicence \notin Licences

VARIABLES
    lic,        \* license_keys
    issued,     \* license_issuance_requests: key -> licence
    byKey,      \* licences ever issued under each key (history)
    account,    \* the users row of the address exists
    persona,    \* which of scientist / org_member the membership holds
    act,        \* what each activation is doing
    iss,        \* what each issuance is doing
    clock

licVars == <<lic, issued, byKey, account, persona, act, iss, clock>>

Horizon == 0..(LicenceTime + 2 * Validity)
Row == [kind : {"none", "plain", "digest"}, bound : BOOLEAN, usage : 0..(MaxUses + 1),
        machine : Machines \cup {NoMachine}, revoked : BOOLEAN, expires : Horizon]
NoRow == [kind |-> "none", bound |-> FALSE, usage |-> 0, machine |-> NoMachine,
          revoked |-> FALSE, expires |-> 0]
Personas == {"scientist", "org_member"}
IdleAct == [pc |-> "idle", lic |-> NoLicence, bound |-> FALSE, usage |-> 0,
            machine |-> NoMachine, account |-> FALSE]
IdleIssue == [pc |-> "idle", key |-> NoLicence, role |-> "org_member"]

LicensesTypeOK ==
    /\ lic \in [Licences -> Row]
    /\ issued \in [Keys -> Licences \cup {NoLicence}]
    /\ byKey \in [Keys -> SUBSET Licences]
    /\ account \in BOOLEAN
    /\ persona \in SUBSET Personas
    /\ act \in [Activations -> [pc : {"idle", "mark", "machine", "bind"},
                  lic : Licences \cup {NoLicence}, bound : BOOLEAN, usage : 0..MaxUses,
                  machine : Machines \cup {NoMachine}, account : BOOLEAN]]
    /\ iss \in [Issuers -> [pc : {"idle", "commit"}, key : Keys \cup {NoLicence},
                  role : Personas]]
    /\ clock \in 0..LicenceTime

LicensesInit ==
    /\ lic = [l \in Licences |-> NoRow]
    /\ issued = [k \in Keys |-> NoLicence]
    /\ byKey = [k \in Keys |-> {}]
    /\ account \in BOOLEAN
    /\ persona = {"org_member"}
    /\ act = [a \in Activations |-> IdleAct]
    /\ iss = [i \in Issuers |-> IdleIssue]
    /\ clock = 0

---------------------------------------------------------------------------
Expired(l) == lic[l].expires <= clock
Active(l) == lic[l].kind # "none" /\ ~lic[l].revoked /\ ~Expired(l)

\* create_license and create_manual_license
PlainRow == [NoRow EXCEPT !.kind = "plain", !.expires = clock + Validity]
ManualRow == [NoRow EXCEPT !.kind = "digest", !.bound = TRUE, !.expires = clock + Validity]

\* A plaintext key for the address, with or without an account.
GenerateLicence(l) ==
    /\ lic[l] = NoRow
    /\ lic' = [lic EXCEPT ![l] = PlainRow]
    /\ UNCHANGED <<issued, byKey, account, persona, act, iss, clock>>

\* validate_and_consume: the checks; only an unbound licence is held to max_uses.
Validates(l) ==
    /\ Active(l)
    /\ lic[l].bound \/ lic[l].usage < MaxUses

Seen(l, pc) == [pc |-> pc, lic |-> l, bound |-> lic[l].bound, usage |-> lic[l].usage,
                machine |-> lic[l].machine, account |-> account]

ValidateLicence(a, l) ==
    /\ act[a] = IdleAct /\ Validates(l)
    /\ act' = [act EXCEPT ![a] = Seen(l, "mark")]
    /\ UNCHANGED <<lic, issued, byKey, account, persona, iss, clock>>

\* POST /license/pull-token: no use is consumed, the machine is bound.
PullToken(a, l) ==
    /\ act[a] = IdleAct /\ Validates(l)
    /\ act' = [act EXCEPT ![a] = Seen(l, "bind")]
    /\ UNCHANGED <<lic, issued, byKey, account, persona, iss, clock>>

\* Mutant of MarkUsed: a use counted on the row as it is now, by every
\* activation that read it unbound.
MarkUsedAgain(a) ==
    LET s == act[a] IN
    /\ s.pc = "mark"
    /\ account' = TRUE
    /\ lic' = IF s.bound THEN lic ELSE [lic EXCEPT ![s.lic].usage = @ + 1, ![s.lic].bound = TRUE]
    /\ act' = [act EXCEPT ![a].pc = "machine"]
    /\ UNCHANGED <<issued, byKey, persona, iss, clock>>

\* get_or_create_user_for_email and mark_used in one commit; the account of the
\* address is unique, so a second creation fails and the request with it.
MarkUsed(a) ==
    LET s == act[a] IN
    /\ s.pc = "mark"
    /\ IF ~s.account /\ account
       THEN act' = [act EXCEPT ![a] = IdleAct] /\ UNCHANGED <<lic, account>>
       ELSE /\ account' = TRUE
            /\ lic' = IF s.bound THEN lic
                      ELSE [lic EXCEPT ![s.lic].usage = s.usage + 1, ![s.lic].bound = TRUE]
            /\ act' = [act EXCEPT ![a].pc = "machine"]
    /\ UNCHANGED <<issued, byKey, persona, iss, clock>>

\* The commit expired the row: bind_machine_id reads machine_id again.
ReadMachine(a) ==
    /\ act[a].pc = "machine"
    /\ act' = [act EXCEPT ![a].pc = "bind", ![a].machine = lic[act[a].lic].machine]
    /\ UNCHANGED <<lic, issued, byKey, account, persona, iss, clock>>

BindMachine(a, m) ==
    LET s == act[a] IN
    /\ s.pc = "bind"
    /\ lic' = IF s.machine = NoMachine THEN [lic EXCEPT ![s.lic].machine = m] ELSE lic
    /\ act' = [act EXCEPT ![a] = IdleAct]
    /\ UNCHANGED <<issued, byKey, account, persona, iss, clock>>

\* POST /license/revoke finds plaintext keys only; the platform route finds any.
RevokeLicence(l) ==
    /\ lic[l].kind # "none" /\ ~lic[l].revoked
    /\ lic' = [lic EXCEPT ![l].revoked = TRUE]
    /\ UNCHANGED <<issued, byKey, account, persona, act, iss, clock>>

RenewLicence(l) ==
    /\ lic[l].kind # "none" /\ ~lic[l].revoked
    /\ LET from == IF Expired(l) THEN clock ELSE lic[l].expires IN
       /\ from + Validity \in Horizon
       /\ lic' = [lic EXCEPT ![l].expires = from + Validity]
    /\ UNCHANGED <<issued, byKey, account, persona, act, iss, clock>>

---------------------------------------------------------------------------
(* POST /platform/licenses.                                                *)

\* The idempotency record is looked up first; if it is there the stored
\* licence is the answer and nothing changes.
IssueStart(i, k, role) ==
    /\ iss[i] = IdleIssue
    /\ issued[k] = NoLicence
    /\ iss' = [iss EXCEPT ![i] = [pc |-> "commit", key |-> k, role |-> role]]
    /\ UNCHANGED <<lic, issued, byKey, account, persona, act, clock>>

\* Locked: the owner, the membership, the active licences, which are replaced
\* when the administrator confirmed it.  uq_license_issue_actor_key refuses a
\* second record of the key: the route starts again and finds the first.
IssueCommit(i, l, confirmed) ==
    LET s == iss[i]
        replaced == {x \in Licences : Active(x) /\ lic[x].kind = "digest"}
        change == persona # {s.role}
    IN
    /\ s.pc = "commit" /\ lic[l] = NoRow
    /\ iss' = [iss EXCEPT ![i] = IdleIssue]
    /\ IF issued[s.key] = NoLicence /\ account /\ (confirmed \/ (replaced = {} /\ ~change))
       THEN /\ issued' = [issued EXCEPT ![s.key] = l]
            /\ byKey' = [byKey EXCEPT ![s.key] = @ \cup {l}]
            /\ persona' = {s.role}
            /\ lic' = [x \in Licences |->
                 IF x = l THEN ManualRow
                 ELSE IF x \in replaced THEN [lic[x] EXCEPT !.revoked = TRUE]
                 ELSE lic[x]]
       ELSE UNCHANGED <<issued, byKey, persona, lic>>
    /\ UNCHANGED <<account, act, clock>>

LicenceTick ==
    /\ clock < LicenceTime
    /\ clock' = clock + 1
    /\ UNCHANGED <<lic, issued, byKey, account, persona, act, iss>>

LicensesNext ==
    \/ \E l \in Licences : GenerateLicence(l) \/ RevokeLicence(l) \/ RenewLicence(l)
    \/ \E a \in Activations, l \in Licences : ValidateLicence(a, l) \/ PullToken(a, l)
    \/ \E a \in Activations : MarkUsed(a) \/ ReadMachine(a)
    \/ \E a \in Activations, m \in Machines : BindMachine(a, m)
    \/ \E i \in Issuers, k \in Keys, role \in Personas : IssueStart(i, k, role)
    \/ \E i \in Issuers, l \in Licences, yes \in BOOLEAN : IssueCommit(i, l, yes)
    \/ LicenceTick

LicensesSpec == LicensesInit /\ [][LicensesNext]_licVars

---------------------------------------------------------------------------
(* Properties.                                                             *)

\* usage_count never passes max_uses, although the check and the increment
\* are on a row read without a lock (every activation that read an unbound row
\* writes the same next value), and one idempotency key never issues two
\* licences, however its requests overlap.
UsesBounded ==
    /\ \A l \in Licences : lic[l].usage <= MaxUses
    /\ \A k \in Keys : Cardinality(byKey[k]) <= 1
===========================================================================
