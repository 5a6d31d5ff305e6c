---------------------------- MODULE Federation ----------------------------
(***************************************************************************)
(* Which account a federated sign-in ends in: the global OAuth providers    *)
(* (app/api/routes_oauth.py), the OIDC and SAML identity providers of        *)
(* organisations (routes_sso.py, routes_saml.py, the services under them),   *)
(* and their configuration and enforcement.                                  *)
(*                                                                           *)
(* An account is named by its address.  A sign-in verifies its state, waits  *)
(* for the provider, looks the identity and the address up and only then     *)
(* writes, in one commit for the account and its link and another for the    *)
(* membership; nothing is locked, the unique keys of oauth_accounts and      *)
(* users.email decide races.  Keys, endpoints and certificates are left out: *)
(* what a provider attests is believed.                                      *)
(***************************************************************************)
CONSTANTS
    Emails,       \* addresses
    Subjects,     \* `sub` values of OAuth and OIDC providers
    SsoConfigs,   \* organization_sso_configs ids
    SamlConfigs,  \* organization_saml_configs ids
    Globals,      \* google, github, microsoft
    OrgOf,        \* organisation of each configuration
    DomainLists,  \* the addresses an allowed_domains list may cover
    Flows,        \* sign-ins that may overlap
    NoIdp,
    NoEmail

IdpConfigs == SsoConfigs \cup SamlConfigs
Idps == IdpConfigs \cup Globals

ASSUME FederationAssumption ==
    /\ SsoConfigs \cap SamlConfigs = {} /\ IdpConfigs \cap Globals = {}
    /\ DomainLists \subseteq SUBSET Emails
    /\ IdpConfigs \subseteq DOMAIN OrgOf
    /\ NoIdp \notin Idps /\ NoEmail \notin Emails \cup Subjects

VARIABLES
    config,     \* status, enforced, break-glass override, covered addresses
    person,     \* the users row of each address
    licensed,   \* addresses with a live licence
    links,      \* oauth_accounts
    joined,     \* organization_memberships, as (organisation, address)
    linkTokens, \* link-confirmation tokens that have not expired
    flow,       \* what each sign-in is doing
    last        \* the last completed sign-in (history)

fedVars == <<config, person, licensed, links, joined, linkTokens, flow, last>>

OrgsOf == {OrgOf[c] : c \in IdpConfigs}
Ids == Subjects \cup Emails
NoConfig == [status |-> "none", enforced |-> FALSE, override |-> FALSE, covers |-> {}]
IdleFlow == [pc |-> "idle", idp |-> NoIdp, sub |-> NoEmail, email |-> NoEmail, retried |-> FALSE]
Identity(idp, sub, email) == [idp |-> idp, sub |-> sub, user |-> email]
NoSignIn == Identity(NoIdp, NoEmail, NoEmail)
LinkRows == [idp : Idps, sub : Ids, user : Emails]

\* "open" may be linked without a password (_can_auto_link); "guarded" has
\* none either but is inactive, disabled on purpose or privileged.
PersonKinds == {"password", "open", "guarded"}

FederationTypeOK ==
    /\ config \in [IdpConfigs -> [status : {"none", "active", "disabled"}, enforced : BOOLEAN,
                                  override : BOOLEAN, covers : DomainLists \cup {{}}]]
    /\ person \in [Emails -> PersonKinds \cup {"none"}]
    /\ licensed \in SUBSET Emails
    /\ links \in SUBSET LinkRows
    /\ joined \in SUBSET (OrgsOf \X Emails)
    /\ linkTokens \in SUBSET LinkRows
    /\ flow \in [Flows -> [pc : {"idle", "started", "resolve", "create", "autolink", "join"},
                           idp : Idps \cup {NoIdp}, sub : Ids \cup {NoEmail},
                           email : Emails \cup {NoEmail}, retried : BOOLEAN]]
    /\ last \in LinkRows \cup {NoSignIn}

FederationInit ==
    /\ config = [c \in IdpConfigs |-> NoConfig]
    /\ person = [e \in Emails |-> "none"]
    /\ licensed = {}
    /\ links = {}
    /\ joined = {}
    /\ linkTokens = {}
    /\ flow = [f \in Flows |-> IdleFlow]
    /\ last = NoSignIn

---------------------------------------------------------------------------
(* Configuration, by organisation and platform administrators.             *)

ConfigActive(c) == config[c].status = "active"
SameSlot(c, d) == OrgOf[c] = OrgOf[d] /\ (c \in SsoConfigs <=> d \in SsoConfigs)

\* configure_sso and create_saml_config: organization_id is unique in each
\* table, which also settles two requests that both waited for discovery.
ConfigureIdp(c, D) ==
    /\ config[c] = NoConfig
    /\ \A d \in IdpConfigs : SameSlot(c, d) => config[d] = NoConfig
    /\ config' = [config EXCEPT ![c] = [NoConfig EXCEPT !.status = "active", !.covers = D]]
    /\ UNCHANGED <<person, licensed, links, joined, linkTokens, flow, last>>

\* update_sso_config can only activate; update_saml_config sets the status.
StatusSettable(c, status) == c \in SsoConfigs => status \in {config[c].status, "active"}

UpdateIdp(c, D, status) ==
    /\ config[c].status # "none"
    /\ StatusSettable(c, status)
    /\ config' = [config EXCEPT ![c].status = status, ![c].covers = D]
    /\ UNCHANGED <<person, licensed, links, joined, linkTokens, flow, last>>

\* has_completed_sso_login, has_completed_saml_login
LoginCompleted(c) == \E l \in links : l.idp = c

\* The foreign key of oauth_accounts keeps a configuration that has links.
DeleteIdp(c) ==
    /\ config[c].status # "none"
    /\ ~LoginCompleted(c)
    /\ config' = [config EXCEPT ![c] = NoConfig]
    /\ UNCHANGED <<person, licensed, links, joined, linkTokens, flow, last>>

\* set_enforced: on only after somebody signed in.
SetEnforced(c, on) ==
    /\ config[c].status # "none"
    /\ on /\ ~config[c].enforced => LoginCompleted(c)
    /\ config' = [config EXCEPT ![c].enforced = on]
    /\ UNCHANGED <<person, licensed, links, joined, linkTokens, flow, last>>

SetOverride(c, on) ==
    /\ config[c].status # "none"
    /\ config' = [config EXCEPT ![c].override = on]
    /\ UNCHANGED <<person, licensed, links, joined, linkTokens, flow, last>>

\* find_org_for_email / find_saml_org_for_email take the first row that covers
\* the address; which of several comes first is the row order.
Routes(C, e) == {c \in C : ConfigActive(c) /\ e \in config[c].covers}
Enforcing(c) == config[c].enforced /\ ~config[c].override
MayEnforce(e) == \E C \in {SsoConfigs, SamlConfigs} : \E c \in Routes(C, e) : Enforcing(c)
MayPass(e) == \A C \in {SsoConfigs, SamlConfigs} :
                 Routes(C, e) = {} \/ \E c \in Routes(C, e) : ~Enforcing(c)

---------------------------------------------------------------------------
(* A sign-in.                                                              *)

\* The state or RelayState is signed and names the configuration.
StartLogin(f, idp) ==
    /\ flow[f] = IdleFlow
    /\ idp \in IdpConfigs => ConfigActive(idp)
    /\ flow' = [flow EXCEPT ![f] = [IdleFlow EXCEPT !.pc = "started", !.idp = idp]]
    /\ UNCHANGED <<config, person, licensed, links, joined, linkTokens, last>>

\* The state is held against the configuration as it is now.
StateVerified(idp) == idp \in IdpConfigs => ConfigActive(idp)

\* What the provider says: a subject and an address; a SAML NameID is both.
Attests(idp, sub, e) == IF idp \in SamlConfigs THEN sub = e ELSE sub \in Subjects

\* The callback verifies the state, then waits for the provider.
Callback(f, sub, e) ==
    /\ flow[f].pc = "started"
    /\ StateVerified(flow[f].idp)
    /\ Attests(flow[f].idp, sub, e)
    /\ flow' = [flow EXCEPT ![f].pc = "resolve", ![f].sub = sub, ![f].email = e]
    /\ UNCHANGED <<config, person, licensed, links, joined, linkTokens, last>>

\* Mutant of LinkedTo: a forgotten scope: any configuration of the protocol
\* will do.
LinkedUnscoped(idp, sub) ==
    {l.user : l \in {k \in links : k.sub = sub /\ (k.idp \in SsoConfigs <=> idp \in SsoConfigs)}}

\* find_linked_user: scoped by configuration, if there is one.
LinkedTo(idp, sub) == {l.user : l \in {k \in links : k.idp = idp /\ k.sub = sub}}

EndsIn(f, step) == flow' = [flow EXCEPT ![f] = step]

\* a. The identity is linked: its account signs in.  The account is carried in
\* the flow's address from here on.
ResolveLinked(f) ==
    LET w == flow[f] IN
    /\ w.pc = "resolve"
    /\ w.idp \in Globals => MayPass(w.email)
    /\ \E u \in LinkedTo(w.idp, w.sub) :
          IF w.idp \in Globals
          THEN last' = Identity(w.idp, w.sub, u) /\ EndsIn(f, IdleFlow)
          ELSE EndsIn(f, [w EXCEPT !.pc = "join", !.email = u]) /\ UNCHANGED last
    /\ UNCHANGED <<config, person, licensed, links, joined, linkTokens>>

\* b. An account has the address: it is linked at once if it is open and the
\* provider global, and after its password was given otherwise.
ResolveByEmail(f) ==
    LET w == flow[f] IN
    /\ w.pc = "resolve"
    /\ w.idp \in Globals => MayPass(w.email)
    /\ LinkedTo(w.idp, w.sub) = {} /\ person[w.email] # "none"
    /\ IF w.idp \in Globals /\ person[w.email] = "open"
       THEN EndsIn(f, [w EXCEPT !.pc = "autolink"]) /\ UNCHANGED linkTokens
       ELSE /\ linkTokens' = linkTokens \cup {Identity(w.idp, w.sub, w.email)}
            /\ EndsIn(f, IdleFlow)
    /\ UNCHANGED <<config, person, licensed, links, joined, last>>

\* c. Neither: a new account, for a global provider only with a licence.
ResolveNew(f) ==
    LET w == flow[f] IN
    /\ w.pc = "resolve"
    /\ w.idp \in Globals => MayPass(w.email) /\ w.email \in licensed
    /\ LinkedTo(w.idp, w.sub) = {} /\ person[w.email] = "none"
    /\ EndsIn(f, [w EXCEPT !.pc = "create"])
    /\ UNCHANGED <<config, person, licensed, links, joined, linkTokens, last>>

\* The address is under an organisation's enforcement, or not approved.
ResolveRefused(f) ==
    LET w == flow[f] IN
    /\ w.pc = "resolve" /\ w.idp \in Globals
    /\ \/ MayEnforce(w.email)
       \/ LinkedTo(w.idp, w.sub) = {} /\ person[w.email] = "none" /\ w.email \notin licensed
    /\ EndsIn(f, IdleFlow)
    /\ UNCHANGED <<config, person, licensed, links, joined, linkTokens, last>>

\* The keys an insert meets: uq_oauth_provider_account and its SAML twin, which
\* a NULL configuration id takes out of force, and the configuration's row.
RowAccepted(idp, sub) ==
    idp \in IdpConfigs =>
        config[idp].status # "none" /\ ~ \E l \in links : l.idp = idp /\ l.sub = sub

\* create_user_with_oauth: account and link in one commit.  On a lost race
\* SAML runs its decision tree once more; the others fail.
CreateAccount(f) ==
    LET w == flow[f] IN
    /\ w.pc = "create"
    /\ IF person[w.email] = "none" /\ RowAccepted(w.idp, w.sub)
       THEN /\ person' = [person EXCEPT ![w.email] = "open"]
            /\ links' = links \cup {Identity(w.idp, w.sub, w.email)}
            /\ IF w.idp \in Globals
               THEN last' = Identity(w.idp, w.sub, w.email) /\ EndsIn(f, IdleFlow)
               ELSE EndsIn(f, [w EXCEPT !.pc = "join"]) /\ UNCHANGED last
       ELSE /\ EndsIn(f, IF w.idp \in SamlConfigs /\ ~w.retried
                         THEN [w EXCEPT !.pc = "resolve", !.retried = TRUE] ELSE IdleFlow)
            /\ UNCHANGED <<person, links, last>>
    /\ UNCHANGED <<config, licensed, joined, linkTokens>>

AutoLink(f) ==
    LET w == flow[f] IN
    /\ w.pc = "autolink"
    /\ links' = links \cup {Identity(w.idp, w.sub, w.email)}
    /\ last' = Identity(w.idp, w.sub, w.email)
    /\ EndsIn(f, IdleFlow)
    /\ UNCHANGED <<config, person, licensed, joined, linkTokens>>

\* Mutant of JoinOrganization: the configuration's id taken for the
\* organisation's.
JoinByConfigId(f) ==
    LET w == flow[f] IN
    /\ w.pc = "join"
    /\ joined' = joined \cup {<<w.idp, w.email>>}
    /\ last' = Identity(w.idp, w.sub, w.email)
    /\ EndsIn(f, IdleFlow)
    /\ UNCHANGED <<config, person, licensed, links, linkTokens>>

\* jit_provision_membership, a commit of its own, then the session.
JoinOrganization(f) ==
    LET w == flow[f] IN
    /\ w.pc = "join"
    /\ joined' = joined \cup {<<OrgOf[w.idp], w.email>>}
    /\ last' = Identity(w.idp, w.sub, w.email)
    /\ EndsIn(f, IdleFlow)
    /\ UNCHANGED <<config, person, licensed, links, linkTokens>>

\* POST /auth/link/confirm with the right password.  The token is no record:
\* it can be presented again until it expires.
LinkConfirm(f, t) ==
    /\ flow[f] = IdleFlow /\ t \in linkTokens
    /\ person[t.user] = "password"
    /\ RowAccepted(t.idp, t.sub)
    /\ links' = links \cup {t}
    /\ IF t.idp \in Globals
       THEN last' = t /\ UNCHANGED flow
       ELSE /\ EndsIn(f, [pc |-> "join", idp |-> t.idp, sub |-> t.sub, email |-> t.user,
                          retried |-> FALSE])
            /\ UNCHANGED last
    /\ UNCHANGED <<config, person, licensed, joined, linkTokens>>

LinkExpires(t) ==
    /\ t \in linkTokens
    /\ linkTokens' = linkTokens \ {t}
    /\ UNCHANGED <<config, person, licensed, links, joined, flow, last>>

\* The state expires, the provider refuses, a check fails or the worker dies.
FlowEnds(f) ==
    /\ flow[f] # IdleFlow
    /\ EndsIn(f, IdleFlow)
    /\ UNCHANGED <<config, person, licensed, links, joined, linkTokens, last>>

\* Registration, licence activation, password reset, role changes elsewhere.
AccountChanges(e, kind) ==
    /\ person[e] # kind
    /\ person' = [person EXCEPT ![e] = kind]
    /\ UNCHANGED <<config, licensed, links, joined, linkTokens, flow, last>>

LicenceChanges(e) ==
    /\ licensed' = (licensed \ {e}) \cup ({e} \ licensed)
    /\ UNCHANGED <<config, person, links, joined, linkTokens, flow, last>>

FederationNext ==
    \/ \E c \in IdpConfigs, D \in DomainLists : ConfigureIdp(c, D)
    \/ \E c \in IdpConfigs, D \in DomainLists, st \in {"active", "disabled"} : UpdateIdp(c, D, st)
    \/ \E c \in IdpConfigs : DeleteIdp(c)
    \/ \E c \in IdpConfigs, on \in BOOLEAN : SetEnforced(c, on) \/ SetOverride(c, on)
    \/ \E f \in Flows, i \in Idps : StartLogin(f, i)
    \/ \E f \in Flows, s \in Ids, e \in Emails : Callback(f, s, e)
    \/ \E f \in Flows : ResolveLinked(f) \/ ResolveByEmail(f) \/ ResolveNew(f) \/ ResolveRefused(f)
    \/ \E f \in Flows : CreateAccount(f) \/ AutoLink(f) \/ JoinOrganization(f)
    \/ \E f \in Flows, t \in linkTokens : LinkConfirm(f, t)
    \/ \E t \in linkTokens : LinkExpires(t)
    \/ \E f \in Flows : FlowEnds(f)
    \/ \E e \in Emails, kind \in PersonKinds : AccountChanges(e, kind)
    \/ \E e \in Emails : LicenceChanges(e)

FederationSpec == FederationInit /\ [][FederationNext]_fedVars

---------------------------------------------------------------------------
(* Properties.                                                             *)

\* A sign-in through an organisation's provider ends in the account that very
\* provider's subject is linked to, as a member of that organisation, and a
\* subject of a provider is linked to one account, however sign-ups, link
\* confirmations and configuration changes interleave.
TenantIsolation ==
    /\ last.idp \in IdpConfigs => last \in links /\ <<OrgOf[last.idp], last.user>> \in joined
    /\ \A k, l \in links : k.idp \in IdpConfigs /\ k.idp = l.idp /\ k.sub = l.sub => k.user = l.user
===========================================================================
