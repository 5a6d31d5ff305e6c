--------------------------- MODULE SignOnProofs ---------------------------
(***************************************************************************)
(* Proofs about single sign-on: which account a federated sign-in ends in    *)
(* (Federation) and how often a SAML message counts (SamlMessages), for      *)
(* every number of accounts, providers, organisations, sign-ins and          *)
(* messages, and every lifetime.                                             *)
(***************************************************************************)
EXTENDS Federation, SamlMessages, TLAPS

---------------------------------------------------------------------------
(* Federated sign-in                                                       *)

ConfigRow == [status : {"none", "active", "disabled"}, enforced : BOOLEAN,
              override : BOOLEAN, covers : DomainLists \cup {{}}]
FlowRow == [pc : {"idle", "started", "resolve", "create", "autolink", "join"},
            idp : Idps \cup {NoIdp}, sub : Ids \cup {NoEmail},
            email : Emails \cup {NoEmail}, retried : BOOLEAN]

\* What a sign-in carries from step to step: a provider; after the callback a
\* subject and an address; a global provider where an account is linked at once;
\* before the membership the link that the provider's subject has.
Carries(w) ==
    /\ w.pc # "idle" => w.idp \in Idps
    /\ w.pc \notin {"idle", "started"} => w.sub \in Ids /\ w.email \in Emails
    /\ w.pc = "autolink" => w.idp \in Globals
    /\ w.pc = "join" => w.idp \in IdpConfigs

FlowsSound ==
    \A f \in Flows : /\ Carries(flow[f])
                     /\ flow[f].pc = "join" =>
                           Identity(flow[f].idp, flow[f].sub, flow[f].email) \in links

\* The unique keys of oauth_accounts, which a NULL configuration id is out of.
LinksUnique ==
    \A k, l \in links : k.idp \in IdpConfigs /\ k.idp = l.idp /\ k.sub = l.sub => k = l

LastSound == last.idp \in IdpConfigs => last \in links /\ <<OrgOf[last.idp], last.user>> \in joined

FederationInv == FederationTypeOK /\ FlowsSound /\ LinksUnique /\ LastSound

LEMMA FederationTypes ==
    FederationTypeOK <=>
        /\ config \in [IdpConfigs -> ConfigRow] /\ person \in [Emails -> PersonKinds \cup {"none"}]
        /\ licensed \in SUBSET Emails /\ links \in SUBSET LinkRows
        /\ joined \in SUBSET (OrgsOf \X Emails) /\ linkTokens \in SUBSET LinkRows
        /\ flow \in [Flows -> FlowRow] /\ last \in LinkRows \cup {NoSignIn}
BY DEF FederationTypeOK, ConfigRow, FlowRow

LEMMA FederationTypesNext ==
    FederationTypeOK' <=>
        /\ config' \in [IdpConfigs -> ConfigRow] /\ person' \in [Emails -> PersonKinds \cup {"none"}]
        /\ licensed' \in SUBSET Emails /\ links' \in SUBSET LinkRows
        /\ joined' \in SUBSET (OrgsOf \X Emails) /\ linkTokens' \in SUBSET LinkRows
        /\ flow' \in [Flows -> FlowRow] /\ last' \in LinkRows \cup {NoSignIn}
BY DEF FederationTypeOK, ConfigRow, FlowRow

LEMMA IdleSignIn ==
    /\ IdleFlow \in FlowRow /\ IdleFlow.pc = "idle" /\ Carries(IdleFlow)
    /\ NoConfig \in ConfigRow
    /\ NoSignIn.idp \notin IdpConfigs
BY FederationAssumption
DEF IdleFlow, FlowRow, Carries, NoConfig, ConfigRow, NoSignIn, Identity, Idps

LEMMA Identities ==
    /\ \A i \in Idps, s \in Ids, e \in Emails :
          /\ Identity(i, s, e) \in LinkRows
          /\ Identity(i, s, e).idp = i /\ Identity(i, s, e).sub = s /\ Identity(i, s, e).user = e
    /\ \A k \in LinkRows : k = Identity(k.idp, k.sub, k.user) /\ k.idp \in Idps
                           /\ k.sub \in Ids /\ k.user \in Emails
BY DEF Identity, LinkRows

LEMMA FederationInvInit == FederationInit => FederationInv
<1> SUFFICES ASSUME FederationInit PROVE FederationInv
  OBVIOUS
<1>1. FederationTypeOK
  BY IdleSignIn, FederationTypes DEF FederationInit
<1>2. FlowsSound /\ LinksUnique /\ LastSound
  BY IdleSignIn DEF FederationInit, FlowsSound, LinksUnique, LastSound
<1> QED
  BY <1>1, <1>2 DEF FederationInv

\* Configurations, accounts and tokens change around the sign-ins.
LEMMA AroundKeepsInv ==
    ASSUME FederationInv, config' \in [IdpConfigs -> ConfigRow],
           person' \in [Emails -> PersonKinds \cup {"none"}],
           licensed' \in SUBSET Emails, linkTokens' \in SUBSET LinkRows,
           UNCHANGED <<links, joined, flow, last>>
    PROVE  FederationInv'
<1>1. FederationTypeOK'
  BY FederationTypes, FederationTypesNext DEF FederationInv
<1>2. FlowsSound' /\ LinksUnique' /\ LastSound'
  BY DEF FederationInv, FlowsSound, LinksUnique, LastSound
<1> QED
  BY <1>1, <1>2 DEF FederationInv

LEMMA ConfigurationKeepsInv ==
    ASSUME FederationInv
    PROVE  \/ \E c \in IdpConfigs, D \in DomainLists : ConfigureIdp(c, D)
           \/ \E c \in IdpConfigs, D \in DomainLists, st \in {"active", "disabled"} : UpdateIdp(c, D, st)
           \/ \E c \in IdpConfigs : DeleteIdp(c)
           \/ \E c \in IdpConfigs, on \in BOOLEAN : SetEnforced(c, on) \/ SetOverride(c, on)
           \/ \E t \in linkTokens : LinkExpires(t)
           \/ \E e \in Emails, kind \in PersonKinds : AccountChanges(e, kind)
           \/ \E e \in Emails : LicenceChanges(e)
           => FederationInv'
<1>t. /\ config \in [IdpConfigs -> ConfigRow] /\ person \in [Emails -> PersonKinds \cup {"none"}]
      /\ licensed \in SUBSET Emails /\ linkTokens \in SUBSET LinkRows
  BY FederationTypes DEF FederationInv
<1>0. ASSUME NEW c \in IdpConfigs, NEW row \in ConfigRow, config' = [config EXCEPT ![c] = row],
             UNCHANGED <<person, licensed, links, joined, linkTokens, flow, last>>
      PROVE  FederationInv'
  BY <1>t, <1>0, AroundKeepsInv
<1>1. ASSUME NEW c \in IdpConfigs, NEW D \in DomainLists, ConfigureIdp(c, D) PROVE FederationInv'
  <2> DEFINE row == [NoConfig EXCEPT !.status = "active", !.covers = D]
  <2>1. row \in ConfigRow
    BY IdleSignIn DEF ConfigRow
  <2>2. /\ config' = [config EXCEPT ![c] = row]
        /\ UNCHANGED <<person, licensed, links, joined, linkTokens, flow, last>>
    BY <1>1 DEF ConfigureIdp
  <2> HIDE DEF row
  <2> QED
    BY <1>0, <2>1, <2>2
<1>2. ASSUME NEW c \in IdpConfigs, NEW D \in DomainLists, NEW st \in {"active", "disabled"},
             UpdateIdp(c, D, st)
      PROVE  FederationInv'
  <2> DEFINE row == [config[c] EXCEPT !.status = st, !.covers = D]
  <2>1. config[c] \in ConfigRow
    BY <1>t
  <2>2. row \in ConfigRow
    BY <2>1 DEF ConfigRow
  <2>3. /\ config' = [config EXCEPT ![c] = row]
        /\ UNCHANGED <<person, licensed, links, joined, linkTokens, flow, last>>
    BY <1>t, <1>2 DEF UpdateIdp
  <2> HIDE DEF row
  <2> QED
    BY <1>0, <2>2, <2>3
<1>3. ASSUME NEW c \in IdpConfigs, DeleteIdp(c) PROVE FederationInv'
  BY <1>0, <1>3, IdleSignIn DEF DeleteIdp
<1>4. ASSUME NEW c \in IdpConfigs, NEW on \in BOOLEAN, SetEnforced(c, on) \/ SetOverride(c, on)
      PROVE  FederationInv'
  <2> DEFINE held == [config[c] EXCEPT !.enforced = on]
             broken == [config[c] EXCEPT !.override = on]
  <2>1. config[c] \in ConfigRow
    BY <1>t
  <2>2. held \in ConfigRow /\ broken \in ConfigRow
    BY <2>1 DEF ConfigRow
  <2>3. /\ config' = [config EXCEPT ![c] = held] \/ config' = [config EXCEPT ![c] = broken]
        /\ UNCHANGED <<person, licensed, links, joined, linkTokens, flow, last>>
    BY <1>t, <1>4 DEF SetEnforced, SetOverride
  <2> HIDE DEF held, broken
  <2> QED
    BY <1>0, <2>2, <2>3
<1>5. ASSUME NEW t \in linkTokens, LinkExpires(t) PROVE FederationInv'
  <2>1. /\ linkTokens' \in SUBSET LinkRows
        /\ UNCHANGED <<config, person, licensed, links, joined, flow, last>>
    BY <1>t, <1>5 DEF LinkExpires
  <2> QED
    BY <1>t, <2>1, AroundKeepsInv
<1>6. ASSUME NEW e \in Emails, NEW kind \in PersonKinds, AccountChanges(e, kind) PROVE FederationInv'
  <2>1. /\ person' \in [Emails -> PersonKinds \cup {"none"}]
        /\ UNCHANGED <<config, licensed, links, joined, linkTokens, flow, last>>
    BY <1>t, <1>6 DEF AccountChanges
  <2> QED
    BY <1>t, <2>1, AroundKeepsInv
<1>7. ASSUME NEW e \in Emails, LicenceChanges(e) PROVE FederationInv'
  <2>1. /\ licensed' \in SUBSET Emails
        /\ UNCHANGED <<config, person, links, joined, linkTokens, flow, last>>
    BY <1>t, <1>7 DEF LicenceChanges
  <2> QED
    BY <1>t, <2>1, AroundKeepsInv
<1> QED
  BY <1>1, <1>2, <1>3, <1>4, <1>5, <1>6, <1>7

\* A step of one sign-in, which may write a link that RowAccepted lets in, a
\* membership, or the record of the last completed sign-in.
LEMMA FlowStep ==
    ASSUME FederationInv, NEW f \in Flows, NEW w \in FlowRow, Carries(w),
           flow' = [flow EXCEPT ![f] = w],
           w.pc = "join" => Identity(w.idp, w.sub, w.email) \in links',
           links' \in SUBSET LinkRows, links \subseteq links', LinksUnique',
           joined' \in SUBSET (OrgsOf \X Emails), joined \subseteq joined',
           last' \in LinkRows \cup {NoSignIn}, LastSound',
           person' \in [Emails -> PersonKinds \cup {"none"}], linkTokens' \in SUBSET LinkRows,
           UNCHANGED <<config, licensed>>
    PROVE  FederationInv'
<1>1. flow \in [Flows -> FlowRow]
  BY FederationTypes DEF FederationInv
<1>2. /\ flow' \in [Flows -> FlowRow] /\ flow'[f] = w
      /\ \A g \in Flows \ {f} : flow'[g] = flow[g]
  BY <1>1
<1>3. FederationTypeOK'
  BY <1>2, FederationTypes, FederationTypesNext DEF FederationInv
<1>4. FlowsSound'
  <2>1. ASSUME NEW g \in Flows
        PROVE  /\ Carries(flow'[g])
               /\ flow'[g].pc = "join" =>
                     Identity(flow'[g].idp, flow'[g].sub, flow'[g].email) \in links'
    <3>1. CASE g = f
      BY <1>2, <3>1
    <3>2. CASE g # f
      BY <1>2, <3>2 DEF FederationInv, FlowsSound
    <3> QED
      BY <3>1, <3>2
  <2> QED
    BY <2>1 DEF FlowsSound, Carries
<1> QED
  BY <1>3, <1>4 DEF FederationInv

\* The same when only the sign-in itself and the link tokens move.
LEMMA QuietFlowStep ==
    ASSUME FederationInv, NEW f \in Flows, NEW w \in FlowRow, Carries(w),
           flow' = [flow EXCEPT ![f] = w],
           w.pc = "join" => Identity(w.idp, w.sub, w.email) \in links,
           linkTokens' \in SUBSET LinkRows,
           UNCHANGED <<config, person, licensed, links, joined, last>>
    PROVE  FederationInv'
<1>1. /\ links \in SUBSET LinkRows /\ joined \in SUBSET (OrgsOf \X Emails)
      /\ last \in LinkRows \cup {NoSignIn} /\ person \in [Emails -> PersonKinds \cup {"none"}]
  BY FederationTypes DEF FederationInv
<1>2. LinksUnique' /\ LastSound'
  BY DEF FederationInv, LinksUnique, LastSound
<1> QED
  BY <1>1, <1>2, FlowStep

\* A new link of an identity that has none, or of a global provider.
LEMMA LinkingKeepsUnique ==
    ASSUME FederationInv, NEW t \in LinkRows, links' = links \cup {t},
           t.idp \in IdpConfigs => ~ \E l \in links : l.idp = t.idp /\ l.sub = t.sub
    PROVE  links' \in SUBSET LinkRows /\ links \subseteq links' /\ t \in links' /\ LinksUnique'
<1>1. links \in SUBSET LinkRows
  BY FederationTypes DEF FederationInv
<1>2. LinksUnique'
  BY <1>1 DEF FederationInv, LinksUnique
<1> QED
  BY <1>1, <1>2

LEMMA SigningInKeepsInv ==
    ASSUME FederationInv, NEW f \in Flows
    PROVE  \/ \E i \in Idps : StartLogin(f, i)
           \/ \E s \in Ids, e \in Emails : Callback(f, s, e)
           \/ ResolveByEmail(f) \/ ResolveNew(f) \/ ResolveRefused(f)
           \/ FlowEnds(f)
           => FederationInv'
<1>t. /\ flow \in [Flows -> FlowRow] /\ flow[f] \in FlowRow /\ linkTokens \in SUBSET LinkRows
      /\ Carries(flow[f])
  BY FederationTypes DEF FederationInv, FlowsSound
<1>1. ASSUME NEW i \in Idps, StartLogin(f, i) PROVE FederationInv'
  <2> DEFINE w == [IdleFlow EXCEPT !.pc = "started", !.idp = i]
  <2>1. w \in FlowRow /\ w.pc = "started" /\ w.idp = i
    BY IdleSignIn DEF FlowRow
  <2>2. /\ flow' = [flow EXCEPT ![f] = w]
        /\ UNCHANGED <<config, person, licensed, links, joined, linkTokens, last>>
    BY <1>1 DEF StartLogin
  <2> HIDE DEF w
  <2>3. Carries(w)
    BY <2>1 DEF Carries
  <2> QED
    BY <1>t, <2>1, <2>2, <2>3, QuietFlowStep
<1>2. ASSUME NEW s \in Ids, NEW e \in Emails, Callback(f, s, e) PROVE FederationInv'
  <2> DEFINE w == [flow[f] EXCEPT !.pc = "resolve", !.sub = s, !.email = e]
  <2>1. w \in FlowRow /\ w.pc = "resolve" /\ w.idp = flow[f].idp /\ w.sub = s /\ w.email = e
    BY <1>t DEF FlowRow
  <2>2. /\ flow' = [flow EXCEPT ![f] = w] /\ flow[f].idp \in Idps
        /\ UNCHANGED <<config, person, licensed, links, joined, linkTokens, last>>
    BY <1>t, <1>2 DEF Callback, Carries
  <2> HIDE DEF w
  <2>3. Carries(w)
    BY <2>1, <2>2 DEF Carries
  <2> QED
    BY <1>t, <2>1, <2>2, <2>3, QuietFlowStep
<1>m. ASSUME NEW pc \in {"create", "autolink"}, flow[f].pc = "resolve",
             pc = "autolink" => flow[f].idp \in Globals,
             EndsIn(f, [flow[f] EXCEPT !.pc = pc]), UNCHANGED linkTokens,
             UNCHANGED <<config, person, licensed, links, joined, last>>
      PROVE  FederationInv'
  <2> DEFINE w == [flow[f] EXCEPT !.pc = pc]
  <2>1. /\ w \in FlowRow /\ w.pc = pc /\ w.idp = flow[f].idp /\ w.sub = flow[f].sub
        /\ w.email = flow[f].email
    BY <1>t DEF FlowRow
  <2>2. flow' = [flow EXCEPT ![f] = w]
    BY <1>m DEF EndsIn
  <2> HIDE DEF w
  <2>3. Carries(w)
    BY <1>t, <1>m, <2>1 DEF Carries
  <2> QED
    BY <1>t, <1>m, <2>1, <2>2, <2>3, QuietFlowStep
<1>3. ASSUME ResolveByEmail(f) PROVE FederationInv'
  <2> DEFINE w == flow[f]
             t == Identity(w.idp, w.sub, w.email)
  <2>1. /\ w.pc = "resolve" /\ UNCHANGED <<config, person, licensed, links, joined, last>>
        /\ \/ w.idp \in Globals /\ EndsIn(f, [w EXCEPT !.pc = "autolink"]) /\ UNCHANGED linkTokens
           \/ linkTokens' = linkTokens \cup {t} /\ EndsIn(f, IdleFlow)
    BY <1>3 DEF ResolveByEmail
  <2>2. t \in LinkRows
    BY <1>t, <2>1, Identities DEF Carries
  <2> HIDE DEF t
  <2>3. CASE linkTokens' = linkTokens \cup {t} /\ EndsIn(f, IdleFlow)
    BY <1>t, <2>1, <2>2, <2>3, IdleSignIn, QuietFlowStep DEF EndsIn
  <2> QED
    BY <1>m, <2>1, <2>3
<1>4. ASSUME ResolveNew(f) PROVE FederationInv'
  BY <1>m, <1>4 DEF ResolveNew
<1>5. ASSUME ResolveRefused(f) \/ FlowEnds(f) PROVE FederationInv'
  BY <1>t, <1>5, IdleSignIn, QuietFlowStep DEF ResolveRefused, FlowEnds, EndsIn
<1> QED
  BY <1>1, <1>2, <1>3, <1>4, <1>5

\* Nothing of an organisation's provider: the record of a global sign-in.
LEMMA GlobalIsNoConfig == \A i \in Globals : i \in Idps /\ i \notin IdpConfigs
BY FederationAssumption DEF Idps

\* find_linked_user, scoped by configuration: the subject's own account.
LEMMA ResolveLinkedKeepsInv ==
    ASSUME FederationInv, NEW f \in Flows, ResolveLinked(f)
    PROVE  FederationInv'
<1>t. /\ flow \in [Flows -> FlowRow] /\ flow[f] \in FlowRow /\ linkTokens \in SUBSET LinkRows
      /\ Carries(flow[f]) /\ links \in SUBSET LinkRows /\ joined \in SUBSET (OrgsOf \X Emails)
      /\ person \in [Emails -> PersonKinds \cup {"none"}]
  BY FederationTypes DEF FederationInv, FlowsSound
<1> DEFINE v == flow[f]
<1>1. PICK u \in LinkedTo(v.idp, v.sub) :
        IF v.idp \in Globals
        THEN last' = Identity(v.idp, v.sub, u) /\ EndsIn(f, IdleFlow)
        ELSE EndsIn(f, [v EXCEPT !.pc = "join", !.email = u]) /\ UNCHANGED last
  BY DEF ResolveLinked
<1>2. v.pc = "resolve" /\ UNCHANGED <<config, person, licensed, links, joined, linkTokens>>
  BY DEF ResolveLinked
<1>3. PICK k \in links : k.idp = v.idp /\ k.sub = v.sub /\ u = k.user
  BY <1>1 DEF LinkedTo
<1>4. k \in LinkRows /\ k = Identity(v.idp, v.sub, u) /\ u \in Emails
  BY <1>t, <1>3, Identities
<1>5. LinksUnique'
  BY <1>2 DEF FederationInv, LinksUnique
<1>6. CASE v.idp \in Globals
  <2>1. /\ last' = k /\ flow' = [flow EXCEPT ![f] = IdleFlow]
    BY <1>1, <1>4, <1>6 DEF EndsIn
  <2>2. LastSound'
    BY <1>3, <1>6, <2>1, GlobalIsNoConfig DEF LastSound
  <2> QED
    BY <1>t, <1>2, <1>4, <1>5, <2>1, <2>2, IdleSignIn, FlowStep
<1>7. CASE v.idp \notin Globals
  <2> DEFINE w == [v EXCEPT !.pc = "join", !.email = u]
  <2>1. w \in FlowRow /\ w.pc = "join" /\ w.idp = v.idp /\ w.sub = v.sub /\ w.email = u
    BY <1>t, <1>4 DEF FlowRow
  <2>2. flow' = [flow EXCEPT ![f] = w] /\ UNCHANGED last
    BY <1>1, <1>7 DEF EndsIn
  <2> HIDE DEF w
  <2>3. Carries(w) /\ Identity(w.idp, w.sub, w.email) \in links
    BY <1>t, <1>2, <1>3, <1>4, <1>7, <2>1 DEF Carries, Idps
  <2> QED
    BY <1>t, <1>2, <2>1, <2>2, <2>3, QuietFlowStep
<1> QED
  BY <1>6, <1>7

\* create_user_with_oauth, or the retry that a lost race leads to.
LEMMA CreateAccountKeepsInv ==
    ASSUME FederationInv, NEW f \in Flows, CreateAccount(f)
    PROVE  FederationInv'
<1>t. /\ flow \in [Flows -> FlowRow] /\ flow[f] \in FlowRow /\ linkTokens \in SUBSET LinkRows
      /\ Carries(flow[f]) /\ links \in SUBSET LinkRows /\ joined \in SUBSET (OrgsOf \X Emails)
      /\ person \in [Emails -> PersonKinds \cup {"none"}] /\ last \in LinkRows \cup {NoSignIn}
  BY FederationTypes DEF FederationInv, FlowsSound
<1> DEFINE v == flow[f]
           t == Identity(v.idp, v.sub, v.email)
           Accepted == person[v.email] = "none" /\ RowAccepted(v.idp, v.sub)
<1>1. v.pc = "create" /\ UNCHANGED <<config, licensed, joined, linkTokens>>
  BY DEF CreateAccount
<1>2. /\ v.idp \in Idps /\ v.sub \in Ids /\ v.email \in Emails
      /\ t \in LinkRows /\ t.idp = v.idp /\ t.sub = v.sub
  BY <1>t, <1>1, Identities DEF Carries
<1>3. CASE ~Accepted
  <2> DEFINE w == [v EXCEPT !.pc = "resolve", !.retried = TRUE]
  <2>1. /\ flow' = [flow EXCEPT ![f] = w] \/ flow' = [flow EXCEPT ![f] = IdleFlow]
        /\ UNCHANGED <<person, links, last>>
    BY <1>3 DEF CreateAccount, EndsIn
  <2>2. w \in FlowRow /\ w.pc = "resolve" /\ w.idp = v.idp /\ w.sub = v.sub /\ w.email = v.email
    BY <1>t DEF FlowRow
  <2> HIDE DEF w
  <2>3. Carries(w)
    BY <1>2, <2>2 DEF Carries
  <2> QED
    BY <1>t, <1>1, <2>1, <2>2, <2>3, IdleSignIn, QuietFlowStep
<1>4. CASE Accepted
  <2> DEFINE w == [v EXCEPT !.pc = "join"]
  <2>1. /\ person' = [person EXCEPT ![v.email] = "open"] /\ links' = links \cup {t}
        /\ IF v.idp \in Globals THEN last' = t /\ EndsIn(f, IdleFlow)
           ELSE EndsIn(f, w) /\ UNCHANGED last
    BY <1>4 DEF CreateAccount
  <2>2. w \in FlowRow /\ w.pc = "join" /\ w.idp = v.idp /\ w.sub = v.sub /\ w.email = v.email
    BY <1>t DEF FlowRow
  <2> HIDE DEF w
  <2>3. person' \in [Emails -> PersonKinds \cup {"none"}]
    BY <1>t, <1>2, <2>1 DEF PersonKinds
  <2>4. t.idp \in IdpConfigs => ~ \E l \in links : l.idp = t.idp /\ l.sub = t.sub
    BY <1>2, <1>4 DEF RowAccepted
  <2> HIDE DEF t
  <2>5. links' \in SUBSET LinkRows /\ links \subseteq links' /\ t \in links' /\ LinksUnique'
    BY <1>2, <2>1, <2>4, LinkingKeepsUnique
  <2>6. CASE v.idp \in Globals
    <3>1. last' = t /\ flow' = [flow EXCEPT ![f] = IdleFlow]
      BY <2>1, <2>6 DEF EndsIn
    <3>2. LastSound'
      BY <1>2, <2>6, <3>1, GlobalIsNoConfig DEF LastSound
    <3> QED
      BY <1>t, <1>1, <1>2, <2>3, <2>5, <3>1, <3>2, IdleSignIn, FlowStep
  <2>7. CASE v.idp \notin Globals
    <3>1. last' = last /\ flow' = [flow EXCEPT ![f] = w]
      BY <2>1, <2>7 DEF EndsIn
    <3>2. LastSound'
      BY <1>1, <2>5, <3>1 DEF FederationInv, LastSound
    <3>3. Carries(w) /\ Identity(w.idp, w.sub, w.email) \in links'
      BY <1>2, <2>2, <2>5, <2>7 DEF Carries, Idps, t
    <3> QED
      BY <1>t, <1>1, <2>2, <2>3, <2>5, <3>1, <3>2, <3>3, FlowStep
  <2> QED
    BY <2>6, <2>7
<1> QED
  BY <1>3, <1>4

LEMMA LinkingKeepsInv ==
    ASSUME FederationInv, NEW f \in Flows
    PROVE  \/ AutoLink(f) \/ JoinOrganization(f)
           \/ \E t \in linkTokens : LinkConfirm(f, t)
           => FederationInv'
<1>t. /\ flow \in [Flows -> FlowRow] /\ flow[f] \in FlowRow /\ linkTokens \in SUBSET LinkRows
      /\ Carries(flow[f]) /\ links \in SUBSET LinkRows /\ joined \in SUBSET (OrgsOf \X Emails)
      /\ person \in [Emails -> PersonKinds \cup {"none"}] /\ last \in LinkRows \cup {NoSignIn}
  BY FederationTypes DEF FederationInv, FlowsSound
<1> DEFINE v == flow[f]
           i == Identity(v.idp, v.sub, v.email)
<1>1. ASSUME AutoLink(f) PROVE FederationInv'
  <2>1. /\ v.pc = "autolink" /\ links' = links \cup {i} /\ last' = i
        /\ flow' = [flow EXCEPT ![f] = IdleFlow]
        /\ UNCHANGED <<config, person, licensed, joined, linkTokens>>
    BY <1>1 DEF AutoLink, EndsIn
  <2>2. i \in LinkRows /\ i.idp \notin IdpConfigs
    BY <1>t, <2>1, Identities, GlobalIsNoConfig DEF Carries
  <2> HIDE DEF i
  <2>3. links' \in SUBSET LinkRows /\ links \subseteq links' /\ LinksUnique'
    BY <2>1, <2>2, LinkingKeepsUnique
  <2>4. LastSound'
    BY <2>1, <2>2 DEF LastSound
  <2> QED
    BY <1>t, <2>1, <2>2, <2>3, <2>4, IdleSignIn, FlowStep
<1>2. ASSUME JoinOrganization(f) PROVE FederationInv'
  <2>1. /\ v.pc = "join" /\ last' = i /\ joined' = joined \cup {<<OrgOf[v.idp], v.email>>}
        /\ flow' = [flow EXCEPT ![f] = IdleFlow]
        /\ UNCHANGED <<config, person, licensed, links, linkTokens>>
    BY <1>2 DEF JoinOrganization, EndsIn
  <2>2. /\ v.idp \in IdpConfigs /\ v.email \in Emails /\ i \in links /\ i \in LinkRows
        /\ i.idp = v.idp /\ i.user = v.email
    <3>1. v.idp \in Idps /\ v.idp \in IdpConfigs /\ v.sub \in Ids /\ v.email \in Emails
      BY <1>t, <2>1 DEF Carries
    <3>2. i \in links
      BY <2>1 DEF FederationInv, FlowsSound
    <3> QED
      BY <1>t, <3>1, <3>2, Identities
  <2>3. joined' \in SUBSET (OrgsOf \X Emails) /\ joined \subseteq joined'
    BY <1>t, <2>1, <2>2 DEF OrgsOf
  <2>4. LinksUnique' /\ LastSound'
    BY <2>1, <2>2 DEF FederationInv, LinksUnique, LastSound
  <2> QED
    BY <1>t, <2>1, <2>2, <2>3, <2>4, IdleSignIn, FlowStep
<1>3. ASSUME NEW t \in linkTokens, LinkConfirm(f, t) PROVE FederationInv'
  <2> DEFINE w == [pc |-> "join", idp |-> t.idp, sub |-> t.sub, email |-> t.user, retried |-> FALSE]
  <2>1. /\ flow[f] = IdleFlow /\ RowAccepted(t.idp, t.sub) /\ links' = links \cup {t}
        /\ IF t.idp \in Globals THEN last' = t /\ UNCHANGED flow ELSE EndsIn(f, w) /\ UNCHANGED last
        /\ UNCHANGED <<config, person, licensed, joined, linkTokens>>
    BY <1>3 DEF LinkConfirm
  <2>2. /\ t \in LinkRows /\ t = Identity(t.idp, t.sub, t.user) /\ t.idp \in Idps
        /\ t.sub \in Ids /\ t.user \in Emails
    BY <1>t, <1>3, Identities
  <2>3. links' \in SUBSET LinkRows /\ links \subseteq links' /\ t \in links' /\ LinksUnique'
    BY <2>1, <2>2, LinkingKeepsUnique DEF RowAccepted
  <2>4. CASE t.idp \in Globals
    <3>1. last' = t /\ flow' = [flow EXCEPT ![f] = IdleFlow]
      BY <1>t, <2>1, <2>4
    <3>2. LastSound'
      BY <2>4, <3>1, GlobalIsNoConfig DEF LastSound
    <3> QED
      BY <1>t, <2>1, <2>2, <2>3, <3>1, <3>2, IdleSignIn, FlowStep
  <2>5. CASE t.idp \notin Globals
    <3>1. flow' = [flow EXCEPT ![f] = w] /\ last' = last
      BY <2>1, <2>5 DEF EndsIn
    <3>2. w \in FlowRow /\ w.pc = "join" /\ w.idp = t.idp /\ w.sub = t.sub /\ w.email = t.user
      BY <2>2 DEF FlowRow
    <3> HIDE DEF w
    <3>3. Carries(w) /\ Identity(w.idp, w.sub, w.email) \in links'
      BY <2>2, <2>3, <2>5, <3>2 DEF Carries, Idps
    <3>4. LastSound'
      BY <2>1, <2>3, <3>1 DEF FederationInv, LastSound
    <3> QED
      BY <1>t, <2>1, <2>3, <3>1, <3>2, <3>3, <3>4, FlowStep
  <2> QED
    BY <2>4, <2>5
<1> QED
  BY <1>1, <1>2, <1>3

LEMMA FederationInvNext == FederationInv /\ [FederationNext]_fedVars => FederationInv'
<1> SUFFICES ASSUME FederationInv, [FederationNext]_fedVars PROVE FederationInv'
  OBVIOUS
<1>1. CASE FederationNext
  BY <1>1, ConfigurationKeepsInv, SigningInKeepsInv, ResolveLinkedKeepsInv, CreateAccountKeepsInv,
     LinkingKeepsInv DEF FederationNext
<1>2. CASE UNCHANGED fedVars
  <2>1. UNCHANGED <<config, person, licensed, links, joined, linkTokens, flow, last>>
    BY <1>2 DEF fedVars
  <2> QED
    BY <2>1, AroundKeepsInv, FederationTypes DEF FederationInv
<1> QED
  BY <1>1, <1>2

LEMMA FederationInvHolds == FederationSpec => []FederationInv
BY FederationInvInit, FederationInvNext, PTL DEF FederationSpec

\* The tables a sign-in touches, and what it carries, keep their shape.
THEOREM FederationTypeCorrect == FederationSpec => []FederationTypeOK
<1>1. FederationInv => FederationTypeOK
  BY DEF FederationInv
<1> QED
  BY <1>1, FederationInvHolds, PTL

LEMMA IsolationSound == FederationInv => TenantIsolation
BY DEF FederationInv, LastSound, LinksUnique, TenantIsolation

\* However sign-ups, link confirmations, retries and configuration changes
\* interleave, a sign-in through an organisation's provider ends in the account
\* its subject is linked to and in that organisation, and a subject is linked to
\* one account: find_linked_user is scoped by configuration and the unique keys
\* of oauth_accounts settle the races.
THEOREM TenantsAreIsolated == FederationSpec => []TenantIsolation
BY IsolationSound, FederationInvHolds, PTL

---------------------------------------------------------------------------
(* SAML messages                                                           *)

AuthnRow == [sent : {Unsent} \cup 0..SamlTime, answered : BOOLEAN]
SessionRow == [state : {"none", "challenge", "active", "revoked"},
               name : Names \cup {""}, index : Indexes \cup {AnyIndex}]
OrderRow == [issued : {Unsent} \cup 0..SamlTime, name : Names \cup {""},
             index : Indexes \cup {AnyIndex}, window : Windows \cup {Endless}]

\* A message that was acted on is remembered for ReplayTTL from when it was sent,
\* or longer: an assertion up to the expiry of its RelayState, a LogoutRequest
\* perhaps less long than it is valid.
RequestsRemembered ==
    \A r \in Requests :
        /\ authn[r].sent <= second
        /\ authn[r].answered => authn[r].sent # Unsent
        /\ uses[r] > 0 => authn[r].answered /\ replay[r] >= authn[r].sent + ReplayTTL

OrdersRemembered ==
    \A m \in LogoutMsgs :
        /\ order[m].issued <= second
        /\ uses[m] > 0 => order[m] # NoOrder /\ replay[m] >= order[m].issued + ReplayTTL

SamlInv == SamlTypeOK /\ RequestsRemembered /\ OrdersRemembered

LEMMA SamlTypes ==
    SamlTypeOK <=>
        /\ authn \in [Requests -> AuthnRow] /\ session \in [Requests -> SessionRow]
        /\ order \in [LogoutMsgs -> OrderRow] /\ replay \in [Messages -> {Unsent} \cup 0..Late]
        /\ uses \in [Messages -> Nat] /\ samlOn \in BOOLEAN /\ store \in BOOLEAN
        /\ second \in 0..SamlTime
BY DEF SamlTypeOK, AuthnRow, SessionRow, OrderRow

LEMMA SamlTypesNext ==
    SamlTypeOK' <=>
        /\ authn' \in [Requests -> AuthnRow] /\ session' \in [Requests -> SessionRow]
        /\ order' \in [LogoutMsgs -> OrderRow] /\ replay' \in [Messages -> {Unsent} \cup 0..Late]
        /\ uses' \in [Messages -> Nat] /\ samlOn' \in BOOLEAN /\ store' \in BOOLEAN
        /\ second' \in 0..SamlTime
BY DEF SamlTypeOK, AuthnRow, SessionRow, OrderRow

LEMMA NothingSent ==
    /\ NoRequest \in AuthnRow /\ NoRequest.sent = -1 /\ ~NoRequest.answered
    /\ NoSession \in SessionRow
    /\ NoOrder \in OrderRow /\ NoOrder.issued = -1
BY DEF NoRequest, AuthnRow, NoSession, SessionRow, NoOrder, OrderRow, Unsent

LEMMA SamlNumbers ==
    ASSUME SamlInv
    PROVE  /\ \A r \in Requests : authn[r].sent \in Int
           /\ \A m \in LogoutMsgs : order[m].issued \in Int
           /\ \A m \in Messages : replay[m] \in Int
           /\ second \in Nat
<1>1. /\ authn \in [Requests -> AuthnRow] /\ order \in [LogoutMsgs -> OrderRow]
      /\ replay \in [Messages -> {Unsent} \cup 0..Late] /\ second \in 0..SamlTime
  BY SamlTypes DEF SamlInv
<1>2. {Unsent} \cup 0..SamlTime \subseteq Int /\ {Unsent} \cup 0..Late \subseteq Int
  BY SamlMessagesAssumption DEF Unsent, Late
<1>3. ASSUME NEW r \in Requests PROVE authn[r].sent \in {Unsent} \cup 0..SamlTime
  BY <1>1 DEF AuthnRow
<1>4. ASSUME NEW m \in LogoutMsgs PROVE order[m].issued \in {Unsent} \cup 0..SamlTime
  BY <1>1 DEF OrderRow
<1>5. second \in Nat
  BY <1>1, SamlMessagesAssumption
<1>6. ASSUME NEW m \in Messages PROVE replay[m] \in Int
  BY <1>1, <1>2
<1> QED
  BY <1>2, <1>3, <1>4, <1>5, <1>6

LEMMA SamlInvInit == SamlInit => SamlInv
<1> SUFFICES ASSUME SamlInit PROVE SamlInv
  OBVIOUS
<1>1. SamlTypeOK
  BY NothingSent, SamlTypes, SamlMessagesAssumption DEF SamlInit
<1>2. RequestsRemembered /\ OrdersRemembered
  BY NothingSent DEF SamlInit, RequestsRemembered, OrdersRemembered, Messages
<1> QED
  BY <1>1, <1>2 DEF SamlInv

\* Sessions, the configuration and the store matter to no message's memory.
LEMMA SessionsKeepInv ==
    ASSUME SamlInv, session' \in [Requests -> SessionRow], samlOn' \in BOOLEAN, store' \in BOOLEAN,
           UNCHANGED <<authn, order, replay, uses, second>>
    PROVE  SamlInv'
<1>1. SamlTypeOK'
  BY SamlTypes, SamlTypesNext DEF SamlInv
<1>2. RequestsRemembered' /\ OrdersRemembered'
  BY DEF SamlInv, RequestsRemembered, OrdersRemembered
<1> QED
  BY <1>1, <1>2 DEF SamlInv

LEMMA SessionShape ==
    ASSUME SamlInv, NEW r \in Requests, NEW st \in {"challenge", "active", "revoked"}
    PROVE  [session EXCEPT ![r].state = st] \in [Requests -> SessionRow]
<1>1. session \in [Requests -> SessionRow]
  BY SamlTypes DEF SamlInv
<1>2. [session[r] EXCEPT !.state = st] \in SessionRow
  BY <1>1 DEF SessionRow
<1>3. [session EXCEPT ![r].state = st] = [session EXCEPT ![r] = [session[r] EXCEPT !.state = st]]
  BY <1>1
<1> QED
  BY <1>1, <1>2, <1>3

LEMMA SessionsStep ==
    ASSUME SamlInv
    PROVE  \/ \E r \in Requests : CompleteChallenge(r) \/ SpLogout(r)
           \/ SetSamlStatus \/ StoreTurns \/ SamlTick
           => SamlInv'
<1>t. /\ session \in [Requests -> SessionRow] /\ samlOn \in BOOLEAN /\ store \in BOOLEAN
      /\ second \in 0..SamlTime
  BY SamlTypes DEF SamlInv
<1>1. ASSUME NEW r \in Requests, CompleteChallenge(r) \/ SpLogout(r) PROVE SamlInv'
  <2>1. /\ session' \in [Requests -> SessionRow]
        /\ UNCHANGED <<authn, order, replay, uses, samlOn, store, second>>
    BY <1>1, SessionShape DEF CompleteChallenge, SpLogout
  <2> QED
    BY <1>t, <2>1, SessionsKeepInv
<1>2. ASSUME SetSamlStatus \/ StoreTurns PROVE SamlInv'
  <2>1. /\ samlOn' \in BOOLEAN /\ store' \in BOOLEAN
        /\ UNCHANGED <<authn, session, order, replay, uses, second>>
    BY <1>t, <1>2 DEF SetSamlStatus, StoreTurns
  <2> QED
    BY <1>t, <2>1, SessionsKeepInv
<1>3. ASSUME SamlTick PROVE SamlInv'
  <2>1. /\ second' = second + 1 /\ second' \in 0..SamlTime
        /\ UNCHANGED <<authn, session, order, replay, uses, samlOn, store>>
    BY <1>t, <1>3, SamlMessagesAssumption DEF SamlTick
  <2>2. SamlTypeOK'
    BY <2>1, SamlTypes, SamlTypesNext DEF SamlInv
  <2>3. /\ \A r \in Requests : authn[r].sent \in Int
        /\ \A m \in LogoutMsgs : order[m].issued \in Int
    BY SamlNumbers
  <2>4. RequestsRemembered' /\ OrdersRemembered'
    BY <1>t, <2>1, <2>3 DEF SamlInv, RequestsRemembered, OrdersRemembered
  <2> QED
    BY <2>2, <2>4 DEF SamlInv
<1> QED
  BY <1>1, <1>2, <1>3

\* The provider's and our own messages are sent and answered.
LEMMA SendingStep ==
    ASSUME SamlInv
    PROVE  \/ \E r \in Requests : SendAuthnRequest(r)
           \/ \E r \in Requests, n \in Names, x \in Indexes : IdpAsserts(r, n, x)
           \/ \E m \in LogoutMsgs, n \in Names, x \in Indexes \cup {AnyIndex},
                w \in Windows \cup {Endless} : IdpOrdersLogout(m, n, x, w)
           => SamlInv'
<1>t. /\ authn \in [Requests -> AuthnRow] /\ session \in [Requests -> SessionRow]
      /\ order \in [LogoutMsgs -> OrderRow] /\ second \in 0..SamlTime
      /\ RequestsRemembered /\ OrdersRemembered
  BY SamlTypes DEF SamlInv
<1>0. ASSUME NEW r \in Requests, NEW row \in AuthnRow, authn' = [authn EXCEPT ![r] = row],
             row.sent <= second, row.answered => row.sent # Unsent,
             uses[r] > 0 => row = authn[r] \/ (row.answered /\ row.sent = authn[r].sent),
             session' \in [Requests -> SessionRow],
             UNCHANGED <<order, replay, uses, samlOn, store, second>>
      PROVE  SamlInv'
  <2>1. /\ authn' \in [Requests -> AuthnRow] /\ authn'[r] = row
        /\ \A q \in Requests \ {r} : authn'[q] = authn[q]
    BY <1>t, <1>0
  <2>2. SamlTypeOK'
    BY <1>0, <2>1, SamlTypes, SamlTypesNext DEF SamlInv
  <2>3. RequestsRemembered'
    BY <1>t, <1>0, <2>1 DEF RequestsRemembered
  <2>4. OrdersRemembered'
    BY <1>t, <1>0 DEF OrdersRemembered
  <2> QED
    BY <2>2, <2>3, <2>4 DEF SamlInv
<1>1. ASSUME NEW r \in Requests, SendAuthnRequest(r) PROVE SamlInv'
  <2> DEFINE row == [NoRequest EXCEPT !.sent = second]
  <2>1. row \in AuthnRow /\ row.sent = second /\ ~row.answered
    BY <1>t, NothingSent DEF AuthnRow
  <2>2. ~(uses[r] > 0)
    BY <1>t, <1>1, NothingSent DEF SendAuthnRequest, RequestsRemembered
  <2>3. /\ authn' = [authn EXCEPT ![r] = row]
        /\ UNCHANGED <<session, order, replay, uses, samlOn, store, second>>
    BY <1>1 DEF SendAuthnRequest
  <2> HIDE DEF row
  <2>4. row.sent <= second
    BY <2>1, SamlNumbers
  <2> QED
    BY <1>t, <1>0, <2>1, <2>2, <2>3, <2>4
<1>2. ASSUME NEW r \in Requests, NEW n \in Names, NEW x \in Indexes, IdpAsserts(r, n, x)
      PROVE  SamlInv'
  <2> DEFINE row == [authn[r] EXCEPT !.answered = TRUE]
             opened == [state |-> "none", name |-> n, index |-> x]
  <2>1. row \in AuthnRow /\ row.sent = authn[r].sent /\ row.answered = TRUE
    BY <1>t DEF AuthnRow
  <2>2. opened \in SessionRow
    BY DEF SessionRow
  <2>3. /\ authn' = [authn EXCEPT ![r] = row] /\ session' = [session EXCEPT ![r] = opened]
        /\ authn[r].sent # Unsent
        /\ UNCHANGED <<order, replay, uses, samlOn, store, second>>
    BY <1>t, <1>2 DEF IdpAsserts
  <2> HIDE DEF row, opened
  <2>4. session' \in [Requests -> SessionRow]
    BY <1>t, <2>2, <2>3
  <2>5. authn[r].sent <= second
    BY <1>t DEF RequestsRemembered
  <2> QED
    BY <1>0, <2>1, <2>3, <2>4, <2>5
<1>3. ASSUME NEW m \in LogoutMsgs, NEW n \in Names, NEW x \in Indexes \cup {AnyIndex},
             NEW w \in Windows \cup {Endless}, IdpOrdersLogout(m, n, x, w)
      PROVE  SamlInv'
  <2> DEFINE row == [issued |-> second, name |-> n, index |-> x, window |-> w]
  <2>1. row \in OrderRow /\ row.issued = second
    BY <1>t DEF OrderRow
  <2>2. /\ order' = [order EXCEPT ![m] = row] /\ order[m] = NoOrder
        /\ UNCHANGED <<authn, session, replay, uses, samlOn, store, second>>
    BY <1>3 DEF IdpOrdersLogout
  <2> HIDE DEF row
  <2>3. /\ order' \in [LogoutMsgs -> OrderRow] /\ order'[m] = row
        /\ \A q \in LogoutMsgs \ {m} : order'[q] = order[q]
    BY <1>t, <2>1, <2>2
  <2>4. ~(uses[m] > 0)
    BY <1>t, <2>2 DEF OrdersRemembered
  <2>5. SamlTypeOK'
    BY <2>2, <2>3, SamlTypes, SamlTypesNext DEF SamlInv
  <2>6. OrdersRemembered'
    BY <1>t, <2>1, <2>2, <2>3, <2>4 DEF OrdersRemembered
  <2>7. RequestsRemembered'
    BY <1>t, <2>2 DEF RequestsRemembered
  <2> QED
    BY <2>5, <2>6, <2>7 DEF SamlInv
<1> QED
  BY <1>1, <1>2, <1>3

\* A message is acted on and remembered from that moment.
LEMMA RememberShape ==
    ASSUME SamlInv, NEW m \in Messages, Remember(m), uses' = [uses EXCEPT ![m] = uses[m] + 1]
    PROVE  /\ replay' \in [Messages -> {Unsent} \cup 0..Late] /\ uses' \in [Messages -> Nat]
           /\ replay'[m] = second + ReplayTTL
           /\ \A q \in Messages \ {m} : replay'[q] = replay[q] /\ uses'[q] = uses[q]
<1>t. /\ replay \in [Messages -> {Unsent} \cup 0..Late] /\ uses \in [Messages -> Nat]
      /\ second \in 0..SamlTime
  BY SamlTypes DEF SamlInv
<1>1. second + ReplayTTL \in 0..Late
  BY <1>t, SamlMessagesAssumption DEF Late
<1> DEFINE until == second + ReplayTTL
<1>2. replay' = [replay EXCEPT ![m] = until]
  BY DEF Remember
<1> HIDE DEF until
<1>3. until \in {Unsent} \cup 0..Late
  BY <1>1 DEF until
<1> QED
  BY <1>t, <1>2, <1>3 DEF until

LEMMA ActingStep ==
    ASSUME SamlInv
    PROVE  \/ \E r \in Requests, mfa \in BOOLEAN : ConsumeAssertion(r, mfa)
           \/ \E m \in LogoutMsgs : HandleLogoutRequest(m)
           => SamlInv'
<1>t. /\ authn \in [Requests -> AuthnRow] /\ session \in [Requests -> SessionRow]
      /\ order \in [LogoutMsgs -> OrderRow] /\ second \in 0..SamlTime
      /\ RequestsRemembered /\ OrdersRemembered
      /\ Requests \cap LogoutMsgs = {} /\ ReplayTTL \in Nat
      /\ \A r \in Requests : r \in Messages
      /\ \A m \in LogoutMsgs : m \in Messages
  BY SamlTypes, SamlMessagesAssumption DEF SamlInv, Messages
<1>n. /\ \A r \in Requests : authn[r].sent \in Int
      /\ \A m \in LogoutMsgs : order[m].issued \in Int
      /\ second \in Nat
  BY SamlNumbers
<1>1. ASSUME NEW r \in Requests, NEW mfa \in BOOLEAN, ConsumeAssertion(r, mfa) PROVE SamlInv'
  <2>1. /\ Remember(r) /\ uses' = [uses EXCEPT ![r] = uses[r] + 1] /\ authn[r].answered
        /\ UNCHANGED <<authn, order, samlOn, store, second>>
    BY <1>1 DEF ConsumeAssertion, AssertionValid
  <2>2. session' \in [Requests -> SessionRow]
    BY <1>1, SessionShape DEF ConsumeAssertion
  <2>3. /\ replay' \in [Messages -> {Unsent} \cup 0..Late] /\ uses' \in [Messages -> Nat]
        /\ replay'[r] = second + ReplayTTL
        /\ \A q \in Messages \ {r} : replay'[q] = replay[q] /\ uses'[q] = uses[q]
    BY <1>t, <2>1, RememberShape
  <2>4. SamlTypeOK'
    BY <2>1, <2>2, <2>3, SamlTypes, SamlTypesNext DEF SamlInv
  <2>5. replay'[r] >= authn[r].sent + ReplayTTL
    BY <1>t, <1>n, <2>3 DEF RequestsRemembered
  <2>6. RequestsRemembered'
    BY <1>t, <2>1, <2>3, <2>5 DEF RequestsRemembered
  <2>7. OrdersRemembered'
    BY <1>t, <2>1, <2>3 DEF OrdersRemembered
  <2> QED
    BY <2>4, <2>6, <2>7 DEF SamlInv
<1>2. ASSUME NEW m \in LogoutMsgs, HandleLogoutRequest(m) PROVE SamlInv'
  <2>1. /\ Remember(m) /\ uses' = [uses EXCEPT ![m] = uses[m] + 1] /\ order[m] # NoOrder
        /\ UNCHANGED <<authn, order, samlOn, store, second>>
        /\ session' = [r \in Requests |-> IF Ordered(m, r) THEN [session[r] EXCEPT !.state = "revoked"]
                                          ELSE session[r]]
    BY <1>2 DEF HandleLogoutRequest, OrderValid
  <2>2. \A r \in Requests : [session[r] EXCEPT !.state = "revoked"] \in SessionRow
    BY <1>t DEF SessionRow
  <2>3. session' \in [Requests -> SessionRow]
    BY <1>t, <2>1, <2>2
  <2>4. /\ replay' \in [Messages -> {Unsent} \cup 0..Late] /\ uses' \in [Messages -> Nat]
        /\ replay'[m] = second + ReplayTTL
        /\ \A q \in Messages \ {m} : replay'[q] = replay[q] /\ uses'[q] = uses[q]
    BY <1>t, <2>1, RememberShape
  <2>5. SamlTypeOK'
    BY <2>1, <2>3, <2>4, SamlTypes, SamlTypesNext DEF SamlInv
  <2>6. replay'[m] >= order[m].issued + ReplayTTL
    BY <1>t, <1>n, <2>4 DEF OrdersRemembered
  <2>7. OrdersRemembered'
    BY <1>t, <2>1, <2>4, <2>6 DEF OrdersRemembered
  <2>8. RequestsRemembered'
    BY <1>t, <2>1, <2>4 DEF RequestsRemembered
  <2> QED
    BY <2>5, <2>7, <2>8 DEF SamlInv
<1> QED
  BY <1>1, <1>2

LEMMA SamlInvNext == SamlInv /\ [SamlNext]_samlVars => SamlInv'
<1> SUFFICES ASSUME SamlInv, [SamlNext]_samlVars PROVE SamlInv'
  OBVIOUS
<1>1. CASE SamlNext
  BY <1>1, SessionsStep, SendingStep, ActingStep DEF SamlNext
<1>2. CASE UNCHANGED samlVars
  <2>1. UNCHANGED <<authn, session, order, replay, uses, samlOn, store, second>>
    BY <1>2 DEF samlVars
  <2>2. session' \in [Requests -> SessionRow] /\ samlOn' \in BOOLEAN /\ store' \in BOOLEAN
    BY <2>1, SamlTypes DEF SamlInv
  <2> QED
    BY <2>1, <2>2, SessionsKeepInv
<1> QED
  BY <1>1, <1>2

LEMMA SamlInvHolds == SamlSpec => []SamlInv
BY SamlInvInit, SamlInvNext, PTL DEF SamlSpec

\* Requests, orders, sessions and replay keys keep their shape.
THEOREM SamlTypeCorrect == SamlSpec => []SamlTypeOK
<1>1. SamlInv => SamlTypeOK
  BY DEF SamlInv
<1> QED
  BY <1>1, SamlInvHolds, PTL

\* A message is acted on again only once its replay key has gone, ReplayTTL after
\* a use that came after the sending.
LEMMA MessageStep ==
    ASSUME SamlInv, [SamlNext]_samlVars
    PROVE  [\A m \in Messages : uses'[m] # uses[m] /\ uses[m] > 0 =>
               IF m \in Requests THEN second = RelayExp(m)
               ELSE second >= order[m].issued + ReplayTTL]_samlVars
<1> SUFFICES ASSUME NEW m \in Messages, uses'[m] # uses[m], uses[m] > 0
             PROVE  IF m \in Requests THEN second = RelayExp(m)
                    ELSE second >= order[m].issued + ReplayTTL
  OBVIOUS
<1>t. /\ uses \in [Messages -> Nat] /\ second \in Nat /\ replay[m] \in Int
      /\ RelayLife \in Nat /\ ReplayTTL \in Nat
      /\ RelayLife <= ReplayTTL /\ Requests \cap LogoutMsgs = {}
      /\ \A r \in Requests : authn[r].sent \in Int
      /\ \A q \in LogoutMsgs : order[q].issued \in Int
  BY SamlNumbers, SamlTypes, SamlMessagesAssumption DEF SamlInv
<1>1. \/ \E r \in Requests, mfa \in BOOLEAN : ConsumeAssertion(r, mfa)
      \/ \E q \in LogoutMsgs : HandleLogoutRequest(q)
  BY DEF SamlNext, samlVars, SendAuthnRequest, CompleteChallenge, SpLogout, IdpAsserts,
         IdpOrdersLogout, SetSamlStatus, StoreTurns, SamlTick
<1>2. ASSUME NEW r \in Requests, NEW mfa \in BOOLEAN, ConsumeAssertion(r, mfa)
      PROVE  m \in Requests /\ second = RelayExp(m)
  <2>1. m = r
    BY <1>t, <1>2 DEF ConsumeAssertion
  <2>2. second >= replay[m] /\ second <= authn[m].sent + RelayLife
    BY <1>2, <2>1 DEF ConsumeAssertion, AssertionValid, NotReplayed, RelayVerified, RelayExp
  <2>3. replay[m] >= authn[m].sent + ReplayTTL
    BY <2>1 DEF SamlInv, RequestsRemembered
  <2> QED
    BY <1>t, <2>1, <2>2, <2>3 DEF RelayExp
<1>3. ASSUME NEW q \in LogoutMsgs, HandleLogoutRequest(q)
      PROVE  m \notin Requests /\ second >= order[m].issued + ReplayTTL
  <2>1. m = q
    BY <1>t, <1>3 DEF HandleLogoutRequest
  <2>2. second >= replay[m]
    BY <1>3, <2>1 DEF HandleLogoutRequest, OrderValid, NotReplayed
  <2>3. replay[m] >= order[m].issued + ReplayTTL
    BY <2>1 DEF SamlInv, OrdersRemembered
  <2> QED
    BY <1>t, <2>1, <2>2, <2>3
<1> QED
  BY <1>1, <1>2, <1>3

\* _reject_if_replayed remembers a message for _SAML_REPLAY_TTL_SECONDS from its
\* first use.  RelayStates live no longer, so an assertion counts once, except in
\* the very second at which its RelayState and its replay key end together.  A
\* LogoutRequest may have no end of its own: it counts once for ReplayTTL after
\* it was issued, and for good if its NotOnOrAfter comes within that time.
THEOREM MessagesCountOnce == SamlSpec => MessageUsedOnce
BY MessageStep, SamlInvHolds, PTL DEF SamlSpec, MessageUsedOnce

=============================================================================
