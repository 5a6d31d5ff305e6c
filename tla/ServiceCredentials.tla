------------------------ MODULE ServiceCredentials ------------------------
(***************************************************************************)
(* Credentials that are not a session: API keys and the tokens they are     *)
(* exchanged for, OAuth clients and their service tokens, tokens minted for  *)
(* a user, delegated-execution and registration tokens, first-party launch   *)
(* codes.  One organisation, one of its members, who creates the keys and    *)
(* the clients and is the user that is delegated for.                        *)
(*                                                                           *)
(* A derived token is a signed copy of what its source allowed; whoever      *)
(* accepts it decides what is looked up again.  Creating a key and           *)
(* exchanging one read first and act later, without a lock.                  *)
(***************************************************************************)
EXTENDS Integers, FiniteSets

CONSTANTS
    ApiKeys,      \* identities of api_keys rows
    Clients,      \* identities of oauth_clients rows
    Tokens,       \* identities of derived tokens
    LaunchCodes,  \* identities of oauth:first-party:* codes
    Calls,        \* slots for key requests that may overlap
    NoSource,     \* a token that comes from no key and no client
    ScopeLists,   \* scope lists a request may ask for
    TokenLife,    \* lifetime of each kind of token, in ticks
    CodeTTL,      \* LIMS_SSO_CODE_TTL_SECONDS
    MaxKeys,      \* MAX_ACTIVE_KEYS_PER_USER
    CredTime      \* bound on the clock

TokenKinds == {"api_key", "service", "mint", "delegated", "registration", "launch"}
Delegate == "toolserver.delegate"
Register == "toolserver.register"
AllOrgs == "manage_all_orgs"
Accepted == {"workflow.execute"}     \* ACCEPTED_PERMISSIONS
Grantable == Accepted \cup {Delegate, Register, AllOrgs}
\* is_privileged_permission: GLOBAL, ORG and service permissions.
Privileged == {Delegate, Register, AllOrgs}

ASSUME ServiceCredentialsAssumption ==
    /\ TokenLife \in [TokenKinds -> Nat]
    /\ CodeTTL \in Nat /\ MaxKeys \in Nat /\ CredTime \in Nat
    /\ \A S \in ScopeLists : S \subseteq Grantable
    /\ NoSource \notin ApiKeys \cup Clients
    /\ ApiKeys \cap Clients = {}

VARIABLES
    key,        \* api_keys: status, scopes, expires_at
    client,     \* oauth_clients: status, scopes; nothing sets expires_at
    held,       \* permissions of the member's roles now
    lost,       \* when each was last taken away (history)
    userOn,     \* users.status = "active"
    revokedAt,  \* when each key or client was first revoked (history)
    token,      \* derived tokens that were signed
    launch,     \* launch codes in Redis
    call,       \* what each key request has read
    time

credVars == <<key, client, held, lost, userOn, revokedAt, token, launch, call, time>>

Unset == -1
Times == {Unset} \cup 0..CredTime
NoKey == [status |-> "none", scopes |-> {}, expires |-> Unset]
NoClient == [status |-> "none", scopes |-> {}]
NoToken == [kind |-> "none", src |-> NoSource, perms |-> {}, born |-> Unset]
NoLaunch == [perms |-> {}, exp |-> Unset]
IdleCall == [pc |-> "idle", key |-> NoSource, perms |-> {}]

CredentialsTypeOK ==
    /\ key \in [ApiKeys -> [status : {"none", "active", "revoked"},
                            scopes : SUBSET Grantable, expires : Times]]
    /\ client \in [Clients -> [status : {"none", "active", "revoked"}, scopes : SUBSET Grantable]]
    /\ held \in SUBSET Grantable
    /\ lost \in [Grantable -> Times]
    /\ userOn \in BOOLEAN
    /\ revokedAt \in [ApiKeys \cup Clients -> Times]
    /\ token \in [Tokens -> [kind : TokenKinds \cup {"none"}, src : ApiKeys \cup Clients \cup {NoSource},
                             perms : SUBSET Grantable, born : Times]]
    /\ launch \in [LaunchCodes -> [perms : SUBSET Grantable, exp : {Unset} \cup 0..(CredTime + CodeTTL)]]
    /\ call \in [Calls -> [pc : {"idle", "create", "exchange"}, key : ApiKeys \cup {NoSource},
                           perms : SUBSET Grantable]]
    /\ time \in 0..CredTime

CredentialsInit ==
    /\ key = [k \in ApiKeys |-> NoKey]
    /\ client = [c \in Clients |-> NoClient]
    /\ held = Grantable
    /\ lost = [p \in Grantable |-> Unset]
    /\ userOn = TRUE
    /\ revokedAt = [x \in ApiKeys \cup Clients |-> Unset]
    /\ token = [t \in Tokens |-> NoToken]
    /\ launch = [x \in LaunchCodes |-> NoLaunch]
    /\ call = [s \in Calls |-> IdleCall]
    /\ time = 0

---------------------------------------------------------------------------
Fresh(t) == token[t].kind # "none" /\ time <= token[t].born + TokenLife[token[t].kind]

IssueDerived(t, kind, src, perms) ==
    /\ token[t] = NoToken
    /\ token' = [token EXCEPT ![t] = [kind |-> kind, src |-> src, perms |-> perms, born |-> time]]

ActiveClient(c) == client[c].status = "active"

---------------------------------------------------------------------------
(* API keys.                                                               *)

\* The permissions of the caller's membership, and for /me/api-keys the number
\* of his active keys, are read before the row is written.
CreateKeyRead(s, selfService, S) ==
    /\ call[s] = IdleCall /\ userOn
    /\ selfService => Cardinality({k \in ApiKeys : key[k].status = "active"}) < MaxKeys
    /\ S \subseteq held
    /\ call' = [call EXCEPT ![s] = [IdleCall EXCEPT !.pc = "create", !.perms = S]]
    /\ UNCHANGED <<key, client, held, lost, userOn, revokedAt, token, launch, time>>

\* create_api_key: no expiry, or one in the future.
CreateKeyCommit(s, k, expires) ==
    /\ call[s].pc = "create" /\ key[k] = NoKey
    /\ expires = Unset \/ expires > time
    /\ key' = [key EXCEPT ![k] = [status |-> "active", scopes |-> call[s].perms, expires |-> expires]]
    /\ call' = [call EXCEPT ![s] = IdleCall]
    /\ UNCHANGED <<client, held, lost, userOn, revokedAt, token, launch, time>>

\* Publishing the invalidation may fail and is not retried; nothing here
\* depends on it.
RevokeApiKey(k) ==
    /\ key[k].status # "none"
    /\ key' = [key EXCEPT ![k].status = "revoked"]
    /\ revokedAt' = [revokedAt EXCEPT ![k] = IF @ = Unset THEN time ELSE @]
    /\ UNCHANGED <<client, held, lost, userOn, token, launch, call, time>>

\* Mutant of VerifiesKey: a key that is only looked up and held to its expiry.
VerifiesKeyUnrevoked(k) == key[k].status # "none" /\ (key[k].expires = Unset \/ key[k].expires >= time)

\* verify_api_key
VerifiesKey(k) == key[k].status = "active" /\ (key[k].expires = Unset \/ key[k].expires >= time)

\* exchange_api_key: key, creator and membership are read, then the token is
\* signed with the scopes the creator still holds.
ExchangeRead(s, k) ==
    /\ call[s] = IdleCall
    /\ VerifiesKey(k) /\ userOn
    /\ call' = [call EXCEPT ![s] = [pc |-> "exchange", key |-> k, perms |-> key[k].scopes \cap held]]
    /\ UNCHANGED <<key, client, held, lost, userOn, revokedAt, token, launch, time>>

ExchangeSign(s, t) ==
    /\ call[s].pc = "exchange"
    /\ IssueDerived(t, "api_key", call[s].key, call[s].perms)
    /\ call' = [call EXCEPT ![s] = IdleCall]
    /\ UNCHANGED <<key, client, held, lost, userOn, revokedAt, launch, time>>

---------------------------------------------------------------------------
(* OAuth clients and what their service tokens are traded for.             *)

CreateOAuthClient(c, S) ==
    /\ client[c] = NoClient /\ userOn
    /\ S \subseteq held
    /\ client' = [client EXCEPT ![c] = [status |-> "active", scopes |-> S]]
    /\ UNCHANGED <<key, held, lost, userOn, revokedAt, token, launch, call, time>>

RevokeOAuthClient(c) ==
    /\ client[c].status # "none"
    /\ client' = [client EXCEPT ![c].status = "revoked"]
    /\ revokedAt' = [revokedAt EXCEPT ![c] = IF @ = Unset THEN time ELSE @]
    /\ UNCHANGED <<key, held, lost, userOn, token, launch, call, time>>

\* POST /oauth/token: all the client's scopes, or those asked for.
ClientCredentials(c, t, S) ==
    /\ ActiveClient(c) /\ S \subseteq client[c].scopes
    /\ IssueDerived(t, "service", c, S)
    /\ UNCHANGED <<key, client, held, lost, userOn, revokedAt, launch, call, time>>

\* _active_service and toolserver_registration_service.issue: the scope is in
\* the token and in the client's row, and the client is active now.
ActiveService(t, scope) ==
    /\ Fresh(t) /\ token[t].kind = "service"
    /\ ActiveClient(token[t].src)
    /\ scope \in token[t].perms \cap client[token[t].src].scopes

\* delegated_execution_service.issue: no more than the service and the member
\* may do now.
MayDelegate(t, S) ==
    /\ S # {} /\ S \subseteq Accepted
    /\ userOn /\ S \subseteq held
    /\ S \subseteq token[t].perms \cap client[token[t].src].scopes

\* For the member's own usable token.
DelegateExecution(t, u, S) ==
    /\ ActiveService(t, Delegate) /\ MayDelegate(t, S)
    /\ IssueDerived(u, "delegated", token[t].src, S)
    /\ UNCHANGED <<key, client, held, lost, userOn, revokedAt, launch, call, time>>

RegisterToolServer(t, u) ==
    /\ ActiveService(t, Register)
    /\ IssueDerived(u, "registration", token[t].src, {Register})
    /\ UNCHANGED <<key, client, held, lost, userOn, revokedAt, launch, call, time>>

---------------------------------------------------------------------------
(* Tokens on behalf of the member.                                         *)

\* mint_user_service_token: the member's own permissions; privileged ones only
\* if the calling service may mint those.
MintUserToken(t, allowPrivileged) ==
    /\ userOn
    /\ allowPrivileged \/ held \cap Privileged = {}
    /\ IssueDerived(t, "mint", NoSource, held)
    /\ UNCHANGED <<key, client, held, lost, userOn, revokedAt, launch, call, time>>

\* GET /oauth/authorize, with any usable user token that says manage_all_orgs:
\* the code stores that token's claims.
AuthorizeLaunch(t, x) ==
    /\ Fresh(t) /\ token[t].kind \in {"api_key", "mint", "launch"} /\ userOn
    /\ AllOrgs \in token[t].perms
    /\ launch[x] = NoLaunch
    /\ launch' = [launch EXCEPT ![x] = [perms |-> token[t].perms, exp |-> time + CodeTTL]]
    /\ UNCHANGED <<key, client, held, lost, userOn, revokedAt, token, call, time>>

\* GETDEL first, then the checks: a refused request burns the code; the claims
\* of the new token are the stored ones.
RedeemLaunch(x, t, matches) ==
    /\ launch[x] # NoLaunch
    /\ launch' = [launch EXCEPT ![x] = NoLaunch]
    /\ IF matches /\ time <= launch[x].exp
       THEN IssueDerived(t, "launch", NoSource, launch[x].perms)
       ELSE UNCHANGED token
    /\ UNCHANGED <<key, client, held, lost, userOn, revokedAt, call, time>>

---------------------------------------------------------------------------
(* What changes under them.                                                *)

\* A role of the member is changed.
ChangeHeld(p) ==
    /\ held' = IF p \in held THEN held \ {p} ELSE held \cup {p}
    /\ lost' = IF p \in held THEN [lost EXCEPT ![p] = time] ELSE lost
    /\ UNCHANGED <<key, client, userOn, revokedAt, token, launch, call, time>>

SuspendUser ==
    /\ userOn' = ~userOn
    /\ UNCHANGED <<key, client, held, lost, revokedAt, token, launch, call, time>>

\* A tick is longer than a request: none is in flight across it.
CredentialsTick ==
    /\ time < CredTime
    /\ \A s \in Calls : call[s] = IdleCall
    /\ time' = time + 1
    /\ UNCHANGED <<key, client, held, lost, userOn, revokedAt, token, launch, call>>

CredentialsNext ==
    \/ \E s \in Calls, self \in BOOLEAN, S \in ScopeLists : CreateKeyRead(s, self, S)
    \/ \E s \in Calls, k \in ApiKeys, e \in {Unset, time + 1} \cap Times : CreateKeyCommit(s, k, e)
    \/ \E k \in ApiKeys : RevokeApiKey(k)
    \/ \E s \in Calls, k \in ApiKeys : ExchangeRead(s, k)
    \/ \E s \in Calls, t \in Tokens : ExchangeSign(s, t)
    \/ \E c \in Clients, S \in ScopeLists : CreateOAuthClient(c, S)
    \/ \E c \in Clients : RevokeOAuthClient(c)
    \/ \E c \in Clients, t \in Tokens, S \in ScopeLists : ClientCredentials(c, t, S)
    \/ \E t, u \in Tokens, S \in ScopeLists : DelegateExecution(t, u, S)
    \/ \E t, u \in Tokens : RegisterToolServer(t, u)
    \/ \E t \in Tokens, all \in BOOLEAN : MintUserToken(t, all)
    \/ \E t \in Tokens, x \in LaunchCodes : AuthorizeLaunch(t, x)
    \/ \E t \in Tokens, x \in LaunchCodes, ok \in BOOLEAN : RedeemLaunch(x, t, ok)
    \/ \E p \in Accepted \cup {AllOrgs} : ChangeHeld(p)
    \/ SuspendUser
    \/ CredentialsTick

CredentialsSpec == CredentialsInit /\ [][CredentialsNext]_credVars

---------------------------------------------------------------------------
(* Who accepts a derived token, and what they look up.                     *)

\* get_current_user: the token and users.status (its Redis blacklist is in
\* AccessTokens).
UserTokenAccepted(t) == Fresh(t) /\ userOn /\ token[t].kind \in {"api_key", "mint", "launch"}

\* require_service_scope: the token alone.
ServiceTokenAccepted(t) == Fresh(t) /\ token[t].kind = "service"

\* delegated_execution_service.introspect
DelegationAccepted(t) ==
    /\ Fresh(t) /\ token[t].kind = "delegated" /\ userOn
    /\ ActiveClient(token[t].src)
    /\ {Delegate} \cup token[t].perms \subseteq client[token[t].src].scopes
    /\ token[t].perms \subseteq held

\* toolserver_registration_service.introspect
RegistrationAccepted(t) ==
    /\ Fresh(t) /\ token[t].kind = "registration"
    /\ ActiveClient(token[t].src) /\ Register \in client[token[t].src].scopes

Honoured(t) == UserTokenAccepted(t) \/ ServiceTokenAccepted(t) \/ DelegationAccepted(t)
               \/ RegistrationAccepted(t)

\* How long after a withdrawal a token of the kind may still be honoured: its
\* lifetime, nothing where the acceptor looks the source up again.
Grace(kind) == IF kind \in {"delegated", "registration"} THEN 0 ELSE TokenLife[kind]

SourceWithdrawn(t) == token[t].src # NoSource /\ revokedAt[token[t].src] # Unset

\* Whatever was withdrawn (a key, a client, a permission of the member) stops
\* working within the lifetime of the last token made of it, and at once for
\* the tokens an introspection vouches for.  Launch tokens renew their claims
\* from each other and are left out.
RevocationBounded ==
    \A t \in Tokens : Honoured(t) /\ token[t].kind # "launch" =>
        /\ SourceWithdrawn(t) => time - revokedAt[token[t].src] <= Grace(token[t].kind)
                                 /\ token[t].kind \notin {"delegated", "registration"}
        /\ token[t].kind \in {"api_key", "mint", "delegated"} =>
              \A p \in token[t].perms : p \in held \/ time - lost[p] <= Grace(token[t].kind)
===========================================================================
