---------------------------- MODULE BearerProofs ----------------------------
(***************************************************************************)
(* Theorems about what a bearer presents: the tokens of AccessTokens, the    *)
(* credentials of ServiceCredentials and the licences of Licenses, for any   *)
(* number of tokens, keys, clients, licences and overlapping requests, and   *)
(* every lifetime.                                                           *)
(***************************************************************************)
EXTENDS AccessTokens, ServiceCredentials, Licenses, FiniteSetTheorems, TLAPS

---------------------------------------------------------------------------
(* AccessTokens                                                            *)

\* A logout in flight names a pair that was signed.
LogoutNamesPair ==
    \A s \in Logouts : logouts[s].pc = "blacklist" =>
        logouts[s].pair \in Pairs /\ pairs[logouts[s].pair].born # Never

\* Pairs are signed in the past; what is not signed has no claims.
SignedInPast ==
    \A p \in Pairs : /\ pairs[p].born # Never => pairs[p].born <= now
                     /\ pairs[p].born = Never => pairs[p] = Unsigned

\* What a logout answered with 200 leaves behind: the key outlives the token,
\* or there was no life left in it.
LogoutLasts ==
    \A p \in loggedOut : /\ pairs[p].born # Never
                         /\ blacklist[p] >= Exp(p, "access") \/ now > Exp(p, "access")

\* A claim holds, or ceased to no earlier than its pair was signed.
ClaimsOnceTrue ==
    \A p \in Pairs : pairs[p].born # Never =>
        \A f \in pairs[p].claims : f \in granted \/ lostAt[f] >= pairs[p].born

TokensInv ==
    /\ TokensTypeOK
    /\ LogoutNamesPair
    /\ SignedInPast
    /\ LogoutLasts
    /\ ClaimsOnceTrue

LEMMA TokensInvInit == TokensInit => TokensInv
BY AccessTokensAssumption
DEF TokensInit, TokensInv, TokensTypeOK, LogoutNamesPair, SignedInPast, LogoutLasts, ClaimsOnceTrue,
    Unsigned, IdleLogout, Never

\* UserClaims are facts that hold.
LEMMA ClaimsGranted ==
    ASSUME TokensTypeOK, NEW asked \in BOOLEAN
    PROVE  UserClaims(asked) \subseteq granted
BY DEF UserClaims

\* Every issuing path signs one unsigned pair with claims that hold.
Signing(q) ==
    /\ q \in Pairs
    /\ \E C \in SUBSET granted : Sign(q, C)
    /\ live' \in SUBSET Pairs
    /\ UNCHANGED <<granted, lostAt, active, blacklist, redisUp, logouts, loggedOut, now>>

LEMMA SigningKeepsInv ==
    ASSUME TokensInv, NEW q, Signing(q)
    PROVE  TokensInv'
<1> USE DEF TokensInv
<1>1. PICK C \in SUBSET granted : Sign(q, C)
  BY DEF Signing
<1>u. Unsigned.born = Never
  BY DEF Unsigned
<1>2. /\ q \in Pairs /\ pairs[q].born = Never
      /\ pairs' = [pairs EXCEPT ![q] = [born |-> now, claims |-> C]]
  BY <1>1, <1>u DEF Sign, Signing
<1>3. \A p \in Pairs \ {q} : pairs'[p] = pairs[p]
  BY <1>2 DEF TokensTypeOK
<1>4. pairs'[q] = [born |-> now, claims |-> C]
  BY <1>2 DEF TokensTypeOK
<1>5. TokensTypeOK'
  BY <1>2, AccessTokensAssumption DEF TokensTypeOK, Signing
<1>6. LogoutNamesPair'
  BY <1>2, <1>3, <1>4, AccessTokensAssumption DEF LogoutNamesPair, Signing, TokensTypeOK, Never
<1>7. SignedInPast'
  BY <1>3, <1>4 DEF SignedInPast, Signing, TokensTypeOK, Never
<1>8. LogoutLasts'
  BY <1>2, <1>3 DEF LogoutLasts, Signing, TokensTypeOK, Exp
<1>9. ClaimsOnceTrue'
  BY <1>3, <1>4 DEF ClaimsOnceTrue, Signing
<1> QED
  BY <1>5, <1>6, <1>7, <1>8, <1>9

LEMMA IssuingSigns ==
    ASSUME TokensInv, NEW p \in Pairs, NEW q \in Pairs, NEW team \in BOOLEAN,
           Login(q) \/ Refresh(p, q) \/ SwitchTeam(p, q, team)
    PROVE  Signing(q)
<1>1. \A asked \in BOOLEAN : UserClaims(asked) \in SUBSET granted
  BY ClaimsGranted DEF TokensInv
<1>2. live \in SUBSET Pairs
  BY DEF TokensInv, TokensTypeOK
<1>3. \E asked \in BOOLEAN : Sign(q, UserClaims(asked))
  <2>1. (TeamFact \in pairs[p].claims) \in BOOLEAN
    OBVIOUS
  <2> QED
    BY <2>1 DEF Login, Refresh, SwitchTeam
<1>4. \E C \in SUBSET granted : Sign(q, C)
  BY <1>1, <1>3
<1> QED
  BY <1>2, <1>4 DEF Login, Refresh, SwitchTeam, Signing

LEMMA BlacklistKeepsInv ==
    ASSUME TokensInv, NEW s \in Logouts, LogoutBlacklist(s)
    PROVE  TokensInv'
<1> USE DEF TokensInv
<1> DEFINE p == logouts[s].pair
<1>1. p \in Pairs /\ pairs[p].born # Never /\ pairs[p].born \in 0..MaxTime
  BY DEF LogoutBlacklist, LogoutNamesPair, TokensTypeOK
<1>2. /\ Exp(p, "access") \in 0..(MaxTime + AccessLife)
      /\ Decodes(p, "access") => /\ BlacklistUntil(p) \in 0..(MaxTime + RefreshLife)
                                 /\ BlacklistUntil(p) >= Exp(p, "access")
      /\ ~Decodes(p, "access") => now > Exp(p, "access")
  <2> HIDE DEF p
  <2>1. now \in 0..MaxTime /\ pairs[p].born <= now
    BY <1>1 DEF TokensTypeOK, SignedInPast
  <2> QED
    BY <1>1, <2>1, AccessTokensAssumption DEF Exp, Life, Decodes, BlacklistUntil
<1>3. /\ loggedOut' = loggedOut \cup {p}
      /\ blacklist' = IF Decodes(p, "access")
                      THEN [blacklist EXCEPT ![p] = BlacklistUntil(p)] ELSE blacklist
      /\ logouts' = [logouts EXCEPT ![s] = IdleLogout]
      /\ UNCHANGED <<pairs, live, granted, lostAt, active, redisUp, now>>
  BY DEF LogoutBlacklist
<1> HIDE DEF p
<1>4. TokensTypeOK'
  BY <1>1, <1>2, <1>3 DEF TokensTypeOK, IdleLogout
<1>5. LogoutNamesPair'
  BY <1>3 DEF LogoutNamesPair, TokensTypeOK, IdleLogout
<1>6. SignedInPast' /\ ClaimsOnceTrue'
  BY <1>3 DEF SignedInPast, ClaimsOnceTrue
<1>7. LogoutLasts'
  <2>1. \A q \in Pairs : Exp(q, "access")' = Exp(q, "access")
    BY <1>3 DEF Exp
  <2>2. \A q \in Pairs \ {p} : blacklist'[q] = blacklist[q]
    BY <1>3 DEF TokensTypeOK
  <2>3. blacklist'[p] >= Exp(p, "access") \/ now > Exp(p, "access")
    BY <1>1, <1>2, <1>3 DEF TokensTypeOK
  <2>4. loggedOut' \subseteq Pairs
    BY <1>1, <1>3 DEF TokensTypeOK
  <2> QED
    BY <1>1, <1>3, <2>1, <2>2, <2>3, <2>4 DEF LogoutLasts
<1> QED
  BY <1>4, <1>5, <1>6, <1>7

LEMMA TokensInvNext == TokensInv /\ [TokensNext]_tokenVars => TokensInv'
<1> SUFFICES ASSUME TokensInv, [TokensNext]_tokenVars PROVE TokensInv'
  OBVIOUS
<1> USE DEF TokensInv
<1>1. ASSUME NEW p \in Pairs, NEW q \in Pairs, NEW team \in BOOLEAN,
             Login(q) \/ Refresh(p, q) \/ SwitchTeam(p, q, team)
      PROVE  TokensInv'
  BY <1>1, IssuingSigns, SigningKeepsInv
<1>2. ASSUME NEW s \in Logouts, NEW p \in Pairs, LogoutRevoke(s, p) PROVE TokensInv'
  <2>1. pairs[p].born # Never
    BY <1>2, AccessTokensAssumption DEF LogoutRevoke, TokensTypeOK, Unsigned, SignedInPast
  <2> QED
    BY <1>2, <2>1
    DEF LogoutRevoke, TokensTypeOK, LogoutNamesPair, SignedInPast, LogoutLasts, ClaimsOnceTrue, Exp
<1>3. ASSUME NEW s \in Logouts, LogoutBlacklist(s) PROVE TokensInv'
  BY <1>3, BlacklistKeepsInv
<1>4. ASSUME NEW s \in Logouts, LogoutFails(s) PROVE TokensInv'
  BY <1>4 DEF LogoutFails, TokensTypeOK, LogoutNamesPair, SignedInPast, LogoutLasts,
              ClaimsOnceTrue, Exp, IdleLogout
<1>5. ASSUME NEW f \in Facts, ChangeGrant(f) PROVE TokensInv'
  <2>1. TokensTypeOK' /\ LogoutNamesPair' /\ SignedInPast' /\ LogoutLasts'
    BY <1>5 DEF ChangeGrant, TokensTypeOK, LogoutNamesPair, SignedInPast, LogoutLasts, Exp
  <2>2. ClaimsOnceTrue'
    BY <1>5 DEF ChangeGrant, ClaimsOnceTrue, TokensTypeOK, SignedInPast
  <2> QED
    BY <2>1, <2>2
<1>6. ASSUME NEW on \in BOOLEAN, SetUserStatus(on) PROVE TokensInv'
  BY <1>6 DEF SetUserStatus, TokensTypeOK, LogoutNamesPair, SignedInPast, LogoutLasts,
              ClaimsOnceTrue, Exp
<1>7. CASE RedisTurns
  BY <1>7 DEF RedisTurns, TokensTypeOK, LogoutNamesPair, SignedInPast, LogoutLasts,
              ClaimsOnceTrue, Exp
<1>8. CASE Tick
  <2>1. TokensTypeOK' /\ LogoutNamesPair' /\ SignedInPast' /\ ClaimsOnceTrue'
    BY <1>8, AccessTokensAssumption
    DEF Tick, TokensTypeOK, LogoutNamesPair, SignedInPast, ClaimsOnceTrue, Never
  <2>2. LogoutLasts'
    BY <1>8, AccessTokensAssumption DEF Tick, TokensTypeOK, LogoutLasts, Exp, Life, Never
  <2> QED
    BY <2>1, <2>2
<1>9. CASE UNCHANGED tokenVars
  BY <1>9 DEF tokenVars, TokensTypeOK, LogoutNamesPair, SignedInPast, LogoutLasts,
              ClaimsOnceTrue, Exp
<1> QED
  BY <1>1, <1>2, <1>3, <1>4, <1>5, <1>6, <1>7, <1>8, <1>9 DEF TokensNext

LEMMA TokensInvHolds == TokensSpec => []TokensInv
BY TokensInvInit, TokensInvNext, PTL DEF TokensSpec

\* The signed pairs, the blacklist and the requests in flight keep their types.
THEOREM TokensTypeCorrect == TokensSpec => []TokensTypeOK
BY TokensInvHolds, PTL DEF TokensInv

LEMMA LogoutSound == TokensInv => LogoutHolds
<1> SUFFICES ASSUME TokensInv, NEW p \in loggedOut, Usable(p, "access")
             PROVE  now >= Exp(p, "access")
  BY DEF LogoutHolds
<1>1. p \in Pairs /\ now >= blacklist[p] /\ now <= Exp(p, "access")
  BY DEF TokensInv, TokensTypeOK, Usable, Blacklisted, Decodes, Never
<1>2. blacklist[p] >= Exp(p, "access")
  BY <1>1, AccessTokensAssumption DEF TokensInv, TokensTypeOK, LogoutLasts, Exp, Life, Never
<1> QED
  BY <1>1, <1>2, AccessTokensAssumption DEF TokensInv, TokensTypeOK, Exp, Life, Never

\* POST /auth/logout: what was answered 200 is final, for every number of
\* pairs and logouts, every lifetime and every behaviour of Redis.
THEOREM LogoutIsFinal == TokensSpec => []LogoutHolds
BY LogoutSound, TokensInvHolds, PTL

LEMMA ClaimsSound == TokensInv => ClaimsBoundedStale
<1> SUFFICES ASSUME TokensInv, NEW p \in Pairs, NEW k \in Kinds, Usable(p, k),
                    NEW f \in pairs[p].claims, f \notin granted
             PROVE  now - lostAt[f] <= Life(k)
  BY DEF ClaimsBoundedStale
<1>1. pairs[p].born # Never /\ now <= pairs[p].born + Life(k)
  BY DEF Usable, Decodes, Exp
<1>2. lostAt[f] >= pairs[p].born
  BY <1>1 DEF TokensInv, ClaimsOnceTrue
<1>3. /\ f \in Facts /\ lostAt[f] \in Int /\ now \in Int /\ pairs[p].born \in Int
      /\ Life(k) \in Int
  BY AccessTokensAssumption DEF TokensInv, TokensTypeOK, Never, Life
<1> QED
  BY <1>1, <1>2, <1>3

\* build_user_claims at every issue: a claim that is honoured was true within
\* the lifetime of the token that carries it, however often it was refreshed.
THEOREM ClaimsAgeBounded == TokensSpec => []ClaimsBoundedStale
BY ClaimsSound, TokensInvHolds, PTL

---------------------------------------------------------------------------
(* ServiceCredentials                                                      *)

\* A key or a client is revoked once, and never active again.
ActiveUnrevoked ==
    /\ \A k \in ApiKeys : key[k].status \in {"none", "active"} => revokedAt[k] = Unset
    /\ \A c \in Clients : client[c].status \in {"none", "active"} => revokedAt[c] = Unset

\* What each kind of token is made of.
SourceOfKind(kind) ==
    IF kind = "api_key" THEN ApiKeys
    ELSE IF kind \in {"service", "delegated", "registration"} THEN Clients
    ELSE {NoSource}

\* x was not revoked, and p not taken away, before the time given.
NotRevokedBefore(x, at) == revokedAt[x] = Unset \/ revokedAt[x] >= at
NotLostBefore(p, at) == p \in held \/ lost[p] >= at

\* A token was signed while its source was good and its permissions were held.
WellDerived(t) ==
    /\ token[t].src \in SourceOfKind(token[t].kind)
    /\ token[t].kind # "none" => token[t].born \in 0..time
    /\ token[t].src # NoSource => NotRevokedBefore(token[t].src, token[t].born)
    /\ token[t].kind \in {"api_key", "mint"} =>
          \A p \in token[t].perms : NotLostBefore(p, token[t].born)

\* An exchange between its reads and its signature: what was withdrawn
\* meanwhile was withdrawn in this very tick.
ExchangeCurrent(s) ==
    call[s].pc = "exchange" =>
        /\ call[s].key \in ApiKeys
        /\ NotRevokedBefore(call[s].key, time)
        /\ \A p \in call[s].perms : NotLostBefore(p, time)

CredentialsInv ==
    /\ CredentialsTypeOK
    /\ ActiveUnrevoked
    /\ \A t \in Tokens : WellDerived(t)
    /\ \A s \in Calls : ExchangeCurrent(s)

LEMMA CredentialsInvInit == CredentialsInit => CredentialsInv
<1> SUFFICES ASSUME CredentialsInit PROVE CredentialsInv
  OBVIOUS
<1>1. CredentialsTypeOK
  BY ServiceCredentialsAssumption
  DEF CredentialsInit, CredentialsTypeOK, NoKey, NoClient, NoToken, NoLaunch, IdleCall, Times, Unset
<1>2. ActiveUnrevoked
  BY DEF CredentialsInit, ActiveUnrevoked
<1>3. ASSUME NEW t \in Tokens PROVE WellDerived(t)
  BY DEF CredentialsInit, WellDerived, SourceOfKind, NoToken
<1>4. ASSUME NEW s \in Calls PROVE ExchangeCurrent(s)
  BY DEF CredentialsInit, ExchangeCurrent, IdleCall
<1> QED
  BY <1>1, <1>2, <1>3, <1>4 DEF CredentialsInv

\* What every issuing path checks of the token it signs.
Derives(t, kind, src, perms) ==
    /\ kind \in TokenKinds /\ src \in SourceOfKind(kind) /\ perms \in SUBSET Grantable
    /\ src # NoSource => NotRevokedBefore(src, time)
    /\ kind \in {"api_key", "mint"} => \A p \in perms : NotLostBefore(p, time)
    /\ IssueDerived(t, kind, src, perms)

\* A token more is all that changes in the rows the invariant relates.
LEMMA DerivingKeepsTokens ==
    ASSUME CredentialsInv, NEW t \in Tokens, NEW kind, NEW src, NEW perms,
           Derives(t, kind, src, perms),
           UNCHANGED <<key, client, held, lost, userOn, revokedAt, time>>
    PROVE  /\ token' \in [Tokens -> [kind : TokenKinds \cup {"none"},
                        src : ApiKeys \cup Clients \cup {NoSource},
                        perms : SUBSET Grantable, born : Times]]
           /\ ActiveUnrevoked'
           /\ \A u \in Tokens : WellDerived(u)'
<1> DEFINE row == [kind |-> kind, src |-> src, perms |-> perms, born |-> time]
<1>1. /\ token' = [token EXCEPT ![t] = row]
      /\ src \in ApiKeys \cup Clients \cup {NoSource}
      /\ time \in 0..CredTime
  BY DEF Derives, IssueDerived, SourceOfKind, CredentialsInv, CredentialsTypeOK
<1>2. row \in [kind : TokenKinds \cup {"none"}, src : ApiKeys \cup Clients \cup {NoSource},
               perms : SUBSET Grantable, born : Times]
  BY <1>1 DEF Derives, Times
<1>3. token' \in [Tokens -> [kind : TokenKinds \cup {"none"},
                        src : ApiKeys \cup Clients \cup {NoSource},
                        perms : SUBSET Grantable, born : Times]]
  BY <1>1, <1>2 DEF CredentialsInv, CredentialsTypeOK
<1>4. token'[t] = row /\ \A u \in Tokens \ {t} : token'[u] = token[u]
  BY <1>1 DEF CredentialsInv, CredentialsTypeOK
<1>5. ActiveUnrevoked'
  BY DEF CredentialsInv, ActiveUnrevoked
<1>6. ASSUME NEW u \in Tokens PROVE WellDerived(u)'
  <2>1. CASE u = t
    <3>1. /\ token'[u].src = src /\ token'[u].kind = kind /\ token'[u].perms = perms
          /\ token'[u].born = time
      BY <1>4, <2>1
    <3> QED
      BY <1>1, <3>1 DEF WellDerived, Derives, NotRevokedBefore, NotLostBefore, SourceOfKind
  <2>2. CASE u # t
    BY <1>4, <2>2 DEF CredentialsInv, WellDerived, NotRevokedBefore, NotLostBefore
  <2> QED
    BY <2>1, <2>2
<1> QED
  BY <1>3, <1>5, <1>6

LEMMA IssuingKeepsInv ==
    ASSUME CredentialsInv, NEW t \in Tokens, NEW kind, NEW src, NEW perms,
           Derives(t, kind, src, perms),
           UNCHANGED <<key, client, held, lost, userOn, revokedAt, time>>,
           launch' \in [LaunchCodes -> [perms : SUBSET Grantable,
                                       exp : {Unset} \cup 0..(CredTime + CodeTTL)]],
           \/ UNCHANGED call
           \/ \E s \in Calls : call' = [call EXCEPT ![s] = IdleCall]
    PROVE  CredentialsInv'
<1>1. CredentialsTypeOK'
  <2> DEFINE CallRow == [pc : {"idle", "create", "exchange"}, key : ApiKeys \cup {NoSource},
                         perms : SUBSET Grantable]
  <2>1. IdleCall \in CallRow
    BY DEF IdleCall
  <2>2. call \in [Calls -> CallRow]
    BY DEF CredentialsInv, CredentialsTypeOK
  <2>3. call' \in [Calls -> CallRow]
    <3> HIDE DEF CallRow
    <3> QED
      BY <2>1, <2>2
  <2> QED
    BY <2>3, DerivingKeepsTokens DEF CredentialsInv, CredentialsTypeOK
<1>2. ASSUME NEW s \in Calls PROVE ExchangeCurrent(s)'
  <2>1. call'[s] \in {call[s], IdleCall}
    BY DEF CredentialsInv, CredentialsTypeOK
  <2> QED
    BY <2>1 DEF CredentialsInv, ExchangeCurrent, NotRevokedBefore, NotLostBefore, IdleCall
<1> QED
  BY <1>1, <1>2, DerivingKeepsTokens DEF CredentialsInv

\* A service token's client, if it is active, was never revoked.
LEMMA ActiveServiceSource ==
    ASSUME CredentialsInv, NEW t \in Tokens, NEW scope, ActiveService(t, scope)
    PROVE  token[t].src \in Clients /\ NotRevokedBefore(token[t].src, time)
BY DEF CredentialsInv, WellDerived, SourceOfKind, ActiveService, ActiveClient, ActiveUnrevoked,
       NotRevokedBefore

\* delegated_execution_service, toolserver_registration_service, /oauth/token,
\* mint_user_service_token and exchange_api_key sign what the invariant allows.
LEMMA IssuersDerive ==
    ASSUME CredentialsInv, NEW t \in Tokens, NEW u \in Tokens
    PROVE  /\ \A s \in Calls : ExchangeSign(s, t) =>
                  Derives(t, "api_key", call[s].key, call[s].perms)
           /\ \A c \in Clients, S \in ScopeLists : ClientCredentials(c, t, S) =>
                  Derives(t, "service", c, S)
           /\ \A S \in ScopeLists : DelegateExecution(t, u, S) =>
                  Derives(u, "delegated", token[t].src, S)
           /\ RegisterToolServer(t, u) => Derives(u, "registration", token[t].src, {Register})
           /\ \A all \in BOOLEAN : MintUserToken(t, all) => Derives(t, "mint", NoSource, held)
<1> USE DEF CredentialsInv, TokenKinds
<1>1. ASSUME NEW s \in Calls, ExchangeSign(s, t)
      PROVE  Derives(t, "api_key", call[s].key, call[s].perms)
  BY <1>1 DEF ExchangeSign, Derives, SourceOfKind, ExchangeCurrent, CredentialsTypeOK
<1>2. ASSUME NEW c \in Clients, NEW S \in ScopeLists, ClientCredentials(c, t, S)
      PROVE  Derives(t, "service", c, S)
  <2>1. S \in SUBSET Grantable
    BY ServiceCredentialsAssumption
  <2>2. NotRevokedBefore(c, time)
    BY <1>2 DEF ClientCredentials, ActiveClient, ActiveUnrevoked, NotRevokedBefore
  <2> QED
    BY <1>2, <2>1, <2>2 DEF ClientCredentials, Derives, SourceOfKind
<1>3. ASSUME NEW S \in ScopeLists, DelegateExecution(t, u, S)
      PROVE  Derives(u, "delegated", token[t].src, S)
  <2>1. S \in SUBSET Grantable
    BY ServiceCredentialsAssumption
  <2> QED
    BY <1>3, <2>1, ActiveServiceSource DEF DelegateExecution, Derives, SourceOfKind
<1>4. ASSUME RegisterToolServer(t, u)
      PROVE  Derives(u, "registration", token[t].src, {Register})
  BY <1>4, ActiveServiceSource DEF RegisterToolServer, Derives, SourceOfKind, Grantable
<1>5. ASSUME NEW all \in BOOLEAN, MintUserToken(t, all)
      PROVE  Derives(t, "mint", NoSource, held)
  BY <1>5 DEF MintUserToken, Derives, SourceOfKind, CredentialsTypeOK, NotLostBefore
<1> QED
  BY <1>1, <1>2, <1>3, <1>4, <1>5

LEMMA KeyRequestsKeepInv ==
    ASSUME CredentialsInv
    PROVE  \/ \E s \in Calls, self \in BOOLEAN, S \in ScopeLists : CreateKeyRead(s, self, S)
           \/ \E s \in Calls, k \in ApiKeys, e \in Times : CreateKeyCommit(s, k, e)
           \/ \E s \in Calls, k \in ApiKeys : ExchangeRead(s, k)
           => CredentialsInv'
<1> USE DEF CredentialsInv
<1>t. (\A S \in ScopeLists : S \in SUBSET Grantable) /\ time \in 0..CredTime
  BY ServiceCredentialsAssumption DEF CredentialsTypeOK
<1>1. ASSUME NEW s \in Calls, NEW self \in BOOLEAN, NEW S \in ScopeLists, CreateKeyRead(s, self, S)
      PROVE  CredentialsInv'
  <2>1. CredentialsTypeOK'
    BY <1>1, <1>t DEF CreateKeyRead, CredentialsTypeOK, IdleCall
  <2>2. ActiveUnrevoked' /\ \A t \in Tokens : WellDerived(t)'
    BY <1>1 DEF CreateKeyRead, ActiveUnrevoked, WellDerived, NotRevokedBefore, NotLostBefore
  <2>3. \A r \in Calls : ExchangeCurrent(r)'
    BY <1>1 DEF CreateKeyRead, ExchangeCurrent, NotRevokedBefore, NotLostBefore, IdleCall,
                CredentialsTypeOK
  <2> QED
    BY <2>1, <2>2, <2>3
<1>2. ASSUME NEW s \in Calls, NEW k \in ApiKeys, NEW e \in Times, CreateKeyCommit(s, k, e)
      PROVE  CredentialsInv'
  <2>1. CredentialsTypeOK'
    BY <1>2, <1>t DEF CreateKeyCommit, CredentialsTypeOK, IdleCall
  <2>2. ActiveUnrevoked'
    BY <1>2 DEF CreateKeyCommit, ActiveUnrevoked, NoKey, CredentialsTypeOK
  <2>3. \A t \in Tokens : WellDerived(t)'
    BY <1>2 DEF CreateKeyCommit, WellDerived, NotRevokedBefore, NotLostBefore
  <2>4. \A r \in Calls : ExchangeCurrent(r)'
    BY <1>2 DEF CreateKeyCommit, ExchangeCurrent, NotRevokedBefore, NotLostBefore, IdleCall,
                CredentialsTypeOK
  <2> QED
    BY <2>1, <2>2, <2>3, <2>4
<1>3. ASSUME NEW s \in Calls, NEW k \in ApiKeys, ExchangeRead(s, k)
      PROVE  CredentialsInv'
  <2>1. key[k].scopes \cap held \in SUBSET Grantable /\ revokedAt[k] = Unset
    BY <1>3 DEF ExchangeRead, VerifiesKey, ActiveUnrevoked, CredentialsTypeOK
  <2>2. CredentialsTypeOK'
    BY <1>3, <2>1 DEF ExchangeRead, CredentialsTypeOK
  <2>3. ActiveUnrevoked' /\ \A t \in Tokens : WellDerived(t)'
    BY <1>3 DEF ExchangeRead, ActiveUnrevoked, WellDerived, NotRevokedBefore, NotLostBefore
  <2>4. ASSUME NEW r \in Calls PROVE ExchangeCurrent(r)'
    <3>1. CASE r = s
      <4>1. /\ call'[r].key = k /\ call'[r].perms = key[k].scopes \cap held
        BY <1>3, <3>1 DEF ExchangeRead, CredentialsTypeOK
      <4> QED
        BY <1>3, <2>1, <4>1 DEF ExchangeRead, ExchangeCurrent, NotRevokedBefore, NotLostBefore
    <3>2. CASE r # s
      BY <1>3, <3>2
      DEF ExchangeRead, ExchangeCurrent, NotRevokedBefore, NotLostBefore, CredentialsTypeOK
    <3> QED
      BY <3>1, <3>2
  <2> QED
    BY <2>2, <2>3, <2>4
<1> QED
  BY <1>1, <1>2, <1>3

\* A withdrawal happens now, which is no earlier than any token's birth.
LEMMA WithdrawalKeepsInv ==
    ASSUME CredentialsInv,
           \/ \E k \in ApiKeys : RevokeApiKey(k)
           \/ \E c \in Clients : RevokeOAuthClient(c)
           \/ \E p \in Accepted \cup {AllOrgs} : ChangeHeld(p)
    PROVE  CredentialsInv'
<1> USE DEF CredentialsInv
<1>t. /\ time \in 0..CredTime /\ time \in Int /\ time' = time
      /\ Accepted \cup {AllOrgs} \subseteq Grantable
      /\ \A t \in Tokens : token[t].kind # "none" => token[t].born <= time /\ token[t].born \in Int
      /\ \A x \in ApiKeys \cup Clients : revokedAt[x] \in Int
      /\ \A q \in Grantable : lost[q] \in Int
  BY ServiceCredentialsAssumption
  DEF CredentialsTypeOK, WellDerived, RevokeApiKey, RevokeOAuthClient, ChangeHeld, Times, Unset,
      Grantable
<1>n. \A t \in Tokens : token[t].kind = "none" => token[t].src = NoSource
  BY DEF WellDerived, SourceOfKind
<1>1. ASSUME NEW k \in ApiKeys, RevokeApiKey(k) PROVE CredentialsInv'
  <2> DEFINE KeyRow == [status : {"none", "active", "revoked"},
                        scopes : SUBSET Grantable, expires : Times]
  <2>a. key' \in [ApiKeys -> KeyRow]
    <3>1. key \in [ApiKeys -> KeyRow] /\ key' = [key EXCEPT ![k].status = "revoked"]
      BY <1>1 DEF RevokeApiKey, CredentialsTypeOK
    <3>2. [key[k] EXCEPT !.status = "revoked"] \in KeyRow
      BY <3>1
    <3>3. key' = [key EXCEPT ![k] = [key[k] EXCEPT !.status = "revoked"]]
      BY <3>1
    <3> HIDE DEF KeyRow
    <3> QED
      BY <3>1, <3>2, <3>3
  <2>b. revokedAt' \in [ApiKeys \cup Clients -> Times]
    BY <1>1, <1>t DEF RevokeApiKey, CredentialsTypeOK, Times
  <2>1. CredentialsTypeOK'
    BY <1>1, <2>a, <2>b DEF RevokeApiKey, CredentialsTypeOK
  <2>2. ActiveUnrevoked'
    BY <1>1, ServiceCredentialsAssumption DEF RevokeApiKey, ActiveUnrevoked, CredentialsTypeOK
  <2>3. \A x \in ApiKeys \cup Clients : revokedAt'[x] = revokedAt[x] \/ revokedAt'[x] = time
    BY <1>1 DEF RevokeApiKey, CredentialsTypeOK
  <2>4. \A x \in ApiKeys \cup Clients : revokedAt[x] # Unset => revokedAt'[x] = revokedAt[x]
    BY <1>1 DEF RevokeApiKey, CredentialsTypeOK
  <2>5. \A x \in ApiKeys \cup Clients : \A at \in Int :
            at <= time /\ NotRevokedBefore(x, at) => NotRevokedBefore(x, at)'
    BY <1>t, <2>3, <2>4 DEF NotRevokedBefore
  <2>6. \A q \in Grantable, at \in Int : NotLostBefore(q, at)' <=> NotLostBefore(q, at)
    BY <1>1 DEF RevokeApiKey, NotLostBefore
  <2>7. ASSUME NEW t \in Tokens PROVE WellDerived(t)'
    BY <1>1, <1>t, <1>n, <2>5, <2>6 DEF RevokeApiKey, WellDerived, CredentialsTypeOK
  <2>8. ASSUME NEW s \in Calls PROVE ExchangeCurrent(s)'
    BY <1>1, <1>t, <2>5, <2>6 DEF RevokeApiKey, ExchangeCurrent, CredentialsTypeOK
  <2> QED
    BY <2>1, <2>2, <2>7, <2>8
<1>2. ASSUME NEW c \in Clients, RevokeOAuthClient(c) PROVE CredentialsInv'
  <2> DEFINE ClientRow == [status : {"none", "active", "revoked"}, scopes : SUBSET Grantable]
  <2>a. client' \in [Clients -> ClientRow]
    <3>1. client \in [Clients -> ClientRow] /\ client' = [client EXCEPT ![c].status = "revoked"]
      BY <1>2 DEF RevokeOAuthClient, CredentialsTypeOK
    <3>2. [client[c] EXCEPT !.status = "revoked"] \in ClientRow
      BY <3>1
    <3>3. client' = [client EXCEPT ![c] = [client[c] EXCEPT !.status = "revoked"]]
      BY <3>1
    <3> HIDE DEF ClientRow
    <3> QED
      BY <3>1, <3>2, <3>3
  <2>b. revokedAt' \in [ApiKeys \cup Clients -> Times]
    BY <1>2, <1>t DEF RevokeOAuthClient, CredentialsTypeOK, Times
  <2>1. CredentialsTypeOK'
    BY <1>2, <2>a, <2>b DEF RevokeOAuthClient, CredentialsTypeOK
  <2>2. ActiveUnrevoked'
    BY <1>2, ServiceCredentialsAssumption DEF RevokeOAuthClient, ActiveUnrevoked, CredentialsTypeOK
  <2>3. \A x \in ApiKeys \cup Clients : revokedAt'[x] = revokedAt[x] \/ revokedAt'[x] = time
    BY <1>2 DEF RevokeOAuthClient, CredentialsTypeOK
  <2>4. \A x \in ApiKeys \cup Clients : revokedAt[x] # Unset => revokedAt'[x] = revokedAt[x]
    BY <1>2 DEF RevokeOAuthClient, CredentialsTypeOK
  <2>5. \A x \in ApiKeys \cup Clients : \A at \in Int :
            at <= time /\ NotRevokedBefore(x, at) => NotRevokedBefore(x, at)'
    BY <1>t, <2>3, <2>4 DEF NotRevokedBefore
  <2>6. \A q \in Grantable, at \in Int : NotLostBefore(q, at)' <=> NotLostBefore(q, at)
    BY <1>2 DEF RevokeOAuthClient, NotLostBefore
  <2>7. ASSUME NEW t \in Tokens PROVE WellDerived(t)'
    BY <1>2, <1>t, <1>n, <2>5, <2>6 DEF RevokeOAuthClient, WellDerived, CredentialsTypeOK
  <2>8. ASSUME NEW s \in Calls PROVE ExchangeCurrent(s)'
    BY <1>2, <1>t, <2>5, <2>6 DEF RevokeOAuthClient, ExchangeCurrent, CredentialsTypeOK
  <2> QED
    BY <2>1, <2>2, <2>7, <2>8
<1>3. ASSUME NEW p \in Accepted \cup {AllOrgs}, ChangeHeld(p) PROVE CredentialsInv'
  <2>1. CredentialsTypeOK'
    BY <1>3, <1>t DEF ChangeHeld, CredentialsTypeOK, Times
  <2>2. ActiveUnrevoked'
    BY <1>3 DEF ChangeHeld, ActiveUnrevoked
  <2>3. \A x, at : NotRevokedBefore(x, at)' <=> NotRevokedBefore(x, at)
    BY <1>3 DEF ChangeHeld, NotRevokedBefore
  <2>4. \A q \in Grantable, at \in Int :
            at <= time /\ NotLostBefore(q, at) => NotLostBefore(q, at)'
    BY <1>3, <1>t DEF ChangeHeld, NotLostBefore, CredentialsTypeOK
  <2>5. ASSUME NEW t \in Tokens PROVE WellDerived(t)'
    BY <1>3, <1>t, <1>n, <2>3, <2>4 DEF ChangeHeld, WellDerived, CredentialsTypeOK
  <2>6. ASSUME NEW s \in Calls PROVE ExchangeCurrent(s)'
    BY <1>3, <1>t, <2>3, <2>4 DEF ChangeHeld, ExchangeCurrent, CredentialsTypeOK
  <2> QED
    BY <2>1, <2>2, <2>5, <2>6
<1> QED
  BY <1>1, <1>2, <1>3

\* Rows of no token: clients created, launch codes, the user, the clock.
LEMMA OtherStepsKeepInv ==
    ASSUME CredentialsInv,
           \/ \E c \in Clients, S \in ScopeLists : CreateOAuthClient(c, S)
           \/ \E t \in Tokens, x \in LaunchCodes : AuthorizeLaunch(t, x)
           \/ \E t \in Tokens, x \in LaunchCodes, ok \in BOOLEAN : RedeemLaunch(x, t, ok)
           \/ SuspendUser
           \/ CredentialsTick
    PROVE  CredentialsInv'
<1> USE DEF CredentialsInv
<1>t. /\ \A S \in ScopeLists : S \in SUBSET Grantable
      /\ time \in 0..CredTime /\ CodeTTL \in Nat /\ CredTime \in Nat
  BY ServiceCredentialsAssumption DEF CredentialsTypeOK
<1>1. ASSUME NEW c \in Clients, NEW S \in ScopeLists, CreateOAuthClient(c, S)
      PROVE  CredentialsInv'
  <2>1. CredentialsTypeOK'
    BY <1>1, <1>t DEF CreateOAuthClient, CredentialsTypeOK
  <2>2. ActiveUnrevoked'
    BY <1>1 DEF CreateOAuthClient, ActiveUnrevoked, NoClient, CredentialsTypeOK
  <2>3. /\ \A u \in Tokens : WellDerived(u)'
        /\ \A s \in Calls : ExchangeCurrent(s)'
    BY <1>1 DEF CreateOAuthClient, WellDerived, ExchangeCurrent, NotRevokedBefore, NotLostBefore
  <2> QED
    BY <2>1, <2>2, <2>3
<1>2. ASSUME NEW t \in Tokens, NEW x \in LaunchCodes, AuthorizeLaunch(t, x)
      PROVE  CredentialsInv'
  <2>1. CredentialsTypeOK'
    BY <1>2, <1>t DEF AuthorizeLaunch, CredentialsTypeOK
  <2>2. /\ ActiveUnrevoked'
        /\ \A u \in Tokens : WellDerived(u)'
        /\ \A s \in Calls : ExchangeCurrent(s)'
    BY <1>2 DEF AuthorizeLaunch, ActiveUnrevoked, WellDerived, ExchangeCurrent, NotRevokedBefore,
                NotLostBefore
  <2> QED
    BY <2>1, <2>2
<1>3. ASSUME NEW t \in Tokens, NEW x \in LaunchCodes, NEW ok \in BOOLEAN, RedeemLaunch(x, t, ok)
      PROVE  CredentialsInv'
  <2>1. launch' \in [LaunchCodes -> [perms : SUBSET Grantable,
                                     exp : {Unset} \cup 0..(CredTime + CodeTTL)]]
    BY <1>3, <1>t DEF RedeemLaunch, CredentialsTypeOK, NoLaunch
  <2>2. CASE UNCHANGED token
    <3>1. CredentialsTypeOK'
      BY <1>3, <2>1, <2>2 DEF RedeemLaunch, CredentialsTypeOK
    <3>2. /\ ActiveUnrevoked'
          /\ \A u \in Tokens : WellDerived(u)'
          /\ \A s \in Calls : ExchangeCurrent(s)'
      BY <1>3, <2>2 DEF RedeemLaunch, ActiveUnrevoked, WellDerived, ExchangeCurrent,
                        NotRevokedBefore, NotLostBefore
    <3> QED
      BY <3>1, <3>2
  <2>3. CASE IssueDerived(t, "launch", NoSource, launch[x].perms)
    <3>1. Derives(t, "launch", NoSource, launch[x].perms)
      BY <2>3 DEF Derives, TokenKinds, SourceOfKind, CredentialsTypeOK
    <3> QED
      BY <1>3, <2>1, <3>1, IssuingKeepsInv DEF RedeemLaunch
  <2> QED
    BY <1>3, <2>2, <2>3 DEF RedeemLaunch
<1>4. CASE SuspendUser
  <2>1. CredentialsTypeOK'
    BY <1>4 DEF SuspendUser, CredentialsTypeOK
  <2> QED
    BY <1>4, <2>1 DEF SuspendUser, ActiveUnrevoked, WellDerived, ExchangeCurrent,
                      NotRevokedBefore, NotLostBefore
<1>5. CASE CredentialsTick
  <2>1. time' \in 0..CredTime /\ time' > time
    BY <1>5, <1>t DEF CredentialsTick
  <2>2. CredentialsTypeOK'
    BY <1>5, <2>1 DEF CredentialsTick, CredentialsTypeOK
  <2>3. ActiveUnrevoked' /\ \A s \in Calls : ExchangeCurrent(s)'
    BY <1>5 DEF CredentialsTick, ActiveUnrevoked, ExchangeCurrent, IdleCall
  <2>4. ASSUME NEW u \in Tokens PROVE WellDerived(u)'
    BY <1>5, <1>t, <2>1 DEF CredentialsTick, WellDerived, NotRevokedBefore, NotLostBefore
  <2> QED
    BY <2>2, <2>3, <2>4
<1> QED
  BY <1>1, <1>2, <1>3, <1>4, <1>5

\* The rows of the paths that sign a token are all that those paths change.
LEMMA IssuersKeepInv ==
    ASSUME CredentialsInv,
           \/ \E s \in Calls, t \in Tokens : ExchangeSign(s, t)
           \/ \E c \in Clients, t \in Tokens, S \in ScopeLists : ClientCredentials(c, t, S)
           \/ \E t, u \in Tokens, S \in ScopeLists : DelegateExecution(t, u, S)
           \/ \E t, u \in Tokens : RegisterToolServer(t, u)
           \/ \E t \in Tokens, all \in BOOLEAN : MintUserToken(t, all)
    PROVE  CredentialsInv'
<1>l. launch \in [LaunchCodes -> [perms : SUBSET Grantable,
                                  exp : {Unset} \cup 0..(CredTime + CodeTTL)]]
  BY DEF CredentialsInv, CredentialsTypeOK
<1>1. ASSUME NEW s \in Calls, NEW t \in Tokens, ExchangeSign(s, t) PROVE CredentialsInv'
  <2>1. Derives(t, "api_key", call[s].key, call[s].perms)
    BY <1>1, IssuersDerive
  <2>2. /\ UNCHANGED <<key, client, held, lost, userOn, revokedAt, launch, time>>
        /\ call' = [call EXCEPT ![s] = IdleCall]
    BY <1>1 DEF ExchangeSign
  <2> QED
    BY <1>l, <2>1, <2>2, IssuingKeepsInv
<1>2. ASSUME NEW c \in Clients, NEW t \in Tokens, NEW S \in ScopeLists, ClientCredentials(c, t, S)
      PROVE  CredentialsInv'
  <2>1. Derives(t, "service", c, S)
    BY <1>2, IssuersDerive
  <2>2. UNCHANGED <<key, client, held, lost, userOn, revokedAt, launch, call, time>>
    BY <1>2 DEF ClientCredentials
  <2> QED
    BY <1>l, <2>1, <2>2, IssuingKeepsInv
<1>3. ASSUME NEW t \in Tokens, NEW u \in Tokens, NEW S \in ScopeLists, DelegateExecution(t, u, S)
      PROVE  CredentialsInv'
  <2>1. Derives(u, "delegated", token[t].src, S)
    BY <1>3, IssuersDerive
  <2>2. UNCHANGED <<key, client, held, lost, userOn, revokedAt, launch, call, time>>
    BY <1>3 DEF DelegateExecution
  <2> QED
    BY <1>l, <2>1, <2>2, IssuingKeepsInv
<1>4. ASSUME NEW t \in Tokens, NEW u \in Tokens, RegisterToolServer(t, u) PROVE CredentialsInv'
  <2>1. Derives(u, "registration", token[t].src, {Register})
    BY <1>4, IssuersDerive
  <2>2. UNCHANGED <<key, client, held, lost, userOn, revokedAt, launch, call, time>>
    BY <1>4 DEF RegisterToolServer
  <2> QED
    BY <1>l, <2>1, <2>2, IssuingKeepsInv
<1>5. ASSUME NEW t \in Tokens, NEW all \in BOOLEAN, MintUserToken(t, all) PROVE CredentialsInv'
  <2>1. Derives(t, "mint", NoSource, held)
    BY <1>5, IssuersDerive
  <2>2. UNCHANGED <<key, client, held, lost, userOn, revokedAt, launch, call, time>>
    BY <1>5 DEF MintUserToken
  <2> QED
    BY <1>l, <2>1, <2>2, IssuingKeepsInv
<1> QED
  BY <1>1, <1>2, <1>3, <1>4, <1>5

LEMMA CredentialsInvNext == CredentialsInv /\ [CredentialsNext]_credVars => CredentialsInv'
<1> SUFFICES ASSUME CredentialsInv, [CredentialsNext]_credVars PROVE CredentialsInv'
  OBVIOUS
<1>1. CASE UNCHANGED credVars
  BY <1>1 DEF CredentialsInv, credVars, CredentialsTypeOK, ActiveUnrevoked, WellDerived,
              ExchangeCurrent, NotRevokedBefore, NotLostBefore
<1>2. CASE CredentialsNext
  BY <1>2, KeyRequestsKeepInv, WithdrawalKeepsInv, OtherStepsKeepInv, IssuersKeepInv
  DEF CredentialsNext
<1> QED
  BY <1>1, <1>2

LEMMA CredentialsInvHolds == CredentialsSpec => []CredentialsInv
BY CredentialsInvInit, CredentialsInvNext, PTL DEF CredentialsSpec

\* Keys, clients, derived tokens, launch codes and the requests in flight keep
\* their types, for every number of each.
THEOREM CredentialsTypeCorrect == CredentialsSpec => []CredentialsTypeOK
<1>1. CredentialsInv => CredentialsTypeOK
  BY DEF CredentialsInv
<1> QED
  BY <1>1, CredentialsInvHolds, PTL

LEMMA RevocationSound == CredentialsInv => RevocationBounded
<1> SUFFICES ASSUME CredentialsInv, NEW t \in Tokens, Honoured(t), token[t].kind # "launch"
    PROVE /\ SourceWithdrawn(t) => time - revokedAt[token[t].src] <= Grace(token[t].kind)
                                    /\ token[t].kind \notin {"delegated", "registration"}
          /\ token[t].kind \in {"api_key", "mint", "delegated"} =>
               \A p \in token[t].perms : p \in held \/ time - lost[p] <= Grace(token[t].kind)
  BY DEF RevocationBounded
<1> USE DEF CredentialsInv
<1>t. /\ token[t].kind \in TokenKinds /\ token[t].kind # "none"
      /\ token[t].perms \in SUBSET Grantable
      /\ time \in Int /\ token[t].born \in Int
      /\ \A x \in ApiKeys \cup Clients : revokedAt[x] \in Int
      /\ \A q \in Grantable : lost[q] \in Int
      /\ TokenLife[token[t].kind] \in Int
      /\ time <= token[t].born + TokenLife[token[t].kind]
  BY ServiceCredentialsAssumption
  DEF Honoured, UserTokenAccepted, ServiceTokenAccepted, DelegationAccepted, RegistrationAccepted,
      Fresh, CredentialsTypeOK, WellDerived, Times, Unset, TokenKinds
<1>s. token[t].src \in ApiKeys \cup Clients \cup {NoSource}
  BY DEF CredentialsTypeOK
<1>1. CASE token[t].kind \in {"delegated", "registration"}
  <2>1. ActiveClient(token[t].src) /\ (token[t].kind = "delegated" => token[t].perms \subseteq held)
    BY <1>1 DEF Honoured, UserTokenAccepted, ServiceTokenAccepted, DelegationAccepted,
                RegistrationAccepted
  <2>2. token[t].src \in Clients
    BY <1>1 DEF WellDerived, SourceOfKind
  <2>3. ~SourceWithdrawn(t)
    BY <2>1, <2>2 DEF SourceWithdrawn, ActiveUnrevoked, ActiveClient
  <2> QED
    BY <1>1, <2>1, <2>3
<1>2. CASE token[t].kind \notin {"delegated", "registration"}
  <2>1. Grace(token[t].kind) = TokenLife[token[t].kind]
    BY <1>2 DEF Grace
  <2>2. SourceWithdrawn(t) => time - revokedAt[token[t].src] <= Grace(token[t].kind)
    BY <1>t, <1>s, <2>1 DEF SourceWithdrawn, WellDerived, NotRevokedBefore
  <2>3. ASSUME token[t].kind \in {"api_key", "mint"}, NEW p \in token[t].perms
        PROVE  p \in held \/ time - lost[p] <= Grace(token[t].kind)
    BY <1>t, <2>1, <2>3 DEF WellDerived, NotLostBefore
  <2> QED
    BY <1>2, <2>2, <2>3
<1> QED
  BY <1>1, <1>2

\* Revoking a key or a client, or taking a permission away, ends what was
\* derived from it within the lifetime of the kind of token, and at once where
\* introspection looks the source up again, for every number of credentials,
\* every lifetime and every interleaving of the requests of one tick.
THEOREM RevocationIsBounded == CredentialsSpec => []RevocationBounded
BY RevocationSound, CredentialsInvHolds, PTL

---------------------------------------------------------------------------
(* Licenses                                                                *)

ActRow == [pc : {"idle", "mark", "machine", "bind"}, lic : Licences \cup {NoLicence},
           bound : BOOLEAN, usage : 0..MaxUses, machine : Machines \cup {NoMachine},
           account : BOOLEAN]
IssueRow == [pc : {"idle", "commit"}, key : Keys \cup {NoLicence}, role : Personas]

\* An activation on its way to mark_used read a row that was bound, or had a use
\* left: what it writes is one more than it read, whatever was written since.
ActivationsSound ==
    \A a \in Activations :
        /\ act[a].pc # "idle" => act[a].lic \in Licences
        /\ act[a].pc = "mark" => act[a].bound \/ act[a].usage < MaxUses

\* The idempotency record and the history agree.
IssuanceSound ==
    /\ \A i \in Issuers : iss[i].pc = "commit" => iss[i].key \in Keys
    /\ \A k \in Keys : byKey[k] = IF issued[k] = NoLicence THEN {} ELSE {issued[k]}

UsageSound == \A l \in Licences : lic[l].usage <= MaxUses

LicensesInv == LicensesTypeOK /\ ActivationsSound /\ IssuanceSound /\ UsageSound

LEMMA LicensesTypes ==
    LicensesTypeOK <=>
        /\ lic \in [Licences -> Row] /\ issued \in [Keys -> Licences \cup {NoLicence}]
        /\ byKey \in [Keys -> SUBSET Licences] /\ account \in BOOLEAN
        /\ persona \in SUBSET Personas /\ act \in [Activations -> ActRow]
        /\ iss \in [Issuers -> IssueRow] /\ clock \in 0..LicenceTime
BY DEF LicensesTypeOK, ActRow, IssueRow

LEMMA LicensesTypesNext ==
    LicensesTypeOK' <=>
        /\ lic' \in [Licences -> Row] /\ issued' \in [Keys -> Licences \cup {NoLicence}]
        /\ byKey' \in [Keys -> SUBSET Licences] /\ account' \in BOOLEAN
        /\ persona' \in SUBSET Personas /\ act' \in [Activations -> ActRow]
        /\ iss' \in [Issuers -> IssueRow] /\ clock' \in 0..LicenceTime
BY DEF LicensesTypeOK, ActRow, IssueRow

LEMMA EmptyRows ==
    /\ NoRow \in Row /\ NoRow.usage = 0
    /\ IdleAct \in ActRow /\ IdleAct.pc = "idle"
    /\ IdleIssue \in IssueRow /\ IdleIssue.pc = "idle"
<1>1. 0 \in Horizon /\ 0 \in 0..(MaxUses + 1) /\ 0 \in 0..MaxUses
  BY LicensesAssumption DEF Horizon
<1>2. NoRow \in Row /\ NoRow.usage = 0
  BY <1>1 DEF NoRow, Row
<1>3. IdleAct \in ActRow /\ IdleAct.pc = "idle"
  BY <1>1 DEF IdleAct, ActRow
<1>4. IdleIssue \in IssueRow /\ IdleIssue.pc = "idle"
  BY DEF IdleIssue, IssueRow, Personas
<1> QED
  BY <1>2, <1>3, <1>4

LEMMA LicensesInvInit == LicensesInit => LicensesInv
<1> SUFFICES ASSUME LicensesInit PROVE LicensesInv
  OBVIOUS
<1>1. LicensesTypeOK
  BY EmptyRows, LicensesTypes, LicensesAssumption DEF LicensesInit, Personas
<1>2. ActivationsSound /\ IssuanceSound /\ UsageSound
  BY EmptyRows, LicensesAssumption DEF LicensesInit, ActivationsSound, IssuanceSound, UsageSound
<1> QED
  BY <1>1, <1>2 DEF LicensesInv

\* Steps on licence rows that leave requests and idempotency records alone.
LEMMA RowStep ==
    ASSUME LicensesInv, lic' \in [Licences -> Row], UsageSound',
           clock' \in 0..LicenceTime,
           UNCHANGED <<issued, byKey, account, persona, act, iss>>
    PROVE  LicensesInv'
<1>1. LicensesTypeOK'
  BY LicensesTypes, LicensesTypesNext DEF LicensesInv
<1>2. ActivationsSound' /\ IssuanceSound'
  BY DEF LicensesInv, ActivationsSound, IssuanceSound
<1> QED
  BY <1>1, <1>2 DEF LicensesInv

\* One row is written.
LEMMA OneRow ==
    ASSUME LicensesInv, NEW l \in Licences, NEW row \in Row, row.usage <= MaxUses,
           lic' = [lic EXCEPT ![l] = row]
    PROVE  lic' \in [Licences -> Row] /\ UsageSound'
<1>1. lic \in [Licences -> Row]
  BY LicensesTypes DEF LicensesInv
<1>2. /\ lic' \in [Licences -> Row] /\ lic'[l] = row
      /\ \A x \in Licences \ {l} : lic'[x] = lic[x]
  BY <1>1
<1> QED
  BY <1>2 DEF LicensesInv, UsageSound

LEMMA NewRows ==
    ASSUME LicensesInv
    PROVE  /\ PlainRow \in Row /\ PlainRow.usage = 0
           /\ ManualRow \in Row /\ ManualRow.usage = 0
<1>1. clock + Validity \in Horizon
  BY LicensesAssumption, LicensesTypes DEF LicensesInv, Horizon
<1> DEFINE e == clock + Validity
<1> HIDE DEF e
<1>2. [NoRow EXCEPT !.kind = "plain", !.expires = e] \in Row
  BY <1>1, EmptyRows DEF Row, e
<1>3. [NoRow EXCEPT !.kind = "digest", !.bound = TRUE, !.expires = e] \in Row
  BY <1>1, EmptyRows DEF Row, e
<1>4. PlainRow.usage = 0 /\ ManualRow.usage = 0
  BY DEF PlainRow, ManualRow, NoRow
<1> QED
  BY <1>2, <1>3, <1>4 DEF PlainRow, ManualRow, e

LEMMA GeneralStep ==
    ASSUME LicensesInv
    PROVE  \/ \E l \in Licences : GenerateLicence(l) \/ RevokeLicence(l) \/ RenewLicence(l)
           \/ LicenceTick
           => LicensesInv'
<1>t. /\ lic \in [Licences -> Row] /\ clock \in 0..LicenceTime
      /\ \A l \in Licences : lic[l].usage <= MaxUses
  BY LicensesTypes DEF LicensesInv, UsageSound
<1>u. MaxUses \in Nat \ {0}
  BY LicensesAssumption
<1>0. ASSUME NEW l \in Licences, NEW row \in Row, row.usage <= MaxUses,
             lic' = [lic EXCEPT ![l] = row],
             UNCHANGED <<issued, byKey, account, persona, act, iss, clock>>
      PROVE  LicensesInv'
  BY <1>t, <1>0, OneRow, RowStep
<1>1. ASSUME NEW l \in Licences, GenerateLicence(l) PROVE LicensesInv'
  <2>1. PlainRow \in Row /\ PlainRow.usage <= MaxUses
    BY <1>u, NewRows
  <2> QED
    BY <1>0, <1>1, <2>1 DEF GenerateLicence
<1>2. ASSUME NEW l \in Licences, RevokeLicence(l) PROVE LicensesInv'
  <2> DEFINE row == [lic[l] EXCEPT !.revoked = TRUE]
  <2>1. lic[l] \in Row
    BY <1>t
  <2>2. row \in Row /\ row.usage = lic[l].usage
    BY <2>1 DEF Row
  <2>3. lic' = [lic EXCEPT ![l] = row] /\ UNCHANGED <<issued, byKey, account, persona, act, iss, clock>>
    BY <1>t, <1>2 DEF RevokeLicence
  <2> HIDE DEF row
  <2> QED
    BY <1>t, <1>0, <2>2, <2>3
<1>3. ASSUME NEW l \in Licences, RenewLicence(l) PROVE LicensesInv'
  <2>1. PICK e \in Horizon :
          /\ lic' = [lic EXCEPT ![l].expires = e]
          /\ UNCHANGED <<issued, byKey, account, persona, act, iss, clock>>
    BY <1>3 DEF RenewLicence
  <2> DEFINE row == [lic[l] EXCEPT !.expires = e]
  <2>2. lic[l] \in Row
    BY <1>t
  <2>3. row \in Row /\ row.usage = lic[l].usage
    BY <2>2 DEF Row
  <2>4. lic' = [lic EXCEPT ![l] = row]
    BY <1>t, <2>1
  <2> HIDE DEF row
  <2> QED
    BY <1>t, <1>0, <2>1, <2>3, <2>4
<1>4. ASSUME LicenceTick PROVE LicensesInv'
  <2>1. clock' \in 0..LicenceTime
    BY <1>t, <1>4, LicensesAssumption DEF LicenceTick
  <2> QED
    BY <1>t, <1>4, <2>1, RowStep DEF LicenceTick, UsageSound
<1> QED
  BY <1>1, <1>2, <1>3, <1>4

\* Steps of one activation.
LEMMA ActStep ==
    ASSUME LicensesInv, NEW a \in Activations, NEW s \in ActRow,
           act' = [act EXCEPT ![a] = s],
           s.pc # "idle" => s.lic \in Licences,
           s.pc = "mark" => s.bound \/ s.usage < MaxUses,
           lic' \in [Licences -> Row], UsageSound', account' \in BOOLEAN,
           UNCHANGED <<issued, byKey, persona, iss, clock>>
    PROVE  LicensesInv'
<1>1. act \in [Activations -> ActRow]
  BY LicensesTypes DEF LicensesInv
<1>2. /\ act' \in [Activations -> ActRow] /\ act'[a] = s
      /\ \A b \in Activations \ {a} : act'[b] = act[b]
  BY <1>1
<1>3. LicensesTypeOK'
  BY <1>2, LicensesTypes, LicensesTypesNext DEF LicensesInv
<1>4. ActivationsSound'
  BY <1>2 DEF LicensesInv, ActivationsSound
<1>5. IssuanceSound'
  BY DEF LicensesInv, IssuanceSound
<1> QED
  BY <1>3, <1>4, <1>5 DEF LicensesInv

LEMMA ActivationStep ==
    ASSUME LicensesInv, NEW a \in Activations
    PROVE  \/ \E l \in Licences : ValidateLicence(a, l) \/ PullToken(a, l)
           \/ MarkUsed(a) \/ ReadMachine(a)
           \/ \E m \in Machines : BindMachine(a, m)
           => LicensesInv'
<1>t. /\ lic \in [Licences -> Row] /\ account \in BOOLEAN /\ act[a] \in ActRow
      /\ act \in [Activations -> ActRow]
      /\ \A l \in Licences : lic[l].usage <= MaxUses
      /\ ActivationsSound
  BY LicensesTypes DEF LicensesInv, UsageSound
<1>u. MaxUses \in Nat \ {0}
  BY LicensesAssumption
<1>r. ASSUME UNCHANGED lic PROVE lic' \in [Licences -> Row] /\ UsageSound'
  BY <1>t, <1>r DEF UsageSound
<1>1. ASSUME NEW l \in Licences, ValidateLicence(a, l) \/ PullToken(a, l) PROVE LicensesInv'
  <2>1. PICK pc \in {"mark", "bind"} :
          /\ act' = [act EXCEPT ![a] = Seen(l, pc)] /\ Validates(l)
          /\ UNCHANGED <<lic, issued, byKey, account, persona, iss, clock>>
    BY <1>1 DEF ValidateLicence, PullToken
  <2>2. lic[l].usage \in 0..MaxUses
    BY <1>t, <1>u DEF Row
  <2> DEFINE s == Seen(l, pc)
  <2>3. s \in ActRow /\ s.lic = l /\ s.bound = lic[l].bound /\ s.usage = lic[l].usage
    BY <1>t, <2>2 DEF Seen, ActRow, Row
  <2>4. s.bound \/ s.usage < MaxUses
    BY <2>1, <2>3 DEF Validates
  <2> HIDE DEF s
  <2>5. act' = [act EXCEPT ![a] = s]
    BY <2>1 DEF s
  <2> QED
    BY <1>t, <1>r, <2>1, <2>3, <2>4, <2>5, ActStep
<1>2. ASSUME MarkUsed(a) PROVE LicensesInv'
  <2>1. /\ act[a].pc = "mark" /\ UNCHANGED <<issued, byKey, persona, iss, clock>>
        /\ act[a].lic \in Licences /\ (act[a].bound \/ act[a].usage < MaxUses)
    BY <1>t, <1>2 DEF MarkUsed, ActivationsSound
  <2>2. CASE act' = [act EXCEPT ![a] = IdleAct] /\ UNCHANGED <<lic, account>>
    BY <1>t, <1>r, <2>1, <2>2, EmptyRows, ActStep
  <2>3. CASE /\ account' = TRUE /\ act' = [act EXCEPT ![a].pc = "machine"]
             /\ lic' = IF act[a].bound THEN lic
                       ELSE [lic EXCEPT ![act[a].lic].usage = act[a].usage + 1,
                                        ![act[a].lic].bound = TRUE]
    <3> DEFINE s == [act[a] EXCEPT !.pc = "machine"]
               l == act[a].lic
               n == act[a].usage + 1
               row == [lic[l] EXCEPT !.usage = n, !.bound = TRUE]
    <3>1. s \in ActRow /\ s.pc = "machine" /\ s.lic = l
      BY <1>t DEF ActRow
    <3>2. act' = [act EXCEPT ![a] = s]
      BY <1>t, <2>3
    <3>3. lic' \in [Licences -> Row] /\ UsageSound'
      <4>1. CASE act[a].bound
        BY <1>r, <2>3, <4>1
      <4>2. CASE ~act[a].bound
        <5>1. n \in 0..(MaxUses + 1) /\ n <= MaxUses /\ l \in Licences
          BY <1>t, <1>u, <2>1, <4>2 DEF ActRow
        <5>2. lic' = [lic EXCEPT ![l] = row]
          BY <1>t, <2>3, <4>2
        <5> HIDE DEF n, l
        <5>3. row \in Row /\ row.usage = n
          BY <1>t, <5>1 DEF Row
        <5> HIDE DEF row
        <5> QED
          BY <5>1, <5>2, <5>3, OneRow
      <4> QED
        BY <4>1, <4>2
    <3> HIDE DEF s
    <3> QED
      BY <2>1, <2>3, <3>1, <3>2, <3>3, ActStep
  <2> QED
    BY <1>2, <2>2, <2>3 DEF MarkUsed
<1>3. ASSUME ReadMachine(a) PROVE LicensesInv'
  <2>1. /\ act[a].pc = "machine" /\ act[a].lic \in Licences
        /\ act' = [act EXCEPT ![a].pc = "bind", ![a].machine = lic[act[a].lic].machine]
        /\ UNCHANGED <<lic, issued, byKey, account, persona, iss, clock>>
    BY <1>t, <1>3 DEF ReadMachine, ActivationsSound
  <2> DEFINE m == lic[act[a].lic].machine
             s == [act[a] EXCEPT !.pc = "bind", !.machine = m]
  <2>2. m \in Machines \cup {NoMachine}
    BY <1>t, <2>1 DEF Row
  <2>3. act' = [act EXCEPT ![a] = s]
    BY <1>t, <2>1
  <2> HIDE DEF m
  <2>4. s \in ActRow /\ s.pc = "bind" /\ s.lic = act[a].lic
    BY <1>t, <2>2 DEF ActRow
  <2> HIDE DEF s
  <2> QED
    BY <1>t, <1>r, <2>1, <2>3, <2>4, ActStep
<1>4. ASSUME NEW m \in Machines, BindMachine(a, m) PROVE LicensesInv'
  <2> DEFINE l == act[a].lic
             row == [lic[l] EXCEPT !.machine = m]
  <2>1. /\ act[a].pc = "bind" /\ l \in Licences /\ act' = [act EXCEPT ![a] = IdleAct]
        /\ UNCHANGED <<issued, byKey, account, persona, iss, clock>>
        /\ lic' = lic \/ lic' = [lic EXCEPT ![l].machine = m]
    BY <1>t, <1>4 DEF BindMachine, ActivationsSound
  <2>2. lic' = lic \/ lic' = [lic EXCEPT ![l] = row]
    BY <1>t, <2>1
  <2> HIDE DEF l
  <2>3. row \in Row /\ row.usage = lic[l].usage
    BY <1>t, <2>1 DEF Row
  <2> HIDE DEF row
  <2>4. lic' \in [Licences -> Row] /\ UsageSound'
    BY <1>t, <1>r, <2>1, <2>2, <2>3, OneRow
  <2> QED
    BY <1>t, <2>1, <2>4, EmptyRows, ActStep
<1> QED
  BY <1>1, <1>2, <1>3, <1>4

\* Steps of one issuance: the record under the unique key is the history's.
LEMMA IssuanceStep ==
    ASSUME LicensesInv, NEW i \in Issuers
    PROVE  \/ \E k \in Keys, role \in Personas : IssueStart(i, k, role)
           \/ \E l \in Licences, yes \in BOOLEAN : IssueCommit(i, l, yes)
           => LicensesInv'
<1>t. /\ lic \in [Licences -> Row] /\ issued \in [Keys -> Licences \cup {NoLicence}]
      /\ byKey \in [Keys -> SUBSET Licences] /\ iss \in [Issuers -> IssueRow]
      /\ account \in BOOLEAN /\ persona \in SUBSET Personas /\ clock \in 0..LicenceTime
      /\ act \in [Activations -> ActRow]
      /\ ActivationsSound /\ IssuanceSound /\ UsageSound
  BY LicensesTypes DEF LicensesInv
<1>1. ASSUME NEW k \in Keys, NEW role \in Personas, IssueStart(i, k, role) PROVE LicensesInv'
  <2> DEFINE s == [pc |-> "commit", key |-> k, role |-> role]
  <2>1. s \in IssueRow /\ s.key = k
    BY DEF IssueRow
  <2>2. /\ iss' = [iss EXCEPT ![i] = s]
        /\ UNCHANGED <<lic, issued, byKey, account, persona, act, clock>>
    BY <1>1 DEF IssueStart
  <2> HIDE DEF s
  <2>3. iss' \in [Issuers -> IssueRow] /\ iss'[i] = s /\ \A j \in Issuers \ {i} : iss'[j] = iss[j]
    BY <1>t, <2>1, <2>2
  <2>4. LicensesTypeOK'
    BY <1>t, <2>2, <2>3, LicensesTypesNext
  <2>5. IssuanceSound'
    BY <1>t, <2>1, <2>2, <2>3 DEF IssuanceSound
  <2>6. ActivationsSound' /\ UsageSound'
    BY <1>t, <2>2 DEF ActivationsSound, UsageSound
  <2> QED
    BY <2>4, <2>5, <2>6 DEF LicensesInv
<1>2. ASSUME NEW l \in Licences, NEW yes \in BOOLEAN, IssueCommit(i, l, yes) PROVE LicensesInv'
  <2> DEFINE k == iss[i].key
             replaced == {x \in Licences : Active(x) /\ lic[x].kind = "digest"}
             Issued == /\ issued[k] = NoLicence
                       /\ issued' = [issued EXCEPT ![k] = l]
                       /\ byKey' = [byKey EXCEPT ![k] = byKey[k] \cup {l}]
                       /\ persona' = {iss[i].role}
                       /\ lic' = [x \in Licences |->
                            IF x = l THEN ManualRow
                            ELSE IF x \in replaced THEN [lic[x] EXCEPT !.revoked = TRUE]
                            ELSE lic[x]]
  <2>1. /\ iss[i].pc = "commit" /\ iss' = [iss EXCEPT ![i] = IdleIssue]
        /\ UNCHANGED <<account, act, clock>>
        /\ Issued \/ UNCHANGED <<issued, byKey, persona, lic>>
    BY <1>2 DEF IssueCommit
  <2>2. k \in Keys /\ iss[i].role \in Personas
    BY <1>t, <2>1 DEF IssuanceSound, IssueRow
  <2>3. /\ iss' \in [Issuers -> IssueRow] /\ iss'[i] = IdleIssue
        /\ \A j \in Issuers \ {i} : iss'[j] = iss[j]
    BY <1>t, <2>1, EmptyRows
  <2>4. ActivationsSound'
    BY <1>t, <2>1 DEF ActivationsSound
  <2>5. \A j \in Issuers : iss'[j].pc = "commit" => iss'[j].key \in Keys
    BY <1>t, <2>3, EmptyRows DEF IssuanceSound
  <2>6. CASE UNCHANGED <<issued, byKey, persona, lic>>
    <3>1. LicensesTypeOK'
      BY <1>t, <2>1, <2>3, <2>6, LicensesTypesNext
    <3>2. IssuanceSound' /\ UsageSound'
      BY <1>t, <2>5, <2>6 DEF IssuanceSound, UsageSound
    <3> QED
      BY <2>4, <3>1, <3>2 DEF LicensesInv
  <2>7. CASE Issued
    <3>1. ASSUME NEW x \in Licences PROVE lic'[x] \in Row /\ lic'[x].usage <= MaxUses
      <4>1. CASE x = l
        BY <2>7, <4>1, NewRows, LicensesAssumption
      <4>2. CASE x # l
        <5>1. lic[x] \in Row /\ lic[x].usage <= MaxUses
          BY <1>t DEF UsageSound
        <5>2. /\ [lic[x] EXCEPT !.revoked = TRUE] \in Row
              /\ [lic[x] EXCEPT !.revoked = TRUE].usage = lic[x].usage
          BY <5>1 DEF Row
        <5>3. lic'[x] = lic[x] \/ lic'[x] = [lic[x] EXCEPT !.revoked = TRUE]
          BY <2>7, <4>2
        <5> QED
          BY <5>1, <5>2, <5>3
      <4> QED
        BY <4>1, <4>2
    <3>2. lic' \in [Licences -> Row] /\ UsageSound'
      BY <2>7, <3>1 DEF UsageSound
    <3> HIDE DEF k
    <3>3. /\ issued' \in [Keys -> Licences \cup {NoLicence}] /\ issued'[k] = l
          /\ \A j \in Keys \ {k} : issued'[j] = issued[j]
      BY <1>t, <2>2, <2>7
    <3>4. /\ byKey' \in [Keys -> SUBSET Licences] /\ byKey'[k] = byKey[k] \cup {l}
          /\ \A j \in Keys \ {k} : byKey'[j] = byKey[j]
      BY <1>t, <2>2, <2>7
    <3>5. byKey[k] = {}
      BY <1>t, <2>2, <2>7 DEF IssuanceSound
    <3>6. IssuanceSound'
      BY <1>t, <2>5, <3>3, <3>4, <3>5, LicensesAssumption DEF IssuanceSound
    <3>7. persona' \in SUBSET Personas
      BY <2>2, <2>7
    <3>8. LicensesTypeOK'
      BY <1>t, <2>1, <2>3, <3>2, <3>3, <3>4, <3>7, LicensesTypesNext
    <3> QED
      BY <2>4, <3>2, <3>6, <3>8 DEF LicensesInv
  <2> QED
    BY <2>1, <2>6, <2>7
<1> QED
  BY <1>1, <1>2

LEMMA LicensesInvNext == LicensesInv /\ [LicensesNext]_licVars => LicensesInv'
<1> SUFFICES ASSUME LicensesInv, [LicensesNext]_licVars PROVE LicensesInv'
  OBVIOUS
<1>1. CASE LicensesNext
  BY <1>1, GeneralStep, ActivationStep, IssuanceStep DEF LicensesNext
<1>2. CASE UNCHANGED licVars
  <2>1. UNCHANGED <<lic, issued, byKey, account, persona, act, iss, clock>>
    BY <1>2 DEF licVars
  <2>2. lic' \in [Licences -> Row] /\ clock' \in 0..LicenceTime
    BY <2>1, LicensesTypes DEF LicensesInv
  <2> QED
    BY <2>1, <2>2, RowStep DEF LicensesInv, UsageSound
<1> QED
  BY <1>1, <1>2

LEMMA LicensesInvHolds == LicensesSpec => []LicensesInv
BY LicensesInvInit, LicensesInvNext, PTL DEF LicensesSpec

\* The licence and idempotency tables, and what the requests in flight carry,
\* keep their shape.
THEOREM LicensesTypeCorrect == LicensesSpec => []LicensesTypeOK
<1>1. LicensesInv => LicensesTypeOK
  BY DEF LicensesInv
<1> QED
  BY <1>1, LicensesInvHolds, PTL

LEMMA UsesSound == LicensesInv => UsesBounded
<1> SUFFICES ASSUME LicensesInv, NEW k \in Keys PROVE Cardinality(byKey[k]) <= 1
  BY DEF LicensesInv, UsageSound, UsesBounded
<1>1. byKey[k] = {} \/ byKey[k] = {issued[k]}
  BY DEF LicensesInv, IssuanceSound
<1>2. Cardinality({}) = 0 /\ Cardinality({issued[k]}) = 1
  BY FS_EmptySet, FS_Singleton
<1> QED
  BY <1>1, <1>2

\* usage_count stays within max_uses although validate_and_consume and mark_used
\* work on a row read without a lock, and uq_license_issue_actor_key lets an
\* idempotency key issue one licence, however the requests that carry it overlap.
THEOREM UsesAreBounded == LicensesSpec => []UsesBounded
BY UsesSound, LicensesInvHolds, PTL
=============================================================================
