--------------------------- MODULE AccessTokens ---------------------------
(***************************************************************************)
(* The bearer tokens of one user: what build_user_claims puts in them, how  *)
(* long they are accepted (app/core/jwt.py, app/rbac.py) and how a logout   *)
(* takes them back (app/core/token_revocation.py, app/api/routes_auth.py).  *)
(*                                                                           *)
(* A login or a refresh issues a pair: an access and a refresh JWT with the  *)
(* same claims.  The claims are facts about the user (permissions, the team  *)
(* he works in) read from the database when the pair is signed; nothing      *)
(* updates a signed token.  get_current_user looks at the signature, the     *)
(* expiry, the Redis blacklist and users.status, and refuses the special     *)
(* kinds of token; it does not tell a refresh JWT from an access JWT.        *)
(* Rotation and families of refresh tokens are in RefreshSessions.           *)
(***************************************************************************)
EXTENDS Integers, FiniteSets

CONSTANTS
    Pairs,         \* identities of the token pairs that may be issued
    Permissions,   \* permission names a role of the user may grant
    TeamFact,      \* "is a member of the team": the fact behind team_id
    AccessLife,    \* ACCESS_TOKEN_EXPIRE_MINUTES, in ticks of the clock
    RefreshLife,   \* the seven days of a refresh token, in ticks
    Logouts,       \* slots for logout requests
    NoPair,
    MaxTime        \* bound on the clock

ASSUME AccessTokensAssumption ==
    /\ AccessLife \in Nat \ {0}
    /\ RefreshLife \in Nat /\ AccessLife <= RefreshLife
    /\ MaxTime \in Nat
    /\ TeamFact \notin Permissions
    /\ NoPair \notin Pairs

VARIABLES
    pairs,       \* the signed pairs: claims and time of issue
    live,        \* refresh_tokens rows that are neither revoked nor rotated
    granted,     \* facts the database holds of the user now
    lostAt,      \* when each fact last stopped being true (history)
    active,      \* users.status = "active"
    blacklist,   \* blacklist:jti:* in Redis: when the key expires
    redisUp,
    logouts,     \* what each logout request is doing
    loggedOut,   \* access tokens whose logout was answered 200 (history)
    now

tokenVars == <<pairs, live, granted, lostAt, active, blacklist, redisUp,
               logouts, loggedOut, now>>

Facts == Permissions \cup {TeamFact}
Never == -1
Kinds == {"access", "refresh"}
Life(k) == IF k = "access" THEN AccessLife ELSE RefreshLife
Unsigned == [born |-> Never, claims |-> {}]
IdleLogout == [pc |-> "idle", pair |-> NoPair]

TokensTypeOK ==
    /\ pairs \in [Pairs -> [born : {Never} \cup 0..MaxTime, claims : SUBSET Facts]]
    /\ live \in SUBSET Pairs
    /\ granted \in SUBSET Facts
    /\ lostAt \in [Facts -> {Never} \cup 0..MaxTime]
    /\ active \in BOOLEAN
    /\ blacklist \in [Pairs -> {Never} \cup 0..(MaxTime + RefreshLife)]
    /\ redisUp \in BOOLEAN
    /\ logouts \in [Logouts -> [pc : {"idle", "blacklist"}, pair : Pairs \cup {NoPair}]]
    /\ loggedOut \in SUBSET Pairs
    /\ now \in 0..MaxTime

TokensInit ==
    /\ pairs = [p \in Pairs |-> Unsigned]
    /\ live = {}
    /\ granted = Facts
    /\ lostAt = [f \in Facts |-> Never]
    /\ active = TRUE
    /\ blacklist = [p \in Pairs |-> Never]
    /\ redisUp = TRUE
    /\ logouts = [s \in Logouts |-> IdleLogout]
    /\ loggedOut = {}
    /\ now = 0

---------------------------------------------------------------------------
(* decode_token: a JWT is accepted through the second of its `exp`.        *)
Exp(p, k) == pairs[p].born + Life(k)
Decodes(p, k) == pairs[p].born # Never /\ now <= Exp(p, k)

\* The blacklist holds the jti of access tokens only.
Blacklisted(p, k) == k = "access" /\ now < blacklist[p]

\* assert_token_usable within get_current_user: an unreachable Redis is a 503.
Usable(p, k) == Decodes(p, k) /\ redisUp /\ ~Blacklisted(p, k) /\ active

\* build_user_claims: permissions as they are now; a team only if asked for
\* and, by resolve_team_claim, still true.
UserClaims(askedTeam) ==
    (granted \cap Permissions) \cup (IF askedTeam THEN granted \cap {TeamFact} ELSE {})

Sign(q, claims) ==
    /\ pairs[q] = Unsigned
    /\ pairs' = [pairs EXCEPT ![q] = [born |-> now, claims |-> claims]]

---------------------------------------------------------------------------
(* Issuing.                                                                *)

\* POST /auth/login and every other path to generate_tokens.
Login(q) ==
    /\ active
    /\ Sign(q, UserClaims(FALSE))
    /\ live' = live \cup {q}
    /\ UNCHANGED <<granted, lostAt, active, blacklist, redisUp, logouts, loggedOut, now>>

\* Mutant of Refresh: a refresh that copies the claims of the token it was
\* given.
RefreshCarries(p, q) ==
    /\ p \in live /\ Decodes(p, "refresh") /\ active
    /\ Sign(q, pairs[p].claims)
    /\ live' = (live \ {p}) \cup {q}
    /\ UNCHANGED <<granted, lostAt, active, blacklist, redisUp, logouts, loggedOut, now>>

\* POST /auth/refresh: the new claims are read from the database, the team
\* the presented token carried is asked for again.
Refresh(p, q) ==
    /\ p \in live /\ Decodes(p, "refresh") /\ active
    /\ Sign(q, UserClaims(TeamFact \in pairs[p].claims))
    /\ live' = (live \ {p}) \cup {q}
    /\ UNCHANGED <<granted, lostAt, active, blacklist, redisUp, logouts, loggedOut, now>>

\* POST /auth/switch-team: into the team, which needs the membership now, or
\* back to the personal workspace.
SwitchTeam(p, q, team) ==
    /\ team => TeamFact \in granted
    /\ p \in live /\ Decodes(p, "refresh") /\ active
    /\ Sign(q, UserClaims(team))
    /\ live' = (live \ {p}) \cup {q}
    /\ UNCHANGED <<granted, lostAt, active, blacklist, redisUp, logouts, loggedOut, now>>

---------------------------------------------------------------------------
(* POST /auth/logout: the refresh row first, committed, then the blacklist.*)

LogoutRevoke(s, p) ==
    /\ logouts[s] = IdleLogout
    /\ pairs[p] # Unsigned
    /\ live' = live \ {p}
    /\ logouts' = [logouts EXCEPT ![s] = [pc |-> "blacklist", pair |-> p]]
    /\ UNCHANGED <<pairs, granted, lostAt, active, blacklist, redisUp, loggedOut, now>>

\* blacklist_access_token: SETEX with the lifetime left, at least a second; an
\* expired token has nothing to write.
BlacklistUntil(p) ==
    LET left == Exp(p, "access") - now IN now + (IF left > 1 THEN left ELSE 1)

LogoutBlacklist(s) ==
    LET p == logouts[s].pair IN
    /\ logouts[s].pc = "blacklist"
    /\ Decodes(p, "access") => redisUp
    /\ blacklist' = IF Decodes(p, "access")
                    THEN [blacklist EXCEPT ![p] = BlacklistUntil(p)] ELSE blacklist
    /\ loggedOut' = loggedOut \cup {p}
    /\ logouts' = [logouts EXCEPT ![s] = IdleLogout]
    /\ UNCHANGED <<pairs, live, granted, lostAt, active, redisUp, now>>

\* Mutant of LogoutFails: a logout that reports success although the blacklist
\* was not written.
LogoutFailsQuietly(s) ==
    /\ logouts[s].pc = "blacklist"
    /\ loggedOut' = loggedOut \cup {logouts[s].pair}
    /\ logouts' = [logouts EXCEPT ![s] = IdleLogout]
    /\ UNCHANGED <<pairs, live, granted, lostAt, active, blacklist, redisUp, now>>

\* Redis refuses the write (503), or the worker dies before it.
LogoutFails(s) ==
    /\ logouts[s].pc = "blacklist"
    /\ logouts' = [logouts EXCEPT ![s] = IdleLogout]
    /\ UNCHANGED <<pairs, live, granted, lostAt, active, blacklist, redisUp, loggedOut, now>>

---------------------------------------------------------------------------
(* What changes under the tokens' feet.                                    *)

\* A role, a membership or a team membership is given or taken.
ChangeGrant(f) ==
    /\ granted' = IF f \in granted THEN granted \ {f} ELSE granted \cup {f}
    /\ lostAt' = IF f \in granted THEN [lostAt EXCEPT ![f] = now] ELSE lostAt
    /\ UNCHANGED <<pairs, live, active, blacklist, redisUp, logouts, loggedOut, now>>

\* PATCH /platform/users/{id}/status: a suspension revokes every session too.
SetUserStatus(on) ==
    /\ active # on
    /\ active' = on
    /\ live' = IF on THEN live ELSE {}
    /\ UNCHANGED <<pairs, granted, lostAt, blacklist, redisUp, logouts, loggedOut, now>>

RedisTurns ==
    /\ redisUp' = ~redisUp
    /\ UNCHANGED <<pairs, live, granted, lostAt, active, blacklist, logouts, loggedOut, now>>

Tick ==
    /\ now < MaxTime
    /\ now' = now + 1
    /\ UNCHANGED <<pairs, live, granted, lostAt, active, blacklist, redisUp, logouts, loggedOut>>

TokensNext ==
    \/ \E q \in Pairs : Login(q)
    \/ \E p, q \in Pairs : Refresh(p, q)
    \/ \E p, q \in Pairs, team \in BOOLEAN : SwitchTeam(p, q, team)
    \/ \E s \in Logouts, p \in Pairs : LogoutRevoke(s, p)
    \/ \E s \in Logouts : LogoutBlacklist(s) \/ LogoutFails(s)
    \/ \E f \in Facts : ChangeGrant(f)
    \/ \E on \in BOOLEAN : SetUserStatus(on)
    \/ RedisTurns
    \/ Tick

TokensSpec == TokensInit /\ [][TokensNext]_tokenVars

---------------------------------------------------------------------------
(* Properties.                                                             *)

\* A logout that was answered is final up to the `exp` of the access token it
\* named: no later request is accepted with it, whatever Redis does meanwhile
\* and however often the logout is repeated.
LogoutHolds ==
    \A p \in loggedOut : Usable(p, "access") => now >= Exp(p, "access")

\* A claim a request is authorised by was true within the lifetime of the
\* token presented: refreshing never carries an old claim on.
ClaimsBoundedStale ==
    \A p \in Pairs, k \in Kinds : Usable(p, k) =>
        \A f \in pairs[p].claims : f \in granted \/ now - lostAt[f] <= Life(k)
===========================================================================
