---------------------------- MODULE SamlMessages ----------------------------
(***************************************************************************)
(* The SAML messages of one organisation and the sessions they open and     *)
(* close, against a clock: AuthnRequest and RelayState, the assertion at     *)
(* the ACS, single logout in both directions (app/services/                  *)
(* org_saml_service.py, app/api/routes_saml.py).                             *)
(*                                                                           *)
(* A message id is remembered in Redis for ReplayTTL from its first use and  *)
(* every other check is on the message itself, so what counts is how long a  *)
(* message stays valid.  Signatures are believed; whoever saw a message may  *)
(* send it again.                                                            *)
(***************************************************************************)
EXTENDS Integers

CONSTANTS
    Requests,    \* AuthnRequests, with the RelayState and assertion that answer each
    LogoutMsgs,  \* LogoutRequests of the provider
    Names,       \* NameIDs
    Indexes,     \* SessionIndexes
    AnyIndex,    \* a LogoutRequest without one
    RelayLife,   \* the ten minutes of a RelayState
    ReplayTTL,   \* _SAML_REPLAY_TTL_SECONDS
    Windows,     \* how long a provider lets a LogoutRequest be valid: its choice
    SamlTime     \* bound on the clock

ASSUME SamlMessagesAssumption ==
    /\ RelayLife \in Nat /\ ReplayTTL \in Nat /\ SamlTime \in Nat
    /\ Windows \subseteq Nat
    /\ RelayLife <= ReplayTTL             \* both are ten minutes
    /\ Requests \cap LogoutMsgs = {}      \* "saml_replay", "saml_slo_replay"
    /\ AnyIndex \notin Indexes

VARIABLES
    authn,     \* each request: when it was sent, and the assertion answering it
    session,   \* the session each sign-in opened
    order,     \* each LogoutRequest: when it was issued, whom it names
    replay,    \* replay keys in Redis: when each expires
    uses,      \* how often each message was acted on (history)
    samlOn,    \* the configuration is active
    store,     \* Redis is reachable
    second

samlVars == <<authn, session, order, replay, uses, samlOn, store, second>>

Messages == Requests \cup LogoutMsgs
Unsent == -1
Endless == -1   \* a LogoutRequest without NotOnOrAfter
Late == SamlTime + ReplayTTL
NoRequest == [sent |-> Unsent, answered |-> FALSE]
NoSession == [state |-> "none", name |-> "", index |-> AnyIndex]
NoOrder == [issued |-> Unsent, name |-> "", index |-> AnyIndex, window |-> Endless]

SamlTypeOK ==
    /\ authn \in [Requests -> [sent : {Unsent} \cup 0..SamlTime, answered : BOOLEAN]]
    /\ session \in [Requests -> [state : {"none", "challenge", "active", "revoked"},
                                 name : Names \cup {""}, index : Indexes \cup {AnyIndex}]]
    /\ order \in [LogoutMsgs -> [issued : {Unsent} \cup 0..SamlTime, name : Names \cup {""},
                                 index : Indexes \cup {AnyIndex},
                                 window : Windows \cup {Endless}]]
    /\ replay \in [Messages -> {Unsent} \cup 0..Late]
    /\ uses \in [Messages -> Nat]
    /\ samlOn \in BOOLEAN /\ store \in BOOLEAN
    /\ second \in 0..SamlTime

SamlInit ==
    /\ authn = [r \in Requests |-> NoRequest]
    /\ session = [r \in Requests |-> NoSession]
    /\ order = [m \in LogoutMsgs |-> NoOrder]
    /\ replay = [m \in Messages |-> Unsent]
    /\ uses = [m \in Messages |-> 0]
    /\ samlOn = TRUE /\ store = TRUE
    /\ second = 0

---------------------------------------------------------------------------
(* Replay protection.                                                      *)

\* Mutant of Remember: the id is looked up but never stored.
RememberNothing(m) == replay' = replay

\* SET NX EX: an unreachable store and a key that is there both refuse.
NotReplayed(m) == store /\ second >= replay[m]
Remember(m) == replay' = [replay EXCEPT ![m] = second + ReplayTTL]

---------------------------------------------------------------------------
(* Sign-in.                                                                *)

\* GET /auth/saml/{slug}/login
SendAuthnRequest(r) ==
    /\ samlOn /\ authn[r] = NoRequest
    /\ authn' = [authn EXCEPT ![r] = [NoRequest EXCEPT !.sent = second]]
    /\ UNCHANGED <<session, order, replay, uses, samlOn, store, second>>

\* The provider answers it, for one NameID and one session of its own.
IdpAsserts(r, n, x) ==
    /\ authn[r].sent # Unsent /\ ~authn[r].answered
    /\ authn' = [authn EXCEPT ![r].answered = TRUE]
    /\ session' = [session EXCEPT ![r] = [state |-> "none", name |-> n, index |-> x]]
    /\ UNCHANGED <<order, replay, uses, samlOn, store, second>>

RelayExp(r) == authn[r].sent + RelayLife

\* _verify_saml_relay_state: accepted through its `exp`.
RelayVerified(r) == samlOn /\ second <= RelayExp(r)

\* validate_saml_response: the answer to the RelayState's request, not replayed.
AssertionValid(r) == authn[r].answered /\ NotReplayed(r)

\* POST /acs: a session, or a challenge that opens one later.
ConsumeAssertion(r, challenged) ==
    /\ RelayVerified(r)
    /\ AssertionValid(r)
    /\ Remember(r)
    /\ uses' = [uses EXCEPT ![r] = @ + 1]
    /\ session' = [session EXCEPT ![r].state = IF challenged THEN "challenge" ELSE "active"]
    /\ UNCHANGED <<authn, order, samlOn, store, second>>

CompleteChallenge(r) ==
    /\ session[r].state = "challenge"
    /\ session' = [session EXCEPT ![r].state = "active"]
    /\ UNCHANGED <<authn, order, replay, uses, samlOn, store, second>>

---------------------------------------------------------------------------
(* Single logout.                                                          *)

IdpOrdersLogout(m, n, x, w) ==
    /\ order[m] = NoOrder
    /\ order' = [order EXCEPT ![m] = [issued |-> second, name |-> n, index |-> x, window |-> w]]
    /\ UNCHANGED <<authn, session, replay, uses, samlOn, store, second>>

\* find_active_by_saml_identity
Ordered(m, r) ==
    /\ session[r].state = "active" /\ session[r].name = order[m].name
    /\ order[m].index \in {AnyIndex, session[r].index}

\* validate_slo_logout_request: before its NotOnOrAfter, if it has one, and
\* not replayed.  The service itself sets no limit to either.
Unexpired(m) == order[m].window # Endless => second < order[m].issued + order[m].window
OrderValid(m) == order[m] # NoOrder /\ Unexpired(m) /\ NotReplayed(m)

\* GET /slo with a SAMLRequest: all the sessions it means, in one commit.
HandleLogoutRequest(m) ==
    /\ samlOn
    /\ OrderValid(m)
    /\ Remember(m)
    /\ uses' = [uses EXCEPT ![m] = @ + 1]
    /\ session' = [r \in Requests |->
                     IF Ordered(m, r) THEN [session[r] EXCEPT !.state = "revoked"] ELSE session[r]]
    /\ UNCHANGED <<authn, order, samlOn, store, second>>

\* POST /logout ends the local session whatever follows.  If the browser then
\* carries a LogoutRequest to the provider, the LogoutResponse that comes back
\* to GET /slo is verified and changes nothing.
SpLogout(r) ==
    /\ session[r].state = "active"
    /\ session' = [session EXCEPT ![r].state = "revoked"]
    /\ UNCHANGED <<authn, order, replay, uses, samlOn, store, second>>

---------------------------------------------------------------------------
SetSamlStatus ==
    /\ samlOn' = ~samlOn
    /\ UNCHANGED <<authn, session, order, replay, uses, store, second>>

StoreTurns ==
    /\ store' = ~store
    /\ UNCHANGED <<authn, session, order, replay, uses, samlOn, second>>

SamlTick ==
    /\ second < SamlTime
    /\ second' = second + 1
    /\ UNCHANGED <<authn, session, order, replay, uses, samlOn, store>>

SamlNext ==
    \/ \E r \in Requests : SendAuthnRequest(r) \/ CompleteChallenge(r) \/ SpLogout(r)
    \/ \E r \in Requests, n \in Names, x \in Indexes : IdpAsserts(r, n, x)
    \/ \E r \in Requests, mfa \in BOOLEAN : ConsumeAssertion(r, mfa)
    \/ \E m \in LogoutMsgs, n \in Names, x \in Indexes \cup {AnyIndex}, w \in Windows \cup {Endless} :
          IdpOrdersLogout(m, n, x, w)
    \/ \E m \in LogoutMsgs : HandleLogoutRequest(m)
    \/ SetSamlStatus
    \/ StoreTurns
    \/ SamlTick

SamlSpec == SamlInit /\ [][SamlNext]_samlVars

---------------------------------------------------------------------------
\* Nothing is acted on twice while its replay key is what holds it back,
\* however often it is sent and whatever Redis does: an assertion again only in
\* the very second its RelayState expires, a LogoutRequest only ReplayTTL after
\* it was issued, so never if its own NotOnOrAfter is sooner.
MessageUsedOnce ==
    [][\A m \in Messages : uses'[m] # uses[m] /\ uses[m] > 0 =>
          IF m \in Requests THEN second = RelayExp(m)
          ELSE second >= order[m].issued + ReplayTTL]_samlVars

\* "Replaying an already accepted IdP LogoutRequest is rejected with 400."
\* (tests/test_saml_slo.py:724): no LogoutRequest is acted on twice.
LogoutRequestUsedOnce == \A m \in LogoutMsgs : uses[m] <= 1
===========================================================================
