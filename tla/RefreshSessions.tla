------------------------- MODULE RefreshSessions -------------------------
(***************************************************************************)
(* Refresh-token families and login sessions of one account:              *)
(* app/services/auth_service.py, app/services/session_service.py and the   *)
(* status change of app/services/user_admin_service.py.                    *)
(*                                                                         *)
(* The tables refresh_tokens, sessions and users are the shared state; a   *)
(* request is a process that runs the handler one committed transaction at *)
(* a time.  A transaction that reads rows without locking them and writes  *)
(* later is two steps: the read keeps the snapshot (InnoDB REPEATABLE      *)
(* READ, SQLAlchemy autoflush=False) and the commit writes by primary key. *)
(* Requests on different accounts touch disjoint rows, so one account is   *)
(* enough.                                                                 *)
(***************************************************************************)
EXTENDS Integers, FiniteSets

CONSTANTS
    Requests,         \* request slots: how many requests run at the same time
    Tokens,           \* refresh tokens that can ever be minted
    Families,         \* family ids (uuid4), which are also session ids
    Legacy,           \* tokens minted before sessions (or families) existed
    NoToken, NoFamily,
    MaxConcurrent,    \* SESSION_MAX_CONCURRENT
    IdleTimeout,      \* SESSION_IDLE_TIMEOUT_SECONDS
    AbsoluteTimeout,  \* SESSION_ABSOLUTE_TIMEOUT_SECONDS
    RefreshTTL,       \* REFRESH_TOKEN_TTL_DAYS
    MaxNow,           \* bound on the clock
    Crashes,          \* may a request die between two of its commits?
    Ops               \* operations the clients of this instance use

ASSUME ConstantsAssumption ==
    /\ Legacy \subseteq Tokens
    /\ NoToken \notin Tokens
    /\ NoFamily \notin Families
    /\ MaxConcurrent \in Nat \ {0}
    /\ {IdleTimeout, AbsoluteTimeout, RefreshTTL, MaxNow} \subseteq Nat
    /\ Crashes \in BOOLEAN

VARIABLES
    account,   \* users.status of the account
    tokens,    \* refresh_tokens rows
    sessions,  \* sessions rows
    held,      \* refresh tokens some client has received
    req,       \* the handler each request slot is running
    now        \* datetime.utcnow()

vars == <<account, tokens, sessions, held, req, now>>

Reasons == {"user_logout", "user_revoked", "reuse_detected", "idle_timeout",
            "absolute_timeout", "concurrent_limit", "account_disabled"}

\* issued: the row exists.  acceptedAt is history: when the request that
\* minted the row passed its checks.
TokenRow == [issued : BOOLEAN, family : Families \cup {NoFamily},
             revoked : BOOLEAN, rotated : BOOLEAN,
             expires : Nat, acceptedAt : Nat]

\* status "none": there is no row for this family.
SessionRow == [status : {"none", "active", "revoked"}, created : Nat,
               activity : Nat, expires : Nat, reason : Reasons \cup {"none"}]

\* op: which handler; pc: what it does next; token and family: what it is
\* working for; target: the session being revoked; todo: the sessions still
\* to revoke; hadSession: did the snapshot contain a live session row.
Request == [op : {"none", "login", "rotate", "logout", "revoke", "disable"},
            pc : {"idle", "generate", "create", "rotate", "logout", "disable",
                  "sweep", "read", "write"},
            token : Tokens \cup {NoToken}, family : Families \cup {NoFamily},
            target : Families \cup {NoFamily}, todo : SUBSET Families,
            reason : Reasons \cup {"none"}, hadSession : BOOLEAN, at : Nat]

NoTokenRow == [issued |-> FALSE, family |-> NoFamily, revoked |-> FALSE,
               rotated |-> FALSE, expires |-> 0, acceptedAt |-> 0]

NoSessionRow == [status |-> "none", created |-> 0, activity |-> 0,
                 expires |-> 0, reason |-> "none"]

IdleRequest == [op |-> "none", pc |-> "idle", token |-> NoToken,
                family |-> NoFamily, target |-> NoFamily, todo |-> {},
                reason |-> "none", hadSession |-> FALSE, at |-> 0]

---------------------------------------------------------------------------
(* session_service: predicates over one session row                        *)

\* Mutant of IsUsable: only the expiry is looked at.
IsUsableExpiryOnly(s) == s.status = "none" \/ ~(s.expires < now)

\* is_usable: no row at all is usable; revoked or expired is not.
IsUsable(s) ==
    \/ s.status = "none"
    \/ s.status = "active" /\ ~(s.expires < now)

\* Mutants of TimeoutPolicy: one of the two limits is not enforced.
TimeoutPolicyIdleOnly(s) ==
    IF s.status # "none" /\ s.activity + IdleTimeout < now THEN "idle_timeout" ELSE "none"
TimeoutPolicyAbsoluteOnly(s) ==
    IF s.status # "none" /\ s.created + AbsoluteTimeout < now
    THEN "absolute_timeout" ELSE "none"

\* check_timeout_policy: absolute before idle, both strict.
TimeoutPolicy(s) ==
    IF s.status = "none" THEN "none"
    ELSE IF s.created + AbsoluteTimeout < now THEN "absolute_timeout"
    ELSE IF s.activity + IdleTimeout < now THEN "idle_timeout"
    ELSE "none"

\* effective_status = active
EffectivelyActive(s) ==
    /\ s.status = "active"
    /\ TimeoutPolicy(s) = "none"
    /\ ~(s.expires < now)

---------------------------------------------------------------------------
(* Writes shared by the handlers                                           *)

\* RefreshToken(...) as generate_tokens and rotate_refresh_token build it
NewToken(f, at) ==
    [issued |-> TRUE, family |-> f, revoked |-> FALSE, rotated |-> FALSE,
     expires |-> now + RefreshTTL, acceptedAt |-> at]

\* session_service.create
CreateSession(expires) ==
    [status |-> "active", created |-> now, activity |-> now,
     expires |-> expires, reason |-> "none"]

\* Mutant of Touch: the status is written back as the snapshot had it.
TouchWritesStatus(s, expires) ==
    [s EXCEPT !.activity = now, !.expires = expires, !.status = "active"]

\* session_service.touch as written by a transaction whose snapshot saw the
\* session active: status is assigned its old value, so the UPDATE leaves it
\* out and a revocation committed meanwhile survives.
Touch(s, expires) == [s EXCEPT !.activity = now, !.expires = expires]

\* Mutant of RevokeRow: the third value the column's comment mentions.
RevokeRowExpires(s, reason) == [s EXCEPT !.status = "expired", !.reason = reason]

\* session_service.revoke as written by a transaction that saw the row active
RevokeRow(s, reason) == [s EXCEPT !.status = "revoked", !.reason = reason]

\* Mutant of RotatedRow: the presented token is not marked as used.
RotatedRowKept(row, backfill) ==
    [row EXCEPT !.family = IF backfill = NoFamily THEN @ ELSE backfill]

\* The presented row after its rotation.  backfill is the new family of a row
\* that was read without one; a family_id that was read is assigned its old
\* value, which writes nothing.
RotatedRow(row, backfill) ==
    [row EXCEPT !.revoked = TRUE, !.rotated = TRUE,
                !.family = IF backfill = NoFamily THEN @ ELSE backfill]

\* _revoke_family
RevokeFamily(f) ==
    [t \in Tokens |->
        IF tokens[t].issued /\ tokens[t].family = f
        THEN [tokens[t] EXCEPT !.revoked = TRUE] ELSE tokens[t]]

FreshToken(t) == ~tokens[t].issued
FreshFamily(f) ==
    /\ sessions[f].status = "none"
    /\ \A t \in Tokens : tokens[t].issued => tokens[t].family # f
    /\ \A r \in Requests : req[r].family # f

\* Bounds: a handler is let in only if the token and the family it may mint
\* are still in the finite pools.
CanMintToken ==
    Cardinality({r \in Requests : req[r].pc \in {"generate", "rotate"}})
        < Cardinality({t \in Tokens : FreshToken(t)})
CanMintFamily ==
    Cardinality({r \in Requests : \/ req[r].pc = "generate"
                                  \/ req[r].pc = "rotate" /\ req[r].family = NoFamily})
        < Cardinality({f \in Families : FreshFamily(f)})

Become(r, state) == req' = [req EXCEPT ![r] = state]
Finish(r) == Become(r, IdleRequest)

---------------------------------------------------------------------------
(* The response to a client may be lost; a token that arrived is held.     *)
Deliver(t) == held' \in {held, held \cup {t}}

---------------------------------------------------------------------------
(* Login: authenticate_user, then generate_tokens                          *)

\* authenticate_user: the account is read active and the audit event commits,
\* which ends the transaction; nothing reads the status again.
LoginAuthenticate(r) ==
    /\ "login" \in Ops
    /\ req[r].pc = "idle"
    /\ account = "active"
    /\ CanMintToken /\ CanMintFamily
    /\ Become(r, [IdleRequest EXCEPT !.op = "login", !.pc = "generate"])
    /\ UNCHANGED <<account, tokens, sessions, held, now>>

ActiveSessions == {f \in Families : EffectivelyActive(sessions[f])}

\* Mutant of Excess: no room is left for the session being created.
ExcessOffByOne == Cardinality(ActiveSessions) - MaxConcurrent

\* _evict_oldest_sessions_over_limit: the oldest sessions to evict so that
\* the one about to be created fits; ties in created_at fall either way.
Excess == Cardinality(ActiveSessions) - MaxConcurrent + 1

Evictable ==
    IF Excess <= 0 THEN {{}}
    ELSE {E \in SUBSET ActiveSessions :
            /\ Cardinality(E) = Excess
            /\ \A e \in E, k \in ActiveSessions \ E :
                  sessions[e].created <= sessions[k].created}

\* generate_tokens below the limit: token and session in one commit.
LoginCommit(r) ==
    /\ req[r].pc = "generate"
    /\ {} \in Evictable
    /\ \E t \in Tokens, f \in Families :
         /\ FreshToken(t) /\ FreshFamily(f)
         /\ tokens' = [tokens EXCEPT ![t] = NewToken(f, now)]
         /\ sessions' = [sessions EXCEPT ![f] = CreateSession(now + RefreshTTL)]
         /\ Deliver(t)
    /\ Finish(r)
    /\ UNCHANGED <<account, now>>

Oldest(fs) == {f \in fs : \A g \in fs : sessions[f].created <= sessions[g].created}

\* generate_tokens at the limit: the row locks of the eviction query are held
\* until the first _revoke_family, whose commit also publishes the new token
\* row, before the session it belongs to exists.
LoginEvict(r) ==
    /\ req[r].pc = "generate"
    /\ \E E \in Evictable \ {{}}, t \in Tokens, f \in Families :
         \E e \in Oldest(E) :
         /\ FreshToken(t) /\ FreshFamily(f)
         /\ tokens' = [RevokeFamily(e) EXCEPT ![t] = NewToken(f, now)]
         /\ Become(r, [req[r] EXCEPT !.pc = "read", !.token = t, !.family = f,
                          !.target = e, !.todo = E \ {e},
                          !.reason = "concurrent_limit", !.at = now + RefreshTTL])
    /\ UNCHANGED <<account, sessions, held, now>>

\* Mutant of LoginCreate: the tokens are returned without the session row.
LoginCreateSkipped(r) ==
    /\ req[r].pc = "create"
    /\ Deliver(req[r].token)
    /\ Finish(r)
    /\ UNCHANGED <<account, tokens, sessions, now>>

\* generate_tokens after the evictions: session_service.create and commit.
LoginCreate(r) ==
    /\ req[r].pc = "create"
    /\ sessions' = [sessions EXCEPT ![req[r].family] = CreateSession(req[r].at)]
    /\ Deliver(req[r].token)
    /\ Finish(r)
    /\ UNCHANGED <<account, tokens, now>>

---------------------------------------------------------------------------
(* rotate_refresh_token (POST /auth/refresh and /auth/switch-team)         *)

SessionOf(t) ==
    IF tokens[t].family = NoFamily THEN NoSessionRow ELSE sessions[tokens[t].family]

\* What rotate_refresh_token decides from its snapshot, in the code's order.
RotateVerdict(t) ==
    IF tokens[t].rotated THEN "reuse_detected"
    ELSE IF tokens[t].revoked \/ tokens[t].expires < now \/ ~IsUsable(SessionOf(t))
         THEN "refused"
    ELSE IF TimeoutPolicy(SessionOf(t)) # "none" THEN TimeoutPolicy(SessionOf(t))
    ELSE IF account # "active" THEN "refused"
    ELSE "accepted"

\* The reads, up to the first write.
RotateRead(r, t) ==
    /\ "rotate" \in Ops
    /\ req[r].pc = "idle"
    /\ t \in held
    /\ LET verdict == RotateVerdict(t)
           start == [IdleRequest EXCEPT !.op = "rotate", !.token = t,
                       !.family = tokens[t].family, !.at = now,
                       !.hadSession = SessionOf(t).status # "none"]
       IN \/ /\ verdict = "accepted"
             /\ CanMintToken
             /\ tokens[t].family = NoFamily => CanMintFamily
             /\ Become(r, [start EXCEPT !.pc = "rotate"])
          \/ /\ verdict \in Reasons
             /\ Become(r, [start EXCEPT !.pc = "sweep", !.todo = {tokens[t].family},
                              !.reason = verdict])
    /\ UNCHANGED <<account, tokens, sessions, held, now>>

\* The writes of an accepted rotation: one commit, no row re-read.  A token
\* without a family gets a new one, a family without a session gets its row.
RotateCommit(r) ==
    /\ req[r].pc = "rotate"
    /\ \E n \in Tokens, f \in Families :
         /\ FreshToken(n)
         /\ IF req[r].family = NoFamily THEN FreshFamily(f) ELSE f = req[r].family
         /\ req[r].hadSession \/ sessions[f].status = "none"
         /\ tokens' = [tokens EXCEPT
                ![req[r].token] =
                    RotatedRow(@, IF req[r].family = NoFamily THEN f ELSE NoFamily),
                ![n] = NewToken(f, req[r].at)]
         /\ sessions' = [sessions EXCEPT ![f] =
                IF req[r].hadSession THEN Touch(@, now + RefreshTTL)
                ELSE CreateSession(now + RefreshTTL)]
         /\ Deliver(n)
    /\ Finish(r)
    /\ UNCHANGED <<account, now>>

\* Two rotations backfill the session of the same family: sessions.session_id
\* is unique, so the second INSERT fails and its transaction is rolled back.
RotateConflict(r) ==
    /\ req[r].pc = "rotate"
    /\ ~req[r].hadSession
    /\ req[r].family # NoFamily
    /\ sessions[req[r].family].status # "none"
    /\ Finish(r)
    /\ UNCHANGED <<account, tokens, sessions, held, now>>

---------------------------------------------------------------------------
(* Logout: revoke_token                                                    *)

LogoutRead(r, t) ==
    /\ "logout" \in Ops
    /\ req[r].pc = "idle"
    /\ t \in held
    /\ Become(r, [IdleRequest EXCEPT !.op = "logout", !.pc = "logout",
                     !.token = t, !.family = tokens[t].family,
                     !.reason = "user_logout",
                     !.hadSession = SessionOf(t).status = "active"])
    /\ UNCHANGED <<account, tokens, sessions, held, now>>

\* Revokes the presented row only, and the session unless the snapshot had
\* it revoked already.
LogoutCommit(r) ==
    /\ req[r].pc = "logout"
    /\ tokens' = [tokens EXCEPT ![req[r].token].revoked = TRUE]
    /\ sessions' = IF req[r].hadSession
                   THEN [sessions EXCEPT ![req[r].family] = RevokeRow(@, req[r].reason)]
                   ELSE sessions
    /\ Finish(r)
    /\ UNCHANGED <<account, held, now>>

---------------------------------------------------------------------------
(* revoke_session (POST /sessions/{id}/revoke)                             *)

RevokeSessionStart(r, f) ==
    /\ "revoke" \in Ops
    /\ req[r].pc = "idle"
    /\ sessions[f].status # "none"
    /\ Become(r, [IdleRequest EXCEPT !.op = "revoke", !.pc = "sweep",
                     !.todo = {f}, !.reason = "user_revoked"])
    /\ UNCHANGED <<account, tokens, sessions, held, now>>

---------------------------------------------------------------------------
(* set_user_status                                                         *)

\* Mutant of UnrevokedSessions: sessions already timed out are left alone.
UnrevokedSessionsEffective == {f \in Families : EffectivelyActive(sessions[f])}

\* The sessions revoke_all_sessions_for_user lists: every row not revoked,
\* expired ones included.
UnrevokedSessions == {f \in Families : sessions[f].status = "active"}

DisableRead(r) ==
    /\ "disable" \in Ops
    /\ req[r].pc = "idle"
    /\ account = "active"
    /\ Become(r, [IdleRequest EXCEPT !.op = "disable", !.pc = "disable",
                     !.todo = UnrevokedSessions, !.reason = "account_disabled"])
    /\ UNCHANGED <<account, tokens, sessions, held, now>>

\* The flushed status commits with the first _revoke_family, or on its own
\* when there was no session to revoke.
DisableCommit(r) ==
    /\ req[r].pc = "disable"
    /\ account' = "suspended"
    /\ \/ /\ req[r].todo = {}
          /\ Finish(r)
          /\ UNCHANGED tokens
       \/ \E f \in req[r].todo :
            /\ tokens' = RevokeFamily(f)
            /\ Become(r, [req[r] EXCEPT !.pc = "read", !.target = f, !.todo = @ \ {f}])
    /\ UNCHANGED <<sessions, held, now>>

Enable(r) ==
    /\ "disable" \in Ops
    /\ req[r].pc = "idle"
    /\ account = "suspended"
    /\ account' = "active"
    /\ UNCHANGED <<tokens, sessions, held, req, now>>

---------------------------------------------------------------------------
(* The revocation loop every path but logout runs: _revoke_family commits, *)
(* then session_service.revoke reads the session and _log_session_revoked  *)
(* commits what it wrote.                                                  *)

\* Mutant of AfterTarget: the loop ends after its first session.
AfterTargetStops(r) ==
    IF req[r].op = "login" THEN [req[r] EXCEPT !.pc = "create", !.target = NoFamily]
    ELSE IdleRequest

AfterTarget(r) ==
    IF req[r].todo # {} THEN [req[r] EXCEPT !.pc = "sweep", !.target = NoFamily]
    ELSE IF req[r].op = "login" THEN [req[r] EXCEPT !.pc = "create", !.target = NoFamily]
    ELSE IdleRequest

SweepFamily(r) ==
    /\ req[r].pc = "sweep"
    /\ \E f \in IF req[r].op = "login" THEN Oldest(req[r].todo) ELSE req[r].todo :
         /\ tokens' = RevokeFamily(f)
         /\ Become(r, [req[r] EXCEPT !.pc = "read", !.target = f, !.todo = @ \ {f}])
    /\ UNCHANGED <<account, sessions, held, now>>

\* Mutant of SweepRead: revoke is not idempotent.
SweepReadAlways(r) ==
    /\ req[r].pc = "read"
    /\ Become(r, IF sessions[req[r].target].status # "none"
                 THEN [req[r] EXCEPT !.pc = "write"] ELSE AfterTarget(r))
    /\ UNCHANGED <<account, tokens, sessions, held, now>>

\* session_service.revoke reads: an already revoked or missing row is left alone.
SweepRead(r) ==
    /\ req[r].pc = "read"
    /\ Become(r, IF sessions[req[r].target].status = "active"
                 THEN [req[r] EXCEPT !.pc = "write"] ELSE AfterTarget(r))
    /\ UNCHANGED <<account, tokens, sessions, held, now>>

SweepWrite(r) ==
    /\ req[r].pc = "write"
    /\ sessions' = [sessions EXCEPT ![req[r].target] = RevokeRow(@, req[r].reason)]
    /\ Become(r, AfterTarget(r))
    /\ UNCHANGED <<account, tokens, held, now>>

---------------------------------------------------------------------------
\* The worker dies, or its connection does: what was not committed is gone.
Crash(r) ==
    /\ Crashes
    /\ req[r].pc # "idle"
    /\ Finish(r)
    /\ UNCHANGED <<account, tokens, sessions, held, now>>

Tick ==
    /\ now < MaxNow
    /\ now' = now + 1
    /\ UNCHANGED <<account, tokens, sessions, held, req>>

Init ==
    /\ account = "active"
    /\ \E fam \in [Legacy -> Families \cup {NoFamily}] :
         /\ \A t, u \in Legacy : fam[t] = fam[u] => t = u \/ fam[t] = NoFamily
         /\ tokens = [t \in Tokens |->
                IF t \in Legacy
                THEN [NoTokenRow EXCEPT !.issued = TRUE, !.family = fam[t],
                                        !.expires = RefreshTTL]
                ELSE NoTokenRow]
    /\ sessions = [f \in Families |-> NoSessionRow]
    /\ held = Legacy
    /\ req = [r \in Requests |-> IdleRequest]
    /\ now = 0

\* One step of the handler a request is already running.
Step(r) ==
    \/ LoginCommit(r) \/ LoginEvict(r) \/ LoginCreate(r)
    \/ RotateCommit(r) \/ RotateConflict(r)
    \/ LogoutCommit(r)
    \/ DisableCommit(r)
    \/ SweepFamily(r) \/ SweepRead(r) \/ SweepWrite(r)

\* A request arrives.
Arrive(r) ==
    \/ LoginAuthenticate(r)
    \/ \E t \in Tokens : RotateRead(r, t) \/ LogoutRead(r, t)
    \/ \E f \in Families : RevokeSessionStart(r, f)
    \/ DisableRead(r) \/ Enable(r)

Next ==
    \/ \E r \in Requests : Arrive(r) \/ Step(r) \/ Crash(r)
    \/ Tick

Spec == Init /\ [][Next]_vars

\* A worker that did not die runs its handler to the end.
FairSpec == Spec /\ \A r \in Requests : WF_vars(Step(r))

---------------------------------------------------------------------------
(* Properties                                                              *)

\* The rows of the three tables and the running requests have their types; in
\* particular the status column only ever holds the two values code compares.
TypeOK ==
    /\ account \in {"active", "suspended"}
    /\ tokens \in [Tokens -> TokenRow]
    /\ sessions \in [Families -> SessionRow]
    /\ held \subseteq Tokens
    /\ req \in [Requests -> Request]
    /\ now \in Nat

FamilyRows(f) == {t \in Tokens : tokens[t].issued /\ tokens[t].family = f}

\* The session is revoked and no rotation that read it earlier is in flight.
Frozen(f) ==
    /\ sessions[f].status = "revoked"
    /\ \A r \in Requests : req[r].pc = "rotate" => req[r].family # f

\* rotate_refresh_token never mints another token for a session that was
\* revoked before the rotation read it, although logout revokes a single row
\* and a racing rotation may have left a live row behind: the session check
\* (is_usable) alone has to stop it, for good.
RevokedFamilyFrozen ==
    [][\A f \in Families : Frozen(f) =>
          Frozen(f)' /\ FamilyRows(f)' \subseteq FamilyRows(f)]_vars

\* touch, create and revoke as run by stale transactions never bring a revoked
\* session back and never restart its absolute lifetime.
SessionHistory ==
    [][\A f \in Families : sessions[f].status # "none" =>
          /\ sessions'[f].created = sessions[f].created
          /\ sessions'[f].status # "none"
          /\ sessions[f].status = "revoked" => sessions'[f].status = "revoked"]_vars

\* check_timeout_policy caps the sliding expiry: whatever the sequence of
\* refreshes, every token of a session was granted within the absolute
\* lifetime of that session.
AbsoluteCap ==
    \A t \in Tokens, f \in Families :
        tokens[t].issued /\ tokens[t].family = f /\ sessions[f].status # "none" =>
            tokens[t].acceptedAt <= sessions[f].created + AbsoluteTimeout

\* check_timeout_policy on idleness: a token was granted no later than
\* IdleTimeout after the login or after some other refresh of its family.
IdleCap ==
    \A t \in Tokens, f \in Families :
        tokens[t].issued /\ tokens[t].family = f /\ sessions[f].status # "none" =>
            \/ tokens[t].acceptedAt <= sessions[f].created + IdleTimeout
            \/ \E u \in FamilyRows(f) \ {t} :
                  tokens[t].acceptedAt <= tokens[u].expires - RefreshTTL + IdleTimeout

\* generate_tokens at the session limit commits the token row before the
\* session row; a crash in between must not leave a client with a token that
\* no session (and so no timeout, revocation or listing) covers.
HeldTokenHasSession ==
    \A t \in held \ Legacy : sessions[tokens[t].family].status # "none"

\* Rotation as the README describes it: a refresh token is single-use, so a
\* family has at most one token that /auth/refresh would accept.
OneLiveToken ==
    \A f \in Families :
        Cardinality({t \in FamilyRows(f) : RotateVerdict(t) = "accepted"}) <= 1

\* _evict_oldest_sessions_over_limit: no more than SESSION_MAX_CONCURRENT
\* effectively active sessions.
SessionLimit == Cardinality(ActiveSessions) <= MaxConcurrent

\* revoke_all_sessions_for_user: once the account is suspended and the sweep
\* is over, no session is left that re-enabling would revive.
SuspendedHasNoSession ==
    account = "suspended" /\ (\A r \in Requests : req[r].op # "disable")
        => \A f \in Families : sessions[f].status # "active"

\* session_service.revoke: the first revocation's reason is the one kept.
FirstReasonKept ==
    [][\A f \in Families : sessions[f].status = "revoked" =>
          sessions'[f].reason = sessions[f].reason]_vars

\* Reuse detection, timeouts, user revocation, eviction and the disable sweep
\* reach every session they set out to revoke, and it stays revoked.
RevocationCompletes ==
    \A r \in Requests, f \in Families :
        (f \in req[r].todo /\ sessions[f].status = "active")
            ~> [](sessions[f].status = "revoked")

=============================================================================
