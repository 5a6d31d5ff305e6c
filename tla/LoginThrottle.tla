-------------------------- MODULE LoginThrottle --------------------------
(***************************************************************************)
(* app/services/login_throttle_service.py around the password check of      *)
(* auth_service.authenticate_user (mfa_throttle_service.py has the same      *)
(* shape for the second factor).  A request peeks at the three locks, then   *)
(* verifies the password, then records the outcome one Redis call at a time, *)
(* so requests overlap between the peek and the count.                       *)
(***************************************************************************)
EXTENDS RateLimit

CONSTANTS
    Requests,
    NoAccount,
    RedisStates,   \* the values redisUp takes in this instance
    MaxStrikes     \* bound on the escalations counted

ASSUME LoginAssumption ==
    /\ IsFiniteSet(Requests)
    /\ RedisStates \subseteq BOOLEAN

VARIABLES
    req,       \* what each request slot is doing
    guesses,   \* history: failed password checks per key since it was last
               \* clean (no counter or lock left, cleared by a success, or evicted)
    lockedFor  \* history: for how many ticks each key has been locked

history == <<guesses, lockedFor>>
vars == <<rateVars, req, history>>

Request == [pc : {"idle", "verify", "account", "strike", "extend", "pair", "ip", "clear"},
            account : Accounts \cup {NoAccount}, ip : Origins \cup {NoIp}, ttl : Nat]

IdleRequest == [pc |-> "idle", account |-> NoAccount, ip |-> NoIp, ttl |-> 0]

Goto(r, pc) == req' = [req EXCEPT ![r].pc = pc]
Finish(r) == req' = [req EXCEPT ![r] = IdleRequest]

\* The keys an attempt counts against: no IP-wide one without an address.
KeysOf(a, i) == {AccountKey(a), PairKey(a, i)} \cup (IF i = NoIp THEN {} ELSE {IpKey(i)})

\* check_throttled
Throttled(a, i) == \E k \in KeysOf(a, i) : IsLocked(k)

\* POST /auth/login: the peek, before the password is looked at.
Check(r, a, i) ==
    /\ req[r].pc = "idle"
    /\ ~Throttled(a, i)
    /\ req' = [req EXCEPT ![r] = [pc |-> "verify", account |-> a, ip |-> i, ttl |-> 0]]
    /\ UNCHANGED <<rateVars, history>>

\* Failed checks on a key that lock it, and how far those already past the
\* peek may exceed that; the history stops counting beyond it.
Limit(k) == IF redisUp THEN MaxAttempts[k.dim] ELSE FallbackMax
Slack == Cardinality(Requests)

\* authenticate_user: verify_password says yes or no.
Verify(r) ==
    /\ req[r].pc = "verify"
    /\ \/ /\ Goto(r, "clear")
          /\ UNCHANGED guesses
       \/ /\ Goto(r, "account")
          /\ guesses' = [k \in Keys |->
                IF k \in KeysOf(req[r].account, req[r].ip) /\ guesses[k] < Limit(k) + Slack
                THEN guesses[k] + 1 ELSE guesses[k]]
    /\ UNCHANGED <<rateVars, lockedFor>>

\* What counts now: the state in Redis, or the fallback's.
LockLeft(k) == IF redisUp THEN locks[k] ELSE flocks[k]
Counted(k) == IF redisUp THEN counters[k].n > 0
              ELSE fcounters[k].age # Absent /\ fcounters[k].age <= Ticks(FallbackWindow)

\* The history of a lock ends with it, also when it was cleared or evicted.
NoteLocks == lockedFor' = [k \in Keys |-> IF LockLeft(k)' > 0 THEN lockedFor[k] ELSE 0]

\* A fallback that is full forgets everything it counted; so does the history.
NoteEviction(k) ==
    guesses' = IF ~redisUp /\ flocks[k] <= 0 /\ Full(k) THEN [j \in Keys |-> 0] ELSE guesses

\* record_failure, account dimension
RecordAccount(r) ==
    /\ req[r].pc = "account"
    /\ \E newly \in BOOLEAN :
         /\ RecordAttempt(AccountKey(req[r].account), newly)
         /\ Goto(r, IF newly THEN "strike" ELSE "pair")
    /\ UNCHANGED redisUp
    /\ NoteEviction(AccountKey(req[r].account))
    /\ NoteLocks

\* Mutant of EscalatedLockout: the cap is forgotten.
EscalatedLockoutUncapped(n) == Lockout["account"] * Multiplier^(n - 1)

\* base * multiplier^(strikes - 1), capped; at most base after the first.
EscalatedLockout(n) ==
    LET escalated == Lockout["account"] * Multiplier^(n - 1)
    IN  IF escalated \in 1..MaxLockout THEN escalated ELSE MaxLockout

\* _apply_progressive_escalation: count the strike ...
Strike(r) ==
    /\ req[r].pc = "strike"
    /\ \E n \in 1..MaxStrikes :
         /\ BumpStrikes(req[r].account, n)
         /\ IF n > 1 /\ EscalatedLockout(n) > Lockout["account"]
            THEN req' = [req EXCEPT ![r].pc = "extend", ![r].ttl = EscalatedLockout(n)]
            ELSE Goto(r, "pair")
    /\ UNCHANGED <<redisUp, guesses>>
    /\ NoteLocks

\* ... and stretch the lock in a second call.
Extend(r) ==
    /\ req[r].pc = "extend"
    /\ SetLockTTL(AccountKey(req[r].account), req[r].ttl)
    /\ req' = [req EXCEPT ![r].pc = "pair", ![r].ttl = 0]
    /\ UNCHANGED <<redisUp, guesses>>
    /\ NoteLocks

\* record_failure, pair and IP dimensions
RecordPair(r) ==
    /\ req[r].pc = "pair"
    /\ \E newly \in BOOLEAN : RecordAttempt(PairKey(req[r].account, req[r].ip), newly)
    /\ IF req[r].ip = NoIp THEN Finish(r) ELSE Goto(r, "ip")
    /\ UNCHANGED redisUp
    /\ NoteEviction(PairKey(req[r].account, req[r].ip))
    /\ NoteLocks

RecordIp(r) ==
    /\ req[r].pc = "ip"
    /\ \E newly \in BOOLEAN : RecordAttempt(IpKey(req[r].ip), newly)
    /\ Finish(r)
    /\ UNCHANGED redisUp
    /\ NoteEviction(IpKey(req[r].ip))
    /\ NoteLocks

\* Mutant of ClearedKeys: the IP-wide counter is reset too.
ClearedKeysAndIp(a, i) == KeysOf(a, i)

\* What record_success resets: not the IP-wide keys.
ClearedKeys(a, i) == {AccountKey(a), PairKey(a, i)}

\* record_success
Succeed(r) ==
    /\ req[r].pc = "clear"
    /\ Clear(ClearedKeys(req[r].account, req[r].ip), req[r].account)
    /\ guesses' = [k \in Keys |->
            IF k \in {AccountKey(req[r].account), PairKey(req[r].account, req[r].ip)}
            THEN 0 ELSE guesses[k]]
    /\ Finish(r)
    /\ UNCHANGED redisUp
    /\ NoteLocks

\* Time passes.  The history of a key restarts when its lock ends, and when
\* nothing is left of the attempts on it.
Tick ==
    /\ Elapse
    /\ UNCHANGED <<redisUp, req>>
    /\ guesses' = [k \in Keys |->
            IF LockLeft(k)' <= 0 /\ (LockLeft(k) > 0 \/ ~Counted(k)') THEN 0 ELSE guesses[k]]
    /\ lockedFor' = [k \in Keys |-> IF LockLeft(k)' > 0 THEN lockedFor[k] + 1 ELSE 0]

\* Redis becomes unreachable, or answers again with what it still holds.  The
\* history restarts: the two stores know nothing of each other.
RedisFlips ==
    /\ redisUp' \in RedisStates \ {redisUp}
    /\ guesses' = [k \in Keys |-> 0]
    /\ lockedFor' = [k \in Keys |-> 0]
    /\ UNCHANGED <<redis, fallback, req>>

Init ==
    /\ RateInit
    /\ redisUp \in RedisStates
    /\ req = [r \in Requests |-> IdleRequest]
    /\ guesses = [k \in Keys |-> 0]
    /\ lockedFor = [k \in Keys |-> 0]

Step(r) ==
    \/ Verify(r) \/ RecordAccount(r) \/ Strike(r) \/ Extend(r)
    \/ RecordPair(r) \/ RecordIp(r) \/ Succeed(r)

Next ==
    \/ \E r \in Requests : Step(r) \/ \E a \in Accounts, i \in Origins : Check(r, a, i)
    \/ Tick
    \/ RedisFlips

Spec == Init /\ [][Next]_vars

---------------------------------------------------------------------------
(* Properties                                                              *)

CounterRow(ttl) == [n : Nat, ttl : 0..Ticks(ttl)]
EntryRow(window) == [n : Nat, age : Absent..(Ticks(window) + 1)]

\* The rate limiter's keys, the requests and the history have their types, and
\* no key of Redis or of the fallback outlives what its setting allows: an
\* escalated lock is capped.
TypeOK ==
    /\ redisUp \in BOOLEAN
    /\ \A k \in Keys :
         /\ counters[k] \in CounterRow(Window[k.dim])
         /\ locks[k] \in 0..Ticks(IF k.dim = "account" THEN MaxLockout ELSE Lockout[k.dim])
         /\ fcounters[k] \in EntryRow(FallbackWindow)
         /\ flocks[k] \in Absent..Ticks(IF k.dim = "account" THEN MaxLockout
                                         ELSE FallbackWindow)
    /\ strikes \in [Accounts -> CounterRow(StrikeTTL)]
    /\ fstrikes \in [Accounts -> EntryRow(StrikeTTL)]
    /\ req \in [Requests -> Request]
    /\ {guesses, lockedFor} \subseteq [Keys -> Nat]

\* The peek and the count are separate calls, so requests that overlap can
\* pass the limit; but only those in flight can.  Once the lock is set nobody
\* reaches the password check until it ends, and a client that logs in to an
\* account of its own in between gains nothing against its IP's limit.
GuessesBounded == \A k \in Keys : guesses[k] < Limit(k) + Slack

\* Nothing but one escalation per request prolongs a lockout: attempts that
\* were in flight when the lock was set, or that arrive under it, do not, so
\* nobody stays locked out beyond the configured time.
LockoutBounded ==
    \A k \in Keys : LockLeft(k) > 0 => lockedFor[k] <
        IF ~redisUp /\ k.dim # "account" THEN Ticks(FallbackWindow)
        ELSE IF k.dim # "account" THEN Ticks(Lockout[k.dim])
        ELSE Ticks((IF redisUp THEN Lockout[k.dim] ELSE FallbackWindow)
                       + Cardinality(Requests) * MaxLockout)

=============================================================================
