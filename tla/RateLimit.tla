---------------------------- MODULE RateLimit ----------------------------
(***************************************************************************)
(* app/core/rate_limit.py: fixed-window counters with a separate lock key,  *)
(* kept in Redis by an atomic script, and the bounded in-process fallback   *)
(* used while Redis cannot be reached.                                      *)
(*                                                                          *)
(* Time is kept as what is left of each TTL, in ticks; a TTL of 0 is an     *)
(* absent key.  TicksPerSecond > 2 makes visible that Redis answers TTL in  *)
(* rounded seconds.                                                         *)
(***************************************************************************)
EXTENDS Integers, FiniteSets

CONSTANTS
    Accounts, Ips,
    Origins,          \* where requests come from: IPs, or NoIp for a
    NoIp,             \* transport that has no client address
    TicksPerSecond,
    MaxAttempts, Window, Lockout,     \* per dimension; seconds
    StrikeTTL, Multiplier, MaxLockout,
    FallbackMax, FallbackWindow, FallbackMaxKeys

Dimensions == {"account", "pair", "ip"}

ASSUME RateLimitAssumption ==
    /\ Origins \subseteq Ips \cup {NoIp}
    /\ NoIp \notin Ips
    /\ TicksPerSecond \in Nat \ {0}
    /\ {MaxAttempts, Window, Lockout} \subseteq [Dimensions -> Nat \ {0}]
    /\ {StrikeTTL, Multiplier, MaxLockout, FallbackMax, FallbackWindow,
        FallbackMaxKeys} \subseteq Nat \ {0}
    /\ Lockout["account"] <= MaxLockout /\ FallbackWindow <= MaxLockout

VARIABLES
    redisUp,    \* can this process reach Redis right now
    counters,   \* Redis fail counters
    locks,      \* Redis lock flags: ticks left
    strikes,    \* Redis strike counters, per account
    fcounters,  \* _InProcessFallback._counters
    flocks,     \* _InProcessFallback._locks: ticks left, Absent, or 0 when
                \* the entry is stale but still in the dictionary
    fstrikes    \* the strike entries of _InProcessFallback._counters

redis == <<counters, locks, strikes>>
fallback == <<fcounters, flocks, fstrikes>>
rateVars == <<redisUp, redis, fallback>>

Absent == -1

AccountKey(a) == [dim |-> "account", account |-> a]
PairKey(a, i) == [dim |-> "pair", account |-> a, ip |-> i]
IpKey(i) == [dim |-> "ip", ip |-> i]

Keys == {AccountKey(a) : a \in Accounts}
            \cup {PairKey(a, i) : a \in Accounts, i \in Origins}
            \cup {IpKey(i) : i \in Origins \ {NoIp}}

Ticks(seconds) == seconds * TicksPerSecond

NoCounter == [n |-> 0, ttl |-> 0]
NoEntry == [n |-> 0, age |-> Absent]

RateInit ==
    /\ counters = [k \in Keys |-> NoCounter]
    /\ locks = [k \in Keys |-> 0]
    /\ strikes = [a \in Accounts |-> NoCounter]
    /\ fcounters = [k \in Keys |-> NoEntry]
    /\ flocks = [k \in Keys |-> Absent]
    /\ fstrikes = [a \in Accounts |-> NoEntry]

---------------------------------------------------------------------------
(* Redis                                                                   *)

\* INCR, with EXPIRE on the first increment.
Incr(c, ttl) == [n |-> c.n + 1, ttl |-> IF c.n = 0 THEN ttl ELSE c.ttl]

\* Mutant of IncrAndLock: an attempt on a locked key starts the lockout anew.
IncrAndLockRearms(k, newly) ==
    LET c == Incr(counters[k], Ticks(Window[k.dim]))
    IN  \/ /\ locks[k] > 0
           /\ newly = FALSE
           /\ locks' = [locks EXCEPT ![k] = Ticks(Lockout[k.dim])]
           /\ UNCHANGED counters
        \/ /\ locks[k] = 0
           /\ newly = (c.n >= MaxAttempts[k.dim])
           /\ counters' = [counters EXCEPT ![k] = c]
           /\ locks' = IF newly THEN [locks EXCEPT ![k] = Ticks(Lockout[k.dim])]
                       ELSE locks

\* _INCR_AND_LOCK_SCRIPT, run by Redis as one step.  A locked key is not
\* counted; reaching the limit sets the lock and reports it newly set.
IncrAndLock(k, newly) ==
    LET c == Incr(counters[k], Ticks(Window[k.dim]))
    IN  \/ /\ locks[k] > 0
           /\ newly = FALSE
           /\ UNCHANGED <<counters, locks>>
        \/ /\ locks[k] = 0
           /\ newly = (c.n >= MaxAttempts[k.dim])
           /\ counters' = [counters EXCEPT ![k] = c]
           /\ locks' = IF newly THEN [locks EXCEPT ![k] = Ticks(Lockout[k.dim])]
                       ELSE locks

\* Redis answers TTL in seconds, rounded to the nearest.
RedisTTL(ticks) == (2 * ticks + TicksPerSecond) \div (2 * TicksPerSecond)

---------------------------------------------------------------------------
(* _InProcessFallback                                                      *)

\* _evict_if_full: too many entries, stale ones included, drop everything.
\* The entry of the key at hand is gone already when its lock was stale.
Entries(k) ==
    Cardinality({j \in Keys : fcounters[j].age # Absent})
        + Cardinality({a \in Accounts : fstrikes[a].age # Absent})
        + Cardinality({j \in Keys \ {k} : flocks[j] # Absent})

Full(k) == Entries(k) > FallbackMaxKeys

\* An entry whose window is over restarts.
Bump(e, window) ==
    IF e.age = Absent \/ e.age > window THEN [n |-> 1, age |-> 0]
    ELSE [e EXCEPT !.n = @ + 1]

\* _InProcessFallback.record_attempt, under its mutex.
FallbackAttempt(k, newly) ==
    LET full == Full(k)
        e == Bump(IF full THEN NoEntry ELSE fcounters[k], Ticks(FallbackWindow))
        kept == IF full THEN [j \in Keys |-> Absent]
                ELSE [flocks EXCEPT ![k] = Absent]
    IN  \/ /\ flocks[k] > 0
           /\ newly = FALSE
           /\ UNCHANGED fallback
        \/ /\ flocks[k] <= 0
           /\ newly = (e.n >= FallbackMax)
           /\ fcounters' = [IF full THEN [j \in Keys |-> NoEntry] ELSE fcounters
                               EXCEPT ![k] = e]
           /\ fstrikes' = IF full THEN [a \in Accounts |-> NoEntry] ELSE fstrikes
           /\ flocks' = IF newly THEN [kept EXCEPT ![k] = Ticks(FallbackWindow)]
                        ELSE kept

---------------------------------------------------------------------------
(* The module's functions: Redis, or the fallback when it cannot be reached *)

RecordAttempt(k, newly) ==
    \/ redisUp /\ IncrAndLock(k, newly) /\ UNCHANGED <<strikes, fallback>>
    \/ ~redisUp /\ FallbackAttempt(k, newly) /\ UNCHANGED redis

IsLocked(k) == IF redisUp THEN RedisTTL(locks[k]) > 0 ELSE flocks[k] > 0

\* clear: Redis if it answers, and the fallback in any case.
Clear(keys, a) ==
    /\ IF redisUp
       THEN /\ counters' = [k \in Keys |-> IF k \in keys THEN NoCounter ELSE counters[k]]
            /\ locks' = [k \in Keys |-> IF k \in keys THEN 0 ELSE locks[k]]
            /\ strikes' = [strikes EXCEPT ![a] = NoCounter]
       ELSE UNCHANGED redis
    /\ fcounters' = [k \in Keys |-> IF k \in keys THEN NoEntry ELSE fcounters[k]]
    /\ flocks' = [k \in Keys |-> IF k \in keys THEN Absent ELSE flocks[k]]
    /\ fstrikes' = [fstrikes EXCEPT ![a] = NoEntry]

\* bump_strikes: _STRIKE_SCRIPT, or an entry of the fallback's counters.
BumpStrikes(a, n) ==
    IF redisUp
    THEN /\ strikes' = [strikes EXCEPT ![a] = Incr(@, Ticks(StrikeTTL))]
         /\ n = strikes[a].n + 1
         /\ UNCHANGED <<counters, locks, fallback>>
    ELSE /\ fstrikes' = [fstrikes EXCEPT ![a] = Bump(@, Ticks(StrikeTTL))]
         /\ n = Bump(fstrikes[a], Ticks(StrikeTTL)).n
         /\ UNCHANGED <<redis, fcounters, flocks>>

\* set_lock_ttl: EXPIRE does nothing to a key that is gone.
SetLockTTL(k, seconds) ==
    IF redisUp
    THEN /\ locks' = [locks EXCEPT ![k] = IF @ > 0 THEN Ticks(seconds) ELSE 0]
         /\ UNCHANGED <<counters, strikes, fallback>>
    ELSE /\ flocks' = [flocks EXCEPT ![k] = IF @ # Absent THEN Ticks(seconds) ELSE @]
         /\ UNCHANGED <<redis, fcounters, fstrikes>>

---------------------------------------------------------------------------
(* The passage of one tick                                                 *)

Older(c) == IF c.ttl <= 1 THEN NoCounter ELSE [c EXCEPT !.ttl = @ - 1]
Aged(e, window) == IF e.age = Absent \/ e.age > window THEN e ELSE [e EXCEPT !.age = @ + 1]

Elapse ==
    /\ counters' = [k \in Keys |-> Older(counters[k])]
    /\ locks' = [k \in Keys |-> IF locks[k] = 0 THEN 0 ELSE locks[k] - 1]
    /\ strikes' = [a \in Accounts |-> Older(strikes[a])]
    /\ fcounters' = [k \in Keys |-> Aged(fcounters[k], Ticks(FallbackWindow))]
    /\ flocks' = [k \in Keys |-> IF flocks[k] > 0 THEN flocks[k] - 1 ELSE flocks[k]]
    /\ fstrikes' = [a \in Accounts |-> Aged(fstrikes[a], Ticks(StrikeTTL))]

=============================================================================
