----------------------- MODULE LoginThrottleProofs -----------------------
(***************************************************************************)
(* Proofs about the rate limiter and the login throttle, for every number   *)
(* of accounts, addresses and overlapping requests and all limits: the keys  *)
(* keep their shape and their caps, a lockout ends in time, and only         *)
(* requests in flight pass the limit.                                        *)
(***************************************************************************)
EXTENDS LoginThrottle, FiniteSetTheorems, TLAPS

---------------------------------------------------------------------------
(* What the rate limiter's stores hold, key by key                         *)

\* How long a lock of Redis, and one of the fallback, can be set for.
LockCap(k) == IF k.dim = "account" THEN MaxLockout ELSE Lockout[k.dim]
FallbackCap(k) == IF k.dim = "account" THEN MaxLockout ELSE FallbackWindow

KeySound(k) ==
    /\ counters[k].ttl <= Ticks(Window[k.dim])
    /\ locks[k] <= Ticks(LockCap(k))
    /\ fcounters[k].age \in Absent..(Ticks(FallbackWindow) + 1)
    /\ flocks[k] \in Absent..Ticks(FallbackCap(k))

RateSound ==
    /\ redisUp \in BOOLEAN
    /\ counters \in [Keys -> [n : Nat, ttl : Nat]]
    /\ locks \in [Keys -> Nat]
    /\ fcounters \in [Keys -> [n : Nat, age : Int]]
    /\ flocks \in [Keys -> Int]
    /\ strikes \in [Accounts -> CounterRow(StrikeTTL)]
    /\ fstrikes \in [Accounts -> EntryRow(StrikeTTL)]
    /\ \A k \in Keys : KeySound(k)

\* What a newly set lock lasts, before any escalation.
Base(k) == IF redisUp THEN Lockout[k.dim] ELSE FallbackWindow

\* The failures the store in use remembers of a key.
Count(k) == IF redisUp THEN counters[k].n ELSE IF Counted(k) THEN fcounters[k].n ELSE 0

\* The fallback forgets everything before it counts an attempt on k.
Evicting(k) == ~redisUp /\ flocks[k] <= 0 /\ Full(k)

LEMMA KeyKinds ==
    /\ \A a \in Accounts : AccountKey(a) \in Keys /\ AccountKey(a).dim = "account"
    /\ \A a \in Accounts, i \in Origins : PairKey(a, i) \in Keys /\ PairKey(a, i).dim = "pair"
    /\ \A i \in Origins \ {NoIp} : IpKey(i) \in Keys /\ IpKey(i).dim = "ip"
    /\ \A k \in Keys : k.dim \in Dimensions
<1>1. /\ \A a \in Accounts : AccountKey(a) \in Keys
      /\ \A a \in Accounts, i \in Origins : PairKey(a, i) \in Keys
      /\ \A i \in Origins \ {NoIp} : IpKey(i) \in Keys
  BY DEF Keys
<1>2. /\ \A a : AccountKey(a).dim = "account"
      /\ \A a, i : PairKey(a, i).dim = "pair"
      /\ \A i : IpKey(i).dim = "ip"
  BY DEF AccountKey, PairKey, IpKey
<1>3. \A k \in Keys : k.dim \in Dimensions
  BY <1>2 DEF Keys, Dimensions
<1> QED
  BY <1>1, <1>2, <1>3

LEMMA TicksFacts ==
    /\ \A s \in Nat : Ticks(s) \in Nat
    /\ \A s \in Nat \ {0} : Ticks(s) > 0
    /\ \A s, t \in Nat : s <= t => Ticks(s) <= Ticks(t)
    /\ \A s, t \in Nat : Ticks(s + t) = Ticks(s) + Ticks(t)
<1>1. \A a, b, t \in Nat : /\ a * t \in Nat
                           /\ (a + b) * t = a * t + b * t
                           /\ a <= b => a * t <= b * t
                           /\ a # 0 /\ t # 0 => a * t > 0
  OBVIOUS
<1>2. TicksPerSecond \in Nat /\ TicksPerSecond # 0
  BY RateLimitAssumption
<1> QED
  BY <1>1, <1>2 DEF Ticks

\* The settings of one key.
LEMMA Settings ==
    ASSUME NEW k \in Keys
    PROVE  /\ Window[k.dim] \in Nat \ {0} /\ Lockout[k.dim] \in Nat \ {0}
           /\ MaxAttempts[k.dim] \in Nat \ {0}
           /\ FallbackWindow \in Nat \ {0} /\ FallbackMax \in Nat \ {0}
           /\ MaxLockout \in Nat \ {0} /\ StrikeTTL \in Nat \ {0}
           /\ LockCap(k) \in Nat /\ FallbackCap(k) \in Nat
           /\ Lockout[k.dim] <= LockCap(k) /\ FallbackWindow <= FallbackCap(k)
           /\ LockCap(k) <= MaxLockout \/ k.dim # "account"
           /\ Limit(k) \in Nat \ {0} /\ Base(k) \in Nat \ {0}
<1>1. k.dim \in Dimensions
  BY KeyKinds
<1>2. /\ Window[k.dim] \in Nat \ {0} /\ Lockout[k.dim] \in Nat \ {0}
      /\ MaxAttempts[k.dim] \in Nat \ {0}
  BY <1>1, RateLimitAssumption
<1>3. /\ FallbackWindow \in Nat \ {0} /\ FallbackMax \in Nat \ {0}
      /\ MaxLockout \in Nat \ {0} /\ StrikeTTL \in Nat \ {0}
      /\ Lockout["account"] <= MaxLockout /\ FallbackWindow <= MaxLockout
  BY RateLimitAssumption
<1> QED
  BY <1>2, <1>3 DEF LockCap, FallbackCap, Limit, Base

LEMMA EmptyRows == NoCounter \in CounterRow(StrikeTTL) /\ NoEntry \in EntryRow(StrikeTTL)
<1>1. Ticks(StrikeTTL) \in Nat
  BY TicksFacts, RateLimitAssumption
<1> QED
  BY <1>1 DEF NoCounter, NoEntry, CounterRow, EntryRow, Absent

LEMMA RateInitSound == RateInit /\ redisUp \in BOOLEAN => RateSound
<1> SUFFICES ASSUME RateInit, redisUp \in BOOLEAN PROVE RateSound
  OBVIOUS
<1>1. NoCounter \in CounterRow(StrikeTTL) /\ NoEntry \in EntryRow(StrikeTTL)
  BY EmptyRows
<1>2. /\ counters \in [Keys -> [n : Nat, ttl : Nat]] /\ locks \in [Keys -> Nat]
      /\ fcounters \in [Keys -> [n : Nat, age : Int]] /\ flocks \in [Keys -> Int]
  BY DEF RateInit, NoCounter, NoEntry, Absent
<1>3. ASSUME NEW k \in Keys PROVE KeySound(k)
  <2>1. Ticks(Window[k.dim]) \in Nat /\ Ticks(LockCap(k)) \in Nat
        /\ Ticks(FallbackWindow) \in Nat /\ Ticks(FallbackCap(k)) \in Nat
    BY TicksFacts, Settings
  <2> QED
    BY <2>1 DEF RateInit, KeySound, NoCounter, NoEntry, Absent
<1> QED
  BY <1>1, <1>2, <1>3 DEF RateInit, RateSound

---------------------------------------------------------------------------
(* One lemma per function of the rate limiter                              *)

LEMMA IncrRow ==
    ASSUME NEW c \in [n : Nat, ttl : Nat], NEW t \in Nat
    PROVE  /\ Incr(c, t) \in [n : Nat, ttl : Nat]
           /\ Incr(c, t).n = c.n + 1
           /\ Incr(c, t).ttl = t \/ Incr(c, t).ttl = c.ttl
BY DEF Incr

LEMMA BumpRow ==
    ASSUME NEW e \in [n : Nat, age : Int], NEW w \in Nat
    PROVE  /\ Bump(e, w) \in [n : Nat, age : Int]
           /\ IF e.age = Absent \/ e.age > w
              THEN Bump(e, w).n = 1 /\ Bump(e, w).age = 0
              ELSE Bump(e, w).n = e.n + 1 /\ Bump(e, w).age = e.age
BY DEF Bump

\* record_attempt on Redis: a lock that is set stays as it is; a free key counts
\* one more, and the attempt that reaches the limit locks it.
LEMMA RedisAttempt ==
    ASSUME RateSound, NEW k \in Keys, NEW newly \in BOOLEAN, redisUp, redisUp' = redisUp,
           IncrAndLock(k, newly), UNCHANGED <<strikes, fallback>>
    PROVE  /\ RateSound'
           /\ \A j \in Keys \ {k} : locks'[j] = locks[j] /\ counters'[j] = counters[j]
           /\ locks[k] > 0 => ~newly /\ locks'[k] = locks[k] /\ counters'[k] = counters[k]
           /\ locks[k] = 0 =>
                /\ counters'[k].n = counters[k].n + 1
                /\ newly <=> counters'[k].n >= MaxAttempts[k.dim]
                /\ locks'[k] = IF newly THEN Ticks(Lockout[k.dim]) ELSE 0
<1> DEFINE c == Incr(counters[k], Ticks(Window[k.dim]))
<1>1. /\ Ticks(Window[k.dim]) \in Nat /\ Ticks(Lockout[k.dim]) \in Nat
      /\ Ticks(LockCap(k)) \in Nat /\ Ticks(Lockout[k.dim]) <= Ticks(LockCap(k))
  BY Settings, TicksFacts
<1>2. counters[k] \in [n : Nat, ttl : Nat] /\ counters[k].ttl <= Ticks(Window[k.dim])
  BY DEF RateSound, KeySound
<1>3. /\ c \in [n : Nat, ttl : Nat] /\ c.n = counters[k].n + 1
      /\ c.ttl <= Ticks(Window[k.dim])
  <2>1. /\ c \in [n : Nat, ttl : Nat] /\ c.n = counters[k].n + 1
        /\ c.ttl = Ticks(Window[k.dim]) \/ c.ttl = counters[k].ttl
    BY <1>1, <1>2, IncrRow, Zenon
  <2> HIDE DEF c
  <2> QED
    BY <2>1, <1>1, <1>2
<1>4. UNCHANGED <<strikes, fcounters, flocks, fstrikes>>
  BY DEF fallback
<1>5. CASE locks[k] > 0
  <2>1. UNCHANGED <<counters, locks>> /\ ~newly
    BY <1>5 DEF IncrAndLock, RateSound
  <2> QED
    BY <2>1, <1>4, <1>5 DEF RateSound, KeySound
<1>6. CASE locks[k] = 0
  <2> HIDE DEF c
  <2>1. /\ counters' = [counters EXCEPT ![k] = c]
        /\ newly <=> c.n >= MaxAttempts[k.dim]
        /\ locks' = IF newly THEN [locks EXCEPT ![k] = Ticks(Lockout[k.dim])] ELSE locks
    <3>1. ~(locks[k] > 0)
      BY <1>6
    <3> QED
      BY <3>1 DEF IncrAndLock, c
  <2>2. /\ counters' \in [Keys -> [n : Nat, ttl : Nat]] /\ counters'[k] = c
        /\ \A j \in Keys \ {k} : counters'[j] = counters[j]
    BY <2>1, <1>3 DEF RateSound
  <2>3. /\ locks' \in [Keys -> Nat]
        /\ locks'[k] = IF newly THEN Ticks(Lockout[k.dim]) ELSE 0
        /\ \A j \in Keys \ {k} : locks'[j] = locks[j]
    BY <2>1, <1>1, <1>6 DEF RateSound
  <2>4. ASSUME NEW j \in Keys PROVE KeySound(j)'
    <3>1. KeySound(j)
      BY DEF RateSound
    <3>2. CASE j = k
      BY <3>1, <3>2, <2>2, <2>3, <1>1, <1>3, <1>4 DEF KeySound
    <3>3. CASE j # k
      BY <3>1, <3>3, <2>2, <2>3, <1>4 DEF KeySound
    <3> QED
      BY <3>2, <3>3
  <2> QED
    BY <2>1, <2>2, <2>3, <2>4, <1>3, <1>4, <1>6 DEF RateSound
<1>7. locks[k] > 0 \/ locks[k] = 0
  BY DEF RateSound
<1> QED
  BY <1>5, <1>6, <1>7

\* record_attempt on the fallback, which may evict everything first.
LEMMA FallbackAttemptSound ==
    ASSUME RateSound, NEW k \in Keys, NEW newly \in BOOLEAN, ~redisUp, redisUp' = redisUp,
           FallbackAttempt(k, newly), UNCHANGED redis
    PROVE  /\ RateSound'
           /\ flocks[k] > 0 => ~newly /\ UNCHANGED <<fcounters, flocks, fstrikes>>
           /\ flocks[k] <= 0 =>
                /\ ~Full(k) => \A j \in Keys \ {k} : /\ flocks'[j] = flocks[j]
                                                     /\ fcounters'[j] = fcounters[j]
                /\ Full(k) => \A j \in Keys \ {k} : flocks'[j] <= 0
                /\ newly <=> fcounters'[k].n >= FallbackMax
                /\ flocks'[k] = IF newly THEN Ticks(FallbackWindow) ELSE Absent
                /\ ~Full(k) => fcounters'[k] = Bump(fcounters[k], Ticks(FallbackWindow))
<1> DEFINE f == Ticks(FallbackWindow)
           e == Bump(IF Full(k) THEN NoEntry ELSE fcounters[k], f)
           kept == IF Full(k) THEN [j \in Keys |-> Absent] ELSE [flocks EXCEPT ![k] = Absent]
<1>1. f \in Nat /\ Ticks(FallbackCap(k)) \in Nat /\ f <= Ticks(FallbackCap(k))
  BY Settings, TicksFacts
<1>2. /\ fcounters[k] \in [n : Nat, age : Int] /\ NoEntry \in [n : Nat, age : Int]
      /\ fcounters[k].age \in Absent..(f + 1)
  BY DEF RateSound, KeySound, NoEntry, Absent
<1>3. e \in [n : Nat, age : Int] /\ e.age \in Absent..(f + 1)
  <2>1. CASE Full(k)
    <3>1. e = Bump(NoEntry, f) /\ NoEntry.age = Absent
      BY <2>1 DEF NoEntry
    <3>2. e \in [n : Nat, age : Int] /\ e.n = 1 /\ e.age = 0
      BY <3>1, <1>1, <1>2, BumpRow, Zenon
    <3> HIDE DEF e, f
    <3> QED
      BY <3>2, <1>1 DEF Absent
  <2>2. CASE ~Full(k)
    <3>1. e = Bump(fcounters[k], f)
      BY <2>2
    <3>2. e \in [n : Nat, age : Int] /\ (e.age = 0 \/ e.age = fcounters[k].age)
      BY <3>1, <1>1, <1>2, BumpRow, Zenon
    <3> HIDE DEF e, f
    <3> QED
      BY <3>2, <1>1, <1>2 DEF Absent
  <2> QED
    BY <2>1, <2>2
<1>4. UNCHANGED <<counters, locks, strikes>>
  BY DEF redis
<1>5. CASE flocks[k] > 0
  <2>1. UNCHANGED <<fcounters, flocks, fstrikes>> /\ ~newly
    BY <1>5 DEF FallbackAttempt, RateSound, fallback
  <2> QED
    BY <2>1, <1>4, <1>5 DEF RateSound, KeySound
<1>6. CASE flocks[k] <= 0
  <2>1. /\ newly <=> e.n >= FallbackMax
        /\ fcounters' = [IF Full(k) THEN [j \in Keys |-> NoEntry] ELSE fcounters EXCEPT ![k] = e]
        /\ fstrikes' = IF Full(k) THEN [a \in Accounts |-> NoEntry] ELSE fstrikes
        /\ flocks' = IF newly THEN [kept EXCEPT ![k] = f] ELSE kept
    <3>1. ~(flocks[k] > 0)
      BY <1>6 DEF RateSound
    <3> QED
      BY <1>6, <3>1 DEF FallbackAttempt
  <2> HIDE DEF e
  <2>2. /\ fcounters' \in [Keys -> [n : Nat, age : Int]] /\ fcounters'[k] = e
        /\ \A j \in Keys \ {k} : fcounters'[j] = IF Full(k) THEN NoEntry ELSE fcounters[j]
    BY <2>1, <1>2, <1>3 DEF RateSound
  <2>3. /\ flocks' \in [Keys -> Int] /\ flocks'[k] = IF newly THEN f ELSE Absent
        /\ \A j \in Keys \ {k} : flocks'[j] = IF Full(k) THEN Absent ELSE flocks[j]
    BY <2>1, <1>1 DEF RateSound, Absent
  <2>4. NoEntry \in EntryRow(StrikeTTL) /\ NoEntry.age = Absent
    BY EmptyRows DEF NoEntry
  <2>5. fstrikes' \in [Accounts -> EntryRow(StrikeTTL)]
    BY <2>1, <2>4 DEF RateSound
  <2>6. ASSUME NEW j \in Keys PROVE KeySound(j)'
    <3>1. KeySound(j) /\ Ticks(FallbackCap(j)) \in Nat
      BY Settings, TicksFacts DEF RateSound
    <3>2. CASE j = k
      BY <3>1, <3>2, <2>2, <2>3, <1>1, <1>3, <1>4 DEF KeySound, Absent
    <3>3. CASE j # k /\ Full(k)
      BY <3>1, <3>3, <2>2, <2>3, <2>4, <1>1, <1>4 DEF KeySound, Absent
    <3>4. CASE j # k /\ ~Full(k)
      BY <3>1, <3>4, <2>2, <2>3, <1>4 DEF KeySound
    <3> QED
      BY <3>2, <3>3, <3>4
  <2>7. RateSound'
    BY <2>2, <2>3, <2>5, <2>6, <1>4 DEF RateSound
  <2>8. /\ ~Full(k) => fcounters'[k] = Bump(fcounters[k], f)
        /\ Full(k) => \A j \in Keys \ {k} : flocks'[j] <= 0
    BY <2>2, <2>3 DEF e, Absent
  <2> QED
    BY <2>1, <2>2, <2>3, <2>7, <2>8, <1>6 DEF RateSound
<1>7. flocks[k] > 0 \/ flocks[k] <= 0
  BY DEF RateSound
<1> QED
  BY <1>5, <1>6, <1>7

\* record_attempt, whichever store answers.
LEMMA AttemptEffect ==
    ASSUME RateSound, NEW k \in Keys, NEW newly \in BOOLEAN, redisUp' = redisUp,
           RecordAttempt(k, newly)
    PROVE  /\ RateSound'
           /\ LockLeft(k) > 0 =>
                ~newly /\ \A j \in Keys : /\ LockLeft(j)' = LockLeft(j)
                                          /\ Count(j)' = Count(j)
           /\ LockLeft(k) <= 0 =>
                /\ newly => LockLeft(k)' = Ticks(Base(k))
                /\ ~newly => LockLeft(k)' <= 0
                /\ ~newly /\ ~Evicting(k) =>
                     Count(k)' = Count(k) + 1 /\ Count(k)' < Limit(k)
                /\ ~Evicting(k) => \A j \in Keys \ {k} : /\ LockLeft(j)' = LockLeft(j)
                                                         /\ Count(j)' = Count(j)
                /\ Evicting(k) => \A j \in Keys \ {k} : LockLeft(j)' <= 0
<1>1. CASE redisUp
  <2>1. IncrAndLock(k, newly) /\ UNCHANGED <<strikes, fallback>>
    BY <1>1 DEF RecordAttempt
  <2>2. /\ RateSound'
        /\ \A j \in Keys \ {k} : locks'[j] = locks[j] /\ counters'[j] = counters[j]
        /\ locks[k] > 0 => ~newly /\ locks'[k] = locks[k] /\ counters'[k] = counters[k]
        /\ locks[k] = 0 =>
             /\ counters'[k].n = counters[k].n + 1
             /\ newly <=> counters'[k].n >= MaxAttempts[k.dim]
             /\ locks'[k] = IF newly THEN Ticks(Lockout[k.dim]) ELSE 0
    BY <1>1, <2>1, RedisAttempt
  <2>3. /\ \A j \in Keys : /\ LockLeft(j) = locks[j] /\ LockLeft(j)' = locks'[j]
                           /\ Count(j) = counters[j].n /\ Count(j)' = counters'[j].n
        /\ Limit(k) = MaxAttempts[k.dim] /\ Base(k) = Lockout[k.dim] /\ ~Evicting(k)
    BY <1>1 DEF LockLeft, Count, Limit, Base, Evicting
  <2>4. /\ locks[k] \in Nat /\ counters'[k] \in [n : Nat, ttl : Nat]
        /\ MaxAttempts[k.dim] \in Nat
    BY <2>2, Settings DEF RateSound
  <2> QED
    BY <2>2, <2>3, <2>4
<1>2. CASE ~redisUp
  <2>1. FallbackAttempt(k, newly) /\ UNCHANGED redis
    BY <1>2 DEF RecordAttempt
  <2> DEFINE f == Ticks(FallbackWindow)
  <2>2. /\ RateSound'
        /\ flocks[k] > 0 => ~newly /\ UNCHANGED <<fcounters, flocks, fstrikes>>
        /\ flocks[k] <= 0 =>
             /\ ~Full(k) => \A j \in Keys \ {k} : /\ flocks'[j] = flocks[j]
                                                  /\ fcounters'[j] = fcounters[j]
             /\ Full(k) => \A j \in Keys \ {k} : flocks'[j] <= 0
             /\ newly <=> fcounters'[k].n >= FallbackMax
             /\ flocks'[k] = IF newly THEN f ELSE Absent
             /\ ~Full(k) => fcounters'[k] = Bump(fcounters[k], f)
    BY <1>2, <2>1, FallbackAttemptSound
  <2>3. /\ \A j \in Keys : /\ LockLeft(j) = flocks[j] /\ LockLeft(j)' = flocks'[j]
                           /\ Count(j) = IF fcounters[j].age # Absent /\ fcounters[j].age <= f
                                         THEN fcounters[j].n ELSE 0
                           /\ Count(j)' = IF fcounters'[j].age # Absent /\ fcounters'[j].age <= f
                                          THEN fcounters'[j].n ELSE 0
        /\ Limit(k) = FallbackMax /\ Base(k) = FallbackWindow
        /\ Evicting(k) <=> flocks[k] <= 0 /\ Full(k)
    BY <1>2 DEF LockLeft, Count, Counted, Limit, Base, Evicting
  <2>4. /\ flocks[k] \in Int /\ fcounters'[k] \in [n : Nat, age : Int]
        /\ fcounters[k] \in [n : Nat, age : Int] /\ FallbackMax \in Nat /\ f \in Nat
    BY <2>2, Settings, TicksFacts DEF RateSound
  <2>5. CASE flocks[k] > 0
    BY <2>2, <2>3, <2>4, <2>5
  <2>6. CASE flocks[k] <= 0 /\ Full(k)
    <3>1. newly => LockLeft(k)' = Ticks(Base(k))
      BY <2>2, <2>3, <2>6
    <3>2. ~newly => LockLeft(k)' <= 0
      BY <2>2, <2>3, <2>6 DEF Absent
    <3> QED
      BY <3>1, <3>2, <2>2, <2>3, <2>4, <2>6
  <2>7. CASE flocks[k] <= 0 /\ ~Full(k)
    <3>1. /\ newly => LockLeft(k)' = Ticks(Base(k))
          /\ ~newly => LockLeft(k)' <= 0
      BY <2>2, <2>3, <2>7 DEF Absent
    <3>2. \A j \in Keys \ {k} : LockLeft(j)' = LockLeft(j) /\ Count(j)' = Count(j)
      BY <2>2, <2>3, <2>7
    <3>3. fcounters'[k].n = Count(k) + 1 /\ fcounters'[k].age # Absent /\ fcounters'[k].age <= f
      <4>1. IF fcounters[k].age = Absent \/ fcounters[k].age > f
            THEN fcounters'[k].n = 1 /\ fcounters'[k].age = 0
            ELSE fcounters'[k].n = fcounters[k].n + 1 /\ fcounters'[k].age = fcounters[k].age
        BY <2>2, <2>4, <2>7, BumpRow
      <4> HIDE DEF f
      <4> QED
        BY <4>1, <2>3, <2>4 DEF Absent
    <3>4. Count(k)' = Count(k) + 1
      BY <3>3, <2>3
    <3>5. ~newly => Count(k)' < Limit(k)
      BY <3>3, <3>4, <2>2, <2>3, <2>4, <2>7
    <3> QED
      BY <3>1, <3>2, <3>4, <3>5, <2>2, <2>3, <2>4, <2>7
  <2> QED
    BY <2>4, <2>5, <2>6, <2>7
<1> QED
  BY <1>1, <1>2

\* set_lock_ttl on the lock of an account.
LEMMA ExtendEffect ==
    ASSUME RateSound, NEW a \in Accounts, NEW s \in 1..MaxLockout, redisUp' = redisUp,
           SetLockTTL(AccountKey(a), s)
    PROVE  /\ RateSound'
           /\ \A j \in Keys : Count(j)' = Count(j)
           /\ \A j \in Keys \ {AccountKey(a)} : LockLeft(j)' = LockLeft(j)
           /\ LockLeft(AccountKey(a))' \in {LockLeft(AccountKey(a)), Ticks(s)}
<1> DEFINE k == AccountKey(a)
<1>1. k \in Keys /\ LockCap(k) = MaxLockout /\ FallbackCap(k) = MaxLockout
  BY KeyKinds DEF LockCap, FallbackCap
<1>2. Ticks(s) \in Nat /\ Ticks(s) > 0 /\ Ticks(s) <= Ticks(MaxLockout) /\ Ticks(MaxLockout) \in Nat
  BY TicksFacts, RateLimitAssumption
<1> HIDE DEF k
<1>3. CASE redisUp
  <2>1. /\ locks' = [locks EXCEPT ![k] = IF locks[k] > 0 THEN Ticks(s) ELSE 0]
        /\ UNCHANGED <<counters, strikes, fcounters, flocks, fstrikes>>
    BY <1>3 DEF SetLockTTL, fallback, k
  <2>2. /\ locks' \in [Keys -> Nat] /\ \A j \in Keys \ {k} : locks'[j] = locks[j]
        /\ locks'[k] = IF locks[k] > 0 THEN Ticks(s) ELSE 0
        /\ locks[k] \in Nat
    BY <2>1, <1>1, <1>2 DEF RateSound
  <2>3. ASSUME NEW j \in Keys PROVE KeySound(j)'
    <3>1. KeySound(j)
      BY DEF RateSound
    <3> QED
      BY <3>1, <2>1, <2>2, <1>1, <1>2 DEF KeySound
  <2>4. RateSound'
    BY <2>1, <2>2, <2>3 DEF RateSound
  <2> QED
    BY <2>1, <2>2, <2>4, <1>1, <1>3 DEF LockLeft, Count, Counted, k
<1>4. CASE ~redisUp
  <2>1. /\ flocks' = [flocks EXCEPT ![k] = IF flocks[k] # Absent THEN Ticks(s) ELSE flocks[k]]
        /\ UNCHANGED <<counters, locks, strikes, fcounters, fstrikes>>
    BY <1>4 DEF SetLockTTL, redis, k
  <2>2. /\ flocks' \in [Keys -> Int] /\ \A j \in Keys \ {k} : flocks'[j] = flocks[j]
        /\ flocks'[k] \in {flocks[k], Ticks(s)}
    BY <2>1, <1>1, <1>2 DEF RateSound
  <2>3. ASSUME NEW j \in Keys PROVE KeySound(j)'
    <3>1. KeySound(j)
      BY DEF RateSound
    <3> QED
      BY <3>1, <2>1, <2>2, <1>1, <1>2 DEF KeySound, Absent
  <2>4. RateSound'
    BY <2>1, <2>2, <2>3 DEF RateSound
  <2> QED
    BY <2>1, <2>2, <2>4, <1>1, <1>4 DEF LockLeft, Count, Counted, k
<1> QED
  BY <1>3, <1>4

\* bump_strikes touches nothing but strikes.
LEMMA StrikeEffect ==
    ASSUME RateSound, NEW a \in Accounts, NEW n, redisUp' = redisUp, BumpStrikes(a, n)
    PROVE  /\ RateSound'
           /\ \A j \in Keys : LockLeft(j)' = LockLeft(j) /\ Count(j)' = Count(j)
<1> DEFINE t == Ticks(StrikeTTL)
<1>1. t \in Nat
  BY TicksFacts, RateLimitAssumption
<1>2. CASE redisUp
  <2>1. /\ strikes' = [strikes EXCEPT ![a] = Incr(strikes[a], t)]
        /\ UNCHANGED <<counters, locks, fcounters, flocks, fstrikes>>
    BY <1>2 DEF BumpStrikes, fallback
  <2>2. Incr(strikes[a], t) \in CounterRow(StrikeTTL)
    <3>1. strikes[a] \in [n : Nat, ttl : 0..t]
      BY DEF RateSound, CounterRow
    <3> HIDE DEF t
    <3>2. Incr(strikes[a], t) \in [n : Nat, ttl : 0..t]
      BY <3>1, <1>1 DEF Incr
    <3> QED
      BY <3>2 DEF CounterRow, t
  <2>3. strikes' \in [Accounts -> CounterRow(StrikeTTL)]
    BY <2>1, <2>2 DEF RateSound
  <2> QED
    BY <2>1, <2>3 DEF RateSound, KeySound, LockLeft, Count, Counted
<1>3. CASE ~redisUp
  <2>1. /\ fstrikes' = [fstrikes EXCEPT ![a] = Bump(fstrikes[a], t)]
        /\ UNCHANGED <<counters, locks, strikes, fcounters, flocks>>
    BY <1>3 DEF BumpStrikes, redis
  <2>2. Bump(fstrikes[a], t) \in EntryRow(StrikeTTL)
    <3>1. fstrikes[a] \in [n : Nat, age : Absent..(t + 1)]
      BY DEF RateSound, EntryRow
    <3> HIDE DEF t
    <3>2. Bump(fstrikes[a], t) \in [n : Nat, age : Absent..(t + 1)]
      BY <3>1, <1>1 DEF Bump, Absent
    <3> QED
      BY <3>2 DEF EntryRow, t
  <2>3. fstrikes' \in [Accounts -> EntryRow(StrikeTTL)]
    BY <2>1, <2>2 DEF RateSound
  <2> QED
    BY <2>1, <2>3 DEF RateSound, KeySound, LockLeft, Count, Counted
<1> QED
  BY <1>2, <1>3

\* clear, in Redis when it answers and in the fallback always.
LEMMA ClearEffect ==
    ASSUME RateSound, NEW keys \in SUBSET Keys, NEW a \in Accounts, redisUp' = redisUp,
           Clear(keys, a)
    PROVE  /\ RateSound'
           /\ \A j \in keys : LockLeft(j)' <= 0
           /\ \A j \in Keys \ keys : LockLeft(j)' = LockLeft(j) /\ Count(j)' = Count(j)
<1>1. /\ fcounters' = [k \in Keys |-> IF k \in keys THEN NoEntry ELSE fcounters[k]]
      /\ flocks' = [k \in Keys |-> IF k \in keys THEN Absent ELSE flocks[k]]
      /\ fstrikes' = [fstrikes EXCEPT ![a] = NoEntry]
  BY DEF Clear
<1>2. /\ fcounters' \in [Keys -> [n : Nat, age : Int]] /\ flocks' \in [Keys -> Int]
      /\ fstrikes' \in [Accounts -> EntryRow(StrikeTTL)]
  <2>1. NoEntry \in [n : Nat, age : Int] /\ Absent \in Int
    BY DEF NoEntry, Absent
  <2> QED
    BY <1>1, <2>1, EmptyRows DEF RateSound
<1>3. IF redisUp
      THEN /\ counters' = [k \in Keys |-> IF k \in keys THEN NoCounter ELSE counters[k]]
           /\ locks' = [k \in Keys |-> IF k \in keys THEN 0 ELSE locks[k]]
           /\ strikes' = [strikes EXCEPT ![a] = NoCounter]
      ELSE UNCHANGED <<counters, locks, strikes>>
  BY DEF Clear, redis
<1>4. /\ counters' \in [Keys -> [n : Nat, ttl : Nat]] /\ locks' \in [Keys -> Nat]
      /\ strikes' \in [Accounts -> CounterRow(StrikeTTL)]
      /\ \A j \in Keys : /\ counters'[j] = NoCounter \/ counters'[j] = counters[j]
                         /\ locks'[j] = 0 \/ locks'[j] = locks[j]
      /\ \A j \in Keys \ keys : counters'[j] = counters[j] /\ locks'[j] = locks[j]
      /\ redisUp => \A j \in keys : locks'[j] = 0
  <2>1. NoCounter \in [n : Nat, ttl : Nat]
    BY DEF NoCounter
  <2>2. CASE redisUp
    <3>1. /\ counters' = [k \in Keys |-> IF k \in keys THEN NoCounter ELSE counters[k]]
          /\ locks' = [k \in Keys |-> IF k \in keys THEN 0 ELSE locks[k]]
          /\ strikes' = [strikes EXCEPT ![a] = NoCounter]
      BY <2>2, <1>3
    <3>2. strikes' \in [Accounts -> CounterRow(StrikeTTL)]
      BY <3>1, EmptyRows DEF RateSound
    <3>3. counters' \in [Keys -> [n : Nat, ttl : Nat]] /\ locks' \in [Keys -> Nat]
      BY <3>1, <2>1 DEF RateSound
    <3>4. \A j \in Keys : /\ counters'[j] = IF j \in keys THEN NoCounter ELSE counters[j]
                          /\ locks'[j] = IF j \in keys THEN 0 ELSE locks[j]
      BY <3>1
    <3> QED
      BY <3>2, <3>3, <3>4
  <2>3. CASE ~redisUp
    BY <2>3, <1>3 DEF RateSound
  <2> QED
    BY <2>2, <2>3
<1>5. ASSUME NEW j \in Keys PROVE KeySound(j)'
  <2>1. KeySound(j) /\ Ticks(Window[j.dim]) \in Nat /\ Ticks(LockCap(j)) \in Nat
        /\ Ticks(FallbackWindow) \in Nat /\ Ticks(FallbackCap(j)) \in Nat
    BY Settings, TicksFacts DEF RateSound
  <2>2. counters'[j].ttl <= Ticks(Window[j.dim]) /\ locks'[j] <= Ticks(LockCap(j))
    BY <2>1, <1>4 DEF KeySound, NoCounter
  <2>3. /\ fcounters'[j].age \in Absent..(Ticks(FallbackWindow) + 1)
        /\ flocks'[j] \in Absent..Ticks(FallbackCap(j))
    BY <2>1, <1>1 DEF KeySound, NoEntry, Absent
  <2> QED
    BY <2>2, <2>3 DEF KeySound
<1>6. RateSound'
  BY <1>2, <1>4, <1>5 DEF RateSound
<1>7. \A j \in keys : LockLeft(j)' <= 0
  BY <1>1, <1>4 DEF LockLeft, Absent
<1>8. \A j \in Keys \ keys : LockLeft(j)' = LockLeft(j) /\ Count(j)' = Count(j)
  BY <1>1, <1>4 DEF LockLeft, Count, Counted
<1> QED
  BY <1>6, <1>7, <1>8

\* One tick: locks run down, a window that is not over keeps its count.
LEMMA ElapseEffect ==
    ASSUME RateSound, redisUp' = redisUp, Elapse
    PROVE  /\ RateSound'
           /\ \A j \in Keys : /\ LockLeft(j)' = IF LockLeft(j) > 0 THEN LockLeft(j) - 1
                                                ELSE LockLeft(j)
                              /\ Counted(j)' => Count(j)' = Count(j)
<1>1. ASSUME NEW j \in Keys
      PROVE  /\ counters'[j] = Older(counters[j])
             /\ locks'[j] = IF locks[j] = 0 THEN 0 ELSE locks[j] - 1
             /\ fcounters'[j] = Aged(fcounters[j], Ticks(FallbackWindow))
             /\ flocks'[j] = IF flocks[j] > 0 THEN flocks[j] - 1 ELSE flocks[j]
  BY DEF Elapse
<1>2. \A c \in [n : Nat, ttl : Nat] :
        /\ Older(c) \in [n : Nat, ttl : Nat] /\ Older(c).ttl <= c.ttl
        /\ Older(c).n > 0 => Older(c).n = c.n
  BY DEF Older, NoCounter
<1>3. \A e \in [n : Nat, age : Int], w \in Nat :
        /\ Aged(e, w) \in [n : Nat, age : Int] /\ Aged(e, w).n = e.n
        /\ e.age = Absent => Aged(e, w).age = e.age
        /\ e.age # Absent => Aged(e, w).age = IF e.age > w THEN e.age ELSE e.age + 1
  BY DEF Aged, Absent
<1>4. Ticks(FallbackWindow) \in Nat /\ Ticks(StrikeTTL) \in Nat
  BY TicksFacts, RateLimitAssumption
<1>5. ASSUME NEW j \in Keys
      PROVE  /\ counters'[j] \in [n : Nat, ttl : Nat] /\ locks'[j] \in Nat
             /\ fcounters'[j] \in [n : Nat, age : Int] /\ flocks'[j] \in Int
             /\ KeySound(j)'
             /\ LockLeft(j)' = IF LockLeft(j) > 0 THEN LockLeft(j) - 1 ELSE LockLeft(j)
             /\ Counted(j)' => Count(j)' = Count(j)
  <2>1. /\ counters[j] \in [n : Nat, ttl : Nat] /\ locks[j] \in Nat
        /\ fcounters[j] \in [n : Nat, age : Int] /\ flocks[j] \in Int
        /\ KeySound(j)
    BY DEF RateSound
  <2>2. /\ Ticks(Window[j.dim]) \in Nat /\ Ticks(LockCap(j)) \in Nat /\ Ticks(FallbackCap(j)) \in Nat
    BY Settings, TicksFacts
  <2>3. /\ counters'[j] \in [n : Nat, ttl : Nat] /\ counters'[j].ttl <= counters[j].ttl
        /\ counters'[j].n > 0 => counters'[j].n = counters[j].n
    BY <2>1, <1>1, <1>2
  <2>4. /\ fcounters'[j] \in [n : Nat, age : Int] /\ fcounters'[j].n = fcounters[j].n
        /\ fcounters[j].age = Absent => fcounters'[j].age = fcounters[j].age
        /\ fcounters[j].age # Absent =>
             fcounters'[j].age = IF fcounters[j].age > Ticks(FallbackWindow)
                                 THEN fcounters[j].age ELSE fcounters[j].age + 1
    BY <2>1, <1>1, <1>3, <1>4
  <2>5. locks'[j] \in Nat /\ locks'[j] <= locks[j] /\ flocks'[j] \in Int
    BY <2>1, <1>1
  <2>6. KeySound(j)'
    BY <2>1, <2>2, <2>3, <2>4, <2>5, <1>1, <1>4 DEF KeySound, Absent
  <2>7. LockLeft(j)' = IF LockLeft(j) > 0 THEN LockLeft(j) - 1 ELSE LockLeft(j)
    BY <2>1, <1>1 DEF LockLeft
  <2>8. Counted(j)' => Count(j)' = Count(j)
    BY <2>1, <2>3, <2>4, <1>4 DEF Counted, Count, KeySound, Absent
  <2> QED
    BY <2>3, <2>4, <2>5, <2>6, <2>7, <2>8
<1>6. /\ counters' \in [Keys -> [n : Nat, ttl : Nat]] /\ locks' \in [Keys -> Nat]
      /\ fcounters' \in [Keys -> [n : Nat, age : Int]] /\ flocks' \in [Keys -> Int]
  BY <1>5 DEF Elapse
<1>7. strikes' \in [Accounts -> CounterRow(StrikeTTL)]
  <2>1. ASSUME NEW a \in Accounts PROVE Older(strikes[a]) \in CounterRow(StrikeTTL)
    <3>1. strikes[a] \in CounterRow(StrikeTTL)
      BY DEF RateSound
    <3> QED
      BY <3>1, <1>4 DEF Older, NoCounter, CounterRow
  <2> QED
    BY <2>1 DEF Elapse
<1>8. fstrikes' \in [Accounts -> EntryRow(StrikeTTL)]
  <2>1. ASSUME NEW a \in Accounts PROVE Aged(fstrikes[a], Ticks(StrikeTTL)) \in EntryRow(StrikeTTL)
    <3>1. fstrikes[a] \in EntryRow(StrikeTTL)
      BY DEF RateSound
    <3> QED
      BY <3>1, <1>4 DEF Aged, EntryRow, Absent
  <2> QED
    BY <2>1 DEF Elapse
<1>9. RateSound'
  BY <1>5, <1>6, <1>7, <1>8 DEF RateSound
<1> QED
  BY <1>5, <1>9

---------------------------------------------------------------------------
(* The requests around the rate limiter                                    *)

\* What a request in flight carries.
SoundRequest(x) ==
    /\ x \in Request
    /\ x.pc # "idle" => x.account \in Accounts /\ x.ip \in Origins
    /\ x.pc = "extend" => x.ttl \in 1..MaxLockout
    /\ x.pc = "ip" => x.ip # NoIp

ThrottleTypes ==
    /\ RateSound
    /\ redisUp \in RedisStates
    /\ req \in [Requests -> Request]
    /\ \A r \in Requests : SoundRequest(req[r])
    /\ guesses \in [Keys -> Nat]
    /\ lockedFor \in [Keys -> Nat]

\* The keys a request may yet fail against, the ones it has failed against and
\* not counted yet, and the account lock it may yet stretch.
Tries(x) == IF x.pc = "verify" THEN KeysOf(x.account, x.ip) ELSE {}
Owes(x) ==
    IF x.pc = "account" THEN KeysOf(x.account, x.ip)
    ELSE IF x.pc \in {"strike", "extend", "pair"}
    THEN KeysOf(x.account, x.ip) \ {AccountKey(x.account)}
    ELSE IF x.pc = "ip" THEN {IpKey(x.ip)} ELSE {}
Escalates(x) == IF x.pc \in {"strike", "extend"} THEN {AccountKey(x.account)} ELSE {}

Trying(k) == {r \in Requests : k \in Tries(req[r])}
Owing(k) == {r \in Requests : k \in Owes(req[r])}
Escalating(k) == {r \in Requests : k \in Escalates(req[r])}

\* The longest a key can be locked: each request can stretch an account's lock
\* once, and one that has not done so yet still has its turn.
Reach(k) ==
    IF k.dim # "account" THEN Base(k)
    ELSE Base(k) + (Slack - Cardinality(Escalating(k))) * MaxLockout

\* What a lock has lasted and what is left of it stay within its reach.
LockTimed(k) ==
    /\ LockLeft(k) <= 0 => lockedFor[k] = 0
    /\ LockLeft(k) > 0 => lockedFor[k] + LockLeft(k) <= Ticks(Reach(k))
LocksTimed == \A k \in Keys : LockTimed(k)

\* A free key has counted every failed check but the ones still to be counted;
\* a count at the limit is left from an earlier lock.  A locked one has at most
\* the requests that passed the peek before it was locked.
KeyGuesses(k) ==
    /\ guesses[k] + Cardinality(Trying(k)) < Limit(k) + Slack
    /\ LockLeft(k) <= 0 =>
         guesses[k] <= (IF Count(k) < Limit(k) THEN Count(k) ELSE 0) + Cardinality(Owing(k))
GuessesSound == \A k \in Keys : KeyGuesses(k)

LEMMA ThrottleTypesImply == ThrottleTypes => TypeOK
<1> SUFFICES ASSUME ThrottleTypes PROVE TypeOK
  OBVIOUS
<1>1. ASSUME NEW k \in Keys
      PROVE  /\ counters[k] \in CounterRow(Window[k.dim])
             /\ locks[k] \in 0..Ticks(IF k.dim = "account" THEN MaxLockout ELSE Lockout[k.dim])
             /\ fcounters[k] \in EntryRow(FallbackWindow)
             /\ flocks[k] \in Absent..Ticks(IF k.dim = "account" THEN MaxLockout
                                             ELSE FallbackWindow)
  <2>1. /\ counters[k] \in [n : Nat, ttl : Nat] /\ locks[k] \in Nat
        /\ fcounters[k] \in [n : Nat, age : Int] /\ KeySound(k)
    BY DEF ThrottleTypes, RateSound
  <2>2. Ticks(Window[k.dim]) \in Nat /\ Ticks(LockCap(k)) \in Nat
    BY Settings, TicksFacts
  <2>3. counters[k] \in CounterRow(Window[k.dim])
    BY <2>1, <2>2 DEF KeySound, CounterRow
  <2>4. fcounters[k] \in EntryRow(FallbackWindow)
    BY <2>1 DEF KeySound, EntryRow
  <2> QED
    BY <2>1, <2>2, <2>3, <2>4 DEF KeySound, LockCap, FallbackCap
<1> QED
  BY <1>1 DEF ThrottleTypes, RateSound, TypeOK

LEMMA ThrottleInit == Init => ThrottleTypes /\ LocksTimed /\ GuessesSound
<1> SUFFICES ASSUME Init PROVE ThrottleTypes /\ LocksTimed /\ GuessesSound
  OBVIOUS
<1>1. redisUp \in BOOLEAN /\ RateSound
  BY RateInitSound, LoginAssumption DEF Init
<1>2. IdleRequest \in Request /\ SoundRequest(IdleRequest)
  BY DEF IdleRequest, Request, SoundRequest
<1>3. ThrottleTypes
  BY <1>1, <1>2 DEF Init, ThrottleTypes
<1>4. /\ IdleRequest.pc = "idle"
      /\ Tries(IdleRequest) = {} /\ Owes(IdleRequest) = {} /\ Escalates(IdleRequest) = {}
  BY DEF IdleRequest, Tries, Owes, Escalates
<1>5. Slack \in Nat /\ Cardinality({}) = 0
  BY LoginAssumption, FS_CardinalityType, FS_EmptySet DEF Slack
<1>6. ASSUME NEW k \in Keys
      PROVE  /\ LockLeft(k) <= 0 /\ lockedFor[k] = 0 /\ guesses[k] = 0 /\ Count(k) = 0
             /\ Trying(k) = {} /\ Owing(k) = {} /\ Limit(k) \in Nat \ {0}
  <2>1. LockLeft(k) <= 0 /\ Count(k) = 0
    BY DEF Init, RateInit, LockLeft, Count, Counted, NoCounter, NoEntry, Absent
  <2>2. Trying(k) = {} /\ Owing(k) = {}
    BY <1>4 DEF Init, Trying, Owing
  <2> QED
    BY <2>1, <2>2, Settings DEF Init
<1>7. LocksTimed
  <2>1. \A k \in Keys : LockLeft(k) \in Int
    BY <1>1 DEF RateSound, LockLeft
  <2> QED
    BY <1>6, <2>1 DEF LocksTimed, LockTimed
<1>8. GuessesSound
  BY <1>5, <1>6 DEF GuessesSound, KeyGuesses
<1> QED
  BY <1>3, <1>7, <1>8

\* Request r goes on as x.
Move(r, x) == req' = [req EXCEPT ![r] = x] /\ SoundRequest(x)

LEMMA TypesKept ==
    ASSUME ThrottleTypes, NEW r \in Requests, NEW x, Move(r, x), RateSound', redisUp' = redisUp,
           guesses' \in [Keys -> Nat], lockedFor' \in [Keys -> Nat]
    PROVE  ThrottleTypes'
<1>1. x \in Request
  BY DEF Move, SoundRequest
<1>2. req' \in [Requests -> Request] /\ \A q \in Requests : SoundRequest(req'[q])
  BY <1>1 DEF ThrottleTypes, Move
<1> QED
  BY <1>2 DEF ThrottleTypes

\* One request less, or one more.
LEMMA OneMoves ==
    ASSUME NEW r \in Requests, NEW S \in SUBSET Requests, NEW T \in SUBSET Requests,
           \A q \in Requests \ {r} : q \in S <=> q \in T
    PROVE  /\ Cardinality(S) \in Nat /\ Cardinality(T) \in Nat
           /\ (r \in S <=> r \in T) => S = T
           /\ r \in S /\ r \notin T => Cardinality(T) = Cardinality(S) - 1
           /\ r \notin S /\ r \in T => Cardinality(T) = Cardinality(S) + 1
<1>1. IsFiniteSet(S) /\ IsFiniteSet(T)
  BY LoginAssumption, FS_Subset
<1>2. Cardinality(S) \in Nat /\ Cardinality(T) \in Nat
  BY <1>1, FS_CardinalityType
<1>3. (r \in S <=> r \in T) => S = T
  OBVIOUS
<1>4. ASSUME r \in S, r \notin T PROVE Cardinality(T) = Cardinality(S) - 1
  <2>1. T = S \ {r}
    BY <1>4
  <2> QED
    BY <2>1, <1>1, <1>4, FS_RemoveElement
<1>5. ASSUME r \notin S, r \in T PROVE Cardinality(T) = Cardinality(S) + 1
  <2>1. T = S \cup {r}
    BY <1>5
  <2> QED
    BY <2>1, <1>1, <1>5, FS_AddElement
<1> QED
  BY <1>2, <1>3, <1>4, <1>5

LEMMA Disjoint ==
    ASSUME NEW T \in SUBSET Requests, NEW O \in SUBSET Requests, NEW E \in SUBSET Requests,
           T \cap O = {}
    PROVE  /\ Slack \in Nat
           /\ Cardinality(T) \in 0..Slack /\ Cardinality(O) \in 0..Slack
           /\ Cardinality(E) \in 0..Slack
           /\ Cardinality(T) + Cardinality(O) <= Slack
<1>1. /\ IsFiniteSet(T) /\ IsFiniteSet(O) /\ IsFiniteSet(E)
      /\ Cardinality(T) <= Slack /\ Cardinality(O) <= Slack /\ Cardinality(E) <= Slack
      /\ Cardinality(T \cup O) <= Slack
  BY LoginAssumption, FS_Subset DEF Slack
<1>2. /\ Slack \in Nat /\ Cardinality(T) \in Nat /\ Cardinality(O) \in Nat
      /\ Cardinality(E) \in Nat
  BY <1>1, LoginAssumption, FS_CardinalityType DEF Slack
<1>3. Cardinality(T \cup O) = Cardinality(T) + Cardinality(O) - Cardinality(T \cap O)
  BY <1>1, FS_Union
<1>4. Cardinality(T \cap O) = 0
  BY FS_EmptySet
<1> QED
  BY <1>1, <1>2, <1>3, <1>4

LEMMA Counts ==
    ASSUME NEW k
    PROVE  /\ Slack \in Nat
           /\ Cardinality(Trying(k)) \in 0..Slack /\ Cardinality(Owing(k)) \in 0..Slack
           /\ Cardinality(Escalating(k)) \in 0..Slack
           /\ Cardinality(Trying(k)) + Cardinality(Owing(k)) <= Slack
<1>1. Trying(k) \in SUBSET Requests /\ Owing(k) \in SUBSET Requests /\ Escalating(k) \in SUBSET Requests
  BY DEF Trying, Owing, Escalating
<1>2. Trying(k) \cap Owing(k) = {}
  BY DEF Trying, Owing, Tries, Owes
<1> QED
  BY <1>1, <1>2, Disjoint

LEMMA CountsNext ==
    ASSUME NEW k
    PROVE  /\ Slack \in Nat
           /\ Cardinality(Trying(k)') \in 0..Slack /\ Cardinality(Owing(k)') \in 0..Slack
           /\ Cardinality(Escalating(k)') \in 0..Slack
           /\ Cardinality(Trying(k)') + Cardinality(Owing(k)') <= Slack
<1>1. Trying(k)' \in SUBSET Requests /\ Owing(k)' \in SUBSET Requests /\ Escalating(k)' \in SUBSET Requests
  BY DEF Trying, Owing, Escalating
<1>2. Trying(k)' \cap Owing(k)' = {}
  BY DEF Trying, Owing, Tries, Owes
<1> QED
  BY <1>1, <1>2, Disjoint

\* How the three sets change with a move.
LEMMA MoveCounts ==
    ASSUME ThrottleTypes, NEW r \in Requests, NEW x, Move(r, x), NEW k
    PROVE  /\ (k \in Tries(req[r]) <=> k \in Tries(x)) => Trying(k)' = Trying(k)
           /\ k \in Tries(req[r]) /\ k \notin Tries(x) =>
                Cardinality(Trying(k)') = Cardinality(Trying(k)) - 1
           /\ (k \in Owes(req[r]) <=> k \in Owes(x)) => Owing(k)' = Owing(k)
           /\ k \in Owes(req[r]) /\ k \notin Owes(x) =>
                Cardinality(Owing(k)') = Cardinality(Owing(k)) - 1
           /\ k \notin Owes(req[r]) /\ k \in Owes(x) =>
                Cardinality(Owing(k)') = Cardinality(Owing(k)) + 1
           /\ (k \in Escalates(req[r]) <=> k \in Escalates(x)) => Escalating(k)' = Escalating(k)
           /\ k \in Escalates(req[r]) /\ k \notin Escalates(x) =>
                Cardinality(Escalating(k)') = Cardinality(Escalating(k)) - 1
<1>1. req'[r] = x /\ \A q \in Requests \ {r} : req'[q] = req[q]
  BY DEF ThrottleTypes, Move
<1>2. /\ Trying(k) \in SUBSET Requests /\ Trying(k)' \in SUBSET Requests
      /\ \A q \in Requests : q \in Trying(k)' <=> k \in Tries(req'[q])
      /\ \A q \in Requests : q \in Trying(k) <=> k \in Tries(req[q])
  BY DEF Trying, Tries
<1>3. /\ Owing(k) \in SUBSET Requests /\ Owing(k)' \in SUBSET Requests
      /\ \A q \in Requests : q \in Owing(k)' <=> k \in Owes(req'[q])
      /\ \A q \in Requests : q \in Owing(k) <=> k \in Owes(req[q])
  BY DEF Owing, Owes
<1>4. /\ Escalating(k) \in SUBSET Requests /\ Escalating(k)' \in SUBSET Requests
      /\ \A q \in Requests : q \in Escalating(k)' <=> k \in Escalates(req'[q])
      /\ \A q \in Requests : q \in Escalating(k) <=> k \in Escalates(req[q])
  BY DEF Escalating, Escalates
<1>5. /\ (k \in Tries(req[r]) <=> k \in Tries(x)) => Trying(k)' = Trying(k)
      /\ k \in Tries(req[r]) /\ k \notin Tries(x) =>
           Cardinality(Trying(k)') = Cardinality(Trying(k)) - 1
  <2>1. \A q \in Requests \ {r} : q \in Trying(k) <=> q \in Trying(k)'
    BY <1>1, <1>2
  <2> QED
    BY <2>1, <1>1, <1>2, OneMoves
<1>6. /\ (k \in Owes(req[r]) <=> k \in Owes(x)) => Owing(k)' = Owing(k)
      /\ k \in Owes(req[r]) /\ k \notin Owes(x) =>
           Cardinality(Owing(k)') = Cardinality(Owing(k)) - 1
      /\ k \notin Owes(req[r]) /\ k \in Owes(x) =>
           Cardinality(Owing(k)') = Cardinality(Owing(k)) + 1
  <2>1. \A q \in Requests \ {r} : q \in Owing(k) <=> q \in Owing(k)'
    BY <1>1, <1>3
  <2> QED
    BY <2>1, <1>1, <1>3, OneMoves
<1>7. /\ (k \in Escalates(req[r]) <=> k \in Escalates(x)) => Escalating(k)' = Escalating(k)
      /\ k \in Escalates(req[r]) /\ k \notin Escalates(x) =>
           Cardinality(Escalating(k)') = Cardinality(Escalating(k)) - 1
  <2>1. \A q \in Requests \ {r} : q \in Escalating(k) <=> q \in Escalating(k)'
    BY <1>1, <1>4
  <2> QED
    BY <2>1, <1>1, <1>4, OneMoves
<1> QED
  BY <1>5, <1>6, <1>7

---------------------------------------------------------------------------
(* Where each step takes its request                                       *)

LEMMA KeysDiffer ==
    ASSUME NEW a, NEW i
    PROVE  /\ AccountKey(a) # PairKey(a, i) /\ AccountKey(a) # IpKey(i)
           /\ PairKey(a, i) # IpKey(i)
<1>1. AccountKey(a).dim = "account" /\ PairKey(a, i).dim = "pair" /\ IpKey(i).dim = "ip"
  BY DEF AccountKey, PairKey, IpKey
<1> QED
  BY <1>1

LEMMA KeysOfInKeys ==
    ASSUME NEW a \in Accounts, NEW i \in Origins
    PROVE  KeysOf(a, i) \subseteq Keys
BY KeyKinds DEF KeysOf

LEMMA IdleMoves ==
    /\ SoundRequest(IdleRequest)
    /\ Tries(IdleRequest) = {} /\ Owes(IdleRequest) = {} /\ Escalates(IdleRequest) = {}
BY DEF IdleRequest, Request, SoundRequest, Tries, Owes, Escalates

LEMMA CheckMoves ==
    ASSUME ThrottleTypes, NEW r \in Requests, NEW a \in Accounts, NEW i \in Origins, Check(r, a, i)
    PROVE  \E x : /\ Move(r, x)
                  /\ Tries(req[r]) = {} /\ Tries(x) = KeysOf(a, i)
                  /\ Owes(req[r]) = {} /\ Owes(x) = {}
                  /\ Escalates(req[r]) = {} /\ Escalates(x) = {}
<1> DEFINE x == [pc |-> "verify", account |-> a, ip |-> i, ttl |-> 0]
<1>1. Move(r, x)
  BY DEF Check, Move, SoundRequest, Request
<1>2. req[r].pc = "idle"
  BY DEF Check
<1>3. /\ Tries(req[r]) = {} /\ Owes(req[r]) = {} /\ Escalates(req[r]) = {}
      /\ Tries(x) = KeysOf(a, i) /\ Owes(x) = {} /\ Escalates(x) = {}
  BY <1>2 DEF Tries, Owes, Escalates
<1> QED
  BY <1>1, <1>3

\* A request that moves on and keeps what it carries.
LEMMA GotoMoves ==
    ASSUME ThrottleTypes, NEW r \in Requests, NEW pc, Goto(r, pc),
           pc \in {"account", "strike", "pair", "ip", "clear"}, req[r].pc # "idle",
           pc = "ip" => req[r].ip # NoIp
    PROVE  \E x : /\ Move(r, x) /\ x.pc = pc /\ x.account = req[r].account /\ x.ip = req[r].ip
<1> DEFINE x == [req[r] EXCEPT !.pc = pc]
<1>1. req[r] \in Request /\ SoundRequest(req[r])
  BY DEF ThrottleTypes
<1>2. req' = [req EXCEPT ![r] = x]
  BY <1>1 DEF Goto, ThrottleTypes
<1>3. x \in Request /\ x.pc = pc /\ x.account = req[r].account /\ x.ip = req[r].ip
  BY <1>1 DEF Request
<1>4. SoundRequest(x)
  BY <1>1, <1>3 DEF SoundRequest
<1> QED
  BY <1>2, <1>3, <1>4 DEF Move

LEMMA VerifyMoves ==
    ASSUME ThrottleTypes, NEW r \in Requests, Verify(r)
    PROVE  /\ req[r].account \in Accounts /\ req[r].ip \in Origins
           /\ Tries(req[r]) = KeysOf(req[r].account, req[r].ip)
           /\ Owes(req[r]) = {} /\ Escalates(req[r]) = {}
           /\ \E x : /\ Move(r, x) /\ Tries(x) = {} /\ Escalates(x) = {}
                     /\ \/ Owes(x) = {} /\ guesses' = guesses
                        \/ /\ Owes(x) = Tries(req[r])
                           /\ guesses' = [k \in Keys |->
                                IF k \in Tries(req[r]) /\ guesses[k] < Limit(k) + Slack
                                THEN guesses[k] + 1 ELSE guesses[k]]
<1>1. req[r].pc = "verify" /\ SoundRequest(req[r])
  BY DEF Verify, ThrottleTypes
<1>2. /\ Tries(req[r]) = KeysOf(req[r].account, req[r].ip)
      /\ Owes(req[r]) = {} /\ Escalates(req[r]) = {}
      /\ req[r].account \in Accounts /\ req[r].ip \in Origins
  BY <1>1 DEF Tries, Owes, Escalates, SoundRequest
<1>3. CASE Goto(r, "clear") /\ UNCHANGED guesses
  <2>1. PICK x : Move(r, x) /\ x.pc = "clear"
    BY <1>1, <1>3, GotoMoves
  <2>2. Tries(x) = {} /\ Owes(x) = {} /\ Escalates(x) = {}
    BY <2>1 DEF Tries, Owes, Escalates
  <2> QED
    BY <2>1, <2>2, <1>2, <1>3
<1>4. CASE /\ Goto(r, "account")
           /\ guesses' = [k \in Keys |->
                IF k \in KeysOf(req[r].account, req[r].ip) /\ guesses[k] < Limit(k) + Slack
                THEN guesses[k] + 1 ELSE guesses[k]]
  <2>1. PICK x : Move(r, x) /\ x.pc = "account" /\ x.account = req[r].account /\ x.ip = req[r].ip
    BY <1>1, <1>4, GotoMoves
  <2>2. Tries(x) = {} /\ Owes(x) = Tries(req[r]) /\ Escalates(x) = {}
    BY <2>1, <1>2 DEF Tries, Owes, Escalates
  <2>3. guesses' = [k \in Keys |->
                IF k \in Tries(req[r]) /\ guesses[k] < Limit(k) + Slack
                THEN guesses[k] + 1 ELSE guesses[k]]
    BY <1>2, <1>4
  <2> QED
    BY <2>1, <2>2, <2>3, <1>2
<1> QED
  BY <1>3, <1>4 DEF Verify

\* A step that counts a failure against k: r owes one less.
CountsFailure(r, k, newly, x) ==
    /\ k \in Keys /\ RecordAttempt(k, newly) /\ NoteEviction(k) /\ NoteLocks
    /\ Move(r, x)
    /\ Tries(req[r]) = {} /\ Tries(x) = {}
    /\ k \in Owes(req[r]) /\ Owes(x) = Owes(req[r]) \ {k}
    /\ Escalates(req[r]) = {} /\ Escalates(x) = IF newly /\ k.dim = "account" THEN {k} ELSE {}

LEMMA AccountMoves ==
    ASSUME ThrottleTypes, NEW r \in Requests, RecordAccount(r)
    PROVE  \E k \in Keys, newly \in BOOLEAN, x \in Request : CountsFailure(r, k, newly, x)
<1>1. req[r].pc = "account" /\ SoundRequest(req[r])
  BY DEF RecordAccount, ThrottleTypes
<1> DEFINE a == req[r].account
           i == req[r].ip
           k == AccountKey(a)
<1>2. a \in Accounts /\ i \in Origins /\ k \in Keys /\ k.dim = "account"
  BY <1>1, KeyKinds DEF SoundRequest
<1>3. PICK newly \in BOOLEAN :
        RecordAttempt(k, newly) /\ Goto(r, IF newly THEN "strike" ELSE "pair")
  BY DEF RecordAccount
<1>4. PICK x : /\ Move(r, x) /\ x.pc = (IF newly THEN "strike" ELSE "pair")
               /\ x.account = a /\ x.ip = i
  BY <1>1, <1>3, GotoMoves
<1>5. Tries(req[r]) = {} /\ Owes(req[r]) = KeysOf(a, i) /\ Escalates(req[r]) = {}
  BY <1>1 DEF Tries, Owes, Escalates
<1>6. /\ Tries(x) = {} /\ Owes(x) = KeysOf(a, i) \ {k}
      /\ Escalates(x) = IF newly THEN {k} ELSE {}
  BY <1>4 DEF Tries, Owes, Escalates
<1>7. k \in KeysOf(a, i)
  BY DEF KeysOf
<1>8. NoteEviction(k) /\ NoteLocks
  BY DEF RecordAccount
<1> HIDE DEF k, a, i
<1>9. CountsFailure(r, k, newly, x)
  BY <1>2, <1>3, <1>4, <1>5, <1>6, <1>7, <1>8 DEF CountsFailure
<1> QED
  BY <1>2, <1>9 DEF CountsFailure, Move, SoundRequest

LEMMA PairMoves ==
    ASSUME ThrottleTypes, NEW r \in Requests, RecordPair(r)
    PROVE  \E k \in Keys, newly \in BOOLEAN, x \in Request : CountsFailure(r, k, newly, x)
<1>1. req[r].pc = "pair" /\ SoundRequest(req[r])
  BY DEF RecordPair, ThrottleTypes
<1> DEFINE a == req[r].account
           i == req[r].ip
           k == PairKey(a, i)
<1>2. a \in Accounts /\ i \in Origins /\ k \in Keys /\ k.dim = "pair"
  BY <1>1, KeyKinds DEF SoundRequest
<1>3. PICK newly \in BOOLEAN : RecordAttempt(k, newly)
  BY DEF RecordPair
<1>4. /\ Tries(req[r]) = {} /\ Owes(req[r]) = KeysOf(a, i) \ {AccountKey(a)}
      /\ Escalates(req[r]) = {}
  BY <1>1 DEF Tries, Owes, Escalates
<1>5. NoteEviction(k) /\ NoteLocks
  BY DEF RecordPair
<1>6. \E x : /\ Move(r, x) /\ Tries(x) = {} /\ Escalates(x) = {}
             /\ Owes(x) = IF i = NoIp THEN {} ELSE {IpKey(i)}
  <2>1. CASE i = NoIp
    <3>1. Finish(r)
      BY <2>1 DEF RecordPair
    <3> QED
      BY <2>1, <3>1, IdleMoves DEF Move, Finish
  <2>2. CASE i # NoIp
    <3>1. Goto(r, "ip")
      BY <2>2 DEF RecordPair
    <3>2. PICK x : Move(r, x) /\ x.pc = "ip" /\ x.ip = i
      BY <3>1, <2>2, <1>1, GotoMoves
    <3>3. Tries(x) = {} /\ Escalates(x) = {} /\ Owes(x) = {IpKey(i)}
      BY <3>2 DEF Tries, Owes, Escalates
    <3> QED
      BY <3>2, <3>3, <2>2
  <2> QED
    BY <2>1, <2>2
<1>7. PICK x : /\ Move(r, x) /\ Tries(x) = {} /\ Escalates(x) = {}
               /\ Owes(x) = IF i = NoIp THEN {} ELSE {IpKey(i)}
  BY <1>6
<1>8. k \in Owes(req[r]) /\ Owes(x) = Owes(req[r]) \ {k}
  <2>1. AccountKey(a) # k /\ AccountKey(a) # IpKey(i) /\ k # IpKey(i)
    BY KeysDiffer
  <2> HIDE DEF k, a, i
  <2> QED
    BY <2>1, <1>4, <1>7 DEF KeysOf, k
<1> HIDE DEF k, a, i
<1>9. CountsFailure(r, k, newly, x)
  BY <1>2, <1>3, <1>4, <1>5, <1>7, <1>8 DEF CountsFailure
<1> QED
  BY <1>2, <1>9 DEF CountsFailure, Move, SoundRequest

LEMMA IpMoves ==
    ASSUME ThrottleTypes, NEW r \in Requests, RecordIp(r)
    PROVE  \E k \in Keys, newly \in BOOLEAN, x \in Request : CountsFailure(r, k, newly, x)
<1>1. req[r].pc = "ip" /\ SoundRequest(req[r])
  BY DEF RecordIp, ThrottleTypes
<1> DEFINE k == IpKey(req[r].ip)
<1>2. k \in Keys /\ k.dim = "ip"
  BY <1>1, KeyKinds DEF SoundRequest
<1>3. PICK newly \in BOOLEAN : RecordAttempt(k, newly)
  BY DEF RecordIp
<1>4. Tries(req[r]) = {} /\ Owes(req[r]) = {k} /\ Escalates(req[r]) = {}
  BY <1>1 DEF Tries, Owes, Escalates
<1>5. NoteEviction(k) /\ NoteLocks /\ Move(r, IdleRequest)
  BY IdleMoves DEF RecordIp, Finish, Move
<1> HIDE DEF k
<1>6. CountsFailure(r, k, newly, IdleRequest)
  BY <1>2, <1>3, <1>4, <1>5, IdleMoves DEF CountsFailure
<1> QED
  BY <1>2, <1>6 DEF CountsFailure, Move, SoundRequest

LEMMA EscalationCapped == \A n : EscalatedLockout(n) \in 1..MaxLockout
BY RateLimitAssumption DEF EscalatedLockout

LEMMA StrikeMoves ==
    ASSUME ThrottleTypes, NEW r \in Requests, Strike(r)
    PROVE  /\ RateSound'
           /\ \A j \in Keys : LockLeft(j)' = LockLeft(j) /\ Count(j)' = Count(j)
           /\ \E x : /\ Move(r, x) /\ Tries(req[r]) = {} /\ Tries(x) = {}
                     /\ Owes(x) = Owes(req[r]) /\ Escalates(x) \subseteq Escalates(req[r])
<1>1. req[r].pc = "strike" /\ SoundRequest(req[r]) /\ req[r].account \in Accounts
  BY DEF Strike, ThrottleTypes, SoundRequest
<1>2. PICK n \in 1..MaxStrikes :
        /\ BumpStrikes(req[r].account, n)
        /\ IF n > 1 /\ EscalatedLockout(n) > Lockout["account"]
           THEN req' = [req EXCEPT ![r].pc = "extend", ![r].ttl = EscalatedLockout(n)]
           ELSE Goto(r, "pair")
  BY DEF Strike
<1>3. RateSound' /\ \A j \in Keys : LockLeft(j)' = LockLeft(j) /\ Count(j)' = Count(j)
  <2>1. RateSound /\ redisUp' = redisUp
    BY DEF Strike, ThrottleTypes
  <2> QED
    BY <2>1, <1>1, <1>2, StrikeEffect
<1>4. /\ Tries(req[r]) = {} /\ Escalates(req[r]) = {AccountKey(req[r].account)}
      /\ Owes(req[r]) = KeysOf(req[r].account, req[r].ip) \ {AccountKey(req[r].account)}
  BY <1>1 DEF Tries, Owes, Escalates
<1>5. CASE req' = [req EXCEPT ![r].pc = "extend", ![r].ttl = EscalatedLockout(n)]
  <2> DEFINE e == EscalatedLockout(n)
             x == [req[r] EXCEPT !.pc = "extend", !.ttl = e]
  <2>1. e \in 1..MaxLockout /\ e \in Nat
    BY EscalationCapped, RateLimitAssumption
  <2> HIDE DEF e
  <2>2. req[r] \in Request /\ req' = [req EXCEPT ![r] = x]
    BY <1>5 DEF ThrottleTypes, e
  <2>3. /\ x \in Request /\ x.pc = "extend" /\ x.ttl = e
        /\ x.account = req[r].account /\ x.ip = req[r].ip
    BY <2>1, <2>2 DEF Request
  <2> HIDE DEF x
  <2>4. SoundRequest(x)
    BY <2>1, <2>3, <1>1 DEF SoundRequest
  <2>5. Tries(x) = {} /\ Owes(x) = Owes(req[r]) /\ Escalates(x) = Escalates(req[r])
    BY <2>3, <1>4 DEF Tries, Owes, Escalates
  <2> QED
    BY <2>2, <2>4, <2>5, <1>3, <1>4 DEF Move
<1>6. CASE Goto(r, "pair")
  <2>1. PICK x : Move(r, x) /\ x.pc = "pair" /\ x.account = req[r].account /\ x.ip = req[r].ip
    BY <1>1, <1>6, GotoMoves
  <2>2. Tries(x) = {} /\ Owes(x) = Owes(req[r]) /\ Escalates(x) = {}
    BY <2>1, <1>4 DEF Tries, Owes, Escalates
  <2> QED
    BY <2>1, <2>2, <1>3, <1>4
<1> QED
  BY <1>2, <1>5, <1>6

\* A step that may set what is left of the lock k to s seconds.
Stretches(r, k, s, x) ==
    /\ k.dim = "account"
    /\ \A j \in Keys : Count(j)' = Count(j)
    /\ \A j \in Keys \ {k} : LockLeft(j)' = LockLeft(j)
    /\ LockLeft(k)' \in {LockLeft(k), Ticks(s)}
    /\ Move(r, x) /\ Tries(req[r]) = {} /\ Tries(x) = {}
    /\ Owes(x) = Owes(req[r]) /\ Escalates(x) = {} /\ Escalates(req[r]) = {k}

LEMMA ExtendMoves ==
    ASSUME ThrottleTypes, NEW r \in Requests, Extend(r)
    PROVE  RateSound' /\ \E k \in Keys, s \in 1..MaxLockout, x \in Request : Stretches(r, k, s, x)
<1>1. /\ req[r].pc = "extend" /\ SoundRequest(req[r]) /\ req[r].account \in Accounts
      /\ req[r].ttl \in 1..MaxLockout
  BY DEF Extend, ThrottleTypes, SoundRequest
<1>a. PICK a \in Accounts, s \in 1..MaxLockout : a = req[r].account /\ s = req[r].ttl
  BY <1>1
<1>b. PICK k \in Keys : k = AccountKey(a) /\ k.dim = "account"
  BY KeyKinds
<1> DEFINE x == [req[r] EXCEPT !.pc = "pair", !.ttl = 0]
<1>2. /\ RateSound'
      /\ \A j \in Keys : Count(j)' = Count(j)
      /\ \A j \in Keys \ {k} : LockLeft(j)' = LockLeft(j)
      /\ LockLeft(k)' \in {LockLeft(k), Ticks(s)}
  <2>1. RateSound /\ redisUp' = redisUp /\ SetLockTTL(k, s)
    BY <1>a, <1>b DEF Extend, ThrottleTypes
  <2> QED
    BY <2>1, <1>b, ExtendEffect
<1>4. /\ Tries(req[r]) = {} /\ Escalates(req[r]) = {k}
      /\ Owes(req[r]) = KeysOf(req[r].account, req[r].ip) \ {k}
  BY <1>1, <1>a, <1>b DEF Tries, Owes, Escalates
<1>5. req[r] \in Request /\ req' = [req EXCEPT ![r] = x]
  BY DEF ThrottleTypes, Extend
<1>6. /\ x \in Request /\ x.pc = "pair" /\ x.account = req[r].account /\ x.ip = req[r].ip
  BY <1>5 DEF Request
<1> HIDE DEF x
<1>7. SoundRequest(x)
  BY <1>6, <1>1 DEF SoundRequest
<1>8. Tries(x) = {} /\ Owes(x) = Owes(req[r]) /\ Escalates(x) = {}
  BY <1>6, <1>4, <1>a, <1>b DEF Tries, Owes, Escalates
<1>9. Move(r, x)
  BY <1>5, <1>7 DEF Move
<1>10. Stretches(r, k, s, x)
  BY <1>2, <1>b, <1>4, <1>8, <1>9 DEF Stretches
<1> QED
  BY <1>2, <1>10 DEF Stretches, Move, SoundRequest

LEMMA SucceedMoves ==
    ASSUME ThrottleTypes, NEW r \in Requests, Succeed(r)
    PROVE  /\ RateSound' /\ Move(r, IdleRequest)
           /\ Tries(req[r]) = {} /\ Owes(req[r]) = {} /\ Escalates(req[r]) = {}
           /\ \A j \in Keys : \/ LockLeft(j)' <= 0 /\ guesses'[j] = 0
                              \/ /\ LockLeft(j)' = LockLeft(j) /\ Count(j)' = Count(j)
                                 /\ guesses'[j] = guesses[j]
           /\ guesses' \in [Keys -> Nat]
<1>1. /\ req[r].pc = "clear" /\ SoundRequest(req[r])
      /\ req[r].account \in Accounts /\ req[r].ip \in Origins
  BY DEF Succeed, ThrottleTypes, SoundRequest
<1> DEFINE keys == {AccountKey(req[r].account), PairKey(req[r].account, req[r].ip)}
<1>2. keys \in SUBSET Keys
  BY <1>1, KeyKinds
<1>3. /\ RateSound'
      /\ \A j \in keys : LockLeft(j)' <= 0
      /\ \A j \in Keys \ keys : LockLeft(j)' = LockLeft(j) /\ Count(j)' = Count(j)
  <2>1. RateSound /\ redisUp' = redisUp /\ Clear(keys, req[r].account)
    BY DEF Succeed, ThrottleTypes, ClearedKeys
  <2> QED
    BY <2>1, <1>1, <1>2, ClearEffect
<1>4. Move(r, IdleRequest)
  BY IdleMoves DEF Succeed, Finish, Move
<1>5. Tries(req[r]) = {} /\ Owes(req[r]) = {} /\ Escalates(req[r]) = {}
  BY <1>1 DEF Tries, Owes, Escalates
<1>6. guesses' = [k \in Keys |-> IF k \in keys THEN 0 ELSE guesses[k]]
  BY DEF Succeed
<1> HIDE DEF keys
<1>7. /\ guesses' \in [Keys -> Nat]
      /\ \A j \in Keys : guesses'[j] = IF j \in keys THEN 0 ELSE guesses[j]
  BY <1>6 DEF ThrottleTypes
<1> QED
  BY <1>3, <1>4, <1>5, <1>7

---------------------------------------------------------------------------
(* The three invariants, one lemma per kind of step                        *)

LEMMA NotesTyped ==
    ASSUME ThrottleTypes
    PROVE  /\ NoteLocks => lockedFor' \in [Keys -> Nat]
           /\ \A k : NoteEviction(k) => guesses' \in [Keys -> Nat]
BY DEF ThrottleTypes, NoteLocks, NoteEviction

LEMMA LocksAreInts == RateSound => \A k \in Keys : LockLeft(k) \in Int /\ Count(k) \in Nat
BY DEF RateSound, LockLeft, Count

LEMMA LocksAreIntsNext == RateSound' => \A k \in Keys : LockLeft(k)' \in Int /\ Count(k)' \in Nat
BY DEF RateSound, LockLeft, Count

LEMMA FailureTypes ==
    ASSUME ThrottleTypes, NEW r \in Requests, NEW k \in Keys, NEW newly \in BOOLEAN, NEW x,
           CountsFailure(r, k, newly, x), redisUp' = redisUp
    PROVE  ThrottleTypes'
<1>1. RateSound'
  BY AttemptEffect DEF CountsFailure, ThrottleTypes
<1>2. guesses' \in [Keys -> Nat] /\ lockedFor' \in [Keys -> Nat]
  BY NotesTyped DEF CountsFailure
<1> QED
  BY <1>1, <1>2, TypesKept DEF CountsFailure

LEMMA StepTypes ==
    ASSUME ThrottleTypes, NEW r \in Requests, Step(r)
    PROVE  ThrottleTypes'
<1>1. CASE Verify(r)
  <2>1. PICK x : /\ Move(r, x)
                 /\ \/ guesses' = guesses
                    \/ guesses' = [k \in Keys |->
                            IF k \in Tries(req[r]) /\ guesses[k] < Limit(k) + Slack
                            THEN guesses[k] + 1 ELSE guesses[k]]
    BY <1>1, VerifyMoves
  <2>2. guesses' \in [Keys -> Nat]
    BY <2>1 DEF ThrottleTypes
  <2>3. RateSound' /\ redisUp' = redisUp /\ lockedFor' = lockedFor
    BY <1>1 DEF Verify, ThrottleTypes, RateSound, KeySound, rateVars, redis, fallback
  <2> QED
    BY <2>1, <2>2, <2>3, TypesKept DEF ThrottleTypes
<1>2. CASE RecordAccount(r)
  <2>1. PICK k \in Keys, newly \in BOOLEAN, x \in Request : CountsFailure(r, k, newly, x)
    BY <1>2, AccountMoves
  <2> QED
    BY <2>1, <1>2, FailureTypes DEF RecordAccount
<1>3. CASE RecordPair(r)
  <2>1. PICK k \in Keys, newly \in BOOLEAN, x \in Request : CountsFailure(r, k, newly, x)
    BY <1>3, PairMoves
  <2> QED
    BY <2>1, <1>3, FailureTypes DEF RecordPair
<1>4. CASE RecordIp(r)
  <2>1. PICK k \in Keys, newly \in BOOLEAN, x \in Request : CountsFailure(r, k, newly, x)
    BY <1>4, IpMoves
  <2> QED
    BY <2>1, <1>4, FailureTypes DEF RecordIp
<1>5. CASE Strike(r)
  <2>1. guesses' = guesses /\ NoteLocks /\ redisUp' = redisUp
    BY <1>5 DEF Strike
  <2> QED
    BY <2>1, <1>5, StrikeMoves, NotesTyped, TypesKept DEF ThrottleTypes
<1>6. CASE Extend(r)
  <2>1. guesses' = guesses /\ NoteLocks /\ redisUp' = redisUp
    BY <1>6 DEF Extend
  <2> QED
    BY <2>1, <1>6, ExtendMoves, NotesTyped, TypesKept DEF ThrottleTypes, Stretches
<1>7. CASE Succeed(r)
  <2>1. NoteLocks /\ redisUp' = redisUp
    BY <1>7 DEF Succeed
  <2> QED
    BY <2>1, <1>7, SucceedMoves, NotesTyped, TypesKept
<1> QED
  BY <1>1, <1>2, <1>3, <1>4, <1>5, <1>6, <1>7 DEF Step

LEMMA TickTypes == ThrottleTypes /\ Tick => ThrottleTypes'
<1> SUFFICES ASSUME ThrottleTypes, Tick PROVE ThrottleTypes'
  OBVIOUS
<1>1. RateSound' /\ redisUp' = redisUp /\ req' = req
  BY ElapseEffect DEF Tick, ThrottleTypes
<1>2. guesses' \in [Keys -> Nat] /\ lockedFor' \in [Keys -> Nat]
  BY DEF Tick, ThrottleTypes
<1> QED
  BY <1>1, <1>2 DEF ThrottleTypes

LEMMA FlipTypes == ThrottleTypes /\ RedisFlips => ThrottleTypes'
<1> SUFFICES ASSUME ThrottleTypes, RedisFlips PROVE ThrottleTypes'
  OBVIOUS
<1>1. /\ UNCHANGED <<counters, locks, strikes, fcounters, flocks, fstrikes, req>>
      /\ redisUp' \in RedisStates /\ redisUp' \in BOOLEAN
  BY LoginAssumption DEF RedisFlips, redis, fallback
<1>2. guesses' \in [Keys -> Nat] /\ lockedFor' \in [Keys -> Nat]
  BY DEF RedisFlips
<1>3. RateSound'
  BY <1>1 DEF ThrottleTypes, RateSound, KeySound
<1> QED
  BY <1>1, <1>2, <1>3 DEF ThrottleTypes

LEMMA CheckTypes ==
    ASSUME ThrottleTypes, NEW r \in Requests, NEW a \in Accounts, NEW i \in Origins, Check(r, a, i)
    PROVE  ThrottleTypes'
<1>1. /\ RateSound' /\ redisUp' = redisUp /\ guesses' = guesses /\ lockedFor' = lockedFor
  BY DEF Check, ThrottleTypes, RateSound, KeySound, rateVars, redis, fallback, history
<1> QED
  BY <1>1, CheckMoves, TypesKept DEF ThrottleTypes

\* What a step that leaves every variable alone leaves alone.
LEMMA Stutter ==
    ASSUME UNCHANGED vars
    PROVE  UNCHANGED <<redisUp, counters, locks, strikes, fcounters, flocks, fstrikes, req,
                       guesses, lockedFor>>
BY DEF vars, rateVars, redis, fallback, history

LEMMA ThrottleTypesNext == ThrottleTypes /\ [Next]_vars => ThrottleTypes'
<1> SUFFICES ASSUME ThrottleTypes, [Next]_vars PROVE ThrottleTypes'
  OBVIOUS
<1>1. CASE \E r \in Requests : Step(r) \/ \E a \in Accounts, i \in Origins : Check(r, a, i)
  BY <1>1, StepTypes, CheckTypes
<1>2. CASE UNCHANGED vars
  BY <1>2, Stutter DEF ThrottleTypes, RateSound, KeySound
<1> QED
  BY <1>1, <1>2, TickTypes, FlipTypes DEF Next

LEMMA Products ==
    \A a, b, t \in Nat : a * t \in Nat /\ (a <= b => a * t <= b * t) /\ (a + 1) * t = a * t + t
OBVIOUS

\* The reach of a lock is at least its base, and grows with every request that
\* has had its turn.
LEMMA ReachFacts ==
    ASSUME NEW k \in Keys
    PROVE  Reach(k) \in Nat /\ Base(k) <= Reach(k)
<1>1. Base(k) \in Nat /\ MaxLockout \in Nat
  BY Settings
<1>2. Slack - Cardinality(Escalating(k)) \in Nat
  BY Counts
<1>3. (Slack - Cardinality(Escalating(k))) * MaxLockout \in Nat
  BY <1>1, <1>2, Products
<1> QED
  BY <1>1, <1>3 DEF Reach

LEMMA ReachFactsNext ==
    ASSUME NEW k \in Keys, redisUp' = redisUp
    PROVE  /\ Reach(k)' \in Nat /\ Base(k)' = Base(k) /\ Base(k) <= Reach(k)'
           /\ Cardinality(Escalating(k)') <= Cardinality(Escalating(k)) => Reach(k) <= Reach(k)'
           /\ k.dim = "account" /\ Cardinality(Escalating(k)') = Cardinality(Escalating(k)) - 1
                => Reach(k)' = Reach(k) + MaxLockout
<1> DEFINE m == Slack - Cardinality(Escalating(k))
           n == Slack - Cardinality(Escalating(k)')
<1>1. Base(k) \in Nat /\ MaxLockout \in Nat /\ Base(k)' = Base(k)
  BY Settings DEF Base
<1>2. /\ m \in Nat /\ n \in Nat
      /\ Cardinality(Escalating(k)') <= Cardinality(Escalating(k)) => m <= n
      /\ Cardinality(Escalating(k)') = Cardinality(Escalating(k)) - 1 => n = m + 1
  BY Counts, CountsNext
<1>3. /\ Reach(k) = IF k.dim # "account" THEN Base(k) ELSE Base(k) + m * MaxLockout
      /\ Reach(k)' = IF k.dim # "account" THEN Base(k) ELSE Base(k) + n * MaxLockout
  BY <1>1 DEF Reach
<1> HIDE DEF m, n
<1>4. /\ m * MaxLockout \in Nat /\ n * MaxLockout \in Nat
      /\ m <= n => m * MaxLockout <= n * MaxLockout
      /\ n = m + 1 => n * MaxLockout = m * MaxLockout + MaxLockout
  BY <1>1, <1>2, Products
<1> QED
  BY <1>1, <1>2, <1>3, <1>4

LEMMA LockKept ==
    ASSUME ThrottleTypes, LocksTimed, RateSound', NoteLocks, redisUp' = redisUp, NEW k \in Keys,
           LockLeft(k)' <= 0 \/ LockLeft(k)' = LockLeft(k),
           Cardinality(Escalating(k)') <= Cardinality(Escalating(k))
    PROVE  LockTimed(k)'
<1>1. LockLeft(k)' \in Int /\ LockLeft(k) \in Int /\ lockedFor[k] \in Nat
  BY LocksAreInts, LocksAreIntsNext DEF ThrottleTypes
<1>2. lockedFor'[k] = IF LockLeft(k)' > 0 THEN lockedFor[k] ELSE 0
  BY DEF NoteLocks
<1>3. Ticks(Reach(k)) \in Nat /\ Ticks(Reach(k)') \in Nat /\ Ticks(Reach(k)) <= Ticks(Reach(k)')
  BY ReachFacts, ReachFactsNext, TicksFacts
<1>4. Ticks(Reach(k))' = Ticks(Reach(k)')
  BY DEF Ticks
<1>5. LockLeft(k) > 0 => lockedFor[k] + LockLeft(k) <= Ticks(Reach(k))
  BY DEF LocksTimed, LockTimed
<1> QED
  BY <1>1, <1>2, <1>3, <1>4, <1>5 DEF LockTimed

LEMMA FailureLocks ==
    ASSUME ThrottleTypes, LocksTimed, NEW r \in Requests, NEW k \in Keys, NEW newly \in BOOLEAN,
           NEW x, CountsFailure(r, k, newly, x), redisUp' = redisUp
    PROVE  LocksTimed'
<1>1. /\ RateSound'
      /\ LockLeft(k) > 0 => ~newly /\ \A j \in Keys : LockLeft(j)' = LockLeft(j)
      /\ LockLeft(k) <= 0 =>
            /\ newly => LockLeft(k)' = Ticks(Base(k))
            /\ ~newly => LockLeft(k)' <= 0
            /\ \A j \in Keys \ {k} : LockLeft(j)' <= 0 \/ LockLeft(j)' = LockLeft(j)
  BY AttemptEffect DEF CountsFailure, ThrottleTypes
<1>2. /\ LockLeft(k) \in Int /\ lockedFor[k] \in Nat
  BY LocksAreInts DEF ThrottleTypes
<1>3. SUFFICES ASSUME NEW j \in Keys PROVE LockTimed(j)'
  BY DEF LocksTimed
<1>4. CASE newly /\ j = k
  <2>1. LockLeft(k) <= 0 /\ lockedFor[k] = 0 /\ LockLeft(k)' = Ticks(Base(k))
    BY <1>1, <1>2, <1>4 DEF LocksTimed, LockTimed
  <2>2. Base(k) \in Nat /\ Reach(k)' \in Nat /\ Base(k) <= Reach(k)'
    BY ReachFactsNext, Settings
  <2>3. Ticks(Base(k)) \in Nat /\ Ticks(Reach(k)') \in Nat /\ Ticks(Base(k)) <= Ticks(Reach(k)')
    BY <2>2, TicksFacts
  <2>4. lockedFor'[k] = 0
    BY <2>1 DEF CountsFailure, NoteLocks
  <2>5. Ticks(Reach(k))' = Ticks(Reach(k)')
    BY DEF Ticks
  <2> QED
    BY <2>1, <2>3, <2>4, <2>5, <1>4 DEF LockTimed
<1>5. CASE ~(newly /\ j = k)
  <2>1. LockLeft(j)' <= 0 \/ LockLeft(j)' = LockLeft(j)
    BY <1>1, <1>2, <1>5
  <2>2. j \notin Escalates(req[r]) /\ j \notin Escalates(x)
    BY <1>5 DEF CountsFailure
  <2>3. Escalating(j)' = Escalating(j)
    BY <2>2, MoveCounts DEF CountsFailure
  <2>4. Cardinality(Escalating(j)') <= Cardinality(Escalating(j))
    BY <2>3, Counts
  <2> QED
    BY <2>1, <2>4, <1>1, LockKept DEF CountsFailure
<1> QED
  BY <1>4, <1>5

\* A step under which nothing of the locks, nor of who may stretch them, changes.
LEMMA LocksAlone ==
    ASSUME ThrottleTypes, LocksTimed, redisUp' = redisUp, lockedFor' = lockedFor,
           \A k \in Keys : LockLeft(k)' = LockLeft(k) /\ Escalating(k)' = Escalating(k)
    PROVE  LocksTimed'
<1> SUFFICES ASSUME NEW k \in Keys PROVE LockTimed(k)'
  BY DEF LocksTimed
<1>1. LockTimed(k) /\ Reach(k)' = Reach(k)
  BY DEF LocksTimed, Reach, Base
<1>2. Ticks(Reach(k))' = Ticks(Reach(k)')
  BY DEF Ticks
<1> QED
  BY <1>1, <1>2 DEF LockTimed

LEMMA ExtendLocks ==
    ASSUME ThrottleTypes, LocksTimed, NEW r \in Requests, Extend(r)
    PROVE  LocksTimed'
<1>1. RateSound' /\ redisUp' = redisUp /\ NoteLocks
  BY ExtendMoves DEF Extend
<1>2. PICK k \in Keys, s \in 1..MaxLockout, x \in Request : Stretches(r, k, s, x)
  BY ExtendMoves
<1>3. SUFFICES ASSUME NEW j \in Keys PROVE LockTimed(j)'
  BY DEF LocksTimed
<1>4. CASE j # k
  <2>1. LockLeft(j)' = LockLeft(j) /\ Escalating(j)' = Escalating(j)
    BY <1>2, <1>4, MoveCounts DEF Stretches
  <2>2. Cardinality(Escalating(j)') <= Cardinality(Escalating(j))
    BY <2>1, Counts
  <2> QED
    BY <2>1, <2>2, <1>1, LockKept
<1>5. CASE j = k
  <2>1. Cardinality(Escalating(k)') = Cardinality(Escalating(k)) - 1
    BY <1>2, MoveCounts DEF Stretches
  <2>2. CASE LockLeft(k)' = LockLeft(k)
    <3>1. Cardinality(Escalating(k)') <= Cardinality(Escalating(k))
      BY <2>1, Counts
    <3> QED
      BY <3>1, <2>2, <1>1, <1>5, LockKept
  <2>3. CASE LockLeft(k)' = Ticks(s)
    <3>1. Reach(k) \in Nat /\ Reach(k)' = Reach(k) + MaxLockout /\ MaxLockout \in Nat
      BY <1>1, <1>2, <2>1, ReachFacts, ReachFactsNext, Settings DEF Stretches
    <3>2. /\ Ticks(Reach(k)') = Ticks(Reach(k)) + Ticks(MaxLockout)
          /\ Ticks(Reach(k)) \in Nat /\ Ticks(MaxLockout) \in Nat
          /\ Ticks(s) \in Nat /\ Ticks(s) > 0 /\ Ticks(s) <= Ticks(MaxLockout)
      <4>1. s \in Nat /\ s \in Nat \ {0} /\ s <= MaxLockout
        BY <3>1
      <4>2. Ticks(s) \in Nat /\ Ticks(s) > 0 /\ Ticks(s) <= Ticks(MaxLockout)
        BY <4>1, <3>1, TicksFacts
      <4>3. Ticks(Reach(k) + MaxLockout) = Ticks(Reach(k)) + Ticks(MaxLockout)
        BY <3>1, TicksFacts
      <4> QED
        BY <4>2, <4>3, <3>1, TicksFacts
    <3>3. LockLeft(k) \in Int /\ lockedFor[k] \in Nat
      BY LocksAreInts DEF ThrottleTypes
    <3>4. /\ LockLeft(k) <= 0 => lockedFor[k] = 0
          /\ LockLeft(k) > 0 => lockedFor[k] + LockLeft(k) <= Ticks(Reach(k))
      BY DEF LocksTimed, LockTimed
    <3>5. lockedFor[k] <= Ticks(Reach(k))
      BY <3>2, <3>3, <3>4
    <3>6. lockedFor'[k] = lockedFor[k]
      BY <1>1, <2>3, <3>2 DEF NoteLocks
    <3>7. Ticks(Reach(k))' = Ticks(Reach(k)')
      BY DEF Ticks
    <3> QED
      BY <3>2, <3>3, <3>5, <3>6, <3>7, <2>3, <1>5 DEF LockTimed
  <2> QED
    BY <2>2, <2>3, <1>2 DEF Stretches
<1> QED
  BY <1>4, <1>5

LEMMA StepLocks ==
    ASSUME ThrottleTypes, LocksTimed, NEW r \in Requests, Step(r)
    PROVE  LocksTimed'
<1>1. CASE Verify(r)
  <2>1. PICK x : Move(r, x) /\ Escalates(x) = {} /\ Escalates(req[r]) = {}
    BY <1>1, VerifyMoves
  <2>2. \A k \in Keys : Escalating(k)' = Escalating(k)
    BY <2>1, MoveCounts
  <2>3. /\ redisUp' = redisUp /\ lockedFor' = lockedFor
        /\ \A k \in Keys : LockLeft(k)' = LockLeft(k)
    BY <1>1 DEF Verify, rateVars, redis, fallback, LockLeft
  <2> QED
    BY <2>2, <2>3, LocksAlone
<1>2. CASE RecordAccount(r)
  <2>1. PICK k \in Keys, newly \in BOOLEAN, x \in Request : CountsFailure(r, k, newly, x)
    BY <1>2, AccountMoves
  <2> QED
    BY <2>1, <1>2, FailureLocks DEF RecordAccount
<1>3. CASE RecordPair(r)
  <2>1. PICK k \in Keys, newly \in BOOLEAN, x \in Request : CountsFailure(r, k, newly, x)
    BY <1>3, PairMoves
  <2> QED
    BY <2>1, <1>3, FailureLocks DEF RecordPair
<1>4. CASE RecordIp(r)
  <2>1. PICK k \in Keys, newly \in BOOLEAN, x \in Request : CountsFailure(r, k, newly, x)
    BY <1>4, IpMoves
  <2> QED
    BY <2>1, <1>4, FailureLocks DEF RecordIp
<1>5. CASE Strike(r)
  <2>1. PICK x : Move(r, x) /\ Escalates(x) \subseteq Escalates(req[r])
    BY <1>5, StrikeMoves
  <2>2. ASSUME NEW k \in Keys PROVE Cardinality(Escalating(k)') <= Cardinality(Escalating(k))
    <3>1. \/ Escalating(k)' = Escalating(k)
          \/ Cardinality(Escalating(k)') = Cardinality(Escalating(k)) - 1
      BY <2>1, MoveCounts
    <3> QED
      BY <3>1, Counts
  <2>3. /\ RateSound' /\ redisUp' = redisUp /\ NoteLocks
        /\ \A k \in Keys : LockLeft(k)' = LockLeft(k)
    BY <1>5, StrikeMoves DEF Strike
  <2> QED
    BY <2>2, <2>3, LockKept DEF LocksTimed
<1>6. CASE Extend(r)
  BY <1>6, ExtendLocks
<1>7. CASE Succeed(r)
  <2>1. /\ RateSound' /\ redisUp' = redisUp /\ NoteLocks /\ Move(r, IdleRequest)
        /\ Escalates(req[r]) = {}
        /\ \A k \in Keys : LockLeft(k)' <= 0 \/ LockLeft(k)' = LockLeft(k)
    BY <1>7, SucceedMoves DEF Succeed
  <2>2. ASSUME NEW k \in Keys PROVE Cardinality(Escalating(k)') <= Cardinality(Escalating(k))
    <3>1. Escalating(k)' = Escalating(k)
      BY <2>1, MoveCounts, IdleMoves
    <3> QED
      BY <3>1, Counts
  <2> QED
    BY <2>1, <2>2, LockKept DEF LocksTimed
<1> QED
  BY <1>1, <1>2, <1>3, <1>4, <1>5, <1>6, <1>7 DEF Step

LEMMA TickLocks == ThrottleTypes /\ LocksTimed /\ Tick => LocksTimed'
<1> SUFFICES ASSUME ThrottleTypes, LocksTimed, Tick, NEW k \in Keys PROVE LockTimed(k)'
  BY DEF LocksTimed
<1>1. /\ LockLeft(k)' = (IF LockLeft(k) > 0 THEN LockLeft(k) - 1 ELSE LockLeft(k))
      /\ redisUp' = redisUp /\ req' = req
  BY ElapseEffect DEF Tick, ThrottleTypes
<1>2. lockedFor'[k] = IF LockLeft(k)' > 0 THEN lockedFor[k] + 1 ELSE 0
  BY DEF Tick
<1>3. LockLeft(k) \in Int /\ lockedFor[k] \in Nat
  BY LocksAreInts DEF ThrottleTypes
<1>4. Ticks(Reach(k))' = Ticks(Reach(k)) /\ Ticks(Reach(k)) \in Nat
  BY <1>1, ReachFacts, TicksFacts DEF Ticks, Reach, Base, Escalating
<1>5. LockLeft(k) > 0 => lockedFor[k] + LockLeft(k) <= Ticks(Reach(k))
  BY DEF LocksTimed, LockTimed
<1> QED
  BY <1>1, <1>2, <1>3, <1>4, <1>5 DEF LockTimed

\* Redis answers throughout, or does not answer at all.
Steady == \E up : RedisStates = {up}

LEMMA LocksTimedNext ==
    ASSUME Steady, ThrottleTypes, LocksTimed, [Next]_vars
    PROVE  LocksTimed'
<1>1. CASE \E r \in Requests, a \in Accounts, i \in Origins : Check(r, a, i)
  <2>1. PICK r \in Requests, a \in Accounts, i \in Origins : Check(r, a, i)
    BY <1>1
  <2>2. PICK x : Move(r, x) /\ Escalates(x) = {} /\ Escalates(req[r]) = {}
    BY <2>1, CheckMoves
  <2>3. \A k \in Keys : Escalating(k)' = Escalating(k)
    BY <2>2, MoveCounts
  <2>4. /\ redisUp' = redisUp /\ lockedFor' = lockedFor
        /\ \A k \in Keys : LockLeft(k)' = LockLeft(k)
    BY <2>1 DEF Check, rateVars, redis, fallback, history, LockLeft
  <2> QED
    BY <2>3, <2>4, LocksAlone
<1>2. CASE \E r \in Requests : Step(r)
  BY <1>2, StepLocks
<1>3. CASE RedisFlips
  BY <1>3 DEF RedisFlips, Steady, ThrottleTypes
<1>4. CASE UNCHANGED vars
  BY <1>4, Stutter, LocksAlone DEF LockLeft, Escalating
<1> QED
  BY <1>1, <1>2, <1>3, <1>4, TickLocks DEF Next

\* The rate limiter's keys and the requests keep their shape, and no key of Redis or
\* of the fallback outlives its setting: _apply_progressive_escalation is capped
\* however often an account is locked out.
THEOREM TypeCorrect == Spec => []TypeOK
<1>1. Spec => []ThrottleTypes
  BY ThrottleInit, ThrottleTypesNext, PTL DEF Spec
<1> QED
  BY <1>1, ThrottleTypesImply, PTL

\* While one store answers, a lockout ends: attempts in flight when the lock was set,
\* or made under it, do not prolong it, and set_lock_ttl, sent after the script that
\* locked the account, reaches a lock once per request at most, be it a later one.
THEOREM LockoutsEnd ==
    ASSUME Steady
    PROVE  Spec => []LockoutBounded
<1>1. ThrottleTypes /\ LocksTimed => LockoutBounded
  <2> SUFFICES ASSUME ThrottleTypes, LocksTimed, NEW k \in Keys, LockLeft(k) > 0
               PROVE  lockedFor[k] <
                        IF ~redisUp /\ k.dim # "account" THEN Ticks(FallbackWindow)
                        ELSE IF k.dim # "account" THEN Ticks(Lockout[k.dim])
                        ELSE Ticks((IF redisUp THEN Lockout[k.dim] ELSE FallbackWindow)
                                       + Cardinality(Requests) * MaxLockout)
    BY DEF LockoutBounded
  <2>1. LockLeft(k) \in Int /\ lockedFor[k] \in Nat /\ Ticks(Reach(k)) \in Nat
    BY LocksAreInts, ReachFacts, TicksFacts DEF ThrottleTypes
  <2>2. lockedFor[k] < Ticks(Reach(k))
    BY <2>1 DEF LocksTimed, LockTimed
  <2>3. CASE k.dim # "account"
    BY <2>2, <2>3 DEF Reach, Base
  <2>4. CASE k.dim = "account"
    <3> DEFINE m == Slack - Cardinality(Escalating(k))
    <3>1. Base(k) \in Nat /\ MaxLockout \in Nat /\ Slack \in Nat /\ m \in Nat /\ m <= Slack
      BY Settings, Counts
    <3>2. Reach(k) = Base(k) + m * MaxLockout
      BY <2>4 DEF Reach
    <3> HIDE DEF m
    <3>3. m * MaxLockout <= Slack * MaxLockout /\ m * MaxLockout \in Nat /\ Slack * MaxLockout \in Nat
      BY <3>1, Products
    <3>4. Reach(k) <= Base(k) + Slack * MaxLockout /\ Base(k) + Slack * MaxLockout \in Nat
      BY <3>1, <3>2, <3>3
    <3>5. /\ Ticks(Reach(k)) <= Ticks(Base(k) + Slack * MaxLockout)
          /\ Ticks(Base(k) + Slack * MaxLockout) \in Nat
      BY <3>4, ReachFacts, TicksFacts
    <3>6. lockedFor[k] < Ticks(Base(k) + Slack * MaxLockout)
      BY <3>5, <2>1, <2>2
    <3> QED
      BY <3>6, <2>4 DEF Base, Slack
  <2> QED
    BY <2>3, <2>4
<1>2. Spec => [](ThrottleTypes /\ LocksTimed)
  <2>1. ThrottleTypes /\ LocksTimed /\ [Next]_vars => (ThrottleTypes /\ LocksTimed)'
    BY ThrottleTypesNext, LocksTimedNext
  <2> QED
    BY <2>1, ThrottleInit, PTL DEF Spec
<1> QED
  BY <1>1, <1>2, PTL

---------------------------------------------------------------------------
(* Guesses                                                                 *)

LEMMA LimitKept ==
    ASSUME NEW k \in Keys
    PROVE  Limit(k) \in Nat \ {0} /\ (redisUp' = redisUp => Limit(k)' = Limit(k))
BY Settings DEF Limit

\* A step that changes nothing a key's bound depends on.
LEMMA GuessesAlone ==
    ASSUME NEW k \in Keys, KeyGuesses(k), redisUp' = redisUp, guesses'[k] = guesses[k],
           LockLeft(k)' = LockLeft(k), Count(k)' = Count(k),
           Trying(k)' = Trying(k), Owing(k)' = Owing(k)
    PROVE  KeyGuesses(k)'
BY LimitKept DEF KeyGuesses, Slack

\* A key whose history restarts.
LEMMA GuessesRestart ==
    ASSUME RateSound', NEW k \in Keys, guesses'[k] = 0
    PROVE  KeyGuesses(k)'
<1>1. Limit(k)' \in Nat \ {0}
  BY Settings DEF Limit
<1>2. Count(k)' \in Nat
  BY LocksAreIntsNext
<1>3. Slack \in Nat /\ Cardinality(Trying(k)') \in 0..Slack /\ Cardinality(Owing(k)') \in 0..Slack
  BY CountsNext
<1> QED
  BY <1>1, <1>2, <1>3 DEF KeyGuesses, Slack

LEMMA FailureGuesses ==
    ASSUME ThrottleTypes, GuessesSound, NEW r \in Requests, NEW k \in Keys, NEW newly \in BOOLEAN,
           NEW x, CountsFailure(r, k, newly, x), redisUp' = redisUp
    PROVE  GuessesSound'
<1>1. /\ RateSound'
      /\ LockLeft(k) > 0 =>
           ~newly /\ \A j \in Keys : /\ LockLeft(j)' = LockLeft(j)
                                     /\ Count(j)' = Count(j)
      /\ LockLeft(k) <= 0 =>
           /\ newly => LockLeft(k)' = Ticks(Base(k))
           /\ ~newly /\ ~Evicting(k) =>
                Count(k)' = Count(k) + 1 /\ Count(k)' < Limit(k)
           /\ ~Evicting(k) => \A j \in Keys \ {k} : /\ LockLeft(j)' = LockLeft(j)
                                                    /\ Count(j)' = Count(j)
  BY AttemptEffect DEF CountsFailure, ThrottleTypes
<1>2. LockLeft(k) \in Int /\ Count(k) \in Nat
  BY LocksAreInts DEF ThrottleTypes
<1>3. SUFFICES ASSUME NEW j \in Keys PROVE KeyGuesses(j)'
  BY DEF GuessesSound
<1>4. CASE Evicting(k)
  <2>1. guesses'[j] = 0
    BY <1>4 DEF CountsFailure, NoteEviction, Evicting
  <2> QED
    BY <2>1, <1>1, GuessesRestart
<1>5. CASE ~Evicting(k)
  <2>1. guesses' = guesses
    BY <1>5 DEF CountsFailure, NoteEviction, Evicting
  <2>2. Trying(j)' = Trying(j)
    BY MoveCounts DEF CountsFailure
  <2>3. KeyGuesses(j) /\ Limit(j)' = Limit(j) /\ Limit(j) \in Nat \ {0}
    BY LimitKept DEF GuessesSound
  <2>4. CASE j # k
    <3>1. Owing(j)' = Owing(j)
      BY <2>4, MoveCounts DEF CountsFailure
    <3>2. LockLeft(j)' = LockLeft(j) /\ Count(j)' = Count(j)
      BY <1>1, <1>2, <1>5, <2>4
    <3> QED
      BY <3>1, <3>2, <2>1, <2>2, <2>3, GuessesAlone
  <2>5. CASE j = k
    <3>1. Cardinality(Owing(k)') = Cardinality(Owing(k)) - 1
      BY MoveCounts DEF CountsFailure
    <3>2. /\ Cardinality(Trying(k)) \in 0..Slack /\ Cardinality(Owing(k)) \in 0..Slack
          /\ Slack \in Nat /\ guesses[k] \in Nat
      BY Counts DEF ThrottleTypes
    <3>3. (guesses[k] + Cardinality(Trying(k)) < Limit(k) + Slack)'
      BY <2>1, <2>2, <2>3, <2>5 DEF KeyGuesses, Slack
    <3>4. CASE LockLeft(k) > 0
      BY <3>3, <3>4, <1>1, <1>2, <2>5 DEF KeyGuesses
    <3>5. CASE LockLeft(k) <= 0 /\ newly
      <4>1. LockLeft(k)' > 0
        BY <1>1, <3>5, Settings, TicksFacts
      <4> QED
        BY <3>3, <4>1, <1>1, <2>5, LocksAreIntsNext DEF KeyGuesses
    <3>6. CASE LockLeft(k) <= 0 /\ ~newly
      <4>1. Count(k)' = Count(k) + 1 /\ Count(k)' < Limit(k)
        BY <1>1, <1>5, <3>6
      <4>2. guesses[k] <= Count(k) + Cardinality(Owing(k))
        BY <2>3, <2>5, <3>2, <3>6, <1>2 DEF KeyGuesses
      <4>3. guesses[k] <= (IF Count(k)' < Limit(k)' THEN Count(k)' ELSE 0) + Cardinality(Owing(k)')
        BY <4>1, <4>2, <3>1, <3>2, <2>3, <2>5, <1>2
      <4> QED
        BY <3>3, <4>3, <2>1, <2>5 DEF KeyGuesses
    <3> QED
      BY <3>4, <3>5, <3>6, <1>2
  <2> QED
    BY <2>4, <2>5
<1> QED
  BY <1>4, <1>5

LEMMA VerifyGuesses ==
    ASSUME ThrottleTypes, GuessesSound, NEW r \in Requests, Verify(r)
    PROVE  GuessesSound'
<1>1. PICK x : /\ Move(r, x) /\ Tries(x) = {} /\ Owes(req[r]) = {}
               /\ \/ Owes(x) = {} /\ guesses' = guesses
                  \/ /\ Owes(x) = Tries(req[r])
                     /\ guesses' = [k \in Keys |->
                           IF k \in Tries(req[r]) /\ guesses[k] < Limit(k) + Slack
                           THEN guesses[k] + 1 ELSE guesses[k]]
  BY VerifyMoves
<1>2. /\ redisUp' = redisUp
      /\ \A k \in Keys : LockLeft(k)' = LockLeft(k) /\ Count(k)' = Count(k)
  BY DEF Verify, rateVars, redis, fallback, LockLeft, Count, Counted
<1>3. SUFFICES ASSUME NEW k \in Keys PROVE KeyGuesses(k)'
  BY DEF GuessesSound
<1>4. /\ KeyGuesses(k) /\ Limit(k)' = Limit(k) /\ Limit(k) \in Nat \ {0}
      /\ LockLeft(k)' = LockLeft(k) /\ Count(k)' = Count(k)
      /\ LockLeft(k) \in Int /\ Count(k) \in Nat /\ guesses[k] \in Nat
  BY <1>2, LimitKept, LocksAreInts DEF GuessesSound, ThrottleTypes
<1>5. /\ Slack \in Nat
      /\ Cardinality(Trying(k)) \in 0..Slack /\ Cardinality(Owing(k)) \in 0..Slack
      /\ Cardinality(Trying(k)') \in 0..Slack /\ Cardinality(Owing(k)') \in 0..Slack
  BY Counts, CountsNext
<1>6. CASE k \notin Tries(req[r])
  <2>1. Trying(k)' = Trying(k) /\ Owing(k)' = Owing(k) /\ guesses'[k] = guesses[k]
    BY <1>1, <1>6, MoveCounts
  <2> QED
    BY <2>1, <1>2, <1>4, GuessesAlone
<1>7. CASE k \in Tries(req[r]) /\ Owes(x) = {} /\ guesses' = guesses
  <2>1. /\ Cardinality(Trying(k)') = Cardinality(Trying(k)) - 1
        /\ Owing(k)' = Owing(k)
    BY <1>1, <1>7, MoveCounts
  <2> QED
    BY <2>1, <1>4, <1>5, <1>7 DEF KeyGuesses, Slack
<1>8. CASE k \in Tries(req[r]) /\ Owes(x) = Tries(req[r]) /\ guesses'[k] <= guesses[k] + 1
           /\ guesses'[k] \in Nat
  <2>1. /\ Cardinality(Trying(k)') = Cardinality(Trying(k)) - 1
        /\ Cardinality(Owing(k)') = Cardinality(Owing(k)) + 1
    BY <1>1, <1>8, MoveCounts
  <2>2. (guesses[k] + Cardinality(Trying(k)) < Limit(k) + Slack)'
    <3>1. guesses[k] + Cardinality(Trying(k)) < Limit(k) + Slack
      BY <1>4 DEF KeyGuesses
    <3>2. guesses'[k] + Cardinality(Trying(k)') < Limit(k)' + Slack
      BY <3>1, <2>1, <1>4, <1>5, <1>8
    <3> QED
      BY <3>2 DEF Slack
  <2>3. LockLeft(k) <= 0 =>
          guesses'[k] <= (IF Count(k)' < Limit(k)' THEN Count(k)' ELSE 0) + Cardinality(Owing(k)')
    BY <2>1, <1>4, <1>5, <1>8 DEF KeyGuesses
  <2> QED
    BY <2>2, <2>3, <1>4 DEF KeyGuesses
<1>9. k \in Tries(req[r]) => \/ Owes(x) = {} /\ guesses' = guesses
                             \/ /\ Owes(x) = Tries(req[r]) /\ guesses'[k] <= guesses[k] + 1
                                /\ guesses'[k] \in Nat
  BY <1>1, <1>4, <1>5
<1> QED
  BY <1>6, <1>7, <1>8, <1>9

\* The peek sees every lock there is, as long as no lock is rounded away.
LEMMA CheckGuesses ==
    ASSUME TicksPerSecond <= 2, ThrottleTypes, GuessesSound,
           NEW r \in Requests, NEW a \in Accounts, NEW i \in Origins, Check(r, a, i)
    PROVE  GuessesSound'
<1>1. PICK x : /\ Move(r, x) /\ Tries(req[r]) = {} /\ Tries(x) = KeysOf(a, i)
               /\ Owes(req[r]) = {} /\ Owes(x) = {}
  BY CheckMoves
<1>2. /\ redisUp' = redisUp /\ guesses' = guesses
      /\ \A k \in Keys : LockLeft(k)' = LockLeft(k) /\ Count(k)' = Count(k)
  BY DEF Check, rateVars, redis, fallback, history, LockLeft, Count, Counted
<1>3. SUFFICES ASSUME NEW k \in Keys PROVE KeyGuesses(k)'
  BY DEF GuessesSound
<1>4. /\ KeyGuesses(k) /\ Limit(k)' = Limit(k) /\ Limit(k) \in Nat \ {0}
      /\ LockLeft(k)' = LockLeft(k) /\ Count(k)' = Count(k)
      /\ LockLeft(k) \in Int /\ Count(k) \in Nat /\ guesses[k] \in Nat
  BY <1>2, LimitKept, LocksAreInts DEF GuessesSound, ThrottleTypes
<1>5. Owing(k)' = Owing(k)
  BY <1>1, MoveCounts
<1>6. CASE k \notin KeysOf(a, i)
  <2>1. Trying(k)' = Trying(k)
    BY <1>1, <1>6, MoveCounts
  <2> QED
    BY <2>1, <1>2, <1>4, <1>5, GuessesAlone
<1>7. CASE k \in KeysOf(a, i)
  <2>1. LockLeft(k) <= 0
    <3>1. ~IsLocked(k)
      BY <1>7 DEF Check, Throttled
    <3>2. CASE redisUp
      <4>1. ~(RedisTTL(locks[k]) > 0) /\ locks[k] \in Nat
        BY <3>1, <3>2 DEF IsLocked, ThrottleTypes, RateSound
      <4>2. \A t \in Nat : ~((2 * t + 1) \div (2 * 1) > 0) => t = 0
        OBVIOUS
      <4>3. \A t \in Nat : ~((2 * t + 2) \div (2 * 2) > 0) => t = 0
        OBVIOUS
      <4>4. TicksPerSecond = 1 \/ TicksPerSecond = 2
        BY RateLimitAssumption
      <4>5. locks[k] = 0
        <5>1. CASE TicksPerSecond = 1
          BY <4>1, <4>2, <5>1 DEF RedisTTL
        <5>2. CASE TicksPerSecond = 2
          BY <4>1, <4>3, <5>2 DEF RedisTTL
        <5> QED
          BY <4>4, <5>1, <5>2
      <4> QED
        BY <4>5, <3>2 DEF LockLeft
    <3>3. CASE ~redisUp
      BY <3>1, <3>3 DEF IsLocked, LockLeft, ThrottleTypes, RateSound
    <3> QED
      BY <3>2, <3>3
  <2>2. guesses[k] <= (IF Count(k) < Limit(k) THEN Count(k) ELSE 0) + Cardinality(Owing(k))
    BY <2>1, <1>4 DEF KeyGuesses
  <2>3. /\ Slack \in Nat /\ Cardinality(Trying(k)') \in 0..Slack
        /\ Cardinality(Owing(k)') \in 0..Slack
        /\ Cardinality(Trying(k)') + Cardinality(Owing(k)') <= Slack
    BY CountsNext
  <2>4. guesses[k] < Limit(k) + Cardinality(Owing(k))
    BY <2>2, <2>3, <1>4, <1>5
  <2>5. guesses'[k] + Cardinality(Trying(k)') < Limit(k)' + Slack
    BY <2>3, <2>4, <1>2, <1>4, <1>5
  <2> QED
    BY <2>2, <2>5, <1>2, <1>4, <1>5 DEF KeyGuesses, Slack
<1> QED
  BY <1>6, <1>7

LEMMA StepGuesses ==
    ASSUME ThrottleTypes, GuessesSound, NEW r \in Requests, Step(r)
    PROVE  GuessesSound'
<1>1. CASE Verify(r)
  BY <1>1, VerifyGuesses
<1>2. CASE RecordAccount(r)
  <2>1. PICK k \in Keys, newly \in BOOLEAN, x \in Request : CountsFailure(r, k, newly, x)
    BY <1>2, AccountMoves
  <2> QED
    BY <2>1, <1>2, FailureGuesses DEF RecordAccount
<1>3. CASE RecordPair(r)
  <2>1. PICK k \in Keys, newly \in BOOLEAN, x \in Request : CountsFailure(r, k, newly, x)
    BY <1>3, PairMoves
  <2> QED
    BY <2>1, <1>3, FailureGuesses DEF RecordPair
<1>4. CASE RecordIp(r)
  <2>1. PICK k \in Keys, newly \in BOOLEAN, x \in Request : CountsFailure(r, k, newly, x)
    BY <1>4, IpMoves
  <2> QED
    BY <2>1, <1>4, FailureGuesses DEF RecordIp
<1>5. CASE Strike(r)
  <2>1. PICK x : Move(r, x) /\ Tries(x) = Tries(req[r]) /\ Owes(x) = Owes(req[r])
    BY <1>5, StrikeMoves
  <2>2. /\ redisUp' = redisUp /\ guesses' = guesses
        /\ \A k \in Keys : LockLeft(k)' = LockLeft(k) /\ Count(k)' = Count(k)
    BY <1>5, StrikeMoves DEF Strike
  <2>3. \A k \in Keys : Trying(k)' = Trying(k) /\ Owing(k)' = Owing(k)
    BY <2>1, MoveCounts
  <2> QED
    BY <2>2, <2>3, GuessesAlone DEF GuessesSound
<1>6. CASE Extend(r)
  <2>1. PICK k \in Keys, s \in 1..MaxLockout, x \in Request : Stretches(r, k, s, x)
    BY <1>6, ExtendMoves
  <2>2. redisUp' = redisUp /\ guesses' = guesses /\ RateSound'
    BY <1>6, ExtendMoves DEF Extend
  <2>3. SUFFICES ASSUME NEW j \in Keys PROVE KeyGuesses(j)'
    BY DEF GuessesSound
  <2>4. KeyGuesses(j) /\ Trying(j)' = Trying(j) /\ Owing(j)' = Owing(j) /\ Count(j)' = Count(j)
    BY <2>1, MoveCounts DEF GuessesSound, Stretches
  <2>5. CASE LockLeft(j)' = LockLeft(j)
    BY <2>2, <2>4, <2>5, GuessesAlone
  <2>6. CASE LockLeft(j)' # LockLeft(j)
    <3>1. LockLeft(j)' = Ticks(s) /\ s \in Nat \ {0}
      BY <2>1, <2>6, RateLimitAssumption DEF Stretches
    <3>2. LockLeft(j)' > 0 /\ LockLeft(j)' \in Int
      BY <3>1, TicksFacts
    <3> QED
      BY <3>2, <2>2, <2>4, LimitKept DEF KeyGuesses, Slack
  <2> QED
    BY <2>5, <2>6
<1>7. CASE Succeed(r)
  <2>1. /\ RateSound' /\ Move(r, IdleRequest) /\ redisUp' = redisUp
        /\ Tries(req[r]) = {} /\ Owes(req[r]) = {}
        /\ \A j \in Keys : \/ guesses'[j] = 0
                           \/ /\ LockLeft(j)' = LockLeft(j) /\ Count(j)' = Count(j)
                              /\ guesses'[j] = guesses[j]
    BY <1>7, SucceedMoves DEF Succeed
  <2>2. \A j \in Keys : Trying(j)' = Trying(j) /\ Owing(j)' = Owing(j)
    BY <2>1, MoveCounts, IdleMoves
  <2>3. SUFFICES ASSUME NEW j \in Keys PROVE KeyGuesses(j)'
    BY DEF GuessesSound
  <2> QED
    BY <2>1, <2>2, GuessesAlone, GuessesRestart DEF GuessesSound
<1> QED
  BY <1>1, <1>2, <1>3, <1>4, <1>5, <1>6, <1>7 DEF Step

LEMMA TickGuesses == ThrottleTypes /\ GuessesSound /\ Tick => GuessesSound'
<1> SUFFICES ASSUME ThrottleTypes, GuessesSound, Tick, NEW k \in Keys PROVE KeyGuesses(k)'
  BY DEF GuessesSound
<1>1. /\ LockLeft(k)' = (IF LockLeft(k) > 0 THEN LockLeft(k) - 1 ELSE LockLeft(k))
      /\ Counted(k)' => Count(k)' = Count(k)
      /\ redisUp' = redisUp /\ req' = req /\ RateSound'
  BY ElapseEffect DEF Tick, ThrottleTypes
<1>2. guesses'[k] = IF LockLeft(k)' <= 0 /\ (LockLeft(k) > 0 \/ ~Counted(k)') THEN 0 ELSE guesses[k]
  BY DEF Tick
<1>3. Trying(k)' = Trying(k) /\ Owing(k)' = Owing(k) /\ KeyGuesses(k)
  BY <1>1 DEF Trying, Owing, GuessesSound
<1>4. LockLeft(k) \in Int
  BY LocksAreInts DEF ThrottleTypes
<1>5. CASE guesses'[k] = 0
  BY <1>1, <1>5, GuessesRestart
<1>6. CASE LockLeft(k)' > 0 /\ guesses'[k] = guesses[k]
  BY <1>1, <1>3, <1>4, <1>6, LimitKept DEF KeyGuesses, Slack
<1>7. CASE LockLeft(k) <= 0 /\ Counted(k)' /\ guesses'[k] = guesses[k]
  <2>1. LockLeft(k)' = LockLeft(k) /\ Count(k)' = Count(k)
    BY <1>1, <1>4, <1>7
  <2> QED
    BY <2>1, <1>1, <1>3, <1>7, GuessesAlone
<1> QED
  BY <1>1, <1>2, <1>4, <1>5, <1>6, <1>7

LEMMA GuessesSoundNext ==
    ASSUME TicksPerSecond <= 2, ThrottleTypes, GuessesSound, [Next]_vars
    PROVE  GuessesSound'
<1>1. CASE \E r \in Requests : Step(r) \/ \E a \in Accounts, i \in Origins : Check(r, a, i)
  BY <1>1, StepGuesses, CheckGuesses
<1>2. CASE RedisFlips
  <2>1. RateSound' /\ \A k \in Keys : guesses'[k] = 0
    BY <1>2, FlipTypes DEF RedisFlips, ThrottleTypes
  <2> QED
    BY <2>1, GuessesRestart DEF GuessesSound
<1>3. CASE UNCHANGED vars
  <2>1. SUFFICES ASSUME NEW k \in Keys PROVE KeyGuesses(k)'
    BY DEF GuessesSound
  <2>2. /\ redisUp' = redisUp /\ guesses' = guesses /\ LockLeft(k)' = LockLeft(k)
        /\ Count(k)' = Count(k) /\ Trying(k)' = Trying(k) /\ Owing(k)' = Owing(k)
    BY <1>3, Stutter DEF LockLeft, Count, Counted, Trying, Owing
  <2> QED
    BY <2>2, GuessesAlone DEF GuessesSound
<1> QED
  BY <1>1, <1>2, <1>3, TickGuesses DEF Next

\* However requests overlap between is_locked and record_attempt, whichever store
\* answers and whenever Redis fails or comes back, only the requests past the peek
\* when a key is locked exceed its limit.  Two ticks to a second at most, so that
\* Redis rounds no lock away: in its last half second a lock no longer stops anyone.
THEOREM GuessesAreBounded ==
    ASSUME TicksPerSecond <= 2
    PROVE  Spec => []GuessesBounded
<1>1. ThrottleTypes /\ GuessesSound => GuessesBounded
  <2> SUFFICES ASSUME ThrottleTypes, GuessesSound, NEW k \in Keys
               PROVE  guesses[k] < Limit(k) + Slack
    BY DEF GuessesBounded
  <2>1. /\ guesses[k] + Cardinality(Trying(k)) < Limit(k) + Slack
        /\ Slack \in Nat /\ Cardinality(Trying(k)) \in 0..Slack
        /\ guesses[k] \in Nat /\ Limit(k) \in Nat
    BY Counts, LimitKept DEF GuessesSound, KeyGuesses, ThrottleTypes
  <2> QED
    BY <2>1
<1>2. Spec => [](ThrottleTypes /\ GuessesSound)
  <2>1. ThrottleTypes /\ GuessesSound /\ [Next]_vars => (ThrottleTypes /\ GuessesSound)'
    BY ThrottleTypesNext, GuessesSoundNext
  <2> QED
    BY <2>1, ThrottleInit, PTL DEF Spec
<1> QED
  BY <1>1, <1>2, PTL

=============================================================================
