------------------------- MODULE RateLimiterProofs -------------------------
(***************************************************************************)
(* Theorems about RateLimiter, for any set of addresses, any rate, any     *)
(* length of a minute and any size at which the map is swept.              *)
(***************************************************************************)
EXTENDS MCRateLimiter, FiniteSetTheorems, TLAPS

-----------------------------------------------------------------------------
(* Arithmetic of a bucket *)

\* A longer time refills no less (the refill is a product of two variables).
LEMMA MulMono ==
  ASSUME NEW a \in Nat, NEW b \in Nat, NEW c \in Nat, a <= b
  PROVE  a * c <= b * c
<1>1. PICK d \in Nat : b = a + d
  <2>1. b - a \in Nat /\ b = a + (b - a)
    OBVIOUS
  <2> QED BY <2>1
<1>2. b * c = a * c + d * c
  BY <1>1
<1>3. d * c \in Nat /\ a * c \in Nat
  OBVIOUS
<1> QED BY <1>2, <1>3

\* The capacity is a natural number and, unless the limiter is off, at least
\* one token.
LEMMA CapacityNat ==
  /\ Capacity \in Nat
  /\ PerMinute > 0 => Minute <= Capacity
<1>1. Capacity \in Nat
  BY LimiterAssumption DEF Capacity
<1>2. ASSUME PerMinute > 0 PROVE Minute <= Capacity
  <2>1. 1 * Minute <= PerMinute * Minute
    BY <1>2, LimiterAssumption, MulMono
  <2> QED BY <2>1, LimiterAssumption DEF Capacity
<1> QED BY <1>1, <1>2

\* The refill of a bucket and its level, one tick later.
LEMMA RefillType ==
  ASSUME NEW tk \in Nat, NEW d \in Nat
  PROVE  /\ d * PerMinute \in Nat
         /\ (d + 1) * PerMinute = d * PerMinute + PerMinute
         /\ Smaller(Capacity, tk + d * PerMinute) \in 0 .. Capacity
  BY LimiterAssumption, CapacityNat DEF Smaller

-----------------------------------------------------------------------------
(* Sweeping does not change what an address may do *)

\* The level of an address by its bucket alone, swept or not.
Stored(ip) == IF ip \in DOMAIN buckets THEN Refilled(buckets[ip]) ELSE Capacity
SweepNeutral == \A ip \in IP : Level(ip) = Stored(ip)

\* A bucket idle for two minutes is full again, so deleting it changes the
\* level of no address (sweepLocked deletes, allow then makes a full one).
LEMMA LevelStored == TypeOK => SweepNeutral
<1> SUFFICES ASSUME TypeOK, NEW ip \in IP, ip \in DOMAIN buckets,
                    IdleTooLong(buckets[ip])
             PROVE  Refilled(buckets[ip]) = Capacity
  BY DEF SweepNeutral, Level, Stored, Surviving
<1> DEFINE tk == buckets[ip].tokens
           d == clock - buckets[ip].last
<1>1. tk \in Nat /\ d \in Nat /\ Minute <= d
  BY LimiterAssumption DEF TypeOK, Bucket, IdleTooLong
<1>2. Minute * PerMinute <= d * PerMinute
  BY <1>1, MulMono, LimiterAssumption
<1>3. Minute * PerMinute = Capacity /\ d * PerMinute \in Nat
  BY <1>1, LimiterAssumption DEF Capacity
<1>4. Refilled(buckets[ip]) = Smaller(Capacity, tk + d * PerMinute)
  BY DEF Refilled
<1> QED BY <1>1, <1>2, <1>3, <1>4, CapacityNat DEF Smaller

\* The same after a step.
LEMMA LevelStoredNext == TypeOK' => SweepNeutral'
  BY LevelStored, PTL

\* A level is never negative and never above the capacity.
LEMMA LevelBounds ==
  TypeOK => \A ip \in IP : Level(ip) \in 0 .. Capacity
<1> SUFFICES ASSUME TypeOK, NEW ip \in IP PROVE Stored(ip) \in 0 .. Capacity
  BY LevelStored DEF SweepNeutral
<1>1. CASE ip \in DOMAIN buckets
  <2> DEFINE tk == buckets[ip].tokens
             d == clock - buckets[ip].last
  <2>1. tk \in Nat /\ d \in Nat
    BY <1>1 DEF TypeOK, Bucket
  <2>2. Refilled(buckets[ip]) = Smaller(Capacity, tk + d * PerMinute)
    BY DEF Refilled
  <2> QED BY <1>1, <2>1, <2>2, RefillType DEF Stored
<1>2. CASE ip \notin DOMAIN buckets
  BY <1>2, CapacityNat DEF Stored
<1> QED BY <1>1, <1>2

\* allow leaves between nothing and a full bucket.
LEMMA RemainingBounds ==
  ASSUME TypeOK, NEW ip \in IP, PerMinute > 0
  PROVE  Remaining(ip) \in 0 .. Capacity
  BY LevelBounds, LimiterAssumption, CapacityNat DEF Remaining, Permits

-----------------------------------------------------------------------------
(* Types, and what a sweep leaves behind *)

\* allow keeps every bucket within its capacity and in the past.
LEMMA TypeStep == TypeOK /\ [Next]_limiterVars => TypeOK'
<1> SUFFICES ASSUME TypeOK, [Next]_limiterVars PROVE TypeOK'
  OBVIOUS
<1>1. ASSUME NEW ip \in IP, Attempt(ip) PROVE TypeOK'
  <2>1. CASE PerMinute = 0
    BY <1>1, <2>1 DEF Attempt, Allow, TypeOK, limiter
  <2>2. CASE PerMinute # 0
    <3>1. Remaining(ip) \in Nat /\ Remaining(ip) <= Capacity
      BY <2>2, RemainingBounds, LimiterAssumption, CapacityNat
    <3>2. /\ clock' = clock
          /\ lastSweep' = IF SweepDue THEN clock ELSE lastSweep
          /\ buckets' = [k \in Surviving \cup {ip} |->
               IF k = ip THEN [tokens |-> Remaining(ip), last |-> clock]
               ELSE buckets[k]]
      BY <1>1, <2>2 DEF Attempt, Allow
    <3>3. Surviving \subseteq DOMAIN buckets
      BY DEF Surviving
    <3>4. Capacity' = Capacity
      BY DEF Capacity
    <3> QED BY <3>1, <3>2, <3>3, <3>4 DEF TypeOK, Bucket
  <2> QED BY <2>1, <2>2
<1>2. CASE Tick
  BY <1>2 DEF Tick, TypeOK, limiter, Bucket, Capacity
<1>3. CASE UNCHANGED limiterVars
  BY <1>3 DEF limiterVars, limiter, TypeOK, Bucket, Capacity
<1> QED BY <1>1, <1>2, <1>3 DEF Next

\* No bucket ever exceeds its capacity or is dated in the future (allow).
THEOREM BucketsSound == Spec => []TypeOK
<1>1. Init => TypeOK
  BY DEF Init, NewLimiter, TypeOK
<1> QED BY <1>1, TypeStep, PTL DEF Spec

\* After a sweep the map holds no bucket idle for more than two minutes before
\* it (sweepLocked), so it does not grow with every address ever seen.
THEOREM SweepBoundsMap == Spec => []IdleSwept
<1>1. Init => IdleSwept
  BY DEF Init, NewLimiter, IdleSwept
<1>2. TypeOK /\ IdleSwept /\ [Next]_limiterVars => IdleSwept'
  <2> SUFFICES ASSUME TypeOK, IdleSwept, [Next]_limiterVars PROVE IdleSwept'
    OBVIOUS
  <2> USE LimiterAssumption
  <2>1. ASSUME NEW ip \in IP, Attempt(ip), PerMinute # 0 PROVE IdleSwept'
    <3>1. /\ clock' = clock
          /\ lastSweep' = IF SweepDue THEN clock ELSE lastSweep
          /\ buckets' = [k \in Surviving \cup {ip} |->
               IF k = ip THEN [tokens |-> Remaining(ip), last |-> clock]
               ELSE buckets[k]]
      BY <2>1 DEF Attempt, Allow
    <3>2. ASSUME NEW k \in Surviving PROVE buckets[k].last >= lastSweep' - 2 * Minute
      BY <3>1, <3>2 DEF Surviving, IdleTooLong, IdleSwept, TypeOK, Bucket
    <3>3. clock >= lastSweep' - 2 * Minute
      BY <3>1 DEF TypeOK
    <3> QED BY <3>1, <3>2, <3>3 DEF IdleSwept
  <2>2. CASE UNCHANGED limiter
    BY <2>2 DEF IdleSwept, limiter
  <2> QED BY <2>1, <2>2 DEF Next, Attempt, Allow, Tick, limiterVars
<1> QED BY <1>1, <1>2, BucketsSound, PTL DEF Spec

-----------------------------------------------------------------------------
(* How each step moves the levels *)

\* An attempt moves the level of its own address and of no other, whatever it
\* sweeps.
LEMMA AttemptLevels ==
  ASSUME TypeOK, TypeOK', PerMinute > 0, NEW ip \in IP, Attempt(ip)
  PROVE  \A k \in IP : Level(k)' = IF k = ip THEN Remaining(ip) ELSE Level(k)
<1>1. \A k \in IP : Level(k)' = Stored(k)'
  BY LevelStoredNext DEF SweepNeutral
<1>2. /\ clock' = clock
      /\ buckets' = [k \in Surviving \cup {ip} |->
           IF k = ip THEN [tokens |-> Remaining(ip), last |-> clock]
           ELSE buckets[k]]
  BY LimiterAssumption DEF Attempt, Allow
<1>3. Stored(ip)' = Remaining(ip)
  <2>1. Remaining(ip) \in 0 .. Capacity
    BY RemainingBounds
  <2>2. Stored(ip)' = Smaller(Capacity, Remaining(ip) + (clock - clock) * PerMinute)
    BY <1>2 DEF Stored, Refilled, Capacity
  <2>3. (clock - clock) * PerMinute = 0
    BY LimiterAssumption DEF TypeOK
  <2> QED BY <2>1, <2>2, <2>3, CapacityNat DEF Smaller
<1>4. ASSUME NEW k \in IP, k # ip PROVE Stored(k)' = Level(k)
  <2>1. CASE k \in Surviving
    BY <1>2, <1>4, <2>1 DEF Stored, Level, Refilled, Capacity
  <2>2. CASE k \notin Surviving
    BY <1>2, <1>4, <2>2 DEF Stored, Level, Capacity
  <2> QED BY <2>1, <2>2
<1> QED BY <1>1, <1>3, <1>4

\* A tick refills every address, up to the capacity.
LEMMA TickLevels ==
  ASSUME TypeOK, TypeOK', Tick
  PROVE  \A k \in IP : Level(k)' = Smaller(Capacity, Level(k) + PerMinute)
<1>1. \A k \in IP : Level(k)' = Stored(k)'
  BY LevelStoredNext DEF SweepNeutral
<1>2. \A k \in IP : Level(k) = Stored(k)
  BY LevelStored DEF SweepNeutral
<1>3. clock' = clock + 1 /\ buckets' = buckets
  BY DEF Tick, limiter
<1>4. ASSUME NEW k \in IP
      PROVE  Stored(k)' = Smaller(Capacity, Stored(k) + PerMinute)
  <2>1. CASE k \in DOMAIN buckets
    <3> DEFINE tk == buckets[k].tokens
               d == clock - buckets[k].last
    <3>1. tk \in Nat /\ d \in Nat /\ (clock + 1) - buckets[k].last = d + 1
      BY <2>1 DEF TypeOK, Bucket
    <3>2. Stored(k) = Smaller(Capacity, tk + d * PerMinute)
      BY <2>1 DEF Stored, Refilled
    <3>3. Stored(k)' = Smaller(Capacity, tk + (d + 1) * PerMinute)
      BY <2>1, <1>3, <3>1 DEF Stored, Refilled, Capacity
    <3>4. d * PerMinute \in Nat /\ (d + 1) * PerMinute = d * PerMinute + PerMinute
      BY <3>1, RefillType
    <3> HIDE DEF tk, d
    <3> QED BY <3>1, <3>2, <3>3, <3>4, CapacityNat, LimiterAssumption DEF Smaller
  <2>2. CASE k \notin DOMAIN buckets
    BY <2>2, <1>3, CapacityNat, LimiterAssumption DEF Stored, Smaller, Capacity
  <2> QED BY <2>1, <2>2
<1> QED BY <1>1, <1>2, <1>4

-----------------------------------------------------------------------------
(* The attempts let through *)

\* The log of attempts let through is finite, and its next number is fresh.
LogOK ==
  /\ IsFiniteSet(passed)
  /\ \A p \in passed : p.ip \in IP /\ p.at \in 0 .. clock /\ p.n \in 1 .. Cardinality(passed)

Entry(ip) == [ip |-> ip, at |-> clock, n |-> Cardinality(passed) + 1]

\* The entry of an attempt let through is a new one.
LEMMA EntryFresh ==
  ASSUME LogOK, NEW ip \in IP
  PROVE  Entry(ip) \notin passed /\ Cardinality(passed) \in Nat
<1>1. Cardinality(passed) \in Nat
  BY FS_CardinalityType DEF LogOK
<1> QED BY <1>1 DEF LogOK, Entry

\* allow logs an attempt it lets through and leaves the log alone otherwise.
LEMMA AttemptLog ==
  ASSUME NEW ip \in IP, Attempt(ip)
  PROVE  passed' = IF Permits(ip) THEN passed \cup {Entry(ip)} ELSE passed
  BY DEF Attempt, Allow, Entry

\* The log stays well formed.
LEMMA LogStep == TypeOK /\ LogOK /\ [Next]_limiterVars => LogOK'
<1> SUFFICES ASSUME TypeOK, LogOK, [Next]_limiterVars PROVE LogOK'
  OBVIOUS
<1>1. ASSUME NEW ip \in IP, Attempt(ip), Permits(ip) PROVE LogOK'
  <2>1. passed' = passed \cup {Entry(ip)} /\ clock' = clock
    BY <1>1, AttemptLog DEF Attempt
  <2>2. Entry(ip) \notin passed /\ Cardinality(passed) \in Nat
    BY EntryFresh
  <2>3. IsFiniteSet(passed') /\ Cardinality(passed') = Cardinality(passed) + 1
    BY <2>1, <2>2, FS_AddElement DEF LogOK
  <2>4. ASSUME NEW p \in passed' PROVE p.ip \in IP /\ p.at \in 0 .. clock
                                      /\ p.n \in 1 .. Cardinality(passed) + 1
    <3>1. CASE p \in passed
      BY <2>2, <3>1 DEF LogOK
    <3>2. CASE p = Entry(ip)
      BY <2>2, <3>2 DEF Entry, TypeOK
    <3> QED BY <2>1, <3>1, <3>2
  <2> QED BY <2>1, <2>3, <2>4 DEF LogOK
<1>2. CASE passed' = passed /\ clock' \in {clock, clock + 1}
  BY <1>2 DEF LogOK, TypeOK
<1> QED BY <1>1, <1>2, AttemptLog DEF Next, Attempt, Tick, limiterVars

-----------------------------------------------------------------------------
(* Refused attempts do not prolong a lockout *)

\* An address is full, or has at least what time has refilled since some
\* attempt of its own that was let through.
Recovers ==
  \A ip \in IP :
    \/ Level(ip) = Capacity
    \/ \E p \in passed : /\ p.ip = ip
                         /\ Level(ip) >= Smaller(Capacity, (clock - p.at) * PerMinute)

LockInv == TypeOK /\ LogOK /\ (PerMinute > 0 => Recovers)

LEMMA RecoversStep ==
  ASSUME TypeOK, TypeOK', LogOK, PerMinute > 0, Recovers, Next
  PROVE  Recovers'
<1> SUFFICES ASSUME NEW k \in IP
             PROVE  \/ Level(k)' = Capacity
                    \/ \E p \in passed' : /\ p.ip = k
                         /\ Level(k)' >= Smaller(Capacity, (clock' - p.at) * PerMinute)
  BY DEF Recovers, Capacity
<1>1. Level(k) \in 0 .. Capacity
  BY LevelBounds
<1>2. ASSUME NEW ip \in IP, Attempt(ip)
      PROVE  \/ Level(k)' = Capacity
             \/ \E p \in passed' : /\ p.ip = k
                  /\ Level(k)' >= Smaller(Capacity, (clock' - p.at) * PerMinute)
  <2>1. Level(k)' = IF k = ip THEN Remaining(ip) ELSE Level(k)
    BY <1>2, AttemptLevels
  <2>2. passed' = (IF Permits(ip) THEN passed \cup {Entry(ip)} ELSE passed) /\ clock' = clock
    BY <1>2, AttemptLog DEF Attempt
  <2>3. CASE k = ip /\ Permits(ip)
    <3>1. Entry(ip).ip = k /\ clock - Entry(ip).at = 0 /\ Entry(ip) \in passed'
      BY <2>2, <2>3 DEF Entry, TypeOK
    <3>2. Smaller(Capacity, (clock' - Entry(ip).at) * PerMinute) = 0
      BY <2>2, <3>1, LimiterAssumption, CapacityNat DEF Smaller
    <3>3. Level(k)' >= 0
      BY <2>1, <2>3, RemainingBounds, CapacityNat
    <3> QED BY <3>1, <3>2, <3>3
  <2>4. CASE ~(k = ip /\ Permits(ip))
    BY <2>1, <2>2, <2>4 DEF Recovers, Remaining
  <2> QED BY <2>3, <2>4
<1>3. CASE Tick
  <2>1. Level(k)' = Smaller(Capacity, Level(k) + PerMinute)
    BY <1>3, TickLevels
  <2>2. passed' = passed /\ clock' = clock + 1
    BY <1>3 DEF Tick
  <2>3. CASE Level(k) = Capacity
    BY <2>1, <2>3, CapacityNat, LimiterAssumption DEF Smaller
  <2>4. CASE Level(k) # Capacity
    <3>1. PICK p \in passed : /\ p.ip = k
            /\ Level(k) >= Smaller(Capacity, (clock - p.at) * PerMinute)
      BY <2>4 DEF Recovers
    <3> DEFINE d == clock - p.at
    <3>2. d \in Nat /\ (clock + 1) - p.at = d + 1
      BY DEF LogOK, TypeOK
    <3>3. d * PerMinute \in Nat /\ (d + 1) * PerMinute = d * PerMinute + PerMinute
      BY <3>2, RefillType
    <3>4. Level(k) >= Smaller(Capacity, d * PerMinute)
      BY <3>1
    <3> HIDE DEF d
    <3>5. Level(k)' >= Smaller(Capacity, (d + 1) * PerMinute)
      BY <1>1, <2>1, <3>3, <3>4, CapacityNat, LimiterAssumption DEF Smaller
    <3> QED BY <2>2, <3>1, <3>2, <3>5
  <2> QED BY <2>3, <2>4
<1> QED BY <1>2, <1>3 DEF Next

\* Every address recovers from its last success on, in every reachable state.
LEMMA LockInvariant == Spec => []LockInv
<1>1. Init => LockInv
  <2> SUFFICES ASSUME Init PROVE LockInv
    OBVIOUS
  <2>1. TypeOK
    BY DEF Init, NewLimiter, TypeOK
  <2>2. LogOK
    BY FS_EmptySet DEF Init, LogOK
  <2>3. Recovers
    BY <2>1, LevelStored DEF SweepNeutral, Init, NewLimiter, Recovers, Stored
  <2> QED BY <2>1, <2>2, <2>3 DEF LockInv
<1>2. LockInv /\ [Next]_limiterVars => LockInv'
  <2> SUFFICES ASSUME LockInv, [Next]_limiterVars PROVE LockInv'
    OBVIOUS
  <2>1. TypeOK' /\ LogOK'
    BY TypeStep, LogStep DEF LockInv
  <2>2. CASE Next
    BY <2>1, <2>2, RecoversStep DEF LockInv
  <2>3. CASE UNCHANGED limiterVars
    <3>1. (PerMinute > 0 => Recovers)'
      BY <2>3 DEF LockInv, Recovers, Level, Refilled, Capacity, Surviving, SweepDue,
                  IdleTooLong, limiterVars, limiter
    <3> QED BY <2>1, <3>1 DEF LockInv
  <2> QED BY <2>2, <2>3
<1> QED BY <1>1, <1>2, PTL DEF Spec

\* An address locked out is let through again as soon as one token has been
\* refilled since its last success, however often it was refused (allow
\* credits the refill before it looks, and a refusal takes nothing).
THEOREM NeverLockedOut == Spec => []NotLockedOut
<1>1. LockInv => NotLockedOut
  <2> SUFFICES ASSUME LockInv, NEW ip \in IP, PerMinute > 0,
                      \A p \in passed : p.ip = ip => (clock - p.at) * PerMinute >= Minute
               PROVE  Level(ip) >= Minute
    BY LimiterAssumption DEF NotLockedOut, Permits
  <2>1. Level(ip) \in 0 .. Capacity
    BY LevelBounds DEF LockInv
  <2>2. ASSUME NEW p \in passed, p.ip = ip,
               Level(ip) >= Smaller(Capacity, (clock - p.at) * PerMinute)
        PROVE  Level(ip) >= Minute
    <3>1. (clock - p.at) * PerMinute >= Minute
      BY <2>2
    <3>2. (clock - p.at) * PerMinute \in Int
      BY LimiterAssumption DEF LockInv, LogOK, TypeOK
    <3> QED BY <2>1, <2>2, <3>1, <3>2, CapacityNat, LimiterAssumption DEF Smaller
  <2> QED BY <2>1, <2>2, CapacityNat, LimiterAssumption DEF LockInv, Recovers
<1> QED BY <1>1, LockInvariant, PTL

-----------------------------------------------------------------------------
(* No window lets an address through more often than its budget *)

\* What an address got through since t1 and what it has left now were together
\* in its bucket at t1 or refilled since.
WindowLevel ==
  \A ip \in IP : \A t1 \in 0 .. clock :
    PassedIn(ip, t1, clock) * Minute + Level(ip) <= Capacity + (clock - t1) * PerMinute

\* WindowBound, one window at a time.
Bounded(ip, t1, t2) == PassedIn(ip, t1, t2) * Minute <= Capacity + (t2 - t1) * PerMinute
BoundedNow == \A ip \in IP : \A t1 \in 0 .. clock : Bounded(ip, t1, clock)

WindowInv == TypeOK /\ LogOK /\ (PerMinute > 0 => WindowBound /\ WindowLevel)

Window(ip, t1, t2) == {p \in passed : p.ip = ip /\ t1 <= p.at /\ p.at <= t2}

\* The number of attempts in a window is a natural number.
LEMMA WindowType ==
  ASSUME LogOK, NEW ip, NEW t1, NEW t2
  PROVE  IsFiniteSet(Window(ip, t1, t2)) /\ PassedIn(ip, t1, t2) \in Nat
<1>1. IsFiniteSet(Window(ip, t1, t2))
  BY FS_Subset DEF Window, LogOK
<1>2. PassedIn(ip, t1, t2) = Cardinality(Window(ip, t1, t2))
  BY DEF PassedIn, Window
<1> QED BY <1>1, <1>2, FS_CardinalityType

\* An attempt let through counts once, in the windows of its address that
\* reach to now, and in no other.
LEMMA WindowAdds ==
  ASSUME TypeOK, LogOK, NEW ip \in IP, passed' = passed \cup {Entry(ip)},
         NEW k \in IP, NEW t1 \in 0 .. clock, NEW t2 \in 0 .. clock
  PROVE  PassedIn(k, t1, t2)' = IF k = ip /\ t2 = clock THEN PassedIn(k, t1, t2) + 1
                                ELSE PassedIn(k, t1, t2)
<1>1. /\ PassedIn(k, t1, t2) = Cardinality(Window(k, t1, t2))
      /\ PassedIn(k, t1, t2)' = Cardinality(Window(k, t1, t2)')
  BY DEF PassedIn, Window
<1>2. CASE k = ip /\ t2 = clock
  <2>1. Window(k, t1, t2)' = Window(k, t1, t2) \cup {Entry(ip)}
    BY <1>2 DEF Window, Entry, TypeOK
  <2>2. Entry(ip) \notin Window(k, t1, t2)
    BY EntryFresh DEF Window
  <2>3. IsFiniteSet(Window(k, t1, t2))
    BY WindowType
  <2>4. Cardinality(Window(k, t1, t2) \cup {Entry(ip)}) = Cardinality(Window(k, t1, t2)) + 1
    BY <2>2, <2>3, FS_AddElement
  <2> QED BY <1>1, <1>2, <2>1, <2>4
<1>3. CASE ~(k = ip /\ t2 = clock)
  <2>1. ~(Entry(ip).ip = k /\ Entry(ip).at <= t2)
    BY <1>3 DEF Entry, TypeOK
  <2>2. Window(k, t1, t2)' = Window(k, t1, t2)
    BY <2>1 DEF Window
  <2> QED BY <1>1, <1>3, <2>2
<1> QED BY <1>2, <1>3

\* Bounds of a window that ends now, from the budget.
LEMMA LevelBoundsNow == TypeOK /\ LogOK /\ WindowLevel => BoundedNow
<1> SUFFICES ASSUME TypeOK, LogOK, WindowLevel, NEW ip \in IP, NEW t1 \in 0 .. clock
             PROVE  Bounded(ip, t1, clock)
  BY DEF BoundedNow
<1> DEFINE n == PassedIn(ip, t1, clock)
           r == (clock - t1) * PerMinute
<1>1. n \in Nat /\ Level(ip) \in Nat
  BY WindowType, LevelBounds, CapacityNat
<1>2. r \in Nat /\ n * Minute \in Nat
  BY <1>1, LimiterAssumption DEF TypeOK
<1>3. n * Minute + Level(ip) <= Capacity + r
  BY DEF WindowLevel
<1>4. n * Minute <= Capacity + r
  <2> HIDE DEF n, r
  <2> QED BY <1>1, <1>2, <1>3, CapacityNat
<1> QED BY <1>4 DEF Bounded

\* The same after a step.
LEMMA LevelBoundsNext == TypeOK' /\ LogOK' /\ WindowLevel' => BoundedNow'
  BY LevelBoundsNow, PTL

\* An attempt spends from its own budget exactly what it gets through.
LEMMA AttemptWindows ==
  ASSUME TypeOK, TypeOK', LogOK, PerMinute > 0, WindowLevel,
         NEW ip \in IP, Attempt(ip)
  PROVE  WindowLevel'
<1> SUFFICES ASSUME NEW k \in IP, NEW t1 \in 0 .. clock
             PROVE  PassedIn(k, t1, clock)' * Minute + Level(k)'
                      <= Capacity + (clock - t1) * PerMinute
  BY DEF WindowLevel, Attempt, Capacity, PassedIn
<1> DEFINE n == PassedIn(k, t1, clock)
           r == (clock - t1) * PerMinute
<1>1. n \in Nat /\ Level(k) \in Nat
  BY WindowType, LevelBounds, CapacityNat
<1>2. r \in Nat /\ n * Minute \in Nat /\ (n + 1) * Minute = n * Minute + Minute
  BY <1>1, LimiterAssumption DEF TypeOK
<1>3. n * Minute + Level(k) <= Capacity + r
  BY DEF WindowLevel
<1>4. Level(k)' = IF k = ip THEN Remaining(ip) ELSE Level(k)
  BY AttemptLevels
<1>5. clock' = clock /\ clock \in 0 .. clock
  BY DEF Attempt, TypeOK
<1>6. CASE Permits(ip)
  <2>1. PassedIn(k, t1, clock)' = IF k = ip THEN n + 1 ELSE n
    <3>1. passed' = passed \cup {Entry(ip)}
      BY <1>6, AttemptLog
    <3> QED BY <1>5, <3>1, WindowAdds DEF PassedIn
  <2>2. Level(k)' = IF k = ip THEN Level(k) - Minute ELSE Level(k)
    BY <1>4, <1>6 DEF Remaining
  <2>3. (IF k = ip THEN n + 1 ELSE n) * Minute + Level(k)' <= Capacity + r
    <3> HIDE DEF n, r
    <3> QED BY <1>1, <1>2, <1>3, <2>2, CapacityNat, LimiterAssumption
  <2> QED BY <2>1, <2>3
<1>7. CASE ~Permits(ip)
  <2>1. PassedIn(k, t1, clock)' = n
    BY <1>5, <1>7, AttemptLog DEF PassedIn
  <2>2. Level(k)' = Level(k)
    BY <1>4, <1>7 DEF Remaining
  <2> QED BY <1>3, <2>1, <2>2
<1> QED BY <1>6, <1>7

\* A tick refills at most what it adds to the windows that end now.
LEMMA TickWindows ==
  ASSUME TypeOK, TypeOK', LogOK, PerMinute > 0, WindowLevel, Tick
  PROVE  WindowLevel'
<1>1. clock' = clock + 1 /\ passed' = passed
  BY DEF Tick
<1> SUFFICES ASSUME NEW k \in IP, NEW t1 \in 0 .. clock'
             PROVE  PassedIn(k, t1, clock)' * Minute + Level(k)'
                      <= Capacity + (clock' - t1) * PerMinute
  BY DEF WindowLevel, Capacity
<1>2. PassedIn(k, t1, clock)' = PassedIn(k, t1, clock + 1)
  BY <1>1 DEF PassedIn
<1>3. Level(k)' = Smaller(Capacity, Level(k) + PerMinute)
  BY TickLevels
<1>4. Level(k) \in Nat
  BY LevelBounds, CapacityNat
<1>5. CASE t1 = clock + 1
  <2>1. Window(k, t1, clock + 1) = {}
    BY <1>5 DEF Window, LogOK, TypeOK
  <2>2. PassedIn(k, t1, clock + 1) = 0
    BY <2>1, FS_EmptySet DEF PassedIn, Window
  <2>3. (clock' - t1) * PerMinute = 0 /\ 0 * Minute = 0
    BY <1>1, <1>5, LimiterAssumption DEF TypeOK
  <2>4. Level(k)' \in Nat /\ Level(k)' <= Capacity
    BY <1>3, <1>4, CapacityNat, LimiterAssumption DEF Smaller
  <2> QED BY <1>2, <2>2, <2>3, <2>4, CapacityNat
<1>6. CASE t1 \in 0 .. clock
  <2> DEFINE n == PassedIn(k, t1, clock)
             d == clock - t1
  <2>1. PassedIn(k, t1, clock + 1) = n
    <3>1. Window(k, t1, clock + 1) = Window(k, t1, clock)
      BY <1>6 DEF Window, LogOK, TypeOK
    <3> QED BY <3>1 DEF PassedIn, Window
  <2>2. n \in Nat /\ d \in Nat /\ (clock + 1) - t1 = d + 1
    BY <1>6, WindowType DEF TypeOK
  <2>3. n * Minute \in Nat /\ d * PerMinute \in Nat
        /\ (d + 1) * PerMinute = d * PerMinute + PerMinute
    BY <2>2, RefillType, LimiterAssumption
  <2>4. n * Minute + Level(k) <= Capacity + d * PerMinute
    BY <1>6 DEF WindowLevel
  <2>5. n * Minute + Level(k)' <= Capacity + (d + 1) * PerMinute
    <3> HIDE DEF n, d
    <3> QED BY <1>3, <1>4, <2>3, <2>4, CapacityNat, LimiterAssumption DEF Smaller
  <2>6. clock' - t1 = d + 1
    BY <1>1, <2>2
  <2>7. PassedIn(k, t1, clock)' = n
    BY <1>2, <2>1, Zenon
  <2> HIDE DEF n, d
  <2> QED BY <2>5, <2>6, <2>7
<1> QED BY <1>1, <1>5, <1>6 DEF TypeOK

\* Windows that ended before now stay as they are.
LEMMA PastWindows ==
  ASSUME TypeOK, TypeOK', LogOK, LogOK', PerMinute > 0, WindowBound, WindowLevel', Next
  PROVE  WindowBound'
<1> SUFFICES ASSUME NEW k \in IP, NEW t1 \in 0 .. clock', NEW t2 \in 0 .. clock', t1 <= t2
             PROVE  PassedIn(k, t1, t2)' * Minute <= Capacity + (t2 - t1) * PerMinute
  BY DEF WindowBound, Capacity
<1>1. CASE t2 = clock'
  <2>1. BoundedNow'
    BY LevelBoundsNext
  <2>2. PassedIn(k, t1, clock)' * Minute <= Capacity + (clock' - t1) * PerMinute
    BY <2>1 DEF BoundedNow, Bounded, Capacity
  <2>3. PassedIn(k, t1, t2)' = PassedIn(k, t1, clock)'
    BY <1>1 DEF PassedIn
  <2> QED BY <1>1, <2>2, <2>3
<1>2. CASE t2 # clock'
  <2>1. clock' \in {clock, clock + 1} /\ t1 \in 0 .. clock /\ t2 \in 0 .. clock
    BY <1>2 DEF Next, Attempt, Tick, TypeOK
  <2>2. PassedIn(k, t1, t2)' = PassedIn(k, t1, t2)
    <3>1. ASSUME NEW ip \in IP, Attempt(ip), Permits(ip)
          PROVE  PassedIn(k, t1, t2)' = PassedIn(k, t1, t2)
      <4>1. passed' = passed \cup {Entry(ip)} /\ t2 # clock
        BY <3>1, <1>2, AttemptLog DEF Attempt
      <4> QED BY <4>1, <2>1, WindowAdds
    <3>2. CASE passed' = passed
      BY <3>2 DEF PassedIn
    <3> QED BY <3>1, <3>2, AttemptLog DEF Next, Tick
  <2>3. PassedIn(k, t1, t2) * Minute <= Capacity + (t2 - t1) * PerMinute
    BY <2>1 DEF WindowBound
  <2> QED BY <2>2, <2>3
<1> QED BY <1>1, <1>2

\* A new limiter owes nobody anything, whatever the time.
FreshLimiter == clock \in Nat /\ NewLimiter /\ passed = {}

LEMMA NewWindow == FreshLimiter => WindowInv
<1> SUFFICES ASSUME clock \in Nat, NewLimiter, passed = {} PROVE WindowInv
  BY DEF FreshLimiter
<1>1. TypeOK
  BY DEF NewLimiter, TypeOK
<1>2. LogOK
  BY FS_EmptySet DEF LogOK
<1>3. ASSUME NEW ip \in IP, NEW t1 \in 0 .. clock, NEW t2 \in 0 .. clock, t1 <= t2
      PROVE  /\ PassedIn(ip, t1, t2) * Minute = 0
             /\ (t2 - t1) * PerMinute \in Nat
  <2>1. Window(ip, t1, t2) = {}
    BY DEF Window
  <2>2. PassedIn(ip, t1, t2) = 0
    BY <2>1, FS_EmptySet DEF PassedIn, Window
  <2> QED BY <1>3, <2>2, LimiterAssumption
<1>4. WindowLevel
  <2> SUFFICES ASSUME NEW ip \in IP, NEW t1 \in 0 .. clock
               PROVE  PassedIn(ip, t1, clock) * Minute + Level(ip)
                        <= Capacity + (clock - t1) * PerMinute
    BY DEF WindowLevel
  <2>1. PassedIn(ip, t1, clock) * Minute = 0 /\ (clock - t1) * PerMinute \in Nat
    BY <1>3
  <2> QED BY <1>1, <2>1, LevelBounds, CapacityNat
<1>5. WindowBound
  BY <1>3, CapacityNat DEF WindowBound
<1> QED BY <1>1, <1>2, <1>4, <1>5 DEF WindowInv

\* No step of the limiter breaks the budget of a window.
LEMMA WindowStep == WindowInv /\ [Next]_limiterVars => WindowInv'
<1> SUFFICES ASSUME WindowInv, [Next]_limiterVars PROVE WindowInv'
  OBVIOUS
<1>1. TypeOK' /\ LogOK'
  BY TypeStep, LogStep DEF WindowInv
<1>2. CASE Next /\ PerMinute > 0
  <2>1. WindowLevel'
    BY <1>1, <1>2, AttemptWindows, TickWindows DEF WindowInv, Next
  <2>2. WindowBound'
    BY <1>1, <1>2, <2>1, PastWindows DEF WindowInv
  <2> QED BY <1>1, <2>1, <2>2 DEF WindowInv
<1>3. CASE UNCHANGED limiterVars
  <2>1. (PerMinute > 0 => WindowBound /\ WindowLevel)'
    BY <1>3 DEF WindowInv, WindowBound, WindowLevel, PassedIn, Level, Refilled, Capacity,
                Surviving, SweepDue, IdleTooLong, limiterVars, limiter
  <2> QED BY <1>1, <2>1 DEF WindowInv
<1>4. CASE ~(PerMinute > 0)
  BY <1>1, <1>4 DEF WindowInv
<1> QED BY <1>2, <1>3, <1>4

\* In no window does an address get through more often than its burst and the
\* refill of the window allow, whatever other addresses do and whatever is
\* swept meanwhile (allow, sweepLocked).
THEOREM WindowsBounded == Spec => []WindowBound
<1>1. Init => WindowInv
  BY NewWindow DEF Init, FreshLimiter
<1>2. WindowInv => WindowBound
  BY DEF WindowInv, WindowBound
<1> QED BY <1>1, <1>2, WindowStep, PTL DEF Spec

-----------------------------------------------------------------------------
(* The limiter implements the ideal limiter *)

\* Unless the limiter is off, allow with its lazy sweeps is a limiter that
\* keeps every bucket for ever: an attempt let through takes a token of its
\* own address, a tick refills, and everything else changes no level.
THEOREM LimiterImplementsIdeal ==
  ASSUME PerMinute > 0
  PROVE  Spec => ImplementsIdeal
<1>1. Init => Ideal!Init
  <2> SUFFICES ASSUME Init PROVE Ideal!Init
    OBVIOUS
  <2>1. TypeOK
    BY DEF Init, NewLimiter, TypeOK
  <2>2. \A ip \in IP : Level(ip) = Capacity
    BY <2>1, LevelStored DEF Init, NewLimiter, SweepNeutral, Stored
  <2> QED BY <2>2 DEF Init, Ideal!Init, Ideal!Full, Capacity
<1>2. LockInv /\ LockInv' /\ [Next]_limiterVars
        => [Ideal!Next]_<<[ip \in IP |-> Level(ip)], passed>>
  <2> SUFFICES ASSUME LockInv, LockInv', [Next]_limiterVars
               PROVE  [Ideal!Next]_<<[ip \in IP |-> Level(ip)], passed>>
    OBVIOUS
  <2>1. ASSUME NEW ip \in IP, Attempt(ip), Permits(ip) PROVE Ideal!Take(ip)
    <3>1. Level(ip) >= Minute
      BY <2>1, LimiterAssumption DEF Permits
    <3>2. \A k \in IP : Level(k)' = IF k = ip THEN Level(ip) - Minute ELSE Level(k)
      BY <2>1, AttemptLevels DEF LockInv, Remaining
    <3>3. [k \in IP |-> Level(k)]' = [[k \in IP |-> Level(k)] EXCEPT ![ip] = @ - Minute]
      BY <3>2
    <3>4. passed' = passed \cup {Entry(ip)} /\ Entry(ip) \notin passed /\ Entry(ip).ip = ip
      BY <2>1, AttemptLog, EntryFresh DEF LockInv, Entry
    <3>5. \E p \in passed' : passed' = passed \cup {p} /\ p \notin passed /\ p.ip = ip
      BY <3>4
    <3> QED BY <3>1, <3>3, <3>5 DEF Ideal!Take
  <2>2. ASSUME NEW ip \in IP, Attempt(ip), ~Permits(ip)
        PROVE  UNCHANGED <<[k \in IP |-> Level(k)], passed>>
    BY <2>2, AttemptLevels, AttemptLog DEF LockInv, Remaining
  <2>3. CASE Tick
    <3>1. \A k \in IP : Level(k)' = Smaller(Capacity, Level(k) + PerMinute)
      BY <2>3, TickLevels DEF LockInv
    <3>2. passed' = passed
      BY <2>3 DEF Tick
    <3> QED BY <3>1, <3>2 DEF Ideal!Next, Ideal!Refill, Ideal!Least, Ideal!Full, Smaller, Capacity
  <2>4. CASE UNCHANGED limiterVars
    BY <2>4 DEF Level, Refilled, Capacity, Surviving, SweepDue, IdleTooLong, limiterVars, limiter
  <2> QED BY <2>1, <2>2, <2>3, <2>4 DEF Next, Ideal!Next
<1> QED BY <1>1, <1>2, LockInvariant, PTL DEF Spec, ImplementsIdeal, Ideal!Spec
=============================================================================
