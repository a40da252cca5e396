---------------------------- MODULE RateLimiter ----------------------------
(***************************************************************************)
(* The login limiter of ratelimit.go: a token bucket per client IP, with   *)
(* idle buckets swept lazily.  allow holds the mutex for its whole body    *)
(* and is one step.  Tokens are counted in units of 1/Minute, so that the  *)
(* continuous refill of PerMinute tokens a minute adds PerMinute units per *)
(* tick; the rounding of float64 is not modelled.                          *)
(***************************************************************************)
EXTENDS Integers, FiniteSets

CONSTANTS
  IP,          \* client addresses, the keys of the limiter
  PerMinute,   \* IDP_LOGIN_RATE_LIMIT; 0 disables the limiter
  Minute,      \* ticks of the clock in a minute
  SweepSize,   \* number of buckets from which every call sweeps (1024)
  MaxClock,    \* bound: the clock stops here
  MaxAttempts  \* bound: attempts let through, over all addresses

ASSUME LimiterAssumption ==
  /\ PerMinute \in Nat /\ Minute \in Nat \ {0} /\ SweepSize \in Nat
  /\ MaxClock \in Nat /\ MaxAttempts \in Nat

VARIABLES
  clock,
  buckets,     \* a function whose domain is the set of keys present
  lastSweep,
  passed       \* history: the attempts let through, numbered

limiter == <<buckets, lastSweep>>
limiterVars == <<clock, limiter, passed>>

Bucket == [tokens: Nat, last: Nat]
Capacity == PerMinute * Minute

-----------------------------------------------------------------------------
NewLimiter == buckets = [ip \in {} |-> [tokens |-> 0, last |-> 0]]
              /\ lastSweep = clock

\* Fault: a bucket counts as idle as soon as its last use is in the past.
IdleAtOnce(b) == clock > b.last

\* sweepLocked: which keys survive a call at this moment.
SweepDue ==
  Cardinality(DOMAIN buckets) >= SweepSize \/ clock - lastSweep >= Minute
IdleTooLong(b) == clock - b.last > 2 * Minute
\* Fault: a sweep is recorded and deletes nothing.
SurvivingAll == DOMAIN buckets

Surviving == {ip \in DOMAIN buckets : SweepDue => ~IdleTooLong(buckets[ip])}

\* The bucket of a key as allow finds it after the sweep, refilled.
Smaller(a, b) == IF a <= b THEN a ELSE b
\* Fault: a bucket fills beyond its capacity.
RefilledUncapped(b) == b.tokens + (clock - b.last) * PerMinute

Refilled(b) == Smaller(Capacity, b.tokens + (clock - b.last) * PerMinute)
Level(ip) == IF ip \in Surviving THEN Refilled(buckets[ip]) ELSE Capacity

Permits(ip) == PerMinute = 0 \/ Level(ip) >= Minute

\* Fault: a refused attempt empties the bucket.
RemainingNone(ip) == IF Permits(ip) THEN Level(ip) - Minute ELSE 0

\* What allow leaves in the bucket: a refused attempt costs nothing.
Remaining(ip) == IF Permits(ip) THEN Level(ip) - Minute ELSE Level(ip)

\* allow(ip); its result is Permits(ip).
Allow(ip) ==
  /\ IF PerMinute = 0 THEN UNCHANGED limiter
     ELSE /\ lastSweep' = IF SweepDue THEN clock ELSE lastSweep
          /\ buckets' = [k \in Surviving \cup {ip} |->
               IF k = ip THEN [tokens |-> Remaining(ip), last |-> clock]
               ELSE buckets[k]]
  /\ passed' = passed \cup
       (IF Permits(ip) THEN {[ip |-> ip, at |-> clock,
                              n |-> Cardinality(passed) + 1]} ELSE {})

Attempt(ip) ==
  /\ Cardinality(passed) < MaxAttempts
  /\ Allow(ip)
  /\ UNCHANGED clock

Tick == clock < MaxClock /\ clock' = clock + 1 /\ UNCHANGED <<limiter, passed>>

Init == clock = 0 /\ NewLimiter /\ passed = {}
Next == (\E ip \in IP : Attempt(ip)) \/ Tick
Spec == Init /\ [][Next]_limiterVars

-----------------------------------------------------------------------------
(* Properties *)

\* No bucket exceeds its capacity or lies in the future.
TypeOK ==
  /\ clock \in Nat
  /\ lastSweep \in 0 .. clock
  /\ DOMAIN buckets \subseteq IP
  /\ \A ip \in DOMAIN buckets :
       buckets[ip] \in Bucket /\ buckets[ip].tokens <= Capacity
                              /\ buckets[ip].last <= clock

PassedIn(ip, t1, t2) ==
  Cardinality({p \in passed : p.ip = ip /\ t1 <= p.at /\ p.at <= t2})

\* In every window an address gets through at most its burst plus what the
\* window refills, whatever other addresses do: deleting an idle bucket never
\* hands out a second burst (allow and sweepLocked).
WindowBound ==
  PerMinute > 0 =>
    \A ip \in IP, t1, t2 \in 0 .. clock :
      t1 <= t2 => PassedIn(ip, t1, t2) * Minute <= Capacity + (t2 - t1) * PerMinute

\* Refused attempts do not prolong a lockout: once the time for one token has
\* passed since the last attempt let through, the next attempt is let through
\* however many were refused in between (allow credits the refill first).
NotLockedOut ==
  \A ip \in IP :
    (\A p \in passed : p.ip = ip => (clock - p.at) * PerMinute >= Minute)
      => Permits(ip)

\* No bucket outlives a sweep that finds it idle for two minutes, so the map
\* holds the addresses of recent calls and not every address ever seen
\* (sweepLocked).
IdleSwept ==
  \A ip \in DOMAIN buckets :
    buckets[ip].last >= lastSweep - 2 * Minute
=============================================================================
