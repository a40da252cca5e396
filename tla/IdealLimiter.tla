---------------------------- MODULE IdealLimiter ----------------------------
(***************************************************************************)
(* What the login limiter promises: every address has a bucket of its own, *)
(* full at first, that refills with time and that nothing but the passage  *)
(* of time and the address's own attempts changes.  No memory is reclaimed.*)
(***************************************************************************)
EXTENDS Integers

CONSTANTS IP, PerMinute, Minute

VARIABLES level, passed

Full == PerMinute * Minute
Least(a, b) == IF a <= b THEN a ELSE b

Init == level = [ip \in IP |-> Full] /\ passed = {}

\* One tick refills every bucket.
Refill ==
  /\ level' = [ip \in IP |-> Least(Full, level[ip] + PerMinute)]
  /\ UNCHANGED passed

\* An attempt takes a token and gets through, or finds none.
Take(ip) ==
  /\ level[ip] >= Minute
  /\ level' = [level EXCEPT ![ip] = @ - Minute]
  /\ \E p \in passed' : passed' = passed \cup {p} /\ p \notin passed /\ p.ip = ip

Next == Refill \/ \E ip \in IP : Take(ip)
Spec == Init /\ [][Next]_<<level, passed>>
=============================================================================
