------------------------- MODULE TokenServiceChain -------------------------
(***************************************************************************)
(* The store and the handlers of TokenService implement RefreshChain.  The *)
(* state of a chain is read off the refresh map and the running handlers.  *)
(***************************************************************************)
EXTENDS TokenService

Family == 1 .. MaxDraws

chainState ==
  [f \in Family |->
     IF \E w \in Worker : Holds(w, f) THEN "held"
     ELSE IF \E e \in refresh : e.family = f THEN "live"
     ELSE IF \E g \in grants : g.family = f THEN "over"
     ELSE "unborn"]

Chain == INSTANCE RefreshChain WITH chain <- chainState

\* Every behaviour of the token service, racing exchanges, replays, failed
\* draws, sweeps and restarts included, is a behaviour of RefreshChain: no
\* refresh chain forks, reopens or outlives its end (takeRefresh, addRefresh,
\* revokeFamilyLocked, dropExpired).
ImplementsChain == Chain!Spec
=============================================================================
