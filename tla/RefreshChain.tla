---------------------------- MODULE RefreshChain ----------------------------
(***************************************************************************)
(* What the token service promises about refresh chains, without saying    *)
(* how: an authorization opens a chain once; at any time the chain is in   *)
(* the hands of one handler or embodied by one refresh token; and a chain  *)
(* that is over never comes back.  Any number of chains may end in one     *)
(* step, because a sweep drops all expired tokens at once.                 *)
(*                                                                         *)
(* The step that is missing is the interesting one: a chain in a handler's *)
(* hands does not end because somebody revoked it.                         *)
(***************************************************************************)
CONSTANT Family
VARIABLE chain

State == {"unborn", "held", "live", "over"}

\* A chain nobody works on: it stays as it is, or its token expires.
Rest(f) == \/ chain'[f] = chain[f]
           \/ chain[f] = "live" /\ chain'[f] = "over"

\* Chain f moves from one state to another, the others rest.
Move(f, from, to) ==
  /\ chain[f] = from /\ chain'[f] = to
  /\ \A g \in Family \ {f} : Rest(g)

Open(f)     == Move(f, "unborn", "held")   \* a code is redeemed
HandOut(f)  == Move(f, "held", "live")     \* the next refresh token is stored
Exchange(f) == Move(f, "live", "held")     \* the refresh token is taken

\* Chains end: tokens are revoked or expire, handlers fail, the process stops.
End == \A f \in Family :
         Rest(f) \/ (chain[f] = "held" /\ chain'[f] = "over")

Init == chain = [f \in Family |-> "unborn"]
Next == /\ chain' \in [Family -> State]
        /\ \/ \E f \in Family : Open(f) \/ HandOut(f) \/ Exchange(f)
           \/ End
Spec == Init /\ [][Next]_chain
=============================================================================
