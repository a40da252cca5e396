-------------------------- MODULE TokenServiceInv --------------------------
(***************************************************************************)
(* The inductive invariant behind the safety properties of TokenService,   *)
(* in parts that are proved one after the other in TokenServiceProofs.     *)
(***************************************************************************)
EXTENDS TokenService

\* Nothing refers to an id that has not been drawn yet.
FreshInv ==
  /\ boot <= drawn
  /\ \A c \in codes : c.id <= drawn
  /\ \A e \in refresh \cup usedRefresh \cup spent :
       e.id <= drawn /\ e.family <= drawn
  /\ \A a \in accessJTI : a.jti <= drawn
  /\ \A d \in deniedJTI : d.jti <= drawn
  /\ \A w \in Worker : worker[w].family <= drawn /\ worker[w].jti <= drawn
  /\ \A b \in bearer : b.jti <= drawn /\ b.family <= drawn
  /\ \A t \in idTokens : t.sid <= drawn
  /\ \A g \in grants : g.code <= drawn /\ g.family <= drawn
  /\ \A f \in revoked \cup closed : f <= drawn

\* A pending code is told apart by its id and has opened no family.
CodeInv ==
  /\ \A c1, c2 \in codes : c1.id = c2.id => c1 = c2
  /\ \A c \in codes, g \in grants : c.id # g.code
  /\ CodeSingleUse

\* FamilyBinding, and the same for the handlers that carry it on.
BindInv ==
  /\ FamilyBinding
  /\ \A w \in Worker : worker[w].pc \in {"mint", "persist", "mismatch"} =>
       \E g \in grants : /\ g.family = worker[w].family
                         /\ g.client = worker[w].client
                         /\ g.ctx = worker[w].ctx

\* All records of one access token agree on its expiry and its family, and the
\* token of a response not yet written is tracked and in nobody's hands.
Checking(w) == worker[w].pc \in {"verify", "vrevoke", "deny", "active"}
Minted(w)   == worker[w].pc = "persist"
JTIAgree ==
  /\ \A b \in bearer, a \in accessJTI :
       a.jti = b.jti => a.exp = b.exp /\ a.family = b.family
  /\ \A b \in bearer, d \in deniedJTI : d.jti = b.jti => d.exp = b.exp
  /\ \A b1, b2 \in bearer : b1.jti = b2.jti => b1 = b2
JTIChecked ==
  \A w \in Worker : Checking(w) =>
    \E b \in bearer : /\ b.jti = worker[w].jti
                      /\ b.exp = worker[w].exp
                      /\ b.family = worker[w].family
JTIMinted ==
  \A w \in Worker : Minted(w) =>
    /\ \A a \in accessJTI : a.jti = worker[w].jti =>
         a.exp = worker[w].exp /\ a.family = worker[w].family
    /\ \A d \in deniedJTI : d.jti = worker[w].jti => d.exp = worker[w].exp
    /\ \A b \in bearer : b.jti # worker[w].jti
    /\ \A v \in Worker : v # w /\ Minted(v) => worker[v].jti # worker[w].jti
    /\ clock < worker[w].exp =>
         Tracked(worker[w].jti, worker[w].family, worker[w].exp)
JTIInv == JTIAgree /\ JTIChecked /\ JTIMinted /\ LiveTracked

IInv ==
  /\ TypeOK /\ FreshInv /\ CodeInv /\ ChainLinear /\ BindInv /\ JTIInv
  /\ ReplayDetectable /\ ClosedIsFinal
=============================================================================
