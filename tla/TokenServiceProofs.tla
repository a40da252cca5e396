------------------------ MODULE TokenServiceProofs ------------------------
(***************************************************************************)
(* Theorems about TokenService, for any number of goroutines, clients,     *)
(* contexts and draws and any positive access token lifetime.              *)
(***************************************************************************)
EXTENDS TokenServiceInv, TokenServiceChain, TLAPS

\* Denying a set of access tokens (revokeFamilyLocked, denyJTI) leaves a
\* well-formed denylist.
LEMMA DenyType ==
  ASSUME NEW D \in SUBSET Denial, NEW hit,
         \A a \in hit : a.jti \in Nat /\ a.exp \in Nat
  PROVE  Deny(D, hit) \in SUBSET Denial
  BY DEF Deny, Denial

\* revokeFamilyLocked keeps the types of the maps it filters.
LEMMA RevokeType ==
  ASSUME TypeOK, NEW f \in FamilyID,
         NEW R \in SUBSET RefreshEntry, NEW U \in SUBSET RefreshEntry,
         NEW A \in SUBSET JTIRecord, NEW D \in SUBSET Denial,
         RevokeFamilyLocked(f, R, U, A, D)
  PROVE  /\ refresh' \subseteq RefreshEntry /\ usedRefresh' \subseteq RefreshEntry
         /\ accessJTI' \subseteq JTIRecord /\ deniedJTI' \subseteq Denial
         /\ revoked' \subseteq FamilyID /\ closed' \subseteq FamilyID
<1>1. \A a \in LiveOf(f, A) : a.jti \in Nat /\ a.exp \in Nat
  BY DEF LiveOf, JTIRecord
<1>2. Deny(D, LiveOf(f, A)) \in SUBSET Denial
  BY <1>1, DenyType
<1> QED
  BY <1>2 DEF RevokeFamilyLocked, TypeOK

\* Every handler and store method keeps the maps and contexts well formed.
LEMMA TypeStep == TypeOK /\ [Next]_vars => TypeOK'
<1> SUFFICES ASSUME TypeOK, Next PROVE TypeOK'
  <2>1. CASE UNCHANGED vars
    BY <2>1 DEF TypeOK, vars, store, jwts, history, WorkerState
  <2> QED BY <2>1
<1> USE ClientAssumption, BoundAssumption DEF TypeOK, Kept, SweepJTI, SweepOnly, NewID, Draw, Idle, PC,
      AuthCode, RefreshEntry, JTIRecord, Denial, Bearer, IDToken, GrantRecord, WorkerState, store, jwts, history,
      NoFamily, FamilyID
<1>1. ASSUME NEW client \in Client, NEW ctx \in Ctx, NEW redirect \in URI, NEW challenge \in Verifier \cup {NoPKCE},
             CompleteAuthorize(client, ctx, redirect, challenge) PROVE TypeOK'
  BY <1>1 DEF CompleteAuthorize
<1>2. CASE RejectUnknown BY <1>2 DEF RejectUnknown
<1>3. CASE BurnCode BY <1>3 DEF BurnCode, TakeCode
<1>4. CASE ReplayRefresh
  <2> DEFINE R == Kept(refresh)
             U == Kept(usedRefresh)
             A == Kept(accessJTI)
             D == Kept(deniedJTI)
  <2>1. PICK e \in usedRefresh : RevokeFamilyLocked(e.family, R, U \ {e}, A, D)
    BY <1>4 DEF ReplayRefresh
  <2>t. /\ R \in SUBSET RefreshEntry /\ (U \ {e}) \in SUBSET RefreshEntry
        /\ A \in SUBSET JTIRecord /\ D \in SUBSET Denial
    OBVIOUS
  <2> HIDE DEF R, U, A, D
  <2>2. /\ refresh' \subseteq RefreshEntry /\ usedRefresh' \subseteq RefreshEntry
        /\ accessJTI' \subseteq JTIRecord /\ deniedJTI' \subseteq Denial
        /\ revoked' \subseteq FamilyID /\ closed' \subseteq FamilyID
    BY <2>1, <2>t, RevokeType
  <2> QED BY <1>4, <2>2 DEF ReplayRefresh
<1>5. ASSUME NEW client \in Client, HandleClientCredentials(client) PROVE TypeOK'
  BY <1>5 DEF HandleClientCredentials
<1>6. CASE RevokeCode BY <1>6 DEF RevokeCode
<1>7. CASE RevokeOpaque
  <2>1. PICK e \in refresh \cup usedRefresh :
          RevokeFamilyLocked(e.family, refresh \ {e}, usedRefresh,
                             accessJTI, deniedJTI)
    BY <1>7 DEF RevokeOpaque
  <2>2. /\ refresh' \subseteq RefreshEntry /\ usedRefresh' \subseteq RefreshEntry
        /\ accessJTI' \subseteq JTIRecord /\ deniedJTI' \subseteq Denial
        /\ revoked' \subseteq FamilyID /\ closed' \subseteq FamilyID
    BY <2>1, RevokeType
  <2> QED BY <1>7, <2>2 DEF RevokeOpaque
<1>8. CASE EndSession
  <2>1. PICK t \in idTokens :
          RevokeFamilyLocked(t.sid, refresh, usedRefresh, accessJTI, deniedJTI)
    BY <1>8 DEF EndSession
  <2>2. /\ refresh' \subseteq RefreshEntry /\ usedRefresh' \subseteq RefreshEntry
        /\ accessJTI' \subseteq JTIRecord /\ deniedJTI' \subseteq Denial
        /\ revoked' \subseteq FamilyID /\ closed' \subseteq FamilyID
    BY <2>1, RevokeType
  <2> QED BY <1>8, <2>2 DEF EndSession
<1>9. ASSUME NEW w \in Worker, NEW client \in Client, NEW redirect \in URI, NEW verifier \in Verifier \cup {NoPKCE},
             HandleCodeGrant(w, client, redirect, verifier) PROVE TypeOK'
  BY <1>9 DEF HandleCodeGrant, TakeCode
<1>10. ASSUME NEW w \in Worker, NEW client \in Client, HandleRefreshGrant(w, client) PROVE TypeOK'
  BY <1>10 DEF HandleRefreshGrant
<1>11. ASSUME NEW w \in Worker, IssueRegister(w) PROVE TypeOK'
  BY <1>11 DEF IssueRegister
<1>12. ASSUME NEW w \in Worker, IssueRefresh(w) PROVE TypeOK'
  BY <1>12 DEF IssueRefresh
<1>13. ASSUME NEW w \in Worker, IssueFails(w) PROVE TypeOK'
  BY <1>13 DEF IssueFails
<1>14. ASSUME NEW w \in Worker, MismatchRevoke(w) PROVE TypeOK'
  <2>1. /\ refresh' \subseteq RefreshEntry /\ usedRefresh' \subseteq RefreshEntry
        /\ accessJTI' \subseteq JTIRecord /\ deniedJTI' \subseteq Denial
        /\ revoked' \subseteq FamilyID /\ closed' \subseteq FamilyID
    BY <1>14, RevokeType DEF MismatchRevoke
  <2> QED BY <1>14, <2>1 DEF MismatchRevoke
<1>15. ASSUME NEW w \in Worker, NEW purpose \in {"use", "revoke"}, ParseAccess(w, purpose) PROVE TypeOK'
  BY <1>15 DEF ParseAccess
<1>16. ASSUME NEW w \in Worker, CheckDenied(w) PROVE TypeOK'
  BY <1>16 DEF CheckDenied
<1>17. ASSUME NEW w \in Worker, DenyJTI(w) PROVE TypeOK'
  BY <1>17 DEF DenyJTI, Deny
<1>18. ASSUME NEW w \in Worker, Respond(w) PROVE TypeOK'
  BY <1>18 DEF Respond
<1>19. CASE Tick BY <1>19 DEF Tick
<1>20. CASE Restart BY <1>20 DEF Restart
<1> HIDE DEF TypeOK
<1> QED
  BY <1>1, <1>2, <1>3, <1>4, <1>5, <1>6, <1>7, <1>8, <1>9, <1>10, <1>11, <1>12, <1>13,
     <1>14, <1>15, <1>16, <1>17, <1>18, <1>19, <1>20 DEF Next, Token, Inspect

-----------------------------------------------------------------------------
(* What a revocation does, seen from outside revokeFamilyLocked.           *)

\* The jti maps lose nothing that is still in force: a tracked token stays
\* tracked, or is denied until its own expiry, or has expired; a denial stays,
\* or is renewed from the record of the same token, or has expired.
JTIShrink ==
  /\ accessJTI' \subseteq accessJTI
  /\ \A d \in deniedJTI' :
       d \in deniedJTI \/ \E a \in accessJTI : a.jti = d.jti /\ a.exp = d.exp
  /\ \A a \in accessJTI :
       \/ a \in accessJTI'
       \/ clock > a.exp
       \/ \E d \in deniedJTI' : d.jti = a.jti /\ d.exp = a.exp
  /\ \A d \in deniedJTI :
       \/ d \in deniedJTI'
       \/ clock > d.exp
       \/ \E a \in accessJTI, d2 \in deniedJTI' :
            a.jti = d.jti /\ d2.jti = d.jti /\ d2.exp = a.exp

Revocation(f) ==
  /\ refresh' \subseteq refresh /\ usedRefresh' \subseteq usedRefresh
  /\ codes' \subseteq codes
  /\ \A e \in refresh' : e.family # f
  /\ \A e \in usedRefresh : e \in usedRefresh' \/ Expired(e) \/ e.family = f
  /\ JTIShrink
  /\ \A a \in accessJTI : a.family = f /\ clock < a.exp =>
       \E d \in deniedJTI' : d.jti = a.jti /\ d.exp = a.exp
  /\ revoked' = revoked \cup {f}
  /\ closed' = closed \cup (IF InFlight(f) THEN {} ELSE {f})
  /\ UNCHANGED <<clock, drawn, jwts, grants, spent, restarts, boot>>
  /\ \A w \in Worker : \/ worker'[w] = worker[w]
                       \/ worker[w].pc = "mismatch" /\ worker'[w] = Idle

\* dropExpired removes only expired records from the two jti maps.
LEMMA SweepShrinks == TypeOK /\ SweepJTI => JTIShrink
  BY DEF TypeOK, SweepJTI, JTIShrink, Kept, Expired

\* revokeFamilyLocked moves live records to the denylist and adds no others.
LEMMA RevokeShrinks ==
  ASSUME TypeOK, NEW f \in FamilyID, NEW R, NEW U,
         NEW A \in SUBSET accessJTI, NEW D \in SUBSET deniedJTI,
         \A a \in accessJTI \ A : clock > a.exp,
         \A d \in deniedJTI \ D : clock > d.exp,
         RevokeFamilyLocked(f, R, U, A, D)
  PROVE  /\ JTIShrink
         /\ \A a \in accessJTI : a.family = f /\ clock < a.exp =>
              \E d \in deniedJTI' : d.jti = a.jti /\ d.exp = a.exp
<1> DEFINE hit == LiveOf(f, A)
<1>1. accessJTI' = A \ hit /\ deniedJTI' = Deny(D, hit)
  BY DEF RevokeFamilyLocked
<1>2. hit \subseteq A /\ \A a \in A : a.family = f /\ clock < a.exp => a \in hit
  BY DEF LiveOf, InFamily, FamilyID
<1>3. \A a \in accessJTI : a.jti \in Nat /\ a.exp \in Nat
  BY DEF TypeOK, JTIRecord
<1>4. \A a \in hit : [jti |-> a.jti, exp |-> a.exp] \in deniedJTI'
  BY <1>1 DEF Deny
<1>5. \A a \in hit : \E d \in deniedJTI' : d.jti = a.jti /\ d.exp = a.exp
  <2> TAKE a \in hit
  <2>1. [jti |-> a.jti, exp |-> a.exp] \in deniedJTI' BY <1>4
  <2> QED BY <2>1
<1>6. \A d \in D : d \in deniedJTI' \/ \E a \in hit : a.jti = d.jti
  BY <1>1 DEF Deny
<1>7. \A d \in deniedJTI' :
        d \in D \/ \E a \in hit : a.jti = d.jti /\ a.exp = d.exp
  BY <1>1 DEF Deny
<1> HIDE DEF hit
<1>8. \A a \in accessJTI : a.family = f /\ clock < a.exp =>
        \E d \in deniedJTI' : d.jti = a.jti /\ d.exp = a.exp
  <2> SUFFICES ASSUME NEW a \in accessJTI, a.family = f, clock < a.exp
               PROVE  \E d \in deniedJTI' : d.jti = a.jti /\ d.exp = a.exp
    OBVIOUS
  <2>1. a \in A BY <1>3 DEF TypeOK
  <2> QED BY <2>1, <1>2, <1>5
<1>9. \A d \in deniedJTI :
        \/ d \in deniedJTI'
        \/ clock > d.exp
        \/ \E a \in accessJTI, d2 \in deniedJTI' :
             a.jti = d.jti /\ d2.jti = d.jti /\ d2.exp = a.exp
  <2> SUFFICES ASSUME NEW d \in D, d \notin deniedJTI'
               PROVE  \E a \in accessJTI, d2 \in deniedJTI' :
                        a.jti = d.jti /\ d2.jti = d.jti /\ d2.exp = a.exp
    OBVIOUS
  <2>1. PICK a \in hit : a.jti = d.jti BY <1>6
  <2> QED BY <2>1, <1>2, <1>5
<1> QED
  BY <1>1, <1>2, <1>5, <1>7, <1>8, <1>9 DEF JTIShrink


\* The four ways to revoke a family (replay, client mismatch, /revoke of an
\* opaque token, /end_session) have the same effect on the maps.
LEMMA RevocationSteps ==
  ASSUME TypeOK, FreshInv,
         ReplayRefresh \/ RevokeOpaque \/ EndSession
           \/ \E w \in Worker : MismatchRevoke(w)
  PROVE  \E f \in FamilyID : f <= drawn /\ Revocation(f)
<1>1. CASE ReplayRefresh
  <2> DEFINE R == Kept(refresh)
             U == Kept(usedRefresh)
             A == Kept(accessJTI)
             D == Kept(deniedJTI)
  <2>1. PICK e \in usedRefresh : RevokeFamilyLocked(e.family, R, U \ {e}, A, D)
    BY <1>1 DEF ReplayRefresh
  <2>2. e.family \in FamilyID /\ e.family <= drawn
    BY DEF TypeOK, FreshInv, RefreshEntry
  <2>3. /\ A \in SUBSET accessJTI /\ D \in SUBSET deniedJTI
        /\ \A a \in accessJTI \ A : clock > a.exp
        /\ \A d \in deniedJTI \ D : clock > d.exp
    BY DEF Kept, Expired
  <2>4. /\ refresh' = {r \in R : r.family # e.family}
        /\ usedRefresh' = {u \in U \ {e} : u.family # e.family}
        /\ revoked' = revoked \cup {e.family}
        /\ closed' = closed \cup (IF InFlight(e.family) THEN {} ELSE {e.family})
    BY <2>1, <2>2 DEF RevokeFamilyLocked, InFamily, FamilyID
  <2>5. R \subseteq refresh /\ U \subseteq usedRefresh
        /\ \A u \in usedRefresh \ U : Expired(u)
    BY DEF Kept
  <2>6. codes' \subseteq codes
    BY <1>1 DEF ReplayRefresh, Kept
  <2> HIDE DEF R, U, A, D
  <2>7. /\ JTIShrink
        /\ \A a \in accessJTI : a.family = e.family /\ clock < a.exp =>
             \E d \in deniedJTI' : d.jti = a.jti /\ d.exp = a.exp
    BY <2>1, <2>2, <2>3, RevokeShrinks
  <2>8. Revocation(e.family)
    BY <1>1, <2>4, <2>5, <2>6, <2>7 DEF Revocation, ReplayRefresh
  <2> QED BY <2>2, <2>8
<1>2. ASSUME NEW f \in FamilyID, f <= drawn, NEW R \in SUBSET refresh,
             \A r \in refresh \ R : r.family = f,
             RevokeFamilyLocked(f, R, usedRefresh, accessJTI, deniedJTI),
             UNCHANGED <<clock, codes, drawn, jwts, grants, spent, restarts, boot>>,
             \A w \in Worker : \/ worker'[w] = worker[w]
                               \/ worker[w].pc = "mismatch" /\ worker'[w] = Idle
      PROVE  Revocation(f)
  <2>1. /\ refresh' = {r \in R : r.family # f}
        /\ usedRefresh' = {u \in usedRefresh : u.family # f}
        /\ revoked' = revoked \cup {f}
        /\ closed' = closed \cup (IF InFlight(f) THEN {} ELSE {f})
    BY <1>2 DEF RevokeFamilyLocked, InFamily, FamilyID
  <2>2. /\ JTIShrink
        /\ \A a \in accessJTI : a.family = f /\ clock < a.exp =>
             \E d \in deniedJTI' : d.jti = a.jti /\ d.exp = a.exp
    BY <1>2, RevokeShrinks
  <2> QED BY <1>2, <2>1, <2>2 DEF Revocation
<1>3. CASE RevokeOpaque
  <2>1. PICK e \in refresh \cup usedRefresh :
          RevokeFamilyLocked(e.family, refresh \ {e}, usedRefresh,
                             accessJTI, deniedJTI)
    BY <1>3 DEF RevokeOpaque
  <2>2. e.family \in FamilyID /\ e.family <= drawn
    BY DEF TypeOK, FreshInv, RefreshEntry
  <2>3. Revocation(e.family)
    BY <1>2, <1>3, <2>1, <2>2 DEF RevokeOpaque
  <2> QED BY <2>2, <2>3
<1>4. CASE EndSession
  <2>1. PICK t \in idTokens :
          RevokeFamilyLocked(t.sid, refresh, usedRefresh, accessJTI, deniedJTI)
    BY <1>4 DEF EndSession
  <2>2. t.sid \in FamilyID /\ t.sid <= drawn
    BY DEF TypeOK, FreshInv, IDToken
  <2>3. Revocation(t.sid)
    BY <1>2, <1>4, <2>1, <2>2 DEF EndSession
  <2> QED BY <2>2, <2>3
<1>5. ASSUME NEW w \in Worker, MismatchRevoke(w)
      PROVE  \E f \in FamilyID : f <= drawn /\ Revocation(f)
  <2>1. /\ worker[w].pc = "mismatch" /\ worker[w].family \in FamilyID
        /\ worker[w].family <= drawn
    BY <1>5 DEF MismatchRevoke, TypeOK, FreshInv
  <2>2. \A v \in Worker : \/ worker'[v] = worker[v]
                          \/ worker[v].pc = "mismatch" /\ worker'[v] = Idle
    BY <1>5, <2>1 DEF MismatchRevoke, TypeOK
  <2>3. Revocation(worker[w].family)
    BY <1>2, <1>5, <2>1, <2>2 DEF MismatchRevoke
  <2> QED BY <2>1, <2>3
<1> QED BY <1>1, <1>3, <1>4, <1>5


\* A new id is larger than every id in use.
LEMMA FreshStep == TypeOK /\ FreshInv /\ Next => FreshInv'
<1> SUFFICES ASSUME TypeOK, FreshInv, Next PROVE FreshInv'
  OBVIOUS
<1> USE BoundAssumption
    DEF TypeOK, FreshInv, FamilyID, AuthCode, RefreshEntry, JTIRecord, Denial,
        Bearer, IDToken, GrantRecord, WorkerState, Idle, NoFamily, Kept, SweepJTI,
        SweepOnly, NewID, Draw, store, jwts, history
<1>1. ASSUME NEW client \in Client, NEW ctx \in Ctx, NEW redirect \in URI,
             NEW challenge \in Verifier \cup {NoPKCE},
             CompleteAuthorize(client, ctx, redirect, challenge)
      PROVE  FreshInv'
  <2>1. drawn \in Nat /\ drawn' = drawn + 1
    BY <1>1 DEF CompleteAuthorize
  <2>2. \A c \in codes' : c \in codes \/ c.id = drawn'
    BY <1>1 DEF CompleteAuthorize
  <2>3. /\ refresh' \subseteq refresh /\ usedRefresh' \subseteq usedRefresh
        /\ accessJTI' \subseteq accessJTI /\ deniedJTI' \subseteq deniedJTI
        /\ UNCHANGED <<worker, bearer, idTokens, grants, spent, revoked, closed, boot>>
    BY <1>1 DEF CompleteAuthorize
  <2> QED BY <2>1, <2>2, <2>3
<1>2. CASE RejectUnknown BY <1>2 DEF RejectUnknown
<1>3. CASE BurnCode BY <1>3 DEF BurnCode, TakeCode
<1>4. ASSUME NEW client \in Client, HandleClientCredentials(client)
      PROVE  FreshInv'
  BY <1>4 DEF HandleClientCredentials
<1>5. CASE RevokeCode BY <1>5 DEF RevokeCode
<1>6. CASE \/ ReplayRefresh \/ RevokeOpaque \/ EndSession
          \/ \E w \in Worker : MismatchRevoke(w)
  <2>1. PICK f \in FamilyID : f <= drawn /\ Revocation(f)
    BY <1>6, RevocationSteps
  <2> QED BY <2>1 DEF Revocation, JTIShrink
<1>7. ASSUME NEW w \in Worker, NEW client \in Client, NEW redirect \in URI,
             NEW verifier \in Verifier \cup {NoPKCE},
             HandleCodeGrant(w, client, redirect, verifier)
      PROVE  FreshInv'
  BY <1>7 DEF HandleCodeGrant, TakeCode
<1>8. ASSUME NEW w \in Worker, NEW client \in Client,
             HandleRefreshGrant(w, client)
      PROVE  FreshInv'
  BY <1>8 DEF HandleRefreshGrant
<1>9. ASSUME NEW w \in Worker, IssueRegister(w)
      PROVE  FreshInv'
  BY <1>9 DEF IssueRegister
<1>10. ASSUME NEW w \in Worker, IssueRefresh(w)
      PROVE  FreshInv'
  BY <1>10 DEF IssueRefresh
<1>11. ASSUME NEW w \in Worker, IssueFails(w)
      PROVE  FreshInv'
  <2>0. /\ worker' = [worker EXCEPT ![w] = Idle]
        /\ UNCHANGED <<drawn, jwts, history>>
    BY <1>11 DEF IssueFails
  <2>1. CASE UNCHANGED store BY <2>0, <2>1
  <2>2. CASE SweepOnly BY <2>0, <2>2
  <2> QED BY <1>11, <2>1, <2>2 DEF IssueFails
<1>12. ASSUME NEW w \in Worker, NEW purpose \in {"use", "revoke"},
             ParseAccess(w, purpose)
      PROVE  FreshInv'
  BY <1>12 DEF ParseAccess
<1>13. ASSUME NEW w \in Worker, CheckDenied(w)
      PROVE  FreshInv'
  BY <1>13 DEF CheckDenied
<1>14. ASSUME NEW w \in Worker, DenyJTI(w)
      PROVE  FreshInv'
  BY <1>14 DEF DenyJTI, Deny
<1>15. ASSUME NEW w \in Worker, Respond(w)
      PROVE  FreshInv'
  BY <1>15 DEF Respond
<1>16. CASE Tick BY <1>16 DEF Tick
<1>17. CASE Restart BY <1>17 DEF Restart
<1> QED
  BY <1>1, <1>2, <1>3, <1>4, <1>5, <1>6, <1>7, <1>8, <1>9, <1>10, <1>11,
     <1>12, <1>13, <1>14, <1>15, <1>16, <1>17
  DEF Next, Token, Inspect

\* Only takeCode turns a code into a family, and it removes the code.
LEMMA CodeStep == TypeOK /\ FreshInv /\ CodeInv /\ Next => CodeInv'
<1> SUFFICES ASSUME TypeOK, FreshInv, CodeInv, Next PROVE CodeInv'
  OBVIOUS
<1> USE DEF TypeOK, FreshInv, CodeInv, CodeSingleUse, AuthCode, GrantRecord,
        Kept, SweepOnly, NewID, Draw, store, jwts, history
<1>1. ASSUME NEW client \in Client, NEW ctx \in Ctx, NEW redirect \in URI,
             NEW challenge \in Verifier \cup {NoPKCE},
             CompleteAuthorize(client, ctx, redirect, challenge)
      PROVE  CodeInv'
  BY <1>1 DEF CompleteAuthorize
<1>2. CASE RejectUnknown BY <1>2 DEF RejectUnknown
<1>3. CASE BurnCode BY <1>3 DEF BurnCode, TakeCode
<1>4. ASSUME NEW client \in Client, HandleClientCredentials(client)
      PROVE  CodeInv'
  BY <1>4 DEF HandleClientCredentials
<1>5. CASE RevokeCode BY <1>5 DEF RevokeCode
<1>6. CASE \/ ReplayRefresh \/ RevokeOpaque \/ EndSession
          \/ \E w \in Worker : MismatchRevoke(w)
  <2>1. PICK f \in FamilyID : f <= drawn /\ Revocation(f)
    BY <1>6, RevocationSteps
  <2> QED BY <2>1 DEF Revocation
<1>7. ASSUME NEW w \in Worker, NEW client \in Client, NEW redirect \in URI,
             NEW verifier \in Verifier \cup {NoPKCE},
             HandleCodeGrant(w, client, redirect, verifier)
      PROVE  CodeInv'
  BY <1>7 DEF HandleCodeGrant, TakeCode
<1>8. ASSUME NEW w \in Worker, NEW client \in Client,
             HandleRefreshGrant(w, client)
      PROVE  CodeInv'
  BY <1>8 DEF HandleRefreshGrant
<1>9. ASSUME NEW w \in Worker, IssueRegister(w)
      PROVE  CodeInv'
  BY <1>9 DEF IssueRegister
<1>10. ASSUME NEW w \in Worker, IssueRefresh(w)
      PROVE  CodeInv'
  BY <1>10 DEF IssueRefresh
<1>11. ASSUME NEW w \in Worker, IssueFails(w)
      PROVE  CodeInv'
  BY <1>11 DEF IssueFails
<1>12. ASSUME NEW w \in Worker, NEW purpose \in {"use", "revoke"},
             ParseAccess(w, purpose)
      PROVE  CodeInv'
  BY <1>12 DEF ParseAccess
<1>13. ASSUME NEW w \in Worker, CheckDenied(w)
      PROVE  CodeInv'
  BY <1>13 DEF CheckDenied
<1>14. ASSUME NEW w \in Worker, DenyJTI(w)
      PROVE  CodeInv'
  BY <1>14 DEF DenyJTI
<1>15. ASSUME NEW w \in Worker, Respond(w)
      PROVE  CodeInv'
  BY <1>15 DEF Respond
<1>16. CASE Tick BY <1>16 DEF Tick
<1>17. CASE Restart BY <1>17 DEF Restart
<1> QED
  BY <1>1, <1>2, <1>3, <1>4, <1>5, <1>6, <1>7, <1>8, <1>9, <1>10, <1>11,
     <1>12, <1>13, <1>14, <1>15, <1>16, <1>17
  DEF Next, Token, Inspect

\* The right to extend a chain is handed over, never copied.
LEMMA ChainStep == TypeOK /\ FreshInv /\ ChainLinear /\ Next => ChainLinear'
<1> SUFFICES ASSUME TypeOK, FreshInv, ChainLinear, Next PROVE ChainLinear'
  OBVIOUS
<1> USE DEF TypeOK, FreshInv, ChainLinear, Holds, RefreshEntry, WorkerState, Idle,
        Kept, SweepOnly, NewID, Draw, store, jwts, history
<1>1. ASSUME NEW client \in Client, NEW ctx \in Ctx, NEW redirect \in URI,
             NEW challenge \in Verifier \cup {NoPKCE},
             CompleteAuthorize(client, ctx, redirect, challenge)
      PROVE  ChainLinear'
  BY <1>1 DEF CompleteAuthorize
<1>2. CASE RejectUnknown BY <1>2 DEF RejectUnknown
<1>3. CASE BurnCode BY <1>3 DEF BurnCode, TakeCode
<1>4. ASSUME NEW client \in Client, HandleClientCredentials(client)
      PROVE  ChainLinear'
  BY <1>4 DEF HandleClientCredentials
<1>5. CASE RevokeCode BY <1>5 DEF RevokeCode
<1>6. CASE \/ ReplayRefresh \/ RevokeOpaque \/ EndSession
          \/ \E w \in Worker : MismatchRevoke(w)
  <2>1. PICK f \in FamilyID : f <= drawn /\ Revocation(f)
    BY <1>6, RevocationSteps
  <2> QED BY <2>1 DEF Revocation
<1>7. ASSUME NEW w \in Worker, NEW client \in Client, NEW redirect \in URI,
             NEW verifier \in Verifier \cup {NoPKCE},
             HandleCodeGrant(w, client, redirect, verifier)
      PROVE  ChainLinear'
  BY <1>7 DEF HandleCodeGrant, TakeCode
<1>8. ASSUME NEW w \in Worker, NEW client \in Client,
             HandleRefreshGrant(w, client)
      PROVE  ChainLinear'
  BY <1>8 DEF HandleRefreshGrant
<1>9. ASSUME NEW w \in Worker, IssueRegister(w)
      PROVE  ChainLinear'
  BY <1>9 DEF IssueRegister
<1>10. ASSUME NEW w \in Worker, IssueRefresh(w)
      PROVE  ChainLinear'
  BY <1>10 DEF IssueRefresh
<1>11. ASSUME NEW w \in Worker, IssueFails(w)
      PROVE  ChainLinear'
  BY <1>11 DEF IssueFails
<1>12. ASSUME NEW w \in Worker, NEW purpose \in {"use", "revoke"},
             ParseAccess(w, purpose)
      PROVE  ChainLinear'
  BY <1>12 DEF ParseAccess
<1>13. ASSUME NEW w \in Worker, CheckDenied(w)
      PROVE  ChainLinear'
  BY <1>13 DEF CheckDenied
<1>14. ASSUME NEW w \in Worker, DenyJTI(w)
      PROVE  ChainLinear'
  BY <1>14 DEF DenyJTI
<1>15. ASSUME NEW w \in Worker, Respond(w)
      PROVE  ChainLinear'
  BY <1>15 DEF Respond
<1>16. CASE Tick BY <1>16 DEF Tick
<1>17. CASE Restart BY <1>17 DEF Restart
<1> QED
  BY <1>1, <1>2, <1>3, <1>4, <1>5, <1>6, <1>7, <1>8, <1>9, <1>10, <1>11,
     <1>12, <1>13, <1>14, <1>15, <1>16, <1>17
  DEF Next, Token, Inspect

\* What a token speaks for is copied from its predecessor.
LEMMA BindStep == TypeOK /\ FreshInv /\ BindInv /\ Next => BindInv'
<1> SUFFICES ASSUME TypeOK, FreshInv, BindInv, Next PROVE BindInv'
  OBVIOUS
<1> USE DEF TypeOK, FreshInv, BindInv, FamilyBinding, RefreshEntry, WorkerState, Idle,
        Bearer, IDToken, GrantRecord, AuthCode, FamilyID, NoFamily,
        Kept, SweepOnly, NewID, Draw, store, jwts, history
<1>1. ASSUME NEW client \in Client, NEW ctx \in Ctx, NEW redirect \in URI,
             NEW challenge \in Verifier \cup {NoPKCE},
             CompleteAuthorize(client, ctx, redirect, challenge)
      PROVE  BindInv'
  BY <1>1 DEF CompleteAuthorize
<1>2. CASE RejectUnknown BY <1>2 DEF RejectUnknown
<1>3. CASE BurnCode BY <1>3 DEF BurnCode, TakeCode
<1>4. ASSUME NEW client \in Client, HandleClientCredentials(client)
      PROVE  BindInv'
  BY <1>4 DEF HandleClientCredentials
<1>5. CASE RevokeCode BY <1>5 DEF RevokeCode
<1>6. CASE \/ ReplayRefresh \/ RevokeOpaque \/ EndSession
          \/ \E w \in Worker : MismatchRevoke(w)
  <2>1. PICK f \in FamilyID : f <= drawn /\ Revocation(f)
    BY <1>6, RevocationSteps
  <2> QED BY <2>1 DEF Revocation
<1>7. ASSUME NEW w \in Worker, NEW client \in Client, NEW redirect \in URI,
             NEW verifier \in Verifier \cup {NoPKCE},
             HandleCodeGrant(w, client, redirect, verifier)
      PROVE  BindInv'
  <2>1. PICK c \in codes :
          /\ worker' = [worker EXCEPT ![w] =
               [pc |-> "mint", client |-> c.client, ctx |-> c.ctx,
                family |-> NewID, jti |-> 0, exp |-> 0]]
          /\ grants' = grants \cup {[family |-> NewID, code |-> c.id,
                                     client |-> c.client, ctx |-> c.ctx]}
    BY <1>7 DEF HandleCodeGrant
  <2>2. /\ refresh' \subseteq refresh /\ usedRefresh' \subseteq usedRefresh
        /\ bearer' = bearer /\ idTokens' = idTokens /\ grants \subseteq grants'
    BY <1>7, <2>1 DEF HandleCodeGrant, TakeCode
  <2>3. FamilyBinding'
    BY <2>2
  <2>4. ASSUME NEW v \in Worker,
               worker'[v].pc \in {"mint", "persist", "mismatch"}
        PROVE  \E g \in grants' : /\ g.family = worker'[v].family
                                  /\ g.client = worker'[v].client
                                  /\ g.ctx = worker'[v].ctx
    <3>1. CASE v = w
      <4> DEFINE new == [family |-> NewID, code |-> c.id,
                         client |-> c.client, ctx |-> c.ctx]
      <4>1. new \in grants' BY <2>1
      <4> QED BY <2>1, <3>1, <4>1
    <3>2. CASE v # w BY <2>1, <2>2, <2>4, <3>2
    <3> QED BY <3>1, <3>2
  <2> QED BY <2>3, <2>4
<1>8. ASSUME NEW w \in Worker, NEW client \in Client,
             HandleRefreshGrant(w, client)
      PROVE  BindInv'
  BY <1>8 DEF HandleRefreshGrant
<1>9. ASSUME NEW w \in Worker, IssueRegister(w)
      PROVE  BindInv'
  BY <1>9 DEF IssueRegister
<1>10. ASSUME NEW w \in Worker, IssueRefresh(w)
      PROVE  BindInv'
  <2> DEFINE s == worker[w]
  <2>1. PICK g \in grants :
          g.family = s.family /\ g.client = s.client /\ g.ctx = s.ctx
    BY <1>10 DEF IssueRefresh
  <2>2. /\ grants' = grants
        /\ worker' = [worker EXCEPT ![w] = Idle]
        /\ usedRefresh' \subseteq usedRefresh
        /\ \A e \in refresh' : e \in refresh \/
             (e.client = s.client /\ e.ctx = s.ctx /\ e.family = s.family)
        /\ \A b \in bearer' : b \in bearer \/
             (b.client = s.client /\ b.ctx = s.ctx /\ b.family = s.family)
        /\ \A t \in idTokens' : t \in idTokens \/
             (t.client = s.client /\ t.sid = s.family)
    BY <1>10 DEF IssueRefresh
  <2> HIDE DEF s
  <2>3. FamilyBinding'
    BY <2>1, <2>2
  <2> QED BY <2>2, <2>3
<1>11. ASSUME NEW w \in Worker, IssueFails(w)
      PROVE  BindInv'
  BY <1>11 DEF IssueFails
<1>12. ASSUME NEW w \in Worker, NEW purpose \in {"use", "revoke"},
             ParseAccess(w, purpose)
      PROVE  BindInv'
  BY <1>12 DEF ParseAccess
<1>13. ASSUME NEW w \in Worker, CheckDenied(w)
      PROVE  BindInv'
  BY <1>13 DEF CheckDenied
<1>14. ASSUME NEW w \in Worker, DenyJTI(w)
      PROVE  BindInv'
  BY <1>14 DEF DenyJTI
<1>15. ASSUME NEW w \in Worker, Respond(w)
      PROVE  BindInv'
  BY <1>15 DEF Respond
<1>16. CASE Tick BY <1>16 DEF Tick
<1>17. CASE Restart BY <1>17 DEF Restart
<1> QED
  BY <1>1, <1>2, <1>3, <1>4, <1>5, <1>6, <1>7, <1>8, <1>9, <1>10, <1>11,
     <1>12, <1>13, <1>14, <1>15, <1>16, <1>17
  DEF Next, Token, Inspect

\* usedRefresh only forgets what has expired or been revoked.
LEMMA ReplayStep == TypeOK /\ FreshInv /\ ReplayDetectable /\ Next => ReplayDetectable'
<1> SUFFICES ASSUME TypeOK, FreshInv, ReplayDetectable, Next PROVE ReplayDetectable'
  OBVIOUS
<1> USE DEF TypeOK, FreshInv, ReplayDetectable, RefreshEntry, Expired,
        Kept, SweepOnly, NewID, Draw, store, jwts, history
<1>1. ASSUME NEW client \in Client, NEW ctx \in Ctx, NEW redirect \in URI,
             NEW challenge \in Verifier \cup {NoPKCE},
             CompleteAuthorize(client, ctx, redirect, challenge)
      PROVE  ReplayDetectable'
  BY <1>1 DEF CompleteAuthorize
<1>2. CASE RejectUnknown BY <1>2 DEF RejectUnknown
<1>3. CASE BurnCode BY <1>3 DEF BurnCode, TakeCode
<1>4. ASSUME NEW client \in Client, HandleClientCredentials(client)
      PROVE  ReplayDetectable'
  BY <1>4 DEF HandleClientCredentials
<1>5. CASE RevokeCode BY <1>5 DEF RevokeCode
<1>6. CASE \/ ReplayRefresh \/ RevokeOpaque \/ EndSession
          \/ \E w \in Worker : MismatchRevoke(w)
  <2>1. PICK f \in FamilyID : f <= drawn /\ Revocation(f)
    BY <1>6, RevocationSteps
  <2> QED BY <2>1 DEF Revocation
<1>7. ASSUME NEW w \in Worker, NEW client \in Client, NEW redirect \in URI,
             NEW verifier \in Verifier \cup {NoPKCE},
             HandleCodeGrant(w, client, redirect, verifier)
      PROVE  ReplayDetectable'
  BY <1>7 DEF HandleCodeGrant, TakeCode
<1>8. ASSUME NEW w \in Worker, NEW client \in Client,
             HandleRefreshGrant(w, client)
      PROVE  ReplayDetectable'
  BY <1>8 DEF HandleRefreshGrant
<1>9. ASSUME NEW w \in Worker, IssueRegister(w)
      PROVE  ReplayDetectable'
  BY <1>9 DEF IssueRegister
<1>10. ASSUME NEW w \in Worker, IssueRefresh(w)
      PROVE  ReplayDetectable'
  BY <1>10 DEF IssueRefresh
<1>11. ASSUME NEW w \in Worker, IssueFails(w)
      PROVE  ReplayDetectable'
  BY <1>11 DEF IssueFails
<1>12. ASSUME NEW w \in Worker, NEW purpose \in {"use", "revoke"},
             ParseAccess(w, purpose)
      PROVE  ReplayDetectable'
  BY <1>12 DEF ParseAccess
<1>13. ASSUME NEW w \in Worker, CheckDenied(w)
      PROVE  ReplayDetectable'
  BY <1>13 DEF CheckDenied
<1>14. ASSUME NEW w \in Worker, DenyJTI(w)
      PROVE  ReplayDetectable'
  BY <1>14 DEF DenyJTI
<1>15. ASSUME NEW w \in Worker, Respond(w)
      PROVE  ReplayDetectable'
  BY <1>15 DEF Respond
<1>16. CASE Tick BY <1>16 DEF Tick
<1>17. CASE Restart BY <1>17 DEF Restart
<1> QED
  BY <1>1, <1>2, <1>3, <1>4, <1>5, <1>6, <1>7, <1>8, <1>9, <1>10, <1>11,
     <1>12, <1>13, <1>14, <1>15, <1>16, <1>17
  DEF Next, Token, Inspect

-----------------------------------------------------------------------------
(* The records of an access token agree, and none is lost before expiry.   *)

\* Steps that mint nothing, deliver nothing and leave the clock alone.
LEMMA JTIFrame ==
  ASSUME TypeOK, JTIInv, JTIShrink,
         UNCHANGED <<clock, bearer, boot>>,
         \A w \in Worker :
           \/ worker'[w] = worker[w]
           \/ worker'[w].pc \in {"idle", "mint", "mismatch"}
           \/ /\ Checking(w) /\ Checking(w)'
              /\ worker'[w].jti = worker[w].jti
              /\ worker'[w].exp = worker[w].exp
              /\ worker'[w].family = worker[w].family
  PROVE  JTIInv'
<1> USE DEF TypeOK, JTIRecord, Denial, Bearer, WorkerState,
            JTIAgree, JTIChecked, JTIMinted
<1>1. /\ \A a \in accessJTI' : a \in accessJTI
      /\ \A d \in deniedJTI' :
           d \in deniedJTI \/ \E a \in accessJTI : a.jti = d.jti /\ a.exp = d.exp
  BY DEF JTIShrink
<1>2. ASSUME NEW j, NEW f, NEW exp \in Nat, Tracked(j, f, exp), clock < exp,
             \A a \in accessJTI : a.jti = j => a.exp = exp
      PROVE  Tracked(j, f, exp)'
  BY <1>2 DEF Tracked, JTIShrink
<1>3. \A b \in bearer, a \in accessJTI' :
        a.jti = b.jti => a.exp = b.exp /\ a.family = b.family
  BY <1>1 DEF JTIInv
<1>4. \A b \in bearer, d \in deniedJTI' : d.jti = b.jti => d.exp = b.exp
  BY <1>1 DEF JTIInv
<1>5. \A w \in Worker : Checking(w)' =>
        \E b \in bearer : /\ b.jti = worker'[w].jti
                          /\ b.exp = worker'[w].exp
                          /\ b.family = worker'[w].family
  BY DEF JTIInv, Checking
<1>6. \A w \in Worker : Minted(w)' => Minted(w) /\ worker'[w] = worker[w]
  BY DEF Minted, Checking
<1>7. ASSUME NEW w \in Worker, Minted(w)'
      PROVE  /\ \A a \in accessJTI' : a.jti = worker'[w].jti =>
                  a.exp = worker'[w].exp /\ a.family = worker'[w].family
             /\ \A d \in deniedJTI' : d.jti = worker'[w].jti =>
                  d.exp = worker'[w].exp
             /\ \A b \in bearer : b.jti # worker'[w].jti
             /\ \A v \in Worker : v # w /\ Minted(v)' =>
                  worker'[v].jti # worker'[w].jti
             /\ clock < worker'[w].exp =>
                  Tracked(worker[w].jti, worker[w].family, worker[w].exp)'
  <2>1. Minted(w) /\ worker'[w] = worker[w] BY <1>6, <1>7
  <2>2. clock < worker[w].exp =>
          Tracked(worker[w].jti, worker[w].family, worker[w].exp)'
    BY <1>2, <2>1 DEF JTIInv
  <2> QED BY <1>1, <1>6, <2>1, <2>2 DEF JTIInv
<1>8. LiveTracked'
  <2> SUFFICES ASSUME NEW b \in bearer, b.jti > boot, clock < b.exp
               PROVE  Tracked(b.jti, b.family, b.exp)'
    BY DEF LiveTracked, Tracked
  <2>1. Tracked(b.jti, b.family, b.exp) BY DEF JTIInv, LiveTracked
  <2> QED BY <1>2, <2>1 DEF JTIInv
<1>9. \A w \in Worker : Minted(w)' /\ clock < worker'[w].exp =>
        /\ Tracked(worker[w].jti, worker[w].family, worker[w].exp)'
        /\ worker'[w] = worker[w]
  BY <1>6, <1>7
<1> QED
  BY <1>3, <1>4, <1>5, <1>6, <1>7, <1>8, <1>9 DEF JTIInv, Tracked

\* Every action keeps the records of an access token together.
LEMMA JTIStep == TypeOK /\ FreshInv /\ JTIInv /\ Next => JTIInv'
<1> SUFFICES ASSUME TypeOK, FreshInv, JTIInv, Next PROVE JTIInv'
  OBVIOUS
<1> USE BoundAssumption
    DEF TypeOK, JTIRecord, Denial, Bearer, WorkerState, Idle,
        SweepOnly, NewID, Draw, store, jwts, history
<1>1. ASSUME NEW client \in Client, NEW ctx \in Ctx, NEW redirect \in URI,
             NEW challenge \in Verifier \cup {NoPKCE},
             CompleteAuthorize(client, ctx, redirect, challenge)
      PROVE  JTIInv'
  <2>1. JTIShrink
    BY <1>1, SweepShrinks DEF CompleteAuthorize
  <2> QED BY <1>1, <2>1, JTIFrame DEF CompleteAuthorize
<1>2. CASE RejectUnknown
  <2>1. JTIShrink
    BY <1>2, SweepShrinks DEF RejectUnknown
  <2> QED BY <1>2, <2>1, JTIFrame DEF RejectUnknown
<1>3. CASE BurnCode
  <2>1. JTIShrink
    BY <1>3, SweepShrinks DEF BurnCode, TakeCode
  <2> QED BY <1>3, <2>1, JTIFrame DEF BurnCode, TakeCode
<1>4. ASSUME NEW client \in Client, HandleClientCredentials(client)
      PROVE  JTIInv'
  <2> DEFINE a0 == [jti |-> NewID, family |-> NoFamily,
                    exp |-> clock + AccessTTL]
             b0 == [jti |-> NewID, client |-> client, ctx |-> NoCtx,
                    family |-> NoFamily, exp |-> clock + AccessTTL]
  <2>1. /\ accessJTI' = accessJTI \cup {a0} /\ bearer' = bearer \cup {b0}
        /\ UNCHANGED <<clock, deniedJTI, worker, boot>>
    BY <1>4 DEF HandleClientCredentials
  <2>2. /\ a0.jti = NewID /\ b0.jti = NewID /\ a0.exp = b0.exp
        /\ a0.family = b0.family
    OBVIOUS
  <2>3. /\ \A a \in accessJTI : a.jti # NewID
        /\ \A d \in deniedJTI : d.jti # NewID
        /\ \A b \in bearer : b.jti # NewID
        /\ \A w \in Worker : worker[w].jti # NewID
    BY DEF FreshInv
  <2> HIDE DEF a0, b0, NewID
  <2>4. JTIAgree' BY <2>1, <2>2, <2>3 DEF JTIInv, JTIAgree
  <2>5. JTIChecked' BY <2>1 DEF JTIInv, JTIChecked, Checking
  <2>6. \A j, f, exp : Tracked(j, f, exp) => Tracked(j, f, exp)'
    BY <2>1 DEF Tracked
  <2>7. JTIMinted' BY <2>1, <2>2, <2>3, <2>6 DEF JTIInv, JTIMinted, Minted
  <2>8. LiveTracked' BY <2>1, <2>2, <2>6 DEF JTIInv, LiveTracked, Tracked
  <2> QED BY <2>4, <2>5, <2>7, <2>8 DEF JTIInv
<1>5. CASE RevokeCode
  <2>1. JTIShrink
    BY <1>5 DEF RevokeCode, JTIShrink
  <2> QED BY <1>5, <2>1, JTIFrame DEF RevokeCode
<1>6. CASE \/ ReplayRefresh \/ RevokeOpaque \/ EndSession
          \/ \E w \in Worker : MismatchRevoke(w)
  <2>1. PICK f \in FamilyID : f <= drawn /\ Revocation(f)
    BY <1>6, RevocationSteps
  <2>2. \A w \in Worker : \/ worker'[w] = worker[w]
                          \/ worker'[w].pc \in {"idle", "mint", "mismatch"}
    BY <2>1 DEF Revocation
  <2> QED BY <2>1, <2>2, JTIFrame DEF Revocation
<1>7. ASSUME NEW w \in Worker, NEW client \in Client, NEW redirect \in URI,
             NEW verifier \in Verifier \cup {NoPKCE},
             HandleCodeGrant(w, client, redirect, verifier)
      PROVE  JTIInv'
  <2>1. JTIShrink
    BY <1>7, SweepShrinks DEF HandleCodeGrant, TakeCode
  <2> QED BY <1>7, <2>1, JTIFrame DEF HandleCodeGrant, TakeCode
<1>8. ASSUME NEW w \in Worker, NEW client \in Client,
             HandleRefreshGrant(w, client)
      PROVE  JTIInv'
  <2>1. JTIShrink
    BY <1>8, SweepShrinks DEF HandleRefreshGrant
  <2> QED BY <1>8, <2>1, JTIFrame DEF HandleRefreshGrant
<1>9. ASSUME NEW w \in Worker, IssueRegister(w)
      PROVE  JTIInv'
  <2> DEFINE a0 == [jti |-> NewID, family |-> worker[w].family,
                    exp |-> clock + AccessTTL]
  <2>1. /\ accessJTI' = accessJTI \cup {a0}
        /\ UNCHANGED <<clock, deniedJTI, bearer, boot>>
        /\ \A v \in Worker \ {w} : worker'[v] = worker[v]
        /\ Minted(w)' /\ ~Checking(w)'
        /\ worker'[w].jti = NewID /\ worker'[w].exp = clock + AccessTTL
        /\ worker'[w].family = worker[w].family
    BY <1>9 DEF IssueRegister, Minted, Checking
  <2>2. /\ a0.jti = NewID /\ a0.exp = clock + AccessTTL
        /\ a0.family = worker[w].family
    OBVIOUS
  <2>3. /\ \A a \in accessJTI : a.jti # NewID
        /\ \A d \in deniedJTI : d.jti # NewID
        /\ \A b \in bearer : b.jti # NewID
        /\ \A v \in Worker : worker[v].jti # NewID
    BY DEF FreshInv
  <2> HIDE DEF a0, NewID
  <2>4. JTIAgree' BY <2>1, <2>2, <2>3 DEF JTIInv, JTIAgree
  <2>5. JTIChecked' BY <2>1 DEF JTIInv, JTIChecked, Checking
  <2>6. \A j, f, exp : Tracked(j, f, exp) => Tracked(j, f, exp)'
    BY <2>1 DEF Tracked
  <2>7. Tracked(worker[w].jti, worker[w].family, worker[w].exp)'
    BY <2>1, <2>2 DEF Tracked
  <2>8. ASSUME NEW v \in Worker, Minted(v)'
        PROVE  /\ \A a \in accessJTI' : a.jti = worker'[v].jti =>
                    a.exp = worker'[v].exp /\ a.family = worker'[v].family
               /\ \A d \in deniedJTI' : d.jti = worker'[v].jti =>
                    d.exp = worker'[v].exp
               /\ \A b \in bearer' : b.jti # worker'[v].jti
               /\ \A u \in Worker : u # v /\ Minted(u)' =>
                    worker'[u].jti # worker'[v].jti
               /\ clock < worker'[v].exp =>
                    Tracked(worker[v].jti, worker[v].family, worker[v].exp)'
    <3>1. CASE v = w
      <4>1. \A a \in accessJTI' : a.jti = NewID => a = a0
        BY <2>1, <2>3
      <4>2. \A u \in Worker : u # w => worker'[u].jti # NewID
        BY <2>1, <2>3
      <4> QED BY <2>1, <2>2, <2>3, <2>7, <3>1, <4>1, <4>2
    <3>2. CASE v # w
      <4>1. Minted(v) /\ worker'[v] = worker[v]
        BY <2>1, <2>8, <3>2 DEF Minted
      <4>2. \A a \in accessJTI' : a.jti = worker[v].jti => a \in accessJTI
        BY <2>1, <2>2, <2>3
      <4>3. \A u \in Worker : u # v /\ Minted(u)' => worker'[u].jti # worker[v].jti
        BY <2>1, <2>3, <4>1 DEF JTIInv, JTIMinted, Minted
      <4>4. clock < worker[v].exp =>
              Tracked(worker[v].jti, worker[v].family, worker[v].exp)'
        BY <2>6, <4>1 DEF JTIInv, JTIMinted
      <4> QED BY <2>1, <4>1, <4>2, <4>3, <4>4 DEF JTIInv, JTIMinted
    <3> QED BY <3>1, <3>2
  <2>9. JTIMinted' BY <2>1, <2>8 DEF JTIMinted, Tracked
  <2>10. LiveTracked'
    BY <2>1, <2>6 DEF JTIInv, LiveTracked, Tracked
  <2> QED BY <2>4, <2>5, <2>9, <2>10 DEF JTIInv
<1>10. ASSUME NEW w \in Worker, IssueRefresh(w)
      PROVE  JTIInv'
  <2> DEFINE s == worker[w]
             b0 == [jti |-> s.jti, client |-> s.client, ctx |-> s.ctx,
                    family |-> s.family, exp |-> s.exp]
  <2>1. /\ bearer' = bearer \cup {b0} /\ UNCHANGED <<clock, boot>>
        /\ \A v \in Worker : v # w => worker'[v] = worker[v]
        /\ worker'[w].pc = "idle" /\ Minted(w)
        /\ accessJTI' = Kept(accessJTI) /\ deniedJTI' = Kept(deniedJTI)
    BY <1>10 DEF IssueRefresh, SweepJTI, Minted
  <2>2. b0.jti = s.jti /\ b0.exp = s.exp /\ b0.family = s.family
    OBVIOUS
  <2>3. /\ accessJTI' \subseteq accessJTI /\ deniedJTI' \subseteq deniedJTI
        /\ \A a \in accessJTI : clock < a.exp => a \in accessJTI'
        /\ \A d \in deniedJTI : clock < d.exp => d \in deniedJTI'
    BY <2>1 DEF Kept, Expired
  <2> HIDE DEF s, b0
  <2>4. /\ \A a \in accessJTI : a.jti = s.jti => a.exp = s.exp /\ a.family = s.family
        /\ \A d \in deniedJTI : d.jti = s.jti => d.exp = s.exp
        /\ \A b \in bearer : b.jti # s.jti
        /\ \A v \in Worker : v # w /\ Minted(v) => worker[v].jti # s.jti
        /\ clock < s.exp => Tracked(s.jti, s.family, s.exp)
    BY <2>1 DEF JTIInv, JTIMinted, s
  <2>5. JTIAgree' BY <2>1, <2>2, <2>3, <2>4 DEF JTIInv, JTIAgree
  <2>6. JTIChecked' BY <2>1 DEF JTIInv, JTIChecked, Checking
  <2>7. \A j, f, exp : Tracked(j, f, exp) /\ clock < exp => Tracked(j, f, exp)'
    BY <2>3 DEF Tracked
  <2>8. ASSUME NEW v \in Worker, Minted(v)'
        PROVE  v # w /\ Minted(v) /\ worker'[v] = worker[v]
    BY <2>1, <2>8 DEF Minted
  <2>9. JTIMinted'
    BY <2>1, <2>2, <2>3, <2>4, <2>7, <2>8 DEF JTIInv, JTIMinted
  <2>10. LiveTracked'
    <3> SUFFICES ASSUME NEW b \in bearer', b.jti > boot, clock < b.exp
                 PROVE  Tracked(b.jti, b.family, b.exp)'
      BY <2>1 DEF LiveTracked, Tracked
    <3>1. Tracked(b.jti, b.family, b.exp)
      BY <2>1, <2>2, <2>4 DEF JTIInv, LiveTracked
    <3> QED BY <2>7, <3>1
  <2> QED BY <2>5, <2>6, <2>9, <2>10 DEF JTIInv
<1>11. ASSUME NEW w \in Worker, IssueFails(w)
      PROVE  JTIInv'
  <2>0. /\ worker' = [worker EXCEPT ![w] = Idle]
        /\ UNCHANGED <<clock, jwts, history>>
    BY <1>11 DEF IssueFails
  <2>1. JTIShrink
    <3>1. CASE UNCHANGED store BY <3>1 DEF JTIShrink
    <3>2. CASE SweepOnly BY <3>2, SweepShrinks
    <3> QED BY <1>11, <3>1, <3>2 DEF IssueFails
  <2> QED BY <2>0, <2>1, JTIFrame
<1>12. ASSUME NEW w \in Worker, NEW purpose \in {"use", "revoke"},
             ParseAccess(w, purpose)
      PROVE  JTIInv'
  BY <1>12 DEF ParseAccess, JTIInv, JTIAgree, JTIChecked, JTIMinted,
         FreshInv, LiveTracked, Tracked, Checking, Minted
<1>13. ASSUME NEW w \in Worker, CheckDenied(w)
      PROVE  JTIInv'
  <2>1. JTIShrink
    BY <1>13 DEF CheckDenied, JTIShrink
  <2>2. \A v \in Worker :
          \/ worker'[v] = worker[v]
          \/ worker'[v].pc = "idle"
          \/ /\ Checking(v) /\ Checking(v)'
             /\ worker'[v].jti = worker[v].jti
             /\ worker'[v].exp = worker[v].exp
             /\ worker'[v].family = worker[v].family
    BY <1>13 DEF CheckDenied, Checking
  <2> QED BY <1>13, <2>1, <2>2, JTIFrame DEF CheckDenied
<1>14. ASSUME NEW w \in Worker, DenyJTI(w)
      PROVE  JTIInv'
  <2> DEFINE d0 == [jti |-> worker[w].jti, exp |-> worker[w].exp]
  <2>1. PICK b \in bearer : b.jti = worker[w].jti /\ b.exp = worker[w].exp
    BY <1>14 DEF DenyJTI, JTIInv, JTIChecked, Checking
  <2>2. /\ UNCHANGED <<clock, accessJTI, bearer, boot>>
        /\ \A v \in Worker : v # w => worker'[v] = worker[v]
        /\ worker'[w].pc = "idle"
        /\ deniedJTI' = {d \in deniedJTI : worker[w].jti # d.jti} \cup {d0}
    BY <1>14 DEF DenyJTI, Deny
  <2>d. d0.jti = b.jti /\ d0.exp = b.exp
    BY <2>1
  <2> HIDE DEF d0
  <2>3. /\ \A d \in deniedJTI' : d \in deniedJTI \/ (d.jti = b.jti /\ d.exp = b.exp)
        /\ \A d \in deniedJTI : d \in deniedJTI' \/ d.jti = b.jti
        /\ \E d \in deniedJTI' : d.jti = b.jti /\ d.exp = b.exp
    BY <2>1, <2>2, <2>d
  <2>4. JTIAgree' BY <2>2, <2>3 DEF JTIInv, JTIAgree
  <2>5. JTIChecked' BY <2>2 DEF JTIInv, JTIChecked, Checking
  <2>6. \A j, f, exp : Tracked(j, f, exp) /\ j # b.jti => Tracked(j, f, exp)'
    BY <2>2, <2>3 DEF Tracked
  <2>7. ASSUME NEW v \in Worker, Minted(v)'
        PROVE  v # w /\ Minted(v) /\ worker'[v] = worker[v] /\ worker[v].jti # b.jti
    BY <2>2, <2>7 DEF JTIInv, JTIMinted, Minted
  <2>8. JTIMinted'
    BY <2>2, <2>3, <2>6, <2>7 DEF JTIInv, JTIMinted
  <2>9. LiveTracked'
    <3> SUFFICES ASSUME NEW c \in bearer, c.jti > boot, clock < c.exp
                 PROVE  Tracked(c.jti, c.family, c.exp)'
      BY <2>2 DEF LiveTracked, Tracked
    <3>1. CASE c.jti = b.jti
      BY <2>3, <3>1 DEF JTIInv, JTIAgree, Tracked
    <3>2. CASE c.jti # b.jti
      BY <2>6, <3>2 DEF JTIInv, LiveTracked
    <3> QED BY <3>1, <3>2
  <2> QED BY <2>4, <2>5, <2>8, <2>9 DEF JTIInv
<1>15. ASSUME NEW w \in Worker, Respond(w)
      PROVE  JTIInv'
  <2>1. JTIShrink
    BY <1>15 DEF Respond, JTIShrink
  <2> QED BY <1>15, <2>1, JTIFrame DEF Respond
<1>16. CASE Tick
  <2>1. /\ UNCHANGED <<accessJTI, deniedJTI, bearer, worker, boot>>
        /\ clock' = clock + 1
    BY <1>16 DEF Tick
  <2> QED
    BY <2>1 DEF JTIInv, JTIAgree, JTIChecked, JTIMinted, LiveTracked, Tracked,
                Checking, Minted
<1>17. CASE Restart
  <2>1. /\ accessJTI' = {} /\ deniedJTI' = {} /\ bearer' \subseteq bearer
        /\ boot' = drawn /\ drawn' = drawn
        /\ \A v \in Worker : worker'[v].pc = "idle"
    BY <1>17 DEF Restart
  <2>2. LiveTracked'
    BY <2>1 DEF LiveTracked, FreshInv
  <2> QED
    BY <2>1, <2>2 DEF JTIInv, JTIAgree, JTIChecked, JTIMinted, Checking, Minted
<1> QED
  BY <1>1, <1>2, <1>3, <1>4, <1>5, <1>6, <1>7, <1>8, <1>9, <1>10, <1>11,
     <1>12, <1>13, <1>14, <1>15, <1>16, <1>17
  DEF Next, Token, Inspect

-----------------------------------------------------------------------------
(* A closed family stays closed. *)

\* A denial survives sweeps and revocations until the token expires.
LEMMA DeniedFrame ==
  ASSUME TypeOK, JTIInv, JTIShrink, UNCHANGED clock,
         NEW b \in bearer, IsDenied(b.jti)
  PROVE  IsDenied(b.jti)'
<1>1. PICK d \in deniedJTI : d.jti = b.jti /\ clock < d.exp
  BY DEF IsDenied
<1>2. d.exp = b.exp /\ \A a \in accessJTI : a.jti = b.jti => a.exp = b.exp
  BY <1>1 DEF JTIInv, JTIAgree
<1>3. ~(clock > d.exp)
  BY <1>1 DEF TypeOK, Denial
<1>4. \E d2 \in deniedJTI' : d2.jti = b.jti /\ clock < d2.exp
  BY <1>1, <1>2, <1>3 DEF JTIShrink
<1> QED BY <1>4 DEF IsDenied

\* Whatever a step does short of a restart, a denied token that is still
\* unexpired afterwards is still denied.
LEMMA DenialStep ==
  ASSUME TypeOK, FreshInv, JTIInv, Next, restarts' = restarts,
         NEW b \in bearer, IsDenied(b.jti), clock' < b.exp
  PROVE  IsDenied(b.jti)'
<1> USE DEF TypeOK, Denial, Bearer, SweepOnly, store, jwts, history
<1>1. ASSUME NEW client \in Client, NEW ctx \in Ctx, NEW redirect \in URI,
             NEW challenge \in Verifier \cup {NoPKCE},
             CompleteAuthorize(client, ctx, redirect, challenge)
      PROVE  IsDenied(b.jti)'
  <2>1. JTIShrink BY <1>1, SweepShrinks DEF CompleteAuthorize
  <2> QED BY <1>1, <2>1, DeniedFrame DEF CompleteAuthorize
<1>2. CASE RejectUnknown
  <2>1. JTIShrink BY <1>2, SweepShrinks DEF RejectUnknown
  <2> QED BY <1>2, <2>1, DeniedFrame DEF RejectUnknown
<1>3. CASE BurnCode
  <2>1. JTIShrink BY <1>3, SweepShrinks DEF BurnCode, TakeCode
  <2> QED BY <1>3, <2>1, DeniedFrame DEF BurnCode, TakeCode
<1>4. ASSUME NEW client \in Client, HandleClientCredentials(client)
      PROVE  IsDenied(b.jti)'
  BY <1>4 DEF HandleClientCredentials, IsDenied
<1>5. CASE RevokeCode
  BY <1>5 DEF RevokeCode, IsDenied
<1>6. CASE \/ ReplayRefresh \/ RevokeOpaque \/ EndSession
          \/ \E w \in Worker : MismatchRevoke(w)
  <2>1. PICK f \in FamilyID : f <= drawn /\ Revocation(f)
    BY <1>6, RevocationSteps
  <2> QED BY <2>1, DeniedFrame DEF Revocation
<1>7. ASSUME NEW w \in Worker, NEW client \in Client, NEW redirect \in URI,
             NEW verifier \in Verifier \cup {NoPKCE},
             HandleCodeGrant(w, client, redirect, verifier)
      PROVE  IsDenied(b.jti)'
  <2>1. JTIShrink BY <1>7, SweepShrinks DEF HandleCodeGrant, TakeCode
  <2> QED BY <1>7, <2>1, DeniedFrame DEF HandleCodeGrant, TakeCode
<1>8. ASSUME NEW w \in Worker, NEW client \in Client,
             HandleRefreshGrant(w, client)
      PROVE  IsDenied(b.jti)'
  <2>1. JTIShrink BY <1>8, SweepShrinks DEF HandleRefreshGrant
  <2> QED BY <1>8, <2>1, DeniedFrame DEF HandleRefreshGrant
<1>9. ASSUME NEW w \in Worker, IssueRegister(w)
      PROVE  IsDenied(b.jti)'
  BY <1>9 DEF IssueRegister, IsDenied
<1>10. ASSUME NEW w \in Worker, IssueRefresh(w)
      PROVE  IsDenied(b.jti)'
  <2>1. JTIShrink BY <1>10, SweepShrinks DEF IssueRefresh
  <2> QED BY <1>10, <2>1, DeniedFrame DEF IssueRefresh
<1>11. ASSUME NEW w \in Worker, IssueFails(w)
      PROVE  IsDenied(b.jti)'
  <2>1. JTIShrink
    <3>1. CASE UNCHANGED store BY <3>1 DEF JTIShrink
    <3>2. CASE SweepOnly BY <3>2, SweepShrinks
    <3> QED BY <1>11, <3>1, <3>2 DEF IssueFails
  <2> QED BY <1>11, <2>1, DeniedFrame DEF IssueFails
<1>12. ASSUME NEW w \in Worker, NEW purpose \in {"use", "revoke"},
             ParseAccess(w, purpose)
      PROVE  IsDenied(b.jti)'
  BY <1>12 DEF ParseAccess, IsDenied
<1>13. ASSUME NEW w \in Worker, CheckDenied(w)
      PROVE  IsDenied(b.jti)'
  BY <1>13 DEF CheckDenied, IsDenied
<1>14. ASSUME NEW w \in Worker, DenyJTI(w)
      PROVE  IsDenied(b.jti)'
  <2> DEFINE d0 == [jti |-> worker[w].jti, exp |-> worker[w].exp]
  <2>1. PICK c \in bearer : c.jti = worker[w].jti /\ c.exp = worker[w].exp
    BY <1>14 DEF DenyJTI, JTIInv, JTIChecked, Checking
  <2>2. /\ clock' = clock
        /\ deniedJTI' = {d \in deniedJTI : worker[w].jti # d.jti} \cup {d0}
    BY <1>14 DEF DenyJTI, Deny
  <2>3. PICK d \in deniedJTI : d.jti = b.jti /\ clock < d.exp
    BY DEF IsDenied
  <2>4. CASE b.jti # worker[w].jti
    BY <2>2, <2>3, <2>4 DEF IsDenied
  <2>5. CASE b.jti = worker[w].jti
    <3>1. c = b BY <2>1, <2>5 DEF JTIInv, JTIAgree
    <3>2. d0 \in deniedJTI' /\ d0.jti = b.jti /\ d0.exp = b.exp
      BY <2>1, <2>2, <2>5, <3>1
    <3> HIDE DEF d0
    <3> QED BY <2>2, <3>2 DEF IsDenied
  <2> QED BY <2>4, <2>5
<1>15. ASSUME NEW w \in Worker, Respond(w)
      PROVE  IsDenied(b.jti)'
  BY <1>15 DEF Respond, IsDenied
<1>16. CASE Tick
  <2>1. PICK d \in deniedJTI : d.jti = b.jti /\ clock < d.exp
    BY DEF IsDenied
  <2>2. d.exp = b.exp BY <2>1 DEF JTIInv, JTIAgree
  <2> QED BY <1>16, <2>1, <2>2 DEF Tick, IsDenied
<1>17. CASE Restart
  BY <1>17 DEF Restart
<1> QED
  BY <1>1, <1>2, <1>3, <1>4, <1>5, <1>6, <1>7, <1>8, <1>9, <1>10, <1>11,
     <1>12, <1>13, <1>14, <1>15, <1>16, <1>17
  DEF Next, Token, Inspect

\* No refresh token of f and no handler that could create one.
Quiet(f) == (\A e \in refresh : e.family # f) /\ ~InFlight(f)

\* Once a known family is quiet it stays quiet.
LEMMA QuietStep ==
  ASSUME TypeOK, FreshInv, Next, NEW f \in FamilyID, f <= drawn, Quiet(f)
  PROVE  Quiet(f)'
<1> USE DEF TypeOK, RefreshEntry, WorkerState, FamilyID, Idle, SweepOnly, NewID,
            Draw, store, jwts, history, Quiet, InFlight, Issuing
<1>1. ASSUME NEW client \in Client, NEW ctx \in Ctx, NEW redirect \in URI,
             NEW challenge \in Verifier \cup {NoPKCE},
             CompleteAuthorize(client, ctx, redirect, challenge)
      PROVE  Quiet(f)'
  BY <1>1 DEF CompleteAuthorize, Kept
<1>2. CASE RejectUnknown BY <1>2 DEF RejectUnknown, Kept
<1>3. CASE BurnCode BY <1>3 DEF BurnCode, TakeCode, Kept
<1>4. ASSUME NEW client \in Client, HandleClientCredentials(client)
      PROVE  Quiet(f)'
  BY <1>4 DEF HandleClientCredentials
<1>5. CASE RevokeCode BY <1>5 DEF RevokeCode
<1>6. CASE \/ ReplayRefresh \/ RevokeOpaque \/ EndSession
          \/ \E w \in Worker : MismatchRevoke(w)
  <2>1. PICK h \in FamilyID : h <= drawn /\ Revocation(h)
    BY <1>6, RevocationSteps
  <2>2. \A v \in Worker : worker'[v] = worker[v] \/ worker'[v].pc = "idle"
    BY <2>1 DEF Revocation
  <2> QED BY <2>1, <2>2 DEF Revocation
<1>7. ASSUME NEW w \in Worker, NEW client \in Client, NEW redirect \in URI,
             NEW verifier \in Verifier \cup {NoPKCE},
             HandleCodeGrant(w, client, redirect, verifier)
      PROVE  Quiet(f)'
  <2>1. /\ refresh' \subseteq refresh
        /\ \A v \in Worker : worker'[v] = worker[v] \/ worker'[v].family = NewID
    BY <1>7 DEF HandleCodeGrant, TakeCode, Kept
  <2>2. f # NewID
    BY DEF FreshInv
  <2> QED BY <2>1, <2>2
<1>8. ASSUME NEW w \in Worker, NEW client \in Client,
             HandleRefreshGrant(w, client)
      PROVE  Quiet(f)'
  <2>1. PICK e \in refresh :
          /\ refresh' \subseteq refresh
          /\ \A v \in Worker : worker'[v] = worker[v] \/ worker'[v].family = e.family
    BY <1>8 DEF HandleRefreshGrant, Kept
  <2> QED BY <2>1
<1>9. ASSUME NEW w \in Worker, IssueRegister(w)
      PROVE  Quiet(f)'
  BY <1>9 DEF IssueRegister
<1>10. ASSUME NEW w \in Worker, IssueRefresh(w)
      PROVE  Quiet(f)'
  <2>1. /\ \A e \in refresh' : e \in refresh \/ e.family = worker[w].family
        /\ \A v \in Worker : worker'[v] = worker[v] \/ worker'[v].pc = "idle"
    BY <1>10 DEF IssueRefresh, Kept
  <2>2. worker[w].family # f
    BY <1>10 DEF IssueRefresh
  <2> QED BY <2>1, <2>2
<1>11. ASSUME NEW w \in Worker, IssueFails(w)
      PROVE  Quiet(f)'
  <2>1. /\ refresh' \subseteq refresh
        /\ \A v \in Worker : worker'[v] = worker[v] \/ worker'[v].pc = "idle"
    BY <1>11 DEF IssueFails, Kept
  <2> QED BY <2>1
<1>12. ASSUME NEW w \in Worker, NEW purpose \in {"use", "revoke"},
             ParseAccess(w, purpose)
      PROVE  Quiet(f)'
  BY <1>12 DEF ParseAccess
<1>13. ASSUME NEW w \in Worker, CheckDenied(w)
      PROVE  Quiet(f)'
  BY <1>13 DEF CheckDenied
<1>14. ASSUME NEW w \in Worker, DenyJTI(w)
      PROVE  Quiet(f)'
  BY <1>14 DEF DenyJTI
<1>15. ASSUME NEW w \in Worker, Respond(w)
      PROVE  Quiet(f)'
  BY <1>15 DEF Respond
<1>16. CASE Tick BY <1>16 DEF Tick
<1>17. CASE Restart BY <1>17 DEF Restart
<1> QED
  BY <1>1, <1>2, <1>3, <1>4, <1>5, <1>6, <1>7, <1>8, <1>9, <1>10, <1>11,
     <1>12, <1>13, <1>14, <1>15, <1>16, <1>17
  DEF Next, Token, Inspect

\* A closed family stays final, and a revocation that meets no issuance makes
\* its family final: every live token of it is tracked, so it gets denied.
LEMMA ClosedStep ==
  TypeOK /\ FreshInv /\ JTIInv /\ ClosedIsFinal /\ Next => ClosedIsFinal'
<1> SUFFICES ASSUME TypeOK, FreshInv, JTIInv, ClosedIsFinal, Next,
                    NEW f \in closed'
             PROVE  /\ Quiet(f)'
                    /\ \A b \in bearer' :
                         b.family = f /\ b.jti > boot' /\ clock' < b.exp
                           => IsDenied(b.jti)'
  BY DEF ClosedIsFinal, Quiet, InFlight, IsDenied, Issuing
<1>1. CASE f \in closed
  <2>1. f \in FamilyID /\ f <= drawn /\ Quiet(f)
    BY <1>1 DEF TypeOK, FreshInv, ClosedIsFinal, Quiet
  <2>2. Quiet(f)' BY <2>1, QuietStep
  <2>3. ASSUME NEW b \in bearer', b.family = f, b.jti > boot', clock' < b.exp
        PROVE  IsDenied(b.jti)'
    <3>1. CASE Restart
      BY <3>1, <2>3 DEF Restart, FreshInv, TypeOK, Bearer
    <3>2. CASE ~Restart
      <4>1. restarts' = restarts /\ boot' = boot
        BY <3>2 DEF Next, Token, Inspect, CompleteAuthorize, RejectUnknown,
             BurnCode, ReplayRefresh, HandleClientCredentials, RevokeCode,
             RevokeOpaque, EndSession, HandleCodeGrant, HandleRefreshGrant,
             IssueRegister, IssueRefresh, IssueFails, MismatchRevoke,
             ParseAccess, CheckDenied, DenyJTI, Respond, Tick, history
      <4>2. clock' = clock \/ clock' = clock + 1
        BY DEF Next, Token, Inspect, CompleteAuthorize, RejectUnknown,
             BurnCode, ReplayRefresh, HandleClientCredentials, RevokeCode,
             RevokeOpaque, EndSession, HandleCodeGrant, HandleRefreshGrant,
             IssueRegister, IssueRefresh, IssueFails, MismatchRevoke,
             ParseAccess, CheckDenied, DenyJTI, Respond, Tick, Restart
      <4>3. b \in bearer
        <5>1. \/ bearer' \subseteq bearer
              \/ \E client \in Client : HandleClientCredentials(client)
              \/ \E w \in Worker : IssueRefresh(w)
          BY DEF Next, Token, Inspect, CompleteAuthorize, RejectUnknown,
               BurnCode, ReplayRefresh, RevokeCode,
               RevokeOpaque, EndSession, HandleCodeGrant, HandleRefreshGrant,
               IssueRegister, IssueFails, MismatchRevoke,
               ParseAccess, CheckDenied, DenyJTI, Respond, Tick, Restart, jwts
        <5>2. ASSUME NEW client \in Client, HandleClientCredentials(client),
                     b \notin bearer
              PROVE  FALSE
          BY <5>2, <2>1, <2>3 DEF HandleClientCredentials, FamilyID
        <5>3. ASSUME NEW w \in Worker, IssueRefresh(w), b \notin bearer
              PROVE  FALSE
          BY <5>3, <2>1, <2>3 DEF IssueRefresh, Quiet, InFlight, Issuing
        <5> QED BY <5>1, <5>2, <5>3
      <4>4. b.exp \in Nat /\ clock \in Nat /\ clock' \in Nat
        BY <4>3, TypeStep DEF TypeOK, Bearer
      <4>5. IsDenied(b.jti)
        BY <1>1, <2>3, <4>1, <4>2, <4>3, <4>4 DEF ClosedIsFinal
      <4> QED BY <2>3, <4>1, <4>3, <4>5, DenialStep
    <3> QED BY <3>1, <3>2
  <2> QED BY <2>2, <2>3
<1>2. CASE f \notin closed
  <2>1. \/ ReplayRefresh \/ RevokeOpaque \/ EndSession
        \/ \E w \in Worker : MismatchRevoke(w)
    BY <1>2 DEF Next, Token, Inspect, CompleteAuthorize, RejectUnknown,
         BurnCode, HandleClientCredentials, RevokeCode, HandleCodeGrant,
         HandleRefreshGrant, IssueRegister, IssueRefresh, IssueFails,
         ParseAccess, CheckDenied, DenyJTI, Respond, Tick, Restart, history
  <2>2. PICK h \in FamilyID : h <= drawn /\ Revocation(h)
    BY <2>1, RevocationSteps
  <2>3. h = f /\ ~InFlight(f)
    BY <1>2, <2>2 DEF Revocation
  <2>4. Quiet(f)'
    BY <2>2, <2>3 DEF Revocation, Quiet, InFlight, Issuing, Idle
  <2>5. ASSUME NEW b \in bearer, b.family = f, b.jti > boot, clock < b.exp
        PROVE  IsDenied(b.jti)'
    <3>1. Tracked(b.jti, b.family, b.exp)
      BY <2>5 DEF JTIInv, LiveTracked
    <3>2. CASE \E a \in accessJTI :
                 a.jti = b.jti /\ a.family = b.family /\ a.exp = b.exp
      BY <2>2, <2>3, <2>5, <3>2 DEF Revocation, IsDenied
    <3>3. CASE \E d \in deniedJTI : d.jti = b.jti /\ d.exp = b.exp
      <4>1. IsDenied(b.jti) BY <2>5, <3>3 DEF IsDenied
      <4> QED BY <2>2, <4>1, DeniedFrame DEF Revocation
    <3> QED BY <3>1, <3>2, <3>3 DEF Tracked
  <2> QED BY <2>2, <2>4, <2>5 DEF Revocation, jwts
<1> QED BY <1>1, <1>2

-----------------------------------------------------------------------------
(* The invariant and the theorems. *)

\* The empty store of newStore satisfies the invariant.
LEMMA InvInit == Init => IInv
<1> SUFFICES ASSUME Init PROVE IInv
  OBVIOUS
<1> USE BoundAssumption DEF Init, Idle
<1>1. TypeOK
  BY DEF TypeOK, WorkerState, PC, NoFamily
<1>2. FreshInv
  BY DEF FreshInv, NoFamily
<1>3. CodeInv /\ ChainLinear /\ BindInv
  BY DEF CodeInv, CodeSingleUse, ChainLinear, Holds, BindInv, FamilyBinding
<1>4. JTIInv /\ ReplayDetectable /\ ClosedIsFinal
  BY DEF JTIInv, JTIAgree, JTIChecked, JTIMinted, Checking, Minted,
         LiveTracked, ReplayDetectable, ClosedIsFinal
<1> QED BY <1>1, <1>2, <1>3, <1>4 DEF IInv

\* The invariant speaks of the variables only.
LEMMA InvStutter == IInv /\ UNCHANGED vars => IInv'
  BY DEF IInv, TypeOK, FreshInv, CodeInv, CodeSingleUse, ChainLinear, Holds,
         BindInv, FamilyBinding, JTIInv, JTIAgree, JTIChecked, JTIMinted,
         Checking, Minted, LiveTracked, Tracked, ReplayDetectable,
         ClosedIsFinal, InFlight, Issuing, IsDenied,
         vars, store, jwts, history

\* Every handler step preserves the invariant, part by part.
LEMMA InvStep == IInv /\ [Next]_vars => IInv'
  BY TypeStep, FreshStep, CodeStep, ChainStep, BindStep, ReplayStep, JTIStep,
     ClosedStep, InvStutter DEF IInv

\* IInv is an inductive invariant of the token service.
THEOREM Invariance == Spec => []IInv
  BY InvInit, InvStep, PTL DEF Spec

\* The store's maps and the handlers' contexts stay well formed.
THEOREM TypeCorrect == Spec => []TypeOK
<1>1. IInv => TypeOK BY DEF IInv
<1> QED BY <1>1, Invariance, PTL

\* However many requests race for it, an authorization code is redeemed once
\* (takeCode), and a family has one code behind it.
THEOREM CodesRedeemedOnce == Spec => []CodeSingleUse
<1>1. IInv => CodeSingleUse BY DEF IInv, CodeInv
<1> QED BY <1>1, Invariance, PTL

\* Refresh chains never fork (takeRefresh, issueTokens).
THEOREM ChainsNeverFork == Spec => []ChainLinear
<1>1. IInv => ChainLinear BY DEF IInv
<1> QED BY <1>1, Invariance, PTL

\* Tokens keep speaking for the client and context of their authorization.
THEOREM TokensStayBound == Spec => []FamilyBinding
<1>1. IInv => FamilyBinding BY DEF IInv, BindInv
<1> QED BY <1>1, Invariance, PTL

\* Every live access token is within reach of a revocation (registerJTI).
THEOREM LiveTokensTracked == Spec => []LiveTracked
<1>1. IInv => LiveTracked BY DEF IInv, JTIInv
<1> QED BY <1>1, Invariance, PTL

\* A replayed refresh token is recognised as long as it could have been used
\* (usedRefresh in takeRefresh).
THEOREM ReplaysDetected == Spec => []ReplayDetectable
<1>1. IInv => ReplayDetectable BY DEF IInv
<1> QED BY <1>1, Invariance, PTL

\* A revocation that met no issuance in flight is final (revokeFamilyLocked).
THEOREM RevocationFinal == Spec => []ClosedIsFinal
<1>1. IInv => ClosedIsFinal BY DEF IInv
<1> QED BY <1>1, Invariance, PTL

\* Denials last until the token expires (denyJTI, dropExpired).
THEOREM DenialsStick == Spec => DenialSticks
<1> DEFINE A == \A b \in bearer :
                  (IsDenied(b.jti) /\ clock' < b.exp /\ restarts' = restarts)
                    => IsDenied(b.jti)'
<1>1. IInv /\ [Next]_vars => [A]_vars
  <2> SUFFICES ASSUME IInv, Next PROVE A
    OBVIOUS
  <2> SUFFICES ASSUME NEW b \in bearer, IsDenied(b.jti), clock' < b.exp,
                      restarts' = restarts
               PROVE  IsDenied(b.jti)'
    OBVIOUS
  <2> QED BY DenialStep DEF IInv
<1> QED BY <1>1, Invariance, PTL DEF Spec, DenialSticks

\* /introspect and /userinfo do not vouch for a closed family
\* (parseAccessToken).
THEOREM ClosedNeverAnswered == Spec => NoAnswerForClosed
<1> DEFINE A == \A w \in Worker :
                  (worker[w].pc = "verify" /\ worker'[w].pc = "active")
                    => \/ worker[w].family \notin closed
                       \/ worker[w].jti <= boot
                       \/ clock >= worker[w].exp
<1>1. IInv /\ [Next]_vars => [A]_vars
  <2> SUFFICES ASSUME IInv, Next, NEW w \in Worker,
                      worker[w].pc = "verify", worker'[w].pc = "active",
                      worker[w].family \in closed,
                      ~(worker[w].jti <= boot), ~(clock >= worker[w].exp)
               PROVE  FALSE
    OBVIOUS
  <2>1. PICK b \in bearer : /\ b.jti = worker[w].jti
                            /\ b.exp = worker[w].exp
                            /\ b.family = worker[w].family
    BY DEF IInv, JTIInv, JTIChecked, Checking
  <2>2. b.jti > boot /\ clock < b.exp
    BY <2>1 DEF IInv, TypeOK, Bearer
  <2>3. IsDenied(worker[w].jti)
    BY <2>1, <2>2 DEF IInv, ClosedIsFinal
  <2>4. worker \in [Worker -> WorkerState]
    BY DEF IInv, TypeOK
  <2>5. PICK v \in Worker : Token(v) \/ Inspect(v)
    <3>1. worker' # worker
      OBVIOUS
    <3>2. ~Restart
      BY DEF Restart, Idle
    <3>3. ASSUME NEW client \in Client, NEW ctx \in Ctx, NEW redirect \in URI,
                 NEW challenge \in Verifier \cup {NoPKCE}
          PROVE  ~CompleteAuthorize(client, ctx, redirect, challenge)
      BY <3>1 DEF CompleteAuthorize
    <3>4. ~(\/ RejectUnknown \/ BurnCode \/ ReplayRefresh \/ RevokeCode
            \/ RevokeOpaque \/ EndSession \/ Tick)
      BY <3>1 DEF RejectUnknown, BurnCode, ReplayRefresh, RevokeCode,
             RevokeOpaque, EndSession, Tick
    <3>5. \A client \in Client : ~HandleClientCredentials(client)
      BY <3>1 DEF HandleClientCredentials
    <3> QED BY <3>2, <3>3, <3>4, <3>5 DEF Next
  <2>6. CASE Token(v)
    BY <2>4, <2>6 DEF Token, HandleCodeGrant, HandleRefreshGrant, IssueRegister,
           IssueRefresh, IssueFails, MismatchRevoke, Idle
  <2>7. CASE Inspect(v)
    BY <2>3, <2>4, <2>7 DEF Inspect, ParseAccess, CheckDenied, DenyJTI, Respond,
           Idle
  <2> QED BY <2>5, <2>6, <2>7
<1> QED BY <1>1, Invariance, PTL DEF Spec, NoAnswerForClosed

-----------------------------------------------------------------------------
(* The token service implements RefreshChain *)

Held(f) == \E w \in Worker : Holds(w, f)
Live(f) == \E e \in refresh : e.family = f
Born(f) == \E g \in grants : g.family = f

\* The state of a chain in terms of who has it.
LEMMA ChainStates ==
  ASSUME NEW f \in Family
  PROVE  chainState[f] = IF Held(f) THEN "held" ELSE IF Live(f) THEN "live"
                         ELSE IF Born(f) THEN "over" ELSE "unborn"
  BY DEF chainState, Held, Live, Born

LEMMA ChainStatesNext ==
  ASSUME NEW f \in Family
  PROVE  chainState'[f] = IF Held(f)' THEN "held" ELSE IF Live(f)' THEN "live"
                          ELSE IF Born(f)' THEN "over" ELSE "unborn"
  BY DEF chainState, Held, Live, Born

\* A chain is with one handler or one token, and once born stays born.
LEMMA OneHolder ==
  ASSUME IInv, NEW f
  PROVE  /\ ~(Held(f) /\ Live(f))
         /\ Held(f) \/ Live(f) => Born(f)
<1>1. ~(Held(f) /\ Live(f))
  BY DEF IInv, ChainLinear, Held, Live
<1>2. Held(f) => Born(f)
  BY DEF IInv, BindInv, Held, Born, Holds
<1>3. Live(f) => Born(f)
  BY DEF IInv, BindInv, FamilyBinding, Live, Born
<1> QED BY <1>1, <1>2, <1>3

\* Nobody gets hold of chain f and it gets no new token.
Unclaimed(f) ==
  /\ Held(f)' => Held(f)
  /\ Live(f)' => Live(f)
  /\ Born(f)' <=> Born(f)

\* Such a chain rests or ends; one whose handler keeps it rests.
LEMMA UnclaimedRests ==
  ASSUME IInv, NEW f \in Family, Unclaimed(f)
  PROVE  /\ Chain!Rest(f) \/ (chainState[f] = "held" /\ chainState'[f] = "over")
         /\ (Held(f) => Held(f)') => Chain!Rest(f)
<1>1. /\ ~(Held(f) /\ Live(f))
      /\ Held(f) \/ Live(f) => Born(f)
  BY OneHolder
<1> QED BY <1>1, ChainStates, ChainStatesNext DEF Unclaimed, Chain!Rest

LEMMA ChainTyped == chainState' \in [Family -> Chain!State]
  BY DEF chainState, Chain!State

LEMMA AllUnclaimed ==
  ASSUME IInv, \A f \in Family : Unclaimed(f)
  PROVE  Chain!Next
<1>1. Chain!End
  BY UnclaimedRests DEF Chain!End
<1> QED BY <1>1, ChainTyped DEF Chain!Next

\* Most steps open no chain and hand none over.
LEMMA UnclaimedSteps ==
  ASSUME IInv, [Next]_vars,
         \A w \in Worker :
           /\ \A client \in Client, redirect \in URI, verifier \in Verifier \cup {NoPKCE} :
                ~HandleCodeGrant(w, client, redirect, verifier)
           /\ \A client \in Client : ~HandleRefreshGrant(w, client)
           /\ ~IssueRefresh(w)
  PROVE  \A f : Unclaimed(f)
<1> SUFFICES /\ grants' = grants /\ \A e \in refresh' : e \in refresh
             /\ \A w \in Worker : worker'[w].pc \in {"mint", "persist", "mismatch"} =>
                  /\ worker[w].pc \in {"mint", "persist", "mismatch"}
                  /\ worker'[w].family = worker[w].family
  BY DEF Unclaimed, Held, Live, Born, Holds
<1> USE DEF IInv, TypeOK, WorkerState, Idle, Kept, SweepOnly, store, jwts, history
<1>1. ASSUME NEW client \in Client, NEW ctx \in Ctx, NEW redirect \in URI,
             NEW challenge \in Verifier \cup {NoPKCE},
             CompleteAuthorize(client, ctx, redirect, challenge)
      PROVE  grants' = grants /\ refresh' \subseteq refresh /\ worker' = worker
  BY <1>1 DEF CompleteAuthorize
<1>2. CASE RejectUnknown \/ BurnCode \/ RevokeCode \/ Tick
  BY <1>2 DEF RejectUnknown, BurnCode, TakeCode, RevokeCode, Tick
<1>3. ASSUME NEW client \in Client, HandleClientCredentials(client)
      PROVE  grants' = grants /\ refresh' \subseteq refresh /\ worker' = worker
  BY <1>3 DEF HandleClientCredentials
<1>4. CASE ReplayRefresh \/ RevokeOpaque \/ EndSession
  BY <1>4 DEF ReplayRefresh, RevokeOpaque, EndSession, RevokeFamilyLocked
<1>5. ASSUME NEW w \in Worker, IssueRegister(w)
      PROVE  /\ grants' = grants /\ refresh' = refresh
             /\ \A v \in Worker \ {w} : worker'[v] = worker[v]
             /\ worker[w].pc = "mint" /\ worker'[w].family = worker[w].family
  BY <1>5 DEF IssueRegister
<1>6. ASSUME NEW w \in Worker, IssueFails(w) \/ MismatchRevoke(w) \/ DenyJTI(w) \/ Respond(w)
      PROVE  /\ grants' = grants /\ refresh' \subseteq refresh
             /\ \A v \in Worker \ {w} : worker'[v] = worker[v]
             /\ worker'[w].pc = "idle"
  BY <1>6 DEF IssueFails, MismatchRevoke, RevokeFamilyLocked, DenyJTI, Respond
<1>7. ASSUME NEW w \in Worker, NEW purpose \in {"use", "revoke"}, ParseAccess(w, purpose)
      PROVE  /\ grants' = grants /\ refresh' = refresh
             /\ \A v \in Worker \ {w} : worker'[v] = worker[v]
             /\ worker'[w].pc \in {"verify", "vrevoke"}
  BY <1>7 DEF ParseAccess
<1>8. ASSUME NEW w \in Worker, CheckDenied(w)
      PROVE  /\ grants' = grants /\ refresh' = refresh
             /\ \A v \in Worker \ {w} : worker'[v] = worker[v]
             /\ worker'[w].pc \in {"idle", "active", "deny"}
  BY <1>8 DEF CheckDenied
<1>9. CASE Restart
  BY <1>9 DEF Restart
<1>10. CASE UNCHANGED vars
  BY <1>10 DEF vars
<1> QED BY <1>1, <1>2, <1>3, <1>4, <1>5, <1>6, <1>7, <1>8, <1>9, <1>10
        DEF Next, Token, Inspect

\* handleCodeGrant opens the chain of the family it drew.
LEMMA CodeOpens ==
  ASSUME IInv, NEW w \in Worker, NEW client \in Client, NEW redirect \in URI,
         NEW verifier \in Verifier \cup {NoPKCE}, HandleCodeGrant(w, client, redirect, verifier)
  PROVE  Chain!Next
<1>0. PICK f : f = NewID
  OBVIOUS
<1>1. f \in Family /\ f \in Nat
  BY <1>0, BoundAssumption DEF HandleCodeGrant, Draw, NewID, Family, IInv, TypeOK
<1>2. ~Held(f) /\ ~Live(f) /\ ~Born(f)
  BY <1>0 DEF IInv, TypeOK, FreshInv, Held, Live, Born, Holds, NewID, GrantRecord, RefreshEntry,
         FamilyID, WorkerState
<1>3. /\ worker[w].pc = "idle" /\ worker'[w].pc = "mint" /\ worker'[w].family = f
      /\ \A v \in Worker \ {w} : worker'[v] = worker[v]
      /\ refresh' \subseteq refresh /\ grants \subseteq grants'
      /\ \A g \in grants' : g \in grants \/ g.family = f
  BY <1>0 DEF HandleCodeGrant, TakeCode, Kept, IInv, TypeOK
<1>4. Held(f)'
  BY <1>3 DEF Held, Holds
<1>5. \A g \in Family \ {f} : Unclaimed(g) /\ (Held(g) => Held(g)')
  BY <1>3 DEF Unclaimed, Held, Live, Born, Holds
<1>6. \A g \in Family \ {f} : Chain!Rest(g)
  BY <1>5, UnclaimedRests
<1>7. chainState[f] = "unborn" /\ chainState'[f] = "held"
  BY <1>1, <1>2, <1>4, ChainStates, ChainStatesNext
<1> QED BY <1>1, <1>6, <1>7, ChainTyped DEF Chain!Next, Chain!Open, Chain!Move

\* handleRefreshGrant takes the token of a chain that had one.
LEMMA RefreshExchanges ==
  ASSUME IInv, NEW w \in Worker, NEW client \in Client, HandleRefreshGrant(w, client)
  PROVE  Chain!Next
<1>1. PICK e \in refresh :
        /\ worker[w].pc = "idle" /\ grants' = grants /\ refresh' \subseteq refresh \ {e}
        /\ worker'[w].pc \in {"mint", "mismatch"} /\ worker'[w].family = e.family
        /\ \A v \in Worker \ {w} : worker'[v] = worker[v]
  BY DEF HandleRefreshGrant, Kept, IInv, TypeOK
<1>2. PICK f : f = e.family
  OBVIOUS
<1>3. Live(f) /\ ~Held(f) /\ Held(f)'
  BY <1>1, <1>2, OneHolder DEF Live, Held, Holds
<1>4. \A g \in Family \ {f} : Unclaimed(g) /\ (Held(g) => Held(g)')
  BY <1>1, <1>2 DEF Unclaimed, Held, Live, Born, Holds
<1>5. \A g \in Family \ {f} : Chain!Rest(g)
  BY <1>4, UnclaimedRests
<1>6. CASE f \in Family
  <2>1. chainState[f] = "live" /\ chainState'[f] = "held"
    BY <1>3, <1>6, ChainStates, ChainStatesNext
  <2> QED BY <1>5, <1>6, <2>1, ChainTyped DEF Chain!Next, Chain!Exchange, Chain!Move
<1>7. CASE f \notin Family
  BY <1>5, <1>7, ChainTyped DEF Chain!Next, Chain!End
<1> QED BY <1>6, <1>7

\* issueTokens hands the chain it held to the next refresh token.
LEMMA IssueHandsOut ==
  ASSUME IInv, NEW w \in Worker, IssueRefresh(w)
  PROVE  Chain!Next
<1>1. PICK f : f = worker[w].family
  OBVIOUS
<1>2. /\ worker[w].pc = "persist" /\ grants' = grants
      /\ worker'[w].pc = "idle" /\ \A v \in Worker \ {w} : worker'[v] = worker[v]
  BY DEF IssueRefresh, IInv, TypeOK, Idle, history
<1>3. /\ \A e \in refresh' : e \in refresh \/ e.family = f
      /\ \E e \in refresh' : e.family = f
  <2> DEFINE next == [id |-> NewID, client |-> worker[w].client, ctx |-> worker[w].ctx,
                      family |-> worker[w].family, exp |-> clock + RefreshTTL]
  <2>1. refresh' = Kept(refresh) \cup {next}
    BY DEF IssueRefresh
  <2>2. next.family = f /\ Kept(refresh) \subseteq refresh
    BY <1>1 DEF Kept
  <2> HIDE DEF next
  <2> QED BY <2>1, <2>2
<1>4. Held(f) /\ ~Held(f)' /\ Live(f)'
  BY <1>1, <1>2, <1>3 DEF IInv, ChainLinear, Live, Held, Holds
<1>5. \A g \in Family \ {f} : Unclaimed(g) /\ (Held(g) => Held(g)')
  BY <1>1, <1>2, <1>3 DEF Unclaimed, Held, Live, Born, Holds
<1>6. \A g \in Family \ {f} : Chain!Rest(g)
  BY <1>5, UnclaimedRests
<1>7. CASE f \in Family
  <2>1. chainState[f] = "held" /\ chainState'[f] = "live"
    BY <1>4, <1>7, ChainStates, ChainStatesNext
  <2> QED BY <1>6, <1>7, <2>1, ChainTyped DEF Chain!Next, Chain!HandOut, Chain!Move
<1>8. CASE f \notin Family
  BY <1>6, <1>8, ChainTyped DEF Chain!Next, Chain!End
<1> QED BY <1>7, <1>8

\* Every behaviour of the token service is a behaviour of RefreshChain: no
\* chain forks, reopens or outlives its end, whatever exchanges, replays,
\* sweeps and restarts do at once (takeRefresh, addRefresh,
\* revokeFamilyLocked, dropExpired).
THEOREM ServiceImplementsChain == Spec => ImplementsChain
<1>1. Init => Chain!Init
  BY DEF Init, Chain!Init, chainState, Holds, Idle
<1>2. IInv /\ [Next]_vars => [Chain!Next]_chainState
  BY AllUnclaimed, UnclaimedSteps, CodeOpens, RefreshExchanges, IssueHandsOut
<1> QED BY <1>1, <1>2, Invariance, PTL DEF Spec, ImplementsChain, Chain!Spec
=============================================================================
