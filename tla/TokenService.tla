---------------------------- MODULE TokenService ----------------------------
(***************************************************************************)
(* The token endpoint of minidp and the endpoints that end a token's life: *)
(* handlers.go (handleToken, handleRevoke, handleIntrospect,               *)
(* handleUserinfo, handleEndSession, completeAuthorize), tokens.go         *)
(* (issueTokens, issueClientCredentialsTokens) and store.go.               *)
(*                                                                         *)
(* net/http serves every request on its own goroutine.  The handlers share *)
(* one store, whose methods each hold the mutex for their whole body, so a *)
(* store method is one atomic step and another handler may run between two *)
(* store methods of a handler.  A handler that calls one store method is   *)
(* one action; a handler that calls several runs in a Worker slot and has  *)
(* one action per store method.                                            *)
(*                                                                         *)
(* A Go map is the set of its entries, each entry carrying its key.  Ids   *)
(* (codes, families, refresh tokens, jtis) are 256-bit random values in    *)
(* the code: here every draw is a number never drawn before.               *)
(***************************************************************************)
EXTENDS Integers, FiniteSets

CONSTANTS
  Worker,        \* goroutines serving requests that take several store steps
  Client,        \* the clients of the clients file
  Confidential,  \* those of type "confidential"
  GrantTypes,    \* [Client -> SUBSET Grant]: the grant_types of a registration
  RedirectURIs,  \* [Client -> SUBSET URI]: the redirect_uris of a registration
  URI,           \* the redirect_uri values a request may carry
  Verifier,      \* PKCE verifiers; a challenge is named by its only preimage
  NoPKCE,        \* the empty code_challenge (or code_verifier)
  Ctx,           \* what a grant authorizes: subject, scopes and nonce
  OpenID,        \* the members of Ctx whose scopes include openid
  NoCtx,         \* the context of a client_credentials token
  NoClient,      \* the client field of a worker that serves no grant
  CodeTTL, AccessTTL, RefreshTTL,
  PersistentKey, \* TRUE when the signing key survives a restart
  MaxClock,      \* bound: the clock stops here
  MaxDraws,      \* bound: number of random ids drawn
  MaxGrants,     \* bound: authorization codes pending or redeemed
  MaxAppTokens,  \* bound: client_credentials tokens delivered
  MaxRestarts    \* bound: restarts of the process

Grant == {"authorization_code", "refresh_token", "client_credentials"}

\* The family of a client_credentials token: the empty string in the code.
NoFamily == 0

ASSUME ClientAssumption ==
  /\ Confidential \subseteq Client
  /\ GrantTypes \in [Client -> SUBSET Grant]
  /\ RedirectURIs \in [Client -> SUBSET URI]
  /\ NoPKCE \notin Verifier
  /\ OpenID \subseteq Ctx
  /\ NoCtx \notin Ctx
  /\ NoClient \notin Client

ASSUME BoundAssumption ==
  /\ CodeTTL \in Nat /\ AccessTTL \in Nat \ {0} /\ RefreshTTL \in Nat
  /\ PersistentKey \in BOOLEAN
  /\ MaxClock \in Nat /\ MaxDraws \in Nat /\ MaxGrants \in Nat
  /\ MaxAppTokens \in Nat /\ MaxRestarts \in Nat

VARIABLES
  clock,
  \* store.go: the five maps of type store.
  codes, refresh, usedRefresh, accessJTI, deniedJTI,
  \* The goroutines, and how many ids crypto/rand has returned so far.
  worker, drawn,
  \* Outside the process: the JWTs delivered to clients that the running
  \* server's key verifies.
  bearer, idTokens,
  \* History, read only by the bounds and the properties: the code and context
  \* that opened each family, the refresh tokens exchanged, the families
  \* revoked, those of them revoked with no issuance in flight, how often the
  \* process restarted and how many ids had been drawn by then.
  grants, spent, revoked, closed, restarts, boot

store   == <<codes, refresh, usedRefresh, accessJTI, deniedJTI>>
jwts    == <<bearer, idTokens>>
history == <<grants, spent, revoked, closed, restarts, boot>>
vars    == <<clock, store, worker, drawn, jwts, history>>

-----------------------------------------------------------------------------
(* Types *)

FamilyID     == Nat \ {NoFamily}
AuthCode     == [id: Nat, client: Client, ctx: Ctx, redirect: URI,
                 challenge: Verifier \cup {NoPKCE}, exp: Nat]
RefreshEntry == [id: Nat, client: Client, ctx: Ctx, family: FamilyID, exp: Nat]
JTIRecord    == [jti: Nat, family: Nat, exp: Nat]
Denial       == [jti: Nat, exp: Nat]
Bearer       == [jti: Nat, client: Client, ctx: Ctx \cup {NoCtx},
                 family: Nat, exp: Nat]
IDToken      == [sid: FamilyID, client: Client]
GrantRecord  == [family: FamilyID, code: Nat, client: Client, ctx: Ctx]

(* Where a handler stands between two store methods.                       *)
(*   mint      authContext built, issueTokens about to registerJTI         *)
(*   persist   access token registered, issueTokens about to addRefresh    *)
(*   mismatch  refresh token taken by a foreign client, about to revoke    *)
(*   verify    bearer parsed and unexpired, denylist not yet read          *)
(*   vrevoke   the same inside revokePresentedToken                        *)
(*   deny      revokePresentedToken about to denyJTI                       *)
(*   active    the token was reported usable, response being written       *)
PC == {"idle", "mint", "persist", "mismatch",
       "verify", "vrevoke", "deny", "active"}

WorkerState == [pc: PC, client: Client \cup {NoClient},
                ctx: Ctx \cup {NoCtx}, family: Nat, jti: Nat, exp: Nat]

Idle == [pc |-> "idle", client |-> NoClient, ctx |-> NoCtx,
         family |-> NoFamily, jti |-> 0, exp |-> 0]

-----------------------------------------------------------------------------
(* store.go *)

\* now.After(exp): the expiry test of codes, refresh tokens and sweeps.
Expired(e) == clock > e.exp

\* dropExpired on one map.
Kept(S) == {e \in S : ~Expired(e)}

\* dropExpired on the two jti maps, when nothing else changes them.
SweepJTI == /\ accessJTI' = Kept(accessJTI)
            /\ deniedJTI' = Kept(deniedJTI)

\* randomToken and randomJTI: an id no earlier draw returned.
NewID == drawn + 1
Draw  == drawn < MaxDraws /\ drawn' = NewID

\* A token set for family f is being minted.
Issuing(w) == worker[w].pc \in {"mint", "persist"}
InFlight(f) == \E w \in Worker : Issuing(w) /\ worker[w].family = f

\* revokeFamilyLocked on maps R, U (refresh, used) and A, D (jti maps).
InFamily(e, f) == f # NoFamily /\ e.family = f
LiveOf(f, A) == {a \in A : InFamily(a, f) /\ clock < a.exp}
Deny(D, hit) ==
  {d \in D : \A a \in hit : a.jti # d.jti}
    \cup {[jti |-> a.jti, exp |-> a.exp] : a \in hit}
\* Fault: revokeFamilyLocked drops the refresh tokens and denies nothing.
RevokeRefreshOnly(f, R, U, A, D) ==
  /\ refresh' = {e \in R : ~InFamily(e, f)}
  /\ usedRefresh' = {e \in U : ~InFamily(e, f)}
  /\ accessJTI' = A
  /\ deniedJTI' = D
  /\ revoked' = revoked \cup {f}
  /\ closed' = closed \cup (IF InFlight(f) THEN {} ELSE {f})

RevokeFamilyLocked(f, R, U, A, D) ==
  /\ refresh' = {e \in R : ~InFamily(e, f)}
  /\ usedRefresh' = {e \in U : ~InFamily(e, f)}
  /\ accessJTI' = A \ LiveOf(f, A)
  /\ deniedJTI' = Deny(D, LiveOf(f, A))
  /\ revoked' = revoked \cup {f}
  /\ closed' = closed \cup (IF InFlight(f) THEN {} ELSE {f})

-----------------------------------------------------------------------------
(* /authorize *)

\* validatePKCEParams: a public client must send a challenge.
PKCEAccepted(client, challenge) ==
  challenge # NoPKCE \/ client \in Confidential

\* completeAuthorize for a request that clientForAuthorize and
\* validateAuthorizeRequest accepted and whose user signed in: addCode.
\* When randomToken fails the expired entries are swept all the same.
CompleteAuthorize(client, ctx, redirect, challenge) ==
  /\ Cardinality(codes) + Cardinality(grants) < MaxGrants
  /\ redirect \in RedirectURIs[client]
  /\ PKCEAccepted(client, challenge)
  /\ Draw
  /\ codes' = Kept(codes) \cup
       {[id |-> NewID, client |-> client, ctx |-> ctx,
         redirect |-> redirect, challenge |-> challenge,
         exp |-> clock + CodeTTL]}
  /\ refresh' = Kept(refresh)
  /\ usedRefresh' = Kept(usedRefresh)
  /\ SweepJTI
  /\ UNCHANGED <<clock, worker, jwts, history>>

-----------------------------------------------------------------------------
(* /token.  authenticateClient runs first and decides which client presents *)
(* the request; a request it refuses returns before the store is touched.  *)

\* A grant whose code or refresh token the store does not hold (and an addCode
\* or addRefresh whose random draw failed): dropExpired ran, nothing else.
SweepOnly ==
  /\ codes' = Kept(codes)
  /\ refresh' = Kept(refresh)
  /\ usedRefresh' = Kept(usedRefresh)
  /\ SweepJTI

RejectUnknown ==
  /\ SweepOnly
  /\ UNCHANGED <<clock, worker, drawn, jwts, history>>

\* verifyPKCE: no challenge was stored, or the verifier is its preimage.
VerifyPKCE(challenge, verifier) ==
  challenge = NoPKCE \/ verifier = challenge

ValidateCodeGrant(c, client, redirect, verifier) ==
  /\ client = c.client
  /\ redirect = c.redirect
  /\ VerifyPKCE(c.challenge, verifier)

\* Fault: takeCode looks the code up and leaves it in the map.
TakeCodeKeeps(c) ==
  /\ c \in codes /\ ~Expired(c)
  /\ codes' = Kept(codes)
  /\ refresh' = Kept(refresh)
  /\ usedRefresh' = Kept(usedRefresh)
  /\ SweepJTI

\* takeCode on a code the map holds and that has not expired.
TakeCode(c) ==
  /\ c \in codes /\ ~Expired(c)
  /\ codes' = Kept(codes) \ {c}
  /\ refresh' = Kept(refresh)
  /\ usedRefresh' = Kept(usedRefresh)
  /\ SweepJTI

\* handleCodeGrant: takeCode, validateCodeGrant, then a fresh family.
HandleCodeGrant(w, client, redirect, verifier) ==
  /\ worker[w].pc = "idle"
  /\ Draw
  /\ \E c \in codes :
       /\ TakeCode(c)
       /\ ValidateCodeGrant(c, client, redirect, verifier)
       /\ worker' = [worker EXCEPT ![w] =
            [pc |-> "mint", client |-> c.client, ctx |-> c.ctx,
             family |-> NewID, jti |-> 0, exp |-> 0]]
       /\ grants' = grants \cup {[family |-> NewID, code |-> c.id,
                                  client |-> c.client, ctx |-> c.ctx]}
  /\ UNCHANGED <<clock, jwts, spent, revoked, closed, restarts, boot>>

\* handleCodeGrant refused: validateCodeGrant failed, or the family could not
\* be drawn.  The code is gone in both cases.
BurnCode ==
  /\ \E c \in codes : TakeCode(c)
  /\ UNCHANGED <<clock, worker, drawn, jwts, history>>

\* Fault: issueTokens signs the access token without registering its jti.
IssueUnregistered(w) ==
  /\ worker[w].pc = "mint"
  /\ Draw
  /\ worker' = [worker EXCEPT ![w].pc = "persist", ![w].jti = NewID,
                              ![w].exp = clock + AccessTTL]
  /\ UNCHANGED <<clock, store, jwts, history>>

\* Fault: issueTokens registers the jti without its family.
IssueNoFamily(w) ==
  /\ worker[w].pc = "mint"
  /\ Draw
  /\ accessJTI' = accessJTI \cup
       {[jti |-> NewID, family |-> NoFamily, exp |-> clock + AccessTTL]}
  /\ worker' = [worker EXCEPT ![w].pc = "persist", ![w].jti = NewID,
                              ![w].exp = clock + AccessTTL]
  /\ UNCHANGED <<clock, codes, refresh, usedRefresh, deniedJTI, jwts, history>>

\* issueTokens up to registerJTI: the access token is signed and tracked.
IssueRegister(w) ==
  /\ worker[w].pc = "mint"
  /\ Draw
  /\ accessJTI' = accessJTI \cup
       {[jti |-> NewID, family |-> worker[w].family,
         exp |-> clock + AccessTTL]}
  /\ worker' = [worker EXCEPT ![w] =
       [pc |-> "persist", client |-> worker[w].client,
        ctx |-> worker[w].ctx, family |-> worker[w].family,
        jti |-> NewID, exp |-> clock + AccessTTL]]
  /\ UNCHANGED <<clock, codes, refresh, usedRefresh, deniedJTI, jwts, history>>

\* The rest of issueTokens: id_token for an openid grant, addRefresh, and
\* issueAndWriteTokens writes the response.
IssueRefresh(w) ==
  LET s == worker[w] IN
  /\ s.pc = "persist"
  /\ Draw
  /\ refresh' = Kept(refresh) \cup
       {[id |-> NewID, client |-> s.client, ctx |-> s.ctx,
         family |-> s.family, exp |-> clock + RefreshTTL]}
  /\ codes' = Kept(codes)
  /\ usedRefresh' = Kept(usedRefresh)
  /\ SweepJTI
  /\ bearer' = bearer \cup {[jti |-> s.jti, client |-> s.client, ctx |-> s.ctx,
                             family |-> s.family, exp |-> s.exp]}
  /\ idTokens' = idTokens \cup
       (IF s.ctx \in OpenID THEN {[sid |-> s.family, client |-> s.client]}
                            ELSE {})
  /\ worker' = [worker EXCEPT ![w] = Idle]
  /\ UNCHANGED <<clock, history>>

\* issueTokens fails on crypto/rand (a jti, or the refresh token after the
\* sweep of addRefresh): a 500 is written and no token leaves the process.
IssueFails(w) ==
  /\ Issuing(w)
  /\ \/ UNCHANGED store
     \/ worker[w].pc = "persist" /\ SweepOnly
  /\ worker' = [worker EXCEPT ![w] = Idle]
  /\ UNCHANGED <<clock, drawn, jwts, history>>

\* The exchange of entry e, leaving R in the refresh map and U in the used
\* map, with the handler going on as s: the faults of handleRefreshGrant.
FaultyExchange(w, e, R, U, s) ==
  /\ worker[w].pc = "idle"
  /\ ~Expired(e)
  /\ refresh' = R /\ usedRefresh' = U
  /\ worker' = [worker EXCEPT ![w] = s]
  /\ spent' = spent \cup {e}
  /\ codes' = Kept(codes)
  /\ SweepJTI
  /\ UNCHANGED <<clock, drawn, jwts, grants, revoked, closed, restarts, boot>>
Minting(e) == [pc |-> "mint", client |-> e.client, ctx |-> e.ctx,
               family |-> e.family, jti |-> 0, exp |-> 0]

\* Fault: takeRefresh leaves the token in the map.
RefreshKeepsToken(w, client) ==
  \E e \in refresh :
    FaultyExchange(w, e, Kept(refresh), Kept(usedRefresh) \cup {e}, Minting(e))

\* Fault: takeRefresh does not remember the token it handed out.
RefreshForgetsUse(w, client) ==
  \E e \in refresh :
    FaultyExchange(w, e, Kept(refresh) \ {e}, Kept(usedRefresh), Minting(e))

\* Fault: the tokens are minted for whoever presents the refresh token.
RefreshForPresenter(w, client) ==
  \E e \in refresh :
    FaultyExchange(w, e, Kept(refresh) \ {e}, Kept(usedRefresh) \cup {e},
                   [Minting(e) EXCEPT !.client = client])

\* Fault: a token already exchanged is exchanged again.
RefreshAcceptsReuse(w, client) ==
  \E e \in refresh \cup usedRefresh :
    FaultyExchange(w, e, Kept(refresh) \ {e}, Kept(usedRefresh) \cup {e},
                   Minting(e))

\* handleRefreshGrant with a live token: takeRefresh consumes it whoever
\* presents it; the owner goes on to issueTokens, a foreign client to the
\* revocation of the family.
HandleRefreshGrant(w, client) ==
  /\ worker[w].pc = "idle"
  /\ \E e \in refresh :
       /\ ~Expired(e)
       /\ refresh' = Kept(refresh) \ {e}
       /\ usedRefresh' = Kept(usedRefresh) \cup {e}
       /\ worker' = [worker EXCEPT ![w] =
            [pc |-> IF client = e.client THEN "mint" ELSE "mismatch",
             client |-> e.client, ctx |-> e.ctx, family |-> e.family,
             jti |-> 0, exp |-> 0]]
       /\ spent' = spent \cup {e}
  /\ codes' = Kept(codes)
  /\ SweepJTI
  /\ UNCHANGED <<clock, drawn, jwts, grants, revoked, closed, restarts,
                 boot>>

\* handleRefreshGrant with a token already exchanged: takeRefresh revokes the
\* family and forgets the token.
ReplayRefresh ==
  /\ \E e \in usedRefresh :
       /\ ~Expired(e)
       /\ RevokeFamilyLocked(e.family, Kept(refresh), Kept(usedRefresh) \ {e},
                             Kept(accessJTI), Kept(deniedJTI))
  /\ codes' = Kept(codes)
  /\ UNCHANGED <<clock, worker, drawn, jwts, grants, spent, restarts, boot>>

\* The client_id mismatch branch of handleRefreshGrant: revokeFamilyTokens.
MismatchRevoke(w) ==
  /\ worker[w].pc = "mismatch"
  /\ RevokeFamilyLocked(worker[w].family, refresh, usedRefresh,
                        accessJTI, deniedJTI)
  /\ worker' = [worker EXCEPT ![w] = Idle]
  /\ UNCHANGED <<clock, codes, drawn, jwts, grants, spent, restarts, boot>>

\* handleClientCredentialsGrant: registerJTI without a family, respond.
HandleClientCredentials(client) ==
  /\ Cardinality({b \in bearer : b.family = NoFamily}) < MaxAppTokens
  /\ client \in Confidential
  /\ "client_credentials" \in GrantTypes[client]
  /\ Draw
  /\ accessJTI' = accessJTI \cup
       {[jti |-> NewID, family |-> NoFamily, exp |-> clock + AccessTTL]}
  /\ bearer' = bearer \cup
       {[jti |-> NewID, client |-> client, ctx |-> NoCtx,
         family |-> NoFamily, exp |-> clock + AccessTTL]}
  /\ UNCHANGED <<clock, codes, refresh, usedRefresh, deniedJTI, worker,
                 idTokens, history>>

-----------------------------------------------------------------------------
(* /revoke, /introspect, /userinfo, /end_session *)

\* revokeToken for an opaque id (not a verifiable access token).  No sweep.
\* The presented id is a code, a live refresh token or an exchanged one.
RevokeCode ==
  /\ \E c \in codes : codes' = codes \ {c}
  /\ UNCHANGED <<clock, refresh, usedRefresh, accessJTI, deniedJTI, worker,
                 drawn, jwts, history>>

RevokeOpaque ==
  /\ \E e \in refresh \cup usedRefresh :
       RevokeFamilyLocked(e.family, refresh \ {e}, usedRefresh,
                          accessJTI, deniedJTI)
  /\ UNCHANGED <<clock, codes, worker, drawn, jwts, grants, spent, restarts, boot>>

\* parseAccessToken up to the denylist: signature, typ and exp.  "use" stands
\* for handleUserinfo and handleIntrospect, "revoke" for revokePresentedToken.
\* A token refused here is an opaque id no map holds: nothing changes.
ParseAccess(w, purpose) ==
  /\ worker[w].pc = "idle"
  /\ \E b \in bearer :
       /\ clock < b.exp
       /\ worker' = [worker EXCEPT ![w] =
            [pc |-> IF purpose = "use" THEN "verify" ELSE "vrevoke",
             client |-> b.client, ctx |-> b.ctx, family |-> b.family,
             jti |-> b.jti, exp |-> b.exp]]
  /\ UNCHANGED <<clock, store, drawn, jwts, history>>

\* isDeniedJTI reads the clock again: an entry counts until its horizon.
IsDenied(jti) == \E d \in deniedJTI : d.jti = jti /\ clock < d.exp

\* Fault: parseAccessToken does not consult the denylist.
SkipDenied(w) ==
  /\ worker[w].pc \in {"verify", "vrevoke"}
  /\ worker' = [worker EXCEPT ![w].pc = IF @ = "verify" THEN "active" ELSE "deny"]
  /\ UNCHANGED <<clock, store, drawn, jwts, history>>

\* The denylist test that ends parseAccessToken, and what each caller does
\* next: answer, or go on to denyJTI.
CheckDenied(w) ==
  /\ worker[w].pc \in {"verify", "vrevoke"}
  /\ worker' = [worker EXCEPT ![w] =
       IF IsDenied(worker[w].jti) THEN Idle
       ELSE [worker[w] EXCEPT !.pc =
               IF worker[w].pc = "verify" THEN "active" ELSE "deny"]]
  /\ UNCHANGED <<clock, store, drawn, jwts, history>>

\* Fault: denyJTI starts a new map.
DenyReplaces(w) ==
  /\ worker[w].pc = "deny"
  /\ deniedJTI' = Deny({}, {worker[w]})
  /\ worker' = [worker EXCEPT ![w] = Idle]
  /\ UNCHANGED <<clock, codes, refresh, usedRefresh, accessJTI, drawn, jwts,
                 history>>

\* denyJTI until the token's own exp claim.
DenyJTI(w) ==
  /\ worker[w].pc = "deny"
  /\ deniedJTI' = Deny(deniedJTI, {worker[w]})
  /\ worker' = [worker EXCEPT ![w] = Idle]
  /\ UNCHANGED <<clock, codes, refresh, usedRefresh, accessJTI, drawn, jwts,
                 history>>

\* handleIntrospect or handleUserinfo finishes writing its positive answer.
Respond(w) ==
  /\ worker[w].pc = "active"
  /\ worker' = [worker EXCEPT ![w] = Idle]
  /\ UNCHANGED <<clock, store, drawn, jwts, history>>

\* handleEndSession with an id_token_hint: the sid claim names the family.
\* Expiry of the hint is not looked at.
EndSession ==
  /\ \E t \in idTokens :
       RevokeFamilyLocked(t.sid, refresh, usedRefresh, accessJTI, deniedJTI)
  /\ UNCHANGED <<clock, codes, worker, drawn, jwts, grants, spent, restarts, boot>>

-----------------------------------------------------------------------------
(* Time and restarts *)

Tick ==
  /\ clock < MaxClock
  /\ clock' = clock + 1
  /\ UNCHANGED <<store, worker, drawn, jwts, history>>

\* The process stops and starts again: newStore is empty, requests in flight
\* are gone.  Delivered JWTs outlive it when the key does.
Restart ==
  /\ restarts < MaxRestarts
  /\ restarts' = restarts + 1
  /\ codes' = {} /\ refresh' = {} /\ usedRefresh' = {}
  /\ accessJTI' = {} /\ deniedJTI' = {}
  /\ worker' = [w \in Worker |-> Idle]
  /\ boot' = drawn
  /\ bearer' = IF PersistentKey THEN bearer ELSE {}
  /\ idTokens' = IF PersistentKey THEN idTokens ELSE {}
  /\ UNCHANGED <<clock, drawn, grants, spent, revoked, closed>>

Init ==
  /\ clock = 0
  /\ codes = {} /\ refresh = {} /\ usedRefresh = {}
  /\ accessJTI = {} /\ deniedJTI = {}
  /\ worker = [w \in Worker |-> Idle]
  /\ drawn = 0 /\ boot = 0 /\ restarts = 0
  /\ bearer = {} /\ idTokens = {}
  /\ grants = {} /\ spent = {} /\ revoked = {} /\ closed = {}

Token(w) ==
  \/ \E client \in Client, redirect \in URI, verifier \in Verifier \cup {NoPKCE} :
       HandleCodeGrant(w, client, redirect, verifier)
  \/ \E client \in Client : HandleRefreshGrant(w, client)
  \/ IssueRegister(w)
  \/ IssueRefresh(w)
  \/ IssueFails(w)
  \/ MismatchRevoke(w)

Inspect(w) ==
  \/ \E purpose \in {"use", "revoke"} : ParseAccess(w, purpose)
  \/ CheckDenied(w)
  \/ DenyJTI(w)
  \/ Respond(w)

Next ==
  \/ \E client \in Client, ctx \in Ctx, redirect \in URI,
        challenge \in Verifier \cup {NoPKCE} :
       CompleteAuthorize(client, ctx, redirect, challenge)
  \/ RejectUnknown
  \/ BurnCode
  \/ ReplayRefresh
  \/ \E client \in Client : HandleClientCredentials(client)
  \/ RevokeCode
  \/ RevokeOpaque
  \/ EndSession
  \/ \E w \in Worker : Token(w) \/ Inspect(w)
  \/ Tick
  \/ Restart

Spec == Init /\ [][Next]_vars

-----------------------------------------------------------------------------
(* Properties *)

\* Every variable stays within its declared shape, and a handler that works on
\* a token family knows whose it is (the maps of store.go, authContext).
TypeOK ==
  /\ clock \in Nat /\ drawn \in Nat /\ boot \in Nat /\ restarts \in Nat
  /\ codes \subseteq AuthCode
  /\ refresh \subseteq RefreshEntry /\ usedRefresh \subseteq RefreshEntry
  /\ accessJTI \subseteq JTIRecord /\ deniedJTI \subseteq Denial
  /\ worker \in [Worker -> WorkerState]
  /\ \A w \in Worker : worker[w].pc \in {"mint", "persist", "mismatch"} =>
       /\ worker[w].client \in Client
       /\ worker[w].ctx \in Ctx
       /\ worker[w].family \in FamilyID
  /\ bearer \subseteq Bearer /\ idTokens \subseteq IDToken
  /\ grants \subseteq GrantRecord /\ spent \subseteq RefreshEntry
  /\ revoked \subseteq FamilyID /\ closed \subseteq FamilyID

\* An authorization code opens at most one token family, however many
\* requests race to redeem it, and a family comes from one code only
\* (takeCode deletes under the lock before handleCodeGrant looks at it).
CodeSingleUse ==
  \A g, h \in grants : (g.code = h.code \/ g.family = h.family) => g = h

\* A worker holds the right to extend a chain: it took the code or the refresh
\* token and has not yet handed the next refresh token back.
Holds(w, f) ==
  worker[w].pc \in {"mint", "persist", "mismatch"} /\ worker[w].family = f

\* A refresh chain never forks: a family has one live refresh token or one
\* handler about to create the next one, never two of either and never both
\* (takeRefresh is single-use under the lock; issueTokens adds one token).
ChainLinear ==
  /\ \A e1, e2 \in refresh : e1.family = e2.family => e1 = e2
  /\ \A e \in refresh, w \in Worker : ~Holds(w, e.family)
  /\ \A w1, w2 \in Worker :
       (w1 # w2 /\ worker[w1].pc \in {"mint", "persist", "mismatch"})
         => ~Holds(w2, worker[w1].family)

\* Whatever a family's tokens have been through, they speak for the client and
\* the subject, scopes and nonce its authorization code was issued for
\* (refreshEntry and authContext are copied along the chain).
FamilyBinding ==
  LET BoundTo(client, ctx, f) ==
        \E g \in grants : g.family = f /\ g.client = client /\ g.ctx = ctx
  IN /\ \A e \in refresh \cup usedRefresh : BoundTo(e.client, e.ctx, e.family)
     /\ \A b \in bearer : b.family # NoFamily => BoundTo(b.client, b.ctx, b.family)
     /\ \A t \in idTokens : \E g \in grants : g.family = t.sid /\ g.client = t.client

\* Every access token a client holds that is unexpired and was minted since
\* the last restart can still be reached by a family revocation, or has been
\* denied already (registerJTI before the response; sweeps wait for expiry).
Tracked(j, f, exp) ==
  \/ \E a \in accessJTI : a.jti = j /\ a.family = f /\ a.exp = exp
  \/ \E d \in deniedJTI : d.jti = j /\ d.exp = exp
LiveTracked ==
  \A b \in bearer :
    (b.jti > boot /\ clock < b.exp) => Tracked(b.jti, b.family, b.exp)

\* An exchanged refresh token is remembered until it expires, so a replay of
\* it is recognised, unless its family was revoked or the process restarted
\* since (usedRefresh in takeRefresh; RFC 9700 reuse detection).
ReplayDetectable ==
  \A e \in spent :
    \/ e \in usedRefresh
    \/ clock > e.exp
    \/ e.family \in revoked
    \/ e.id <= boot

\* A revocation that met no issuance in flight is final: the family has no
\* refresh token, no handler can mint for it, and each of its access tokens
\* minted since the last restart is denied until it expires
\* (revokeFamilyLocked; /revoke, /end_session, reuse detection).
ClosedIsFinal ==
  \A f \in closed :
    /\ \A e \in refresh : e.family # f
    /\ ~InFlight(f)
    /\ \A b \in bearer :
         (b.family = f /\ b.jti > boot /\ clock < b.exp) => IsDenied(b.jti)

\* A denied access token stays denied until it expires, whatever later
\* sweeps, revocations and denials do, as long as the process lives
\* (denyJTI, revokeFamilyLocked and dropExpired write the same map).
DenialSticks ==
  [][\A b \in bearer :
       (IsDenied(b.jti) /\ clock' < b.exp /\ restarts' = restarts)
         => IsDenied(b.jti)']_vars

\* /introspect and /userinfo never report a token of a closed family as
\* usable, except one that expired between the exp test and the denylist test
\* of the same request (parseAccessToken reads the clock twice).
NoAnswerForClosed ==
  [][\A w \in Worker :
       (worker[w].pc = "verify" /\ worker'[w].pc = "active")
         => \/ worker[w].family \notin closed
            \/ worker[w].jti <= boot
            \/ clock >= worker[w].exp]_vars

\* What the comments on takeRefresh and revokeFamilyTokens promise without the
\* proviso of ClosedIsFinal: a revoked family has no live refresh token.
RevokedIsFinal ==
  \A f \in revoked : \A e \in refresh : e.family # f
=============================================================================
