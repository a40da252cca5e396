---------------------------- MODULE LoginProofs ----------------------------
(***************************************************************************)
(* Theorems about Login, for any browsers, addresses, chains of proxies,   *)
(* request parameters and clients.  What is proved of the limiter in       *)
(* RateLimiterProofs is used here for the limiter inside the login.        *)
(***************************************************************************)
EXTENDS Login, RateLimiterProofs

-----------------------------------------------------------------------------
(* Where a request comes from *)

\* clientIP finds the address of the browser, whatever the browser writes into
\* X-Forwarded-For or X-Real-IP and however many trusted proxies the request
\* passes.
LEMMA ClientIPIsReal ==
  ASSUME NEW b \in Browser, NEW r \in Arriving(b)
  PROVE  ClientIP(r) = Address[b]
<1> DEFINE a == Address[b]
<1>1. a \in IP /\ a \notin Trusted
  BY LoginAssumption
<1>2. CASE \E p \in Trusted : r = [remote |-> p, real |-> a, xff |-> <<>>]
  BY <1>1, <1>2 DEF ClientIP
<1>3. ASSUME NEW chain \in Chain, NEW h \in Header,
             r = Relayed(b, chain, h)
      PROVE  ClientIP(r) = a
  <2> DEFINE hops == <<a>> \o chain
             tail == SubSeq(hops, 1, Len(hops) - 1)
             given == h.xff
  <2>1. chain \in Seq(Trusted) /\ given \in Seq(IP \cup {Malformed})
    BY LoginAssumption
  <2>2. /\ hops \in Seq(Trusted \cup {a}) /\ Len(hops) = Len(chain) + 1
        /\ hops[1] = a /\ \A i \in 1 .. Len(chain) : hops[i + 1] = chain[i]
    BY <2>1
  <2>3. /\ r.remote = hops[Len(hops)] /\ r.xff = given \o tail
    BY <1>3 DEF Relayed
  <2>4. CASE Len(chain) = 0
    BY <1>1, <2>2, <2>3, <2>4 DEF ClientIP
  <2>5. CASE Len(chain) > 0
    <3>1. hops[Len(hops)] \in Trusted
      <4>1. hops[Len(chain) + 1] = chain[Len(chain)] /\ chain[Len(chain)] \in Trusted
        BY <2>1, <2>2, <2>5
      <4> QED BY <2>2, <4>1
    <3>2. /\ tail \in Seq(Trusted \cup {a}) /\ Len(tail) = Len(chain)
          /\ \A i \in 1 .. Len(chain) : tail[i] = hops[i]
      <4> HIDE DEF hops
      <4> QED BY <2>1, <2>2
    <3>3. /\ tail[1] = a
          /\ \A i \in 2 .. Len(tail) : tail[i] \in Trusted
      <4>1. \A i \in 2 .. Len(chain) : hops[i] = chain[i - 1]
        BY <2>1
      <4> HIDE DEF hops, tail
      <4> QED BY <2>1, <2>2, <2>5, <3>2, <4>1
    <3> HIDE DEF hops, tail, given
    <3> DEFINE xff == given \o tail
               usable == {i \in DOMAIN xff : xff[i] \in IP \ Trusted}
               n == Len(given) + 1
    <3>4. /\ Len(xff) = Len(given) + Len(tail) /\ DOMAIN xff = 1 .. Len(xff)
          /\ \A i \in 1 .. Len(tail) : xff[Len(given) + i] = tail[i]
      BY <2>1, <3>2
    <3>5. n \in usable
      BY <1>1, <2>1, <2>5, <3>2, <3>3, <3>4
    <3>6. \A j \in usable : j <= n
      <4> SUFFICES ASSUME NEW j \in DOMAIN xff, j > n PROVE xff[j] \in Trusted
        BY <2>1, <3>4
      <4>1. j - Len(given) \in 2 .. Len(tail) /\ Len(given) + (j - Len(given)) = j
        BY <2>1, <3>2, <3>4
      <4>2. xff[j] = tail[j - Len(given)]
        BY <2>1, <3>2, <3>4, <4>1
      <4> QED BY <3>3, <4>1, <4>2
    <3>7. (CHOOSE i \in usable : \A j \in usable : j <= i) = n
      <4>1. \A i \in usable : (\A j \in usable : j <= i) => i = n
        <5>1. usable \subseteq Int
          BY <2>1, <3>2, <3>4
        <5> HIDE DEF usable, n
        <5> QED BY <3>5, <3>6, <5>1
      <4> QED BY <3>5, <3>6, <4>1
    <3>8. xff[n] = a
      BY <2>1, <2>5, <3>2, <3>3, <3>4
    <3>9. ForwardedClientIP(xff, r.remote) = a
      BY <3>5, <3>7, <3>8 DEF ForwardedClientIP
    <3>10. xff # <<>>
      BY <3>4, <3>5
    <3> QED BY <2>3, <3>1, <3>9, <3>10 DEF ClientIP
  <2> QED BY <2>1, <2>4, <2>5
<1>4. \/ \E p \in Trusted : r = [remote |-> p, real |-> a, xff |-> <<>>]
      \/ \E chain \in Chain, h \in Header :
           r = Relayed(b, chain, h)
  BY DEF Arriving
<1> QED BY <1>2, <1>3, <1>4

-----------------------------------------------------------------------------
(* The forms in the browsers *)

\* A nonce is drawn once and set as the cookie of one browser; requests under
\* way and forms that carry it are that browser's.
Owned(nonce, b) == \A d \in Browser : cookie[d].nonce = nonce => d = b

NonceInv ==
  /\ nonces \in Nat
  /\ cookie \in [Browser -> [nonce: Nat, exp: Nat]]
  /\ \A b \in Browser : /\ cookie[b].nonce <= nonces
                        /\ cookie[b].nonce # NoNonce => Owned(cookie[b].nonce, b)
  /\ \A g \in loading : /\ g.browser \in Browser /\ g.nonce \in 0 .. nonces
                        /\ g.nonce # NoNonce => Owned(g.nonce, g.browser)
  /\ \A f \in forms : /\ f.browser \in Browser /\ f.nonce \in 1 .. nonces
                      /\ Owned(f.nonce, f.browser)

\* Parameters are sequences of values.  What a form echoes has a single
\* non-blank value per name, or none, so that echoing it again changes nothing;
\* one rendered in answer to such a form signs just what it echoes.
FieldsInv ==
  /\ \A g \in loading : g.params \in Request
  /\ \A f \in forms :
       /\ f.hidden \in [Key -> Seq(Value)]
       /\ f.hidden = HiddenFields(f.hidden)
       /\ f.retry => f.signed = f.hidden

BootInv == boot \in Nat \ {0} /\ clock \in Nat

FormInv == NonceInv /\ FieldsInv /\ BootInv

\* Echoing what was echoed changes nothing.
LEMMA HiddenIdempotent ==
  ASSUME NEW params
  PROVE  HiddenFields(HiddenFields(params)) = HiddenFields(params)
<1> DEFINE h == HiddenFields(params)
<1>1. ASSUME NEW k \in Key
      PROVE  (IF h[k] = <<>> \/ Head(h[k]) = Blank THEN <<>> ELSE <<Head(h[k])>>) = h[k]
  <2>1. CASE h[k] = <<>>
    BY <2>1
  <2>2. CASE h[k] # <<>>
    <3>1. PICK v : h[k] = <<v>> /\ v # Blank
      BY <2>2 DEF HiddenFields
    <3> QED BY <3>1
  <2> QED BY <2>1, <2>2
<1> QED BY <1>1 DEF HiddenFields

\* Echoed fields are sequences of values again.
LEMMA HiddenTyped ==
  ASSUME NEW params, \A k \in Key : params[k] \in Seq(Value)
  PROVE  HiddenFields(params) \in [Key -> Seq(Value)]
<1>1. ASSUME NEW k \in Key
      PROVE  (IF params[k] = <<>> \/ Head(params[k]) = Blank THEN <<>>
              ELSE <<Head(params[k])>>) \in Seq(Value)
  <2>1. CASE params[k] = <<>>
    BY <2>1
  <2>2. CASE params[k] # <<>>
    <3>1. Head(params[k]) \in Value
      BY <2>2
    <3> QED BY <3>1
  <2> QED BY <2>1, <2>2
<1> QED BY <1>1 DEF HiddenFields

\* The forms that may be submitted: ours, and any others.
Submittable == forms \cup {Foreign(r) : r \in Request}

\* What a POST carries, in its body and in its URL, are sequences of values.
LEMMA SubmissionTyped ==
  ASSUME FormInv, NEW f \in Submittable, NEW v \in Variant
  PROVE  \A k \in Key : /\ Submission(f, v).body[k] \in Seq(Value)
                        /\ Submission(f, v).query[k] \in Seq(Value)
<1>1. \A k \in Key : f.hidden[k] \in Seq(Value)
  <2>1. CASE f \in forms
    BY <2>1 DEF FormInv, FieldsInv
  <2>2. CASE \E r \in Request : f = Foreign(r)
    BY <2>2, LoginAssumption DEF Foreign
  <2> QED BY <2>1, <2>2 DEF Submittable
<1>2. /\ v.query \in [Key -> Seq(Value)]
      /\ \A k \in DOMAIN v.body : v.body[k] \in Seq(Value)
  BY LoginAssumption
<1> QED BY <1>1, <1>2 DEF Submission

\* A form of ours, submitted as it is, carries what it echoes, and nothing else.
LEMMA PlainDigest ==
  ASSUME FormInv, NEW f \in forms, NEW v, v.body = << >>, v.query = NoParams
  PROVE  /\ OAuthParamsOf(Submission(f, v)) = f.hidden
         /\ HiddenFields(Submission(f, v).body) = f.hidden
<1> DEFINE p == Submission(f, v)
<1>1. f.hidden \in [Key -> Seq(Value)] /\ f.hidden = HiddenFields(f.hidden)
  BY DEF FormInv, FieldsInv
<1>2. DOMAIN v.body = {}
  OBVIOUS
<1>3. p.body = [k \in Key |-> f.hidden[k]] /\ p.query = NoParams
  BY <1>2 DEF Submission
<1>4. p.body = f.hidden
  BY <1>1, <1>3
<1> HIDE DEF p
<1>5. ASSUME NEW k \in Key PROVE p.body[k] \o p.query[k] = f.hidden[k]
  <2>1. p.query[k] = <<>> /\ p.body[k] = f.hidden[k] /\ f.hidden[k] \in Seq(Value)
    BY <1>1, <1>3, <1>4 DEF NoParams
  <2> QED BY <2>1
<1>6. OAuthParamsOf(p) = f.hidden
  BY <1>1, <1>5 DEF OAuthParamsOf
<1> QED BY <1>1, <1>4, <1>6 DEF p

\* A submission that verifies is a form of ours, submitted by the browser it
\* was rendered for.
LEMMA VerifiedIsOwn ==
  ASSUME FormInv, NEW b \in Browser, NEW f \in forms, NEW v,
         Verify(Submission(f, v), Carried(b))
  PROVE  f.browser = b
<1>1. f.nonce = cookie[b].nonce
  BY DEF Verify, Carried, Submission
<1> QED BY <1>1 DEF FormInv, NonceInv, Owned

LEMMA ForeignFails ==
  ASSUME FormInv, NEW r, NEW v, NEW nonce
  PROVE  ~Verify(Submission(Foreign(r), v), nonce)
  BY DEF FormInv, BootInv, Verify, Foreign, Submission

\* The nonce a browser sends is its own.
LEMMA CarriedOwned ==
  ASSUME FormInv, NEW b \in Browser
  PROVE  /\ Carried(b) \in 0 .. nonces
         /\ Carried(b) # NoNonce => Owned(Carried(b), b)
  BY DEF FormInv, NonceInv, Carried, NoNonce

\* renderLoginPage draws a fresh nonce or keeps the browser's own, and a form
\* rendered again signs what it shows.
LEMMA RenderKeeps ==
  ASSUME FormInv, NEW b \in Browser, NEW r, NEW fields, NEW nonce \in 0 .. nonces,
         nonce # NoNonce => Owned(nonce, b),
         \A k \in Key : fields[k] \in Seq(Value),
         NEW retry, retry => OAuthParamsOf(r) = HiddenFields(fields),
         RenderLoginPage(b, r, fields, nonce, retry),
         loading' \subseteq loading, boot' = boot, clock' = clock
  PROVE  FormInv'
<1>1. PICK m : /\ forms' = forms \cup {Form(b, r, fields, m, retry)}
               /\ \/ m = nonce /\ nonce # NoNonce /\ UNCHANGED <<cookie, nonces>>
                  \/ /\ m = nonces + 1 /\ nonces' = m
                     /\ cookie' = [cookie EXCEPT ![b] = [nonce |-> m, exp |-> clock + CSRFTTL]]
  BY DEF RenderLoginPage
<1> DEFINE n == Form(b, r, fields, m, retry)
<1>2. /\ n.browser = b /\ n.nonce = m /\ n.hidden = HiddenFields(fields)
      /\ n.signed = OAuthParamsOf(r) /\ n.retry = retry
  BY DEF Form
<1> HIDE DEF n
<1>3. BootInv'
  BY DEF FormInv, BootInv
<1>4. FieldsInv'
  <2>1. n.hidden = HiddenFields(n.hidden)
    BY <1>2, HiddenIdempotent
  <2>2. n.retry => n.signed = n.hidden
    BY <1>2
  <2>3. n.hidden \in [Key -> Seq(Value)]
    BY <1>2, HiddenTyped
  <2> QED BY <1>1, <2>1, <2>2, <2>3 DEF FormInv, FieldsInv, n
<1>5. NonceInv'
  <2>1. CASE m = nonce /\ nonce # NoNonce /\ UNCHANGED <<cookie, nonces>>
    <3>1. m \in 1 .. nonces /\ Owned(m, b)
      BY <2>1 DEF NoNonce, FormInv, NonceInv
    <3> QED BY <1>1, <1>2, <2>1, <3>1 DEF FormInv, NonceInv, Owned, n
  <2>2. CASE /\ m = nonces + 1 /\ nonces' = m
             /\ cookie' = [cookie EXCEPT ![b] = [nonce |-> m, exp |-> clock + CSRFTTL]]
    <3>1. nonces' \in Nat /\ cookie' \in [Browser -> [nonce: Nat, exp: Nat]]
      BY <2>2, LoginAssumption DEF FormInv, NonceInv, BootInv
    <3>2. \A d \in Browser : cookie'[d].nonce = IF d = b THEN m ELSE cookie[d].nonce
      BY <2>2 DEF FormInv, NonceInv
    <3>3. Owned(m, b)'
      BY <2>2, <3>2 DEF FormInv, NonceInv, Owned
    <3>4. \A v \in 1 .. nonces : \A d \in Browser : Owned(v, d) => Owned(v, d)'
      BY <2>2, <3>2 DEF FormInv, NonceInv, Owned
    <3>5. ASSUME NEW d \in Browser
          PROVE  /\ cookie'[d].nonce <= nonces'
                 /\ cookie'[d].nonce # NoNonce => Owned(cookie[d].nonce, d)'
      BY <2>2, <3>2, <3>3, <3>4 DEF FormInv, NonceInv, Owned, NoNonce
    <3>6. ASSUME NEW g \in loading'
          PROVE  /\ g.browser \in Browser /\ g.nonce \in 0 .. nonces'
                 /\ g.nonce # NoNonce => Owned(g.nonce, g.browser)'
      BY <2>2, <3>4 DEF FormInv, NonceInv, NoNonce
    <3>7. ASSUME NEW f \in forms'
          PROVE  /\ f.browser \in Browser /\ f.nonce \in 1 .. nonces'
                 /\ Owned(f.nonce, f.browser)'
      <4>1. CASE f \in forms
        BY <2>2, <3>4, <4>1 DEF FormInv, NonceInv
      <4>2. CASE f = n
        BY <1>2, <2>2, <3>3, <4>2 DEF FormInv, NonceInv
      <4> QED BY <1>1, <4>1, <4>2 DEF n
    <3> QED BY <3>1, <3>5, <3>6, <3>7 DEF NonceInv
  <2> QED BY <1>1, <2>1, <2>2
<1> QED BY <1>3, <1>4, <1>5 DEF FormInv

\* A POST leaves the forms as they are or renders one for its browser.
LEMMA PostRenders ==
  ASSUME NEW b \in Browser, NEW p, HandleAuthorizePost(b, p)
  PROVE  /\ UNCHANGED <<cookie, forms, nonces>> \/ RenderAuthorizeError(b, p)
         /\ loading' = loading /\ boot' = boot /\ clock' = clock
  BY DEF HandleAuthorizePost, PostRejected, PostThrottled, PostInvalid, PostUnauthorized,
         PostAuthorized, PostValid, AllowFrom, limiterVars

\* Nothing a browser or the server does mixes up the nonces.
LEMMA FormStep == FormInv /\ [LoginNext]_vars => FormInv'
<1> SUFFICES ASSUME FormInv, [LoginNext]_vars PROVE FormInv'
  OBVIOUS
<1>1. ASSUME NEW b \in Browser, NEW r \in Request, OpenLogin(b, r) PROVE FormInv'
  <2> DEFINE n == [browser |-> b, params |-> r, nonce |-> Carried(b)]
  <2>1. /\ loading' = loading \cup {n} /\ UNCHANGED <<cookie, forms, nonces, boot, clock>>
    BY <1>1 DEF OpenLogin, limiterVars
  <2>2. /\ n.browser \in Browser /\ n.nonce \in 0 .. nonces
        /\ n.nonce # NoNonce => Owned(n.nonce, n.browser)
    BY CarriedOwned
  <2> HIDE DEF n
  <2>3. NonceInv'
    BY <2>1, <2>2 DEF FormInv, NonceInv, Owned
  <2>4. FieldsInv'
    BY <2>1 DEF FormInv, FieldsInv, n
  <2> QED BY <2>1, <2>3, <2>4 DEF FormInv, BootInv
<1>2. ASSUME NEW b \in Browser, NEW f \in Submittable, NEW v \in Variant,
             HandleAuthorizePost(b, Submission(f, v))
      PROVE  FormInv'
  <2> DEFINE p == Submission(f, v)
  <2>1. CASE UNCHANGED <<cookie, forms, nonces>>
    BY <1>2, <2>1, PostRenders DEF FormInv, NonceInv, FieldsInv, BootInv, Owned
  <2>2. CASE RenderAuthorizeError(b, p)
    <3>1. p.form.nr # 0 /\ p.plain => OAuthParamsOf(p) = HiddenFields(p.body)
      <4> SUFFICES ASSUME f.nr # 0, v.body = << >>, v.query = NoParams
                   PROVE  OAuthParamsOf(p) = HiddenFields(p.body)
        BY DEF Submission
      <4>1. f \in forms
        BY DEF Submittable, Foreign
      <4> QED BY <4>1, PlainDigest
    <3>2. /\ Carried(b) \in 0 .. nonces
          /\ Carried(b) # NoNonce => Owned(Carried(b), b)
      BY CarriedOwned
    <3>3. loading' \subseteq loading /\ boot' = boot /\ clock' = clock
      BY <1>2, PostRenders
    <3>4. \A k \in Key : p.body[k] \in Seq(Value)
      BY SubmissionTyped
    <3>5. RenderLoginPage(b, p, p.body, Carried(b), p.form.nr # 0 /\ p.plain)
      BY <2>2 DEF RenderAuthorizeError
    <3> HIDE DEF p
    <3> QED BY <3>1, <3>2, <3>3, <3>4, <3>5, RenderKeeps
  <2> QED BY <1>2, <2>1, <2>2, PostRenders
<1>3. ASSUME NEW g \in loading, HandleAuthorizeGet(g) PROVE FormInv'
  <2>1. loading' \subseteq loading /\ boot' = boot /\ clock' = clock
    BY <1>3 DEF HandleAuthorizeGet, limiterVars
  <2>2. CASE UNCHANGED <<cookie, forms, nonces>>
    BY <2>1, <2>2 DEF FormInv, NonceInv, FieldsInv, BootInv, Owned
  <2>3. CASE RenderLoginPage(g.browser, [body |-> NoParams, query |-> g.params], g.params,
                             g.nonce, FALSE)
    <3>1. /\ g.browser \in Browser /\ g.nonce \in 0 .. nonces
          /\ g.nonce # NoNonce => Owned(g.nonce, g.browser)
      BY DEF FormInv, NonceInv
    <3>2. \A k \in Key : g.params[k] \in Seq(Value)
      BY LoginAssumption DEF FormInv, FieldsInv
    <3> QED BY <2>1, <2>3, <3>1, <3>2, RenderKeeps
  <2> QED BY <1>3, <2>2, <2>3 DEF HandleAuthorizeGet
<1>4. CASE Restart
  BY <1>4 DEF Restart, browserVars, FormInv, NonceInv, FieldsInv, BootInv, Owned
<1>5. CASE Wait
  BY <1>5 DEF Wait, Tick, browserVars, FormInv, NonceInv, FieldsInv, BootInv, Owned
<1>6. CASE UNCHANGED vars
  BY <1>6 DEF vars, limiterVars, browserVars, FormInv, NonceInv, FieldsInv, BootInv, Owned
<1> QED BY <1>1, <1>2, <1>3, <1>4, <1>5, <1>6 DEF LoginNext, Submittable

LEMMA FormInvariant == LoginSpec => []FormInv
<1>1. LoginInit => FormInv
  BY DEF LoginInit, Init, FormInv, NonceInv, FieldsInv, BootInv, NoNonce
<1> QED BY <1>1, FormStep, PTL DEF LoginSpec

-----------------------------------------------------------------------------
(* Theorems about the forms *)

\* A form that POST rendered in answer to one submitted as it was verifies as
\* long as its cookie, its token and its process are there
\* (renderAuthorizeError, csrfManager.verify).
THEOREM RetriesVerify == LoginSpec => []RetryVerifies
<1>1. FormInv => RetryVerifies
  <2> SUFFICES ASSUME FormInv, NEW f \in forms, f.retry, f.secret = boot, clock <= f.exp,
                      Carried(f.browser) = f.nonce
               PROVE  Verify(AsRendered(f), Carried(f.browser))
    BY DEF RetryVerifies
  <2>1. OAuthParamsOf(AsRendered(f)) = f.hidden
    BY PlainDigest DEF AsRendered
  <2>2. AsRendered(f).form = f
    BY DEF AsRendered, Submission
  <2>3. f.signed = f.hidden /\ f.nonce # NoNonce
    BY DEF FormInv, FieldsInv, NonceInv, NoNonce
  <2> QED BY <2>1, <2>2, <2>3 DEF Verify
<1> QED BY <1>1, FormInvariant, PTL

\* The code of a submission carries for each name the first of all its values,
\* or nothing for a name that its URL has.
LEMMA ContextOfSigned ==
  ASSUME FormInv, NEW f \in Submittable, NEW v \in Variant, NEW k \in Key
  PROVE  LET p == Submission(f, v)
         IN  \/ Context(p)[k] = HiddenFields(OAuthParamsOf(p))[k]
             \/ Context(p)[k] = <<>> /\ p.query[k] # <<>>
<1> DEFINE p == Submission(f, v)
<1>1. p.body[k] \in Seq(Value) /\ p.query[k] \in Seq(Value)
  BY SubmissionTyped
<1> HIDE DEF p
<1> DEFINE first(s) == IF s = <<>> \/ Head(s) = Blank THEN <<>> ELSE <<Head(s)>>
<1>2. /\ Context(p)[k] = first(p.body[k])
      /\ HiddenFields(OAuthParamsOf(p))[k] = first(p.body[k] \o p.query[k])
  BY DEF Context, HiddenFields, OAuthParamsOf
<1>3. CASE p.body[k] = <<>> /\ p.query[k] = <<>>
  BY <1>2, <1>3 DEF p
<1>4. CASE p.body[k] = <<>> /\ p.query[k] # <<>>
  BY <1>2, <1>4 DEF p
<1>5. CASE p.body[k] # <<>>
  <2>1. \A x, y \in Seq(Value) : x # <<>> => x \o y # <<>> /\ Head(x \o y) = Head(x)
    OBVIOUS
  <2> QED BY <1>1, <1>2, <1>5, <2>1 DEF p
<1> QED BY <1>3, <1>4, <1>5

\* What CodeFromOwnForm says of code c and form f, and SentWhereRegistered of c.
OwnCode(c, f) ==
  /\ f.nr = c.form /\ f.browser = c.browser
  /\ \A k \in Key : \/ c.params[k] = HiddenFields(f.signed)[k]
                    \/ c.params[k] = <<>> /\ k \in c.inUrl

ValidCode(c) == Redirectable(c.params) /\ ValidateAuthorizeRequest(c.params) = ""

\* A code is issued only from a form of ours that verified, in the browser it
\* was rendered for.
LEMMA CodeStep ==
  ASSUME FormInv, [LoginNext]_vars
  PROVE  /\ forms \subseteq forms'
         /\ \A c \in codes' : \/ c \in codes
                              \/ ValidCode(c) /\ \E f \in forms : OwnCode(c, f)
<1>1. forms \subseteq forms'
  <2>1. ASSUME NEW b, NEW r, NEW fields, NEW nonce, NEW retry,
               RenderLoginPage(b, r, fields, nonce, retry)
        PROVE  forms \subseteq forms'
    BY <2>1 DEF RenderLoginPage
  <2>2. ASSUME NEW b \in Browser, NEW p, HandleAuthorizePost(b, p) PROVE forms \subseteq forms'
    BY <2>1, <2>2, PostRenders DEF RenderAuthorizeError
  <2>3. ASSUME NEW g \in loading, HandleAuthorizeGet(g) PROVE forms \subseteq forms'
    BY <2>1, <2>3 DEF HandleAuthorizeGet
  <2>4. CASE UNCHANGED forms
    BY <2>4
  <2> QED BY <2>2, <2>3, <2>4 DEF LoginNext, OpenLogin, Restart, Wait, browserVars, vars
<1>2. ASSUME NEW b \in Browser, NEW f \in Submittable, NEW v \in Variant, NEW ip,
             PostAuthorized(b, Submission(f, v), ip), NEW c \in codes', c \notin codes
      PROVE  f \in forms /\ OwnCode(c, f) /\ ValidCode(c)
  <2> DEFINE p == Submission(f, v)
  <2>1. /\ Verify(p, Carried(b))
        /\ Redirectable(Context(p)) /\ ValidateAuthorizeRequest(Context(p)) = ""
    BY <1>2 DEF PostAuthorized, PostValid
  <2>2. f \in forms
    BY <2>1, ForeignFails DEF Submittable
  <2>3. f.browser = b
    BY <2>1, <2>2, VerifiedIsOwn
  <2>4. p.form = f
    BY DEF Submission
  <2>5. f.signed = OAuthParamsOf(p)
    BY <2>1, <2>4 DEF Verify
  <2>6. \A k \in Key : \/ Context(p)[k] = HiddenFields(OAuthParamsOf(p))[k]
                       \/ Context(p)[k] = <<>> /\ p.query[k] # <<>>
    BY ContextOfSigned
  <2> HIDE DEF p
  <2>7. c = [browser |-> b, form |-> p.form.nr, params |-> Context(p),
             inUrl |-> {k \in Key : p.query[k] # <<>>}]
    BY <1>2 DEF PostAuthorized, p
  <2>8. OwnCode(c, f)
    BY <2>3, <2>4, <2>5, <2>6, <2>7 DEF OwnCode
  <2> QED BY <2>1, <2>2, <2>7, <2>8 DEF ValidCode
<1>3. ASSUME NEW b \in Browser, NEW p, HandleAuthorizePost(b, p)
      PROVE  codes' = codes \/ \E ip : PostAuthorized(b, p, ip)
  BY <1>3 DEF HandleAuthorizePost
<1>4. \/ codes' = codes
      \/ \E b \in Browser, f \in Submittable, v \in Variant :
           HandleAuthorizePost(b, Submission(f, v))
  BY DEF LoginNext, Submittable, OpenLogin, HandleAuthorizeGet, Restart, Wait, vars
<1>5. ASSUME NEW c \in codes', c \notin codes
      PROVE  ValidCode(c) /\ \E f \in forms : OwnCode(c, f)
  <2>1. PICK b \in Browser, f \in Submittable, v \in Variant :
          HandleAuthorizePost(b, Submission(f, v))
    BY <1>4, <1>5
  <2>2. PICK ip : PostAuthorized(b, Submission(f, v), ip)
    BY <1>3, <1>5, <2>1
  <2> QED BY <1>2, <1>5, <2>2
<1> QED BY <1>1, <1>5

\* A code goes to the browser its form was rendered for, with the parameters
\* that form was signed for, less what the POST had in its URL
\* (csrfManager.verify, completeAuthorize).
THEOREM CodesFromOwnForms == LoginSpec => []CodeFromOwnForm
<1>1. LoginInit => CodeFromOwnForm
  BY DEF LoginInit, CodeFromOwnForm
<1>2. FormInv /\ CodeFromOwnForm /\ [LoginNext]_vars => CodeFromOwnForm'
  <2> SUFFICES ASSUME FormInv, CodeFromOwnForm, [LoginNext]_vars, NEW c \in codes'
               PROVE  \E f \in forms' : OwnCode(c, f)
    BY DEF CodeFromOwnForm, OwnCode, HiddenFields
  <2>1. \A d \in codes : \E f \in forms : OwnCode(d, f)
    BY DEF CodeFromOwnForm, OwnCode
  <2> QED BY <2>1, CodeStep
<1> QED BY <1>1, <1>2, FormInvariant, PTL DEF LoginSpec

\* Nothing is a redirect to nobody.
LEMMA NothingSent == Nothing.answer = ""
  BY DEF Nothing

\* A browser is sent only to a registered URI, and codes are for requests that
\* meet the whole policy (clientForAuthorize, validateAuthorizeRequest).
THEOREM SentToRegistered == LoginSpec => []SentWhereRegistered
<1>1. LoginInit => SentWhereRegistered
  BY NothingSent DEF LoginInit, SentWhereRegistered
<1>2. FormInv /\ SentWhereRegistered /\ [LoginNext]_vars => SentWhereRegistered'
  <2> SUFFICES ASSUME FormInv, SentWhereRegistered, [LoginNext]_vars
               PROVE  SentWhereRegistered'
    OBVIOUS
  <2>1. \A c \in codes' : Redirectable(c.params) /\ ValidateAuthorizeRequest(c.params) = ""
    BY CodeStep DEF SentWhereRegistered, ValidCode
  <2>2. ASSUME NEW params, NEW answer, Redirectable(params), RedirectToClient(params, answer)
        PROVE  sent'.client \in Client /\ sent'.uri \in RedirectURIs[sent'.client]
    BY <2>2 DEF RedirectToClient, Redirectable
  <2>3. ASSUME NEW b \in Browser, NEW p, HandleAuthorizePost(b, p)
        PROVE  \/ sent' = Nothing
               \/ sent'.client \in Client /\ sent'.uri \in RedirectURIs[sent'.client]
    BY <2>2, <2>3 DEF HandleAuthorizePost, PostRejected, PostThrottled, PostInvalid,
                      PostUnauthorized, PostAuthorized, PostValid
  <2>4. ASSUME NEW g \in loading, HandleAuthorizeGet(g)
        PROVE  \/ sent' = Nothing
               \/ sent'.client \in Client /\ sent'.uri \in RedirectURIs[sent'.client]
    BY <2>2, <2>4 DEF HandleAuthorizeGet
  <2>5. \/ sent' = sent \/ sent' = Nothing
        \/ sent'.client \in Client /\ sent'.uri \in RedirectURIs[sent'.client]
    BY <2>3, <2>4 DEF LoginNext, OpenLogin, Restart, Wait, vars
  <2>6. sent'.answer # "" => sent'.client \in Client /\ sent'.uri \in RedirectURIs[sent'.client]
    BY <2>5, NothingSent DEF SentWhereRegistered
  <2> QED BY <2>1, <2>6 DEF SentWhereRegistered
<1> QED BY <1>1, <1>2, FormInvariant, PTL DEF LoginSpec

-----------------------------------------------------------------------------
(* The limiter inside the login *)

\* A POST leaves the limiter alone, or has verified and is one attempt of the
\* address it comes from.
LEMMA PostAttempts ==
  ASSUME NEW b \in Browser, NEW p, HandleAuthorizePost(b, p)
  PROVE  \/ UNCHANGED <<limiterVars, callers>>
         \/ /\ Verify(p, Carried(b)) /\ AllowFrom(b, Address[b])
            /\ Attempt(Address[b])
<1>1. ASSUME NEW ip \in SeenAs[b], AllowFrom(b, ip)
      PROVE  AllowFrom(b, Address[b]) /\ Attempt(Address[b])
  <2>1. ip = Address[b]
    BY ClientIPIsReal DEF SeenAs
  <2> QED BY <1>1, <2>1 DEF AllowFrom, Attempt, HandleAuthorizePost
<1>2. \/ UNCHANGED <<limiterVars, callers>>
      \/ /\ Verify(p, Carried(b))
         /\ \E ip \in SeenAs[b] : AllowFrom(b, ip)
  BY DEF HandleAuthorizePost, PostRejected, PostThrottled, PostInvalid, PostUnauthorized,
         PostAuthorized, PostValid
<1> QED BY <1>1, <1>2

\* Every step of the login is, for the limiter, a verified attempt of some
\* browser's address, a tick, a restart or nothing.
LEMMA LimiterSteps ==
  ASSUME FormInv, [LoginNext]_vars
  PROVE  \/ UNCHANGED <<limiterVars, callers>>
         \/ \E b \in Browser, f \in forms, v \in Variant :
              /\ Verify(Submission(f, v), Carried(b)) /\ AllowFrom(b, Address[b])
              /\ Attempt(Address[b]) /\ boot' = boot
         \/ Tick /\ UNCHANGED callers /\ boot' = boot
         \/ Restart
<1>1. ASSUME NEW b \in Browser, NEW f \in Submittable, NEW v \in Variant,
             HandleAuthorizePost(b, Submission(f, v))
      PROVE  \/ UNCHANGED <<limiterVars, callers>>
             \/ /\ f \in forms /\ Verify(Submission(f, v), Carried(b))
                /\ AllowFrom(b, Address[b]) /\ Attempt(Address[b]) /\ boot' = boot
  <2>1. Verify(Submission(f, v), Carried(b)) => f \in forms
    BY ForeignFails DEF Submittable
  <2> QED BY <1>1, <2>1, PostAttempts, PostRenders
<1>2. ASSUME NEW b \in Browser, NEW r \in Request, OpenLogin(b, r)
      PROVE  UNCHANGED <<limiterVars, callers>>
  BY <1>2 DEF OpenLogin
<1>3. ASSUME NEW g \in loading, HandleAuthorizeGet(g) PROVE UNCHANGED <<limiterVars, callers>>
  BY <1>3 DEF HandleAuthorizeGet
<1>4. CASE Wait
  BY <1>4 DEF Wait
<1>5. CASE UNCHANGED vars
  BY <1>5 DEF vars
<1>6. ASSUME NEW b \in Browser, NEW f \in Submittable, NEW v \in Variant,
             HandleAuthorizePost(b, Submission(f, v))
      PROVE  \/ UNCHANGED <<limiterVars, callers>>
             \/ \E d \in Browser, e \in forms, w \in Variant :
                  /\ Verify(Submission(e, w), Carried(d)) /\ AllowFrom(d, Address[d])
                  /\ Attempt(Address[d]) /\ boot' = boot
  BY <1>1, <1>6
<1> QED BY <1>2, <1>3, <1>4, <1>5, <1>6 DEF LoginNext, Submittable

\* Only a submission that verified touches a bucket, and only that of the
\* address it comes from (handleAuthorizePost: verify, then allow with
\* clientIP).
THEOREM BudgetsByVerified == LoginSpec => BudgetByVerified
<1>1. ASSUME FormInv, [LoginNext]_vars
      PROVE  \A ip \in DOMAIN buckets' :
               boot' = boot /\ (ip \in DOMAIN buckets => buckets'[ip] # buckets[ip])
               => \E b \in Browser, f \in forms, v \in Variant :
                    Address[b] = ip /\ Verify(Submission(f, v), Carried(b))
  <2> SUFFICES ASSUME NEW ip \in DOMAIN buckets', boot' = boot,
                      ip \in DOMAIN buckets => buckets'[ip] # buckets[ip]
               PROVE  \E b \in Browser, f \in forms, v \in Variant :
                        Address[b] = ip /\ Verify(Submission(f, v), Carried(b))
    OBVIOUS
  <2>1. CASE UNCHANGED buckets
    BY <2>1
  <2>2. ASSUME NEW b \in Browser, NEW f \in forms, NEW v \in Variant,
               Verify(Submission(f, v), Carried(b)), AllowFrom(b, Address[b])
        PROVE  \E d \in Browser, e \in forms, w \in Variant :
                 Address[d] = ip /\ Verify(Submission(e, w), Carried(d))
    <3>1. CASE PerMinute = 0
      BY <2>1, <2>2, <3>1 DEF AllowFrom, Allow, limiter
    <3>2. CASE PerMinute # 0
      <4>1. buckets' = [k \in Surviving \cup {Address[b]} |->
               IF k = Address[b] THEN [tokens |-> Remaining(Address[b]), last |-> clock]
               ELSE buckets[k]]
        BY <2>2, <3>2 DEF AllowFrom, Allow
      <4>2. ip = Address[b]
        BY <4>1 DEF Surviving
      <4> QED BY <2>2, <4>2
    <3> QED BY <3>1, <3>2
  <2>3. ~Restart
    BY DEF Restart, FormInv, BootInv
  <2> QED BY <1>1, <2>1, <2>2, <2>3, LimiterSteps DEF Tick, limiter, limiterVars
<1> QED BY <1>1, FormInvariant, PTL DEF LoginSpec, BudgetByVerified

\* The log of the limiter and the record of where attempts came from agree:
\* the attempts are numbered, and the address logged is the real one.
CallersInv ==
  /\ \A p, q \in passed : p.n = q.n => p = q
  /\ callers = {[n |-> p.n, addr |-> p.ip] : p \in passed}

LoginWindowInv == FormInv /\ WindowInv /\ CallersInv

\* A restart leaves a new limiter.
LEMMA NewWindowNext == FreshLimiter' => WindowInv'
  BY NewWindow, PTL

LEMMA LoginWindowStep == LoginWindowInv /\ [LoginNext]_vars => LoginWindowInv'
<1> SUFFICES ASSUME LoginWindowInv, [LoginNext]_vars PROVE LoginWindowInv'
  OBVIOUS
<1>1. FormInv'
  BY FormStep DEF LoginWindowInv
<1>2. CASE UNCHANGED <<limiterVars, callers>>
  <2>1. WindowInv'
    BY <1>2, WindowStep DEF LoginWindowInv
  <2>2. CallersInv'
    BY <1>2 DEF LoginWindowInv, CallersInv, limiterVars
  <2> QED BY <1>1, <2>1, <2>2 DEF LoginWindowInv
<1>3. ASSUME NEW b \in Browser, AllowFrom(b, Address[b]), Attempt(Address[b])
      PROVE  LoginWindowInv'
  <2> DEFINE a == Address[b]
  <2>0. a \in IP
    BY LoginAssumption
  <2>1. WindowInv'
    BY <1>3, <2>0, WindowStep DEF LoginWindowInv, Next
  <2>2. CASE ~Permits(a)
    <3>1. passed' = passed /\ callers' = callers
      BY <1>3, <2>0, <2>2, AttemptLog DEF AllowFrom
    <3> QED BY <1>1, <2>1, <3>1 DEF LoginWindowInv, CallersInv
  <2>3. CASE Permits(a)
    <3> DEFINE n == Cardinality(passed) + 1
    <3>1. passed' = passed \cup {Entry(a)} /\ callers' = callers \cup {[n |-> n, addr |-> a]}
      BY <1>3, <2>0, <2>3, AttemptLog DEF AllowFrom
    <3>2. Cardinality(passed) \in Nat
      BY <2>0, EntryFresh DEF LoginWindowInv, WindowInv
    <3>3. \A p \in passed : p.n # n
      BY <3>2 DEF LoginWindowInv, WindowInv, LogOK
    <3>4. Entry(a).n = n /\ Entry(a).ip = a
      BY DEF Entry
    <3> HIDE DEF n
    <3>5. \A p, q \in passed' : p.n = q.n => p = q
      BY <3>1, <3>3, <3>4 DEF LoginWindowInv, CallersInv
    <3>6. callers' = {[n |-> p.n, addr |-> p.ip] : p \in passed'}
      BY <3>1, <3>4 DEF LoginWindowInv, CallersInv
    <3> QED BY <1>1, <2>1, <3>5, <3>6 DEF LoginWindowInv, CallersInv
  <2> QED BY <2>2, <2>3
<1>4. CASE Tick /\ UNCHANGED callers
  <2>1. WindowInv'
    BY <1>4, WindowStep DEF LoginWindowInv, Next
  <2>2. CallersInv'
    BY <1>4 DEF LoginWindowInv, CallersInv, Tick
  <2> QED BY <1>1, <2>1, <2>2 DEF LoginWindowInv
<1>5. CASE Restart
  <2>1. FreshLimiter' /\ passed' = {} /\ callers' = {}
    BY <1>5 DEF Restart, FreshLimiter, NewLimiter, LoginWindowInv, FormInv, BootInv
  <2>2. WindowInv'
    BY <2>1, NewWindowNext
  <2>3. CallersInv'
    BY <2>1 DEF CallersInv
  <2> QED BY <1>1, <2>2, <2>3 DEF LoginWindowInv
<1> QED BY <1>2, <1>3, <1>4, <1>5, LimiterSteps DEF LoginWindowInv

\* The browsers at one address share one budget in every window, whatever
\* headers they send and whichever proxies they come through (clientIP,
\* forwardedClientIP, allow).
THEOREM WindowsPerAddress == LoginSpec => []WindowPerAddress
<1>1. LoginInit => LoginWindowInv
  <2> SUFFICES ASSUME LoginInit PROVE LoginWindowInv
    OBVIOUS
  <2>1. FormInv
    BY DEF LoginInit, Init, FormInv, NonceInv, FieldsInv, BootInv, NoNonce
  <2>2. WindowInv
    BY NewWindow DEF LoginInit, Init, FreshLimiter
  <2>3. CallersInv
    BY DEF LoginInit, Init, CallersInv
  <2> QED BY <2>1, <2>2, <2>3 DEF LoginWindowInv
<1>2. LoginWindowInv => WindowPerAddress
  <2> SUFFICES ASSUME LoginWindowInv, PerMinute > 0, NEW addr \in IP,
                      NEW t1 \in 0 .. clock, NEW t2 \in 0 .. clock, t1 <= t2
               PROVE  Cardinality({p \in passed : /\ t1 <= p.at /\ p.at <= t2
                                     /\ [n |-> p.n, addr |-> addr] \in callers}) * Minute
                        <= Capacity + (t2 - t1) * PerMinute
    BY DEF WindowPerAddress
  <2>1. \A p \in passed : [n |-> p.n, addr |-> addr] \in callers <=> p.ip = addr
    BY DEF LoginWindowInv, CallersInv
  <2>2. {p \in passed : /\ t1 <= p.at /\ p.at <= t2
           /\ [n |-> p.n, addr |-> addr] \in callers} = Window(addr, t1, t2)
    BY <2>1 DEF Window
  <2>3. PassedIn(addr, t1, t2) * Minute <= Capacity + (t2 - t1) * PerMinute
    BY DEF LoginWindowInv, WindowInv, WindowBound
  <2>4. PassedIn(addr, t1, t2) = Cardinality(Window(addr, t1, t2))
    BY DEF PassedIn, Window
  <2> QED BY <2>2, <2>3, <2>4
<1> QED BY <1>1, <1>2, LoginWindowStep, PTL DEF LoginSpec
=============================================================================
