------------------------------- MODULE Login -------------------------------
(***************************************************************************)
(* Signing in: GET /authorize validates the request and renders a form     *)
(* with a signed token bound to the browser's nonce cookie, POST /authorize*)
(* verifies it, consults the rate limiter under the client's address,      *)
(* validates again, checks the credentials and issues a code (handlers.go, *)
(* csrf.go, clientIP in server.go, the limiter of module RateLimiter).     *)
(*                                                                         *)
(* The server keeps nothing of a form: what was rendered, and the cookie,  *)
(* live in the browsers.  A browser may have several GETs under way (tabs) *)
(* and a response takes effect when it arrives.  A POST has the store and  *)
(* the limiter as its only shared state and is one step.                   *)
(***************************************************************************)
EXTENDS RateLimiter, Sequences

CONSTANTS
  Browser,
  Address,     \* [Browser -> IP]: where a browser really is
  Trusted,     \* the addresses in the TRUSTED_PROXIES ranges
  Chain,       \* chains of trusted proxies a request may pass; <<>> is none
  Header,      \* what a browser may send: xff, the X-Forwarded-For entries,
               \* and real, the X-Real-IP
  Malformed,   \* an entry that is no address
  Value,       \* values of parameters
  Request,     \* parameters of a request: a sequence of values for each name
  Variant,     \* how a POST may differ from the form: fields replaced in its
               \* body, and parameters in its URL
  Key,         \* the names in oauthParamKeys
  Param,       \* those and the ones that are validated but not echoed
  Blank,       \* the empty parameter value
  RedirectURIs,  \* per registered client: its redirect_uris
  Confidential,  \* the clients of that type
  AllowedScopes, \* per registered client: its allowed_scopes
  ScopeFields, \* per scope parameter: its fields
  Challenge,   \* well-formed PKCE challenges
  CSRFTTL,     \* lifetime of a form token and of the nonce cookie
  MaxForms,    \* bound: forms rendered
  MaxBoots     \* bound: starts of the process

Client == DOMAIN RedirectURIs

ASSUME LoginAssumption ==
  /\ Address \in [Browser -> IP \ Trusted]
  /\ Trusted \subseteq IP /\ Chain \subseteq Seq(Trusted)
  /\ Malformed \notin IP
  /\ \A h \in Header : h \in [xff: Seq(IP \cup {Malformed}), real: IP \cup {Malformed}]
  /\ Key \subseteq Param /\ Request \subseteq [Param -> Seq(Value)]
  /\ \A v \in Variant : /\ DOMAIN v.body \subseteq Key
                        /\ \A k \in DOMAIN v.body : v.body[k] \in Seq(Value)
                        /\ v.query \in [Key -> Seq(Value)]
  /\ Blank \notin Client /\ \A c \in Client : Blank \notin RedirectURIs[c]
  /\ DOMAIN AllowedScopes = Client /\ Blank \notin Challenge
  /\ CSRFTTL \in Nat /\ MaxForms \in Nat /\ MaxBoots \in Nat

NoNonce == 0

VARIABLES
  cookie,   \* per browser: the nonce cookie it holds
  loading,  \* GETs under way: the browser, the request, the nonce it carried
  forms,    \* forms on a page somewhere, with their hidden fields and token
  nonces,   \* number of nonces drawn
  boot,     \* which start of the process is running: it names the CSRF secret
  codes,    \* authorization codes issued: by which browser, from which form
  sent,     \* the redirect to a client that the last step was: which, where,
            \* with what
  callers   \* history: where the attempts in passed really came from

browserVars == <<cookie, loading, forms>>
vars == <<limiterVars, browserVars, nonces, boot, codes, sent, callers>>

Nothing == [client |-> Blank, uri |-> Blank, answer |-> ""]

-----------------------------------------------------------------------------
(* The address of a client *)

\* A request with header h through a chain of proxies: each appends the address
\* it was called from to X-Forwarded-For.
Relayed(b, chain, h) ==
  LET hops == <<Address[b]>> \o chain
  IN  [remote |-> hops[Len(hops)], real |-> h.real,
       xff |-> h.xff \o SubSeq(hops, 1, Len(hops) - 1)]

\* The requests of a browser as they reach the server: through a chain, or
\* through one proxy that sends its address as X-Real-IP and nothing else.
Arriving(b) ==
  {Relayed(b, chain, h) : chain \in Chain, h \in Header}
  \cup {[remote |-> p, real |-> Address[b], xff |-> <<>>] : p \in Trusted}

\* Fault: the chain is read from the left.
LeftmostIP(xff, host) ==
  LET usable == {i \in DOMAIN xff : xff[i] \in IP \ Trusted}
  IN  IF usable = {} THEN host
      ELSE xff[CHOOSE i \in usable : \A j \in usable : i <= j]

\* forwardedClientIP: the rightmost entry that is an address and not a proxy.
ForwardedClientIP(xff, host) ==
  LET usable == {i \in DOMAIN xff : xff[i] \in IP \ Trusted}
  IN  IF usable = {} THEN host
      ELSE xff[CHOOSE i \in usable : \A j \in usable : j <= i]

\* clientIP, ipTrusted.
ClientIP(r) ==
  IF r.remote \notin Trusted THEN r.remote
  ELSE IF r.xff # <<>> THEN ForwardedClientIP(r.xff, r.remote)
  ELSE IF r.real \in IP \ Trusted THEN r.real
  ELSE r.remote

\* The addresses that clientIP may take a browser's for.
SeenAs == [b \in Browser |-> {ClientIP(r) : r \in Arriving(b)}]

-----------------------------------------------------------------------------
(* Which requests are acceptable: functions of the parameters *)

\* url.Values.Get: the first value.
Get(params, k) ==
  IF k \notin DOMAIN params \/ params[k] = <<>> THEN Blank ELSE Head(params[k])

\* clientForAuthorize reports no problem: only then may the browser be sent to
\* the redirect_uri, with an error or a code.
Redirectable(params) ==
  /\ Get(params, "client_id") \in Client
  /\ Get(params, "redirect_uri") \in RedirectURIs[Get(params, "client_id")]

\* validatePKCEParams.
PKCEValid(params) ==
  IF Get(params, "code_challenge") = Blank
  THEN Get(params, "client_id") \in Confidential
  ELSE /\ Get(params, "code_challenge_method") = "S256"
       /\ Get(params, "code_challenge") \in Challenge

\* parseScopes, validateScopesFor.
ScopesValid(params) ==
  Get(params, "scope") # Blank =>
    ScopeFields[Get(params, "scope")] \subseteq
      {"openid", "profile", "email"} \cup AllowedScopes[Get(params, "client_id")]

\* validateAuthorizeRequest, validatePrompt: the error, or "".  The parameters
\* that are refused whatever their value are one, "max_age".
ValidateAuthorizeRequest(params) ==
  IF Get(params, "response_type") # "code" THEN "unsupported_response_type"
  ELSE IF ~PKCEValid(params) THEN "invalid_request"
  ELSE IF Get(params, "prompt") = "none" THEN "login_required"
  ELSE IF \/ Get(params, "prompt") \notin {Blank, "login"}
          \/ Get(params, "response_mode") \notin {Blank, "query"}
          \/ Get(params, "max_age") # Blank THEN "invalid_request"
  ELSE IF ~ScopesValid(params) THEN "invalid_scope" ELSE ""

\* redirectToClient, registeredRedirect.
RedirectToClient(params, answer) ==
  sent' = [client |-> Get(params, "client_id"),
           uri |-> Get(params, "redirect_uri"), answer |-> answer]

-----------------------------------------------------------------------------
(* The parameters a form carries *)

\* oauthHiddenFields, oauthContextOf: first values, blank ones left out.
HiddenFields(params) ==
  [k \in Key |-> IF params[k] = <<>> \/ Head(params[k]) = Blank THEN <<>>
                 ELSE <<Head(params[k])>>]

\* Parameters that nobody sent.
NoParams == [k \in Key |-> <<>>]

\* A POST of form f: its fields, or what variant v puts in their place, in the
\* body, and a URL with the parameters of v.
Submission(f, v) ==
  [form |-> f, query |-> v.query, plain |-> v.body = << >> /\ v.query = NoParams,
   body |-> [k \in Key |-> IF k \in DOMAIN v.body THEN v.body[k] ELSE f.hidden[k]]]

\* The browser submits the form as it is; its action has no parameters.
AsRendered(f) == Submission(f, [body |-> << >>, query |-> NoParams])

\* oauthParamsOf: all values of the known names in r.Form, which has those of
\* the body and then those of the URL; the digest of fingerprint tells any two
\* of them apart.
OAuthParamsOf(r) == [k \in Key |-> r.body[k] \o r.query[k]]

\* oauthContextOf: the body alone, r.PostForm.
Context(r) == HiddenFields(r.body)

\* Fault: a form rendered by POST signs what it echoes twice over.
FormSignsTwice(browser, r, fields, nonce, retry) ==
  [nr |-> Cardinality(forms) + 1, browser |-> browser, hidden |-> HiddenFields(fields),
   signed |-> [k \in Key |-> IF retry THEN r.body[k] \o r.body[k] ELSE OAuthParamsOf(r)[k]],
   nonce |-> nonce, secret |-> boot, exp |-> clock + CSRFTTL, retry |-> retry]

\* csrfManager.issue, over all that request r carries; the form shows fields.
\* nr numbers the forms, retry marks one rendered in answer to a form of ours.
Form(browser, r, fields, nonce, retry) ==
  [nr |-> Cardinality(forms) + 1, browser |-> browser, hidden |-> HiddenFields(fields),
   signed |-> OAuthParamsOf(r), nonce |-> nonce, secret |-> boot,
   exp |-> clock + CSRFTTL, retry |-> retry]

\* csrfNonce: an expired cookie is not sent.
Carried(b) == IF clock < cookie[b].exp THEN cookie[b].nonce ELSE NoNonce

\* Fault: the token is not compared with the browser's nonce.
VerifyAnyNonce(p, nonce) ==
  /\ nonce # NoNonce
  /\ p.form.secret = boot
  /\ clock <= p.form.exp
  /\ p.form.signed = OAuthParamsOf(p)

\* csrfManager.verify of the token in submission p, sent with nonce.
Verify(p, nonce) ==
  /\ nonce # NoNonce
  /\ p.form.secret = boot
  /\ clock <= p.form.exp
  /\ p.form.nonce = nonce
  /\ p.form.signed = OAuthParamsOf(p)

\* renderLoginPage: a nonce, with its cookie, only for a browser without one.
RenderLoginPage(b, r, fields, carried, retry) ==
  /\ Cardinality(forms) < MaxForms
  /\ \/ /\ carried # NoNonce
        /\ forms' = forms \cup {Form(b, r, fields, carried, retry)}
        /\ UNCHANGED <<cookie, nonces>>
     \/ /\ carried = NoNonce
        /\ nonces' = nonces + 1
        /\ forms' = forms \cup {Form(b, r, fields, nonces', retry)}
        /\ cookie' = [cookie EXCEPT ![b] = [nonce |-> nonces', exp |-> clock + CSRFTTL]]

\* renderAuthorizeError: signed for all that the POST carried, showing what was
\* in its body.
RenderAuthorizeError(b, p) ==
  RenderLoginPage(b, p, p.body, Carried(b), p.form.nr # 0 /\ p.plain)

-----------------------------------------------------------------------------
\* The browser sends GET /authorize with the cookie it has.
OpenLogin(b, request) ==
  /\ Cardinality(loading) + Cardinality(forms) < MaxForms
  /\ loading' = loading \cup {[browser |-> b, params |-> request, nonce |-> Carried(b)]}
  /\ sent' = Nothing
  /\ UNCHANGED <<limiterVars, cookie, forms, nonces, boot, codes, callers>>

\* handleAuthorizeGet answers, and the page, with its cookie, or the redirect
\* arrives: an error page, an error for the client, or the form.
HandleAuthorizeGet(g) ==
  /\ \/ /\ ~Redirectable(g.params)
        /\ sent' = Nothing
        /\ UNCHANGED <<cookie, forms, nonces>>
     \/ /\ Redirectable(g.params) /\ ValidateAuthorizeRequest(g.params) # ""
        /\ RedirectToClient(g.params, ValidateAuthorizeRequest(g.params))
        /\ UNCHANGED <<cookie, forms, nonces>>
     \/ /\ Redirectable(g.params) /\ ValidateAuthorizeRequest(g.params) = ""
        /\ RenderLoginPage(g.browser, [body |-> NoParams, query |-> g.params], g.params,
                           g.nonce, FALSE)
        /\ sent' = Nothing
  /\ loading' = loading \ {g}
  /\ UNCHANGED <<limiterVars, boot, codes, callers>>

\* A form submitted from elsewhere: any fields, and no token of ours.
Foreign(params) ==
  [nr |-> 0, hidden |-> [k \in Key |-> params[k]], signed |-> NoParams,
   nonce |-> NoNonce, secret |-> 0, exp |-> 0]

\* allow for a POST of browser b, resolved to ip.
AllowFrom(b, ip) ==
  /\ Allow(ip)
  /\ callers' = callers \cup
       (IF Permits(ip) THEN {[n |-> Cardinality(passed) + 1, addr |-> Address[b]]} ELSE {})
  /\ UNCHANGED clock

\* Fault: the limiter is asked before the token is verified.
PostLimitsFirst(b, p) ==
  /\ ~Verify(p, Carried(b))
  /\ AllowFrom(b, Address[b])
  /\ RenderAuthorizeError(b, p)
  /\ sent' = Nothing

\* handleAuthorizePost, submitted by browser b, which need not be the one the
\* form was rendered for.  Its checks, in order.
PostRejected(b, p) ==
  /\ ~Verify(p, Carried(b))
  /\ RenderAuthorizeError(b, p)
  /\ sent' = Nothing
  /\ UNCHANGED <<limiterVars, callers>>

PostThrottled(b, p, ip) ==
  /\ Verify(p, Carried(b))
  /\ ~Permits(ip) /\ AllowFrom(b, ip)
  /\ RenderAuthorizeError(b, p)
  /\ sent' = Nothing

\* authorizeContext validates what the body echoed: an error page, or an error
\* for the client.
PostInvalid(b, p, ip) ==
  /\ Verify(p, Carried(b))
  /\ Permits(ip) /\ AllowFrom(b, ip)
  /\ \/ ~Redirectable(Context(p)) /\ sent' = Nothing
     \/ /\ Redirectable(Context(p)) /\ ValidateAuthorizeRequest(Context(p)) # ""
        /\ RedirectToClient(Context(p), ValidateAuthorizeRequest(Context(p)))
  /\ UNCHANGED <<cookie, forms, nonces>>

\* Fault: what the form echoes is trusted because its token verified.
EchoTrusted(b, p, ip) ==
  /\ Verify(p, Carried(b))
  /\ Permits(ip) /\ AllowFrom(b, ip)

\* The POST gets as far as the credentials.
PostValid(b, p, ip) ==
  /\ Verify(p, Carried(b))
  /\ Permits(ip) /\ AllowFrom(b, ip)
  /\ Redirectable(Context(p)) /\ ValidateAuthorizeRequest(Context(p)) = ""

\* authenticate refuses the credentials, or addCode fails.
PostUnauthorized(b, p, ip) ==
  /\ PostValid(b, p, ip)
  /\ RenderAuthorizeError(b, p)
  /\ sent' = Nothing

\* The credentials are right: completeAuthorize.  inUrl is history: what the URL
\* of the POST named.
PostAuthorized(b, p, ip) ==
  /\ PostValid(b, p, ip)
  /\ codes' = codes \cup {[browser |-> b, form |-> p.form.nr, params |-> Context(p),
                           inUrl |-> {k \in Key : p.query[k] # <<>>}]}
  /\ RedirectToClient(Context(p), "code")
  /\ UNCHANGED <<cookie, forms, nonces>>

HandleAuthorizePost(b, p) ==
  /\ Cardinality(passed) < MaxAttempts
  /\ \/ PostRejected(b, p) /\ UNCHANGED codes
     \/ \E ip \in SeenAs[b] :
          \/ /\ PostThrottled(b, p, ip) \/ PostInvalid(b, p, ip)
                \/ PostUnauthorized(b, p, ip)
             /\ UNCHANGED codes
          \/ PostAuthorized(b, p, ip)
  /\ UNCHANGED <<loading, boot>>

\* The process starts anew: New draws a CSRF secret and an empty limiter.
Restart ==
  /\ boot < MaxBoots
  /\ boot' = boot + 1
  /\ buckets' = [ip \in {} |-> [tokens |-> 0, last |-> 0]] /\ lastSweep' = clock
  /\ passed' = {} /\ callers' = {}
  /\ sent' = Nothing
  /\ UNCHANGED <<clock, browserVars, nonces, codes>>

Wait ==
  /\ Tick
  /\ sent' = Nothing
  /\ UNCHANGED <<browserVars, nonces, boot, codes, callers>>

LoginInit ==
  /\ Init
  /\ cookie = [b \in Browser |-> [nonce |-> NoNonce, exp |-> 0]]
  /\ loading = {} /\ forms = {} /\ nonces = 0 /\ boot = 1 /\ codes = {}
  /\ callers = {} /\ sent = Nothing

LoginNext ==
  \/ \E b \in Browser :
       \/ \E r \in Request : OpenLogin(b, r)
       \/ \E f \in forms \cup {Foreign(r) : r \in Request} : \E v \in Variant :
            HandleAuthorizePost(b, Submission(f, v))
  \/ \E g \in loading : HandleAuthorizeGet(g)
  \/ Restart
  \/ Wait

LoginSpec == LoginInit /\ [][LoginNext]_vars

-----------------------------------------------------------------------------
(* Properties *)

\* A code goes to the browser its form was rendered for, and each of its
\* parameters is the one that form was signed for: a form rendered for one
\* browser is worth nothing in another, and no field of it can be exchanged (the
\* nonce and the fingerprint in csrfManager.verify).  The fingerprint covers the
\* URL too and the code does not, so a parameter that the POST had in its URL
\* may be missing from the code.
CodeFromOwnForm ==
  \A c \in codes : \E f \in forms :
    /\ f.nr = c.form /\ f.browser = c.browser
    /\ \A k \in Key : \/ c.params[k] = HiddenFields(f.signed)[k]
                      \/ c.params[k] = <<>> /\ k \in c.inUrl

\* A form that POST rendered in answer to a form submitted as it was is one the
\* browser can submit: while the cookie, the token and the process it was made
\* for are there, it verifies, also when the form it answers did not
\* (HiddenFields is idempotent, and renderAuthorizeError signs what it echoes).
RetryVerifies ==
  \A f \in forms :
    /\ f.retry /\ f.secret = boot /\ clock <= f.exp
    /\ Carried(f.browser) = f.nonce
    => Verify(AsRendered(f), Carried(f.browser))

\* A browser is sent to a client only at a URI registered for it, and with a
\* code only for a request that meets the whole policy of /authorize, also when
\* the form it submitted was rendered for parameters that no GET had validated
\* (clientForAuthorize and validateAuthorizeRequest in authorizeContext).
SentWhereRegistered ==
  /\ sent.answer # "" => /\ sent.client \in Client
                         /\ sent.uri \in RedirectURIs[sent.client]
  /\ \A c \in codes : Redirectable(c.params) /\ ValidateAuthorizeRequest(c.params) = ""

\* Only a POST whose form verified draws on a budget, and on that of the
\* address it really comes from: junk, and headers that name other addresses,
\* leave everybody's bucket alone (handleAuthorizePost calls allow after
\* verify, with clientIP).
BudgetByVerified ==
  [][\A ip \in DOMAIN buckets' :
       boot' = boot /\ (ip \in DOMAIN buckets => buckets'[ip] # buckets[ip])
       => \E b \in Browser, f \in forms, v \in Variant :
            Address[b] = ip /\ Verify(Submission(f, v), Carried(b))]_vars

\* In every window the browsers at one address get through at most one
\* address's burst and refill, whatever they send in X-Forwarded-For or
\* X-Real-IP and by whichever proxies (clientIP, forwardedClientIP, allow).
WindowPerAddress ==
  PerMinute > 0 =>
    \A addr \in IP, t1, t2 \in 0 .. clock :
      LET from == {p \in passed : /\ t1 <= p.at /\ p.at <= t2
                                  /\ [n |-> p.n, addr |-> addr] \in callers}
      IN  t1 <= t2 => Cardinality(from) * Minute <= Capacity + (t2 - t1) * PerMinute
=============================================================================
