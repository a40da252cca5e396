----------------------------- MODULE ClientAuth -----------------------------
(***************************************************************************)
(* Who a request speaks for: authenticateClient at the token endpoint and  *)
(* requireClientAuth in front of /introspect and /revoke (handlers.go).    *)
(* Both are functions of one request and the loaded clients file; TLC      *)
(* evaluates them on every combination of credentials.                     *)
(***************************************************************************)
EXTENDS Integers

CONSTANTS
  Text,          \* strings a credential may be, before or after decoding
  Absent,        \* the empty string
  Unescaped,     \* url.QueryUnescape: [Text -> Text \cup {BadEscape}]
  BadEscape,     \* QueryUnescape reports an error
  Client,        \* registered client ids, a set of Text
  Confidential,  \* those of type "confidential"
  Secret,        \* [Confidential -> Text]
  NoClient       \* the request was refused

ASSUME CredentialAssumption ==
  /\ Confidential \subseteq Client /\ Client \subseteq Text
  /\ Secret \in [Confidential -> Text]
  /\ Unescaped \in [Text -> Text \cup {BadEscape}]
  /\ Absent \notin Text /\ BadEscape \notin Text /\ NoClient \notin Text

\* The Basic header, if one was sent, and the client_id and client_secret form
\* fields.
NoBasic == [sent |-> FALSE, user |-> Absent, pw |-> Absent]
Basic == [sent: {TRUE}, user: Text \cup {Absent}, pw: Text \cup {Absent}] \cup {NoBasic}
Request == [basic: Basic, id: Text \cup {Absent}, secret: Text \cup {Absent}]

Decoded(t) == IF t = Absent THEN Absent ELSE Unescaped[t]

VARIABLES
  request,
  presenter,  \* what authenticateClient returns, NoClient until it has run
  admitted    \* what requireClientAuth returns

vars == <<request, presenter, admitted>>

-----------------------------------------------------------------------------
\* identifyFormClient: a public client names itself, a confidential one also
\* shows its secret.
IdentifyFormClient(r) ==
  IF r.id \in Client /\ (r.id \in Confidential => r.secret = Secret[r.id])
  THEN r.id ELSE NoClient

\* Fault: a wrong Basic secret falls back to the form fields.
BasicFallsBack(r, user, pw) ==
  IF user = BadEscape \/ pw = BadEscape \/ user \notin Client THEN NoClient
  ELSE IF user \in Confidential /\ pw = Secret[user] /\ r.id \in {Absent, user}
  THEN user ELSE IdentifyFormClient(r)

\* Fault: the form may name somebody else than the Basic header.
BasicAnyFormId(r, user, pw) ==
  IF user = BadEscape \/ pw = BadEscape \/ user \notin Client THEN NoClient
  ELSE IF user \notin Confidential THEN IdentifyFormClient(r)
  ELSE IF pw = Secret[user] THEN user ELSE NoClient

\* authClientBasic for the decoded user name and password: the named client's
\* own secret; a header naming a public client counts for nothing.
AuthClientBasic(r, user, pw) ==
  IF user = BadEscape \/ pw = BadEscape \/ user \notin Client THEN NoClient
  ELSE IF user \notin Confidential THEN IdentifyFormClient(r)
  ELSE IF pw = Secret[user] /\ r.id \in {Absent, user} THEN user ELSE NoClient

AuthenticateClient(r) ==
  IF r.basic = NoBasic THEN IdentifyFormClient(r)
  ELSE AuthClientBasic(r, Decoded(r.basic.user), Decoded(r.basic.pw))

\* Fault: naming a confidential client in the form is enough.
FormSecretUnchecked(r) ==
  \/ Confidential = {}
  \/ r.id \in Confidential

\* requireClientAuth: the user name is decoded, the password is compared as it
\* came; then the form pair is tried.
RequireClientAuth(r) ==
  \/ Confidential = {}
  \/ /\ r.basic # NoBasic /\ Decoded(r.basic.user) \in Confidential
     /\ r.basic.pw = Secret[Decoded(r.basic.user)]
  \/ r.id \in Confidential /\ r.secret = Secret[r.id]

\* A request reaches the endpoints.
Receive ==
  /\ presenter' = AuthenticateClient(request)
  /\ admitted' = RequireClientAuth(request)
  /\ UNCHANGED request

Init == request \in Request /\ presenter = NoClient /\ admitted = FALSE
Next == Receive
Spec == Init /\ [][Next]_vars

-----------------------------------------------------------------------------
(* Properties *)

\* The pairs of client and secret a request shows, in either place.
Shown(r) == {<<r.id, r.secret>>} \cup
  (IF r.basic = NoBasic THEN {}
   ELSE {<<Decoded(r.basic.user), Decoded(r.basic.pw)>>,
         <<Decoded(r.basic.user), r.basic.pw>>})

\* A request acts for a confidential client only when it shows that client's
\* own secret next to its id, whatever else it carries, and acts for nobody
\* whom its Basic credentials or its client_id field contradict
\* (authenticateClient, RFC 9700 conflict rule).
OwnSecretOnly ==
  presenter # NoClient =>
    /\ presenter \in Confidential =>
         <<presenter, Secret[presenter]>> \in Shown(request)
    /\ request.id \in {Absent, presenter}
    /\ Decoded(request.basic.user) \in Confidential =>
         Decoded(request.basic.user) = presenter

\* With a confidential client registered, /introspect and /revoke answer only
\* requests that show some confidential client's own secret
\* (requireClientAuth tries Basic, then the form).
NoFreeProbe ==
  admitted /\ Confidential # {} =>
    \E c \in Confidential : <<c, Secret[c]>> \in Shown(request)
=============================================================================
