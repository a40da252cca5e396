-------------------------- MODULE ClientAuthProofs --------------------------
(***************************************************************************)
(* Theorems about ClientAuth, for any set of clients, secrets and strings  *)
(* a request may carry, and any decoding of them.                          *)
(***************************************************************************)
EXTENDS ClientAuth, TLAPS

\* What the two functions answered, they answered for the request at hand.
AnswerInv ==
  /\ request \in Request
  /\ presenter \in {NoClient, AuthenticateClient(request)}
  /\ admitted => RequireClientAuth(request)

LEMMA AnswerInvariant == Spec => []AnswerInv
<1>1. Init => AnswerInv
  BY DEF Init, AnswerInv
<1>2. AnswerInv /\ [Next]_vars => AnswerInv'
  BY DEF AnswerInv, Next, Receive, vars
<1> QED BY <1>1, <1>2, PTL DEF Spec

\* identifyFormClient names the client of the form, and a confidential one only
\* next to its secret.
LEMMA FormShows ==
  ASSUME NEW r, IdentifyFormClient(r) # NoClient
  PROVE  /\ IdentifyFormClient(r) = r.id
         /\ r.id \in Confidential => <<r.id, Secret[r.id]>> \in Shown(r)
<1>1. IdentifyFormClient(r) = r.id /\ (r.id \in Confidential => r.secret = Secret[r.id])
  BY DEF IdentifyFormClient
<1> QED BY <1>1 DEF Shown

\* authenticateClient acts for a confidential client only when the request
\* shows that client's own secret, and never against its Basic header or its
\* client_id field.
THEOREM ConfidentialNeedsSecret == Spec => []OwnSecretOnly
<1>1. AnswerInv => OwnSecretOnly
  <2> SUFFICES ASSUME AnswerInv, presenter # NoClient
               PROVE  /\ presenter \in Confidential =>
                           <<presenter, Secret[presenter]>> \in Shown(request)
                      /\ request.id \in {Absent, presenter}
                      /\ Decoded(request.basic.user) \in Confidential =>
                           Decoded(request.basic.user) = presenter
    BY DEF OwnSecretOnly
  <2> DEFINE user == Decoded(request.basic.user)
             pw == Decoded(request.basic.pw)
  <2>1. presenter = AuthenticateClient(request)
    BY DEF AnswerInv
  <2>2. CASE request.basic = NoBasic
    <3>1. presenter = IdentifyFormClient(request)
      BY <2>1, <2>2 DEF AuthenticateClient
    <3>2. user \notin Confidential
      BY <2>2, CredentialAssumption DEF NoBasic, Decoded
    <3> QED BY <3>1, <3>2, FormShows
  <2>3. CASE request.basic # NoBasic /\ user \in Confidential
    <3>1. presenter = user /\ pw = Secret[user] /\ request.id \in {Absent, user}
      BY <2>1, <2>3, CredentialAssumption DEF AuthenticateClient, AuthClientBasic
    <3> QED BY <2>3, <3>1 DEF Shown
  <2>4. CASE request.basic # NoBasic /\ user \notin Confidential
    <3>1. presenter = IdentifyFormClient(request)
      BY <2>1, <2>4 DEF AuthenticateClient, AuthClientBasic
    <3> QED BY <2>4, <3>1, FormShows
  <2> QED BY <2>2, <2>3, <2>4
<1> QED BY <1>1, AnswerInvariant, PTL

\* /introspect and /revoke answer only a request that shows the secret of some
\* confidential client, once there is one (requireClientAuth).
THEOREM ProbesNeedSecret == Spec => []NoFreeProbe
<1>1. AnswerInv => NoFreeProbe
  BY DEF AnswerInv, NoFreeProbe, RequireClientAuth, Shown
<1> QED BY <1>1, AnswerInvariant, PTL
=============================================================================
