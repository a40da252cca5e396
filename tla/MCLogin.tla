------------------------------ MODULE MCLogin ------------------------------
(* TLC instance of Login: two browsers behind one address, reaching the      *)
(* server directly or through proxies and naming other addresses; a public   *)
(* and a confidential client; requests that are good, have a blank or an     *)
(* unechoed parameter, or that the client, the redirect_uri or the scope     *)
(* spoils; POSTs that carry parameters in their URL.                         *)
EXTENDS Login, TLC

MCAddress == [b \in Browser |-> "home"]
MCChain == {<<>>, <<"edge">>, <<"lb", "edge">>}
MCHeader == {[xff |-> <<>>, real |-> "other"], [xff |-> <<"other", Malformed>>, real |-> Malformed]}

MCRedirectURIs == "spa" :> {"spa.example"} @@ "web" :> {"web.example"}
MCAllowedScopes == "spa" :> {"read"} @@ "web" :> {}
MCScopeFields == "openid read" :> {"openid", "read"} @@ "openid" :> {"openid"}

Good == [k \in Param |->
  CASE k = "client_id" -> <<"spa">> [] k = "redirect_uri" -> <<"spa.example">>
    [] k = "response_type" -> <<"code">> [] k = "scope" -> <<"openid read">>
    [] k = "code_challenge" -> <<"digest">> [] k = "code_challenge_method" -> <<"S256">>
    [] OTHER -> <<>>]

MCRequest == {
  Good,
  [Good EXCEPT !["prompt"] = <<"none">>],
  [Good EXCEPT !["client_id"] = <<"web">>, !["redirect_uri"] = <<"web.example">>,
               !["scope"] = <<"openid">>, !["state"] = <<Blank>>, !["prompt"] = <<"login">>],
  [Good EXCEPT !["redirect_uri"] = <<"web.example", "spa.example">>]}

\* The form as it is; one field left out and sent in the URL, with a second
\* value for another.
MCVariant == {
  [body |-> << >>, query |-> NoParams],
  [body |-> "code_challenge" :> <<>>,
   query |-> [NoParams EXCEPT !["code_challenge"] = <<"digest">>,
                              !["redirect_uri"] = <<"spa.example">>]]}

MCValue == UNION {{r[k][i] : i \in DOMAIN r[k]} : r \in Request, k \in Param}

BrowserSymmetry == Permutations(Browser)
=============================================================================
