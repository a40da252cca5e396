---------------------------- MODULE MCClientAuth ----------------------------
(* TLC instance of ClientAuth: a public client, a confidential one with a    *)
(* plain secret and one whose secret has a reserved character.               *)
EXTENDS ClientAuth, TLC

MCText == {"spa", "svc", "api", "plain", "a+b", "a%2Bb", "a b", "%zz"}
MCClient == {"spa", "svc", "api"}
MCConfidential == {"svc", "api"}
MCSecret == "svc" :> "plain" @@ "api" :> "a+b"
MCUnescaped == [t \in MCText |->
  CASE t = "a%2Bb" -> "a+b" [] t = "a+b" -> "a b" [] t = "%zz" -> BadEscape
    [] OTHER -> t]
=============================================================================
