-------------------------- MODULE MCTokenService --------------------------
(***************************************************************************)
(* Small instances of TokenService: a public client that always uses PKCE  *)
(* and a confidential one registered for client_credentials as well, each  *)
(* with one redirect URI.                                                  *)
(***************************************************************************)
EXTENDS TokenServiceChain, TokenServiceInv, TLC

CONSTANTS spa, svc, uri1, uri2

MCGrantTypes == spa :> {"authorization_code"}
             @@ svc :> {"authorization_code", "refresh_token",
                        "client_credentials"}
MCRedirectURIs == spa :> {uri1} @@ svc :> {uri2}
WorkerSymmetry == Permutations(Worker)
===========================================================================
