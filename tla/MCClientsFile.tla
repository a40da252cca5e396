--------------------------- MODULE MCClientsFile ---------------------------
(***************************************************************************)
(* TLC instances of ClientsFile: a browser application and a batch job,    *)
(* flags that fit them and flags that do not, and files an operator may    *)
(* have left, one of them with a role registry and one invalid.            *)
(***************************************************************************)
EXTENDS ClientsFile, TLC

Spa == [type |-> "public", secret |-> FALSE, aud |-> NoAudience, grants |-> {},
        ccScopes |-> FALSE, ccRoles |-> {}, allowed |-> {},
        redirects |-> {"good"}, others |-> {}]
Job == [Spa EXCEPT !.type = "confidential", !.secret = TRUE,
                   !.grants = {"client_credentials"}, !.ccScopes = TRUE,
                   !.redirects = {}]
NoRedirect == [Spa EXCEPT !.redirects = {}]
SpaSecret == [Spa EXCEPT !.secret = TRUE]

MCAddForms == {SpaSecret, Job, NoRedirect}

MCChanges ==
  {[type |-> "public"], [type |-> "confidential", secret |-> TRUE],
   [secret |-> TRUE], [grants |-> {}], [grants |-> {}, ccScopes |-> FALSE],
   [aud |-> "job", allowed |-> {"job"}], [ccRoles |-> {"user"}],
   [others |-> {"bad"}], << >>}

Alice == [alice |-> {"user"}]
App == Spa @@ [id |-> "app", users |-> Alice]
Batch == Job @@ [id |-> "job", users |-> << >>]

Plain == [clients |-> <<App, Batch>>, resources |-> << >>]
WithRoles == [clients |-> <<App>>, resources |-> [app |-> {"user"}]]
NoRoles == [clients |-> <<App>>, resources |-> [app |-> {}]]

ToolSymmetry == Permutations(Tool)

MCInitialFiles == {Absent, Plain, WithRoles, NoRoles}
RolesOnly == {WithRoles}
=============================================================================
