------------------------------ MODULE MCClaims ------------------------------
(* TLC instance of Claims: clients A and B in either order or alone, sharing *)
(* an audience or not, one with the other's id as its audience, with a user  *)
(* name in common whose record changes or goes between two files.            *)
EXTENDS Claims, TLC

User(email, roles) == [email |-> email, name |-> email, roles |-> roles]

Entry(id, aud, users, names, cc) ==
  [id |-> id, aud |-> aud, users |-> users, interactive |-> ~cc,
   confidential |-> cc, cc |-> cc, ccRoles |-> IF cc THEN {"app"} ELSE {},
   ccScopes |-> IF cc THEN {OpenID, <<"api", "run">>} ELSE {},
   allowed |-> {<<aud, n>> : n \in names},
   logout |-> {IF id = "A" THEN "a.example" ELSE "b.example"}]

NoUsers == [n \in {} |-> User(None, {})]

EntriesA ==
  {Entry("A", aud, users, names, FALSE) :
     aud \in {"A", "api"}, names \in {{}, {"read"}},
     users \in {"u" :> User("a1", {"r"}), "u" :> User("a2", {}),
                "v" :> User("a3", {"r"}), NoUsers}}
EntriesB ==
  {Entry("B", aud, "u" :> User("b1", {"s"}), {"read"}, FALSE) : aud \in {"A", "api"}}
  \cup {Entry("B", "api", NoUsers, {}, TRUE)}

MCFiles == {<<>>} \cup {<<a>> : a \in EntriesA}
  \cup {<<a, b>> : a \in EntriesA, b \in EntriesB}
  \cup {<<b, a>> : a \in EntriesA, b \in EntriesB} \cup {<<b>> : b \in EntriesB}

Email == OIDC("email")
Profile == OIDC("profile")
MCRequested == {{}, {OpenID, Email}, {OpenID, Profile, <<"api", "read">>},
                {<<"A", "read">>}, {Default("api")}, {<<"api", "run">>}}
=============================================================================
