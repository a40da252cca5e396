------------------------------- MODULE Claims -------------------------------
(***************************************************************************)
(* What a token says, and what the endpoints make of it later.  Tokens are *)
(* minted from the clients file a process loaded (tokens.go); the clients  *)
(* hold them across restarts with an edited file, and /userinfo,           *)
(* /introspect and /end_session judge them by the file loaded then         *)
(* (handlers.go, clients.go).  Expiry, denial and the single use of codes  *)
(* and refresh tokens are in TokenService: here a grant mints as often as  *)
(* it likes, and a token never expires.                                    *)
(***************************************************************************)
EXTENDS Integers, Sequences, FiniteSets

CONSTANTS
  Files,      \* clients files, as sequences of entries
  Requested,  \* scope parameters of requests: sets of scopes, {} when absent
  Uri,        \* post_logout_redirect_uri parameters
  None,       \* an absent claim, parameter or redirect
  MaxBoots,   \* bound: starts of the process
  MaxGrants,  \* bound: grants of one process
  MaxMints    \* bound: token sets issued

\* A scope is an authority and a name: api://<authority>/<name>, and no
\* authority for anything else.
OIDC(name) == <<None, name>>
OpenID == OIDC("openid")
SupportedScopes == {OpenID, OIDC("profile"), OIDC("email")}
Default(aud) == <<aud, ".default">>

\* The rules of validate on the fields of an entry that matter here.
ValidEntry(c) ==
  /\ c.cc => c.confidential /\ c.ccScopes # {}
  /\ ~c.cc => c.ccScopes = {} /\ c.ccRoles = {}
  /\ \A s \in c.allowed : s[1] = c.aud /\ s[2] # None

UniqueIds(file) ==
  \A i, j \in DOMAIN file : file[i].id = file[j].id => i = j

Entries(file) == {file[i] : i \in DOMAIN file}

ASSUME FilesAssumption ==
  /\ \A file \in Files : UniqueIds(file) /\ \A c \in Entries(file) : ValidEntry(c)
  /\ None # "app"
  /\ MaxBoots \in Nat /\ MaxGrants \in Nat /\ MaxMints \in Nat

VARIABLES
  registry,  \* the clients file the process loaded
  grants,    \* what codes and refresh tokens of this process stand for
  tokens,    \* JWTs held by clients; by is the file they were minted from
  boots, mints

vars == <<registry, grants, tokens, boots, mints>>

-----------------------------------------------------------------------------
(* The registry *)

\* newClientRegistry accepts the file.
Servable(file) ==
  /\ file # <<>>
  /\ \A c \in Entries(file) : c.interactive => DOMAIN c.users # {}

\* clientRegistry.lookup, clientForAudience: the client found, or {}.
LookupIn(file, id) == {c \in Entries(file) : c.id = id}
Lookup(id) == LookupIn(registry, id)

ClientForAudience(aud) ==
  {registry[i] : i \in {i \in DOMAIN registry :
     registry[i].aud = aud /\ \A j \in 1 .. i - 1 : registry[j].aud # aud}}

AudienceAllowed(aud) == \E c \in Entries(registry) : c.aud = aud

ParseScopes(raw) == IF raw = {} THEN {OpenID} ELSE raw

\* validateScopesFor, allowsScope.
AcceptedScopes(c) == SupportedScopes \cup c.allowed

\* Fault: a scope that matches nothing is granted as nothing.
ResolveToNothing(c, requested) ==
  IF requested = {} \/ requested = {Default(c.aud)} THEN {c.ccScopes}
  ELSE {c.ccScopes \cap requested}

\* resolveClientCredentialsScopes: the scopes granted, or {} for none.  The
\* parameter is compared as one string, so several scopes match nothing.
ResolveClientCredentialsScopes(c, requested) ==
  IF requested = {} \/ requested = {Default(c.aud)} THEN {c.ccScopes}
  ELSE {{s} : s \in {s \in c.ccScopes : requested = {s}}}

-----------------------------------------------------------------------------
(* Claims of a new token *)

Gate(open, value) == IF open THEN value ELSE None

\* profileFor: what the record holds, by scope; roles whatever the scopes.
ProfileFor(c, sub, scopes) ==
  IF sub \notin DOMAIN c.users
  THEN [email |-> None, name |-> None, roles |-> {}]
  ELSE [email |-> Gate(OIDC("email") \in scopes, c.users[sub].email),
        name |-> Gate(OIDC("profile") \in scopes, c.users[sub].name),
        roles |-> c.users[sub].roles]

ShortScopeNames(scopes) == {s[2] : s \in {s \in scopes : s[1] # None}}

\* registeredClaims, newAccessClaims.
AccessToken(c, sub, scopes) ==
  LET p == ProfileFor(c, sub, scopes)
  IN  [typ |-> "at+jwt", idtyp |-> "user", client |-> c.id, aud |-> c.aud,
       sub |-> sub, scopes |-> scopes, scp |-> ShortScopeNames(scopes),
       username |-> Gate(OIDC("profile") \in scopes, sub), name |-> None,
       email |-> p.email, roles |-> p.roles, by |-> registry]

\* issueIDToken, newIDClaims: for the client itself, no scope claim.
IDToken(c, sub, scopes) ==
  LET p == ProfileFor(c, sub, scopes)
  IN  [typ |-> "JWT", idtyp |-> None, client |-> c.id, aud |-> c.id,
       sub |-> sub, scopes |-> {}, scp |-> {},
       username |-> Gate(OIDC("profile") \in scopes, sub), name |-> p.name,
       email |-> p.email, roles |-> p.roles, by |-> registry]

\* issueClientCredentialsTokens.
AppToken(c, scopes) ==
  [typ |-> "at+jwt", idtyp |-> "app", client |-> c.id, aud |-> c.aud,
   sub |-> c.id, scopes |-> scopes, scp |-> {}, username |-> None,
   name |-> None, email |-> None, roles |-> c.ccRoles, by |-> registry]

-----------------------------------------------------------------------------
\* GET and POST /authorize: a user of the client signs in, the scopes are the
\* client's own.
Authorize(id, sub, requested) ==
  /\ Cardinality(grants) < MaxGrants
  /\ \E c \in Lookup(id) :
       /\ ParseScopes(requested) \subseteq AcceptedScopes(c)
       /\ sub \in DOMAIN c.users
  /\ grants' = grants \cup
       {[client |-> id, sub |-> sub, scopes |-> ParseScopes(requested)]}
  /\ UNCHANGED <<registry, tokens, boots, mints>>

\* issueTokens, for a code or a refresh token: nothing of the grant is checked
\* again but that its client exists.
IssueTokens(g) ==
  /\ mints < MaxMints
  /\ \E c \in Lookup(g.client) :
       tokens' = tokens \cup {AccessToken(c, g.sub, g.scopes)} \cup
         (IF OpenID \in g.scopes THEN {IDToken(c, g.sub, g.scopes)} ELSE {})
  /\ mints' = mints + 1
  /\ UNCHANGED <<registry, grants, boots>>

\* handleClientCredentialsGrant, for an authenticated client.
ClientCredentials(id, requested) ==
  /\ mints < MaxMints
  /\ \E c \in Lookup(id) :
       /\ c.confidential /\ c.cc
       /\ \E scopes \in ResolveClientCredentialsScopes(c, requested) :
            tokens' = tokens \cup {AppToken(c, scopes)}
  /\ mints' = mints + 1
  /\ UNCHANGED <<registry, grants, boots>>

\* Fault: codes and refresh tokens outlive the process.
RestartKeepsGrants(file) ==
  /\ boots < MaxBoots
  /\ Servable(file)
  /\ registry' = file /\ boots' = boots + 1
  /\ UNCHANGED <<grants, tokens, mints>>

\* The process ends and starts with the file as it is now.  The store is in
\* memory, the signing key is not.
Restart(file) ==
  /\ boots < MaxBoots
  /\ Servable(file)
  /\ registry' = file /\ boots' = boots + 1
  /\ grants' = {}
  /\ UNCHANGED <<tokens, mints>>

Init ==
  /\ registry \in {file \in Files : Servable(file)}
  /\ grants = {} /\ tokens = {} /\ boots = 1 /\ mints = 0

Next ==
  \/ \E c \in Entries(registry) : \E requested \in Requested :
       \/ \E sub \in DOMAIN c.users : Authorize(c.id, sub, requested)
       \/ ClientCredentials(c.id, requested)
  \/ \E g \in grants : IssueTokens(g)
  \/ \E file \in Files : Restart(file)

Spec == Init /\ [][Next]_vars

-----------------------------------------------------------------------------
(* Endpoints that read a token: functions of the token and the registry *)

\* verifyAccessToken, as far as it depends on the registry.
Accepted(t) == t.typ = "at+jwt" /\ AudienceAllowed(t.aud)

\* Fault: the audience decides, the client_id claim is the fallback.
UserStoreByAudience(t) ==
  IF ClientForAudience(t.aud) # {} THEN ClientForAudience(t.aud)
  ELSE Lookup(t.client)

\* userinfoClaims: whose users are asked.
UserStore(t) ==
  IF Lookup(t.client) # {} THEN Lookup(t.client) ELSE ClientForAudience(t.aud)

AddScopeClaims(t, username, name, email) ==
  [sub |-> t.sub, username |-> Gate(OIDC("profile") \in t.scopes, username),
   name |-> Gate(OIDC("profile") \in t.scopes, name),
   email |-> Gate(OIDC("email") \in t.scopes, email)]

\* handleUserinfo: the record if there is one, else the token's own claims;
\* {} when the request is refused.
Userinfo(t) ==
  IF ~Accepted(t) \/ OpenID \notin ParseScopes(t.scopes) THEN {}
  ELSE LET found == {c \in UserStore(t) : t.sub \in DOMAIN c.users}
       IN IF found # {}
          THEN {AddScopeClaims(t, t.sub, c.users[t.sub].name, c.users[t.sub].email)
                : c \in found}
          ELSE {AddScopeClaims(t, t.username, None, t.email)}

\* Fault: the audience of a hint is looked up among the audiences first.
HintClientByAudience(t) ==
  IF ClientForAudience(t.aud) # {} THEN ClientForAudience(t.aud)
  ELSE Lookup(t.aud)

\* parseIDTokenHint: the client an id token names, now.
HintClient(t) ==
  IF Lookup(t.aud) # {} THEN Lookup(t.aud) ELSE ClientForAudience(t.aud)

\* handleEndSession, registeredLogoutRedirect: where the browser is sent.
EndSession(t, clientId, target) ==
  LET hinted == IF t.typ = "JWT" THEN HintClient(t) ELSE {}
      client == IF hinted # {} THEN hinted ELSE Lookup(clientId)
  IN  IF \E c \in client : target \in c.logout THEN target ELSE None

-----------------------------------------------------------------------------
(* Properties *)

\* Every token out there says what the file its process had loaded allowed its
\* client: audience, scopes, permissions, subject and roles, also when it was
\* minted from a grant given earlier (issueTokens looks nothing of this up
\* again; codes and refresh tokens end with the process that read the file).
MintedAsRegistered ==
  \A t \in tokens : \E c \in LookupIn(t.by, t.client) :
    /\ t.aud = (IF t.typ = "JWT" THEN c.id ELSE c.aud)
    /\ t.idtyp = "app" => c.cc /\ t.scopes # {} /\ t.scopes \subseteq c.ccScopes
                          /\ t.roles = c.ccRoles
    /\ t.idtyp # "app" => /\ t.sub \in DOMAIN c.users
                          /\ t.roles = c.users[t.sub].roles
                          /\ t.scopes \subseteq AcceptedScopes(c)
                          /\ t.scp \subseteq {s[2] : s \in c.allowed}

\* What is known of a subject of a client: its records then and now.
Records(t) ==
  {c.users[t.sub] : c \in {c \in LookupIn(t.by, t.client) \cup Lookup(t.client) :
                             t.sub \in DOMAIN c.users}}

\* As long as its client is registered, /userinfo tells the holder of a user's
\* token only what that client's own record of that user says or said, however
\* many clients share the audience or the user name (userinfoClaims asks the
\* client_id claim before the audience).
OwnRecord ==
  \A t \in tokens : t.idtyp = "user" /\ Lookup(t.client) # {} =>
    \A out \in Userinfo(t) :
      /\ out.email \in {None} \cup {u.email : u \in Records(t)}
      /\ out.name \in {None} \cup {u.name : u \in Records(t)}

\* /userinfo answers only for a token whose own scope claim has openid.  A
\* missing claim is read as openid (parseScopes), so that such a token "grants
\* nothing: fail closed" (handleUserinfo) rests on every path that mints one:
\* a request without scopes, a refresh, the permissions of a client.
UserinfoFailsClosed ==
  \A t \in tokens : Userinfo(t) # {} => OpenID \in t.scopes

\* Logging out with an id token returns the browser only to a target of the
\* client the token was minted for, as long as that is registered, whatever
\* client_id the request names and whoever has the id as its audience
\* (parseIDTokenHint, handleEndSession).
LogoutOwnPolicy ==
  \A t \in tokens, id \in {c.id : c \in Entries(registry)}, target \in Uri :
    t.typ = "JWT" /\ Lookup(t.client) # {} =>
      EndSession(t, id, target) \in {None} \cup UNION {c.logout : c \in Lookup(t.client)}
=============================================================================
