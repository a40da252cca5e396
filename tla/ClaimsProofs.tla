---------------------------- MODULE ClaimsProofs ----------------------------
(***************************************************************************)
(* Theorems about Claims, for any set of clients files that pass validate, *)
(* any scopes requested and any number of clients sharing an audience or a *)
(* user name.                                                              *)
(***************************************************************************)
EXTENDS Claims, TLAPS

-----------------------------------------------------------------------------
(* The inductive invariant *)

\* The grants of a process are all for clients, users and scopes of the file
\* the process has loaded.
GrantsCurrent ==
  \A g \in grants : \E c \in Lookup(g.client) :
    /\ g.sub \in DOMAIN c.users
    /\ g.scopes # {} /\ g.scopes \subseteq AcceptedScopes(c)

\* What the three functions of tokens.go put into a token for client c.
MintedUser(t, c) ==
  /\ t.typ = "at+jwt" /\ t.idtyp = "user" /\ t.aud = c.aud
  /\ t.sub \in DOMAIN c.users /\ t.roles = c.users[t.sub].roles
  /\ t.scopes # {} /\ t.scopes \subseteq AcceptedScopes(c)
  /\ t.scp = ShortScopeNames(t.scopes)
  /\ t.email = Gate(OIDC("email") \in t.scopes, c.users[t.sub].email)

MintedID(t, c) ==
  /\ t.typ = "JWT" /\ t.idtyp = None /\ t.aud = c.id
  /\ t.sub \in DOMAIN c.users /\ t.roles = c.users[t.sub].roles
  /\ t.scopes = {} /\ t.scp = {}

MintedApp(t, c) ==
  /\ t.typ = "at+jwt" /\ t.idtyp = "app" /\ t.aud = c.aud
  /\ c.cc /\ t.scopes # {} /\ t.scopes \subseteq c.ccScopes
  /\ t.roles = c.ccRoles

Minted(t) ==
  \E c \in LookupIn(t.by, t.client) :
    MintedUser(t, c) \/ MintedID(t, c) \/ MintedApp(t, c)

\* Tokens outlive the file they were minted from, so each is described by the
\* file it carries in "by", and grants by the file loaded now.
ClaimsInv ==
  /\ registry \in Files /\ Servable(registry)
  /\ GrantsCurrent
  /\ \A t \in tokens : Minted(t)

-----------------------------------------------------------------------------
(* Lookups *)

\* No two entries of a file that passes validate have the same id, so lookup
\* finds at most one client.
LEMMA LookupUnique ==
  ASSUME NEW file \in Files, NEW id,
         NEW c \in LookupIn(file, id), NEW d \in LookupIn(file, id)
  PROVE  c = d
<1>1. UniqueIds(file)
  BY FilesAssumption
<1>2. PICK i \in DOMAIN file : file[i] = c
  BY DEF LookupIn, Entries
<1>3. PICK j \in DOMAIN file : file[j] = d
  BY DEF LookupIn, Entries
<1>4. file[i].id = file[j].id
  BY <1>2, <1>3 DEF LookupIn
<1> QED BY <1>1, <1>2, <1>3, <1>4 DEF UniqueIds

\* An entry of a file that passes validate keeps its rules.
LEMMA EntryValid ==
  ASSUME NEW file \in Files, NEW c \in Entries(file)
  PROVE  ValidEntry(c)
  BY FilesAssumption DEF Entries

-----------------------------------------------------------------------------
(* Each action keeps the invariant *)

\* issueTokens for a grant of the loaded file: the access token and the id
\* token say what that file says of the client and its user.
LEMMA IssueMints ==
  ASSUME ClaimsInv, NEW g \in grants, NEW c \in Lookup(g.client)
  PROVE  /\ Minted(AccessToken(c, g.sub, g.scopes))
         /\ Minted(IDToken(c, g.sub, g.scopes))
<1>1. PICK d \in Lookup(g.client) :
        g.sub \in DOMAIN d.users /\ g.scopes # {} /\ g.scopes \subseteq AcceptedScopes(d)
  BY DEF ClaimsInv, GrantsCurrent
<1>2. c = d
  BY LookupUnique DEF ClaimsInv, Lookup
<1>3. c \in LookupIn(registry, c.id)
  BY DEF Lookup, LookupIn
<1>4. Minted(AccessToken(c, g.sub, g.scopes))
  <2> DEFINE t == AccessToken(c, g.sub, g.scopes)
  <2>1. t.by = registry /\ t.client = c.id /\ MintedUser(t, c)
    BY <1>1, <1>2 DEF AccessToken, MintedUser, ProfileFor
  <2> QED BY <2>1, <1>3 DEF Minted
<1>5. Minted(IDToken(c, g.sub, g.scopes))
  <2> DEFINE t == IDToken(c, g.sub, g.scopes)
  <2>1. t.by = registry /\ t.client = c.id /\ MintedID(t, c)
    BY <1>1, <1>2 DEF IDToken, MintedID, ProfileFor
  <2> QED BY <2>1, <1>3 DEF Minted
<1> QED BY <1>4, <1>5

\* issueClientCredentialsTokens: the client's registered permissions, or one
\* of its scopes.
LEMMA AppMints ==
  ASSUME ClaimsInv, NEW id, NEW c \in Lookup(id), NEW requested, c.cc,
         NEW scopes \in ResolveClientCredentialsScopes(c, requested)
  PROVE  Minted(AppToken(c, scopes))
<1> DEFINE t == AppToken(c, scopes)
<1>1. c.ccScopes # {}
  BY EntryValid DEF ClaimsInv, Lookup, LookupIn, ValidEntry
<1>2. scopes # {} /\ scopes \subseteq c.ccScopes
  BY <1>1 DEF ResolveClientCredentialsScopes
<1>3. t.by = registry /\ t.client = c.id /\ MintedApp(t, c)
  BY <1>2 DEF AppToken, MintedApp
<1>4. c \in LookupIn(registry, c.id)
  BY DEF Lookup, LookupIn
<1> QED BY <1>3, <1>4 DEF Minted

\* Whatever the process does, grants stay within the file it has loaded and
\* tokens within the file they were minted from.
LEMMA ClaimsStep == ClaimsInv /\ [Next]_vars => ClaimsInv'
<1> SUFFICES ASSUME ClaimsInv, [Next]_vars PROVE ClaimsInv'
  OBVIOUS
<1>1. ASSUME NEW c \in Entries(registry), NEW requested \in Requested,
             NEW sub \in DOMAIN c.users, Authorize(c.id, sub, requested)
      PROVE  ClaimsInv'
  <2> DEFINE n == [client |-> c.id, sub |-> sub, scopes |-> ParseScopes(requested)]
  <2>1. UNCHANGED <<registry, tokens>> /\ grants' = grants \cup {n}
    BY <1>1 DEF Authorize
  <2>2. \E d \in Lookup(n.client) :
          n.sub \in DOMAIN d.users /\ n.scopes # {} /\ n.scopes \subseteq AcceptedScopes(d)
    BY <1>1 DEF Authorize, ParseScopes
  <2> HIDE DEF n
  <2>3. GrantsCurrent'
    BY <2>1, <2>2 DEF ClaimsInv, GrantsCurrent, Lookup
  <2> QED BY <2>1, <2>3 DEF ClaimsInv
<1>2. ASSUME NEW c \in Entries(registry), NEW requested \in Requested,
             ClientCredentials(c.id, requested)
      PROVE  ClaimsInv'
  <2>1. PICK d \in Lookup(c.id) :
          /\ d.cc
          /\ \E scopes \in ResolveClientCredentialsScopes(d, requested) :
               tokens' = tokens \cup {AppToken(d, scopes)}
    BY <1>2 DEF ClientCredentials
  <2>2. PICK scopes \in ResolveClientCredentialsScopes(d, requested) :
          tokens' = tokens \cup {AppToken(d, scopes)}
    BY <2>1
  <2>3. Minted(AppToken(d, scopes))
    BY <2>1, AppMints
  <2>4. UNCHANGED <<registry, grants>>
    BY <1>2 DEF ClientCredentials
  <2>5. GrantsCurrent'
    BY <2>4 DEF ClaimsInv, GrantsCurrent, Lookup
  <2> QED BY <2>2, <2>3, <2>4, <2>5 DEF ClaimsInv
<1>3. ASSUME NEW g \in grants, IssueTokens(g) PROVE ClaimsInv'
  <2>1. PICK c \in Lookup(g.client) :
          tokens' = tokens \cup {AccessToken(c, g.sub, g.scopes)} \cup
            (IF OpenID \in g.scopes THEN {IDToken(c, g.sub, g.scopes)} ELSE {})
    BY <1>3 DEF IssueTokens
  <2>2. /\ Minted(AccessToken(c, g.sub, g.scopes))
        /\ Minted(IDToken(c, g.sub, g.scopes))
    BY IssueMints
  <2>3. UNCHANGED <<registry, grants>>
    BY <1>3 DEF IssueTokens
  <2>4. GrantsCurrent'
    BY <2>3 DEF ClaimsInv, GrantsCurrent, Lookup
  <2> QED BY <2>1, <2>2, <2>3, <2>4 DEF ClaimsInv
<1>4. ASSUME NEW file \in Files, Restart(file) PROVE ClaimsInv'
  BY <1>4 DEF Restart, ClaimsInv, GrantsCurrent
<1>5. CASE UNCHANGED vars
  BY <1>5 DEF vars, ClaimsInv, GrantsCurrent, Lookup
<1> QED BY <1>1, <1>2, <1>3, <1>4, <1>5 DEF Next

\* The invariant holds in every state of every behaviour.
LEMMA ClaimsInvariant == Spec => []ClaimsInv
<1>1. Init => ClaimsInv
  BY DEF Init, ClaimsInv, GrantsCurrent
<1> QED BY <1>1, ClaimsStep, PTL DEF Spec

-----------------------------------------------------------------------------
(* What follows from it *)

\* Every token says what the file its process had loaded allowed its client,
\* also a token minted from an old grant (issueTokens, tokens.go).
THEOREM TokensAsRegistered == Spec => []MintedAsRegistered
<1>1. ClaimsInv => MintedAsRegistered
  <2> SUFFICES ASSUME ClaimsInv, NEW t \in tokens
               PROVE  \E c \in LookupIn(t.by, t.client) :
                 /\ t.aud = (IF t.typ = "JWT" THEN c.id ELSE c.aud)
                 /\ t.idtyp = "app" => c.cc /\ t.scopes # {} /\ t.scopes \subseteq c.ccScopes
                                       /\ t.roles = c.ccRoles
                 /\ t.idtyp # "app" => /\ t.sub \in DOMAIN c.users
                                       /\ t.roles = c.users[t.sub].roles
                                       /\ t.scopes \subseteq AcceptedScopes(c)
                                       /\ t.scp \subseteq {s[2] : s \in c.allowed}
    BY DEF MintedAsRegistered
  <2>1. PICK c \in LookupIn(t.by, t.client) :
          MintedUser(t, c) \/ MintedID(t, c) \/ MintedApp(t, c)
    BY DEF ClaimsInv, Minted
  <2>2. CASE MintedUser(t, c)
    <3>1. \A s \in t.scopes : s[1] # None => s \in c.allowed
      BY <2>2 DEF MintedUser, AcceptedScopes, SupportedScopes, OpenID, OIDC
    <3>2. t.scp \subseteq {s[2] : s \in c.allowed}
      BY <2>2, <3>1 DEF MintedUser, ShortScopeNames
    <3> QED BY <2>1, <2>2, <3>2 DEF MintedUser
  <2>3. CASE MintedID(t, c)
    BY <2>1, <2>3, FilesAssumption DEF MintedID
  <2>4. CASE MintedApp(t, c)
    BY <2>1, <2>4 DEF MintedApp
  <2> QED BY <2>1, <2>2, <2>3, <2>4
<1> QED BY <1>1, ClaimsInvariant, PTL

\* /userinfo answers for a user's token with its own client's record, then or
\* now, and never with the record of another client of the same audience
\* (userinfoClaims).
THEOREM UserinfoOwnRecord == Spec => []OwnRecord
<1>1. ClaimsInv => OwnRecord
  <2> SUFFICES ASSUME ClaimsInv, NEW t \in tokens, t.idtyp = "user", Lookup(t.client) # {},
                      NEW out \in Userinfo(t)
               PROVE  /\ out.email \in {None} \cup {u.email : u \in Records(t)}
                      /\ out.name \in {None} \cup {u.name : u \in Records(t)}
    BY DEF OwnRecord
  <2> DEFINE found == {c \in UserStore(t) : t.sub \in DOMAIN c.users}
  <2>1. UserStore(t) = Lookup(t.client)
    BY DEF UserStore
  <2>2. CASE found # {}
    <3>1. PICK c \in found :
            out = AddScopeClaims(t, t.sub, c.users[t.sub].name, c.users[t.sub].email)
      BY <2>2 DEF Userinfo
    <3>2. c.users[t.sub] \in Records(t)
      BY <2>1 DEF Records
    <3> QED BY <3>1, <3>2 DEF AddScopeClaims, Gate
  <2>3. CASE found = {}
    <3>1. out = AddScopeClaims(t, t.username, None, t.email)
      BY <2>3 DEF Userinfo
    <3>2. t.typ = "at+jwt"
      BY DEF Userinfo, Accepted
    <3>3. PICK c \in LookupIn(t.by, t.client) : MintedUser(t, c)
      BY <3>2 DEF ClaimsInv, Minted, MintedApp, MintedID
    <3>4. c.users[t.sub] \in Records(t)
      BY <3>3 DEF Records, MintedUser
    <3>5. t.email \in {None} \cup {u.email : u \in Records(t)}
      BY <3>3, <3>4 DEF MintedUser, Gate
    <3> QED BY <3>1, <3>5 DEF AddScopeClaims, Gate
  <2> QED BY <2>2, <2>3
<1> QED BY <1>1, ClaimsInvariant, PTL

\* /userinfo answers only for tokens whose scope claim has openid: no path mints
\* an access token without scopes, so the default of parseScopes never applies
\* (handleUserinfo, issueTokens, issueClientCredentialsTokens).
THEOREM UserinfoNeedsOpenID == Spec => []UserinfoFailsClosed
<1>1. ClaimsInv => UserinfoFailsClosed
  <2> SUFFICES ASSUME ClaimsInv, NEW t \in tokens, Userinfo(t) # {}
               PROVE  OpenID \in t.scopes
    BY DEF UserinfoFailsClosed
  <2>1. t.typ = "at+jwt" /\ OpenID \in ParseScopes(t.scopes)
    BY DEF Userinfo, Accepted
  <2>2. t.scopes # {}
    BY <2>1 DEF ClaimsInv, Minted, MintedUser, MintedID, MintedApp
  <2> QED BY <2>1, <2>2 DEF ParseScopes
<1> QED BY <1>1, ClaimsInvariant, PTL

\* /end_session with an id token sends the browser only where the client the
\* token was minted for may send it (parseIDTokenHint, handleEndSession).
THEOREM LogoutByOwnClient == Spec => []LogoutOwnPolicy
<1>1. ClaimsInv => LogoutOwnPolicy
  <2> SUFFICES ASSUME ClaimsInv, NEW t \in tokens, NEW id, NEW target \in Uri,
                      t.typ = "JWT", Lookup(t.client) # {}
               PROVE  EndSession(t, id, target) \in
                        {None} \cup UNION {c.logout : c \in Lookup(t.client)}
    BY DEF LogoutOwnPolicy
  <2>1. t.aud = t.client
    BY DEF ClaimsInv, Minted, MintedUser, MintedID, MintedApp, LookupIn
  <2>2. HintClient(t) = Lookup(t.client)
    BY <2>1 DEF HintClient
  <2> QED BY <2>2 DEF EndSession
<1> QED BY <1>1, ClaimsInvariant, PTL
=============================================================================
