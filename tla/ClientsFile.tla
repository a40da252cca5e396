---------------------------- MODULE ClientsFile ----------------------------
(***************************************************************************)
(* The clients file between the clientctl tool, which rewrites it, and the *)
(* server, which loads it when it starts: the validation and the load and  *)
(* save paths of clients.go, saveJSONFile of jsonfile.go and the mutating  *)
(* commands of cmd/clientctl/main.go.                                      *)
(*                                                                         *)
(* A list flag is the set of its entries after parseList.  What decides    *)
(* whether an entry is well formed is kept: BadId, BadUrl and an authority *)
(* per delegated scope; spelling is not.                                   *)
(***************************************************************************)
EXTENDS Integers, Sequences, FiniteSets

CONSTANTS
  Tool,          \* clientctl processes
  Id,            \* client ids the operator may type, BadId among them
  BadId,         \* one with white space in it
  Audience,      \* audiences; a client id is one of them
  Role, Username,
  BadName,       \* a user name with white space around it
  AddForms,      \* entries an operator may describe to "client add", without id
  Changes,       \* partial entries an operator may give to "client update"
  InitialFiles,  \* what an operator may have written by hand
  Absent,        \* no such file; the server is not running
  MaxRuns,       \* bound: clientctl invocations
  MaxCrashes,    \* bound: invocations that die half-way
  MaxWarnings    \* bound: temp files that cannot be removed

Grant == {"authorization_code", "refresh_token", "client_credentials"}
Url == {"good", "bad"}
NoAudience == "none"

\* What the flags of "client add" may describe, and a whole entry.
Flags == [type: {"public", "confidential"}, secret: BOOLEAN,
          aud: Audience \cup {NoAudience}, grants: SUBSET Grant,
          ccScopes: BOOLEAN, ccRoles: SUBSET Role, allowed: SUBSET Audience,
          redirects: SUBSET Url, others: SUBSET Url]
Client == [id: Id, type: {"public", "confidential"}, secret: BOOLEAN,
           aud: Audience \cup {NoAudience}, grants: SUBSET Grant,
           ccScopes: BOOLEAN, ccRoles: SUBSET Role, allowed: SUBSET Audience,
           redirects: SUBSET Url, others: SUBSET Url,
           users: UNION {[U -> SUBSET Role] : U \in SUBSET Username}]
Registry == UNION {[A -> SUBSET Role] : A \in SUBSET Audience}
File == [clients: Seq(Client), resources: Registry]

\* f where it has a value, and elsewhere g.
Overlay(f, g) ==
  [x \in DOMAIN f \cup DOMAIN g |-> IF x \in DOMAIN f THEN f[x] ELSE g[x]]

\* Forms and changes are flags; a file written by hand may be invalid, but
\* parses.
ASSUME FileAssumption ==
  /\ MaxRuns \in Nat /\ MaxCrashes \in Nat /\ MaxWarnings \in Nat
  /\ AddForms \subseteq Flags
  /\ \A change \in Changes : \E form \in Flags :
       /\ DOMAIN change \subseteq DOMAIN form
       /\ \A f \in DOMAIN change : change[f] = form[f]
  /\ InitialFiles \ {Absent} \subseteq File
  /\ Absent \notin File /\ Absent \notin Seq(Client)

VARIABLES
  file,    \* the clients file, or Absent
  temps,   \* temp files by name: their content, or Absent until written
  tool,    \* per invocation: where it is, the file it loaded, the client its
           \* command names, its list of clients, its temp file
  server,  \* the registry the running server was built from, or Absent
  runs, crashes,
  logged,  \* temp files that a warning says could not be removed
  dead     \* history: temp files of invocations that died

leftVars == <<logged, dead>>
vars == <<file, temps, tool, server, runs, crashes, leftVars>>

-----------------------------------------------------------------------------
(* Validation: clients.go and users.go.                                    *)

AudienceOf(c) == IF c.aud = NoAudience THEN c.id ELSE c.aud

Grants(c) ==
  IF c.grants = {} THEN {"authorization_code", "refresh_token"} ELSE c.grants

Interactive(c) == Grants(c) \cap {"authorization_code", "refresh_token"} # {}

\* A secret exactly for a confidential client; an audience without blanks.
ValidateProfile(c) ==
  ((c.type = "confidential") <=> c.secret) /\ AudienceOf(c) # BadId

\* Fault: any client may hold the machine-to-machine grant.
GrantsUnguarded(c) ==
  IF "client_credentials" \in c.grants THEN c.ccScopes ELSE ~c.ccScopes

\* The machine-to-machine grant needs a confidential client and scopes; there
\* are no scopes without it.
ValidateGrants(c) ==
  IF "client_credentials" \in c.grants
  THEN c.type = "confidential" /\ c.ccScopes
  ELSE ~c.ccScopes

ValidateCCRoles(c) == c.ccRoles # {} => "client_credentials" \in Grants(c)

\* A delegated scope names the client's own audience.
ValidateAllowedScopes(c) == c.allowed \subseteq {AudienceOf(c)}

ValidateURLs(c) ==
  /\ Interactive(c) => c.redirects # {}
  /\ "bad" \notin c.redirects \cup c.others

\* Names are unique by construction, hashes are what newUserHash made.
ValidateUserSlice(users) == BadName \notin DOMAIN users

Validate(c) ==
  /\ c.id # BadId
  /\ ValidateProfile(c) /\ ValidateGrants(c) /\ ValidateCCRoles(c)
  /\ ValidateAllowedScopes(c) /\ ValidateURLs(c)
  /\ ValidateUserSlice(c.users)

ValidateClientSlice(list) ==
  /\ \A i \in DOMAIN list : Validate(list[i])
  /\ \A i, j \in DOMAIN list : list[i].id = list[j].id => i = j

\* Roles of a client whose audience has a definition come from it.
ValidateClientRolesAgainstRegistry(c, registry) ==
  AudienceOf(c) \in DOMAIN registry =>
    LET defined == registry[AudienceOf(c)]
    IN /\ c.ccRoles \subseteq defined
       /\ \A u \in DOMAIN c.users : c.users[u] \subseteq defined

ValidateResourceRegistry(registry, list) ==
  /\ \A a \in DOMAIN registry : a # BadId /\ registry[a] # {}
  /\ \A i \in DOMAIN list :
       ValidateClientRolesAgainstRegistry(list[i], registry)

\* ReadClientsFile accepts the document; SaveClientsFile writes it.
ValidFile(f) ==
  /\ ValidateClientSlice(f.clients)
  /\ ValidateResourceRegistry(f.resources, f.clients)

-----------------------------------------------------------------------------
(* The server.                                                             *)

\* Fault: a client nobody can log in to is registered.
RegistryWithoutUsers(list) == list # <<>>

\* newClientRegistry: at least one client, and users for an interactive one.
NewClientRegistry(list) ==
  /\ list # <<>>
  /\ \A i \in DOMAIN list : Interactive(list[i]) => DOMAIN list[i].users # {}

\* LoadClients; a start that is refused leaves no trace.
ServerStarts ==
  /\ server = Absent /\ file # Absent
  /\ ValidFile(file) /\ NewClientRegistry(file.clients)
  /\ server' = file.clients
  /\ UNCHANGED <<file, temps, tool, runs, crashes, leftVars>>

ServerStops ==
  /\ server # Absent
  /\ server' = Absent
  /\ UNCHANGED <<file, temps, tool, runs, crashes, leftVars>>

-----------------------------------------------------------------------------
(* clientctl.                                                              *)

Idle == [pc |-> "idle", base |-> Absent, named |-> BadId, list |-> <<>>, temp |-> 0]

\* loadClients: a missing file is an empty list, an invalid one an error.
\* ReadClients keeps the clients and drops the role registry.
LoadClients(t) ==
  /\ tool[t].pc = "idle" /\ runs < MaxRuns
  /\ runs' = runs + 1
  /\ \/ /\ file = Absent
        /\ tool' = [tool EXCEPT ![t].pc = "loaded"]
     \/ /\ file # Absent /\ ValidFile(file)
        /\ tool' = [tool EXCEPT ![t].pc = "loaded", ![t].base = file,
                                   ![t].list = file.clients]
     \/ /\ file # Absent /\ ~ValidFile(file)
        /\ UNCHANGED tool
  /\ UNCHANGED <<file, temps, server, crashes, leftVars>>

FindClient(list, id) == {i \in DOMAIN list : list[i].id = id}

\* A command for client id that fails exits; SaveClients validates before it
\* writes.
Submit(t, id, accepted, list) ==
  /\ tool' = [tool EXCEPT ![t] =
       IF accepted /\ ValidateClientSlice(list)
       THEN [@ EXCEPT !.pc = "create", !.named = id, !.list = list] ELSE Idle]
  /\ UNCHANGED <<file, temps, server, runs, crashes, leftVars>>

\* A secret is asked for, or taken from the flag, for a confidential client only.
ClientAdd(t, id, form) ==
  /\ tool[t].pc = "loaded"
  /\ LET list == tool[t].list
         c == Overlay([id |-> id, users |-> << >>,
                       secret |-> form.secret /\ form.type = "confidential"], form)
     IN Submit(t, id, FindClient(list, id) = {}, Append(list, c))

\* applyClientChanges: the flags given replace fields; leaving the
\* confidential profile drops the secret, an empty grant list is the default.
ApplyClientChanges(c, change) ==
  LET kept == IF "type" \in DOMAIN change /\ c.type = "confidential"
                   /\ change.type = "public"
              THEN [c EXCEPT !.secret = FALSE] ELSE c
      changed == Overlay(change, kept)
  IN IF "grants" \in DOMAIN change
     THEN [changed EXCEPT !.grants = Grants(changed)] ELSE changed

ClientUpdate(t, id, change) ==
  /\ tool[t].pc = "loaded"
  /\ LET list == tool[t].list
     IN Submit(t, id, FindClient(list, id) # {} /\ DOMAIN change # {},
          [i \in DOMAIN list |->
             IF list[i].id = id THEN ApplyClientChanges(list[i], change)
             ELSE list[i]])

\* Fault: the entry after the removed one goes with it.
RemoveTakesNext(t, id) ==
  /\ tool[t].pc = "loaded"
  /\ LET list == tool[t].list
         found == FindClient(list, id)
     IN Submit(t, id, found # {},
          IF found = {} THEN list
          ELSE LET i == CHOOSE i \in found : TRUE
               IN SubSeq(list, 1, i - 1) \o SubSeq(list, i + 2, Len(list)))

ClientRemove(t, id) ==
  /\ tool[t].pc = "loaded"
  /\ LET list == tool[t].list
         found == FindClient(list, id)
     IN Submit(t, id, found # {},
          IF found = {} THEN list
          ELSE LET i == CHOOSE i \in found : TRUE
               IN SubSeq(list, 1, i - 1) \o SubSeq(list, i + 1, Len(list)))

\* saveClientUsers for the commands below: user u must be one the client knows,
\* or one it does not, and entry takes the place of what it had.
SaveClientUsers(t, id, u, known, entry) ==
  /\ tool[t].pc = "loaded"
  /\ LET list == tool[t].list
         found == {i \in FindClient(list, id) : (u \in DOMAIN list[i].users) = known}
     IN Submit(t, id, found # {},
          [i \in DOMAIN list |->
             IF i \in found
             THEN [list[i] EXCEPT !.users =
                     Overlay(entry, [v \in DOMAIN @ \ {u} |-> @[v]])]
             ELSE list[i]])

UserAdd(t, id, u, roles) == SaveClientUsers(t, id, u, FALSE, [v \in {u} |-> roles])

\* userUpdate with -roles; the other flags change nothing modelled here.
UserUpdate(t, id, u, roles) == SaveClientUsers(t, id, u, TRUE, [v \in {u} |-> roles])

UserRemove(t, id, u) == SaveClientUsers(t, id, u, TRUE, << >>)

-----------------------------------------------------------------------------
(* saveJSONFile: a temp file with a random name, then a rename.            *)

\* O_CREATE|O_EXCL under a random name, one that nobody has, or an error.
CreateTemp(t) ==
  /\ tool[t].pc = "create"
  /\ \/ LET free == 1..MaxRuns \ DOMAIN temps
            name == CHOOSE n \in free : TRUE
        IN /\ free # {}
           /\ temps' = [n \in DOMAIN temps \cup {name} |->
                         IF n = name THEN Absent ELSE temps[n]]
           /\ tool' = [tool EXCEPT ![t].pc = "write", ![t].temp = name]
     \/ tool' = [tool EXCEPT ![t] = Idle] /\ UNCHANGED temps
  /\ UNCHANGED <<file, server, runs, crashes, leftVars>>

WithoutTemp(t) == [n \in DOMAIN temps \ {tool[t].temp} |-> temps[n]]

\* Best effort: the temp file goes, or a warning is logged and it stays.
RemoveTempFile(t) ==
  /\ \/ temps' = WithoutTemp(t) /\ UNCHANGED logged
     \/ /\ Cardinality(logged) < MaxWarnings
        /\ logged' = logged \cup {tool[t].temp} /\ UNCHANGED temps
  /\ tool' = [tool EXCEPT ![t] = Idle]

\* Fault: an error from Write or Close is not looked at.
WriteUnchecked(t) ==
  /\ tool[t].pc = "write"
  /\ \E content \in {Absent, [clients |-> tool[t].list, resources |-> << >>]} :
       temps' = [temps EXCEPT ![tool[t].temp] = content]
  /\ tool' = [tool EXCEPT ![t].pc = "rename"]
  /\ UNCHANGED <<file, server, runs, crashes, leftVars>>

\* Write and Close: the bare array, or an error and the temp file removed.
WriteTemp(t) ==
  /\ tool[t].pc = "write"
  /\ \/ /\ temps' = [temps EXCEPT ![tool[t].temp] =
                       [clients |-> tool[t].list, resources |-> << >>]]
        /\ tool' = [tool EXCEPT ![t].pc = "rename"]
        /\ UNCHANGED logged
     \/ RemoveTempFile(t)
  /\ UNCHANGED <<file, server, runs, crashes, dead>>

\* The rename takes the temp file away.
Renamed(t) ==
  /\ file' = temps[tool[t].temp] /\ temps' = WithoutTemp(t)
  /\ tool' = [tool EXCEPT ![t] = Idle]
  /\ UNCHANGED logged

\* Fault: a rename that fails leaves the temp file behind.
RenameLeaves(t) ==
  /\ tool[t].pc = "rename"
  /\ \/ Renamed(t)
     \/ tool' = [tool EXCEPT ![t] = Idle] /\ UNCHANGED <<file, temps, logged>>
  /\ UNCHANGED <<server, runs, crashes, dead>>

RenameTemp(t) ==
  /\ tool[t].pc = "rename"
  /\ Renamed(t) \/ (RemoveTempFile(t) /\ UNCHANGED file)
  /\ UNCHANGED <<server, runs, crashes, dead>>

Crash(t) ==
  /\ tool[t].pc # "idle" /\ crashes < MaxCrashes
  /\ crashes' = crashes + 1
  /\ dead' = dead \cup (IF tool[t].pc \in {"write", "rename"} THEN {tool[t].temp} ELSE {})
  /\ tool' = [tool EXCEPT ![t] = Idle]
  /\ UNCHANGED <<file, temps, server, runs, logged>>

-----------------------------------------------------------------------------
Init ==
  /\ file \in InitialFiles
  /\ temps = << >>
  /\ tool = [t \in Tool |-> Idle]
  /\ server = Absent
  /\ runs = 0 /\ crashes = 0 /\ logged = {} /\ dead = {}

Command(t) ==
  \E id \in Id :
    \/ \E form \in AddForms : ClientAdd(t, id, form)
    \/ \E change \in Changes : ClientUpdate(t, id, change)
    \/ ClientRemove(t, id)
    \/ \E u \in Username :
         \/ \E roles \in SUBSET Role :
              UserAdd(t, id, u, roles) \/ UserUpdate(t, id, u, roles)
         \/ UserRemove(t, id, u)

Next ==
  \/ \E t \in Tool :
       LoadClients(t) \/ Command(t) \/ CreateTemp(t) \/ WriteTemp(t)
         \/ RenameTemp(t) \/ Crash(t)
  \/ ServerStarts \/ ServerStops

Spec == Init /\ [][Next]_vars

-----------------------------------------------------------------------------
(* Properties                                                              *)

Clients(f) == {f.clients[i] : i \in DOMAIN f.clients}
Readable(f) == f = Absent \/ ValidFile(f)

\* Every list holds client entries, and an invocation that writes has its temp
\* file (saveJSONFile renames the file it created).
TypeOK ==
  /\ file # Absent => Clients(file) \subseteq Client /\ file.resources \in Registry
  /\ \A n \in DOMAIN temps :
       temps[n] # Absent => Clients(temps[n]) \subseteq Client
  /\ \A t \in Tool :
       /\ tool[t].pc \in {"idle", "loaded", "create", "write", "rename"}
       /\ \A i \in DOMAIN tool[t].list : tool[t].list[i] \in Client
       /\ tool[t].pc \in {"write", "rename"} => tool[t].temp \in DOMAIN temps
  /\ runs \in 0..MaxRuns /\ crashes \in 0..MaxCrashes

\* A clients file the server can read stays one it can read, whatever
\* clientctl invocations do to it at once, wherever one dies and whichever of
\* its writes fails (saveJSONFile: temp file, then rename).
FileStaysReadable ==
  [][file' # file /\ file # Absent /\ Readable(file) =>
       file' # Absent /\ Readable(file')]_vars

\* A temp file, which holds secrets and password hashes, is that of an
\* invocation still at it, or its process died, or the log has a warning that
\* names it: none is left behind silently (removeTempFile on every error path
\* of saveJSONFile).
NoStrayTemp ==
  DOMAIN temps \subseteq
    {tool[t].temp : t \in {t \in Tool : tool[t].pc \in {"write", "rename"}}}
      \cup dead \cup logged

\* The invariant of the clientctl invocations: every one that writes has its
\* temp file, and there are no others but those accounted for (saveJSONFile).
ToolInv == TypeOK /\ NoStrayTemp

\* No sequence of commands, such as switching the profile of a client that
\* holds the machine-to-machine grant, makes the server hand that grant to a
\* client without a secret or without configured scopes.
GrantGuarded ==
  server # Absent =>
    \A i \in DOMAIN server :
      "client_credentials" \in server[i].grants =>
        server[i].secret /\ server[i].ccScopes

\* Every interactive client of a running server has somebody to log in and
\* somewhere to send them, though clientctl may save one that has not.
Serviceable ==
  server # Absent =>
    \A i \in DOMAIN server :
      server[i].grants # {"client_credentials"} =>
        DOMAIN server[i].users # {} /\ server[i].redirects # {}

\* What a running server loaded is sound, by whichever commands the file got
\* there (validate at every save and load, newClientRegistry).
LoadedSound == GrantGuarded /\ Serviceable

\* A command that saves over the file it loaded changes the entry it names
\* and no other.  When another invocation saved in between, that one's change
\* is undone.
OneEntryPerCommand ==
  [][\A t \in Tool :
       /\ tool[t].pc = "rename" /\ file' # file
       /\ tool'[t].pc = "idle" /\ tool[t].base = file /\ file # Absent
       => \A d \in Id \ {tool[t].named} :
            {x \in Clients(file') : x.id = d} = {x \in Clients(file) : x.id = d}]_vars

\* docs/clients.md: with a role registry, a role it does not declare fails
\* validation at every clientctl save.  The registry is the one the operator
\* wrote into the initial file.
RolesDeclared ==
  file # Absent =>
    \A f \in InitialFiles \ {Absent} :
      \A c \in Clients(file) : ValidateClientRolesAgainstRegistry(c, f.resources)
=============================================================================
