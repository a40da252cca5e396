------------------------- MODULE ClientsFileProofs -------------------------
(***************************************************************************)
(* Proofs about ClientsFile, for any number of clientctl invocations at    *)
(* once, any commands, crashes and failed writes, and any file an operator *)
(* may have written.                                                       *)
(*                                                                         *)
(* The file is replaced only by a temp file that one invocation alone      *)
(* writes to (WriterInv) and whose list was validated (ToolOK), so what is *)
(* read is what was validated.                                             *)
(***************************************************************************)
EXTENDS ClientsFile, SequenceTheorems, TLAPS

-----------------------------------------------------------------------------
(* The inductive invariant *)

ToolState == [pc: {"idle", "loaded", "create", "write", "rename"},
              base: File \cup {Absent}, named: Id \cup {BadId},
              list: Seq(Client), temp: Nat]

DataInv ==
  /\ file \in File \cup {Absent} /\ server \in Seq(Client) \cup {Absent}
  /\ tool \in [Tool -> ToolState]
  /\ DOMAIN temps \subseteq 1 .. MaxRuns
  /\ \A n \in DOMAIN temps : temps[n] \in File \cup {Absent}
  /\ runs \in 0 .. MaxRuns /\ crashes \in 0 .. MaxCrashes

Saving(x) == x.pc \in {"create", "write", "rename"}
Writing(x) == x.pc \in {"write", "rename"}
Doc(list) == [clients |-> list, resources |-> << >>]

\* Every invocation that writes has a temp file of its own, and one that is
\* about to rename has written the whole document to it.
WriterInv ==
  \A t \in Tool :
    /\ Writing(tool[t]) => tool[t].temp \in DOMAIN temps
    /\ tool[t].pc = "rename" => temps[tool[t].temp] = Doc(tool[t].list)
    /\ \A u \in Tool :
         Writing(tool[t]) /\ Writing(tool[u]) /\ tool[t].temp = tool[u].temp => t = u

\* Two lists with the same entries but for those of one id.
WithId(list, d) == {c \in {list[i] : i \in DOMAIN list} : c.id = d}
DiffersAt(old, new, id) == \A d \in Id \ {id} : WithId(new, d) = WithId(old, d)

\* What an invocation saves was validated, and is the list it loaded but for
\* the entry its command names.
ToolOK(x) ==
  /\ x.pc = "idle" => x = Idle
  /\ Saving(x) => ValidateClientSlice(x.list)
  /\ x.base # Absent =>
       /\ x.pc = "loaded" => x.list = x.base.clients
       /\ Saving(x) => DiffersAt(x.base.clients, x.list, x.named)

ToolsInv == \A t \in Tool : ToolOK(tool[t])

\* What the server loaded was validated.
ServerInv == server # Absent => ValidateClientSlice(server) /\ NewClientRegistry(server)

FileInv == DataInv /\ WriterInv /\ ToolsInv /\ ServerInv

-----------------------------------------------------------------------------
(* Entries and lists *)

\* "client add": the flags, an id and nobody who may log in make an entry.
LEMMA AddedTyped ==
  ASSUME NEW id \in Id, NEW form \in AddForms, NEW secret \in BOOLEAN
  PROVE  LET c == Overlay([id |-> id, users |-> << >>, secret |-> secret], form)
         IN c \in Client /\ c.id = id
<1>1. form \in Flags
  BY FileAssumption
<1>2. << >> \in UNION {[U -> SUBSET Role] : U \in SUBSET Username}
  <2>1. << >> \in [{} -> SUBSET Role] /\ {} \in SUBSET Username
    OBVIOUS
  <2> QED BY <2>1
<1> QED BY <1>1, <1>2 DEF Overlay, Client, Flags

\* "client update": changing some fields of an entry leaves an entry.
LEMMA OverlayTyped ==
  ASSUME NEW c \in Client, NEW change \in Changes
  PROVE  /\ Overlay(change, c) \in Client
         /\ Overlay(change, c).id = c.id
<1>1. PICK form \in Flags : /\ DOMAIN change \subseteq DOMAIN form
                            /\ \A f \in DOMAIN change : change[f] = form[f]
  BY FileAssumption
<1> QED BY <1>1 DEF Overlay, Client, Flags

\* Leaving the confidential profile and the default grants keep an entry one.
LEMMA ChangedTyped ==
  ASSUME NEW c \in Client, NEW change \in Changes
  PROVE  /\ ApplyClientChanges(c, change) \in Client
         /\ ApplyClientChanges(c, change).id = c.id
<1>1. [c EXCEPT !.secret = FALSE] \in Client /\ [c EXCEPT !.secret = FALSE].id = c.id
  BY DEF Client
<1>2. \A k \in Client : /\ [k EXCEPT !.grants = Grants(k)] \in Client
                        /\ [k EXCEPT !.grants = Grants(k)].id = k.id
  BY DEF Client, Grants, Grant
<1> QED BY <1>1, <1>2, OverlayTyped DEF ApplyClientChanges

\* Replacing or removing a user keeps an entry one.
LEMMA UsersTyped ==
  ASSUME NEW c \in Client, NEW u \in Username, NEW U \in SUBSET {u},
         NEW entry \in [U -> SUBSET Role]
  PROVE  LET d == [c EXCEPT !.users = Overlay(entry, [v \in DOMAIN @ \ {u} |-> @[v]])]
         IN d \in Client /\ d.id = c.id
<1>1. PICK V \in SUBSET Username : c.users \in [V -> SUBSET Role]
  BY DEF Client
<1>2. Overlay(entry, [v \in DOMAIN c.users \ {u} |-> c.users[v]])
        \in [U \cup (V \ {u}) -> SUBSET Role]
  BY <1>1 DEF Overlay
<1>3. U \cup (V \ {u}) \in SUBSET Username
  OBVIOUS
<1>4. Overlay(entry, [v \in DOMAIN c.users \ {u} |-> c.users[v]])
        \in UNION {[W -> SUBSET Role] : W \in SUBSET Username}
  BY <1>2, <1>3
<1> QED BY <1>4 DEF Client

\* Replacing entries of one id by entries of that id.
LEMMA ReplacedAt ==
  ASSUME NEW list \in Seq(Client), NEW new, NEW id,
         DOMAIN new = DOMAIN list, new = [i \in DOMAIN list |-> new[i]],
         \A i \in DOMAIN list : /\ new[i] \in Client /\ new[i].id = list[i].id
                                /\ list[i].id # id => new[i] = list[i]
  PROVE  new \in Seq(Client) /\ DiffersAt(list, new, id)
<1>1. new \in Seq(Client)
  <2>1. Len(list) \in Nat /\ DOMAIN list = 1 .. Len(list)
    BY LenProperties
  <2>2. new \in [1 .. Len(list) -> Client]
    BY <2>1
  <2> QED BY <2>1, <2>2, SeqDef
<1>2. ASSUME NEW d \in Id \ {id} PROVE WithId(new, d) = WithId(list, d)
  BY <1>2 DEF WithId
<1> QED BY <1>1, <1>2 DEF DiffersAt

LEMMA AppendedAt ==
  ASSUME NEW list \in Seq(Client), NEW c \in Client
  PROVE  Append(list, c) \in Seq(Client) /\ DiffersAt(list, Append(list, c), c.id)
<1>1. /\ Append(list, c) \in Seq(Client) /\ DOMAIN list = 1 .. Len(list)
      /\ Len(list) \in Nat /\ DOMAIN Append(list, c) = 1 .. (Len(list) + 1)
      /\ \A i \in 1 .. Len(list) : Append(list, c)[i] = list[i]
      /\ Append(list, c)[Len(list) + 1] = c
  BY LenProperties, AppendProperties
<1>2. ASSUME NEW d \in Id \ {c.id} PROVE WithId(Append(list, c), d) = WithId(list, d)
  <2>1. {Append(list, c)[i] : i \in DOMAIN Append(list, c)}
          = {list[i] : i \in DOMAIN list} \cup {c}
    BY <1>1
  <2> QED BY <2>1, <1>2 DEF WithId
<1> QED BY <1>1, <1>2 DEF DiffersAt

LEMMA RemovedAt ==
  ASSUME NEW list \in Seq(Client), NEW i \in DOMAIN list
  PROVE  LET new == SubSeq(list, 1, i - 1) \o SubSeq(list, i + 1, Len(list))
         IN new \in Seq(Client) /\ DiffersAt(list, new, list[i].id)
<1> DEFINE n == Len(list)
           front == SubSeq(list, 1, i - 1)
           back == SubSeq(list, i + 1, n)
           new == front \o back
<1>1. n \in Nat /\ DOMAIN list = 1 .. n /\ i \in 1 .. n /\ \A j \in 1 .. n : list[j] \in Client
  BY LenProperties, ElementOfSeq
<1>2. /\ front \in Seq(Client) /\ Len(front) = i - 1
      /\ \A j \in 1 .. (i - 1) : front[j] = list[j]
  BY <1>1, SubSeqProperties
<1>3. /\ back \in Seq(Client) /\ Len(back) = n - i
      /\ \A j \in 1 .. (n - i) : back[j] = list[i + j]
  BY <1>1, SubSeqProperties
<1>4. /\ new \in Seq(Client) /\ Len(new) = n - 1
      /\ \A j \in 1 .. (n - 1) : new[j] = IF j < i THEN list[j] ELSE list[j + 1]
  <2>1. /\ new \in Seq(Client) /\ Len(new) = Len(front) + Len(back)
        /\ \A j \in 1 .. (Len(front) + Len(back)) :
             new[j] = IF j <= Len(front) THEN front[j] ELSE back[j - Len(front)]
    BY <1>2, <1>3, ConcatProperties
  <2> HIDE DEF n, front, back, new
  <2>2. ASSUME NEW j \in 1 .. (n - 1), j < i PROVE new[j] = list[j]
    BY <1>1, <1>2, <1>3, <2>1, <2>2
  <2>3. ASSUME NEW j \in 1 .. (n - 1), ~(j < i) PROVE new[j] = list[j + 1]
    <3>1. j - (i - 1) \in 1 .. (n - i) /\ i + (j - (i - 1)) = j + 1
      BY <1>1, <2>3
    <3>2. back[j - (i - 1)] = list[i + (j - (i - 1))]
      BY <1>3, <3>1
    <3>3. j \in 1 .. (Len(front) + Len(back)) /\ ~(j <= Len(front))
      BY <1>1, <1>2, <1>3, <2>3
    <3>4. new[j] = back[j - (i - 1)]
      BY <1>2, <2>1, <3>3
    <3> QED BY <3>1, <3>2, <3>4
  <2>4. Len(new) = n - 1
    BY <1>1, <1>2, <1>3, <2>1
  <2> QED BY <2>1, <2>2, <2>3, <2>4
<1>5. DOMAIN new = 1 .. (n - 1)
  BY <1>4, LenProperties
<1>6. {new[j] : j \in DOMAIN new} = {list[j] : j \in DOMAIN list \ {i}}
  <2> HIDE DEF n, front, back, new
  <2>1. ASSUME NEW j \in 1 .. (n - 1) PROVE \E k \in (1 .. n) \ {i} : new[j] = list[k]
    <3>1. CASE j < i
      <4>1. j \in (1 .. n) \ {i} /\ new[j] = list[j]
        BY <1>1, <1>4, <3>1
      <4> QED BY <4>1
    <3>2. CASE ~(j < i)
      <4>1. j + 1 \in (1 .. n) \ {i} /\ new[j] = list[j + 1]
        BY <1>1, <1>4, <3>2
      <4> QED BY <4>1
    <3> QED BY <3>1, <3>2
  <2>2. ASSUME NEW k \in (1 .. n) \ {i} PROVE \E j \in 1 .. (n - 1) : new[j] = list[k]
    <3>1. CASE k < i
      <4>1. k \in 1 .. (n - 1) /\ new[k] = list[k]
        BY <1>1, <1>4, <3>1
      <4> QED BY <4>1
    <3>2. CASE k > i
      <4>1. k - 1 \in 1 .. (n - 1) /\ new[k - 1] = list[k]
        BY <1>1, <1>4, <3>2
      <4> QED BY <4>1
    <3> QED BY <1>1, <3>1, <3>2
  <2> QED BY <1>1, <1>5, <2>1, <2>2
<1>7. ASSUME NEW d \in Id \ {list[i].id} PROVE WithId(new, d) = WithId(list, d)
  BY <1>6, <1>7 DEF WithId
<1> QED BY <1>4, <1>7 DEF DiffersAt

-----------------------------------------------------------------------------
(* Commands *)

\* Every command ends in a save of a list that differs from the one it was
\* given in the entries of the id it names, or in an error.
LEMMA CommandDoes ==
  ASSUME DataInv, NEW t \in Tool, Command(t)
  PROVE  /\ tool[t].pc = "loaded"
         /\ \E id \in Id, accepted \in BOOLEAN, list \in Seq(Client) :
              Submit(t, id, accepted, list) /\ DiffersAt(tool[t].list, list, id)
<1> DEFINE old == tool[t].list
           Does == \E id \in Id, accepted \in BOOLEAN, list \in Seq(Client) :
                     Submit(t, id, accepted, list) /\ DiffersAt(old, list, id)
<1>1. tool[t].pc = "loaded"
  BY DEF Command, ClientAdd, ClientUpdate, ClientRemove, UserAdd, UserUpdate, UserRemove,
         SaveClientUsers
<1>2. old \in Seq(Client) /\ \A i \in DOMAIN old : old[i] \in Client
  <2>1. old \in Seq(Client)
    BY DEF DataInv, ToolState
  <2> QED BY <2>1, LenProperties, ElementOfSeq
<1>3. ASSUME NEW id \in Id, NEW form \in AddForms, ClientAdd(t, id, form) PROVE Does
  <2> DEFINE c == Overlay([id |-> id, users |-> << >>,
                           secret |-> form.secret /\ form.type = "confidential"], form)
  <2>1. c \in Client /\ c.id = id
    BY AddedTyped
  <2>2. Submit(t, id, FindClient(old, id) = {}, Append(old, c))
    BY <1>3, Zenon DEF ClientAdd
  <2>3. (FindClient(old, id) = {}) \in BOOLEAN
    OBVIOUS
  <2> HIDE DEF c, old
  <2>4. Append(old, c) \in Seq(Client) /\ DiffersAt(old, Append(old, c), id)
    BY <1>2, <2>1, AppendedAt
  <2> QED BY <2>2, <2>3, <2>4, Zenon
<1>4. ASSUME NEW id \in Id, NEW change \in Changes, ClientUpdate(t, id, change) PROVE Does
  <2> DEFINE new == [i \in DOMAIN old |-> IF old[i].id = id
                                          THEN ApplyClientChanges(old[i], change) ELSE old[i]]
  <2>1. Submit(t, id, FindClient(old, id) # {} /\ DOMAIN change # {}, new)
    BY <1>4 DEF ClientUpdate
  <2>2. \A i \in DOMAIN old : /\ new[i] \in Client /\ new[i].id = old[i].id
                              /\ old[i].id # id => new[i] = old[i]
    BY <1>2, ChangedTyped
  <2>3. DOMAIN new = DOMAIN old /\ new = [i \in DOMAIN old |-> new[i]]
    OBVIOUS
  <2>4. new \in Seq(Client) /\ DiffersAt(old, new, id)
    <3> HIDE DEF old, new
    <3> QED BY <1>2, <2>2, <2>3, ReplacedAt
  <2> QED BY <2>1, <2>4
<1>5. ASSUME NEW id \in Id, ClientRemove(t, id) PROVE Does
  <2> DEFINE found == FindClient(old, id)
  <2>1. CASE found = {}
    <3>1. Submit(t, id, found # {}, old)
      BY <1>5, <2>1 DEF ClientRemove
    <3>2. DiffersAt(old, old, id)
      BY DEF DiffersAt
    <3> QED BY <1>2, <3>1, <3>2
  <2>2. CASE found # {}
    <3> DEFINE i == CHOOSE i \in found : TRUE
    <3>1. Submit(t, id, found # {}, SubSeq(old, 1, i - 1) \o SubSeq(old, i + 1, Len(old)))
      BY <1>5, <2>2 DEF ClientRemove
    <3>2. i \in DOMAIN old /\ old[i].id = id
      BY <2>2 DEF FindClient
    <3> HIDE DEF i
    <3> QED BY <1>2, <3>1, <3>2, RemovedAt
  <2> QED BY <2>1, <2>2
<1>6. ASSUME NEW id \in Id, NEW u \in Username, NEW U \in SUBSET {u},
             NEW entry \in [U -> SUBSET Role], NEW known, SaveClientUsers(t, id, u, known, entry)
      PROVE  Does
  <2> DEFINE found == {i \in FindClient(old, id) : (u \in DOMAIN old[i].users) = known}
             new == [i \in DOMAIN old |->
                       IF i \in found
                       THEN [old[i] EXCEPT !.users =
                               Overlay(entry, [v \in DOMAIN @ \ {u} |-> @[v]])]
                       ELSE old[i]]
  <2>1. Submit(t, id, found # {}, new)
    BY <1>6 DEF SaveClientUsers
  <2>2. ASSUME NEW i \in DOMAIN old
        PROVE  /\ new[i] \in Client /\ new[i].id = old[i].id
               /\ old[i].id # id => new[i] = old[i]
    <3> DEFINE c == [old[i] EXCEPT !.users =
                       Overlay(entry, [v \in DOMAIN @ \ {u} |-> @[v]])]
    <3>1. c \in Client /\ c.id = old[i].id
      BY <1>2, UsersTyped
    <3>2. new[i] = IF i \in found THEN c ELSE old[i]
      OBVIOUS
    <3>3. i \in found => old[i].id = id
      BY DEF FindClient
    <3> HIDE DEF c, new, found
    <3> QED BY <1>2, <3>1, <3>2, <3>3
  <2>3. DOMAIN new = DOMAIN old /\ new = [i \in DOMAIN old |-> new[i]]
    OBVIOUS
  <2>4. new \in Seq(Client) /\ DiffersAt(old, new, id)
    <3> HIDE DEF old, new
    <3> QED BY <1>2, <2>2, <2>3, ReplacedAt
  <2> QED BY <2>1, <2>4
<1>7. ASSUME NEW id \in Id, NEW u \in Username, NEW roles \in SUBSET Role,
             UserAdd(t, id, u, roles) \/ UserUpdate(t, id, u, roles)
      PROVE  Does
  <2>1. {u} \in SUBSET {u} /\ [v \in {u} |-> roles] \in [{u} -> SUBSET Role]
    OBVIOUS
  <2>2. PICK known : SaveClientUsers(t, id, u, known, [v \in {u} |-> roles])
    BY <1>7 DEF UserAdd, UserUpdate
  <2> QED BY <1>6, <2>1, <2>2
<1>8. ASSUME NEW id \in Id, NEW u \in Username, UserRemove(t, id, u) PROVE Does
  <2>1. {} \in SUBSET {u} /\ << >> \in [{} -> SUBSET Role]
    OBVIOUS
  <2>2. SaveClientUsers(t, id, u, TRUE, << >>)
    BY <1>8 DEF UserRemove
  <2> QED BY <1>6, <2>1, <2>2
<1> QED BY <1>1, <1>3, <1>4, <1>5, <1>7, <1>8 DEF Command

-----------------------------------------------------------------------------
(* The steps *)

LEMMA ToolTypes ==
  ASSUME DataInv, NEW t \in Tool
  PROVE  /\ tool[t] \in ToolState /\ tool[t].list \in Seq(Client)
         /\ tool[t].base \in File \cup {Absent} /\ tool[t].temp \in Nat
         /\ Idle \in ToolState /\ Idle.pc = "idle" /\ Idle.base = Absent
  BY DEF DataInv, ToolState, Idle

\* What is written is a document, readable when its list is valid.
LEMMA DocTypes ==
  ASSUME NEW list \in Seq(Client)
  PROVE  /\ Doc(list) \in File /\ Doc(list).clients = list
         /\ ValidateClientSlice(list) => ValidFile(Doc(list))
<1>1. << >> \in Registry /\ DOMAIN << >> = {}
  <2>1. << >> \in [{} -> SUBSET Role] /\ {} \in SUBSET Audience
    OBVIOUS
  <2> QED BY <2>1 DEF Registry
<1>2. Doc(list) \in File /\ Doc(list).clients = list /\ Doc(list).resources = << >>
  BY <1>1 DEF Doc, File
<1>3. ValidateResourceRegistry(<< >>, list)
  BY <1>1 DEF ValidateResourceRegistry, ValidateClientRolesAgainstRegistry
<1> QED BY <1>2, <1>3 DEF ValidFile

\* An invocation that moves to a state x that fits its list and its temp file,
\* and leaves the temp files of the others alone, keeps the invariant.
LEMMA MoveKeeps ==
  ASSUME FileInv, DataInv', server' = server,
         NEW t \in Tool, NEW x \in ToolState, tool' = [tool EXCEPT ![t] = x],
         ToolOK(x),
         Writing(x) => x.temp \in DOMAIN temps',
         x.pc = "rename" => temps'[x.temp] = Doc(x.list),
         \A u \in Tool \ {t} : Writing(tool[u]) =>
           /\ tool[u].temp \in DOMAIN temps' /\ temps'[tool[u].temp] = temps[tool[u].temp]
           /\ Writing(x) => tool[u].temp # x.temp
  PROVE  FileInv'
<1>1. tool'[t] = x /\ \A u \in Tool \ {t} : tool'[u] = tool[u]
  BY DEF FileInv, DataInv
<1>2. WriterInv'
  BY <1>1 DEF FileInv, WriterInv, Writing
<1>3. ToolsInv'
  BY <1>1 DEF FileInv, ToolsInv
<1>4. ServerInv'
  BY DEF FileInv, ServerInv
<1> QED BY <1>2, <1>3, <1>4 DEF FileInv

\* Loading starts from the list of a file that was read.
LEMMA LoadKeeps ==
  ASSUME FileInv, NEW t \in Tool, LoadClients(t)
  PROVE  FileInv'
<1>1. /\ UNCHANGED <<file, temps, server, crashes>> /\ runs' = runs + 1 /\ runs < MaxRuns
      /\ tool[t].pc = "idle"
  BY DEF LoadClients
<1> USE DEF FileInv
<1>2. tool[t] = Idle
  BY <1>1 DEF ToolsInv, ToolOK
<1> DEFINE x == [Idle EXCEPT !.pc = "loaded"]
           y == [Idle EXCEPT !.pc = "loaded", !.base = file, !.list = file.clients]
<1>3. \/ UNCHANGED tool
      \/ tool' = [tool EXCEPT ![t] = x]
      \/ file # Absent /\ tool' = [tool EXCEPT ![t] = y]
  BY <1>2 DEF LoadClients, DataInv
<1>4. x \in ToolState /\ (file # Absent => y \in ToolState)
  <2>1. Idle \in ToolState
    BY ToolTypes
  <2>2. file # Absent => file \in File /\ file.clients \in Seq(Client)
    BY DEF DataInv, File
  <2> QED BY <2>1, <2>2 DEF ToolState
<1>5. /\ x.pc = "loaded" /\ y.pc = "loaded" /\ x.base = Absent
      /\ y.list = file.clients /\ y.base = file
  BY DEF Idle
<1>6. DataInv'
  BY <1>1, <1>3, <1>4, FileAssumption DEF DataInv
<1>7. ToolOK(x) /\ ToolOK(y)
  BY <1>5 DEF ToolOK, Saving
<1>8. \A u \in Tool : Writing(tool[u]) => tool[u].temp \in DOMAIN temps
  BY DEF WriterInv
<1> HIDE DEF x, y
<1>9. CASE tool' = [tool EXCEPT ![t] = x]
  BY <1>1, <1>4, <1>5, <1>6, <1>7, <1>8, <1>9, MoveKeeps DEF Writing
<1>10. CASE file # Absent /\ tool' = [tool EXCEPT ![t] = y]
  BY <1>1, <1>4, <1>5, <1>6, <1>7, <1>8, <1>10, MoveKeeps DEF Writing
<1>11. CASE UNCHANGED tool
  BY <1>1, <1>6, <1>11 DEF WriterInv, ToolsInv, ServerInv
<1> QED BY <1>3, <1>9, <1>10, <1>11

\* A command saves what it validated, or exits.
LEMMA CommandKeeps ==
  ASSUME FileInv, NEW t \in Tool, Command(t)
  PROVE  FileInv'
<1> USE DEF FileInv
<1>1. PICK id \in Id, accepted \in BOOLEAN, list \in Seq(Client) :
        Submit(t, id, accepted, list) /\ DiffersAt(tool[t].list, list, id)
  BY CommandDoes
<1>2. tool[t].pc = "loaded" /\ UNCHANGED <<file, temps, server, runs, crashes>>
  BY <1>1, CommandDoes DEF Submit
<1> DEFINE y == [tool[t] EXCEPT !.pc = "create", !.named = id, !.list = list]
<1>3. \/ tool' = [tool EXCEPT ![t] = Idle]
      \/ ValidateClientSlice(list) /\ tool' = [tool EXCEPT ![t] = y]
  BY <1>1 DEF Submit
<1>4. /\ Idle \in ToolState /\ y \in ToolState
      /\ y.pc = "create" /\ y.list = list /\ y.base = tool[t].base /\ y.named = id
  BY <1>1, ToolTypes DEF ToolState
<1>5. DataInv'
  BY <1>2, <1>3, <1>4 DEF DataInv
<1>6. ToolOK(Idle) /\ (ValidateClientSlice(list) => ToolOK(y))
  BY <1>1, <1>2, <1>4, ToolTypes DEF ToolsInv, ToolOK, Saving
<1>7. \A u \in Tool : Writing(tool[u]) => tool[u].temp \in DOMAIN temps
  BY DEF WriterInv
<1> HIDE DEF y
<1>8. CASE tool' = [tool EXCEPT ![t] = Idle]
  BY <1>2, <1>4, <1>5, <1>6, <1>7, <1>8, MoveKeeps, ToolTypes DEF Writing
<1>9. CASE ValidateClientSlice(list) /\ tool' = [tool EXCEPT ![t] = y]
  BY <1>2, <1>4, <1>5, <1>6, <1>7, <1>9, MoveKeeps DEF Writing
<1> QED BY <1>3, <1>8, <1>9

\* A temp file is created under a name nobody has.
LEMMA CreateKeeps ==
  ASSUME FileInv, NEW t \in Tool, CreateTemp(t)
  PROVE  FileInv'
<1> USE DEF FileInv
<1> DEFINE free == 1 .. MaxRuns \ DOMAIN temps
           Created(name) == /\ temps' = [n \in DOMAIN temps \cup {name} |->
                                           IF n = name THEN Absent ELSE temps[n]]
                            /\ tool' = [tool EXCEPT ![t].pc = "write", ![t].temp = name]
<1>1. tool[t].pc = "create" /\ UNCHANGED <<file, server, runs, crashes>>
  BY DEF CreateTemp
<1>2. \/ \E name \in free : Created(name)
      \/ tool' = [tool EXCEPT ![t] = Idle] /\ UNCHANGED temps
  BY DEF CreateTemp
<1>3. \A u \in Tool : Writing(tool[u]) => tool[u].temp \in DOMAIN temps
  BY DEF WriterInv
<1>4. CASE tool' = [tool EXCEPT ![t] = Idle] /\ UNCHANGED temps
  <2>1. DataInv'
    BY <1>1, <1>4, ToolTypes DEF DataInv
  <2>2. ToolOK(Idle)
    BY ToolTypes DEF ToolOK, Saving
  <2> QED BY <1>1, <1>3, <1>4, <2>1, <2>2, MoveKeeps, ToolTypes DEF Writing
<1>5. ASSUME NEW name \in free, Created(name) PROVE FileInv'
  <2> DEFINE y == [tool[t] EXCEPT !.pc = "write", !.temp = name]
  <2>0. name \in Nat
    BY FileAssumption
  <2>1. /\ y \in ToolState /\ y.pc = "write" /\ y.list = tool[t].list
        /\ y.base = tool[t].base /\ y.named = tool[t].named /\ y.temp = name
    BY <2>0, ToolTypes DEF ToolState
  <2>2. tool' = [tool EXCEPT ![t] = y]
    BY <1>5 DEF DataInv
  <2>3. /\ DOMAIN temps' = DOMAIN temps \cup {name} /\ temps'[name] = Absent
        /\ \A n \in DOMAIN temps : temps'[n] = temps[n]
    BY <1>5
  <2>4. DataInv'
    BY <1>1, <2>1, <2>2, <2>3 DEF DataInv
  <2>5. ToolOK(y)
    BY <1>1, <2>1 DEF ToolsInv, ToolOK, Saving
  <2> HIDE DEF y
  <2> QED BY <1>1, <1>3, <2>1, <2>2, <2>3, <2>4, <2>5, MoveKeeps DEF Writing
<1> QED BY <1>2, <1>4, <1>5

\* An invocation that ends, with its temp file if it had one.
LEMMA EndKeeps ==
  ASSUME FileInv, NEW t \in Tool, tool' = [tool EXCEPT ![t] = Idle],
         file' \in File \cup {Absent}, server' = server, runs' = runs,
         crashes' \in 0 .. MaxCrashes,
         \/ temps' = temps
         \/ Writing(tool[t]) /\ temps' = WithoutTemp(t)
  PROVE  FileInv'
<1> USE DEF FileInv
<1>1. /\ DOMAIN temps' \subseteq DOMAIN temps
      /\ \A n \in DOMAIN temps' : temps'[n] = temps[n]
      /\ \A n \in DOMAIN temps \ DOMAIN temps' : Writing(tool[t]) /\ n = tool[t].temp
  BY DEF WithoutTemp
<1>2. DataInv'
  BY <1>1, ToolTypes DEF DataInv
<1>3. ToolOK(Idle)
  BY ToolTypes DEF ToolOK, Saving
<1>4. \A u \in Tool \ {t} : Writing(tool[u]) =>
        tool[u].temp \in DOMAIN temps' /\ temps'[tool[u].temp] = temps[tool[u].temp]
  BY <1>1 DEF WriterInv
<1> QED BY <1>2, <1>3, <1>4, MoveKeeps, ToolTypes DEF Writing

\* Writing touches only one's own temp file.
LEMMA WriteKeeps ==
  ASSUME FileInv, NEW t \in Tool, WriteTemp(t)
  PROVE  FileInv'
<1> USE DEF FileInv
<1> DEFINE n == tool[t].temp
           y == [tool[t] EXCEPT !.pc = "rename"]
<1>1. tool[t].pc = "write" /\ UNCHANGED <<file, server, runs, crashes>>
  BY DEF WriteTemp
<1>2. \/ /\ temps' = [temps EXCEPT ![n] = Doc(tool[t].list)]
         /\ tool' = [tool EXCEPT ![t].pc = "rename"]
      \/ RemoveTempFile(t)
  BY DEF WriteTemp, Doc
<1>3. CASE RemoveTempFile(t)
  BY <1>1, <1>3, EndKeeps DEF RemoveTempFile, Writing, DataInv
<1>4. CASE /\ temps' = [temps EXCEPT ![n] = Doc(tool[t].list)]
           /\ tool' = [tool EXCEPT ![t].pc = "rename"]
  <2>1. /\ y \in ToolState /\ y.pc = "rename" /\ y.list = tool[t].list
        /\ y.base = tool[t].base /\ y.named = tool[t].named /\ y.temp = n
    BY ToolTypes DEF ToolState
  <2>2. tool' = [tool EXCEPT ![t] = y]
    BY <1>4 DEF DataInv
  <2>3. n \in DOMAIN temps /\ \A u \in Tool \ {t} : Writing(tool[u]) =>
          tool[u].temp \in DOMAIN temps /\ tool[u].temp # n
    BY <1>1 DEF WriterInv, Writing
  <2>4. /\ DOMAIN temps' = DOMAIN temps /\ temps'[n] = Doc(tool[t].list)
        /\ \A k \in DOMAIN temps \ {n} : temps'[k] = temps[k]
    BY <1>4, <2>3
  <2>5. DataInv'
    BY <1>1, <2>1, <2>2, <2>4, ToolTypes, DocTypes DEF DataInv
  <2>6. ToolOK(y)
    BY <1>1, <2>1 DEF ToolsInv, ToolOK, Saving
  <2> HIDE DEF y, n
  <2> QED BY <1>1, <2>1, <2>2, <2>3, <2>4, <2>5, <2>6, MoveKeeps DEF Writing
<1> QED BY <1>2, <1>3, <1>4

LEMMA RenameKeeps ==
  ASSUME FileInv, NEW t \in Tool, RenameTemp(t)
  PROVE  FileInv'
<1> USE DEF FileInv
<1>1. /\ tool[t].pc = "rename" /\ UNCHANGED <<server, runs, crashes>>
      /\ tool' = [tool EXCEPT ![t] = Idle]
      /\ temps' = temps \/ temps' = WithoutTemp(t)
      /\ file' = temps[tool[t].temp] \/ file' = file
  BY DEF RenameTemp, Renamed, RemoveTempFile
<1>2. file' \in File \cup {Absent}
  BY <1>1 DEF WriterInv, DataInv, Writing
<1> QED BY <1>1, <1>2, EndKeeps DEF Writing, DataInv

LEMMA CrashKeeps ==
  ASSUME FileInv, NEW t \in Tool, Crash(t)
  PROVE  FileInv'
<1>1. crashes' \in 0 .. MaxCrashes
  BY FileAssumption DEF Crash, FileInv, DataInv
<1> QED BY <1>1, EndKeeps DEF Crash, FileInv, DataInv

LEMMA FileStep == FileInv /\ [Next]_vars => FileInv'
<1> SUFFICES ASSUME FileInv, [Next]_vars PROVE FileInv'
  OBVIOUS
<1>1. CASE ServerStarts
  <2>1. /\ UNCHANGED <<file, temps, tool, runs, crashes>> /\ server' = file.clients
        /\ file # Absent /\ ValidateClientSlice(file.clients) /\ NewClientRegistry(file.clients)
    BY <1>1 DEF ServerStarts, ValidFile
  <2>2. DataInv'
    BY <2>1 DEF FileInv, DataInv, File
  <2> QED BY <2>1, <2>2 DEF FileInv, WriterInv, ToolsInv, ServerInv
<1>2. CASE ServerStops
  BY <1>2 DEF ServerStops, FileInv, DataInv, WriterInv, ToolsInv, ServerInv
<1>3. CASE UNCHANGED vars
  BY <1>3 DEF vars, FileInv, DataInv, WriterInv, ToolsInv, ServerInv
<1> QED BY <1>1, <1>2, <1>3, LoadKeeps, CommandKeeps, CreateKeeps, WriteKeeps, RenameKeeps,
           CrashKeeps DEF Next

LEMMA FileInit == Init => FileInv
<1> SUFFICES ASSUME Init PROVE FileInv
  OBVIOUS
<1>1. \A t \in Tool : tool[t] = Idle
  BY DEF Init
<1>2. Idle \in ToolState /\ Idle.pc = "idle" /\ Idle.base = Absent
  BY DEF Idle, ToolState
<1>3. DOMAIN temps = {}
  BY DEF Init
<1>4. DataInv
  BY <1>2, <1>3, FileAssumption DEF Init, DataInv
<1> QED BY <1>1, <1>2, <1>4 DEF Init, FileInv, WriterInv, ToolsInv, ToolOK, ServerInv,
                                Saving, Writing

LEMMA FileInvariant == Spec => []FileInv
  BY FileInit, FileStep, PTL DEF Spec

-----------------------------------------------------------------------------
(* Theorems *)

\* A step of one invocation that leaves no temp file without its writer, a
\* death or a warning.
LEMMA TempsMove ==
  ASSUME NoStrayTemp, NEW t \in Tool,
         \A u \in Tool \ {t} : tool'[u] = tool[u],
         dead \subseteq dead', logged \subseteq logged',
         \A n \in DOMAIN temps' \ DOMAIN temps : Writing(tool'[t]) /\ tool'[t].temp = n,
         Writing(tool[t]) /\ tool[t].temp \in DOMAIN temps' =>
           \/ Writing(tool'[t]) /\ tool'[t].temp = tool[t].temp
           \/ tool[t].temp \in dead' \cup logged'
  PROVE  NoStrayTemp'
<1> SUFFICES ASSUME NEW n \in DOMAIN temps', n \notin dead', n \notin logged'
             PROVE  \E u \in Tool : Writing(tool'[u]) /\ tool'[u].temp = n
  BY DEF NoStrayTemp, Writing
<1>1. CASE n \in DOMAIN temps
  <2>1. PICK u \in Tool : Writing(tool[u]) /\ tool[u].temp = n
    BY <1>1 DEF NoStrayTemp, Writing
  <2> QED BY <2>1
<1> QED BY <1>1

LEMMA TempsStep ==
  ASSUME FileInv, NoStrayTemp, Next
  PROVE  NoStrayTemp'
<1> USE DEF FileInv
<1>1. tool \in [Tool -> ToolState] /\ \A t \in Tool : tool[t] \in ToolState
  BY DEF DataInv
<1>2. ~Writing(Idle)
  BY DEF Idle, Writing
<1>3. ASSUME NEW t \in Tool, LoadClients(t) PROVE NoStrayTemp'
  <2>1. /\ \A u \in Tool \ {t} : tool'[u] = tool[u]
        /\ tool[t].pc = "idle" /\ UNCHANGED <<temps, leftVars>>
    BY <1>1, <1>3 DEF LoadClients
  <2> QED BY <2>1, TempsMove DEF leftVars, Writing
<1>4. ASSUME NEW t \in Tool, Command(t) PROVE NoStrayTemp'
  <2>1. PICK id, accepted, list : Submit(t, id, accepted, list)
    BY <1>4, CommandDoes
  <2>2. /\ \A u \in Tool \ {t} : tool'[u] = tool[u]
        /\ tool[t].pc = "loaded" /\ UNCHANGED <<temps, leftVars>>
    BY <1>1, <1>4, <2>1, CommandDoes DEF Submit
  <2> QED BY <2>2, TempsMove DEF leftVars, Writing
<1>5. ASSUME NEW t \in Tool, CreateTemp(t) PROVE NoStrayTemp'
  <2>1. /\ \A u \in Tool \ {t} : tool'[u] = tool[u]
        /\ tool[t].pc = "create" /\ UNCHANGED leftVars
    BY <1>1, <1>5 DEF CreateTemp
  <2>2. \A n \in DOMAIN temps' \ DOMAIN temps : Writing(tool'[t]) /\ tool'[t].temp = n
    <3>1. \/ \E n : /\ DOMAIN temps' = DOMAIN temps \cup {n}
                   /\ tool' = [tool EXCEPT ![t].pc = "write", ![t].temp = n]
          \/ UNCHANGED temps
      BY <1>5 DEF CreateTemp
    <3>2. ASSUME NEW n, tool' = [tool EXCEPT ![t].pc = "write", ![t].temp = n]
          PROVE  Writing(tool'[t]) /\ tool'[t].temp = n
      BY <1>1, <3>2 DEF ToolState, Writing
    <3> QED BY <3>1, <3>2
  <2> QED BY <2>1, <2>2, TempsMove DEF leftVars, Writing
<1>6. ASSUME NEW t \in Tool, UNCHANGED dead,
             RemoveTempFile(t) \/ (Renamed(t) /\ UNCHANGED logged)
      PROVE  NoStrayTemp'
  <2>1. /\ \A u \in Tool \ {t} : tool'[u] = tool[u]
        /\ logged \subseteq logged' /\ DOMAIN temps' \subseteq DOMAIN temps
        /\ tool[t].temp \in DOMAIN temps' => tool[t].temp \in logged'
    BY <1>1, <1>6 DEF RemoveTempFile, Renamed, WithoutTemp
  <2> QED BY <1>6, <2>1, TempsMove
<1>7. ASSUME NEW t \in Tool, WriteTemp(t) PROVE NoStrayTemp'
  <2>1. CASE RemoveTempFile(t)
    BY <1>6, <1>7, <2>1 DEF WriteTemp
  <2>2. CASE ~RemoveTempFile(t)
    <3>1. /\ DOMAIN temps' = DOMAIN temps /\ UNCHANGED <<logged, dead>>
          /\ tool' = [tool EXCEPT ![t].pc = "rename"]
      BY <1>7, <2>2 DEF WriteTemp
    <3>2. /\ Writing(tool'[t]) /\ tool'[t].temp = tool[t].temp
          /\ \A u \in Tool \ {t} : tool'[u] = tool[u]
      BY <1>1, <3>1 DEF ToolState, Writing
    <3> QED BY <3>1, <3>2, TempsMove
  <2> QED BY <2>1, <2>2
<1>8. ASSUME NEW t \in Tool, RenameTemp(t) PROVE NoStrayTemp'
  BY <1>6, <1>8 DEF RenameTemp, Renamed
<1>9. ASSUME NEW t \in Tool, Crash(t) PROVE NoStrayTemp'
  <2>1. /\ \A u \in Tool \ {t} : tool'[u] = tool[u]
        /\ UNCHANGED <<temps, logged>> /\ dead \subseteq dead'
        /\ Writing(tool[t]) => tool[t].temp \in dead'
    BY <1>1, <1>9 DEF Crash, Writing
  <2> QED BY <2>1, TempsMove
<1>10. ASSUME ServerStarts \/ ServerStops PROVE NoStrayTemp'
  BY <1>10 DEF ServerStarts, ServerStops, leftVars, NoStrayTemp
<1> QED BY <1>3, <1>4, <1>5, <1>7, <1>8, <1>9, <1>10 DEF Next

\* Every invocation that writes has its temp file, and one whose invocation is
\* gone is there because the process died or a logged removal failed, for any
\* number of invocations at once (saveJSONFile, removeTempFile).
THEOREM TempsAccounted == Spec => []ToolInv
<1>1. FileInv => TypeOK
  <2> SUFFICES ASSUME FileInv PROVE TypeOK
    OBVIOUS
  <2>1. \A list \in Seq(Client) : \A i \in DOMAIN list : list[i] \in Client
    BY LenProperties, ElementOfSeq
  <2>2. \A f \in File : f.clients \in Seq(Client) /\ f.resources \in Registry
    BY DEF File
  <2>3. \A f \in File : Clients(f) \subseteq Client
    BY <2>1, <2>2 DEF Clients
  <2>4. \A t \in Tool : /\ tool[t].pc \in {"idle", "loaded", "create", "write", "rename"}
                        /\ tool[t].list \in Seq(Client)
    BY DEF FileInv, DataInv, ToolState
  <2>5. \A t \in Tool : tool[t].pc \in {"write", "rename"} => tool[t].temp \in DOMAIN temps
    BY DEF FileInv, WriterInv, Writing
  <2> QED BY <2>1, <2>2, <2>3, <2>4, <2>5 DEF FileInv, DataInv, TypeOK
<1>2. Init => NoStrayTemp
  BY DEF Init, NoStrayTemp
<1>3. FileInv /\ NoStrayTemp /\ [Next]_vars => NoStrayTemp'
  <2>1. UNCHANGED vars /\ NoStrayTemp => NoStrayTemp'
    BY DEF vars, leftVars, NoStrayTemp
  <2> QED BY <2>1, TempsStep
<1> QED BY <1>1, <1>2, <1>3, FileInvariant, PTL DEF Spec, ToolInv

\* What a running server loaded is sound, by whichever commands and by hand the
\* file got there (validate at every save and load, newClientRegistry).
THEOREM ServerLoadsSound == Spec => []LoadedSound
<1>1. FileInv => LoadedSound
  <2> SUFFICES ASSUME FileInv, server # Absent, NEW i \in DOMAIN server
               PROVE  /\ "client_credentials" \in server[i].grants =>
                           server[i].secret /\ server[i].ccScopes
                      /\ server[i].grants # {"client_credentials"} =>
                           DOMAIN server[i].users # {} /\ server[i].redirects # {}
    BY DEF LoadedSound, GrantGuarded, Serviceable
  <2> DEFINE c == server[i]
  <2>1. c \in Client
    BY LenProperties, ElementOfSeq DEF FileInv, DataInv
  <2>2. /\ ValidateProfile(c) /\ ValidateGrants(c) /\ ValidateURLs(c)
        /\ Interactive(c) => DOMAIN c.users # {}
    BY DEF FileInv, ServerInv, ValidateClientSlice, NewClientRegistry, Validate
  <2>3. c.secret \in BOOLEAN /\ c.grants \subseteq Grant
    BY <2>1 DEF Client
  <2> HIDE DEF c
  <2>4. "client_credentials" \in c.grants => c.secret /\ c.ccScopes
    BY <2>2, <2>3, Zenon DEF ValidateProfile, ValidateGrants
  <2>5. c.grants # {"client_credentials"} => Interactive(c)
    BY <2>3 DEF Interactive, Grants, Grant
  <2> QED BY <2>2, <2>4, <2>5 DEF ValidateURLs, c
<1> QED BY <1>1, FileInvariant, PTL

\* What a step may do to the file: leave it, or put in its place the document
\* that one invocation validated.
LEMMA FileReplaced ==
  ASSUME FileInv, Next, file' # file
  PROVE  \E t \in Tool : RenameTemp(t) /\ file' = Doc(tool[t].list)
<1>1. PICK t \in Tool : RenameTemp(t)
  BY CommandDoes DEF Next, FileInv, LoadClients, Submit, CreateTemp, WriteTemp, Crash,
     ServerStarts, ServerStops
<1>2. file' = Doc(tool[t].list)
  BY <1>1 DEF RenameTemp, Renamed, FileInv, WriterInv
<1> QED BY <1>1, <1>2

\* A clients file the server can read stays one, whatever invocations do to it
\* at once, wherever one dies and whichever write fails (saveJSONFile).
THEOREM FileNeverTorn == Spec => FileStaysReadable
<1>1. FileInv /\ [Next]_vars =>
        [file' # file /\ file # Absent /\ Readable(file) =>
           file' # Absent /\ Readable(file')]_vars
  <2> SUFFICES ASSUME FileInv, Next, file # Absent, Readable(file), file' # file
               PROVE  file' # Absent /\ Readable(file')
    BY DEF vars
  <2>1. PICK t \in Tool : RenameTemp(t) /\ file' = Doc(tool[t].list)
    BY FileReplaced
  <2>2. tool[t].list \in Seq(Client) /\ ValidateClientSlice(tool[t].list)
    BY <2>1, ToolTypes DEF FileInv, ToolsInv, ToolOK, Saving, RenameTemp
  <2> QED BY <2>1, <2>2, DocTypes, FileAssumption DEF Readable
<1> QED BY <1>1, FileInvariant, PTL DEF Spec, FileStaysReadable

\* A command that saves over the file it loaded changes the entry it names and
\* no other (clientAdd to userRemove, and SaveClients).
THEOREM CommandsTouchOneEntry == Spec => OneEntryPerCommand
<1> DEFINE OneEntry ==
      \A t \in Tool :
        /\ tool[t].pc = "rename" /\ file' # file
        /\ tool'[t].pc = "idle" /\ tool[t].base = file /\ file # Absent
        => \A d \in Id \ {tool[t].named} :
             {x \in Clients(file') : x.id = d} = {x \in Clients(file) : x.id = d}
<1>1. FileInv /\ [Next]_vars => [OneEntry]_vars
  <2> SUFFICES ASSUME FileInv, Next, NEW t \in Tool,
                      tool[t].pc = "rename", file' # file, tool'[t].pc = "idle",
                      tool[t].base = file, file # Absent
               PROVE  \A d \in Id \ {tool[t].named} :
                        {x \in Clients(file') : x.id = d} = {x \in Clients(file) : x.id = d}
    BY DEF vars
  <2>1. PICK u \in Tool : RenameTemp(u) /\ file' = Doc(tool[u].list)
    BY FileReplaced
  <2>2. u = t
    <3>1. tool' = [tool EXCEPT ![u] = Idle] /\ tool \in [Tool -> ToolState]
      BY <2>1 DEF RenameTemp, Renamed, RemoveTempFile, FileInv, DataInv
    <3>2. u # t => tool'[t] = tool[t]
      BY <3>1
    <3> QED BY <3>2
  <2>3. file'.clients = tool[t].list
    BY <2>1, <2>2, DocTypes, ToolTypes DEF FileInv
  <2>4. DiffersAt(file.clients, tool[t].list, tool[t].named)
    BY DEF FileInv, ToolsInv, ToolOK, Saving
  <2>5. \A d : /\ {x \in Clients(file') : x.id = d} = WithId(tool[t].list, d)
               /\ {x \in Clients(file) : x.id = d} = WithId(file.clients, d)
    BY <2>3 DEF Clients, WithId
  <2> TAKE d \in Id \ {tool[t].named}
  <2>6. WithId(tool[t].list, d) = WithId(file.clients, d)
    BY <2>4 DEF DiffersAt
  <2> QED BY <2>5, <2>6, Zenon
<1>2. Spec => [][OneEntry]_vars
  BY <1>1, FileInvariant, PTL DEF Spec
<1> QED BY <1>2 DEF OneEntryPerCommand
=============================================================================
