------------------------- MODULE KeyRotationProofs -------------------------
(***************************************************************************)
(* Theorems about KeyRotation, for any number of servers and rotate-keys   *)
(* commands and any lifetimes.                                             *)
(***************************************************************************)
EXTENDS KeyRotation, SequenceTheorems, TLAPS

-----------------------------------------------------------------------------
(* The inductive invariant, with any number of rotations at once *)

\* The types, a part at a time, and what they lack to be inductive: kids in
\* files and processes are those generated so far, and a command that saves has
\* a key and an open file.
FilesOK ==
  /\ inode \in Seq(Content)
  /\ \A i \in 1 .. Len(inode) : KIDs(inode[i].keys) \subseteq 0 .. made
  /\ ring \in 0 .. Len(inode) /\ tmp \in 0 .. Len(inode)
  /\ tmp # NoFile => tmp # ring

RotatorOK(x) ==
  /\ x.fd \in 0 .. Len(inode)
  /\ KIDs(x.keys) \subseteq 0 .. made /\ x.kid \in 0 .. made
  /\ x.pc \in {"open", "write", "rename"} => x.kid # Legacy
  /\ x.pc \in {"write", "rename"} => x.fd # NoFile
RotatorsOK ==
  rotator \in [Rotator -> RotatorState] /\ \A r \in Rotator : RotatorOK(rotator[r])

ServerOK(x) == x.from \in 0 .. Len(inode) /\ KIDs(x.keys) \subseteq 0 .. made
ServersOK ==
  server \in [Server -> ServerState] /\ \A s \in Server : ServerOK(server[s])

HistoryOK ==
  /\ clock \in Nat /\ made \in Nat /\ pem \in SUBSET (0 .. made)
  /\ tokens \in SUBSET Token
  /\ staged \in SUBSET (1 .. made)
  /\ retired \in SUBSET [kid: 0 .. made, at: 0 .. clock]

BoundInv == FilesOK /\ RotatorsOK /\ ServersOK /\ HistoryOK

\* The documents that are the keyring or may become it, and those a server is
\* loading.  A temp file left by a dead command is not among them: the next
\* command truncates it before it renames it.
Saving == \E r \in Rotator : rotator[r].pc \in {"write", "rename"}
Named == {ring} \cup (IF Saving THEN {tmp} ELSE {})
Live ==
  {inode[i].keys : i \in {j \in Named : j # NoFile /\ inode[j].kind = "doc"}}
  \cup {rotator[r].keys : r \in {q \in Rotator : rotator[q].pc \in {"open", "write"}}}
  \cup {server[s].keys : s \in {q \in Server : server[q].pc = "load"}}
Read == Live \cup {rotator[r].keys : r \in {q \in Rotator : rotator[q].pc = "generate"}}

OneActive(keys) == \E e \in keys : Active(keys) = {e} /\ e.kid \in pem
UniqueKIDs(keys) == \A e, f \in keys : e.kid = f.kid => e = f

\* Every document in play has one active key, on disk, and no entry of any of
\* them that may be pruned names the active key of another.
LiveInv ==
  /\ \A K \in Live : OneActive(K)
  /\ \A K \in Read : UniqueKIDs(K)
  /\ \A K \in Read, L \in Live : \A e \in K, a \in Active(L) :
       PastHorizon(e) => e.kid # a.kid
  /\ \A r \in Rotator : rotator[r].pc = "generate" => Active(rotator[r].keys) = {}

RingInv == BoundInv /\ LiveInv

-----------------------------------------------------------------------------
(* The rest of it, for rotations one at a time *)

HasRead(r) == rotator[r].pc \in {"generate", "open", "write", "rename"}
RingKeys == IF ring = NoFile THEN {} ELSE inode[ring].keys
Retiring(keys) == {e \in keys : e.state = "retiring"}

\* The keyring is a document, the temp file is the one command's own, and no
\* start failed.
SoloFiles ==
  /\ \A q, r \in Rotator : Rotating(q) /\ Rotating(r) => q = r
  /\ ring # NoFile => inode[ring].kind = "doc"
  /\ \A r \in Rotator :
       /\ rotator[r].pc = "adopt" => ring = NoFile
       /\ rotator[r].pc = "write" => /\ tmp # NoFile /\ rotator[r].fd = tmp
                                     /\ inode[tmp] = Empty
       /\ rotator[r].pc = "rename" => tmp # NoFile /\ inode[tmp] = Doc(rotator[r].keys)
  /\ tmp # NoFile => \A s \in Server : server[s].from # tmp
  /\ \A s \in Server : server[s].pc # "failed"

\* No key is forgotten: a command under way has all that the keyring has, the
\* keyring has all that servers load, and the legacy key once it was used.
InUse == IF ring = NoFile THEN {Legacy} ELSE KIDs(inode[ring].keys)

SoloKept ==
  /\ \A r \in Rotator : HasRead(r) =>
       /\ KIDs(RingKeys) \subseteq KIDs(rotator[r].keys)
       /\ Retiring(RingKeys) \subseteq rotator[r].keys
       /\ Legacy \in pem => Legacy \in KIDs(rotator[r].keys)
       /\ rotator[r].pc # "generate" => rotator[r].kid \in KIDs(rotator[r].keys)
  /\ staged \subseteq KIDs(RingKeys)
  /\ Legacy \in pem => Legacy \in InUse
  /\ \A s \in Server :
       /\ server[s].pc = "load" => /\ ring # NoFile
                                   /\ KIDs(server[s].keys) \subseteq KIDs(RingKeys)
                                   /\ Retiring(server[s].keys) \subseteq RingKeys
       /\ server[s].pc = "up" => /\ server[s].active \in InUse
                                 /\ ring = NoFile => Legacy \in pem
  /\ \A t \in tokens : t.kid \in InUse /\ (ring = NoFile => Legacy \in pem)

\* A retiring entry expires a retention after the key was first retiring.
Dated(e) == \E k \in retired : k.kid = e.kid /\ e.retireAt = k.at + LoadKeyRetention

SoloDates ==
  /\ \A k \in retired : \E e \in Retiring(RingKeys) : e.kid = k.kid
  /\ \A e \in Retiring(RingKeys) : Dated(e)
  /\ \A r \in Rotator : HasRead(r) =>
       \A e \in Retiring(rotator[r].keys) :
         \/ Dated(e)
         \/ e.kid \notin KIDs(retired) /\ e.retireAt = clock + LoadKeyRetention

\* A key that is not past its horizon is on disk, and published by every server
\* that loaded this keyring.
SoloPublished ==
  /\ \A t \in tokens : clock < t.exp
  /\ \A e \in RingKeys : ~PastHorizon(e) => e.kid \in pem
  /\ \A r \in Rotator : HasRead(r) =>
       \A e \in rotator[r].keys : ~PastHorizon(e) => e.kid \in pem
  /\ \A s \in Server :
       /\ server[s].pc = "load" => /\ server[s].from # NoFile
                                   /\ server[s].from = ring => server[s].keys = RingKeys
       /\ server[s].pc = "up" /\ server[s].from = NoFile => server[s].published = {Legacy}
       /\ server[s].pc = "up" /\ server[s].from = ring =>
            \A e \in RingKeys : ~PastHorizon(e) => e.kid \in server[s].published
       /\ server[s].pc \in {"down", "legacy"} => server[s].from = NoFile

SoloInv == ~overlap => SoloFiles /\ SoloKept /\ SoloDates /\ SoloPublished

-----------------------------------------------------------------------------
(* Helpers *)

\* Replacing the contents of a file leaves the others, and their number.
LEMMA WriteFile ==
  ASSUME NEW f \in Seq(Content), NEW i \in 1 .. Len(f), NEW c \in Content
  PROVE  /\ [f EXCEPT ![i] = c] \in Seq(Content) /\ Len([f EXCEPT ![i] = c]) = Len(f)
         /\ \A j \in 1 .. Len(f) : [f EXCEPT ![i] = c][j] = IF j = i THEN c ELSE f[j]
  BY ExceptSeq

\* Creating a file leaves the others.
LEMMA CreateFile ==
  ASSUME NEW f \in Seq(Content), NEW c \in Content
  PROVE  /\ Append(f, c) \in Seq(Content) /\ Len(Append(f, c)) = Len(f) + 1
         /\ Append(f, c)[Len(f) + 1] = c
         /\ \A j \in 1 .. Len(f) : Append(f, c)[j] = f[j]
  OBVIOUS

\* The contents the code writes.
LEMMA ContentTypes ==
  /\ Empty \in Content /\ Torn \in Content
  /\ \A keys \in SUBSET KeyringEntry : Doc(keys) \in Content
  /\ Empty.keys = {} /\ Torn.keys = {} /\ Empty.kind = "empty" /\ Torn.kind = "torn"
  /\ \A keys : Doc(keys).keys = keys /\ Doc(keys).kind = "doc"
  BY DEF Empty, Torn, Doc, Content

\* The horizon of a key retired now is in the future.
LEMMA RetentionPositive == LoadKeyRetention \in Nat /\ LoadKeyRetention > 0
  BY RotationAssumption DEF LoadKeyRetention, Unset

\* retireRingKeys keeps the kids and leaves the retiring entries alone.
LEMMA RetireKeeps ==
  ASSUME NEW keys \in SUBSET KeyringEntry, NEW at \in Nat
  PROVE  LET new == RetireRingKeys(keys, at) IN
         /\ new \in SUBSET KeyringEntry
         /\ KIDs(new) = KIDs(keys)
         /\ Active(new) = {}
         /\ Retiring(keys) \subseteq new
         /\ \A e \in new : e \in Retiring(keys) \/
              \E f \in Active(keys) : e = [f EXCEPT !.state = "retiring", !.retireAt = at]
<1> DEFINE Retired(e) == [e EXCEPT !.state = "retiring", !.retireAt = at]
           new == RetireRingKeys(keys, at)
<1>1. \A e \in keys : /\ Retired(e) \in KeyringEntry /\ Retired(e).kid = e.kid
                      /\ Retired(e).state = "retiring" /\ e.state \in {"active", "retiring"}
  BY DEF KeyringEntry
<1>2. \A e \in new : \/ e \in keys /\ e.state # "active"
                     \/ \E f \in keys : f.state = "active" /\ e = Retired(f)
  BY DEF RetireRingKeys
<1>3. \A f \in keys : IF f.state = "active" THEN Retired(f) \in new ELSE f \in new
  BY DEF RetireRingKeys
<1> HIDE DEF new, Retired
<1>4. \A e \in new : e \in KeyringEntry /\ e.state = "retiring"
  <2> SUFFICES ASSUME NEW e \in new PROVE e \in KeyringEntry /\ e.state = "retiring"
    OBVIOUS
  <2>1. CASE e \in keys /\ e.state # "active"
    BY <1>1, <2>1
  <2>2. CASE \E f \in keys : f.state = "active" /\ e = Retired(f)
    BY <1>1, <2>2
  <2> QED BY <1>2, <2>1, <2>2
<1>5. KIDs(new) = KIDs(keys)
  <2>1. \A e \in new : \E f \in keys : f.kid = e.kid
    BY <1>1, <1>2
  <2>2. \A f \in keys : \E e \in new : f.kid = e.kid
    BY <1>1, <1>3
  <2> QED BY <2>1, <2>2 DEF KIDs
<1>6. Active(new) = {}
  BY <1>4 DEF Active
<1>7. Retiring(keys) \subseteq new
  BY <1>3 DEF Retiring
<1>8. \A e \in new : e \in Retiring(keys) \/ \E f \in Active(keys) : e = Retired(f)
  BY <1>1, <1>2 DEF Retiring, Active
<1> QED BY <1>4, <1>5, <1>6, <1>7, <1>8 DEF new, Retired

-----------------------------------------------------------------------------
(* Types *)

\* The parts make up the type invariant.
LEMMA BoundType == BoundInv => TypeOK
  BY DEF BoundInv, FilesOK, RotatorsOK, ServersOK, HistoryOK, RotatorOK, ServerOK, TypeOK

\* A command that moves: the others stay, and it has these fields.
Becomes(r, pc, keys, kid, fd) ==
  /\ rotator' \in [Rotator -> RotatorState]
  /\ \A q \in Rotator : q # r => rotator'[q] = rotator[q]
  /\ rotator'[r].pc = pc /\ rotator'[r].keys = keys
  /\ rotator'[r].kid = kid /\ rotator'[r].fd = fd

\* The moves of the actions, in that form.
LEMMA Moves ==
  ASSUME rotator \in [Rotator -> RotatorState], NEW r \in Rotator,
         NEW pc \in {"idle", "adopt", "generate", "open", "write", "rename"},
         NEW keys \in SUBSET KeyringEntry, NEW kid \in Nat, NEW fd \in Nat
  PROVE  /\ rotator' = [rotator EXCEPT ![r].pc = pc]
              => Becomes(r, pc, rotator[r].keys, rotator[r].kid, rotator[r].fd)
         /\ rotator' = [rotator EXCEPT ![r].pc = pc, ![r].keys = keys]
              => Becomes(r, pc, keys, rotator[r].kid, rotator[r].fd)
         /\ rotator' = [rotator EXCEPT ![r].pc = pc, ![r].kid = kid, ![r].keys = keys]
              => Becomes(r, pc, keys, kid, rotator[r].fd)
         /\ rotator' = [rotator EXCEPT ![r].pc = pc, ![r].fd = fd]
              => Becomes(r, pc, rotator[r].keys, rotator[r].kid, fd)
         /\ rotator' = [rotator EXCEPT ![r] = NoRotation]
              => Becomes(r, "idle", {}, Legacy, NoFile)
<1> DEFINE x == rotator[r]
<1>0. x \in RotatorState
  OBVIOUS
<1>1. ASSUME NEW y \in RotatorState, rotator' = [rotator EXCEPT ![r] = y]
      PROVE  /\ rotator' \in [Rotator -> RotatorState] /\ rotator'[r] = y
             /\ \A q \in Rotator : q # r => rotator'[q] = rotator[q]
  BY <1>1
<1>2. rotator' = [rotator EXCEPT ![r].pc = pc]
        => Becomes(r, pc, x.keys, x.kid, x.fd)
  <2> DEFINE y == [x EXCEPT !.pc = pc]
  <2>1. /\ y \in RotatorState /\ y.pc = pc /\ y.keys = x.keys /\ y.kid = x.kid
        /\ y.fd = x.fd
    BY <1>0 DEF RotatorState
  <2>2. [rotator EXCEPT ![r].pc = pc] = [rotator EXCEPT ![r] = y]
    BY <1>0
  <2> HIDE DEF y
  <2> QED BY <1>1, <2>1, <2>2 DEF Becomes
<1>3. rotator' = [rotator EXCEPT ![r].pc = pc, ![r].keys = keys]
        => Becomes(r, pc, keys, x.kid, x.fd)
  <2> DEFINE y == [x EXCEPT !.pc = pc, !.keys = keys]
  <2>1. /\ y \in RotatorState /\ y.pc = pc /\ y.keys = keys /\ y.kid = x.kid
        /\ y.fd = x.fd
    BY <1>0 DEF RotatorState
  <2>2. [rotator EXCEPT ![r].pc = pc, ![r].keys = keys] = [rotator EXCEPT ![r] = y]
    BY <1>0
  <2> HIDE DEF y
  <2> QED BY <1>1, <2>1, <2>2 DEF Becomes
<1>4. rotator' = [rotator EXCEPT ![r].pc = pc, ![r].kid = kid, ![r].keys = keys]
        => Becomes(r, pc, keys, kid, x.fd)
  <2> DEFINE y == [x EXCEPT !.pc = pc, !.kid = kid, !.keys = keys]
  <2>1. /\ y \in RotatorState /\ y.pc = pc /\ y.keys = keys /\ y.kid = kid
        /\ y.fd = x.fd
    BY <1>0 DEF RotatorState, KID
  <2>2. [rotator EXCEPT ![r].pc = pc, ![r].kid = kid, ![r].keys = keys]
          = [rotator EXCEPT ![r] = y]
    BY <1>0
  <2> HIDE DEF y
  <2> QED BY <1>1, <2>1, <2>2 DEF Becomes
<1>5. rotator' = [rotator EXCEPT ![r].pc = pc, ![r].fd = fd]
        => Becomes(r, pc, x.keys, x.kid, fd)
  <2> DEFINE y == [x EXCEPT !.pc = pc, !.fd = fd]
  <2>1. /\ y \in RotatorState /\ y.pc = pc /\ y.keys = x.keys /\ y.kid = x.kid
        /\ y.fd = fd
    BY <1>0 DEF RotatorState
  <2>2. [rotator EXCEPT ![r].pc = pc, ![r].fd = fd] = [rotator EXCEPT ![r] = y]
    BY <1>0
  <2> HIDE DEF y
  <2> QED BY <1>1, <2>1, <2>2 DEF Becomes
<1>6. rotator' = [rotator EXCEPT ![r] = NoRotation] => Becomes(r, "idle", {}, Legacy, NoFile)
  BY <1>1 DEF Becomes, NoRotation, RotatorState, KID, Legacy, NoFile
<1> QED BY <1>2, <1>3, <1>4, <1>5, <1>6

\* Processes that are left alone stay well formed while files and keys are added.
LEMMA RotatorMoves ==
  ASSUME BoundInv, Len(inode') \in Nat, Len(inode) <= Len(inode'), made' \in Nat, made <= made',
         rotator' \in [Rotator -> RotatorState],
         \A r \in Rotator : rotator'[r] = rotator[r] \/ RotatorOK(rotator[r])'
  PROVE  RotatorsOK'
<1>0. Len(inode) \in Nat /\ made \in Nat
  BY DEF BoundInv, FilesOK, HistoryOK
<1>1. ASSUME NEW r \in Rotator, rotator'[r] = rotator[r]
      PROVE  RotatorOK(rotator[r])'
  <2>1. RotatorOK(rotator[r])
    BY DEF BoundInv, RotatorsOK
  <2>2. 0 .. Len(inode) \subseteq 0 .. Len(inode') /\ 0 .. made \subseteq 0 .. made'
    BY <1>0
  <2> QED BY <1>1, <2>1, <2>2 DEF RotatorOK
<1> QED BY <1>1 DEF RotatorsOK

LEMMA ServerMoves ==
  ASSUME BoundInv, Len(inode') \in Nat, Len(inode) <= Len(inode'), made' \in Nat, made <= made',
         server' \in [Server -> ServerState],
         \A s \in Server : server'[s] = server[s] \/ ServerOK(server[s])'
  PROVE  ServersOK'
<1>0. Len(inode) \in Nat /\ made \in Nat
  BY DEF BoundInv, FilesOK, HistoryOK
<1>1. ASSUME NEW s \in Server, server'[s] = server[s]
      PROVE  ServerOK(server[s])'
  <2>1. ServerOK(server[s])
    BY DEF BoundInv, ServersOK
  <2>2. 0 .. Len(inode) \subseteq 0 .. Len(inode') /\ 0 .. made \subseteq 0 .. made'
    BY <1>0
  <2> QED BY <1>1, <2>1, <2>2 DEF ServerOK
<1> QED BY <1>1 DEF ServersOK

\* What a process that is well formed has in its fields.
LEMMA ProcessTypes ==
  ASSUME BoundInv
  PROVE  /\ \A r \in Rotator : /\ rotator[r] \in RotatorState /\ RotatorOK(rotator[r])
                               /\ rotator[r].keys \in SUBSET KeyringEntry
         /\ \A s \in Server : /\ server[s] \in ServerState /\ ServerOK(server[s])
                              /\ server[s].keys \in SUBSET KeyringEntry
         /\ \A i \in 1 .. Len(inode) : inode[i].keys \in SUBSET KeyringEntry
         /\ Len(inode) \in Nat /\ made \in Nat /\ clock \in Nat
<1>1. \A i \in 1 .. Len(inode) : inode[i] \in Content
  BY DEF BoundInv, FilesOK
<1>2. \A i \in 1 .. Len(inode) : inode[i].keys \in SUBSET KeyringEntry
  BY <1>1 DEF Content
<1>3. \A r \in Rotator : /\ rotator[r] \in RotatorState /\ RotatorOK(rotator[r])
  BY DEF BoundInv, RotatorsOK
<1>4. \A s \in Server : /\ server[s] \in ServerState /\ ServerOK(server[s])
  BY DEF BoundInv, ServersOK
<1>5. Len(inode) \in Nat /\ made \in Nat /\ clock \in Nat
  BY DEF BoundInv, FilesOK, HistoryOK
<1> QED BY <1>2, <1>3, <1>4, <1>5 DEF RotatorState, ServerState

\* A document that is the keyring has entries and known kids.
LEMMA RingTypes ==
  ASSUME BoundInv, ring # NoFile
  PROVE  /\ ring \in 1 .. Len(inode)
         /\ inode[ring].keys \in SUBSET KeyringEntry
         /\ KIDs(inode[ring].keys) \subseteq 0 .. made
<1>1. ring \in 1 .. Len(inode)
  BY DEF BoundInv, FilesOK, NoFile
<1> QED BY <1>1, ProcessTypes DEF BoundInv, FilesOK

\* What ReadRing and AdoptLegacy leave in memory, and a new key's entry.
Adopted == {[kid |-> k, state |-> "retiring", retireAt |-> clock + LoadKeyRetention]
              : k \in pem \cap {Legacy}}
NewEntry == [kid |-> made + 1, state |-> "active", retireAt |-> 0]

LEMMA NewKeys ==
  ASSUME BoundInv
  PROVE  /\ Adopted \in SUBSET KeyringEntry /\ KIDs(Adopted) = pem \cap {Legacy}
         /\ Active(Adopted) = {} /\ UniqueKIDs(Adopted)
         /\ \A e \in Adopted : e.retireAt = clock + LoadKeyRetention
         /\ NewEntry \in KeyringEntry /\ NewEntry.kid = made + 1 /\ NewEntry.state = "active"
         /\ ring # NoFile =>
              /\ RetireRingKeys(inode[ring].keys, clock + LoadKeyRetention) \in SUBSET KeyringEntry
              /\ KIDs(RetireRingKeys(inode[ring].keys, clock + LoadKeyRetention))
                   = KIDs(inode[ring].keys)
<1>0. clock + LoadKeyRetention \in Nat /\ made \in Nat
  BY ProcessTypes, RetentionPositive
<1>1. Adopted \in SUBSET KeyringEntry /\ Active(Adopted) = {} /\ UniqueKIDs(Adopted)
      /\ \A e \in Adopted : e.retireAt = clock + LoadKeyRetention
  BY <1>0 DEF Adopted, KeyringEntry, KID, Legacy, Active, UniqueKIDs
<1>2. KIDs(Adopted) = pem \cap {Legacy}
  <2>1. \A e \in Adopted : e.kid \in pem \cap {Legacy}
    BY DEF Adopted
  <2>2. \A k \in pem \cap {Legacy} : \E e \in Adopted : e.kid = k
    <3> DEFINE Entry(k) == [kid |-> k, state |-> "retiring", retireAt |-> clock + LoadKeyRetention]
    <3>1. \A k \in pem \cap {Legacy} : Entry(k) \in Adopted
      BY DEF Adopted
    <3>2. \A k : Entry(k).kid = k
      OBVIOUS
    <3> HIDE DEF Entry
    <3> QED BY <3>1, <3>2
  <2> QED BY <2>1, <2>2 DEF KIDs
<1>3. NewEntry \in KeyringEntry /\ NewEntry.kid = made + 1 /\ NewEntry.state = "active"
  BY <1>0 DEF NewEntry, KeyringEntry, KID
<1>4. ring # NoFile =>
        /\ RetireRingKeys(inode[ring].keys, clock + LoadKeyRetention) \in SUBSET KeyringEntry
        /\ KIDs(RetireRingKeys(inode[ring].keys, clock + LoadKeyRetention))
             = KIDs(inode[ring].keys)
  BY <1>0, RingTypes, RetireKeeps
<1> QED BY <1>1, <1>2, <1>3, <1>4

-----------------------------------------------------------------------------
(* What each action of a command does, with the command's fields spelled out *)

Retired == RetireRingKeys(inode[ring].keys, clock + LoadKeyRetention)

LEMMA ReadRingDoes ==
  ASSUME BoundInv, NEW r \in Rotator, ReadRing(r)
  PROVE  /\ rotator[r].pc = "idle"
         /\ UNCHANGED <<clock, pem, inode, ring, tmp, server, tokens, made, staged, retired>>
         /\ overlap' = (overlap \/ \E q \in Rotator : Rotating(q))
         /\ \/ ring = NoFile /\ Becomes(r, "adopt", rotator[r].keys, rotator[r].kid, rotator[r].fd)
            \/ /\ ring # NoFile /\ inode[ring].kind = "doc"
               /\ Becomes(r, "generate", Retired, rotator[r].kid, rotator[r].fd)
<1>1. rotator \in [Rotator -> RotatorState] /\ rotator[r].keys \in SUBSET KeyringEntry
  BY ProcessTypes DEF BoundInv, RotatorsOK
<1>2. ring # NoFile => Retired \in SUBSET KeyringEntry
  BY NewKeys DEF Retired
<1>3. CASE ring = NoFile
  <2>1. rotator' = [rotator EXCEPT ![r].pc = "adopt"]
    BY <1>3 DEF ReadRing
  <2>2. Becomes(r, "adopt", rotator[r].keys, rotator[r].kid, rotator[r].fd)
    BY <1>1, <2>1, Moves
  <2> QED BY <1>3, <2>2 DEF ReadRing, disk
<1>4. CASE ring # NoFile
  <2>1. /\ rotator' = [rotator EXCEPT ![r].pc = "generate", ![r].keys = Retired]
        /\ inode[ring].kind = "doc"
    BY <1>4 DEF ReadRing, Retired
  <2>2. Becomes(r, "generate", Retired, rotator[r].kid, rotator[r].fd)
    BY <1>1, <1>2, <1>4, <2>1, Moves
  <2> QED BY <1>4, <2>1, <2>2 DEF ReadRing, disk
<1> QED BY <1>3, <1>4

LEMMA AdoptLegacyDoes ==
  ASSUME BoundInv, NEW r \in Rotator, AdoptLegacy(r)
  PROVE  /\ rotator[r].pc = "adopt"
         /\ UNCHANGED <<clock, pem, inode, ring, tmp, server, tokens, made, staged, retired, overlap>>
         /\ Becomes(r, "generate", Adopted, rotator[r].kid, rotator[r].fd)
<1>1. rotator \in [Rotator -> RotatorState] /\ rotator[r].keys \in SUBSET KeyringEntry
  BY ProcessTypes DEF BoundInv, RotatorsOK
<1>2. rotator' = [rotator EXCEPT ![r].pc = "generate", ![r].keys = Adopted]
  BY DEF AdoptLegacy, Adopted
<1>3. Becomes(r, "generate", Adopted, rotator[r].kid, rotator[r].fd)
  BY <1>1, <1>2, NewKeys, Moves
<1> QED BY <1>3 DEF AdoptLegacy, disk

LEMMA PersistKeyPEMDoes ==
  ASSUME BoundInv, NEW r \in Rotator, PersistKeyPEM(r)
  PROVE  /\ rotator[r].pc = "generate"
         /\ made' = made + 1 /\ pem' = pem \cup {made + 1}
         /\ UNCHANGED <<clock, inode, ring, tmp, server, tokens, staged, retired, overlap>>
         /\ Becomes(r, "open", rotator[r].keys \cup {NewEntry}, made + 1, rotator[r].fd)
<1> DEFINE keys == rotator[r].keys \cup {NewEntry}
<1>1. rotator \in [Rotator -> RotatorState] /\ keys \in SUBSET KeyringEntry /\ made + 1 \in Nat
  BY ProcessTypes, NewKeys DEF BoundInv, RotatorsOK
<1>2. made' = made + 1
  BY DEF PersistKeyPEM
<1>3. rotator' = [rotator EXCEPT ![r].pc = "open", ![r].kid = made + 1, ![r].keys = keys]
  <2>1. rotator' = [rotator EXCEPT ![r].pc = "open", ![r].kid = made',
                      ![r].keys = @ \cup {[kid |-> made', state |-> "active", retireAt |-> 0]}]
    BY DEF PersistKeyPEM
  <2> QED BY <1>1, <1>2, <2>1 DEF NewEntry
<1> HIDE DEF keys
<1>4. Becomes(r, "open", keys, made + 1, rotator[r].fd)
  BY <1>1, <1>3, Moves
<1> QED BY <1>2, <1>4 DEF PersistKeyPEM, keys

LEMMA OpenRingTempDoes ==
  ASSUME BoundInv, NEW r \in Rotator, OpenRingTemp(r)
  PROVE  /\ rotator[r].pc = "open"
         /\ UNCHANGED <<clock, pem, ring, server, tokens, made, staged, retired, overlap>>
         /\ inode' \in Seq(Content) /\ Len(inode') \in Nat /\ Len(inode) <= Len(inode')
         /\ tmp' \in 1 .. Len(inode') /\ tmp' # ring /\ inode'[tmp'] = Empty
         /\ tmp' = tmp \/ tmp' \notin 0 .. Len(inode)
         /\ \/ Len(inode') = Len(inode)
            \/ tmp' = Len(inode) + 1 /\ Len(inode') = Len(inode) + 1
         /\ \A i \in 1 .. Len(inode) : i # tmp' => inode'[i] = inode[i]
         /\ Becomes(r, "write", rotator[r].keys, rotator[r].kid, tmp')
<1>1. rotator \in [Rotator -> RotatorState] /\ FilesOK /\ Len(inode) \in Nat
  BY ProcessTypes DEF BoundInv, RotatorsOK
<1>2. /\ inode' \in Seq(Content) /\ Len(inode') \in Nat /\ Len(inode) <= Len(inode')
      /\ tmp' \in 1 .. Len(inode') /\ tmp' # ring /\ inode'[tmp'] = Empty
      /\ tmp' = tmp \/ tmp' \notin 0 .. Len(inode)
      /\ \/ Len(inode') = Len(inode)
         \/ tmp' = Len(inode) + 1 /\ Len(inode') = Len(inode) + 1
      /\ \A i \in 1 .. Len(inode) : i # tmp' => inode'[i] = inode[i]
  <2>1. CASE tmp = NoFile
    <3>1. inode' = Append(inode, Empty) /\ tmp' = Len(inode')
      BY <2>1 DEF OpenRingTemp
    <3>2. /\ inode' \in Seq(Content) /\ Len(inode') = Len(inode) + 1
          /\ inode'[Len(inode) + 1] = Empty
          /\ \A j \in 1 .. Len(inode) : inode'[j] = inode[j]
      BY <1>1, <3>1, CreateFile, ContentTypes DEF FilesOK
    <3> QED BY <1>1, <3>1, <3>2 DEF FilesOK
  <2>2. CASE tmp # NoFile
    <3>1. inode' = [inode EXCEPT ![tmp] = Empty] /\ tmp' = tmp /\ tmp \in 1 .. Len(inode)
      BY <1>1, <2>2 DEF OpenRingTemp, FilesOK, NoFile
    <3>2. /\ inode' \in Seq(Content) /\ Len(inode') = Len(inode)
          /\ \A j \in 1 .. Len(inode) : inode'[j] = IF j = tmp THEN Empty ELSE inode[j]
      BY <1>1, <3>1, WriteFile, ContentTypes DEF FilesOK
    <3>3. inode'[tmp'] = Empty /\ \A i \in 1 .. Len(inode) : i # tmp' => inode'[i] = inode[i]
      BY <3>1, <3>2
    <3>4. tmp # ring
      BY <1>1, <2>2 DEF FilesOK
    <3>5. Len(inode') \in Nat /\ Len(inode) <= Len(inode') /\ tmp' \in 1 .. Len(inode')
      BY <1>1, <3>1, <3>2
    <3>6. tmp' # ring /\ tmp' = tmp /\ Len(inode') = Len(inode)
      BY <3>1, <3>2, <3>4
    <3> QED BY <3>2, <3>3, <3>5, <3>6
  <2> QED BY <2>1, <2>2
<1>3. Becomes(r, "write", rotator[r].keys, rotator[r].kid, tmp')
  <2>1. rotator' = [rotator EXCEPT ![r].pc = "write", ![r].fd = tmp'] /\ tmp' \in Nat
    BY <1>2 DEF OpenRingTemp
  <2> QED BY <1>1, <2>1, Moves
<1> QED BY <1>2, <1>3 DEF OpenRingTemp

LEMMA WriteRingDoes ==
  ASSUME BoundInv, NEW r \in Rotator, WriteRing(r)
  PROVE  LET fd == rotator[r].fd IN
         /\ rotator[r].pc = "write" /\ fd \in 1 .. Len(inode)
         /\ UNCHANGED <<clock, pem, ring, tmp, server, tokens, made, staged, retired, overlap>>
         /\ inode' \in Seq(Content) /\ Len(inode') = Len(inode)
         /\ \/ inode'[fd] = Doc(rotator[r].keys)
            \/ inode[fd] # Empty /\ inode'[fd] = Torn
         /\ \A i \in 1 .. Len(inode) : i # fd => inode'[i] = inode[i]
         /\ Becomes(r, "rename", rotator[r].keys, rotator[r].kid, fd)
<1> DEFINE fd == rotator[r].fd
<1>1. /\ rotator \in [Rotator -> RotatorState] /\ rotator[r].keys \in SUBSET KeyringEntry
      /\ RotatorOK(rotator[r]) /\ inode \in Seq(Content)
  BY ProcessTypes DEF BoundInv, RotatorsOK, FilesOK
<1>2. rotator[r].pc = "write" /\ fd \in 1 .. Len(inode)
  BY <1>1 DEF WriteRing, RotatorOK, NoFile
<1>3. PICK c \in Content : /\ inode' = [inode EXCEPT ![fd] = c]
                           /\ c = Doc(rotator[r].keys) \/ (inode[fd] # Empty /\ c = Torn)
  BY <1>1, ContentTypes DEF WriteRing
<1> HIDE DEF fd
<1>4. /\ inode' \in Seq(Content) /\ Len(inode') = Len(inode)
      /\ \A j \in 1 .. Len(inode) : inode'[j] = IF j = fd THEN c ELSE inode[j]
  BY <1>1, <1>2, <1>3, WriteFile
<1>5. Becomes(r, "rename", rotator[r].keys, rotator[r].kid, fd)
  <2>1. rotator' = [rotator EXCEPT ![r].pc = "rename"]
    BY DEF WriteRing
  <2> QED BY <1>1, <2>1, Moves DEF fd
<1> QED BY <1>2, <1>3, <1>4, <1>5 DEF WriteRing, fd

LEMMA RenameRingDoes ==
  ASSUME BoundInv, NEW r \in Rotator, RenameRing(r)
  PROVE  /\ rotator[r].pc = "rename"
         /\ UNCHANGED <<clock, pem, inode, server, tokens, made, overlap>>
         /\ \/ /\ tmp \in 1 .. Len(inode) /\ ring' = tmp /\ tmp' = NoFile
               /\ staged' = staged \cup {rotator[r].kid}
               /\ retired' = retired \cup {[kid |-> k, at |-> clock] :
                    k \in KIDs(inode[tmp].keys \ Active(inode[tmp].keys)) \ KIDs(retired)}
            \/ tmp = NoFile /\ UNCHANGED <<ring, tmp, staged, retired>>
         /\ Becomes(r, "idle", {}, Legacy, NoFile)
<1>1. tmp # NoFile => tmp \in 1 .. Len(inode)
  BY DEF BoundInv, FilesOK, NoFile
<1>2. Becomes(r, "idle", {}, Legacy, NoFile)
  BY Moves DEF BoundInv, RotatorsOK, RenameRing, Legacy, NoFile
<1> QED BY <1>1, <1>2 DEF RenameRing

LEMMA RotationEndsDoes ==
  ASSUME BoundInv, NEW r \in Rotator, RotationEnds(r)
  PROVE  /\ Rotating(r)
         /\ UNCHANGED <<clock, pem, inode, ring, server, tokens, made, staged, retired, overlap>>
         /\ \/ tmp' = tmp
            \/ tmp' = NoFile /\ rotator[r].pc \in {"write", "rename"}
         /\ Becomes(r, "idle", {}, Legacy, NoFile)
<1>1. Becomes(r, "idle", {}, Legacy, NoFile)
  BY Moves DEF BoundInv, RotatorsOK, RotationEnds, Legacy, NoFile
<1> QED BY <1>1 DEF RotationEnds

-----------------------------------------------------------------------------
(* The types are preserved *)

\* Every step of a command leaves files and processes well formed.
LEMMA RotateTypes ==
  ASSUME BoundInv, NEW r \in Rotator, Rotate(r)
  PROVE  BoundInv'
<1> DEFINE x == rotator[r]
<1>t. /\ x \in RotatorState /\ RotatorOK(x) /\ Len(inode) \in Nat /\ made \in Nat
      /\ x.kid \in 0 .. made /\ x.fd \in 0 .. Len(inode) /\ x.keys \in SUBSET KeyringEntry
      /\ KIDs(x.keys) \subseteq 0 .. made
      /\ FilesOK /\ RotatorsOK /\ ServersOK /\ HistoryOK
  BY ProcessTypes DEF RotatorOK, BoundInv
<1>k. KIDs({}) = {}
  BY DEF KIDs
<1> HIDE DEF x
<1>1. CASE ReadRing(r)
  <2>1. UNCHANGED <<clock, pem, inode, ring, tmp, server, tokens, made, staged, retired>>
    BY <1>1, ReadRingDoes
  <2>2. PICK pc, keys : /\ keys \in SUBSET KeyringEntry /\ KIDs(keys) \subseteq 0 .. made
                        /\ pc \in {"adopt", "generate"}
                        /\ Becomes(r, pc, keys, x.kid, x.fd)
    <3>1. ring # NoFile => /\ Retired \in SUBSET KeyringEntry
                           /\ KIDs(Retired) \subseteq 0 .. made
      BY NewKeys, RingTypes DEF Retired
    <3> QED BY <1>1, <1>t, <3>1, ReadRingDoes DEF x
  <2>3. RotatorsOK'
    <3>1. RotatorOK(rotator[r])'
      BY <1>t, <2>1, <2>2 DEF Becomes, RotatorOK
    <3> QED BY <1>t, <2>1, <2>2, <3>1, RotatorMoves DEF Becomes
  <2> QED BY <1>t, <2>1, <2>3 DEF BoundInv, FilesOK, ServersOK, ServerOK, HistoryOK
<1>2. CASE AdoptLegacy(r)
  <2>1. /\ UNCHANGED <<clock, pem, inode, ring, tmp, server, tokens, made, staged, retired>>
        /\ Becomes(r, "generate", Adopted, x.kid, x.fd)
    BY <1>2, AdoptLegacyDoes DEF x
  <2>2. Adopted \in SUBSET KeyringEntry /\ KIDs(Adopted) \subseteq 0 .. made
    BY <1>t, NewKeys DEF Legacy
  <2>3. RotatorsOK'
    <3>1. RotatorOK(rotator[r])'
      BY <1>t, <2>1, <2>2 DEF Becomes, RotatorOK
    <3> QED BY <1>t, <2>1, <2>2, <3>1, RotatorMoves DEF Becomes
  <2> QED BY <1>t, <2>1, <2>3 DEF BoundInv, FilesOK, ServersOK, ServerOK, HistoryOK
<1>3. CASE PersistKeyPEM(r)
  <2> DEFINE keys == x.keys \cup {NewEntry}
  <2>1. keys \in SUBSET KeyringEntry /\ KIDs(keys) \subseteq 0 .. made + 1
    <3>1. \A e \in x.keys : e.kid \in 0 .. made
      BY <1>t DEF KIDs
    <3>2. \A e \in keys : e \in KeyringEntry /\ e.kid \in 0 .. made + 1
      BY <1>t, <3>1, NewKeys
    <3> QED BY <3>2 DEF KIDs
  <2>2. /\ made' = made + 1 /\ pem' = pem \cup {made + 1}
        /\ UNCHANGED <<clock, inode, ring, tmp, server, tokens, staged, retired>>
        /\ Becomes(r, "open", keys, made + 1, x.fd)
    BY <1>3, PersistKeyPEMDoes DEF x
  <2> HIDE DEF keys
  <2>3. 0 .. made \subseteq 0 .. made' /\ 1 .. made \subseteq 1 .. made'
        /\ made' \in Nat /\ made + 1 \in 0 .. made'
    BY <1>t, <2>2
  <2>4. RotatorsOK'
    <3>1. RotatorOK(rotator[r])'
      BY <1>t, <2>1, <2>2, <2>3 DEF Becomes, RotatorOK, Legacy
    <3> QED BY <1>t, <2>2, <2>3, <3>1, RotatorMoves DEF Becomes
  <2>5. ServersOK'
    BY <1>t, <2>2, <2>3, ServerMoves DEF ServersOK
  <2>6. FilesOK'
    BY <1>t, <2>2, <2>3 DEF FilesOK
  <2>7. HistoryOK'
    <3>1. pem' \in SUBSET (0 .. made') /\ staged' \in SUBSET (1 .. made')
      BY <1>t, <2>2, <2>3 DEF HistoryOK
    <3>2. retired' \in SUBSET [kid: 0 .. made', at: 0 .. clock']
      <4>1. retired' = retired /\ clock' = clock
        BY <2>2
      <4> QED BY <1>t, <2>3, <4>1 DEF HistoryOK
    <3> QED BY <1>t, <2>2, <2>3, <3>1, <3>2 DEF HistoryOK
  <2> QED BY <2>4, <2>5, <2>6, <2>7 DEF BoundInv
<1>4. CASE OpenRingTemp(r)
  <2>1. /\ UNCHANGED <<clock, pem, ring, server, tokens, made, staged, retired>>
        /\ inode' \in Seq(Content) /\ Len(inode') \in Nat /\ Len(inode) <= Len(inode')
        /\ tmp' \in 1 .. Len(inode') /\ tmp' # ring /\ inode'[tmp'] = Empty
        /\ \/ Len(inode') = Len(inode)
           \/ tmp' = Len(inode) + 1 /\ Len(inode') = Len(inode) + 1
        /\ \A i \in 1 .. Len(inode) : i # tmp' => inode'[i] = inode[i]
        /\ Becomes(r, "write", x.keys, x.kid, tmp') /\ x.pc = "open"
    BY <1>4, OpenRingTempDoes DEF x
  <2>2. \A i \in 1 .. Len(inode') : KIDs(inode'[i].keys) \subseteq 0 .. made
    <3> SUFFICES ASSUME NEW i \in 1 .. Len(inode')
                 PROVE  KIDs(inode'[i].keys) \subseteq 0 .. made
      OBVIOUS
    <3>1. CASE i = tmp'
      BY <1>k, <2>1, <3>1, ContentTypes
    <3>2. CASE i # tmp'
      <4>1. i \in 1 .. Len(inode)
        BY <1>t, <2>1, <3>2
      <4> QED BY <1>t, <2>1, <3>2, <4>1 DEF FilesOK
    <3> QED BY <3>1, <3>2
  <2>3. RotatorsOK'
    <3>1. RotatorOK(rotator[r])'
      BY <1>t, <2>1 DEF Becomes, RotatorOK, NoFile
    <3> QED BY <1>t, <2>1, <3>1, RotatorMoves DEF Becomes
  <2>4. ServersOK'
    BY <1>t, <2>1, ServerMoves DEF ServersOK
  <2>5. FilesOK'
    <3>1. ring' \in 0 .. Len(inode') /\ tmp' \in 0 .. Len(inode')
      BY <1>t, <2>1 DEF FilesOK
    <3> QED BY <2>1, <2>2, <3>1 DEF FilesOK
  <2>6. HistoryOK'
    BY <1>t, <2>1 DEF HistoryOK
  <2> QED BY <2>3, <2>4, <2>5, <2>6 DEF BoundInv
<1>5. CASE WriteRing(r)
  <2>1. /\ UNCHANGED <<clock, pem, ring, tmp, server, tokens, made, staged, retired>>
        /\ x.fd \in 1 .. Len(inode) /\ x.pc = "write"
        /\ inode' \in Seq(Content) /\ Len(inode') = Len(inode)
        /\ inode'[x.fd] = Doc(x.keys) \/ inode'[x.fd] = Torn
        /\ \A i \in 1 .. Len(inode) : i # x.fd => inode'[i] = inode[i]
        /\ Becomes(r, "rename", x.keys, x.kid, x.fd)
    BY <1>5, WriteRingDoes DEF x
  <2>2. \A i \in 1 .. Len(inode') : KIDs(inode'[i].keys) \subseteq 0 .. made
    <3> SUFFICES ASSUME NEW i \in 1 .. Len(inode)
                 PROVE  KIDs(inode'[i].keys) \subseteq 0 .. made
      BY <2>1
    <3>1. CASE i = x.fd
      BY <1>k, <1>t, <2>1, <3>1, ContentTypes
    <3>2. CASE i # x.fd
      BY <1>t, <2>1, <3>2 DEF FilesOK
    <3> QED BY <3>1, <3>2
  <2>3. RotatorsOK'
    <3>1. RotatorOK(rotator[r])'
      BY <1>t, <2>1 DEF Becomes, RotatorOK, NoFile
    <3> QED BY <1>t, <2>1, <3>1, RotatorMoves DEF Becomes
  <2>4. ServersOK'
    BY <1>t, <2>1, ServerMoves DEF ServersOK
  <2>5. FilesOK'
    BY <1>t, <2>1, <2>2 DEF FilesOK
  <2>6. HistoryOK'
    BY <1>t, <2>1 DEF HistoryOK
  <2> QED BY <2>3, <2>4, <2>5, <2>6 DEF BoundInv
<1>6. CASE RenameRing(r) \/ RotationEnds(r)
  <2>1. /\ Becomes(r, "idle", {}, Legacy, NoFile)
        /\ UNCHANGED <<clock, pem, inode, server, tokens, made>>
        /\ \/ ring' = ring /\ tmp' \in {tmp, NoFile}
           \/ ring' = tmp /\ tmp' = NoFile
    BY <1>6, RenameRingDoes, RotationEndsDoes
  <2>2. staged' \in SUBSET (1 .. made)
    <3>1. x.pc = "rename" => x.kid \in 1 .. made
      BY <1>t DEF RotatorOK, Legacy
    <3> QED BY <1>6, <1>t, <3>1, RenameRingDoes, RotationEndsDoes DEF HistoryOK, x
  <2>3. retired' \in SUBSET [kid: 0 .. made, at: 0 .. clock]
    <3>1. CASE retired' = retired
      BY <1>t, <3>1 DEF HistoryOK
    <3>2. CASE retired' # retired
      <4> DEFINE K == KIDs(inode[tmp].keys \ Active(inode[tmp].keys)) \ KIDs(retired)
      <4>1. tmp \in 1 .. Len(inode) /\ retired' = retired \cup {[kid |-> k, at |-> clock] : k \in K}
        BY <1>6, <3>2, RenameRingDoes, RotationEndsDoes
      <4>2. KIDs(inode[tmp].keys) \subseteq 0 .. made
        BY <1>t, <4>1 DEF FilesOK
      <4>3. K \subseteq 0 .. made
        BY <4>2 DEF KIDs
      <4>4. clock \in 0 .. clock
        BY <1>t DEF HistoryOK
      <4> HIDE DEF K
      <4>5. \A k \in K : [kid |-> k, at |-> clock] \in [kid: 0 .. made, at: 0 .. clock]
        BY <4>3, <4>4
      <4> QED BY <1>t, <4>1, <4>5 DEF HistoryOK
    <3> QED BY <3>1, <3>2
  <2>4. RotatorsOK'
    <3>1. RotatorOK(rotator[r])'
      BY <1>t, <1>k, <2>1 DEF Becomes, RotatorOK, NoFile, Legacy
    <3> QED BY <1>t, <2>1, <3>1, RotatorMoves DEF Becomes
  <2>5. ServersOK'
    BY <1>t, <2>1, ServerMoves DEF ServersOK
  <2>6. FilesOK'
    BY <1>t, <2>1 DEF FilesOK, NoFile
  <2>7. HistoryOK'
    BY <1>t, <2>1, <2>2, <2>3 DEF HistoryOK
  <2> QED BY <2>4, <2>5, <2>6, <2>7 DEF BoundInv
<1> QED BY <1>1, <1>2, <1>3, <1>4, <1>5, <1>6 DEF Rotate

-----------------------------------------------------------------------------
(* The servers, in the same way *)

\* A server that moves: the others stay, and it has these fields.
Serves(s, pc, keys, from, active, published) ==
  /\ server' \in [Server -> ServerState]
  /\ \A q \in Server : q # s => server'[q] = server[q]
  /\ server'[s].pc = pc /\ server'[s].keys = keys /\ server'[s].from = from
  /\ server'[s].active = active /\ server'[s].published = published

LEMMA StartServerDoes ==
  ASSUME BoundInv, NEW s \in Server, StartServer(s)
  PROVE  LET x == server[s] IN
         /\ x.pc = "down"
         /\ UNCHANGED <<clock, pem, inode, ring, tmp, rotator, tokens, made, staged, retired, overlap>>
         /\ \/ ring = NoFile /\ Serves(s, "legacy", x.keys, x.from, x.active, x.published)
            \/ /\ ring # NoFile /\ inode[ring].kind # "doc"
               /\ Serves(s, "failed", x.keys, x.from, x.active, x.published)
            \/ /\ ring # NoFile /\ inode[ring].kind = "doc"
               /\ Serves(s, "load", inode[ring].keys, ring, x.active, x.published)
<1> DEFINE x == server[s]
<1>1. x \in ServerState /\ server \in [Server -> ServerState] /\ ring \in Nat
  BY DEF BoundInv, ServersOK, FilesOK
<1>2. ASSUME NEW y \in ServerState, server' = [server EXCEPT ![s] = y]
      PROVE  /\ server' \in [Server -> ServerState] /\ server'[s] = y
             /\ \A q \in Server : q # s => server'[q] = server[q]
  BY <1>1, <1>2
<1>3. CASE ring = NoFile \/ (ring # NoFile /\ inode[ring].kind # "doc")
  <2> DEFINE pc == IF ring = NoFile THEN "legacy" ELSE "failed"
             y == [x EXCEPT !.pc = pc]
  <2>1. /\ y \in ServerState /\ y.pc = pc /\ y.keys = x.keys /\ y.from = x.from
        /\ y.active = x.active /\ y.published = x.published
    BY <1>1 DEF ServerState
  <2>2. server' = [server EXCEPT ![s] = y]
    BY <1>3 DEF StartServer
  <2> HIDE DEF y
  <2>3. Serves(s, pc, x.keys, x.from, x.active, x.published)
    BY <1>2, <2>1, <2>2 DEF Serves
  <2> QED BY <1>3, <2>3 DEF StartServer, disk
<1>4. CASE ring # NoFile /\ inode[ring].kind = "doc"
  <2> DEFINE y == [x EXCEPT !.pc = "load", !.keys = inode[ring].keys, !.from = ring]
  <2>0. inode[ring].keys \in SUBSET KeyringEntry
    BY <1>4, RingTypes
  <2>1. /\ y \in ServerState /\ y.pc = "load" /\ y.keys = inode[ring].keys /\ y.from = ring
        /\ y.active = x.active /\ y.published = x.published
    BY <1>1, <2>0 DEF ServerState
  <2>2. server' = [server EXCEPT ![s] = y]
    BY <1>4 DEF StartServer
  <2> HIDE DEF y
  <2>3. Serves(s, "load", inode[ring].keys, ring, x.active, x.published)
    BY <1>2, <2>1, <2>2 DEF Serves
  <2> QED BY <1>4, <2>3 DEF StartServer, disk
<1> QED BY <1>3, <1>4

LEMMA LoadLegacyDoes ==
  ASSUME BoundInv, NEW s \in Server, LoadLegacy(s)
  PROVE  /\ server[s].pc = "legacy" /\ pem' = pem \cup {Legacy}
         /\ overlap' = (overlap \/ BesideRotation)
         /\ UNCHANGED <<clock, inode, ring, tmp, rotator, tokens, made, staged, retired>>
         /\ Serves(s, "up", server[s].keys, server[s].from, Legacy, {Legacy})
<1> DEFINE x == server[s]
           y == [x EXCEPT !.pc = "up", !.active = Legacy, !.published = {Legacy}]
<1>1. x \in ServerState /\ server \in [Server -> ServerState]
  BY DEF BoundInv, ServersOK
<1>2. /\ y \in ServerState /\ y.pc = "up" /\ y.keys = x.keys /\ y.from = x.from
      /\ y.active = Legacy /\ y.published = {Legacy}
  <2>1. Legacy \in KID /\ {Legacy} \in SUBSET KID
    BY DEF KID, Legacy
  <2> QED BY <1>1, <2>1 DEF ServerState
<1>3. server' = [server EXCEPT ![s] = y]
  BY <1>1 DEF LoadLegacy
<1> HIDE DEF y
<1>4. Serves(s, "up", x.keys, x.from, Legacy, {Legacy})
  BY <1>1, <1>2, <1>3 DEF Serves
<1> QED BY <1>4 DEF LoadLegacy

LEMMA LoadRingDoes ==
  ASSUME BoundInv, NEW s \in Server, LoadRing(s)
  PROVE  LET x == server[s]
             kept == PruneRetiredKeys(x.keys) IN
         /\ x.pc = "load" /\ pem' = pem \ KIDs(x.keys \ kept)
         /\ UNCHANGED <<clock, inode, ring, tmp, rotator, tokens, made, staged, retired, overlap>>
         /\ \/ \E e \in Active(kept) :
                 /\ Active(kept) = {e} /\ e.kid \in pem
                 /\ Serves(s, "up", x.keys, x.from, e.kid, KIDs(kept) \cap pem)
            \/ /\ ~ \E e \in Active(kept) : Active(kept) = {e} /\ e.kid \in pem
               /\ Serves(s, "failed", x.keys, x.from, x.active, x.published)
<1> DEFINE x == server[s]
           kept == PruneRetiredKeys(x.keys)
<1>1. x \in ServerState /\ server \in [Server -> ServerState] /\ x.keys \in SUBSET KeyringEntry
  BY ProcessTypes DEF BoundInv, ServersOK
<1>2. kept \subseteq x.keys
  BY DEF PruneRetiredKeys
<1>3. server' = [server EXCEPT ![s] = LoadPublishedKeys(s, kept)]
  BY DEF LoadRing
<1>4. x.pc = "load" /\ pem' = pem \ KIDs(x.keys \ kept)
      /\ UNCHANGED <<clock, inode, ring, tmp, rotator, tokens, made, staged, retired, overlap>>
  BY DEF LoadRing
<1>5. KIDs(kept) \cap pem \subseteq KID
  BY <1>1, <1>2 DEF KIDs, KeyringEntry
<1> HIDE DEF kept
<1>6. CASE \E e \in Active(kept) : Active(kept) = {e} /\ e.kid \in pem
  <2>1. PICK e \in Active(kept) : Active(kept) = {e} /\ e.kid \in pem
    BY <1>6
  <2>2. e \in KeyringEntry
    BY <1>1, <1>2 DEF Active
  <2>3. KIDs(Active(kept)) = {e.kid} /\ e.kid \in KID
    BY <2>1, <2>2 DEF KIDs, KeyringEntry
  <2>4. (CHOOSE k \in KIDs(Active(kept)) : TRUE) = e.kid
    BY <2>3
  <2> DEFINE y == [x EXCEPT !.pc = "up", !.published = KIDs(kept) \cap pem, !.active = e.kid]
  <2>5. LoadPublishedKeys(s, kept) = y
    BY <1>6, <2>4 DEF LoadPublishedKeys
  <2>6. /\ y \in ServerState /\ y.pc = "up" /\ y.keys = x.keys /\ y.from = x.from
        /\ y.active = e.kid /\ y.published = KIDs(kept) \cap pem
    BY <1>1, <1>5, <2>3 DEF ServerState
  <2> HIDE DEF y
  <2>7. Serves(s, "up", x.keys, x.from, e.kid, KIDs(kept) \cap pem)
    BY <1>1, <1>3, <2>5, <2>6 DEF Serves
  <2> QED BY <1>4, <2>1, <2>7 DEF kept
<1>7. CASE ~ \E e \in Active(kept) : Active(kept) = {e} /\ e.kid \in pem
  <2> DEFINE y == [x EXCEPT !.pc = "failed"]
  <2>1. LoadPublishedKeys(s, kept) = y
    BY <1>7 DEF LoadPublishedKeys
  <2>2. /\ y \in ServerState /\ y.pc = "failed" /\ y.keys = x.keys /\ y.from = x.from
        /\ y.active = x.active /\ y.published = x.published
    BY <1>1 DEF ServerState
  <2> HIDE DEF y
  <2>3. Serves(s, "failed", x.keys, x.from, x.active, x.published)
    BY <1>1, <1>3, <2>1, <2>2 DEF Serves
  <2> QED BY <1>4, <1>7, <2>3 DEF kept
<1> QED BY <1>6, <1>7

LEMMA StopDoes ==
  ASSUME BoundInv, NEW s \in Server, Stop(s)
  PROVE  /\ Serves(s, "down", {}, NoFile, Legacy, {})
         /\ UNCHANGED <<clock, pem, inode, ring, tmp, rotator, tokens, made, staged, retired, overlap>>
<1>1. server \in [Server -> ServerState]
  BY DEF BoundInv, ServersOK
<1>2. server' = [server EXCEPT ![s] = Down] /\ Down \in ServerState
  BY DEF Stop, Down, ServerState, KID, Legacy, NoFile
<1>3. Serves(s, "down", {}, NoFile, Legacy, {})
  BY <1>1, <1>2 DEF Serves, Down
<1> QED BY <1>3 DEF Stop, disk

\* Every step of a server leaves files and processes well formed.
LEMMA ServeTypes ==
  ASSUME BoundInv, NEW s \in Server, Serve(s)
  PROVE  BoundInv'
<1> DEFINE x == server[s]
<1>t. /\ x \in ServerState /\ ServerOK(x) /\ Len(inode) \in Nat /\ made \in Nat
      /\ x.from \in 0 .. Len(inode) /\ KIDs(x.keys) \subseteq 0 .. made
      /\ FilesOK /\ RotatorsOK /\ ServersOK /\ HistoryOK
  BY ProcessTypes DEF ServerOK, BoundInv
<1>k. KIDs({}) = {}
  BY DEF KIDs
<1> HIDE DEF x
<1>1. CASE StartServer(s) \/ LoadLegacy(s) \/ LoadRing(s) \/ Stop(s)
  <2>1. /\ UNCHANGED <<clock, inode, ring, tmp, rotator, tokens, made, staged, retired>>
        /\ pem' \subseteq pem \cup {Legacy}
    BY <1>1, StartServerDoes, LoadLegacyDoes, LoadRingDoes, StopDoes
  <2>2. PICK pc, keys, from, active, published :
          /\ Serves(s, pc, keys, from, active, published)
          /\ KIDs(keys) \subseteq 0 .. made /\ from \in 0 .. Len(inode)
    <3>1. CASE StartServer(s)
      <4>1. ring # NoFile => KIDs(inode[ring].keys) \subseteq 0 .. made /\ ring \in 0 .. Len(inode)
        BY RingTypes
      <4> QED BY <1>t, <3>1, <4>1, StartServerDoes DEF x
    <3>2. CASE LoadLegacy(s)
      BY <1>t, <3>2, LoadLegacyDoes DEF x
    <3>3. CASE LoadRing(s)
      BY <1>t, <3>3, LoadRingDoes DEF x
    <3>4. CASE Stop(s)
      BY <1>t, <1>k, <3>4, StopDoes DEF NoFile
    <3> QED BY <1>1, <3>1, <3>2, <3>3, <3>4
  <2>3. ServersOK'
    <3>1. ServerOK(server[s])'
      BY <2>1, <2>2 DEF Serves, ServerOK
    <3> QED BY <1>t, <2>1, <2>2, <3>1, ServerMoves DEF Serves
  <2>4. HistoryOK'
    BY <1>t, <2>1 DEF HistoryOK, Legacy
  <2> QED BY <1>t, <2>1, <2>3, <2>4 DEF BoundInv, FilesOK, RotatorsOK, RotatorOK
<1>2. CASE Sign(s)
  <2>1. UNCHANGED <<clock, pem, inode, ring, tmp, rotator, server, made, staged, retired>>
    BY <1>2 DEF Sign, disk
  <2>2. tokens' \in SUBSET Token
    <3>1. clock + AccessTTL \in Nat /\ x.active \in KID
      BY <1>t, RotationAssumption DEF HistoryOK, ServerState
    <3>2. tokens' = tokens \cup {[kid |-> x.active, exp |-> clock + AccessTTL]}
      BY <1>2 DEF Sign, x
    <3> QED BY <1>t, <3>1, <3>2 DEF HistoryOK, Token
  <2> QED BY <1>t, <2>1, <2>2 DEF BoundInv, FilesOK, RotatorsOK, RotatorOK, ServersOK, ServerOK,
                                 HistoryOK
<1> QED BY <1>1, <1>2 DEF Serve

\* So does the clock.
LEMMA TickTypes ==
  ASSUME BoundInv, Tick
  PROVE  BoundInv'
<1>1. /\ UNCHANGED <<pem, inode, ring, tmp, rotator, server, made, staged, retired>>
      /\ clock' = clock + 1 /\ tokens' \subseteq tokens
  BY DEF Tick, disk
<1>2. clock \in Nat /\ 0 .. clock \subseteq 0 .. clock'
  BY <1>1 DEF BoundInv, HistoryOK
<1>3. HistoryOK'
  <2>1. retired' \in SUBSET [kid: 0 .. made', at: 0 .. clock']
    <3>1. retired' = retired /\ made' = made
      BY <1>1
    <3> QED BY <1>2, <3>1 DEF BoundInv, HistoryOK
  <2> QED BY <1>1, <1>2, <2>1 DEF BoundInv, HistoryOK
<1> QED BY <1>1, <1>3 DEF BoundInv, FilesOK, RotatorsOK, RotatorOK, ServersOK, ServerOK

LEMMA InitTypes == Init => BoundInv
<1> SUFFICES ASSUME Init PROVE BoundInv
  OBVIOUS
<1>1. KIDs({}) = {}
  BY DEF KIDs
<1>2. NoRotation \in RotatorState /\ Down \in ServerState
  BY DEF NoRotation, RotatorState, Down, ServerState, KID, Legacy, NoFile
<1>3. RotatorsOK
  <2>1. RotatorOK(NoRotation)
    BY <1>1 DEF Init, RotatorOK, NoRotation, Legacy, NoFile
  <2> QED BY <1>2, <2>1 DEF Init, RotatorsOK
<1>4. ServersOK
  <2>1. ServerOK(Down)
    BY <1>1 DEF Init, ServerOK, Down, NoFile
  <2> QED BY <1>2, <2>1 DEF Init, ServersOK
<1>5. FilesOK
  BY DEF Init, FilesOK, NoFile
<1>6. HistoryOK
  BY DEF Init, HistoryOK, Legacy
<1> QED BY <1>3, <1>4, <1>5, <1>6 DEF BoundInv

-----------------------------------------------------------------------------
(* Documents in play *)

FileLive(K) == \E i \in Named : i # NoFile /\ inode[i].kind = "doc" /\ K = inode[i].keys
SaveLive(K) == \E r \in Rotator : rotator[r].pc \in {"open", "write"} /\ K = rotator[r].keys
LoadLive(K) == \E s \in Server : server[s].pc = "load" /\ K = server[s].keys
Generating(K) == \E r \in Rotator : rotator[r].pc = "generate" /\ K = rotator[r].keys

LEMMA LiveCases ==
  \A K : /\ K \in Live <=> FileLive(K) \/ SaveLive(K) \/ LoadLive(K)
         /\ K \in Read <=> K \in Live \/ Generating(K)
  BY DEF Live, Read, FileLive, SaveLive, LoadLive, Generating

LEMMA LiveCasesNext ==
  \A K : /\ K \in Live' <=> FileLive(K)' \/ SaveLive(K)' \/ LoadLive(K)'
         /\ K \in Read' <=> K \in Live' \/ Generating(K)'
  BY DEF Live, Read, FileLive, SaveLive, LoadLive, Generating

\* Documents in play have entries, and kids that were generated.
LEMMA ReadTypes ==
  ASSUME BoundInv, NEW K \in Read
  PROVE  /\ K \in SUBSET KeyringEntry
         /\ \A e \in K : e.kid \in 0 .. made
<1>1. CASE FileLive(K)
  <2>1. PICK i \in Named : i # NoFile /\ K = inode[i].keys
    BY <1>1 DEF FileLive
  <2>2. i \in 1 .. Len(inode)
    BY <2>1 DEF BoundInv, FilesOK, Named, NoFile
  <2> QED BY <2>1, <2>2, ProcessTypes DEF BoundInv, FilesOK, KIDs
<1>2. CASE SaveLive(K) \/ Generating(K)
  BY <1>2, ProcessTypes DEF SaveLive, Generating, RotatorOK, KIDs
<1>3. CASE LoadLive(K)
  BY <1>3, ProcessTypes DEF LoadLive, ServerOK, KIDs
<1> QED BY <1>1, <1>2, <1>3, LiveCases

\* When documents only leave play and active keys stay on disk, the invariant
\* stays.
LEMMA LiveShrinks ==
  ASSUME LiveInv, Live' \subseteq Live, Read' \subseteq Read, clock' = clock,
         \A L \in Live' : \A a \in Active(L) : a.kid \in pem => a.kid \in pem',
         \A r \in Rotator : rotator'[r].pc = "generate" => Active(rotator'[r].keys) = {}
  PROVE  LiveInv'
<1>1. \A K \in Live' : OneActive(K)'
  BY DEF LiveInv, OneActive
<1>2. \A K \in Read' : UniqueKIDs(K)
  BY DEF LiveInv
<1>3. \A K \in Read', L \in Live' : \A e \in K, a \in Active(L) :
        PastHorizon(e)' => e.kid # a.kid
  BY DEF LiveInv, PastHorizon
<1> QED BY <1>1, <1>2, <1>3 DEF LiveInv, UniqueKIDs

\* Every step of a command keeps it.
LEMMA RotateLive ==
  ASSUME RingInv, NEW r \in Rotator, Rotate(r)
  PROVE  LiveInv'
<1> DEFINE x == rotator[r]
<1>t. /\ BoundInv /\ LiveInv /\ FilesOK /\ x.keys \in SUBSET KeyringEntry
      /\ clock \in Nat /\ made \in Nat /\ Len(inode) \in Nat
      /\ LoadKeyRetention \in Nat /\ LoadKeyRetention > 0
  BY ProcessTypes, RetentionPositive DEF RingInv, BoundInv
<1> HIDE DEF x
<1>1. CASE ReadRing(r) \/ AdoptLegacy(r)
  <2>1. /\ UNCHANGED <<clock, pem, inode, ring, tmp, server, made>>
        /\ x.pc \in {"idle", "adopt"}
    BY <1>t, <1>1, ReadRingDoes, AdoptLegacyDoes DEF x
  <2>2. PICK pc, keys :
          /\ Becomes(r, pc, keys, x.kid, x.fd) /\ pc \in {"adopt", "generate"}
          /\ pc = "generate" => /\ keys \in SUBSET KeyringEntry /\ UniqueKIDs(keys)
                                /\ Active(keys) = {}
                                /\ \A e \in keys : \/ ~PastHorizon(e)
                                                   \/ \E K \in Live : e \in K
    <3>1. CASE AdoptLegacy(r)
      <4>1. Becomes(r, "generate", Adopted, x.kid, x.fd)
        BY <3>1, AdoptLegacyDoes, <1>t DEF x
      <4>2. \A e \in Adopted : ~PastHorizon(e)
        BY NewKeys, <1>t DEF PastHorizon
      <4> QED BY <4>1, <4>2, NewKeys, <1>t
    <3>2. CASE ReadRing(r) /\ ring = NoFile
      BY <3>2, ReadRingDoes, <1>t DEF x
    <3>3. CASE ReadRing(r) /\ ring # NoFile
      <4> DEFINE old == inode[ring].keys
      <4>1. /\ Becomes(r, "generate", Retired, x.kid, x.fd) /\ inode[ring].kind = "doc"
        BY <3>3, ReadRingDoes, <1>t DEF x
      <4>2. old \in Live
        <5>1. FileLive(old)
          BY <3>3, <4>1 DEF FileLive, Named
        <5> QED BY <5>1, LiveCases
      <4>3. UniqueKIDs(old) /\ old \in SUBSET KeyringEntry
        BY <1>t, <4>2, ReadTypes DEF LiveInv, Read
      <4> DEFINE at == clock + LoadKeyRetention
                 Now(f) == [f EXCEPT !.state = "retiring", !.retireAt = at]
      <4>4. at \in Nat /\ at > clock
        BY <1>t
      <4>5. /\ Retired \in SUBSET KeyringEntry /\ Active(Retired) = {}
            /\ \A e \in Retired : e \in Retiring(old) \/ \E f \in Active(old) : e = Now(f)
        <5>1. Retired = RetireRingKeys(old, at)
          BY DEF Retired
        <5> HIDE DEF old, at
        <5> QED BY <4>3, <4>4, <5>1, RetireKeeps
      <4>6. \A f \in old : Now(f).kid = f.kid /\ Now(f).retireAt = at
        BY <4>3 DEF KeyringEntry
      <4> HIDE DEF at, Now, old
      <4>7. \A e \in Retired : ~PastHorizon(e) \/ \E K \in Live : e \in K
        <5>1. \A f \in Active(old) : ~PastHorizon(Now(f))
          BY <1>t, <4>4, <4>6 DEF Active, PastHorizon
        <5> QED BY <4>2, <4>5, <5>1 DEF Retiring
      <4>8. UniqueKIDs(Retired)
        <5>1. \A e \in Retired : \E f \in old : f.kid = e.kid /\
                 IF f.state = "active" THEN e = Now(f) ELSE e = f
          BY <4>5, <4>6 DEF Retiring, Active
        <5> QED BY <4>3, <5>1 DEF UniqueKIDs
      <4> QED BY <4>1, <4>5, <4>7, <4>8
    <3> QED BY <1>1, <3>1, <3>2, <3>3
  <2>3. Saving' <=> Saving
    BY <2>1, <2>2 DEF Saving, Becomes, x
  <2>4. \A K : K \in Live' => K \in Live
    <3>1. \A K : FileLive(K)' => FileLive(K)
      BY <2>1, <2>3 DEF FileLive, Named
    <3>2. \A K : SaveLive(K)' => SaveLive(K)
      BY <2>1, <2>2 DEF SaveLive, Becomes
    <3>3. \A K : LoadLive(K)' => LoadLive(K)
      BY <2>1 DEF LoadLive
    <3> QED BY <3>1, <3>2, <3>3, LiveCases, LiveCasesNext
  <2>5. \A K : K \in Read' => K \in Read \/ (K = keys /\ pc = "generate")
    <3>1. \A K : Generating(K)' => Generating(K) \/ (K = keys /\ pc = "generate")
      BY <2>2 DEF Generating, Becomes
    <3> QED BY <2>4, <3>1, LiveCases, LiveCasesNext
  <2>6. \A K \in Live' : OneActive(K)'
    BY <1>t, <2>1, <2>4 DEF LiveInv, OneActive
  <2>7. \A K \in Read' : UniqueKIDs(K)
    BY <1>t, <2>2, <2>5 DEF LiveInv
  <2>8. \A K \in Read', L \in Live' : \A e \in K, a \in Active(L) :
          PastHorizon(e) => e.kid # a.kid
    BY <1>t, <2>2, <2>4, <2>5 DEF LiveInv, Read
  <2>9. \A q \in Rotator : rotator'[q].pc = "generate" => Active(rotator'[q].keys) = {}
    BY <1>t, <2>2 DEF LiveInv, Becomes
  <2> QED BY <2>1, <2>6, <2>7, <2>8, <2>9 DEF LiveInv, UniqueKIDs, PastHorizon
<1>2. CASE PersistKeyPEM(r)
  <2>k. PICK keys : keys = x.keys \cup {NewEntry}
    OBVIOUS
  <2>1. /\ UNCHANGED <<clock, inode, ring, tmp, server>>
        /\ pem' = pem \cup {made + 1} /\ x.pc = "generate"
        /\ Becomes(r, "open", keys, made + 1, x.fd)
    BY <1>2, <1>t, <2>k, PersistKeyPEMDoes DEF x
  <2>2. /\ NewEntry.kid = made + 1 /\ NewEntry.state = "active"
    BY <1>t, NewKeys
  <2>3. x.keys \in Read /\ Active(x.keys) = {}
    <3>1. Generating(x.keys)
      BY <2>1 DEF Generating, x
    <3> QED BY <1>t, <2>1, <3>1, LiveCases DEF LiveInv, x
  <2>4. Active(keys) = {NewEntry}
    BY <2>k, <2>2, <2>3 DEF Active
  <2>5. \A e \in x.keys : e.kid # made + 1
    BY <1>t, <2>3, ReadTypes
  <2>6. UniqueKIDs(keys)
    BY <1>t, <2>k, <2>2, <2>3, <2>5 DEF UniqueKIDs, LiveInv
  <2>7. Saving' <=> Saving
    BY <2>1 DEF Saving, Becomes, x
  <2>8. \A K : K \in Live' => K \in Live \/ K = keys
    <3>1. \A K : FileLive(K)' => FileLive(K)
      BY <2>1, <2>7 DEF FileLive, Named
    <3>2. \A K : SaveLive(K)' => SaveLive(K) \/ K = keys
      BY <2>1 DEF SaveLive, Becomes
    <3>3. \A K : LoadLive(K)' => LoadLive(K)
      BY <2>1 DEF LoadLive
    <3> QED BY <3>1, <3>2, <3>3, LiveCases, LiveCasesNext
  <2>9. \A K : K \in Read' => K \in Read \/ K = keys
    <3>1. \A K : Generating(K)' => Generating(K)
      BY <2>1 DEF Generating, Becomes
    <3> QED BY <2>8, <3>1, LiveCases, LiveCasesNext
  <2>10. \A K \in Live' : OneActive(K)'
    <3>1. OneActive(keys)'
      BY <2>k, <2>1, <2>2, <2>4 DEF OneActive
    <3>2. \A K \in Live : OneActive(K)'
      BY <1>t, <2>1 DEF LiveInv, OneActive
    <3> QED BY <2>8, <3>1, <3>2
  <2>11. \A K \in Read' : UniqueKIDs(K)
    BY <1>t, <2>6, <2>9 DEF LiveInv
  <2>12. \A K \in Read', L \in Live' : \A e \in K, a \in Active(L) :
          PastHorizon(e) => e.kid # a.kid
    <3> SUFFICES ASSUME NEW K \in Read', NEW L \in Live', NEW e \in K, NEW a \in Active(L),
                        PastHorizon(e)
                 PROVE  e.kid # a.kid
      OBVIOUS
    <3>1. PICK M \in Read : e \in M
      BY <2>k, <2>2, <2>3, <2>9 DEF PastHorizon
    <3>2. e.kid \in 0 .. made
      BY <1>t, <3>1, ReadTypes
    <3>3. CASE L \in Live
      BY <1>t, <3>1, <3>3 DEF LiveInv
    <3>4. CASE L = keys
      BY <1>t, <2>2, <2>4, <3>2, <3>4
    <3> QED BY <2>8, <3>3, <3>4
  <2>13. \A q \in Rotator : rotator'[q].pc = "generate" => Active(rotator'[q].keys) = {}
    BY <1>t, <2>1 DEF LiveInv, Becomes
  <2> QED BY <2>1, <2>10, <2>11, <2>12, <2>13 DEF LiveInv, UniqueKIDs, PastHorizon
<1>3. CASE OpenRingTemp(r)
  <2>1. /\ UNCHANGED <<clock, pem, ring, server>>
        /\ tmp' \in 1 .. Len(inode') /\ tmp' # ring /\ inode'[tmp'] = Empty
        /\ \A i \in 1 .. Len(inode) : i # tmp' => inode'[i] = inode[i]
        /\ Becomes(r, "write", x.keys, x.kid, tmp') /\ x.pc = "open"
    BY <1>3, <1>t, OpenRingTempDoes DEF x
  <2>2. \A K : FileLive(K)' => FileLive(K)
    <3> SUFFICES ASSUME NEW K, FileLive(K)' PROVE FileLive(K)
      OBVIOUS
    <3>1. PICK i \in Named' : i # NoFile /\ inode'[i].kind = "doc" /\ K = inode'[i].keys
      BY DEF FileLive
    <3>2. i = ring
      BY <2>1, <3>1, ContentTypes DEF Named
    <3>3. inode'[ring] = inode[ring]
      BY <1>t, <2>1, <3>1, <3>2 DEF FilesOK, NoFile
    <3> QED BY <3>1, <3>2, <3>3 DEF FileLive, Named
  <2>3. \A K : /\ SaveLive(K)' => SaveLive(K)
               /\ LoadLive(K)' => LoadLive(K)
               /\ Generating(K)' => Generating(K)
    BY <2>1 DEF SaveLive, LoadLive, Generating, Becomes, x
  <2>4. Live' \subseteq Live /\ Read' \subseteq Read
    BY <2>2, <2>3, LiveCases, LiveCasesNext
  <2>5. \A q \in Rotator : rotator'[q].pc = "generate" => Active(rotator'[q].keys) = {}
    BY <1>t, <2>1 DEF LiveInv, Becomes
  <2> QED BY <1>t, <2>1, <2>4, <2>5, LiveShrinks
<1>4. CASE WriteRing(r)
  <2>1. /\ UNCHANGED <<clock, pem, ring, tmp, server>>
        /\ x.fd \in 1 .. Len(inode) /\ x.pc = "write"
        /\ inode'[x.fd] = Doc(x.keys) \/ inode'[x.fd] = Torn
        /\ \A i \in 1 .. Len(inode) : i # x.fd => inode'[i] = inode[i]
        /\ Becomes(r, "rename", x.keys, x.kid, x.fd)
    BY <1>4, <1>t, WriteRingDoes DEF x
  <2>2. SaveLive(x.keys) /\ Saving
    BY <2>1 DEF SaveLive, Saving, x
  <2>3. \A K : FileLive(K)' => FileLive(K) \/ K = x.keys
    <3> SUFFICES ASSUME NEW K, FileLive(K)', K # x.keys PROVE FileLive(K)
      OBVIOUS
    <3>1. PICK i \in Named' : i # NoFile /\ inode'[i].kind = "doc" /\ K = inode'[i].keys
      BY DEF FileLive
    <3>2. i \in Named /\ i \in 1 .. Len(inode)
      BY <1>t, <2>1, <2>2, <3>1 DEF Named, FilesOK, NoFile
    <3>3. i # x.fd
      BY <2>1, <3>1, ContentTypes
    <3> QED BY <2>1, <3>1, <3>2, <3>3 DEF FileLive
  <2>4. \A K : /\ SaveLive(K)' => SaveLive(K)
               /\ LoadLive(K)' => LoadLive(K)
               /\ Generating(K)' => Generating(K)
    BY <2>1 DEF SaveLive, LoadLive, Generating, Becomes
  <2>5. Live' \subseteq Live /\ Read' \subseteq Read
    BY <2>2, <2>3, <2>4, LiveCases, LiveCasesNext
  <2>6. \A q \in Rotator : rotator'[q].pc = "generate" => Active(rotator'[q].keys) = {}
    BY <1>t, <2>1 DEF LiveInv, Becomes
  <2> QED BY <1>t, <2>1, <2>5, <2>6, LiveShrinks
<1>5. CASE RenameRing(r) \/ RotationEnds(r)
  <2>1. /\ UNCHANGED <<clock, pem, inode, server>>
        /\ Becomes(r, "idle", {}, Legacy, NoFile)
        /\ \/ ring' = ring /\ tmp' \in {tmp, NoFile}
           \/ ring' = tmp /\ tmp' = NoFile /\ x.pc = "rename"
    BY <1>5, <1>t, RenameRingDoes, RotationEndsDoes DEF x
  <2>2. Saving' => Saving
    BY <2>1 DEF Saving, Becomes
  <2>3. x.pc = "rename" => Saving
    BY DEF Saving, x
  <2>4. \A i \in Named' : i # NoFile => i \in Named
    BY <2>1, <2>2, <2>3 DEF Named
  <2>5. \A K : /\ FileLive(K)' => FileLive(K)
               /\ SaveLive(K)' => SaveLive(K)
               /\ LoadLive(K)' => LoadLive(K)
               /\ Generating(K)' => Generating(K)
    BY <2>1, <2>4 DEF FileLive, SaveLive, LoadLive, Generating, Becomes
  <2>6. Live' \subseteq Live /\ Read' \subseteq Read
    BY <2>5, LiveCases, LiveCasesNext
  <2>7. \A q \in Rotator : rotator'[q].pc = "generate" => Active(rotator'[q].keys) = {}
    BY <1>t, <2>1 DEF LiveInv, Becomes
  <2> QED BY <1>t, <2>1, <2>6, <2>7, LiveShrinks
<1> QED BY <1>1, <1>2, <1>3, <1>4, <1>5 DEF Rotate

\* Every step of a server keeps it: what a start prunes from the directory is
\* no active key of a document in play.
LEMMA ServeLive ==
  ASSUME RingInv, NEW s \in Server, Serve(s)
  PROVE  LiveInv'
<1>t. BoundInv /\ LiveInv
  BY DEF RingInv
<1>1. /\ UNCHANGED <<clock, inode, ring, tmp, rotator>>
      /\ \A q \in Server : \/ server'[q] = server[q] \/ server'[q].pc # "load"
                           \/ /\ ring # NoFile /\ inode[ring].kind = "doc"
                              /\ server'[q].keys = inode[ring].keys
  <2>1. CASE Sign(s)
    BY <2>1 DEF Sign, disk
  <2>2. CASE StartServer(s) \/ LoadLegacy(s) \/ LoadRing(s) \/ Stop(s)
    BY <1>t, <2>2, StartServerDoes, LoadLegacyDoes, LoadRingDoes, StopDoes DEF Serves
  <2> QED BY <2>1, <2>2 DEF Serve
<1>2. \A K : /\ FileLive(K)' => FileLive(K)
             /\ SaveLive(K)' => SaveLive(K)
             /\ Generating(K)' => Generating(K)
  BY <1>1 DEF FileLive, SaveLive, Generating, Named, Saving
<1>3. \A K : LoadLive(K)' => LoadLive(K) \/ FileLive(K)
  BY <1>1 DEF LoadLive, FileLive, Named
<1>4. Live' \subseteq Live /\ Read' \subseteq Read
  BY <1>2, <1>3, LiveCases, LiveCasesNext
<1>5. \A L \in Live' : \A a \in Active(L) : a.kid \in pem => a.kid \in pem'
  <2>1. CASE LoadRing(s)
    <3> DEFINE keys == server[s].keys
               kept == PruneRetiredKeys(keys)
    <3>1. server[s].pc = "load" /\ pem' = pem \ KIDs(keys \ kept)
      BY <1>t, <2>1, LoadRingDoes
    <3>2. keys \in Read
      BY <3>1, LiveCases DEF LoadLive
    <3>3. \A e \in keys \ kept : PastHorizon(e)
      BY DEF PruneRetiredKeys
    <3> HIDE DEF keys, kept
    <3>4. \A L \in Live : \A a \in Active(L), e \in keys \ kept : e.kid # a.kid
      BY <1>t, <3>2, <3>3 DEF LiveInv
    <3> QED BY <1>4, <3>1, <3>4 DEF KIDs
  <2>2. CASE Sign(s)
    BY <2>2 DEF Sign, disk
  <2>3. CASE StartServer(s) \/ LoadLegacy(s) \/ Stop(s)
    BY <1>t, <2>3, StartServerDoes, LoadLegacyDoes, StopDoes
  <2> QED BY <2>1, <2>2, <2>3 DEF Serve
<1>6. \A r \in Rotator : rotator'[r].pc = "generate" => Active(rotator'[r].keys) = {}
  BY <1>t, <1>1 DEF LiveInv
<1> QED BY <1>t, <1>1, <1>4, <1>5, <1>6, LiveShrinks

\* When time passes only the keyring is in play, and its kids are distinct.
LEMMA TickLive ==
  ASSUME RingInv, Tick
  PROVE  LiveInv'
<1>t. BoundInv /\ LiveInv
  BY DEF RingInv
<1>1. /\ UNCHANGED <<pem, inode, ring, tmp, rotator, server>>
      /\ \A s \in Server : server[s].pc \notin {"legacy", "load"}
      /\ \A r \in Rotator : rotator[r].pc = "idle"
  BY DEF Tick, Rotating, disk
<1>2. \A K : K \in Read' => K = inode[ring].keys /\ FileLive(K)
  <2>1. ~Saving /\ ~Saving'
    BY <1>1 DEF Saving
  <2>2. \A K : ~SaveLive(K)' /\ ~LoadLive(K)' /\ ~Generating(K)'
    BY <1>1 DEF SaveLive, LoadLive, Generating
  <2>3. \A K : FileLive(K)' => K = inode[ring].keys /\ FileLive(K)
    BY <1>1, <2>1 DEF FileLive, Named
  <2> QED BY <2>2, <2>3, LiveCasesNext
<1>3. Live' \subseteq Live /\ Live' \subseteq Read' /\ Read' \subseteq Live
  BY <1>2, LiveCases, LiveCasesNext
<1>4. \A K \in Live' : OneActive(K)'
  BY <1>t, <1>1, <1>3 DEF LiveInv, OneActive
<1>5. \A K \in Read' : UniqueKIDs(K)
  BY <1>t, <1>3 DEF LiveInv, Read
<1>6. \A K \in Read', L \in Live' : \A e \in K, a \in Active(L) :
        PastHorizon(e)' => e.kid # a.kid
  <2> SUFFICES ASSUME NEW K \in Read', NEW L \in Live', NEW e \in K, NEW a \in Active(L),
                      PastHorizon(e)', e.kid = a.kid
               PROVE  FALSE
    OBVIOUS
  <2>1. K = L
    BY <1>2, <1>3
  <2>2. e = a
    BY <1>5, <2>1 DEF UniqueKIDs, Active
  <2> QED BY <2>2 DEF PastHorizon, Active
<1>7. \A r \in Rotator : rotator'[r].pc = "generate" => Active(rotator'[r].keys) = {}
  BY <1>1
<1> QED BY <1>4, <1>5, <1>6, <1>7 DEF LiveInv, UniqueKIDs

LEMMA InitLive == Init => LiveInv
<1> SUFFICES ASSUME Init PROVE LiveInv
  OBVIOUS
<1>1. ring = NoFile /\ (\A r \in Rotator : rotator[r].pc = "idle")
      /\ \A s \in Server : server[s].pc = "down"
  BY DEF Init, NoRotation, Down
<1>2. \A K : K \notin Live /\ K \notin Read
  BY <1>1, LiveCases DEF FileLive, SaveLive, LoadLive, Generating, Named, Saving
<1> QED BY <1>1, <1>2 DEF LiveInv

\* The invariant is inductive.
LEMMA RingStep ==
  ASSUME RingInv, [Next]_vars
  PROVE  RingInv'
<1>1. ASSUME NEW r \in Rotator, Rotate(r) PROVE RingInv'
  BY <1>1, RotateTypes, RotateLive DEF RingInv
<1>2. ASSUME NEW s \in Server, Serve(s) PROVE RingInv'
  BY <1>2, ServeTypes, ServeLive DEF RingInv
<1>3. CASE Tick
  BY <1>3, TickTypes, TickLive DEF RingInv
<1>4. CASE UNCHANGED vars
  <2>1. UNCHANGED <<clock, pem, inode, ring, tmp, rotator, server, tokens, made, staged, retired>>
    BY <1>4 DEF vars, disk
  <2>2. BoundInv'
    BY <2>1 DEF RingInv, BoundInv, FilesOK, RotatorsOK, RotatorOK, ServersOK, ServerOK, HistoryOK
  <2>3. Live' = Live /\ Read' = Read
    BY <2>1 DEF Live, Read, Named, Saving
  <2>4. LiveInv'
    BY <2>1, <2>3 DEF RingInv, LiveInv, OneActive, UniqueKIDs, PastHorizon
  <2> QED BY <2>2, <2>4 DEF RingInv
<1> QED BY <1>1, <1>2, <1>3, <1>4 DEF Next

\* It holds of every behaviour.
LEMMA RingAlways == Spec => []RingInv
<1>1. Init => RingInv
  BY InitTypes, InitLive DEF RingInv
<1>2. RingInv /\ [Next]_vars => RingInv'
  BY RingStep
<1> QED BY <1>1, <1>2, PTL DEF Spec

LEMMA RingActive == RingInv => ActiveOnDisk
<1> SUFFICES ASSUME RingInv, ring # NoFile, inode[ring].kind = "doc"
             PROVE  \E e \in inode[ring].keys : Active(inode[ring].keys) = {e} /\ e.kid \in pem
  BY DEF ActiveOnDisk
<1>1. FileLive(inode[ring].keys)
  BY DEF FileLive, Named
<1>2. OneActive(inode[ring].keys)
  BY <1>1, LiveCases DEF RingInv, LiveInv
<1> QED BY <1>2 DEF OneActive

\* Whatever rotations and starts do to the directory at once, for any number of
\* commands and servers: a keyring that parses names exactly one active key and
\* its file is there (RotateKeys, saveKeyRing, pruneRetiredKeys).
THEOREM KeyringNamesKeyOnDisk == Spec => []DiskInv
<1>1. RingInv => DiskInv
  BY BoundType, RingActive DEF RingInv, DiskInv
<1> QED BY <1>1, RingAlways, PTL

-----------------------------------------------------------------------------
(* Rotations one at a time *)

LEMMA InKIDs == \A K, k : k \in KIDs(K) <=> \E e \in K : e.kid = k
  BY DEF KIDs

\* The keyring has entries with distinct kids, one of them active.
LEMMA RingKeysTypes ==
  ASSUME RingInv, SoloFiles
  PROVE  /\ RingKeys \in SUBSET KeyringEntry /\ UniqueKIDs(RingKeys)
         /\ ring # NoFile => OneActive(RingKeys)
<1>1. CASE ring = NoFile
  BY <1>1 DEF RingKeys, UniqueKIDs
<1>2. CASE ring # NoFile
  <2>1. RingKeys \in Live
    BY <1>2, LiveCases DEF SoloFiles, RingKeys, FileLive, Named
  <2> QED BY <2>1, ReadTypes DEF RingInv, LiveInv, Read
<1> QED BY <1>1, <1>2

\* So has what a command under way holds.
LEMMA CommandKeysTypes ==
  ASSUME RingInv, SoloFiles, NEW r \in Rotator, HasRead(r)
  PROVE  rotator[r].keys \in SUBSET KeyringEntry /\ UniqueKIDs(rotator[r].keys)
<1>1. rotator[r].keys \in Read
  <2>1. CASE rotator[r].pc \in {"generate", "open", "write"}
    BY <2>1, LiveCases DEF SaveLive, Generating
  <2>2. CASE rotator[r].pc = "rename"
    <3>1. Saving /\ tmp # NoFile /\ inode[tmp] = Doc(rotator[r].keys)
      BY <2>2 DEF Saving, SoloFiles
    <3>2. FileLive(rotator[r].keys)
      BY <3>1, ContentTypes DEF FileLive, Named
    <3> QED BY <3>2, LiveCases
  <2> QED BY <2>1, <2>2 DEF HasRead
<1> QED BY <1>1, ReadTypes DEF RingInv, LiveInv

Solo == SoloFiles /\ SoloKept /\ SoloDates /\ SoloPublished

LEMMA ReadRingSolo ==
  ASSUME RingInv, Solo, NEW r \in Rotator, ReadRing(r), ~overlap'
  PROVE  Solo'
<1> DEFINE x == rotator[r]
<1>t. /\ BoundInv /\ SoloFiles /\ SoloKept /\ SoloDates /\ SoloPublished
      /\ clock \in Nat /\ LoadKeyRetention \in Nat /\ LoadKeyRetention > 0
  BY ProcessTypes, RetentionPositive DEF RingInv, Solo
<1>1. /\ UNCHANGED <<clock, pem, inode, ring, tmp, server, tokens, made, staged, retired>>
      /\ \A q \in Rotator : rotator[q].pc = "idle"
      /\ \/ ring = NoFile /\ Becomes(r, "adopt", x.keys, x.kid, x.fd)
         \/ /\ ring # NoFile /\ inode[ring].kind = "doc"
            /\ Becomes(r, "generate", Retired, x.kid, x.fd)
  BY <1>t, ReadRingDoes DEF Rotating
<1>2. RingKeys' = RingKeys /\ InUse' = InUse
  BY <1>1 DEF RingKeys, InUse
<1>3. ring # NoFile =>
        /\ KIDs(Retired) = KIDs(RingKeys) /\ Retiring(RingKeys) \subseteq Retired
        /\ \A e \in Retired :
             \/ e \in Retiring(RingKeys)
             \/ \E f \in Active(RingKeys) : e.kid = f.kid /\ e.retireAt = clock + LoadKeyRetention
  <2> SUFFICES ASSUME ring # NoFile
               PROVE  /\ KIDs(Retired) = KIDs(RingKeys) /\ Retiring(RingKeys) \subseteq Retired
                      /\ \A e \in Retired : \/ e \in Retiring(RingKeys)
                                            \/ \E f \in Active(RingKeys) :
                                                 e.kid = f.kid /\ e.retireAt = clock + LoadKeyRetention
    OBVIOUS
  <2> DEFINE at == clock + LoadKeyRetention
             Now(f) == [f EXCEPT !.state = "retiring", !.retireAt = at]
  <2>1. at \in Nat /\ RingKeys \in SUBSET KeyringEntry
    BY <1>t, RingKeysTypes
  <2>2. Retired = RetireRingKeys(RingKeys, at)
    BY DEF Retired, RingKeys
  <2>3. \A f \in RingKeys : Now(f).kid = f.kid /\ Now(f).retireAt = at
    BY <2>1 DEF KeyringEntry
  <2> HIDE DEF at
  <2>4. /\ KIDs(Retired) = KIDs(RingKeys) /\ Retiring(RingKeys) \subseteq Retired
        /\ \A e \in Retired :
             e \in Retiring(RingKeys) \/ \E f \in Active(RingKeys) : e = Now(f)
    BY <2>1, <2>2, RetireKeeps
  <2> HIDE DEF Now
  <2>5. \A e \in Retired : \/ e \in Retiring(RingKeys)
                           \/ \E f \in Active(RingKeys) : e.kid = f.kid /\ e.retireAt = at
    BY <2>3, <2>4 DEF Active
  <2> QED BY <2>4, <2>5 DEF at
<1> HIDE DEF x
<1>4. SoloFiles'
  <2>1. \A p, q \in Rotator : Rotating(p)' /\ Rotating(q)' => p = q
    BY <1>1 DEF Rotating, Becomes
  <2>2. \A q \in Rotator : /\ rotator'[q].pc = "adopt" => ring = NoFile
                           /\ rotator'[q].pc \notin {"write", "rename"}
    BY <1>1 DEF Becomes
  <2> QED BY <1>t, <1>1, <2>1, <2>2 DEF SoloFiles
<1>5. \A q \in Rotator : HasRead(q)' =>
        /\ ring # NoFile /\ rotator'[q].pc = "generate" /\ rotator'[q].keys = Retired
  BY <1>1 DEF HasRead, Becomes
<1>6. SoloKept'
  <2>1. \A q \in Rotator : HasRead(q)' =>
          /\ KIDs(RingKeys) \subseteq KIDs(rotator'[q].keys)
          /\ Retiring(RingKeys) \subseteq rotator'[q].keys
          /\ Legacy \in pem => Legacy \in KIDs(rotator'[q].keys)
          /\ rotator'[q].pc = "generate"
    BY <1>t, <1>3, <1>5 DEF SoloKept, InUse, RingKeys
  <2> QED BY <1>t, <1>1, <1>2, <2>1 DEF SoloKept
<1>7. SoloDates'
  <2>1. \A f \in Active(RingKeys) : f.kid \notin KIDs(retired)
    <3>1. \A f, e \in RingKeys : f.kid = e.kid => f = e
      BY <1>t, RingKeysTypes DEF UniqueKIDs
    <3> QED BY <1>t, <3>1, InKIDs DEF SoloDates, Active, Retiring
  <2>2. ring # NoFile => \A e \in Retiring(Retired) :
          \/ Dated(e)
          \/ e.kid \notin KIDs(retired) /\ e.retireAt = clock + LoadKeyRetention
    BY <1>t, <1>3, <2>1 DEF SoloDates, Retiring
  <2>3. \A e : Dated(e)' <=> Dated(e)
    BY <1>1 DEF Dated
  <2>4. \A q \in Rotator : HasRead(q)' => \A e \in Retiring(rotator'[q].keys) :
          \/ Dated(e)
          \/ e.kid \notin KIDs(retired) /\ e.retireAt = clock + LoadKeyRetention
    BY <1>5, <2>2
  <2> QED BY <1>t, <1>1, <1>2, <2>3, <2>4 DEF SoloDates
<1>8. SoloPublished'
  <2>1. \A e : PastHorizon(e)' <=> PastHorizon(e)
    BY <1>1 DEF PastHorizon
  <2>2. \A f \in Active(RingKeys) : f.kid \in pem
    BY <1>t DEF SoloPublished, Active, PastHorizon
  <2>3. \A q \in Rotator : HasRead(q)' =>
          \A e \in rotator'[q].keys : ~PastHorizon(e) => e.kid \in pem
    BY <1>t, <1>3, <1>5, <2>2 DEF SoloPublished, Retiring
  <2> QED BY <1>t, <1>1, <1>2, <2>1, <2>3 DEF SoloPublished
<1> QED BY <1>4, <1>6, <1>7, <1>8 DEF Solo

LEMMA AdoptLegacySolo ==
  ASSUME RingInv, Solo, NEW r \in Rotator, AdoptLegacy(r)
  PROVE  Solo'
<1>t. /\ BoundInv /\ SoloFiles /\ SoloKept /\ SoloDates /\ SoloPublished
      /\ clock \in Nat /\ LoadKeyRetention \in Nat /\ LoadKeyRetention > 0
  BY ProcessTypes, RetentionPositive DEF RingInv, Solo
<1>1. /\ UNCHANGED <<clock, pem, inode, ring, tmp, server, tokens, made, staged, retired>>
      /\ rotator[r].pc = "adopt"
      /\ Becomes(r, "generate", Adopted, rotator[r].kid, rotator[r].fd)
  BY <1>t, AdoptLegacyDoes
<1>2. RingKeys' = RingKeys /\ InUse' = InUse /\ ring = NoFile /\ RingKeys = {}
  BY <1>t, <1>1 DEF RingKeys, InUse, SoloFiles
<1>3. \A q \in Rotator : q # r => rotator'[q].pc = "idle"
  BY <1>t, <1>1 DEF SoloFiles, Becomes, Rotating
<1>4. SoloFiles'
  <2>1. \A p, q \in Rotator : Rotating(p)' /\ Rotating(q)' => p = q
    BY <1>3 DEF Rotating
  <2>2. \A q \in Rotator : rotator'[q].pc \notin {"adopt", "write", "rename"}
    BY <1>1, <1>3 DEF Becomes
  <2> QED BY <1>t, <1>1, <2>1, <2>2 DEF SoloFiles
<1>5. \A q \in Rotator : HasRead(q)' =>
        rotator'[q].pc = "generate" /\ rotator'[q].keys = Adopted
  BY <1>1, <1>3 DEF HasRead, Becomes
<1>6. SoloKept'
  <2>1. KIDs({}) = {} /\ Retiring({}) = {}
    BY DEF KIDs, Retiring
  <2>2. \A q \in Rotator : HasRead(q)' =>
          /\ KIDs(RingKeys) \subseteq KIDs(rotator'[q].keys)
          /\ Retiring(RingKeys) \subseteq rotator'[q].keys
          /\ Legacy \in pem => Legacy \in KIDs(rotator'[q].keys)
          /\ rotator'[q].pc = "generate"
    BY <1>t, <1>2, <1>5, <2>1, NewKeys
  <2> QED BY <1>t, <1>1, <1>2, <2>2 DEF SoloKept
<1>7. SoloDates'
  <2>1. KIDs(retired) = {}
    BY <1>t, <1>2, InKIDs DEF SoloDates, Retiring
  <2>2. \A q \in Rotator : HasRead(q)' => \A e \in Retiring(rotator'[q].keys) :
          e.kid \notin KIDs(retired) /\ e.retireAt = clock + LoadKeyRetention
    BY <1>t, <1>5, <2>1, NewKeys DEF Retiring
  <2>3. \A e : Dated(e)' <=> Dated(e)
    BY <1>1 DEF Dated
  <2> QED BY <1>t, <1>1, <1>2, <2>2, <2>3 DEF SoloDates
<1>8. SoloPublished'
  <2>1. \A e : PastHorizon(e)' <=> PastHorizon(e)
    BY <1>1 DEF PastHorizon
  <2>2. \A q \in Rotator : HasRead(q)' => \A e \in rotator'[q].keys : e.kid \in pem
    BY <1>t, <1>5, NewKeys, InKIDs
  <2> QED BY <1>t, <1>1, <1>2, <2>1, <2>2 DEF SoloPublished
<1> QED BY <1>4, <1>6, <1>7, <1>8 DEF Solo

LEMMA PersistKeyPEMSolo ==
  ASSUME RingInv, Solo, NEW r \in Rotator, PersistKeyPEM(r)
  PROVE  Solo'
<1>t. /\ BoundInv /\ SoloFiles /\ SoloKept /\ SoloDates /\ SoloPublished
      /\ clock \in Nat /\ made \in Nat
  BY ProcessTypes DEF RingInv, Solo
<1>k. PICK keys : keys = rotator[r].keys \cup {NewEntry}
  OBVIOUS
<1>1. /\ UNCHANGED <<clock, inode, ring, tmp, server, tokens, staged, retired>>
      /\ pem' = pem \cup {made + 1} /\ rotator[r].pc = "generate"
      /\ Becomes(r, "open", keys, made + 1, rotator[r].fd)
  BY <1>t, <1>k, PersistKeyPEMDoes
<1>2. RingKeys' = RingKeys /\ InUse' = InUse /\ (Legacy \in pem' => Legacy \in pem)
  BY <1>t, <1>1 DEF RingKeys, InUse, Legacy
<1>3. \A q \in Rotator : q # r => rotator'[q].pc = "idle"
  BY <1>t, <1>1 DEF SoloFiles, Becomes, Rotating
<1>4. SoloFiles'
  <2>1. \A p, q \in Rotator : Rotating(p)' /\ Rotating(q)' => p = q
    BY <1>3 DEF Rotating
  <2>2. \A q \in Rotator : rotator'[q].pc \notin {"adopt", "write", "rename"}
    BY <1>1, <1>3 DEF Becomes
  <2> QED BY <1>t, <1>1, <2>1, <2>2 DEF SoloFiles
<1>5. /\ HasRead(r)
      /\ \A q \in Rotator : HasRead(q)' => rotator'[q].keys = keys /\ rotator'[q].kid = made + 1
  BY <1>1, <1>3 DEF HasRead, Becomes
<1>6. NewEntry.kid = made + 1 /\ NewEntry.state = "active"
  BY <1>t, NewKeys
<1>7. SoloKept'
  <2>1. KIDs(keys) = KIDs(rotator[r].keys) \cup {made + 1}
    BY <1>k, <1>6, InKIDs
  <2>2. \A q \in Rotator : HasRead(q)' =>
          /\ KIDs(RingKeys) \subseteq KIDs(rotator'[q].keys)
          /\ Retiring(RingKeys) \subseteq rotator'[q].keys
          /\ Legacy \in pem => Legacy \in KIDs(rotator'[q].keys)
          /\ rotator'[q].kid \in KIDs(rotator'[q].keys)
    BY <1>t, <1>k, <1>5, <2>1 DEF SoloKept
  <2>3. pem \subseteq pem'
    BY <1>1
  <2> QED BY <1>t, <1>1, <1>2, <2>2, <2>3 DEF SoloKept
<1>8. SoloDates'
  <2>1. Retiring(keys) = Retiring(rotator[r].keys)
    BY <1>k, <1>6 DEF Retiring
  <2>2. \A e : Dated(e)' <=> Dated(e)
    BY <1>1 DEF Dated
  <2>3. \A q \in Rotator : HasRead(q)' => \A e \in Retiring(rotator'[q].keys) :
          \/ Dated(e)
          \/ e.kid \notin KIDs(retired) /\ e.retireAt = clock + LoadKeyRetention
    BY <1>t, <1>5, <2>1 DEF SoloDates
  <2> QED BY <1>t, <1>1, <1>2, <2>2, <2>3 DEF SoloDates
<1>9. SoloPublished'
  <2>1. \A e : PastHorizon(e)' <=> PastHorizon(e)
    BY <1>1 DEF PastHorizon
  <2>2. \A q \in Rotator : HasRead(q)' =>
          \A e \in rotator'[q].keys : ~PastHorizon(e) => e.kid \in pem'
    BY <1>t, <1>k, <1>1, <1>5, <1>6 DEF SoloPublished
  <2>3. pem \subseteq pem'
    BY <1>1
  <2> QED BY <1>t, <1>1, <1>2, <2>1, <2>2, <2>3 DEF SoloPublished
<1> QED BY <1>4, <1>7, <1>8, <1>9 DEF Solo

\* A step of a command between its key and its rename touches the temp file only.
LEMMA SaveStepSolo ==
  ASSUME RingInv, Solo, NEW r \in Rotator, SoloFiles',
         UNCHANGED <<clock, pem, ring, server, tokens, staged, retired>>,
         RingKeys' = RingKeys,
         rotator[r].pc \in {"open", "write"},
         rotator'[r].pc \in {"write", "rename"},
         rotator'[r].keys = rotator[r].keys, rotator'[r].kid = rotator[r].kid
  PROVE  Solo'
<1>t. SoloFiles /\ SoloKept /\ SoloDates /\ SoloPublished
  BY DEF Solo
<1>1. InUse' = InUse
  <2>1. InUse = IF ring = NoFile THEN {Legacy} ELSE KIDs(RingKeys)
    BY DEF InUse, RingKeys
  <2>2. InUse' = IF ring' = NoFile THEN {Legacy} ELSE KIDs(RingKeys')
    BY DEF InUse, RingKeys
  <2> QED BY <2>1, <2>2
<1>2. HasRead(r) /\ \A q \in Rotator : HasRead(q)' => q = r
  BY DEF HasRead, SoloFiles, Rotating
<1>3. SoloKept'
  <2>1. \A q \in Rotator : HasRead(q)' =>
          /\ KIDs(RingKeys) \subseteq KIDs(rotator'[q].keys)
          /\ Retiring(RingKeys) \subseteq rotator'[q].keys
          /\ Legacy \in pem => Legacy \in KIDs(rotator'[q].keys)
          /\ rotator'[q].kid \in KIDs(rotator'[q].keys)
    BY <1>t, <1>2 DEF SoloKept
  <2> QED BY <1>t, <1>1, <2>1 DEF SoloKept
<1>4. SoloDates'
  <2>1. \A e : Dated(e)' <=> Dated(e)
    BY DEF Dated
  <2>2. \A q \in Rotator : HasRead(q)' => rotator'[q].keys = rotator[r].keys
    BY <1>2
  <2> QED BY <1>t, <1>2, <2>1, <2>2 DEF SoloDates
<1>5. SoloPublished'
  <2>1. \A e : PastHorizon(e)' <=> PastHorizon(e)
    BY DEF PastHorizon
  <2>2. \A q \in Rotator : HasRead(q)' => rotator'[q].keys = rotator[r].keys
    BY <1>2
  <2> QED BY <1>t, <1>2, <2>1, <2>2 DEF SoloPublished
<1> QED BY <1>3, <1>4, <1>5 DEF Solo

LEMMA OpenRingTempSolo ==
  ASSUME RingInv, Solo, NEW r \in Rotator, OpenRingTemp(r)
  PROVE  Solo'
<1>t. BoundInv /\ SoloFiles /\ FilesOK /\ ServersOK /\ Len(inode) \in Nat
  BY ProcessTypes DEF RingInv, BoundInv, Solo
<1>1. /\ UNCHANGED <<clock, pem, ring, server, tokens, made, staged, retired>>
      /\ tmp' \in 1 .. Len(inode') /\ tmp' # ring /\ inode'[tmp'] = Empty
      /\ tmp' = tmp \/ tmp' \notin 0 .. Len(inode)
      /\ \A i \in 1 .. Len(inode) : i # tmp' => inode'[i] = inode[i]
      /\ rotator[r].pc = "open"
      /\ Becomes(r, "write", rotator[r].keys, rotator[r].kid, tmp')
  BY <1>t, OpenRingTempDoes
<1>2. ring # NoFile => inode'[ring] = inode[ring]
  BY <1>t, <1>1 DEF FilesOK, NoFile
<1>3. RingKeys' = RingKeys
  BY <1>1, <1>2 DEF RingKeys
<1>4. SoloFiles'
  <2>1. \A q \in Rotator : q # r => rotator'[q].pc = "idle"
    BY <1>t, <1>1 DEF SoloFiles, Becomes, Rotating
  <2>2. \A p, q \in Rotator : Rotating(p)' /\ Rotating(q)' => p = q
    BY <2>1 DEF Rotating
  <2>3. \A q \in Rotator :
          /\ rotator'[q].pc \notin {"adopt", "rename"}
          /\ rotator'[q].pc = "write" => /\ tmp' # NoFile /\ rotator'[q].fd = tmp'
                                         /\ inode'[tmp'] = Empty
    BY <1>1, <2>1 DEF Becomes, NoFile
  <2>4. \A s \in Server : server[s].from # tmp'
    BY <1>t, <1>1 DEF SoloFiles, ServersOK, ServerOK, NoFile
  <2> QED BY <1>t, <1>1, <1>2, <2>2, <2>3, <2>4 DEF SoloFiles
<1> QED BY <1>1, <1>3, <1>4, SaveStepSolo DEF Becomes

LEMMA WriteRingSolo ==
  ASSUME RingInv, Solo, NEW r \in Rotator, WriteRing(r)
  PROVE  Solo'
<1>t. BoundInv /\ SoloFiles /\ FilesOK /\ ServersOK /\ Len(inode) \in Nat
  BY ProcessTypes DEF RingInv, BoundInv, Solo
<1>1. /\ UNCHANGED <<clock, pem, ring, tmp, server, tokens, made, staged, retired>>
      /\ \/ inode'[rotator[r].fd] = Doc(rotator[r].keys)
         \/ inode[rotator[r].fd] # Empty
      /\ \A i \in 1 .. Len(inode) : i # rotator[r].fd => inode'[i] = inode[i]
      /\ rotator[r].pc = "write"
      /\ Becomes(r, "rename", rotator[r].keys, rotator[r].kid, rotator[r].fd)
  BY <1>t, WriteRingDoes
<1>2. rotator[r].fd = tmp /\ tmp # NoFile /\ inode'[tmp] = Doc(rotator[r].keys)
  BY <1>t, <1>1 DEF SoloFiles
<1>3. ring # NoFile => inode'[ring] = inode[ring]
  BY <1>t, <1>1, <1>2 DEF FilesOK, NoFile
<1>4. RingKeys' = RingKeys
  BY <1>1, <1>3 DEF RingKeys
<1>5. SoloFiles'
  <2>1. \A q \in Rotator : q # r => rotator'[q].pc = "idle"
    BY <1>t, <1>1 DEF SoloFiles, Becomes, Rotating
  <2>2. \A p, q \in Rotator : Rotating(p)' /\ Rotating(q)' => p = q
    BY <2>1 DEF Rotating
  <2>3. \A q \in Rotator :
          /\ rotator'[q].pc \notin {"adopt", "write"}
          /\ rotator'[q].pc = "rename" => tmp # NoFile /\ inode'[tmp] = Doc(rotator'[q].keys)
    BY <1>1, <1>2, <2>1 DEF Becomes
  <2> QED BY <1>t, <1>1, <1>3, <2>2, <2>3 DEF SoloFiles
<1> QED BY <1>1, <1>4, <1>5, SaveStepSolo DEF Becomes

LEMMA RenameRingSolo ==
  ASSUME RingInv, Solo, NEW r \in Rotator, RenameRing(r)
  PROVE  Solo'
<1>t. /\ BoundInv /\ SoloFiles /\ SoloKept /\ SoloDates /\ SoloPublished /\ FilesOK
      /\ clock \in Nat
  BY ProcessTypes DEF RingInv, BoundInv, Solo
<1>k. PICK keys : keys = rotator[r].keys
  OBVIOUS
<1>1. /\ UNCHANGED <<clock, pem, inode, server, tokens, made>>
      /\ rotator[r].pc = "rename" /\ Becomes(r, "idle", {}, Legacy, NoFile)
  BY <1>t, RenameRingDoes
<1>2. tmp # NoFile /\ inode[tmp] = Doc(keys) /\ HasRead(r)
  BY <1>t, <1>k, <1>1 DEF SoloFiles, HasRead
<1>3. /\ ring' = tmp /\ tmp' = NoFile /\ staged' = staged \cup {rotator[r].kid}
      /\ retired' = retired \cup {[kid |-> k, at |-> clock] :
           k \in KIDs(keys \ Active(keys)) \ KIDs(retired)}
  BY <1>t, <1>2, RenameRingDoes, ContentTypes
<1>4. RingKeys' = keys /\ InUse' = KIDs(keys)
  BY <1>1, <1>2, <1>3, ContentTypes DEF RingKeys, InUse
<1>5. keys \in SUBSET KeyringEntry /\ keys \ Active(keys) = Retiring(keys)
  <2>1. keys \in SUBSET KeyringEntry
    BY <1>t, <1>k, <1>2, CommandKeysTypes
  <2> QED BY <2>1 DEF Active, Retiring, KeyringEntry
<1>6. \A q \in Rotator : rotator'[q].pc = "idle"
  BY <1>t, <1>1 DEF SoloFiles, Becomes, Rotating
<1>7. \A q \in Rotator : ~Rotating(q)' /\ ~HasRead(q)'
  BY <1>6 DEF Rotating, HasRead
<1>8. SoloFiles'
  <2>1. inode'[ring'].kind = "doc"
    BY <1>1, <1>2, <1>3, ContentTypes
  <2> QED BY <1>t, <1>1, <1>3, <1>6, <1>7, <2>1 DEF SoloFiles
<1>9. /\ KIDs(RingKeys) \subseteq KIDs(keys) /\ Retiring(RingKeys) \subseteq keys
      /\ Legacy \in pem => Legacy \in KIDs(keys)
      /\ rotator[r].kid \in KIDs(keys)
  BY <1>t, <1>k, <1>1, <1>2 DEF SoloKept
<1>10. SoloKept'
  <2>1. staged' \subseteq KIDs(keys)
    BY <1>t, <1>3, <1>9 DEF SoloKept
  <2>2. \A k \in InUse : (ring = NoFile => Legacy \in pem) => k \in KIDs(keys)
    BY <1>9 DEF InUse, RingKeys
  <2>3. \A s \in Server : server[s].pc = "load" =>
          KIDs(server[s].keys) \subseteq KIDs(keys) /\ Retiring(server[s].keys) \subseteq keys
    BY <1>t, <1>9 DEF SoloKept, Retiring
  <2>4. \A s \in Server : server[s].pc = "up" => server[s].active \in KIDs(keys)
    BY <1>t, <2>2 DEF SoloKept
  <2>5. \A t \in tokens : t.kid \in KIDs(keys)
    BY <1>t, <2>2 DEF SoloKept
  <2>6. ring' # NoFile
    BY <1>2, <1>3
  <2> QED BY <1>1, <1>4, <1>7, <1>9, <2>1, <2>3, <2>4, <2>5, <2>6 DEF SoloKept
<1>11. SoloDates'
  <2> DEFINE K == KIDs(Retiring(keys)) \ KIDs(retired)
             Mark(k) == [kid |-> k, at |-> clock]
  <2>1. retired' = retired \cup {Mark(k) : k \in K}
    BY <1>3, <1>5
  <2>2. \A k : Mark(k).kid = k /\ Mark(k).at = clock
    OBVIOUS
  <2> HIDE DEF Mark
  <2>3. \A k \in retired' : \E e \in Retiring(keys) : e.kid = k.kid
    <3>1. \A k \in retired : \E e \in Retiring(keys) : e.kid = k.kid
      BY <1>t, <1>9 DEF SoloDates, Retiring
    <3>2. \A k \in K : \E e \in Retiring(keys) : e.kid = k
      BY InKIDs
    <3> QED BY <2>1, <2>2, <3>1, <3>2
  <2>4. \A e \in Retiring(keys) : Dated(e)'
    <3> SUFFICES ASSUME NEW e \in Retiring(keys) PROVE Dated(e)'
      OBVIOUS
    <3>1. CASE Dated(e)
      BY <2>1, <3>1 DEF Dated
    <3>2. CASE e.kid \notin KIDs(retired) /\ e.retireAt = clock + LoadKeyRetention
      <4>1. e.kid \in K
        BY <3>2, InKIDs
      <4>2. Mark(e.kid) \in retired'
        BY <2>1, <4>1
      <4> QED BY <2>2, <3>2, <4>2 DEF Dated
    <3> QED BY <1>t, <1>k, <1>2, <3>1, <3>2 DEF SoloDates
  <2> QED BY <1>4, <1>7, <2>3, <2>4 DEF SoloDates
<1>12. SoloPublished'
  <2>1. \A e : PastHorizon(e)' <=> PastHorizon(e)
    BY <1>1 DEF PastHorizon
  <2>2. \A e \in keys : ~PastHorizon(e) => e.kid \in pem
    BY <1>t, <1>k, <1>2 DEF SoloPublished
  <2>3. \A s \in Server : server[s].from # ring'
    BY <1>t, <1>2, <1>3 DEF SoloFiles
  <2> QED BY <1>t, <1>1, <1>4, <1>7, <2>1, <2>2, <2>3 DEF SoloPublished
<1> QED BY <1>8, <1>10, <1>11, <1>12 DEF Solo

LEMMA RotationEndsSolo ==
  ASSUME RingInv, Solo, NEW r \in Rotator, RotationEnds(r)
  PROVE  Solo'
<1>t. BoundInv /\ SoloFiles /\ SoloKept /\ SoloDates /\ SoloPublished
  BY DEF RingInv, Solo
<1>1. /\ UNCHANGED <<clock, pem, inode, ring, server, tokens, made, staged, retired>>
      /\ Rotating(r) /\ tmp' \in {tmp, NoFile} /\ Becomes(r, "idle", {}, Legacy, NoFile)
  BY <1>t, RotationEndsDoes
<1>2. RingKeys' = RingKeys /\ InUse' = InUse
  BY <1>1 DEF RingKeys, InUse
<1>3. \A q \in Rotator : rotator'[q].pc = "idle"
  BY <1>t, <1>1 DEF SoloFiles, Becomes, Rotating
<1>4. \A q \in Rotator : ~Rotating(q)' /\ ~HasRead(q)'
  BY <1>3 DEF Rotating, HasRead
<1>5. SoloFiles'
  BY <1>t, <1>1, <1>3, <1>4 DEF SoloFiles
<1>6. SoloKept'
  BY <1>t, <1>1, <1>2, <1>4 DEF SoloKept
<1>7. SoloDates'
  BY <1>t, <1>1, <1>2, <1>4 DEF SoloDates, Dated
<1>8. SoloPublished'
  BY <1>t, <1>1, <1>2, <1>4 DEF SoloPublished, PastHorizon
<1> QED BY <1>5, <1>6, <1>7, <1>8 DEF Solo

LEMMA StartServerSolo ==
  ASSUME RingInv, Solo, NEW s \in Server, StartServer(s)
  PROVE  Solo'
<1>t. BoundInv /\ FilesOK /\ SoloFiles /\ SoloKept /\ SoloDates /\ SoloPublished
  BY DEF RingInv, BoundInv, Solo
<1> DEFINE x == server[s]
<1>1. /\ UNCHANGED <<clock, pem, inode, ring, tmp, rotator, tokens, made, staged, retired>>
      /\ x.pc = "down"
      /\ \/ ring = NoFile /\ Serves(s, "legacy", x.keys, x.from, x.active, x.published)
         \/ /\ ring # NoFile
            /\ Serves(s, "load", RingKeys, ring, x.active, x.published)
  BY <1>t, StartServerDoes DEF SoloFiles, RingKeys
<1> HIDE DEF x
<1>2. RingKeys' = RingKeys /\ InUse' = InUse
  BY <1>1 DEF RingKeys, InUse
<1>3. /\ server'[s].pc \in {"legacy", "load"}
      /\ server'[s].pc = "legacy" => server'[s].from = NoFile
      /\ server'[s].pc = "load" => /\ ring # NoFile /\ server'[s].keys = RingKeys
                                   /\ server'[s].from = ring
      /\ \A q \in Server : q # s => server'[q] = server[q]
  BY <1>t, <1>1 DEF Serves, SoloPublished, x
<1>4. \A q \in Rotator : /\ HasRead(q)' <=> HasRead(q)
                         /\ Rotating(q)' <=> Rotating(q)
  BY <1>1 DEF HasRead, Rotating
<1>5. SoloFiles'
  <2>1. tmp # NoFile => \A q \in Server : server'[q].from # tmp
    BY <1>t, <1>3 DEF SoloFiles, FilesOK
  <2>2. \A q \in Server : server'[q].pc # "failed"
    BY <1>t, <1>3 DEF SoloFiles
  <2> QED BY <1>t, <1>1, <1>4, <2>1, <2>2 DEF SoloFiles
<1>6. SoloKept'
  <2>1. \A q \in Server :
          /\ server'[q].pc = "load" => /\ ring # NoFile
                                       /\ KIDs(server'[q].keys) \subseteq KIDs(RingKeys)
                                       /\ Retiring(server'[q].keys) \subseteq RingKeys
          /\ server'[q].pc = "up" => /\ server'[q].active \in InUse
                                     /\ ring = NoFile => Legacy \in pem
    BY <1>t, <1>3 DEF SoloKept, Retiring
  <2> QED BY <1>t, <1>1, <1>2, <1>4, <2>1 DEF SoloKept
<1>7. SoloDates'
  BY <1>t, <1>1, <1>2, <1>4 DEF SoloDates, Dated
<1>8. SoloPublished'
  <2>1. \A e : PastHorizon(e)' <=> PastHorizon(e)
    BY <1>1 DEF PastHorizon
  <2> QED BY <1>t, <1>1, <1>2, <1>3, <1>4, <2>1 DEF SoloPublished
<1> QED BY <1>5, <1>6, <1>7, <1>8 DEF Solo

LEMMA LoadLegacySolo ==
  ASSUME RingInv, Solo, NEW s \in Server, LoadLegacy(s), ~overlap'
  PROVE  Solo'
<1>t. BoundInv /\ SoloFiles /\ SoloKept /\ SoloDates /\ SoloPublished
  BY DEF RingInv, Solo
<1>1. /\ UNCHANGED <<clock, inode, ring, tmp, rotator, tokens, made, staged, retired>>
      /\ server[s].pc = "legacy" /\ pem' = pem \cup {Legacy}
      /\ Legacy \in pem \/ (ring = NoFile /\ \A r \in Rotator : ~Rotating(r))
      /\ Serves(s, "up", server[s].keys, server[s].from, Legacy, {Legacy})
  BY <1>t, LoadLegacyDoes DEF BesideRotation
<1>2. RingKeys' = RingKeys /\ InUse' = InUse /\ Legacy \in InUse
  BY <1>t, <1>1 DEF RingKeys, InUse, SoloKept
<1>3. /\ server'[s].pc = "up" /\ server'[s].from = NoFile /\ server'[s].active = Legacy
      /\ server'[s].published = {Legacy}
      /\ \A q \in Server : q # s => server'[q] = server[q]
  BY <1>t, <1>1 DEF Serves, SoloPublished
<1>4. \A q \in Rotator : /\ HasRead(q)' <=> HasRead(q)
                         /\ Rotating(q)' <=> Rotating(q)
                         /\ HasRead(q) => Legacy \in pem
  BY <1>1 DEF HasRead, Rotating
<1>5. SoloFiles'
  <2>1. tmp # NoFile => \A q \in Server : server'[q].from # tmp
    BY <1>t, <1>3 DEF SoloFiles
  <2>2. \A q \in Server : server'[q].pc # "failed"
    BY <1>t, <1>3 DEF SoloFiles
  <2> QED BY <1>t, <1>1, <1>4, <2>1, <2>2 DEF SoloFiles
<1>6. SoloKept'
  <2>1. \A q \in Server :
          /\ server'[q].pc = "load" => /\ ring # NoFile
                                       /\ KIDs(server'[q].keys) \subseteq KIDs(RingKeys)
                                       /\ Retiring(server'[q].keys) \subseteq RingKeys
          /\ server'[q].pc = "up" => server'[q].active \in InUse
    BY <1>t, <1>2, <1>3 DEF SoloKept
  <2>2. Legacy \in pem'
    BY <1>1
  <2> QED BY <1>t, <1>1, <1>2, <1>4, <2>1, <2>2 DEF SoloKept
<1>7. SoloDates'
  BY <1>t, <1>1, <1>2, <1>4 DEF SoloDates, Dated
<1>8. SoloPublished'
  <2>1. \A e : PastHorizon(e)' <=> PastHorizon(e)
    BY <1>1 DEF PastHorizon
  <2>2. ring = NoFile => RingKeys = {}
    BY DEF RingKeys
  <2>3. pem \subseteq pem'
    BY <1>1
  <2>4. \A q \in Server :
       /\ server'[q].pc = "load" => /\ server'[q].from # NoFile
                                    /\ server'[q].from = ring => server'[q].keys = RingKeys
       /\ server'[q].pc = "up" /\ server'[q].from = NoFile => server'[q].published = {Legacy}
       /\ server'[q].pc = "up" /\ server'[q].from = ring =>
            \A e \in RingKeys : ~PastHorizon(e) => e.kid \in server'[q].published
       /\ server'[q].pc \in {"down", "legacy"} => server'[q].from = NoFile
    BY <1>t, <1>3, <2>2 DEF SoloPublished
  <2> QED BY <1>t, <1>1, <1>2, <1>4, <2>1, <2>3, <2>4 DEF SoloPublished
<1> QED BY <1>5, <1>6, <1>7, <1>8 DEF Solo

LEMMA LoadRingSolo ==
  ASSUME RingInv, Solo, NEW s \in Server, LoadRing(s)
  PROVE  Solo'
<1>t. BoundInv /\ LiveInv /\ SoloFiles /\ SoloKept /\ SoloDates /\ SoloPublished
  BY DEF RingInv, Solo
<1> DEFINE x == server[s]
           kept == PruneRetiredKeys(x.keys)
<1>1. /\ UNCHANGED <<clock, inode, ring, tmp, rotator, tokens, made, staged, retired>>
      /\ x.pc = "load" /\ pem' = pem \ KIDs(x.keys \ kept)
  BY <1>t, LoadRingDoes
<1>2. RingKeys' = RingKeys /\ InUse' = InUse
  BY <1>1 DEF RingKeys, InUse
<1>3. /\ ring # NoFile /\ KIDs(x.keys) \subseteq KIDs(RingKeys)
      /\ Retiring(x.keys) \subseteq RingKeys
      /\ x.from # NoFile /\ (x.from = ring => x.keys = RingKeys)
  BY <1>t, <1>1 DEF SoloKept, SoloPublished
<1>4. /\ \A e \in x.keys : e \in kept <=> ~PastHorizon(e)
      /\ kept \subseteq x.keys /\ Active(kept) = Active(x.keys)
      /\ \A e \in x.keys \ kept : e \in Retiring(x.keys)
  BY DEF PruneRetiredKeys, Active, PastHorizon, Retiring
<1>5. PICK a \in Active(kept) : /\ Active(kept) = {a} /\ a.kid \in pem
                                /\ Serves(s, "up", x.keys, x.from, a.kid, KIDs(kept) \cap pem)
  <2>1. x.keys \in Live
    BY <1>1, LiveCases DEF LoadLive
  <2>2. \E e \in x.keys : Active(x.keys) = {e} /\ e.kid \in pem
    BY <1>t, <2>1 DEF LiveInv, OneActive
  <2>3. \E e \in Active(kept) : Active(kept) = {e} /\ e.kid \in pem
    BY <1>4, <2>2
  <2> QED BY <1>t, <2>3, LoadRingDoes
<1> HIDE DEF kept, x
<1>6. /\ server'[s].pc = "up" /\ server'[s].from = x.from
      /\ server'[s].active = a.kid /\ server'[s].published = KIDs(kept) \cap pem
      /\ \A q \in Server : q # s => server'[q] = server[q]
  BY <1>5 DEF Serves
<1>7. \A q \in Rotator : /\ HasRead(q)' <=> HasRead(q)
                         /\ Rotating(q)' <=> Rotating(q)
  BY <1>1 DEF HasRead, Rotating
<1>8. SoloFiles'
  <2>1. tmp # NoFile => \A q \in Server : server'[q].from # tmp
    BY <1>t, <1>6 DEF SoloFiles, x
  <2>2. \A q \in Server : server'[q].pc # "failed"
    BY <1>t, <1>6 DEF SoloFiles
  <2> QED BY <1>t, <1>1, <1>7, <2>1, <2>2 DEF SoloFiles
<1>9. SoloKept'
  <2>1. a.kid \in KIDs(RingKeys)
    BY <1>3, <1>4, <1>5, InKIDs DEF Active
  <2>2. a.kid \in InUse
    BY <1>3, <2>1 DEF InUse, RingKeys
  <2>3. \A q \in Server :
          /\ server'[q].pc = "load" => /\ ring # NoFile
                                       /\ KIDs(server'[q].keys) \subseteq KIDs(RingKeys)
                                       /\ Retiring(server'[q].keys) \subseteq RingKeys
          /\ server'[q].pc = "up" => server'[q].active \in InUse
    BY <1>t, <1>6, <2>2 DEF SoloKept
  <2>4. Legacy \in pem' => Legacy \in pem
    BY <1>1
  <2> QED BY <1>t, <1>1, <1>2, <1>3, <1>7, <2>3, <2>4 DEF SoloKept
<1>10. SoloDates'
  BY <1>t, <1>1, <1>2, <1>7 DEF SoloDates, Dated
<1>11. SoloPublished'
  <2>1. \A e : PastHorizon(e)' <=> PastHorizon(e)
    BY <1>1 DEF PastHorizon
  <2>2. \A K : UniqueKIDs(K) /\ Retiring(x.keys) \subseteq K =>
          \A e \in K : ~PastHorizon(e) /\ e.kid \in pem => e.kid \in pem'
    BY <1>1, <1>4, InKIDs DEF UniqueKIDs
  <2>3. \A e \in RingKeys : ~PastHorizon(e) => e.kid \in pem'
    BY <1>t, <1>3, <2>2, RingKeysTypes DEF SoloPublished
  <2>4. \A q \in Rotator : HasRead(q) =>
          \A e \in rotator[q].keys : ~PastHorizon(e) => e.kid \in pem'
    <3> SUFFICES ASSUME NEW q \in Rotator, HasRead(q)
                 PROVE  \A e \in rotator[q].keys : ~PastHorizon(e) => e.kid \in pem'
      OBVIOUS
    <3>1. Retiring(x.keys) \subseteq rotator[q].keys
      BY <1>t, <1>3 DEF SoloKept, Retiring
    <3>2. UniqueKIDs(rotator[q].keys)
      BY <1>t, CommandKeysTypes
    <3> QED BY <1>t, <2>2, <3>1, <3>2 DEF SoloPublished
  <2>5. x.from = ring => \A e \in RingKeys : ~PastHorizon(e) => e.kid \in KIDs(kept) \cap pem
    BY <1>t, <1>3, <1>4, InKIDs DEF SoloPublished
  <2>6. \A q \in Server :
       /\ server'[q].pc = "load" => /\ server'[q].from # NoFile
                                    /\ server'[q].from = ring => server'[q].keys = RingKeys
       /\ server'[q].pc = "up" /\ server'[q].from = NoFile => server'[q].published = {Legacy}
       /\ server'[q].pc = "up" /\ server'[q].from = ring =>
            \A e \in RingKeys : ~PastHorizon(e) => e.kid \in server'[q].published
       /\ server'[q].pc \in {"down", "legacy"} => server'[q].from = NoFile
    BY <1>t, <1>3, <1>6, <2>5 DEF SoloPublished
  <2> QED BY <1>t, <1>1, <1>2, <1>7, <2>1, <2>3, <2>4, <2>6 DEF SoloPublished
<1> QED BY <1>8, <1>9, <1>10, <1>11 DEF Solo

LEMMA SignSolo ==
  ASSUME RingInv, Solo, NEW s \in Server, Sign(s)
  PROVE  Solo'
<1>t. SoloFiles /\ SoloKept /\ SoloDates /\ SoloPublished /\ clock \in Nat
  BY ProcessTypes DEF RingInv, Solo
<1> DEFINE new == [kid |-> server[s].active, exp |-> clock + AccessTTL]
<1>1. /\ UNCHANGED <<clock, pem, inode, ring, tmp, rotator, server, made, staged, retired>>
      /\ server[s].pc = "up" /\ tokens' = tokens \cup {new}
  BY DEF Sign, disk
<1>2. new.kid = server[s].active /\ clock < new.exp
  BY <1>t, RotationAssumption
<1> HIDE DEF new
<1>3. RingKeys' = RingKeys /\ InUse' = InUse
  BY <1>1 DEF RingKeys, InUse
<1>4. \A q \in Rotator : /\ HasRead(q)' <=> HasRead(q)
                         /\ Rotating(q)' <=> Rotating(q)
  BY <1>1 DEF HasRead, Rotating
<1>5. SoloFiles'
  BY <1>t, <1>1, <1>4 DEF SoloFiles
<1>6. SoloKept'
  <2>1. \A t \in tokens' : t.kid \in InUse /\ (ring = NoFile => Legacy \in pem)
    BY <1>t, <1>1, <1>2 DEF SoloKept
  <2> QED BY <1>t, <1>1, <1>3, <1>4, <2>1 DEF SoloKept
<1>7. SoloDates'
  BY <1>t, <1>1, <1>3, <1>4 DEF SoloDates, Dated
<1>8. SoloPublished'
  <2>1. \A t \in tokens' : clock < t.exp
    BY <1>t, <1>1, <1>2 DEF SoloPublished
  <2>2. \A e : PastHorizon(e)' <=> PastHorizon(e)
    BY <1>1 DEF PastHorizon
  <2> QED BY <1>t, <1>1, <1>3, <1>4, <2>1, <2>2 DEF SoloPublished
<1> QED BY <1>5, <1>6, <1>7, <1>8 DEF Solo

LEMMA StopSolo ==
  ASSUME RingInv, Solo, NEW s \in Server, Stop(s)
  PROVE  Solo'
<1>t. BoundInv /\ SoloFiles /\ SoloKept /\ SoloDates /\ SoloPublished
  BY DEF RingInv, Solo
<1>1. /\ UNCHANGED <<clock, pem, inode, ring, tmp, rotator, tokens, made, staged, retired>>
      /\ server'[s].pc = "down" /\ server'[s].from = NoFile
      /\ \A q \in Server : q # s => server'[q] = server[q]
  BY <1>t, StopDoes DEF Serves
<1>2. RingKeys' = RingKeys /\ InUse' = InUse
  BY <1>1 DEF RingKeys, InUse
<1>3. \A q \in Rotator : /\ HasRead(q)' <=> HasRead(q)
                         /\ Rotating(q)' <=> Rotating(q)
  BY <1>1 DEF HasRead, Rotating
<1>4. SoloFiles'
  <2>1. tmp # NoFile => \A q \in Server : server'[q].from # tmp
    BY <1>t, <1>1 DEF SoloFiles
  <2>2. \A q \in Server : server'[q].pc # "failed"
    BY <1>t, <1>1 DEF SoloFiles
  <2> QED BY <1>t, <1>1, <1>3, <2>1, <2>2 DEF SoloFiles
<1>5. SoloKept'
  BY <1>t, <1>1, <1>2, <1>3 DEF SoloKept
<1>6. SoloDates'
  BY <1>t, <1>1, <1>2, <1>3 DEF SoloDates, Dated
<1>7. SoloPublished'
  <2>1. \A e : PastHorizon(e)' <=> PastHorizon(e)
    BY <1>1 DEF PastHorizon
  <2> QED BY <1>t, <1>1, <1>2, <1>3, <2>1 DEF SoloPublished
<1> QED BY <1>4, <1>5, <1>6, <1>7 DEF Solo

LEMMA TickSolo ==
  ASSUME RingInv, Solo, Tick
  PROVE  Solo'
<1>t. /\ BoundInv /\ SoloFiles /\ SoloKept /\ SoloDates /\ SoloPublished
      /\ RingKeys \in SUBSET KeyringEntry /\ clock \in Nat
  BY RingKeysTypes, ProcessTypes DEF RingInv, Solo
<1>1. /\ UNCHANGED <<pem, inode, ring, tmp, rotator, server, made, staged, retired>>
      /\ clock' = clock + 1 /\ \A t \in tokens' : t \in tokens /\ clock' < t.exp
      /\ \A r \in Rotator : ~Rotating(r)
  BY DEF Tick, disk
<1>2. RingKeys' = RingKeys /\ InUse' = InUse
  BY <1>1 DEF RingKeys, InUse
<1>3. \A q \in Rotator : ~Rotating(q)' /\ ~HasRead(q)'
  BY <1>1 DEF HasRead, Rotating
<1>4. SoloFiles'
  BY <1>t, <1>1, <1>3 DEF SoloFiles
<1>5. SoloKept'
  BY <1>t, <1>1, <1>2, <1>3 DEF SoloKept
<1>6. SoloDates'
  BY <1>t, <1>1, <1>2, <1>3 DEF SoloDates, Dated
<1>7. SoloPublished'
  <2>1. \A e \in RingKeys : ~PastHorizon(e)' => ~PastHorizon(e)
    BY <1>t, <1>1 DEF PastHorizon, KeyringEntry
  <2> QED BY <1>t, <1>1, <1>2, <1>3, <2>1 DEF SoloPublished
<1> QED BY <1>4, <1>5, <1>6, <1>7 DEF Solo

LEMMA InitSolo == Init => Solo
<1> SUFFICES ASSUME Init PROVE Solo
  OBVIOUS
<1>1. /\ ring = NoFile /\ tmp = NoFile /\ tokens = {} /\ staged = {} /\ retired = {}
      /\ RingKeys = {} /\ InUse = {Legacy}
      /\ \A r \in Rotator : rotator[r].pc = "idle"
      /\ \A s \in Server : server[s].pc = "down" /\ server[s].from = NoFile
  BY DEF Init, NoRotation, Down, RingKeys, InUse
<1>2. \A r \in Rotator : ~Rotating(r) /\ ~HasRead(r)
  BY <1>1 DEF Rotating, HasRead
<1>3. SoloFiles
  BY <1>1, <1>2 DEF SoloFiles
<1>4. SoloKept
  BY <1>1, <1>2 DEF SoloKept
<1>5. SoloDates
  BY <1>1, <1>2 DEF SoloDates, Retiring
<1>6. SoloPublished
  BY <1>1, <1>2 DEF SoloPublished
<1> QED BY <1>3, <1>4, <1>5, <1>6 DEF Solo

\* The two invariants together are inductive.
LEMMA SoloStep ==
  ASSUME RingInv, SoloInv, [Next]_vars
  PROVE  SoloInv'
<1> SUFFICES ASSUME ~overlap' PROVE Solo'
  BY DEF SoloInv, Solo
<1>0. BoundInv
  BY DEF RingInv
<1>1. ASSUME NEW r \in Rotator, Rotate(r) PROVE Solo'
  <2>1. ~overlap
    <3>1. CASE ReadRing(r)
      BY <3>1 DEF ReadRing
    <3>2. CASE ~ReadRing(r)
      BY <1>1, <3>2 DEF Rotate, AdoptLegacy, PersistKeyPEM, OpenRingTemp, WriteRing,
                       RenameRing, RotationEnds
    <3> QED BY <3>1, <3>2
  <2>2. Solo
    BY <2>1 DEF SoloInv, Solo
  <2> QED BY <1>1, <2>2, ReadRingSolo, AdoptLegacySolo, PersistKeyPEMSolo, OpenRingTempSolo,
             WriteRingSolo, RenameRingSolo, RotationEndsSolo DEF Rotate
<1>2. ASSUME NEW s \in Server, Serve(s) PROVE Solo'
  <2>1. ~overlap
    BY <1>2 DEF Serve, StartServer, LoadLegacy, LoadRing, Sign, Stop
  <2>2. Solo
    BY <2>1 DEF SoloInv, Solo
  <2> QED BY <1>2, <2>2, StartServerSolo, LoadLegacySolo, LoadRingSolo, SignSolo, StopSolo DEF Serve
<1>3. CASE Tick
  <2>1. Solo
    BY <1>3 DEF SoloInv, Solo, Tick
  <2> QED BY <1>3, <2>1, TickSolo
<1>4. CASE UNCHANGED vars
  <2>1. UNCHANGED <<clock, pem, inode, ring, tmp, rotator, server, tokens, made, staged, retired,
                    overlap>>
    BY <1>4 DEF vars, disk
  <2>2. SoloFiles /\ SoloKept /\ SoloDates /\ SoloPublished
    BY <2>1 DEF SoloInv
  <2>3. SoloFiles'
    BY <2>1, <2>2 DEF SoloFiles, Rotating
  <2>4. RingKeys' = RingKeys /\ InUse' = InUse
    BY <2>1 DEF RingKeys, InUse
  <2>5. SoloKept'
    BY <2>1, <2>2, <2>4 DEF SoloKept, HasRead
  <2>6. SoloDates'
    BY <2>1, <2>2, <2>4 DEF SoloDates, HasRead, Dated
  <2>7. SoloPublished'
    BY <2>1, <2>2, <2>4 DEF SoloPublished, HasRead, PastHorizon
  <2> QED BY <2>3, <2>5, <2>6, <2>7 DEF Solo
<1> QED BY <1>1, <1>2, <1>3, <1>4 DEF Next

LEMMA SoloAlways == Spec => [](RingInv /\ SoloInv)
<1>1. Init => RingInv /\ SoloInv
  BY InitTypes, InitLive, InitSolo DEF RingInv, SoloInv, Solo
<1>2. RingInv /\ SoloInv /\ [Next]_vars => (RingInv /\ SoloInv)'
  BY RingStep, SoloStep
<1> QED BY <1>1, <1>2, PTL DEF Spec

-----------------------------------------------------------------------------
(* The theorems *)

\* As long as no rotation ran beside another or beside the first start, every
\* start finds a keyring that parses and its active key, whatever commands
\* were cut short before (persistKeyPEM before saveKeyRing, temp file and
\* rename).
THEOREM StartsAlwaysSucceed == Spec => []StartsSucceed
<1>1. SoloInv => StartsSucceed
  BY DEF SoloInv, SoloFiles, StartsSucceed
<1> QED BY <1>1, SoloAlways, PTL

\* A key whose rotation reported success stays in the keyring through any
\* number of later rotations (RotateKeys appends to what it read).
THEOREM StagedKeysKept == Spec => []StagedKept
<1>1. SoloInv => StagedKept
  <2> SUFFICES ASSUME SoloInv, ~overlap, NEW k \in staged
               PROVE  ring # NoFile /\ k \in KIDs(inode[ring].keys)
    BY DEF StagedKept
  <2>1. k \in KIDs(RingKeys)
    BY DEF SoloInv, SoloKept
  <2> QED BY <2>1, InKIDs DEF RingKeys
<1> QED BY <1>1, SoloAlways, PTL

\* The keyring lists the key of every running server, also of those started
\* before it was written (loadOrCreateRing, retireRingKeys).
THEOREM SignersTracked == Spec => []SignerTracked
<1>1. SoloInv => SignerTracked
  BY DEF SoloInv, SoloKept, SignerTracked, InUse
<1> QED BY <1>1, SoloAlways, PTL

\* For every lifetime and every override of the retention: a server that runs
\* on the current keyring verifies each unexpired token whose signer was
\* restarted in time (LoadKeyRetention, pruneRetiredKeys, loadPublishedKeys).
THEOREM RetentionSuffices == Spec => []RetentionCovers
<1>1. RingInv /\ SoloInv => RetentionCovers
  <2> SUFFICES ASSUME RingInv, SoloInv, ~overlap, NEW s \in Server, NEW t \in tokens,
                      server[s].pc = "up", server[s].from = ring,
                      \A k \in retired : k.kid = t.kid => t.exp - AccessTTL <= k.at + Grace
               PROVE  t.kid \in server[s].published
    BY DEF RetentionCovers, VerifyKey
  <2>1. SoloFiles /\ SoloKept /\ SoloDates /\ SoloPublished /\ HistoryOK
    BY DEF SoloInv, RingInv, BoundInv
  <2>2. t.kid \in InUse /\ t.exp \in Nat /\ clock \in Nat /\ clock < t.exp
    BY <2>1 DEF SoloKept, SoloPublished, HistoryOK, Token
  <2>3. CASE ring = NoFile
    BY <2>1, <2>2, <2>3 DEF InUse, SoloPublished
  <2>4. CASE ring # NoFile
    <3>1. PICK e \in RingKeys : e.kid = t.kid
      BY <2>2, <2>4, InKIDs DEF InUse, RingKeys
    <3>2. ~PastHorizon(e)
      <4> SUFFICES ASSUME PastHorizon(e) PROVE FALSE
        OBVIOUS
      <4>1. e \in Retiring(RingKeys) /\ e.retireAt < clock
        BY DEF PastHorizon, Retiring
      <4>2. PICK k \in retired : k.kid = e.kid /\ e.retireAt = k.at + LoadKeyRetention
        BY <2>1, <4>1 DEF SoloDates, Dated
      <4>3. k.at \in Nat
        BY <2>1, <2>2 DEF HistoryOK
      <4>4. t.exp - AccessTTL <= k.at + Grace
        BY <3>1, <4>2
      <4>5. Grace \in Int /\ Grace + AccessTTL <= LoadKeyRetention
        BY RotationAssumption DEF Grace, LoadKeyRetention
      <4> QED BY <2>2, <4>1, <4>2, <4>3, <4>4, <4>5, RetentionPositive, RotationAssumption
    <3> QED BY <2>1, <3>1, <3>2 DEF SoloPublished
  <2> QED BY <2>3, <2>4
<1> QED BY <1>1, SoloAlways, PTL
=============================================================================
