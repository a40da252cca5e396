--------------------------- MODULE KeyBootProofs ---------------------------
(***************************************************************************)
(* Theorems about KeyBoot, for any number of instances and any number of   *)
(* deaths and write errors.                                                *)
(***************************************************************************)
EXTENDS KeyBoot, SequenceTheorems, TLAPS

InstanceState == [pc: PC, attempt: Nat, fd: Nat, saw: Nat, key: Nat]

\* A start beyond its Stat that is not about to load: it found no key.
Creating(i) == inst[i].pc \in {"open", "await", "takeover", "generate", "write", "rename"}

\* What holds while no start began beside another.  At most one instance is
\* starting; from its Stat to its rename there is no minidp-rsa.pem, and the
\* temp file is the one it has open, whole when it is renamed.
SoloStart ==
  /\ \A i, j \in Instance : Starting(i) /\ Starting(j) => i = j
  /\ \A i \in Instance :
       /\ Creating(i) => final = NoFile
       /\ Generating(i) => inst[i].fd = tmp
       /\ inst[i].pc = "rename" => inode[tmp] = "full"
       /\ inst[i].pc = "load" => final # NoFile
       /\ inst[i].pc = "up" => final # NoFile /\ inst[i].key = final
  /\ final # NoFile => inode[final] = "full"

BootInv == TypeOK /\ (~overlap => SoloStart)

-----------------------------------------------------------------------------
(* Steps of one instance *)

\* An instance that moves: the others stay, and it has these fields.
Becomes(i, pc, attempt, fd, saw, key) ==
  /\ inst' \in [Instance -> InstanceState]
  /\ \A j \in Instance : j # i => inst'[j] = inst[j]
  /\ inst'[i].pc = pc /\ inst'[i].attempt = attempt /\ inst'[i].fd = fd
  /\ inst'[i].saw = saw /\ inst'[i].key = key

LEMMA Moves ==
  ASSUME inst \in [Instance -> InstanceState], NEW i \in Instance, NEW pc \in PC, NEW n \in Nat
  PROVE  LET x == inst[i] IN
         /\ Goto(i, pc) => Becomes(i, pc, x.attempt, x.fd, x.saw, x.key)
         /\ inst' = [inst EXCEPT ![i].pc = pc, ![i].fd = n]
              => Becomes(i, pc, x.attempt, n, x.saw, x.key)
         /\ inst' = [inst EXCEPT ![i].pc = pc, ![i].saw = n]
              => Becomes(i, pc, x.attempt, x.fd, n, x.key)
         /\ inst' = [inst EXCEPT ![i].pc = pc, ![i].attempt = @ + 1]
              => Becomes(i, pc, x.attempt + 1, x.fd, x.saw, x.key)
         /\ inst' = [inst EXCEPT ![i].pc = pc, ![i].key = n]
              => Becomes(i, pc, x.attempt, x.fd, x.saw, n)
         /\ inst' = [inst EXCEPT ![i] = Down]
              => Becomes(i, "down", 0, NoFile, NoFile, NoFile)
<1> DEFINE x == inst[i]
<1>0. x \in InstanceState /\ x.attempt + 1 \in Nat
  BY DEF InstanceState
<1>1. ASSUME NEW y \in InstanceState, inst' = [inst EXCEPT ![i] = y]
      PROVE  /\ inst' \in [Instance -> InstanceState] /\ inst'[i] = y
             /\ \A j \in Instance : j # i => inst'[j] = inst[j]
  BY <1>1
<1>2. Goto(i, pc) => Becomes(i, pc, x.attempt, x.fd, x.saw, x.key)
  <2> DEFINE y == [x EXCEPT !.pc = pc]
  <2>1. /\ y \in InstanceState /\ y.pc = pc /\ y.attempt = x.attempt /\ y.fd = x.fd
        /\ y.saw = x.saw /\ y.key = x.key
    BY <1>0 DEF InstanceState
  <2>2. Goto(i, pc) => inst' = [inst EXCEPT ![i] = y]
    BY DEF Goto
  <2> HIDE DEF y
  <2> QED BY <1>1, <2>1, <2>2 DEF Becomes
<1>3. inst' = [inst EXCEPT ![i].pc = pc, ![i].fd = n]
        => Becomes(i, pc, x.attempt, n, x.saw, x.key)
  <2> DEFINE y == [x EXCEPT !.pc = pc, !.fd = n]
  <2>1. /\ y \in InstanceState /\ y.pc = pc /\ y.attempt = x.attempt /\ y.fd = n
        /\ y.saw = x.saw /\ y.key = x.key
    BY <1>0 DEF InstanceState
  <2>2. [inst EXCEPT ![i].pc = pc, ![i].fd = n] = [inst EXCEPT ![i] = y]
    BY <1>0
  <2> HIDE DEF y
  <2> QED BY <1>1, <2>1, <2>2 DEF Becomes
<1>4. inst' = [inst EXCEPT ![i].pc = pc, ![i].saw = n]
        => Becomes(i, pc, x.attempt, x.fd, n, x.key)
  <2> DEFINE y == [x EXCEPT !.pc = pc, !.saw = n]
  <2>1. /\ y \in InstanceState /\ y.pc = pc /\ y.attempt = x.attempt /\ y.fd = x.fd
        /\ y.saw = n /\ y.key = x.key
    BY <1>0 DEF InstanceState
  <2>2. [inst EXCEPT ![i].pc = pc, ![i].saw = n] = [inst EXCEPT ![i] = y]
    BY <1>0
  <2> HIDE DEF y
  <2> QED BY <1>1, <2>1, <2>2 DEF Becomes
<1>5. inst' = [inst EXCEPT ![i].pc = pc, ![i].attempt = @ + 1]
        => Becomes(i, pc, x.attempt + 1, x.fd, x.saw, x.key)
  <2> DEFINE y == [x EXCEPT !.pc = pc, !.attempt = x.attempt + 1]
  <2>1. /\ y \in InstanceState /\ y.pc = pc /\ y.attempt = x.attempt + 1 /\ y.fd = x.fd
        /\ y.saw = x.saw /\ y.key = x.key
    BY <1>0 DEF InstanceState
  <2>2. [inst EXCEPT ![i].pc = pc, ![i].attempt = @ + 1] = [inst EXCEPT ![i] = y]
    BY <1>0
  <2> HIDE DEF y
  <2> QED BY <1>1, <2>1, <2>2 DEF Becomes
<1>6. inst' = [inst EXCEPT ![i].pc = pc, ![i].key = n]
        => Becomes(i, pc, x.attempt, x.fd, x.saw, n)
  <2> DEFINE y == [x EXCEPT !.pc = pc, !.key = n]
  <2>1. /\ y \in InstanceState /\ y.pc = pc /\ y.attempt = x.attempt /\ y.fd = x.fd
        /\ y.saw = x.saw /\ y.key = n
    BY <1>0 DEF InstanceState
  <2>2. [inst EXCEPT ![i].pc = pc, ![i].key = n] = [inst EXCEPT ![i] = y]
    BY <1>0
  <2> HIDE DEF y
  <2> QED BY <1>1, <2>1, <2>2 DEF Becomes
<1>7. inst' = [inst EXCEPT ![i] = Down] => Becomes(i, "down", 0, NoFile, NoFile, NoFile)
  BY <1>1 DEF Becomes, Down, InstanceState, PC, NoFile
<1> QED BY <1>2, <1>3, <1>4, <1>5, <1>6, <1>7

\* Writing to an open file changes that file only; creating one, none.
LEMMA WriteFile ==
  ASSUME inode \in Seq(Content), NEW f \in 1 .. Len(inode), NEW c \in Content,
         inode' = [inode EXCEPT ![f] = c]
  PROVE  /\ inode' \in Seq(Content) /\ Len(inode') = Len(inode) /\ inode'[f] = c
         /\ \A g \in 1 .. Len(inode) : g # f => inode'[g] = inode[g]
  BY ExceptSeq

LEMMA CreateFile ==
  ASSUME inode \in Seq(Content), inode' = Append(inode, "empty")
  PROVE  /\ inode' \in Seq(Content) /\ Len(inode') = Len(inode) + 1
         /\ \A g \in 1 .. Len(inode) : inode'[g] = inode[g]
  BY DEF Content

\* The parts of the type invariant by their effect on a step of one instance.
LEMMA TypeStep ==
  ASSUME TypeOK, NEW i \in Instance, NEW pc, NEW attempt, NEW fd, NEW saw, NEW key,
         Becomes(i, pc, attempt, fd, saw, key),
         inode' \in Seq(Content), Len(inode) <= Len(inode'),
         tmp' \in 0 .. Len(inode'), final' \in 0 .. Len(inode'),
         fd \in 0 .. Len(inode'), key \in 0 .. Len(inode'),
         pc \in {"generate", "write", "rename"} => fd # NoFile,
         faults' \in 0 .. MaxFaults, overlap' \in BOOLEAN
  PROVE  TypeOK'
<1>1. Len(inode) \in Nat /\ Len(inode') \in Nat
  BY DEF TypeOK
<1>2. 0 .. Len(inode) \subseteq 0 .. Len(inode')
  BY <1>1
<1>3. ASSUME NEW j \in Instance
      PROVE  /\ inst'[j].fd \in 0 .. Len(inode') /\ inst'[j].key \in 0 .. Len(inode')
             /\ Generating(j)' => inst'[j].fd # NoFile
  <2>1. CASE j = i
    BY <2>1 DEF Becomes, Generating
  <2>2. CASE j # i
    BY <1>2, <2>2 DEF Becomes, TypeOK, Generating
  <2> QED BY <2>1, <2>2
<1> QED BY <1>3 DEF TypeOK, Becomes, InstanceState

\* The one start under way may do what leaves minidp-rsa.pem absent or whole.
LEMMA SoloStep ==
  ASSUME NEW i \in Instance, NEW pc, NEW attempt, NEW fd, NEW saw, NEW key,
         Becomes(i, pc, attempt, fd, saw, key),
         \A j \in Instance : j # i => /\ inst[j].pc \in {"down", "up", "failed"}
                                      /\ inst[j].pc = "up" => inst[j].key = final',
         final' = NoFile => \A j \in Instance : j # i => inst[j].pc # "up",
         pc \in {"open", "await", "takeover", "generate", "write", "rename"} => final' = NoFile,
         pc \in {"generate", "write", "rename"} => fd = tmp',
         pc = "rename" => inode'[tmp'] = "full",
         pc = "load" => final' # NoFile,
         pc = "up" => final' # NoFile /\ key = final',
         final' # NoFile => inode'[final'] = "full"
  PROVE  SoloStart'
<1>0. \A j \in Instance : j # i => inst'[j] = inst[j]
  BY DEF Becomes
<1>1. ASSUME NEW j \in Instance, j # i
      PROVE  inst'[j] = inst[j] /\ ~(Starting(j)') /\ ~(Creating(j)') /\ ~(Generating(j)')
  <2>1. inst'[j] = inst[j] /\ inst'[j].pc \in {"down", "up", "failed"}
    BY <1>0, <1>1
  <2> QED BY <2>1 DEF Starting, Creating, Generating
<1>2. \A p, q \in Instance : Starting(p)' /\ Starting(q)' => p = q
  BY <1>1
<1>3. ASSUME NEW j \in Instance
      PROVE  /\ Creating(j)' => final' = NoFile
             /\ Generating(j)' => inst'[j].fd = tmp'
             /\ inst'[j].pc = "rename" => inode'[tmp'] = "full"
             /\ inst'[j].pc = "load" => final' # NoFile
             /\ inst'[j].pc = "up" => final' # NoFile /\ inst'[j].key = final'
  <2>1. CASE j = i
    BY <2>1 DEF Becomes, Creating, Generating
  <2>2. CASE j # i
    <3>1. inst'[j] = inst[j] /\ inst'[j].pc \in {"down", "up", "failed"}
      BY <1>0, <2>2
    <3>2. inst'[j].pc = "up" => final' # NoFile /\ inst'[j].key = final'
      BY <2>2, <3>1
    <3> QED BY <1>1, <2>2, <3>1, <3>2
  <2> QED BY <2>1, <2>2
<1> QED BY <1>2, <1>3 DEF SoloStart

\* Every step of an instance preserves the invariant.
LEMMA InstanceStep ==
  ASSUME BootInv, NEW i \in Instance, Run(i) \/ WriteFails(i) \/ Crash(i)
  PROVE  BootInv'
<1> DEFINE x == inst[i]
<1>t. /\ TypeOK /\ inst \in [Instance -> InstanceState] /\ inode \in Seq(Content)
      /\ Len(inode) \in Nat /\ tmp \in 0 .. Len(inode) /\ final \in 0 .. Len(inode)
      /\ x.fd \in 0 .. Len(inode) /\ x.key \in 0 .. Len(inode) /\ NoFile \in 0 .. Len(inode)
      /\ tmp \in Nat /\ final \in Nat /\ x.fd \in Nat
      /\ faults \in 0 .. MaxFaults /\ overlap \in BOOLEAN
      /\ Generating(i) => x.fd \in 1 .. Len(inode)
      /\ \A j \in Instance : inst[j].pc \in PC
  BY DEF BootInv, TypeOK, InstanceState, NoFile
<1>o. ASSUME ~overlap, Starting(i)
      PROVE  /\ SoloStart
             /\ \A j \in Instance : j # i =>
                  /\ inst[j].pc \in {"down", "up", "failed"}
                  /\ inst[j].pc = "up" => inst[j].key = final /\ final # NoFile
  BY <1>o DEF BootInv, SoloStart, Starting
<1>f. \A c \in {"empty", "partial", "full"} : c \in Content
  BY DEF Content
<1> HIDE DEF x
<1>1. CASE Start(i)
  <2>1. /\ UNCHANGED <<inode, tmp, final, faults>> /\ x.pc = "down"
        /\ overlap' = (overlap \/ \E j \in Instance \ {i} : Starting(j))
        /\ Becomes(i, "stat", x.attempt, x.fd, x.saw, x.key)
    BY <1>t, <1>1, Moves DEF Start, PC, x
  <2>2. TypeOK'
    BY <1>t, <2>1, TypeStep
  <2>3. ASSUME ~overlap' PROVE SoloStart'
    <3>1. ~overlap /\ SoloStart /\ \A j \in Instance : j # i => ~Starting(j)
      BY <2>1, <2>3 DEF BootInv
    <3>2. \A j \in Instance : j # i => /\ inst[j].pc \in {"down", "up", "failed"}
                                       /\ inst[j].pc = "up" => inst[j].key = final /\ final # NoFile
      BY <3>1 DEF SoloStart, Starting
    <3> QED BY <2>1, <3>1, <3>2, SoloStep DEF SoloStart
  <2> QED BY <2>2, <2>3 DEF BootInv
<1>2. CASE Stat(i)
  <2>1. /\ UNCHANGED <<inode, tmp, final, faults, overlap>> /\ x.pc = "stat"
        /\ Becomes(i, IF final # NoFile THEN "load" ELSE "open", x.attempt, x.fd, x.saw, x.key)
    BY <1>t, <1>2, Moves DEF Stat, PC, x
  <2>2. TypeOK'
    BY <1>t, <2>1, TypeStep
  <2>3. ASSUME ~overlap' PROVE SoloStart'
    <3>1. ~overlap /\ Starting(i)
      BY <2>1, <2>3 DEF Starting, x
    <3> QED BY <1>o, <2>1, <3>1, SoloStep DEF SoloStart
  <2> QED BY <2>2, <2>3 DEF BootInv
<1>3. CASE OpenTemp(i)
  <2>0. UNCHANGED <<final, faults, overlap>> /\ x.pc = "open"
    BY <1>3 DEF OpenTemp, x
  <2>1. CASE tmp = NoFile
    <3>1. /\ inode' \in Seq(Content) /\ Len(inode') = Len(inode) + 1 /\ tmp' = Len(inode) + 1
          /\ \A g \in 1 .. Len(inode) : inode'[g] = inode[g]
      BY <1>3, <1>t, <2>1, CreateFile DEF OpenTemp
    <3>2. Becomes(i, "generate", x.attempt, tmp', x.saw, x.key)
      <4>1. inst' = [inst EXCEPT ![i].pc = "generate", ![i].fd = tmp'] /\ tmp' \in Nat
        <5>1. inst' = [inst EXCEPT ![i].pc = "generate", ![i].fd = Len(inode) + 1]
          BY <1>3, <2>1 DEF OpenTemp
        <5> QED BY <1>t, <3>1, <5>1
      <4>2. "generate" \in PC
        BY DEF PC
      <4> QED BY <1>t, <4>1, <4>2, Moves DEF x
    <3>3. /\ Len(inode) <= Len(inode') /\ tmp' \in 0 .. Len(inode') /\ final' \in 0 .. Len(inode')
          /\ x.key \in 0 .. Len(inode') /\ tmp' # NoFile
      BY <1>t, <2>0, <3>1 DEF NoFile
    <3>4. TypeOK'
      BY <1>t, <2>0, <3>1, <3>2, <3>3, TypeStep
    <3>5. ASSUME ~overlap' PROVE SoloStart'
      <4>1. ~overlap /\ Starting(i)
        BY <2>0, <3>5 DEF Starting, x
      <4>2. final' = NoFile
        BY <1>o, <2>0, <4>1 DEF SoloStart, Creating, x
      <4> QED BY <1>o, <2>0, <3>2, <4>1, <4>2, SoloStep
    <3> QED BY <3>4, <3>5 DEF BootInv
  <2>2. CASE tmp # NoFile
    <3>1. UNCHANGED <<inode, tmp>> /\ Becomes(i, "await", x.attempt, x.fd, tmp, x.key)
      <4>1. UNCHANGED <<inode, tmp>> /\ inst' = [inst EXCEPT ![i].pc = "await", ![i].saw = tmp]
        BY <1>3, <2>2 DEF OpenTemp
      <4> QED BY <1>t, <4>1, Moves DEF PC, x
    <3>2. TypeOK'
      BY <1>t, <2>0, <3>1, TypeStep
    <3>3. ASSUME ~overlap' PROVE SoloStart'
      <4>1. ~overlap /\ Starting(i)
        BY <2>0, <3>3 DEF Starting, x
      <4>2. final' = NoFile
        BY <1>o, <2>0, <4>1 DEF SoloStart, Creating, x
      <4> QED BY <1>o, <2>0, <3>1, <4>1, <4>2, SoloStep
    <3> QED BY <3>2, <3>3 DEF BootInv
  <2> QED BY <2>1, <2>2
<1>4. CASE Await(i)
  <2>1. /\ UNCHANGED <<inode, tmp, final, faults, overlap>> /\ x.pc = "await"
        /\ Becomes(i, "stat", x.attempt + 1, x.fd, x.saw, x.key)
    BY <1>t, <1>4, Moves DEF Await, PC, x
  <2>2. TypeOK'
    BY <1>t, <2>1, TypeStep
  <2>3. ASSUME ~overlap' PROVE SoloStart'
    <3>1. ~overlap /\ Starting(i)
      BY <2>1, <2>3 DEF Starting, x
    <3> QED BY <1>o, <2>1, <3>1, SoloStep DEF SoloStart
  <2> QED BY <2>2, <2>3 DEF BootInv
<1>5. CASE TimeOut(i)
  <2>1. /\ UNCHANGED <<inode, tmp, final, faults, overlap>> /\ x.pc = "await"
        /\ \E pc \in {"takeover", "failed"} : Becomes(i, pc, x.attempt, x.fd, x.saw, x.key)
    <3>1. \E pc \in {"takeover", "failed"} : Goto(i, pc)
      BY <1>5 DEF TimeOut
    <3> QED BY <1>t, <1>5, <3>1, Moves DEF TimeOut, PC, x
  <2>2. TypeOK'
    BY <1>t, <2>1, TypeStep
  <2>3. ASSUME ~overlap' PROVE SoloStart'
    <3>1. ~overlap /\ Starting(i)
      BY <2>1, <2>3 DEF Starting, x
    <3>2. final' = NoFile
      BY <1>o, <2>1, <3>1 DEF SoloStart, Creating, x
    <3> QED BY <1>o, <2>1, <3>1, <3>2, SoloStep
  <2> QED BY <2>2, <2>3 DEF BootInv
<1>6. CASE TakeOver(i)
  <2>1. /\ UNCHANGED <<inode, final, faults, overlap>> /\ x.pc = "takeover" /\ tmp' = NoFile
        /\ Becomes(i, "stat", x.attempt + 1, x.fd, x.saw, x.key)
    BY <1>t, <1>6, Moves DEF TakeOver, PC, x
  <2>2. TypeOK'
    BY <1>t, <2>1, TypeStep
  <2>3. ASSUME ~overlap' PROVE SoloStart'
    <3>1. ~overlap /\ Starting(i)
      BY <2>1, <2>3 DEF Starting, x
    <3> QED BY <1>o, <2>1, <3>1, SoloStep DEF SoloStart
  <2> QED BY <2>2, <2>3 DEF BootInv
<1>7. CASE BeginWrite(i) \/ EndWrite(i)
  <2>1. /\ UNCHANGED <<tmp, final, faults, overlap>> /\ x.pc \in {"generate", "write"}
        /\ Generating(i)
    BY <1>7 DEF BeginWrite, EndWrite, Generating, x
  <2>2. PICK pc \in PC, c \in Content :
          /\ inode' = [inode EXCEPT ![x.fd] = c]
          /\ Becomes(i, pc, x.attempt, x.fd, x.saw, x.key)
          /\ pc = "write" \/ (pc = "rename" /\ c = "full")
    <3>1. CASE BeginWrite(i)
      <4>1. inode' = [inode EXCEPT ![x.fd] = "partial"] /\ Goto(i, "write")
        BY <3>1 DEF BeginWrite, x
      <4>2. Becomes(i, "write", x.attempt, x.fd, x.saw, x.key)
        BY <1>t, <4>1, Moves DEF PC, x
      <4> QED BY <1>f, <4>1, <4>2 DEF PC
    <3>2. CASE EndWrite(i)
      <4>1. inode' = [inode EXCEPT ![x.fd] = "full"] /\ Goto(i, "rename")
        BY <3>2 DEF EndWrite, x
      <4>2. Becomes(i, "rename", x.attempt, x.fd, x.saw, x.key)
        BY <1>t, <4>1, Moves DEF PC, x
      <4> QED BY <1>f, <4>1, <4>2 DEF PC
    <3> QED BY <1>7, <3>1, <3>2
  <2>3. /\ inode' \in Seq(Content) /\ Len(inode') = Len(inode) /\ inode'[x.fd] = c
        /\ x.fd # NoFile
    BY <1>t, <2>1, <2>2, WriteFile DEF NoFile
  <2>4. TypeOK'
    BY <1>t, <2>1, <2>2, <2>3, TypeStep
  <2>5. ASSUME ~overlap' PROVE SoloStart'
    <3>1. ~overlap /\ Starting(i) /\ Creating(i)
      BY <2>1, <2>5 DEF Starting, Creating, x
    <3>2. final' = NoFile /\ x.fd = tmp'
      BY <1>o, <2>1, <3>1 DEF SoloStart, x
    <3> QED BY <1>o, <2>1, <2>2, <2>3, <3>1, <3>2, SoloStep
  <2> QED BY <2>4, <2>5 DEF BootInv
<1>8. CASE WriteFails(i)
  <2>1. /\ UNCHANGED <<inode, final, overlap>> /\ tmp' = NoFile
        /\ Generating(i) /\ faults' \in 0 .. MaxFaults
        /\ Becomes(i, "failed", x.attempt, x.fd, x.saw, x.key)
    <3>1. Becomes(i, "failed", x.attempt, x.fd, x.saw, x.key)
      BY <1>t, <1>8, Moves DEF WriteFails, PC, x
    <3>2. faults' \in 0 .. MaxFaults
      BY <1>t, <1>8, BootAssumption DEF WriteFails
    <3> QED BY <1>8, <3>1, <3>2 DEF WriteFails
  <2>2. TypeOK'
    BY <1>t, <2>1, TypeStep
  <2>3. ASSUME ~overlap' PROVE SoloStart'
    <3>1. ~overlap /\ Starting(i) /\ Creating(i)
      BY <2>1, <2>3 DEF Starting, Creating, Generating
    <3>2. final' = NoFile
      BY <1>o, <2>1, <3>1 DEF SoloStart
    <3> QED BY <1>o, <2>1, <3>1, <3>2, SoloStep
  <2> QED BY <2>2, <2>3 DEF BootInv
<1>9. CASE Rename(i)
  <2>0. UNCHANGED <<inode, faults, overlap>> /\ x.pc = "rename" /\ tmp' = NoFile
    BY <1>9 DEF Rename, x
  <2>1. CASE tmp # NoFile
    <3>1. final' = tmp /\ Becomes(i, "up", x.attempt, x.fd, x.saw, x.fd)
      <4>1. final' = tmp /\ inst' = [inst EXCEPT ![i].pc = "up", ![i].key = x.fd]
        BY <1>9, <2>1 DEF Rename, x
      <4> QED BY <1>t, <4>1, Moves DEF PC, x
    <3>2. TypeOK'
      BY <1>t, <2>0, <3>1, TypeStep
    <3>3. ASSUME ~overlap' PROVE SoloStart'
      <4>1. ~overlap /\ Starting(i) /\ Creating(i) /\ Generating(i)
        BY <2>0, <3>3 DEF Starting, Creating, Generating, x
      <4>2. final = NoFile /\ x.fd = tmp /\ inode[tmp] = "full"
        BY <1>o, <2>0, <4>1 DEF SoloStart, x
      <4> QED BY <1>o, <2>0, <2>1, <3>1, <4>1, <4>2, SoloStep
    <3> QED BY <3>2, <3>3 DEF BootInv
  <2>2. CASE tmp = NoFile
    <3>1. final' = final /\ Becomes(i, "failed", x.attempt, x.fd, x.saw, x.key)
      <4>1. final' = final /\ Goto(i, "failed")
        BY <1>9, <2>2 DEF Rename
      <4> QED BY <1>t, <4>1, Moves DEF PC, x
    <3>2. TypeOK'
      BY <1>t, <2>0, <3>1, TypeStep
    <3>3. ASSUME ~overlap' PROVE SoloStart'
      <4>1. ~overlap /\ Starting(i)
        BY <2>0, <3>3 DEF Starting, x
      <4> QED BY <1>o, <2>0, <3>1, <4>1, SoloStep DEF SoloStart
    <3> QED BY <3>2, <3>3 DEF BootInv
  <2> QED BY <2>1, <2>2
<1>10. CASE Load(i)
  <2>0. UNCHANGED <<inode, tmp, final, faults, overlap>> /\ x.pc = "load"
    BY <1>10 DEF Load, x
  <2>1. \/ Becomes(i, "up", x.attempt, x.fd, x.saw, final)
        \/ Becomes(i, "failed", x.attempt, x.fd, x.saw, x.key)
    <3>1. CASE inode[final] = "full"
      <4>1. inst' = [inst EXCEPT ![i].pc = "up", ![i].key = final]
        BY <1>10, <1>t, <3>1 DEF Load
      <4> QED BY <1>t, <4>1, Moves DEF PC, x
    <3>2. CASE inode[final] # "full"
      <4>1. Goto(i, "failed")
        BY <1>10, <1>t, <3>2 DEF Load, Goto
      <4> QED BY <1>t, <4>1, Moves DEF PC, x
    <3> QED BY <3>1, <3>2
  <2>2. TypeOK'
    BY <1>t, <2>0, <2>1, TypeStep
  <2>3. ASSUME ~overlap' PROVE SoloStart'
    <3>1. ~overlap /\ Starting(i)
      BY <2>0, <2>3 DEF Starting, x
    <3>2. final # NoFile
      BY <1>o, <2>0, <3>1 DEF SoloStart, x
    <3> QED BY <1>o, <2>0, <2>1, <3>1, <3>2, SoloStep DEF SoloStart
  <2> QED BY <2>2, <2>3 DEF BootInv
<1>11. CASE Crash(i)
  <2>1. /\ UNCHANGED <<inode, tmp, final, overlap>> /\ faults' \in 0 .. MaxFaults
        /\ Becomes(i, "down", 0, NoFile, NoFile, NoFile)
    <3>1. Becomes(i, "down", 0, NoFile, NoFile, NoFile)
      BY <1>t, <1>11, Moves DEF Crash, PC
    <3>2. faults' \in 0 .. MaxFaults
      BY <1>t, <1>11, BootAssumption DEF Crash
    <3> QED BY <1>11, <3>1, <3>2 DEF Crash
  <2>2. TypeOK'
    BY <1>t, <2>1, TypeStep
  <2>3. ASSUME ~overlap' PROVE SoloStart'
    <3>1. SoloStart
      BY <2>1, <2>3 DEF BootInv
    <3>2. \A j \in Instance :
            /\ Starting(j)' => Starting(j)
            /\ Creating(j)' => Creating(j)
            /\ Generating(j)' => Generating(j) /\ inst'[j] = inst[j]
            /\ inst'[j].pc \in {"rename", "load", "up"} => inst'[j] = inst[j]
      BY <2>1 DEF Becomes, Starting, Creating, Generating
    <3> QED BY <2>1, <3>1, <3>2 DEF SoloStart
  <2> QED BY <2>2, <2>3 DEF BootInv
<1> QED BY <1>1, <1>2, <1>3, <1>4, <1>5, <1>6, <1>7, <1>8, <1>9, <1>10, <1>11 DEF Run

LEMMA InitBoot == Init => BootInv
<1> SUFFICES ASSUME Init PROVE BootInv
  OBVIOUS
<1>1. Down \in InstanceState /\ Down.pc = "down" /\ Down.fd = NoFile /\ Down.key = NoFile
  BY DEF Down, InstanceState, PC, NoFile
<1>2. inst \in [Instance -> InstanceState] /\ \A i \in Instance : inst[i] = Down
  BY <1>1 DEF Init
<1>3. TypeOK
  <2>1. inode \in Seq(Content) /\ Len(inode) = 0 /\ 0 \in 0 .. MaxFaults
    BY BootAssumption DEF Init
  <2>2. \A i \in Instance : /\ inst[i].fd \in 0 .. Len(inode) /\ inst[i].key \in 0 .. Len(inode)
                            /\ ~Generating(i)
    <3>1. NoFile \in 0 .. Len(inode)
      BY <2>1 DEF NoFile
    <3> QED BY <1>1, <1>2, <3>1 DEF Generating
  <2>3. tmp \in 0 .. Len(inode) /\ final \in 0 .. Len(inode) /\ faults = 0
    BY <2>1 DEF Init, NoFile
  <2>4. overlap \in BOOLEAN
    BY Zenon DEF Init
  <2> QED BY <1>2, <2>1, <2>2, <2>3, <2>4 DEF TypeOK, InstanceState
<1>4. SoloStart
  BY <1>1, <1>2 DEF Init, SoloStart, Starting, Creating, Generating
<1> QED BY <1>3, <1>4 DEF BootInv

LEMMA BootStep ==
  ASSUME BootInv, [Next]_vars
  PROVE  BootInv'
<1>1. CASE Next
  BY <1>1, InstanceStep DEF Next
<1>2. CASE UNCHANGED vars
  <2>1. UNCHANGED <<inst, inode, tmp, final, faults, overlap>>
    BY <1>2 DEF vars
  <2>2. TypeOK'
    BY <2>1 DEF BootInv, TypeOK, Generating
  <2>3. ~overlap' => SoloStart'
    BY <2>1 DEF BootInv, SoloStart, Starting, Creating, Generating
  <2> QED BY <2>2, <2>3 DEF BootInv
<1> QED BY <1>1, <1>2

LEMMA BootAlways == Spec => []BootInv
<1>1. BootInv /\ [Next]_vars => BootInv'
  BY BootStep
<1> QED BY <1>1, InitBoot, PTL DEF Spec

\* Through any sequence of crashes, failed writes and restarts, one start at a
\* time: minidp-rsa.pem is whole whenever it is there and every running
\* instance signs with it (generateAndPersistKey, persistentSigningKey).
THEOREM DiskKeyWholeAndUsed == Spec => []KeyInv
<1>1. BootInv => KeyInv
  BY DEF BootInv, SoloStart, KeyInv, FinalComplete, SignsWithDiskKey
<1> QED BY <1>1, BootAlways, PTL

\* The key file is never replaced while starts do not overlap: a start that
\* found none holds the only temp file until it renames it (the Stat and the
\* O_EXCL create in persistentSigningKey).
THEOREM DiskKeyStable == Spec => KeyStable
<1>1. ASSUME BootInv, [Next]_vars
      PROVE  [~overlap /\ final # NoFile => final' = final]_vars
  <2> SUFFICES ASSUME Next, ~overlap, final # NoFile PROVE final' = final
    BY <1>1
  <2>1. PICK i \in Instance : Run(i) \/ WriteFails(i) \/ Crash(i)
    BY DEF Next
  <2>2. CASE Rename(i)
    <3>1. Creating(i)
      BY <2>2 DEF Rename, Creating
    <3> QED BY <1>1, <3>1 DEF BootInv, SoloStart
  <2>3. CASE ~Rename(i)
    BY <2>1, <2>3 DEF Run, Start, Stat, OpenTemp, Await, TimeOut, TakeOver, BeginWrite, EndWrite,
                     Load, WriteFails, Crash
  <2> QED BY <2>2, <2>3
<1> QED BY <1>1, BootAlways, PTL DEF KeyStable, Spec
=============================================================================
