------------------------------ MODULE KeyBoot ------------------------------
(***************************************************************************)
(* First start on a key directory: persistentSigningKey and its helpers in *)
(* key.go.  Instances share the directory; a name in it refers to an       *)
(* inode, open files keep their inode when the name is removed or renamed. *)
(* A key is named by the inode it was written to.                          *)
(***************************************************************************)
EXTENDS Integers, Sequences

CONSTANTS
  Instance,     \* processes started on the shared key directory
  MaxFaults     \* bound: process deaths and write errors, at any point

ASSUME BootAssumption == MaxFaults \in Nat

NoFile == 0

VARIABLES
  inst,     \* per instance: where it is, its loop counter, its open temp file,
            \* the temp file that made it wait, and the key it signs with
  inode,    \* contents of the files ever created, in order of creation
  tmp,      \* inode named minidp-rsa.pem.tmp, or NoFile
  final,    \* inode named minidp-rsa.pem, or NoFile
  faults,   \* deaths and write errors so far
  overlap   \* history: some start began while another was under way

vars == <<inst, inode, tmp, final, faults, overlap>>

PC == {"down", "stat", "open", "await", "takeover", "generate", "write",
       "rename", "load", "up", "failed"}
Content == {"empty", "partial", "full"}
Down == [pc |-> "down", attempt |-> 0, fd |-> NoFile, saw |-> NoFile,
         key |-> NoFile]

Goto(i, pc) == inst' = [inst EXCEPT ![i].pc = pc]

-----------------------------------------------------------------------------
Starting(j) == inst[j].pc \notin {"down", "up", "failed"}

Start(i) ==
  /\ inst[i].pc = "down"
  /\ Goto(i, "stat")
  /\ overlap' = (overlap \/ \E j \in Instance \ {i} : Starting(j))
  /\ UNCHANGED <<inode, tmp, final, faults>>

\* Fault: a start generates a key without looking for one.
StatSkipped(i) ==
  /\ inst[i].pc = "stat"
  /\ Goto(i, "open")
  /\ UNCHANGED <<inode, tmp, final, faults, overlap>>

\* os.Stat(path): load the key when it is there, else try to create it.
Stat(i) ==
  /\ inst[i].pc = "stat"
  /\ Goto(i, IF final # NoFile THEN "load" ELSE "open")
  /\ UNCHANGED <<inode, tmp, final, faults, overlap>>

\* Fault: the temp file of a peer is an error.
OpenOrFail(i) ==
  /\ inst[i].pc = "open"
  /\ \/ /\ tmp = NoFile
        /\ inode' = Append(inode, "empty")
        /\ tmp' = Len(inode) + 1
        /\ inst' = [inst EXCEPT ![i].pc = "generate", ![i].fd = Len(inode) + 1]
     \/ /\ tmp # NoFile
        /\ Goto(i, "failed")
        /\ UNCHANGED <<inode, tmp>>
  /\ UNCHANGED <<final, faults, overlap>>

\* OpenFile(tmpName, O_CREATE|O_EXCL).
OpenTemp(i) ==
  /\ inst[i].pc = "open"
  /\ \/ /\ tmp = NoFile
        /\ inode' = Append(inode, "empty")
        /\ tmp' = Len(inode) + 1
        /\ inst' = [inst EXCEPT ![i].pc = "generate", ![i].fd = Len(inode) + 1]
     \/ /\ tmp # NoFile
        /\ inst' = [inst EXCEPT ![i].pc = "await", ![i].saw = tmp]
        /\ UNCHANGED <<inode, tmp>>
  /\ UNCHANGED <<final, faults, overlap>>

\* awaitFile sees the final key: next round of the loop.
Await(i) ==
  /\ inst[i].pc = "await"
  /\ final # NoFile
  /\ inst' = [inst EXCEPT ![i].pc = "stat", ![i].attempt = @ + 1]
  /\ UNCHANGED <<inode, tmp, final, faults, overlap>>

Generating(j) == inst[j].pc \in {"generate", "write", "rename"}

\* Fault: the deadline applies to the second round only.
TimeOutLate(i) ==
  /\ inst[i].pc = "await"
  /\ final = NoFile
  /\ inst[i].attempt > 0
  /\ Goto(i, "failed")
  /\ UNCHANGED <<inode, tmp, final, faults, overlap>>

\* awaitFile gives up after ten seconds.  A key takes well under that, so the
\* instance whose temp file was in the way is no longer working on it.  The
\* deadline runs from the start of the wait, whoever took over since.
TimeOut(i) ==
  /\ inst[i].pc = "await"
  /\ final = NoFile
  /\ \A j \in Instance : ~(Generating(j) /\ inst[j].fd = inst[i].saw)
  /\ Goto(i, IF inst[i].attempt = 0 THEN "takeover" ELSE "failed")
  /\ UNCHANGED <<inode, tmp, final, faults, overlap>>

\* waitForPeerKey removes the temp file by name and the loop goes on.
TakeOver(i) ==
  /\ inst[i].pc = "takeover"
  /\ tmp' = NoFile
  /\ inst' = [inst EXCEPT ![i].pc = "stat", ![i].attempt = @ + 1]
  /\ UNCHANGED <<inode, final, faults, overlap>>

\* Fault: the file is renamed before it is written in full.
RenameEarly(i) ==
  /\ inst[i].pc = "generate"
  /\ inode' = [inode EXCEPT ![inst[i].fd] = "partial"]
  /\ Goto(i, "rename")
  /\ UNCHANGED <<tmp, final, faults, overlap>>

\* generateAndPersistKey: tmp.Write goes to the open file, whatever its name.
BeginWrite(i) ==
  /\ inst[i].pc = "generate"
  /\ inode' = [inode EXCEPT ![inst[i].fd] = "partial"]
  /\ Goto(i, "write")
  /\ UNCHANGED <<tmp, final, faults, overlap>>

EndWrite(i) ==
  /\ inst[i].pc = "write"
  /\ inode' = [inode EXCEPT ![inst[i].fd] = "full"]
  /\ Goto(i, "rename")
  /\ UNCHANGED <<tmp, final, faults, overlap>>

\* Fault: the error of Write is ignored and the key is used unpersisted.
WriteErrorIgnored(i) ==
  /\ faults < MaxFaults
  /\ inst[i].pc \in {"generate", "write"}
  /\ tmp' = NoFile
  /\ inst' = [inst EXCEPT ![i].pc = "up", ![i].key = inst[i].fd]
  /\ faults' = faults + 1
  /\ UNCHANGED <<inode, final, overlap>>

\* Generation, Write, Close or Rename fails: the temp file is removed by name.
WriteFails(i) ==
  /\ faults < MaxFaults
  /\ Generating(i)
  /\ tmp' = NoFile
  /\ Goto(i, "failed")
  /\ faults' = faults + 1
  /\ UNCHANGED <<inode, final, overlap>>

\* os.Rename(tmpName, path) moves whatever the temp name refers to; the
\* instance goes on with the key it generated.
Rename(i) ==
  /\ inst[i].pc = "rename"
  /\ \/ /\ tmp # NoFile
        /\ final' = tmp
        /\ tmp' = NoFile
        /\ inst' = [inst EXCEPT ![i].pc = "up", ![i].key = inst[i].fd]
     \/ /\ tmp = NoFile
        /\ Goto(i, "failed")
        /\ UNCHANGED <<tmp, final>>
  /\ UNCHANGED <<inode, faults, overlap>>

\* loadSigningKey: a file that is not a whole PEM block is an error.
Load(i) ==
  /\ inst[i].pc = "load"
  /\ inst' = [inst EXCEPT ![i] =
       IF inode[final] = "full" THEN [@ EXCEPT !.pc = "up", !.key = final]
       ELSE [@ EXCEPT !.pc = "failed"]]
  /\ UNCHANGED <<inode, tmp, final, faults, overlap>>

\* The process dies or is stopped; it may be started again.
Crash(i) ==
  /\ inst[i].pc # "down"
  /\ faults < MaxFaults
  /\ faults' = faults + 1
  /\ inst' = [inst EXCEPT ![i] = Down]
  /\ UNCHANGED <<inode, tmp, final, overlap>>

-----------------------------------------------------------------------------
Init ==
  /\ inst = [i \in Instance |-> Down]
  /\ inode = <<>>
  /\ tmp = NoFile /\ final = NoFile
  /\ faults = 0 /\ overlap = FALSE

\* The steps an instance takes by itself.
Run(i) == \/ Start(i) \/ Stat(i) \/ OpenTemp(i) \/ Await(i) \/ TimeOut(i)
          \/ TakeOver(i) \/ BeginWrite(i) \/ EndWrite(i) \/ Rename(i) \/ Load(i)

Next == \E i \in Instance : Run(i) \/ WriteFails(i) \/ Crash(i)

\* The scheduler gives every process time, and a ten second deadline passes.
Fairness == \A i \in Instance : WF_vars(Run(i))
Spec == Init /\ [][Next]_vars
FairSpec == Spec /\ Fairness

-----------------------------------------------------------------------------
(* Properties *)

\* Names refer to files that exist, and an instance on its way to a key has
\* the file it writes to open.
TypeOK ==
  /\ inst \in [Instance -> [pc: PC, attempt: Nat, fd: Nat, saw: Nat, key: Nat]]
  /\ inode \in Seq(Content)
  /\ tmp \in 0 .. Len(inode) /\ final \in 0 .. Len(inode)
  /\ \A i \in Instance :
       /\ inst[i].fd \in 0 .. Len(inode) /\ inst[i].key \in 0 .. Len(inode)
       /\ Generating(i) => inst[i].fd # NoFile
  /\ faults \in 0 .. MaxFaults /\ overlap \in BOOLEAN

\* As long as no start began while another was under way, minidp-rsa.pem is a
\* whole key at every moment, so neither a crash nor a reader ever meets a
\* truncated one (temp file + rename in generateAndPersistKey).
FinalComplete == ~overlap /\ final # NoFile => inode[final] = "full"

\* As long as starts do not overlap, minidp-rsa.pem keeps its contents once it
\* exists: no later start, of whichever instance, replaces the key that tokens
\* were signed with (the Stat and the O_EXCL create in persistentSigningKey).
KeyStable == [][~overlap /\ final # NoFile => final' = final]_vars

\* As long as starts do not overlap, a running instance signs with the key on
\* disk, so its tokens verify after the next restart (persistentSigningKey
\* returns the key it persisted, and a failed write ends the start).
SignsWithDiskKey ==
  ~overlap => \A i \in Instance : inst[i].pc = "up" => inst[i].key = final

\* The invariant of the key directory: as long as starts do not overlap, its
\* key is whole and is the one every running instance signs with, through
\* crashes and failed writes (generateAndPersistKey, persistentSigningKey).
KeyInv == TypeOK /\ FinalComplete /\ SignsWithDiskKey

\* Every start comes to an end: nobody waits for a peer for ever
\* (awaitFile's deadline, one take-over per start).
StartsTerminate ==
  \A i \in Instance : inst[i].pc = "stat" ~> inst[i].pc \in {"up", "failed", "down"}

\* As long as nothing fails every instance comes up, however their starts
\* overlap: those that lose the race wait for the winner's key and load it
\* (awaitFile, loadSigningKey).
EveryoneUp == [](faults = 0) => \A i \in Instance : <>(inst[i].pc = "up")

\* What the comment on persistentSigningKey promises about concurrent starts:
\* one instance wins and all others load its key.
OneWinner ==
  \A i, j \in Instance :
    inst[i].pc = "up" /\ inst[j].pc = "up" => inst[i].key = inst[j].key
=============================================================================
