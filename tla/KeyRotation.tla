---------------------------- MODULE KeyRotation ----------------------------
(***************************************************************************)
(* Signing-key rotation: RotateKeys (the rotate-keys command) writes the   *)
(* keyring in the key directory, keySetFromDir reads and prunes it when a  *)
(* server starts, and the running servers sign with what they loaded.      *)
(* Commands and servers are processes that share only the directory.       *)
(*                                                                         *)
(* Every rotated key has a file name of its own (its thumbprint), so       *)
(* persistKeyPEM appears as one step, the rename that completes it.  The   *)
(* keyring and its temp file are names that refer to inodes.  The first    *)
(* start on an empty directory, in detail, is module KeyBoot.              *)
(***************************************************************************)
EXTENDS Integers, Sequences, FiniteSets

CONSTANTS
  Server,      \* server processes on the key directory
  Rotator,     \* rotate-keys commands
  AccessTTL,   \* IDP_ACCESS_TOKEN_TTL: lifetime of an access or id token
  RefreshTTL,  \* IDP_REFRESH_TOKEN_TTL
  Skew,        \* the clock-skew margin
  Override,    \* IDP_KEY_RETENTION, or Unset
  MaxKeys,     \* bound: rotated keys generated
  MaxClock     \* bound: the clock stops here

ASSUME RotationAssumption ==
  /\ AccessTTL \in Nat \ {0} /\ RefreshTTL \in Nat \ {0}
  /\ Skew \in Nat /\ Override \in Nat
  /\ MaxKeys \in Nat /\ MaxClock \in Nat

VARIABLES
  clock,
  pem,      \* kids whose PEM file is in the directory
  inode,    \* contents of the keyring files ever created
  ring,     \* inode named keyring.json, or NoFile
  tmp,      \* inode named keyring.json.tmp, or NoFile
  rotator, server,
  tokens,   \* tokens signed and not expired
  made,     \* number of rotated keys generated
  staged,   \* kids of the rotations that reported success
  retired,  \* history: when a kid was first retiring in keyring.json
  overlap   \* history: a rotation ran beside another or beside the first start

disk == <<pem, inode, ring, tmp>>
vars == <<clock, disk, rotator, server, tokens, made, staged, retired, overlap>>

NoFile == 0
Unset  == 0
Legacy == 0             \* kid minidp-1, file minidp-rsa.pem
KID    == Nat

\* keyringEntry; retire_at is the zero time of an active entry.
KeyringEntry == [kid: KID, state: {"active", "retiring"}, retireAt: Nat]

\* What a keyring file holds: nothing yet, a document, or bytes of two
\* documents that are not JSON.
Content == [kind: {"empty", "doc", "torn"}, keys: SUBSET KeyringEntry]
Empty == [kind |-> "empty", keys |-> {}]
Torn  == [kind |-> "torn", keys |-> {}]
Doc(keys) == [kind |-> "doc", keys |-> keys]

Active(keys) == {e \in keys : e.state = "active"}
KIDs(keys) == {e.kid : e \in keys}

RotatorState == [pc: {"idle", "adopt", "generate", "open", "write", "rename"},
                 keys: SUBSET KeyringEntry, kid: KID, fd: Nat]
ServerState == [pc: {"down", "legacy", "load", "up", "failed"},
                keys: SUBSET KeyringEntry, from: Nat,
                active: KID, published: SUBSET KID]
Token == [kid: KID, exp: Nat]

NoRotation == [pc |-> "idle", keys |-> {}, kid |-> Legacy, fd |-> NoFile]
Down == [pc |-> "down", keys |-> {}, from |-> NoFile,
         active |-> Legacy, published |-> {}]

-----------------------------------------------------------------------------
(* RotateKeys *)

\* Fault: the lifetime of the last access tokens is forgotten.
RetentionWithoutAccess ==
  IF Override # Unset THEN Override ELSE RefreshTTL + Skew

\* LoadKeyRetention; envInt refuses values that are not positive.
LoadKeyRetention ==
  IF Override # Unset THEN Override ELSE AccessTTL + RefreshTTL + Skew

Rotating(r) == rotator[r].pc # "idle"

\* retireRingKeys: the active entries retire, the others keep their horizon.
RetireRingKeys(keys, retireAt) ==
  {IF e.state = "active"
   THEN [e EXCEPT !.state = "retiring", !.retireAt = retireAt] ELSE e : e \in keys}

\* readKeyRing in loadOrCreateRing, then retireRingKeys.  A keyring that does
\* not parse is an error and the command ends.
ReadRing(r) ==
  /\ rotator[r].pc = "idle" /\ made < MaxKeys
  /\ \/ ring = NoFile /\ rotator' = [rotator EXCEPT ![r].pc = "adopt"]
     \/ /\ ring # NoFile /\ inode[ring].kind = "doc"
        /\ rotator' = [rotator EXCEPT ![r].pc = "generate",
             ![r].keys = RetireRingKeys(inode[ring].keys, clock + LoadKeyRetention)]
  /\ overlap' = (overlap \/ \E q \in Rotator : Rotating(q))
  /\ UNCHANGED <<clock, disk, server, tokens, made, staged, retired>>

\* Fault: a fresh keyring starts empty although there is a legacy key.
AdoptNothing(r) ==
  /\ rotator[r].pc = "adopt"
  /\ rotator' = [rotator EXCEPT ![r].pc = "generate", ![r].keys = {}]
  /\ UNCHANGED <<clock, disk, server, tokens, made, staged, retired, overlap>>

\* No keyring: loadOrCreateRing stats the legacy key and adopts it.
AdoptLegacy(r) ==
  /\ rotator[r].pc = "adopt"
  /\ rotator' = [rotator EXCEPT ![r].pc = "generate",
       ![r].keys = {[kid |-> k, state |-> "retiring",
                     retireAt |-> clock + LoadKeyRetention] : k \in pem \cap {Legacy}}]
  /\ UNCHANGED <<clock, disk, server, tokens, made, staged, retired, overlap>>

\* Fault: the keyring is saved before the key it names.
KeyNotPersisted(r) ==
  /\ rotator[r].pc = "generate" /\ made < MaxKeys
  /\ made' = made + 1
  /\ rotator' = [rotator EXCEPT ![r].pc = "open", ![r].kid = made',
       ![r].keys = @ \cup {[kid |-> made', state |-> "active", retireAt |-> 0]}]
  /\ UNCHANGED <<clock, disk, server, tokens, staged, retired, overlap>>

\* GenerateKey and persistKeyPEM; the entry is appended in memory.
PersistKeyPEM(r) ==
  /\ rotator[r].pc = "generate" /\ made < MaxKeys
  /\ made' = made + 1
  /\ pem' = pem \cup {made'}
  /\ rotator' = [rotator EXCEPT ![r].pc = "open", ![r].kid = made',
       ![r].keys = @ \cup {[kid |-> made', state |-> "active", retireAt |-> 0]}]
  /\ UNCHANGED <<clock, inode, ring, tmp, server, tokens, staged, retired, overlap>>

\* saveKeyRing opens the temp file with O_CREATE|O_TRUNC: it creates it, or
\* empties the one that is there.
OpenRingTemp(r) ==
  /\ rotator[r].pc = "open"
  /\ \/ /\ tmp = NoFile
        /\ inode' = Append(inode, Empty)
        /\ tmp' = Len(inode')
     \/ /\ tmp # NoFile
        /\ inode' = [inode EXCEPT ![tmp] = Empty]
        /\ tmp' = tmp
  /\ rotator' = [rotator EXCEPT ![r].pc = "write", ![r].fd = tmp']
  /\ UNCHANGED <<clock, pem, ring, server, tokens, made, staged, retired, overlap>>

\* Write at offset 0 of the open file.  Over another document a tail of that
\* one may remain.
WriteRing(r) ==
  LET fd == rotator[r].fd IN
  /\ rotator[r].pc = "write"
  /\ \/ inode' = [inode EXCEPT ![fd] = Doc(rotator[r].keys)]
     \/ inode[fd] # Empty /\ inode' = [inode EXCEPT ![fd] = Torn]
  /\ rotator' = [rotator EXCEPT ![r].pc = "rename"]
  /\ UNCHANGED <<clock, pem, ring, tmp, server, tokens, made, staged, retired, overlap>>

\* Rename moves whatever the temp name refers to; without one it fails.
RenameRing(r) ==
  /\ rotator[r].pc = "rename"
  /\ \/ /\ tmp # NoFile
        /\ ring' = tmp
        /\ tmp' = NoFile
        /\ staged' = staged \cup {rotator[r].kid}
        /\ retired' = retired \cup {[kid |-> k, at |-> clock] :
             k \in KIDs(inode[tmp].keys \ Active(inode[tmp].keys)) \ KIDs(retired)}
     \/ /\ tmp = NoFile
        /\ UNCHANGED <<ring, tmp, staged, retired>>
  /\ rotator' = [rotator EXCEPT ![r] = NoRotation]
  /\ UNCHANGED <<clock, pem, inode, server, tokens, made, overlap>>

\* Fault: the error of saveKeyRing is swallowed and the rotation reported.
SaveErrorIgnored(r) ==
  /\ rotator[r].pc = "write"
  /\ tmp' = NoFile
  /\ staged' = staged \cup {rotator[r].kid}
  /\ rotator' = [rotator EXCEPT ![r] = NoRotation]
  /\ UNCHANGED <<clock, pem, inode, ring, server, tokens, made, retired, overlap>>

\* An error on the way, or the death of the command.  A failed Write, Close or
\* Rename removes the temp file by name; a dead process leaves it.
RotationEnds(r) ==
  /\ Rotating(r)
  /\ \/ tmp' = tmp
     \/ rotator[r].pc \in {"write", "rename"} /\ tmp' = NoFile
  /\ rotator' = [rotator EXCEPT ![r] = NoRotation]
  /\ UNCHANGED <<clock, pem, inode, ring, server, tokens, made, staged, retired, overlap>>

-----------------------------------------------------------------------------
(* Servers *)

\* keySetFromDir reads the keyring; without one the legacy layout applies.
StartServer(s) ==
  /\ server[s].pc = "down"
  /\ server' = [server EXCEPT ![s] =
       IF ring = NoFile THEN [@ EXCEPT !.pc = "legacy"]
       ELSE IF inode[ring].kind # "doc" THEN [@ EXCEPT !.pc = "failed"]
       ELSE [@ EXCEPT !.pc = "load", !.keys = inode[ring].keys, !.from = ring]]
  /\ UNCHANGED <<clock, disk, rotator, tokens, made, staged, retired, overlap>>

\* The first start is about to create the legacy key too late for a rotation.
BesideRotation ==
  Legacy \notin pem /\ (ring # NoFile \/ \E r \in Rotator : Rotating(r))

\* persistentSigningKey: minidp-rsa.pem is loaded, or created.
LoadLegacy(s) ==
  /\ server[s].pc = "legacy"
  /\ pem' = pem \cup {Legacy}
  /\ overlap' = (overlap \/ BesideRotation)
  /\ server' = [server EXCEPT ![s].pc = "up", ![s].active = Legacy,
                              ![s].published = {Legacy}]
  /\ UNCHANGED <<clock, inode, ring, tmp, rotator, tokens, made, staged, retired>>

\* pruneRetiredKeys drops the entries past their horizon, from the directory
\* and from memory; keyring.json itself is not rewritten.
PastHorizon(e) == e.state = "retiring" /\ e.retireAt # 0 /\ e.retireAt < clock
PruneRetiredKeys(keys) == {e \in keys : ~PastHorizon(e)}

\* loadPublishedKeys: a retiring key that is gone is skipped; the start fails
\* unless exactly one entry is active and its key loads.
LoadPublishedKeys(s, kept) ==
  IF \E e \in Active(kept) : Active(kept) = {e} /\ e.kid \in pem
  THEN [server[s] EXCEPT !.pc = "up", !.published = KIDs(kept) \cap pem,
          !.active = CHOOSE k \in KIDs(Active(kept)) : TRUE]
  ELSE [server[s] EXCEPT !.pc = "failed"]

LoadRing(s) ==
  LET kept == PruneRetiredKeys(server[s].keys) IN
  /\ server[s].pc = "load"
  /\ pem' = pem \ KIDs(server[s].keys \ kept)
  /\ server' = [server EXCEPT ![s] = LoadPublishedKeys(s, kept)]
  /\ UNCHANGED <<clock, inode, ring, tmp, rotator, tokens, made, staged, retired, overlap>>

\* keySet.sign with the active key in memory.
Sign(s) ==
  /\ server[s].pc = "up"
  /\ tokens' = tokens \cup {[kid |-> server[s].active, exp |-> clock + AccessTTL]}
  /\ UNCHANGED <<clock, disk, rotator, server, made, staged, retired, overlap>>

\* verifyKey finds a key for the kid of a token; JWKS lists the same keys.
VerifyKey(s, kid) == server[s].pc = "up" /\ kid \in server[s].published

\* The server is stopped, or dies at any point of its start.
Stop(s) ==
  /\ server[s].pc # "down"
  /\ server' = [server EXCEPT ![s] = Down]
  /\ UNCHANGED <<clock, disk, rotator, tokens, made, staged, retired, overlap>>

\* The unit is the scale of the lifetimes: a start or a rotation takes
\* seconds, and no horizon passes between its first step and its last.
Tick ==
  /\ clock < MaxClock
  /\ \A s \in Server : server[s].pc \notin {"legacy", "load"}
  /\ \A r \in Rotator : ~Rotating(r)
  /\ clock' = clock + 1
  /\ tokens' = {t \in tokens : clock' < t.exp}
  /\ UNCHANGED <<disk, rotator, server, made, staged, retired, overlap>>

-----------------------------------------------------------------------------
\* The directory is empty or holds the legacy key of an earlier start.
Init ==
  /\ clock = 1
  /\ pem \in {{}, {Legacy}}
  /\ inode = <<>> /\ ring = NoFile /\ tmp = NoFile
  /\ rotator = [r \in Rotator |-> NoRotation]
  /\ server = [s \in Server |-> Down]
  /\ tokens = {} /\ made = 0 /\ staged = {} /\ retired = {}
  /\ overlap = FALSE

Rotate(r) == \/ ReadRing(r) \/ AdoptLegacy(r) \/ PersistKeyPEM(r)
             \/ OpenRingTemp(r) \/ WriteRing(r) \/ RenameRing(r)
             \/ RotationEnds(r)
Serve(s) == StartServer(s) \/ LoadLegacy(s) \/ LoadRing(s) \/ Sign(s) \/ Stop(s)

Next == (\E r \in Rotator : Rotate(r)) \/ (\E s \in Server : Serve(s)) \/ Tick

Spec == Init /\ [][Next]_vars

-----------------------------------------------------------------------------
(* Properties *)

\* Every process stands where its code can stand, and the names in the key
\* directory refer to files that were created.
TypeOK ==
  /\ clock \in Nat
  /\ pem \in SUBSET (0 .. made) /\ made \in Nat
  /\ inode \in Seq(Content)
  /\ ring \in 0 .. Len(inode) /\ tmp \in 0 .. Len(inode)
  /\ rotator \in [Rotator -> RotatorState]
  /\ \A r \in Rotator : rotator[r].fd \in 0 .. Len(inode)
  /\ server \in [Server -> ServerState]
  /\ \A s \in Server : server[s].from \in 0 .. Len(inode)
  /\ tokens \in SUBSET Token
  /\ staged \in SUBSET (1 .. made)
  /\ retired \in SUBSET [kid: 0 .. made, at: 0 .. clock]

\* Whatever a rotation or a crash of one left behind, a start succeeds: the
\* keyring parses and its one active key is on disk (persistKeyPEM before
\* saveKeyRing, temp file and rename in both).
StartsSucceed == ~overlap => \A s \in Server : server[s].pc # "failed"

\* A keyring that parses names exactly one active key, and its file is there,
\* even when two rotations overlap and write over each other's temp file
\* (RotateKeys persists its key before it saves a document that names it).
ActiveOnDisk ==
  ring # NoFile /\ inode[ring].kind = "doc" =>
    \E e \in inode[ring].keys : Active(inode[ring].keys) = {e} /\ e.kid \in pem

\* The invariant of the key directory, whatever rotations and starts do to it
\* at once (persistKeyPEM before saveKeyRing, pruneRetiredKeys leaves the
\* active key alone).
DiskInv == TypeOK /\ ActiveOnDisk

\* A rotation that reported success is in effect: its key stays in the
\* keyring (RotateKeys appends, later rotations keep what they read).  Of two
\* rotations at once the later rename drops the key of the earlier.
StagedKept ==
  ~overlap => \A k \in staged : ring # NoFile /\ k \in KIDs(inode[ring].keys)

\* How long after the rotation a server may go on signing with the old key.
Grace == IF Override = Unset THEN RefreshTTL ELSE Override - AccessTTL

\* A server started from the keyring on disk verifies every unexpired token,
\* whoever signed it and however many rotations and restarts came between, if
\* its signer was restarted within a refresh token's lifetime of the rotation
\* that retired its key: the default horizon is long enough, and a set one
\* leaves what it exceeds an access token's lifetime by (LoadKeyRetention,
\* retireRingKeys, pruneRetiredKeys, loadPublishedKeys).
RetentionCovers ==
  ~overlap =>
    \A s \in Server, t \in tokens :
      /\ server[s].pc = "up" /\ server[s].from = ring
      /\ \A k \in retired : k.kid = t.kid => t.exp - AccessTTL <= k.at + Grace
      => VerifyKey(s, t.kid)

\* Once there is a keyring it lists the key every running server signs with,
\* also of servers that started before the rotation: a restart never forgets
\* a key in use (loadOrCreateRing adopts the legacy key, retireRingKeys keeps
\* every entry).  A rotation beside the very first start may miss the key
\* that start creates.
SignerTracked ==
  ring # NoFile /\ ~overlap =>
    \A s \in Server : server[s].pc = "up" => server[s].active \in KIDs(inode[ring].keys)
=============================================================================
