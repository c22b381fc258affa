---------------------------- MODULE SnapshotVault ----------------------------
(***************************************************************************)
(* Encrypted snapshots after they were taken: soft delete, restore, purge  *)
(* and refresh, the rotation of their keys, and the purge of a project     *)
(* (apps/sdqp-api/src/phase8.rs, crates/sdqp-encryption).                  *)
(*                                                                         *)
(* A snapshot lives in memory, as a row, and as an object that is written  *)
(* once.  The payload of record and row is a ciphertext with the wrapped   *)
(* key that opens it and the KMS provider that wrapped the key; it is      *)
(* replaced as a whole.  A handler changes memory under the lock and saves *)
(* the row after it.  A rotation cycle loads all rows, puts them into      *)
(* memory, and works on these copies.                                      *)
(***************************************************************************)
EXTENDS Integers, FiniteSets, FiniteSetsExt

CONSTANTS
  Snaps,            \* snapshots, numbers in the order of their creation
  Deks,             \* data keys, numbers
  KmsProviders,     \* providers the active one is chosen from
  VaultUsers,       \* requests that may be under way
  RotationCycles,   \* cycles that may be under way
  RuntimeCycle,     \* the one of the runtime
  BatchLimit,       \* key_rotation.batch_limit
  DekDays,          \* dek_rotation_days
  KekDays,          \* kek_rotation_days
  MaxDays,          \* bound: days
  MaxVaultCalls,    \* bound: requests and manual cycles
  MaxVaultFaults,   \* bound: failures of database, object store and KMS
  MaxVaultRestarts  \* bound: restarts

ASSUME VaultAssumption ==
  /\ Snaps \subseteq Deks /\ Deks \subseteq Nat \ {0} /\ Snaps # {}
  /\ KmsProviders \subseteq {"mock", "vault", "aws", "azure", "aliyun"}
  /\ RuntimeCycle \in RotationCycles /\ VaultUsers \cap RotationCycles = {}
  /\ BatchLimit \in Nat \ {0} /\ DekDays \in Nat \ {0} /\ KekDays \in Nat \ {0}
  /\ MaxDays \in Nat /\ MaxVaultCalls \in Nat
  /\ MaxVaultFaults \in Nat /\ MaxVaultRestarts \in Nat

VARIABLES
  rec,          \* the snapshot store in memory
  snapRow,      \* the table snapshots
  objects,      \* snapshots with an object in the store
  cached,       \* snapshots the cache index names, in memory
  cachedRow,    \* and in snapshot_cache_entries
  tombstone,    \* controlled_deletion_records
  withProject,  \* history: snapshots that were purged with their project
  keyState,     \* key_rotation_states in memory: data key and its day
  keyStateRow,  \* the table key_rotation_state
  activeKms,    \* the active provider
  today,
  request,      \* requests under way
  keyCycle,     \* cycles under way
  vaultCalls, vaultFaults, vaultRestarts,
  vaultOverlap  \* history: two of them were under way together

vaultVars == <<rec, snapRow, objects, cached, cachedRow, tombstone, withProject, keyState,
               keyStateRow, activeKms, today, request, keyCycle, vaultCalls,
               vaultFaults, vaultRestarts, vaultOverlap>>

Payload == [dek : Deks, full : BOOLEAN, provider : KmsProviders,
            wrappedBy : KmsProviders]

Record == [state : {"Active", "SoftDeleted", "Purged"}, payload : Payload,
           rewrapped : 0..MaxDays]

SomeSnap == CHOOSE s \in Snaps : TRUE

FirstRecord(s) ==
  [state |-> "Active", rewrapped |-> 0,
   payload |-> [dek |-> s, full |-> TRUE, provider |-> activeKms,
                wrappedBy |-> activeKms]]

NoRequest == [pc |-> "idle", op |-> "none", snap |-> SomeSnap, copy |-> {}]

NoCycle == [pc |-> "idle", force |-> FALSE, wants |-> {}, todo |-> {},
            copies |-> {}, ops |-> {}, day |-> 0, updated |-> {}]

VaultTypeOK ==
  /\ rec \in [Snaps -> Record] /\ snapRow \in [Snaps -> Record]
  /\ objects \subseteq Snaps /\ cached \subseteq Snaps /\ cachedRow \subseteq Snaps
  /\ tombstone \in [Snaps -> {"none", "deleted", "purged"}]
  /\ keyState \in [Snaps -> [dek : Deks \cup {0}, day : 0..MaxDays]]
  /\ activeKms \in KmsProviders /\ today \in 0..MaxDays
  /\ \A u \in VaultUsers :
       /\ request[u].pc \in {"idle", "object", "mark", "read", "save", "tombstone",
                             "objects", "rows"}
       /\ request[u].copy \subseteq Record
       /\ (Cardinality(request[u].copy) = 1) <=>
            (request[u].pc = "save" \/ request[u].op = "refresh")
  /\ \A c \in RotationCycles :
       /\ keyCycle[c].pc \in {"idle", "loaded", "next", "rotate", "save", "finish"}
       /\ keyCycle[c].pc \in {"rotate", "save", "finish"} => keyCycle[c].ops # {}
       /\ keyCycle[c].todo \subseteq Snaps

VaultInit ==
  /\ activeKms \in KmsProviders
  /\ rec = [s \in Snaps |-> FirstRecord(s)]
  /\ snapRow = rec
  /\ objects = Snaps
  /\ cached = Snaps /\ cachedRow = Snaps
  /\ tombstone = [s \in Snaps |-> "none"]
  /\ withProject = {}
  /\ keyState = [s \in Snaps |-> [dek |-> 0, day |-> 0]]
  /\ keyStateRow = keyState
  /\ today = 0
  /\ request = [u \in VaultUsers |-> NoRequest]
  /\ keyCycle = [c \in RotationCycles |-> NoCycle]
  /\ vaultCalls = 0 /\ vaultFaults = 0 /\ vaultRestarts = 0
  /\ vaultOverlap = FALSE

VaultFault ==
  /\ vaultFaults < MaxVaultFaults
  /\ vaultFaults' = vaultFaults + 1

VaultCall ==
  /\ vaultCalls < MaxVaultCalls
  /\ vaultCalls' = vaultCalls + 1

----
(* Keys. *)

\* build_kms_service_registry: every provider has a service, but the one that
\* talks to a real Vault is there only while Vault is the active provider.
Unwraps(p) == /\ p.provider = p.wrappedBy
              /\ p.provider = "vault" => activeKms = "vault"

\* ProviderEnvelopeCipher::decrypt.
Decrypts(p) == p.full /\ Unwraps(p)

\* A new data key: one that nobody knows.
KnownDeks ==
  {rec[s].payload.dek : s \in Snaps} \cup {snapRow[s].payload.dek : s \in Snaps}
    \cup {keyState[s].dek : s \in Snaps} \cup {keyStateRow[s].dek : s \in Snaps}
    \cup (UNION {{x[2].payload.dek : x \in keyCycle[c].copies \cup keyCycle[c].updated}
                   : c \in RotationCycles})
    \cup (UNION {{x.payload.dek : x \in request[u].copy} : u \in VaultUsers})

FreshDek == CHOOSE d \in Deks : d \notin KnownDeks

\* encrypt_with_service, by the active provider.
Encrypt == [dek |-> FreshDek, full |-> TRUE, provider |-> activeKms,
            wrappedBy |-> activeKms]

\* Mutant: the payload keeps the name of its old provider.
Rewrap_KeepsProvider(p) == [p EXCEPT !.wrappedBy = activeKms]

\* ProviderEnvelopeCipher::rewrap, by the active provider.
Rewrap(p) == [p EXCEPT !.provider = activeKms, !.wrappedBy = activeKms]

\* rotation_state_for_record: the day the data key was made, as far as the
\* inventory knows this key; else the day of the snapshot.
KeyDay(s, r) == IF keyState[s].dek = r.payload.dek THEN keyState[s].day ELSE 0

\* RotationPolicy::evaluate.
Due(s, r) ==
  {op \in {"dek", "kek"} :
     IF op = "dek" THEN KeyDay(s, r) + DekDays <= today
     ELSE (IF r.rewrapped = 0 THEN KeyDay(s, r) ELSE r.rewrapped) + KekDays <= today}

----
(* Requests.  load_scoped_snapshot_any finds the record in memory. *)

StartRequest(u, s, op, pc, copy) ==
  /\ request[u].pc = "idle"
  /\ VaultCall
  /\ request' = [request EXCEPT ![u] = [pc |-> pc, op |-> op, snap |-> s, copy |-> copy]]
  /\ UNCHANGED <<rec, snapRow, objects, cached, cachedRow, tombstone, withProject, keyState,
                 keyStateRow, activeKms, today, keyCycle, vaultFaults, vaultRestarts>>

SoftDeleteSnapshot(u, s) == StartRequest(u, s, "delete", "mark", {})

RestoreSnapshot(u, s) == StartRequest(u, s, "restore", "mark", {})

PurgeSnapshot(u, s) == StartRequest(u, s, "purge", "object", {})

\* refresh_snapshot_handler: an active snapshot only.
RefreshSnapshot(u, s) ==
  rec[s].state = "Active" /\ StartRequest(u, s, "refresh", "mark", {rec[s]})

\* delete_snapshot_object_if_present.
DeleteObject(u) ==
  /\ request[u].pc = "object"
  /\ \/ /\ objects' = objects \ {request[u].snap}
        /\ request' = [request EXCEPT ![u].pc = "mark"]
        /\ UNCHANGED vaultFaults
     \/ /\ VaultFault
        /\ request' = [request EXCEPT ![u] = NoRequest]
        /\ UNCHANGED objects
  /\ UNCHANGED <<rec, snapRow, cached, cachedRow, tombstone, withProject, keyState,
                 keyStateRow, activeKms, today, keyCycle, vaultCalls, vaultRestarts>>

\* Mutant: the ciphertext stays.
Purged_KeepsCiphertext(r) == [r EXCEPT !.state = "Purged"]

\* What mark_purged and purge_project_snapshots make of a record.
Purged(r) == [r EXCEPT !.state = "Purged", !.payload.full = FALSE]

\* soft_delete, restore and mark_purged of the store, and the cache in memory.
\* A purged snapshot cannot be deleted or restored.
MarkSnapshot(u) ==
  /\ request[u].pc = "mark" /\ request[u].op # "refresh"
  /\ LET s == request[u].snap
         op == request[u].op
     IN  IF op # "purge" /\ rec[s].state = "Purged"
         THEN /\ request' = [request EXCEPT ![u] = NoRequest]
              /\ UNCHANGED <<rec, cached>>
         ELSE /\ rec' = [rec EXCEPT ![s] =
                           CASE op = "purge" -> Purged(@)
                             [] op = "delete" -> [@ EXCEPT !.state = "SoftDeleted"]
                             [] OTHER -> [@ EXCEPT !.state = "Active"]]
              /\ cached' = IF op = "restore" THEN cached ELSE cached \ {s}
              /\ request' = [request EXCEPT ![u].pc = "read"]
  /\ UNCHANGED <<snapRow, objects, cachedRow, tombstone, withProject, keyState, keyStateRow,
                 activeKms, today, keyCycle, vaultCalls, vaultFaults, vaultRestarts>>

\* The stored cache entries go; a failure is ignored.  The record is read for
\* refresh_snapshot_record.
ReadSnapshot(u) ==
  /\ request[u].pc = "read"
  /\ LET s == request[u].snap
     IN  /\ request' = [request EXCEPT ![u] = [@ EXCEPT !.pc = "save", !.copy = {rec[s]}]]
         /\ \/ /\ cachedRow' = IF request[u].op = "restore" THEN cachedRow
                               ELSE cachedRow \ {s}
               /\ UNCHANGED vaultFaults
            \/ request[u].op # "restore" /\ VaultFault /\ UNCHANGED cachedRow
  /\ UNCHANGED <<rec, snapRow, objects, cached, tombstone, withProject, keyState, keyStateRow,
                 activeKms, today, keyCycle, vaultCalls, vaultRestarts>>

\* The refresh of the record that was read, whatever became of it meanwhile.
RewrapSnapshot(u) ==
  /\ request[u].pc = "mark" /\ request[u].op = "refresh"
  /\ LET s == request[u].snap
     IN  \E r \in request[u].copy :
           \/ /\ Unwraps(r.payload)
              /\ rec' = [rec EXCEPT ![s] = [@ EXCEPT !.payload = Rewrap(r.payload),
                                                     !.rewrapped = today]]
              /\ request' = [request EXCEPT ![u] =
                               [@ EXCEPT !.pc = "save", !.copy = {rec'[s]}]]
              /\ UNCHANGED vaultFaults
           \/ /\ (~Unwraps(r.payload) /\ UNCHANGED vaultFaults) \/ VaultFault
              /\ request' = [request EXCEPT ![u] = NoRequest]
              /\ UNCHANGED rec
  /\ UNCHANGED <<snapRow, objects, cached, cachedRow, tombstone, withProject, keyState,
                 keyStateRow, activeKms, today, keyCycle, vaultCalls, vaultRestarts>>

\* save_snapshot: the whole row.
SaveSnapshot(u) ==
  /\ request[u].pc = "save"
  /\ \/ /\ \E r \in request[u].copy : snapRow' = [snapRow EXCEPT ![request[u].snap] = r]
        /\ request' = [request EXCEPT ![u] =
                         IF @.op \in {"delete", "purge"}
                         THEN [@ EXCEPT !.pc = "tombstone", !.copy = {}] ELSE NoRequest]
        /\ UNCHANGED vaultFaults
     \/ /\ VaultFault
        /\ request' = [request EXCEPT ![u] = NoRequest]
        /\ UNCHANGED snapRow
  /\ UNCHANGED <<rec, objects, cached, cachedRow, tombstone, withProject, keyState,
                 keyStateRow, activeKms, today, keyCycle, vaultCalls, vaultRestarts>>

\* save_controlled_deletion_record, after the audit event.
SaveTombstone(u) ==
  /\ request[u].pc = "tombstone"
  /\ \/ /\ tombstone' = [tombstone EXCEPT ![request[u].snap] =
                           IF request[u].op = "purge" THEN "purged" ELSE "deleted"]
        /\ UNCHANGED vaultFaults
     \/ VaultFault /\ UNCHANGED tombstone
  /\ request' = [request EXCEPT ![u] = NoRequest]
  /\ UNCHANGED <<rec, snapRow, objects, cached, cachedRow, withProject, keyState, keyStateRow,
                 activeKms, today, keyCycle, vaultCalls, vaultRestarts>>

\* A project is closed or deleted: its snapshots are purged in memory (the
\* stored cache entries stay), ...
PurgeProjectSnapshots(u) ==
  /\ request[u].pc = "idle"
  /\ VaultCall
  /\ rec' = [s \in Snaps |-> Purged(rec[s])]
  /\ cached' = {}
  /\ withProject' = withProject \cup {s \in Snaps : rec[s].state # "Purged"}
  /\ request' = [request EXCEPT ![u] = [NoRequest EXCEPT !.pc = "objects", !.op = "project"]]
  /\ UNCHANGED <<snapRow, objects, cachedRow, tombstone, keyState, keyStateRow,
                 activeKms, today, keyCycle, vaultFaults, vaultRestarts>>

\* ... then their objects, one after the other, ...
DeleteProjectObjects(u) ==
  /\ request[u].pc = "objects"
  /\ \/ /\ objects' = {}
        /\ request' = [request EXCEPT ![u].pc = "rows"]
        /\ UNCHANGED vaultFaults
     \/ /\ VaultFault
        /\ objects' \in SUBSET objects
        /\ request' = [request EXCEPT ![u] = NoRequest]
  /\ UNCHANGED <<rec, snapRow, cached, cachedRow, tombstone, withProject, keyState, keyStateRow,
                 activeKms, today, keyCycle, vaultCalls, vaultRestarts>>

\* ... and in the end the rows.
DeleteSnapshotsForProject(u) ==
  /\ request[u].pc = "rows"
  /\ \/ /\ snapRow' = [s \in Snaps |-> Purged(snapRow[s])]
        /\ UNCHANGED vaultFaults
     \/ VaultFault /\ UNCHANGED snapRow
  /\ request' = [request EXCEPT ![u] = NoRequest]
  /\ UNCHANGED <<rec, objects, cached, cachedRow, tombstone, withProject, keyState, keyStateRow,
                 activeKms, today, keyCycle, vaultCalls, vaultRestarts>>

----
(* Rotation of the keys. *)

\* The snapshot a cycle is at, and the record of s it loaded.
Current(cycle) == Min(cycle.todo)

CopyOf(cycle, s) == (CHOOSE x \in cycle.copies : x[1] = s)[2]

CycleUnchanged == UNCHANGED <<objects, cached, cachedRow, tombstone, withProject, activeKms,
                              today, request, vaultRestarts>>

\* The first `limit` snapshots count, due or not.
Batch(only, force) ==
  IF force THEN only
  ELSE {s \in only : Cardinality({t \in only : t < s}) < BatchLimit}

\* load_key_rotation_snapshots, for a cycle and for the list of states: the
\* rows are read, ...
LoadKeyRotationSnapshots(c, force, wants, only) ==
  /\ keyCycle[c].pc = "idle"
  /\ \/ /\ keyCycle' = [keyCycle EXCEPT ![c] =
             [pc |-> "loaded", force |-> force, wants |-> wants,
              todo |-> Batch(only, force),
              copies |-> {<<s, snapRow[s]>> : s \in Snaps},
              ops |-> {}, day |-> 0, updated |-> {}]]
        /\ UNCHANGED vaultFaults
     \/ VaultFault /\ UNCHANGED keyCycle
  /\ UNCHANGED <<rec, snapRow, keyState, keyStateRow>>
  /\ CycleUnchanged

\* spawn_key_rotation_runtime: a cycle every interval; it begins when there is
\* something due, for the others change nothing.
RuntimeCycleStarts ==
  /\ \E s \in Snaps : Due(s, snapRow[s]) # {}
  /\ LoadKeyRotationSnapshots(RuntimeCycle, FALSE, {"dek", "kek"}, Snaps)
  /\ UNCHANGED vaultCalls

\* key_rotation_run_handler; without wants it is key_rotation_states_handler.
ManualCycleStarts(c, force, wants, only) ==
  /\ c # RuntimeCycle
  /\ VaultCall
  /\ LoadKeyRotationSnapshots(c, force, wants, only)

\* ... and put into the memory.
RestoreRecords(c) ==
  /\ keyCycle[c].pc = "loaded"
  /\ rec' = [s \in Snaps |-> CopyOf(keyCycle[c], s)]
  /\ keyCycle' = [keyCycle EXCEPT ![c] =
       [@ EXCEPT !.pc = "next",
                 !.copies = {x \in keyCycle[c].copies : x[1] \in keyCycle[c].todo}]]
  /\ UNCHANGED <<snapRow, keyState, keyStateRow, vaultCalls, vaultFaults>>
  /\ CycleUnchanged

\* persist_key_rotation_state: a row that cannot be written is only logged.
PersistKeyState(s, state) ==
  /\ keyState' = [keyState EXCEPT ![s] = state]
  /\ \/ keyStateRow' = [keyStateRow EXCEPT ![s] = state] /\ UNCHANGED vaultFaults
     \/ VaultFault /\ UNCHANGED keyStateRow

NextSnapshot(cycle) ==
  [pc |-> "next", force |-> cycle.force, wants |-> cycle.wants,
   todo |-> cycle.todo \ {Current(cycle)},
   copies |-> {x \in cycle.copies : x[1] # Current(cycle)},
   ops |-> {}, day |-> 0, updated |-> {}]

\* The operation for the next snapshot, chosen by choose_key_rotation_operation.
ChooseOperation(c) ==
  /\ keyCycle[c].pc = "next" /\ keyCycle[c].todo # {}
  /\ LET s == Current(keyCycle[c])
         r == CopyOf(keyCycle[c], s)
         ops == IF keyCycle[c].force THEN keyCycle[c].wants
                ELSE keyCycle[c].wants \cap Due(s, r)
     IN  /\ PersistKeyState(s, [dek |-> r.payload.dek, day |-> KeyDay(s, r)])
         /\ keyCycle' = [keyCycle EXCEPT ![c] =
              IF r.state = "Purged" \/ ops = {} THEN NextSnapshot(@)
              ELSE [@ EXCEPT !.pc = "rotate", !.ops = ops, !.day = today]]
  /\ UNCHANGED <<rec, snapRow, vaultCalls>>
  /\ CycleUnchanged

\* rotate_snapshot_key_material: the copy is encrypted or wrapped anew, and
\* mark_rewrapped gives that payload to the record in memory.
RotateSnapshot(c) ==
  /\ keyCycle[c].pc = "rotate"
  /\ LET s == Current(keyCycle[c])
         r == CopyOf(keyCycle[c], s)
         dek == "dek" \in keyCycle[c].ops
         ok == IF dek THEN Decrypts(r.payload) ELSE Unwraps(r.payload)
     IN  \/ /\ ok /\ (dek => Deks \ KnownDeks # {})
            /\ rec' = [rec EXCEPT ![s] =
                 [@ EXCEPT !.payload = IF dek THEN Encrypt ELSE Rewrap(r.payload),
                           !.rewrapped = keyCycle[c].day]]
            /\ keyCycle' = [keyCycle EXCEPT ![c] =
                              [@ EXCEPT !.pc = "save", !.updated = {<<s, rec'[s]>>}]]
            /\ UNCHANGED vaultFaults
         \/ /\ (~ok /\ UNCHANGED vaultFaults) \/ VaultFault
            /\ keyCycle' = [keyCycle EXCEPT ![c] = NextSnapshot(@)]
            /\ UNCHANGED rec
  /\ UNCHANGED <<snapRow, keyState, keyStateRow, vaultCalls>>
  /\ CycleUnchanged

SaveRotated(c) ==
  /\ keyCycle[c].pc = "save"
  /\ \/ /\ \E x \in keyCycle[c].updated : snapRow' = [snapRow EXCEPT ![x[1]] = x[2]]
        /\ keyCycle' = [keyCycle EXCEPT ![c].pc = "finish"]
        /\ UNCHANGED vaultFaults
     \/ /\ VaultFault
        /\ keyCycle' = [keyCycle EXCEPT ![c] = NextSnapshot(@)]
        /\ UNCHANGED snapRow
  /\ UNCHANGED <<rec, keyState, keyStateRow, vaultCalls>>
  /\ CycleUnchanged

\* Mutant: the inventory keeps the day of the old data key.
FinishRotation_OldDay(c) ==
  /\ keyCycle[c].pc = "finish"
  /\ \E x \in keyCycle[c].updated :
       PersistKeyState(x[1], [dek |-> x[2].payload.dek, day |-> 0])
  /\ keyCycle' = [keyCycle EXCEPT ![c] = NextSnapshot(@)]
  /\ UNCHANGED <<rec, snapRow, vaultCalls>>
  /\ CycleUnchanged

\* The new state; after a rewrap alone, the day of the snapshot is taken for
\* the day of its data key.
FinishRotation(c) ==
  /\ keyCycle[c].pc = "finish"
  /\ \E x \in keyCycle[c].updated :
       PersistKeyState(x[1], [dek |-> x[2].payload.dek,
                              day |-> IF "dek" \in keyCycle[c].ops THEN keyCycle[c].day
                                      ELSE 0])
  /\ keyCycle' = [keyCycle EXCEPT ![c] = NextSnapshot(@)]
  /\ UNCHANGED <<rec, snapRow, vaultCalls>>
  /\ CycleUnchanged

EndKeyCycle(c) ==
  /\ keyCycle[c].pc = "next" /\ keyCycle[c].todo = {}
  /\ keyCycle' = [keyCycle EXCEPT ![c] = NoCycle]
  /\ UNCHANGED <<rec, snapRow, keyState, keyStateRow, vaultCalls, vaultFaults>>
  /\ CycleUnchanged

----

DayPasses ==
  /\ today < MaxDays
  /\ today' = today + 1
  /\ UNCHANGED <<rec, snapRow, objects, cached, cachedRow, tombstone, withProject, keyState,
                 keyStateRow, activeKms, request, keyCycle, vaultCalls,
                 vaultFaults, vaultRestarts>>

\* The API starts again, perhaps configured for another provider.
VaultRestart(p) ==
  /\ vaultRestarts < MaxVaultRestarts
  /\ vaultRestarts' = vaultRestarts + 1
  /\ activeKms' = p
  /\ rec' = snapRow
  /\ cached' = cachedRow
  /\ keyState' = keyStateRow
  /\ request' = [u \in VaultUsers |-> NoRequest]
  /\ keyCycle' = [c \in RotationCycles |-> NoCycle]
  /\ UNCHANGED <<snapRow, objects, cachedRow, tombstone, withProject, keyStateRow, today,
                 vaultCalls, vaultFaults>>

RequestStarts(u) ==
  \/ \E s \in Snaps : \/ SoftDeleteSnapshot(u, s) \/ RestoreSnapshot(u, s)
                      \/ PurgeSnapshot(u, s) \/ RefreshSnapshot(u, s)
  \/ PurgeProjectSnapshots(u)

RequestStep(u) ==
  \/ DeleteObject(u) \/ MarkSnapshot(u) \/ ReadSnapshot(u) \/ RewrapSnapshot(u)
  \/ SaveSnapshot(u) \/ SaveTombstone(u)
  \/ DeleteProjectObjects(u) \/ DeleteSnapshotsForProject(u)

KeyCycleStep(c) ==
  \/ RestoreRecords(c) \/ ChooseOperation(c) \/ RotateSnapshot(c)
  \/ SaveRotated(c) \/ FinishRotation(c) \/ EndKeyCycle(c)

VaultActors == {u \in VaultUsers : request[u].pc # "idle"}
                 \cup {c \in RotationCycles : keyCycle[c].pc # "idle"}

VaultAct ==
  \/ \E u \in VaultUsers : RequestStarts(u) \/ RequestStep(u)
  \/ RuntimeCycleStarts
  \/ \E c \in RotationCycles :
       \/ \E force \in BOOLEAN, wants \in {{}, {"kek"}, {"dek", "kek"}},
             only \in {Snaps} \cup {{s} : s \in Snaps} :
            ManualCycleStarts(c, force, wants, only)
       \/ KeyCycleStep(c)
  \/ DayPasses
  \/ \E p \in KmsProviders : VaultRestart(p)

VaultNext ==
  /\ VaultAct
  /\ vaultOverlap' = (vaultOverlap \/ \E a, b \in VaultActors' : a # b)

VaultSpec == VaultInit /\ [][VaultNext]_vaultVars

\* The runtime starts its cycle again and again, and what runs goes on.
VaultFairness ==
  /\ WF_vaultVars(RuntimeCycleStarts /\ VaultNext)
  /\ \A c \in RotationCycles : WF_vaultVars(KeyCycleStep(c) /\ VaultNext)

----

\* Nothing the vault does makes a snapshot unreadable: as long as it is not
\* purged, record and row hold a ciphertext that decrypts, whichever rotation,
\* refresh, delete or restore overlapped, failed or was cut short.  Only one
\* wrapped by Vault is lost when another provider becomes the active one.
ActiveReadable ==
  \A s \in Snaps : \A r \in {rec[s], snapRow[s]} :
    r.state # "Purged" =>
      \/ Decrypts(r.payload)
      \/ r.payload.full /\ r.payload.wrappedBy = "vault"
           /\ r.payload.provider = "vault" /\ activeKms # "vault"

\* Purging is complete.  Whatever overlaps, fails or is cut short, a tombstone
\* that says "purged" is not written before the object is gone.  And at rest, if
\* no two actors met and nothing failed, memory and row agree, and of a purged
\* snapshot there is no ciphertext, no object and no cache entry, but a tombstone,
\* unless it went with its project or the restart took the request that was about
\* to write it.  (A restart also brings the cache entries back that the purge of
\* a project leaves in the table.)
PurgedIsGone ==
  /\ \A s \in Snaps : tombstone[s] = "purged" => s \notin objects
  /\ (~vaultOverlap /\ vaultFaults = 0 /\ VaultActors = {})
       => \A s \in Snaps :
            /\ rec[s] = snapRow[s]
            /\ rec[s].state = "Purged" =>
                 /\ ~rec[s].payload.full
                 /\ s \notin objects
                 /\ s \notin cached \/ vaultRestarts > 0
                 /\ tombstone[s] = "purged" \/ s \in withProject \/ vaultRestarts > 0

\* Keys do not grow old: a data key that is due for rotation is replaced, or
\* its snapshot purged or out of reach of the KMS.
DueKeysRotated ==
  \A s \in Snaps :
    ("dek" \in Due(s, snapRow[s]))
      ~> \/ "dek" \notin Due(s, snapRow[s])
         \/ snapRow[s].state = "Purged"
         \/ ~Decrypts(snapRow[s].payload)

\* The vault loses nothing it keeps: well-formed records, and a ciphertext that
\* decrypts in each that is not purged.
SnapshotsReadable == VaultTypeOK /\ ActiveReadable

----
(* What the two rest on. *)

KeyInfo == [dek : Deks \cup {0}, day : 0..MaxDays]

Request == [pc : {"idle", "object", "mark", "read", "save", "tombstone", "objects", "rows"},
            op : {"none", "delete", "restore", "purge", "refresh", "project"},
            snap : Snaps, copy : SUBSET Record]

KeyCycle == [pc : {"idle", "loaded", "next", "rotate", "save", "finish"},
             force : BOOLEAN, wants : SUBSET {"dek", "kek"}, todo : SUBSET Snaps,
             copies : SUBSET (Snaps \X Record), ops : SUBSET {"dek", "kek"},
             day : 0..MaxDays, updated : SUBSET (Snaps \X Record)]

\* A request carries a record exactly while it has one to rewrap or to save.
RequestFits(q) ==
  /\ q.pc = "save" \/ q.op = "refresh" <=> q.copy # {}
  /\ q.copy = {} \/ \E r \in Record : q.copy = {r}
  /\ q.pc = "idle" => q.op = "none"
  /\ q.op = "project" <=> q.pc \in {"objects", "rows"}
  /\ q.pc = "mark" /\ q.op = "refresh" => \A r \in q.copy : r.state = "Active"
  /\ q.pc = "object" => q.op = "purge"
  /\ q.pc = "tombstone" => q.op \in {"delete", "purge"}

\* A cycle has a copy of every snapshot it still has to look at.
CycleFits(q) ==
  /\ q.pc = "idle" => q.copies = {}
  /\ q.pc = "loaded" => \A s \in Snaps : \E x \in q.copies : x[1] = s
  /\ \A s \in q.todo : \E x \in q.copies : x[1] = s
  /\ q.pc \in {"rotate", "save", "finish"} => q.todo # {} /\ q.ops # {}

VaultTyped ==
  /\ rec \in [Snaps -> Record] /\ snapRow \in [Snaps -> Record]
  /\ objects \subseteq Snaps /\ cached \subseteq Snaps /\ cachedRow \subseteq Snaps
  /\ tombstone \in [Snaps -> {"none", "deleted", "purged"}]
  /\ keyState \in [Snaps -> KeyInfo] /\ keyStateRow \in [Snaps -> KeyInfo]
  /\ activeKms \in KmsProviders /\ today \in 0..MaxDays
  /\ vaultFaults \in Nat /\ vaultRestarts \in Nat /\ vaultOverlap \in BOOLEAN
  /\ request \in [VaultUsers -> Request]
  /\ \A u \in VaultUsers : RequestFits(request[u])
  /\ keyCycle \in [RotationCycles -> KeyCycle]
  /\ \A c \in RotationCycles : CycleFits(keyCycle[c])

\* A record that is not purged holds a ciphertext, under the key of the provider
\* it names.
Whole(r) == r.state # "Purged" =>
              r.payload.full /\ r.payload.provider = r.payload.wrappedBy

\* So do the copies that requests and cycles carry about.
AllWhole ==
  /\ \A s \in Snaps : Whole(rec[s]) /\ Whole(snapRow[s])
  /\ \A u \in VaultUsers : \A r \in request[u].copy : Whole(r)
  /\ \A c \in RotationCycles :
       /\ \A x \in keyCycle[c].copies \cup keyCycle[c].updated : Whole(x[2])
       /\ keyCycle[c].pc = "rotate" => CopyOf(keyCycle[c], Current(keyCycle[c])).state # "Purged"

Alone == \A a, b \in VaultActors : a = b

\* A request or a cycle is about to make the row of s what memory is.
Saving(s) ==
  \/ \E u \in VaultUsers : request[u].pc \in {"read", "save"} /\ request[u].snap = s
  \/ \E u \in VaultUsers : request[u].op = "project"
  \/ \E c \in RotationCycles : keyCycle[c].pc = "save" /\ Current(keyCycle[c]) = s

RowsFollow ==
  /\ \A s \in Snaps : rec[s] = snapRow[s] \/ Saving(s)
  /\ \A u \in VaultUsers :
       LET q == request[u] IN
       /\ q.pc = "save" => q.copy = {rec[q.snap]}
       /\ q.op = "refresh" => rec[q.snap].state = "Active"
       /\ q.op = "delete" /\ q.pc \in {"read", "save", "tombstone"} =>
            rec[q.snap].state # "Purged"
       /\ q.op = "project" => \A s \in Snaps : rec[s] = Purged(snapRow[s])
  /\ \A c \in RotationCycles :
       LET q == keyCycle[c] IN
       /\ q.pc = "loaded" => \A x \in q.copies : x[2] = snapRow[x[1]]
       /\ \A x \in q.copies : x[2].state = rec[x[1]].state
       /\ q.pc = "save" => q.updated = {<<Current(q), rec[Current(q)]>>}

\* The request that purges s, or the project, has something left to do.
Purging(s, pcs) == \E u \in VaultUsers :
  request[u].op = "purge" /\ request[u].pc \in pcs /\ request[u].snap = s

PurgedLeavesNothing ==
  /\ \A s \in Snaps :
       /\ snapRow[s].state = "Purged" => ~snapRow[s].payload.full /\ s \notin objects
       /\ rec[s].state = "Purged" =>
            /\ ~rec[s].payload.full
            /\ s \notin objects \/ \E u \in VaultUsers : request[u].pc = "objects"
            /\ s \notin cached \/ vaultRestarts > 0
            /\ \/ tombstone[s] = "purged" \/ vaultRestarts > 0
               \/ s \in withProject
               \/ Purging(s, {"read", "save", "tombstone"})
       /\ Purging(s, {"mark", "read", "save", "tombstone"}) => s \notin objects
  /\ \A u \in VaultUsers : request[u].pc = "rows" => objects = {}

\* A tombstone follows the removal of the object.
TombstonesTrue ==
  \A s \in Snaps :
    tombstone[s] = "purged" \/ Purging(s, {"mark", "read", "save", "tombstone"})
      => s \notin objects

Calm == ~vaultOverlap /\ vaultFaults = 0

VaultInv ==
  /\ VaultTyped
  /\ AllWhole
  /\ TombstonesTrue
  /\ Calm => Alone /\ RowsFollow /\ PurgedLeavesNothing
=============================================================================
