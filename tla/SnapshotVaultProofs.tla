-------------------------- MODULE SnapshotVaultProofs --------------------------
(***************************************************************************)
(* Proofs that the vault loses no snapshot it keeps and keeps nothing of   *)
(* one it purged, for any number of snapshots, requests, rotation cycles   *)
(* and KMS providers, any rotation policy, and any number of failures and  *)
(* restarts.                                                               *)
(*                                                                         *)
(* Readability is not inductive by itself: requests and cycles work on     *)
(* copies they took earlier and write them back whole, so the copies must  *)
(* be readable too (AllWhole), and a cycle must still have a copy of every *)
(* snapshot it will look at (CycleFits).  For the purge, memory and row    *)
(* differ while one of them is being saved; RowsFollow says by whom, and   *)
(* PurgedLeavesNothing what each step of a purge has removed already.      *)
(*                                                                         *)
(* And proofs that the evidence packages can be relied on, from ExportInv: *)
(* a version of a task lives in memory, in its row and in the requests     *)
(* that will write it back, a token likewise, and what is shown of one of  *)
(* them must be shown of all.                                              *)
(***************************************************************************)
EXTENDS SnapshotVault, EvidenceExport, FiniteSetTheorems, WellFoundedInduction, TLAPS

----
(* The least of a set of numbers. *)

LessThan == OpToRel(<, Nat)

LEMMA LeastNumber ==
  ASSUME NEW T \in SUBSET Nat, T # {}
  PROVE  \E x \in T : \A y \in T : x <= y
<1>1. IsWellFoundedOn(LessThan, Nat) BY NatLessThanWellFounded DEF LessThan
<1>2. PICK x \in T : \A y \in T : <<y, x>> \notin LessThan BY <1>1, WFMin, Zenon
<1>3. \A m, n \in Nat : m < n => <<m, n>> \in LessThan BY DEF LessThan, OpToRel
<1>4. ASSUME NEW y \in T PROVE x <= y
  <2>1. x \in Nat /\ y \in Nat BY <1>2
  <2>2. ~(y < x) BY <2>1, <1>2, <1>3
  <2> QED BY <2>1, <2>2
<1> QED BY <1>4

LEMMA MinIsMember ==
  ASSUME NEW T \in SUBSET Nat, T # {}
  PROVE  Min(T) \in T
  BY LeastNumber, Zenon DEF Min

----
(* Records, payloads and cycles. *)

LEMMA SnapsAreNumbers == Snaps \in SUBSET Nat /\ SomeSnap \in Snaps
  BY VaultAssumption DEF SomeSnap

LEMMA CurrentTyped ==
  ASSUME NEW q \in KeyCycle, q.todo # {}
  PROVE  Current(q) \in q.todo /\ Current(q) \in Snaps
<1>1. q.todo \in SUBSET Nat BY SnapsAreNumbers DEF KeyCycle
<1>2. Current(q) \in q.todo BY <1>1, MinIsMember DEF Current
<1> QED BY <1>2 DEF KeyCycle

\* The copy of a snapshot is one of the copies.
LEMMA CopyOfTyped ==
  ASSUME NEW q \in KeyCycle, NEW s, \E x \in q.copies : x[1] = s
  PROVE  /\ \E x \in q.copies : x[1] = s /\ x[2] = CopyOf(q, s)
         /\ CopyOf(q, s) \in Record
<1>1. PICK x \in q.copies : x = (CHOOSE y \in q.copies : y[1] = s) /\ x[1] = s BY Zenon
<1>2. x[2] = CopyOf(q, s) BY <1>1 DEF CopyOf
<1>3. x \in Snaps \X Record BY DEF KeyCycle
<1> QED BY <1>1, <1>2, <1>3

LEMMA PayloadTyped ==
  ASSUME NEW r \in Record
  PROVE  /\ r.payload \in Payload /\ r.payload.dek \in Deks
         /\ r.payload.full \in BOOLEAN
         /\ r.payload.provider \in KmsProviders /\ r.payload.wrappedBy \in KmsProviders
  BY DEF Record, Payload

\* The state changes, the payload stays.
LEMMA StateChanged ==
  ASSUME NEW r \in Record, NEW st \in {"Active", "SoftDeleted", "Purged"}
  PROVE  /\ [r EXCEPT !.state = st] \in Record
         /\ [r EXCEPT !.state = st].state = st
         /\ [r EXCEPT !.state = st].payload = r.payload
  BY DEF Record

LEMMA PurgedTyped ==
  ASSUME NEW r \in Record
  PROVE  Purged(r) \in Record /\ Purged(r).state = "Purged" /\ ~Purged(r).payload.full
<1> DEFINE m == [r EXCEPT !.state = "Purged"]
           p == [r.payload EXCEPT !.full = FALSE]
<1>1. m \in Record /\ m.state = "Purged" /\ m.payload = r.payload BY StateChanged
<1>2. p \in Payload /\ ~p.full BY PayloadTyped DEF Payload
<1>3. Purged(r) = [m EXCEPT !.payload = p] BY <1>1 DEF Purged, Record
<1> HIDE DEF m, p
<1> QED BY <1>1, <1>2, <1>3 DEF Record

\* A payload and the day of its wrapping are replaced, the state stays.
WithPayload(r, p, d) == [r EXCEPT !.payload = p, !.rewrapped = d]

LEMMA PayloadReplaced ==
  ASSUME NEW r \in Record, NEW p \in Payload, NEW d \in 0..MaxDays
  PROVE  /\ WithPayload(r, p, d) \in Record
         /\ WithPayload(r, p, d).state = r.state
         /\ WithPayload(r, p, d).payload = p
<1> DEFINE m == [r EXCEPT !.payload = p]
<1>1. m \in Record /\ m.state = r.state /\ m.payload = p BY DEF Record
<1>2. WithPayload(r, p, d) = [m EXCEPT !.rewrapped = d] BY DEF WithPayload
<1> HIDE DEF m
<1> QED BY <1>1, <1>2 DEF Record

LEMMA RewrapTyped ==
  ASSUME NEW p \in Payload, activeKms \in KmsProviders
  PROVE  /\ Rewrap(p) \in Payload
         /\ Rewrap(p).full = p.full
         /\ Rewrap(p).provider = Rewrap(p).wrappedBy
<1> DEFINE m == [p EXCEPT !.provider = activeKms]
<1>1. m \in Payload /\ m.full = p.full /\ m.provider = activeKms BY DEF Payload
<1>2. Rewrap(p) = [m EXCEPT !.wrappedBy = activeKms] BY DEF Rewrap
<1> HIDE DEF m
<1> QED BY <1>1, <1>2 DEF Payload

LEMMA EncryptTyped ==
  ASSUME activeKms \in KmsProviders, Deks \ KnownDeks # {}
  PROVE  Encrypt \in Payload /\ Encrypt.full /\ Encrypt.provider = Encrypt.wrappedBy
<1>1. FreshDek \in Deks BY DEF FreshDek
<1> HIDE DEF FreshDek
<1> QED BY <1>1 DEF Encrypt, Payload

LEMMA NoRequestTyped ==
  /\ NoRequest \in Request /\ RequestFits(NoRequest)
  /\ NoRequest.pc = "idle" /\ NoRequest.op = "none" /\ NoRequest.copy = {}
  BY SnapsAreNumbers DEF NoRequest, Request, RequestFits

LEMMA NoCycleTyped ==
  /\ NoCycle \in KeyCycle /\ CycleFits(NoCycle)
  /\ NoCycle.pc = "idle" /\ NoCycle.copies = {} /\ NoCycle.updated = {}
  BY VaultAssumption DEF NoCycle, KeyCycle, CycleFits

\* A cycle goes on to its next snapshot.
LEMMA NextSnapshotTyped ==
  ASSUME NEW q \in KeyCycle, CycleFits(q), q.pc \notin {"idle", "loaded"}
  PROVE  /\ NextSnapshot(q) \in KeyCycle /\ CycleFits(NextSnapshot(q))
         /\ NextSnapshot(q).pc = "next"
         /\ NextSnapshot(q).copies \subseteq q.copies
         /\ NextSnapshot(q).updated = {}
<1>1. NextSnapshot(q) \in KeyCycle BY VaultAssumption DEF KeyCycle, NextSnapshot
<1>2. CycleFits(NextSnapshot(q)) BY DEF CycleFits, NextSnapshot
<1> QED BY <1>1, <1>2 DEF NextSnapshot

----
(* Steps of one request or one cycle.  What the other actors hold stays. *)

RequestMove(u, q) == request' = [request EXCEPT ![u] = q] /\ UNCHANGED keyCycle

CycleMove(c, q) == keyCycle' = [keyCycle EXCEPT ![c] = q] /\ UNCHANGED request

\* The state outside of requests and cycles keeps its shape.
StoresTyped ==
  /\ rec \in [Snaps -> Record] /\ snapRow \in [Snaps -> Record]
  /\ objects \subseteq Snaps /\ cached \subseteq Snaps /\ cachedRow \subseteq Snaps
  /\ tombstone \in [Snaps -> {"none", "deleted", "purged"}]
  /\ keyState \in [Snaps -> KeyInfo] /\ keyStateRow \in [Snaps -> KeyInfo]
  /\ activeKms \in KmsProviders /\ today \in 0..MaxDays
  /\ vaultFaults \in Nat /\ vaultRestarts \in Nat /\ vaultOverlap \in BOOLEAN

StoresWhole == \A s \in Snaps : Whole(rec[s]) /\ Whole(snapRow[s])

LEMMA RequestMoveKeeps ==
  ASSUME VaultTyped, AllWhole, NEW u \in VaultUsers, NEW q \in Request, RequestMove(u, q),
         RequestFits(q), \A r \in q.copy : Whole(r), StoresTyped', StoresWhole'
  PROVE  VaultTyped' /\ AllWhole'
<1>1. /\ request' \in [VaultUsers -> Request]
      /\ request'[u] = q
      /\ \A v \in VaultUsers \ {u} : request'[v] = request[v]
      /\ keyCycle' = keyCycle
  BY DEF RequestMove, VaultTyped
<1>2. VaultTyped' BY <1>1 DEF VaultTyped, StoresTyped, RequestFits, CycleFits
<1>3. AllWhole' BY <1>1 DEF AllWhole, StoresWhole, Whole
<1> QED BY <1>2, <1>3

LEMMA CycleMoveKeeps ==
  ASSUME VaultTyped, AllWhole, NEW c \in RotationCycles, NEW q \in KeyCycle, CycleMove(c, q),
         CycleFits(q), \A x \in q.copies \cup q.updated : Whole(x[2]),
         q.pc = "rotate" => CopyOf(q, Current(q)).state # "Purged",
         StoresTyped', StoresWhole'
  PROVE  VaultTyped' /\ AllWhole'
<1>1. /\ keyCycle' \in [RotationCycles -> KeyCycle]
      /\ keyCycle'[c] = q
      /\ \A d \in RotationCycles \ {c} : keyCycle'[d] = keyCycle[d]
      /\ request' = request
  BY DEF CycleMove, VaultTyped
<1>2. VaultTyped' BY <1>1 DEF VaultTyped, StoresTyped, RequestFits, CycleFits
<1>3. \A d \in RotationCycles :
        /\ \A x \in keyCycle'[d].copies \cup keyCycle'[d].updated : Whole(x[2])
        /\ keyCycle'[d].pc = "rotate" =>
             CopyOf(keyCycle'[d], Current(keyCycle'[d])).state # "Purged"
  BY <1>1 DEF AllWhole
<1>4. AllWhole' BY <1>1, <1>3 DEF AllWhole, StoresWhole, Whole
<1> QED BY <1>2, <1>4

LEMMA StoresFromTyped == VaultTyped /\ AllWhole => StoresTyped /\ StoresWhole
  BY DEF VaultTyped, AllWhole, StoresTyped, StoresWhole

LEMMA RequestTyped ==
  ASSUME VaultTyped, AllWhole, NEW u \in VaultUsers
  PROVE  /\ request \in [VaultUsers -> Request]
         /\ request[u] \in Request /\ RequestFits(request[u])
         /\ request[u].snap \in Snaps /\ request[u].copy \subseteq Record
         /\ \A r \in request[u].copy : Whole(r)
  BY DEF VaultTyped, AllWhole, Request

LEMMA CycleTyped ==
  ASSUME VaultTyped, AllWhole, NEW c \in RotationCycles
  PROVE  /\ keyCycle \in [RotationCycles -> KeyCycle]
         /\ keyCycle[c] \in KeyCycle /\ CycleFits(keyCycle[c])
         /\ keyCycle[c].todo \subseteq Snaps
         /\ keyCycle[c].copies \subseteq Snaps \X Record
         /\ keyCycle[c].updated \subseteq Snaps \X Record
         /\ \A x \in keyCycle[c].copies \cup keyCycle[c].updated : Whole(x[2])
  BY DEF VaultTyped, AllWhole, KeyCycle

RequestPcs == {"idle", "object", "mark", "read", "save", "tombstone", "objects", "rows"}

LEMMA RequestAt ==
  ASSUME NEW q \in Request, NEW pc \in RequestPcs
  PROVE  /\ [q EXCEPT !.pc = pc] \in Request
         /\ [q EXCEPT !.pc = pc].pc = pc
         /\ [q EXCEPT !.pc = pc].op = q.op
         /\ [q EXCEPT !.pc = pc].snap = q.snap
         /\ [q EXCEPT !.pc = pc].copy = q.copy
  BY DEF Request, RequestPcs

WithCopy(q, pc, copy) == [q EXCEPT !.pc = pc, !.copy = copy]

LEMMA RequestWith ==
  ASSUME NEW q \in Request, NEW pc \in RequestPcs, NEW copy \in SUBSET Record
  PROVE  /\ WithCopy(q, pc, copy) \in Request
         /\ WithCopy(q, pc, copy).pc = pc
         /\ WithCopy(q, pc, copy).op = q.op
         /\ WithCopy(q, pc, copy).snap = q.snap
         /\ WithCopy(q, pc, copy).copy = copy
<1> DEFINE m == [q EXCEPT !.pc = pc]
<1>1. m \in Request /\ m.pc = pc /\ m.op = q.op /\ m.snap = q.snap BY RequestAt
<1>2. WithCopy(q, pc, copy) = [m EXCEPT !.copy = copy] BY DEF WithCopy
<1> HIDE DEF m
<1> QED BY <1>1, <1>2 DEF Request

LEMMA StartRequestKeeps ==
  ASSUME VaultTyped, AllWhole, NEW u \in VaultUsers, NEW s \in Snaps,
         NEW op, NEW pc, NEW copy, vaultOverlap' \in BOOLEAN,
         StartRequest(u, s, op, pc, copy),
         \/ op \in {"delete", "restore"} /\ pc = "mark" /\ copy = {}
         \/ op = "purge" /\ pc = "object" /\ copy = {}
         \/ op = "refresh" /\ pc = "mark" /\ copy = {rec[s]} /\ rec[s].state = "Active"
  PROVE  VaultTyped' /\ AllWhole'
<1> DEFINE q == [pc |-> pc, op |-> op, snap |-> s, copy |-> copy]
<1>1. rec[s] \in Record /\ Whole(rec[s]) BY DEF VaultTyped, AllWhole
<1>2. q \in Request BY <1>1 DEF Request
<1>3. RequestFits(q) /\ \A r \in q.copy : Whole(r) BY <1>1 DEF RequestFits
<1>4. RequestMove(u, q) BY DEF StartRequest, RequestMove
<1> HIDE DEF q
<1>5. StoresTyped' /\ StoresWhole' BY StoresFromTyped DEF StartRequest, StoresTyped, StoresWhole
<1> QED BY <1>2, <1>3, <1>4, <1>5, RequestMoveKeeps

LEMMA DeleteObjectKeeps ==
  ASSUME VaultTyped, AllWhole, NEW u \in VaultUsers, vaultOverlap' \in BOOLEAN,
         DeleteObject(u)
  PROVE  VaultTyped' /\ AllWhole'
<1> DEFINE n == [request[u] EXCEPT !.pc = "mark"]
<1>1. /\ n \in Request /\ n.pc = "mark" /\ n.op = request[u].op
      /\ n.snap = request[u].snap /\ n.copy = request[u].copy
  BY RequestTyped, RequestAt DEF RequestPcs
<1>2. RequestFits(n) /\ \A r \in n.copy : Whole(r) BY <1>1, RequestTyped DEF RequestFits, DeleteObject
<1>3. RequestMove(u, n) \/ RequestMove(u, NoRequest) BY DEF DeleteObject, RequestMove
<1> HIDE DEF n
<1>4. StoresTyped' /\ StoresWhole'
  BY StoresFromTyped DEF DeleteObject, VaultFault, StoresTyped, StoresWhole
<1> QED BY <1>1, <1>2, <1>3, <1>4, NoRequestTyped, RequestMoveKeeps

\* What a mark makes of the record of s.
LEMMA MarkedTyped ==
  ASSUME NEW r \in Record, Whole(r), NEW op, op # "purge" => r.state # "Purged"
  PROVE  LET m == CASE op = "purge" -> Purged(r)
                    [] op = "delete" -> [r EXCEPT !.state = "SoftDeleted"]
                    [] OTHER -> [r EXCEPT !.state = "Active"]
         IN  /\ m \in Record /\ Whole(m)
             /\ m.state = IF op = "purge" THEN "Purged"
                          ELSE IF op = "delete" THEN "SoftDeleted" ELSE "Active"
             /\ m.state = "Purged" => ~m.payload.full
<1>1. CASE op = "purge" BY <1>1, PurgedTyped DEF Whole
<1>2. CASE op = "delete" BY <1>2, StateChanged DEF Whole
<1>3. CASE op \notin {"purge", "delete"} BY <1>3, StateChanged DEF Whole
<1> QED BY <1>1, <1>2, <1>3

\* The record, the cache and the request, when a mark is not refused.
LEMMA MarkSnapshotSplit ==
  ASSUME VaultTyped, AllWhole, NEW u \in VaultUsers, MarkSnapshot(u)
  PROVE  LET s == request[u].snap
             op == request[u].op
             n == [request[u] EXCEPT !.pc = "read"]
         IN  \/ /\ op # "purge" /\ rec[s].state = "Purged"
                /\ RequestMove(u, NoRequest) /\ UNCHANGED <<rec, cached>>
             \/ /\ op = "purge" \/ rec[s].state # "Purged"
                /\ RequestMove(u, n)
                /\ rec' \in [Snaps -> Record] /\ Whole(rec'[s])
                /\ rec'[s].state = IF op = "purge" THEN "Purged"
                                   ELSE IF op = "delete" THEN "SoftDeleted" ELSE "Active"
                /\ rec'[s].state = "Purged" => ~rec'[s].payload.full
                /\ \A t \in Snaps \ {s} : rec'[t] = rec[t]
                /\ cached' = IF op = "restore" THEN cached ELSE cached \ {s}
<1> DEFINE s == request[u].snap
           op == request[u].op
           n == [request[u] EXCEPT !.pc = "read"]
           m == CASE op = "purge" -> Purged(rec[s])
                  [] op = "delete" -> [rec[s] EXCEPT !.state = "SoftDeleted"]
                  [] OTHER -> [rec[s] EXCEPT !.state = "Active"]
<1>1. s \in Snaps /\ rec \in [Snaps -> Record] /\ rec[s] \in Record /\ Whole(rec[s])
  BY RequestTyped DEF VaultTyped, AllWhole
<1>2. CASE op # "purge" /\ rec[s].state = "Purged" BY <1>2 DEF MarkSnapshot, RequestMove
<1>3. CASE ~(op # "purge" /\ rec[s].state = "Purged")
  <2>1. /\ rec' = [rec EXCEPT ![s] = m]
        /\ cached' = IF op = "restore" THEN cached ELSE cached \ {s}
        /\ RequestMove(u, n)
    BY <1>3 DEF MarkSnapshot, RequestMove
  <2>2. /\ m \in Record /\ Whole(m)
        /\ m.state = IF op = "purge" THEN "Purged"
                     ELSE IF op = "delete" THEN "SoftDeleted" ELSE "Active"
        /\ m.state = "Purged" => ~m.payload.full
    BY <1>1, <1>3, MarkedTyped
  <2> HIDE DEF m, n, s
  <2>3. rec' \in [Snaps -> Record] /\ rec'[s] = m /\ \A t \in Snaps \ {s} : rec'[t] = rec[t]
    BY <1>1, <2>1, <2>2
  <2>4. op = "purge" \/ rec[s].state # "Purged" BY <1>3
  <2> QED BY <2>1, <2>2, <2>3, <2>4 DEF n, s
<1> QED BY <1>2, <1>3

LEMMA MarkSnapshotKeeps ==
  ASSUME VaultTyped, AllWhole, NEW u \in VaultUsers, vaultOverlap' \in BOOLEAN,
         MarkSnapshot(u)
  PROVE  VaultTyped' /\ AllWhole'
<1> DEFINE n == [request[u] EXCEPT !.pc = "read"]
<1>1. /\ n \in Request /\ n.pc = "read" /\ n.op = request[u].op
      /\ n.snap = request[u].snap /\ n.copy = request[u].copy
  BY RequestTyped, RequestAt DEF RequestPcs
<1>2. RequestFits(n) /\ \A r \in n.copy : Whole(r) BY <1>1, RequestTyped DEF RequestFits, MarkSnapshot
<1> HIDE DEF n
<1>3. /\ RequestMove(u, n) \/ RequestMove(u, NoRequest)
      /\ rec' \in [Snaps -> Record] /\ cached' \subseteq Snaps
      /\ \A s \in Snaps : Whole(rec'[s])
  BY MarkSnapshotSplit, RequestTyped DEF VaultTyped, AllWhole, n
<1>4. StoresTyped' /\ StoresWhole'
  BY <1>3, StoresFromTyped DEF MarkSnapshot, StoresTyped, StoresWhole, Whole
<1> QED BY <1>1, <1>2, <1>3, <1>4, NoRequestTyped, RequestMoveKeeps

LEMMA ReadSnapshotKeeps ==
  ASSUME VaultTyped, AllWhole, NEW u \in VaultUsers, vaultOverlap' \in BOOLEAN,
         ReadSnapshot(u)
  PROVE  VaultTyped' /\ AllWhole'
<1> DEFINE s == request[u].snap
           n == WithCopy(request[u], "save", {rec[s]})
<1>1. s \in Snaps /\ rec[s] \in Record /\ Whole(rec[s]) BY RequestTyped DEF VaultTyped, AllWhole
<1>2. /\ n \in Request /\ n.pc = "save" /\ n.op = request[u].op /\ n.copy = {rec[s]}
  BY <1>1, RequestTyped, RequestWith DEF RequestPcs
<1>3. RequestFits(n) /\ \A r \in n.copy : Whole(r)
  BY <1>1, <1>2, RequestTyped DEF RequestFits, ReadSnapshot
<1>4. RequestMove(u, n) BY DEF ReadSnapshot, RequestMove, WithCopy
<1> HIDE DEF n
<1>5. StoresTyped' /\ StoresWhole'
  BY StoresFromTyped DEF ReadSnapshot, VaultFault, StoresTyped, StoresWhole
<1> QED BY <1>2, <1>3, <1>4, <1>5, RequestMoveKeeps

\* A refresh that succeeds.
LEMMA RewrapSnapshotSplit ==
  ASSUME VaultTyped, AllWhole, NEW u \in VaultUsers, RewrapSnapshot(u)
  PROVE  LET s == request[u].snap
             n == WithCopy(request[u], "save", {rec'[s]})
         IN  \/ /\ RequestMove(u, n) /\ UNCHANGED vaultFaults
                /\ rec' \in [Snaps -> Record]
                /\ rec'[s].state = rec[s].state /\ Whole(rec'[s])
                /\ \A t \in Snaps \ {s} : rec'[t] = rec[t]
             \/ /\ RequestMove(u, NoRequest) /\ UNCHANGED rec
                /\ UNCHANGED vaultFaults \/ VaultFault
<1> DEFINE s == request[u].snap
           n == WithCopy(request[u], "save", {rec'[s]})
<1>1. PICK r \in request[u].copy :
        \/ /\ Unwraps(r.payload)
           /\ rec' = [rec EXCEPT ![s] = [rec[s] EXCEPT !.payload = Rewrap(r.payload),
                                                       !.rewrapped = today]]
           /\ request' = [request EXCEPT ![u] = n]
           /\ UNCHANGED vaultFaults
        \/ /\ (~Unwraps(r.payload) /\ UNCHANGED vaultFaults) \/ VaultFault
           /\ request' = [request EXCEPT ![u] = NoRequest]
           /\ UNCHANGED rec
  BY DEF RewrapSnapshot, WithCopy
<1>2. /\ r \in Record /\ r.payload \in Payload /\ r.payload.full
      /\ s \in Snaps /\ rec \in [Snaps -> Record] /\ today \in 0..MaxDays
      /\ activeKms \in KmsProviders
  <2>1. r \in Record /\ Whole(r) /\ r.state = "Active" BY RequestTyped DEF RewrapSnapshot, RequestFits
  <2> QED BY <2>1, PayloadTyped, RequestTyped DEF Whole, VaultTyped
<1>3. CASE rec' = [rec EXCEPT ![s] = [rec[s] EXCEPT !.payload = Rewrap(r.payload),
                                                    !.rewrapped = today]]
           /\ request' = [request EXCEPT ![u] = n] /\ UNCHANGED vaultFaults
  <2> DEFINE m == WithPayload(rec[s], Rewrap(r.payload), today)
  <2>1. /\ Rewrap(r.payload) \in Payload /\ Rewrap(r.payload).full
        /\ Rewrap(r.payload).provider = Rewrap(r.payload).wrappedBy
    BY <1>2, RewrapTyped
  <2>2. m \in Record /\ m.state = rec[s].state /\ m.payload = Rewrap(r.payload)
    BY <1>2, <2>1, PayloadReplaced
  <2>3. rec' = [rec EXCEPT ![s] = m] BY <1>3 DEF WithPayload
  <2> HIDE DEF m
  <2>4. rec' \in [Snaps -> Record] /\ rec'[s] = m /\ \A t \in Snaps \ {s} : rec'[t] = rec[t]
    BY <1>2, <2>2, <2>3
  <2>5. Whole(m) BY <2>1, <2>2 DEF Whole
  <2>6. RequestMove(u, n) BY <1>3 DEF RewrapSnapshot, RequestMove
  <2> QED BY <1>3, <2>2, <2>4, <2>5, <2>6
<1>4. CASE request' = [request EXCEPT ![u] = NoRequest] /\ UNCHANGED rec
           /\ (UNCHANGED vaultFaults \/ VaultFault)
  BY <1>4 DEF RewrapSnapshot, RequestMove
<1> QED BY <1>1, <1>3, <1>4

LEMMA RewrapSnapshotKeeps ==
  ASSUME VaultTyped, AllWhole, NEW u \in VaultUsers, vaultOverlap' \in BOOLEAN,
         RewrapSnapshot(u)
  PROVE  VaultTyped' /\ AllWhole'
<1> DEFINE s == request[u].snap
           n == WithCopy(request[u], "save", {rec'[s]})
<1>1. s \in Snaps /\ request[u] \in Request BY RequestTyped
<1>2. ASSUME rec' \in [Snaps -> Record], Whole(rec'[s])
      PROVE  n \in Request /\ RequestFits(n) /\ \A r \in n.copy : Whole(r)
  <2>1. {rec'[s]} \in SUBSET Record BY <1>1, <1>2
  <2>2. n \in Request /\ n.pc = "save" /\ n.op = request[u].op /\ n.copy = {rec'[s]}
    BY <1>1, <2>1, RequestWith DEF RequestPcs
  <2>3. RequestFits(n) BY <1>1, <1>2, <2>2, RequestTyped DEF RequestFits, RewrapSnapshot
  <2> QED BY <1>2, <2>2, <2>3
<1> HIDE DEF n
<1>3. \/ RequestMove(u, n) /\ rec' \in [Snaps -> Record] /\ Whole(rec'[s])
      \/ RequestMove(u, NoRequest)
  BY RewrapSnapshotSplit DEF n
<1>4. rec' \in [Snaps -> Record] /\ \A t \in Snaps : Whole(rec'[t])
  BY RewrapSnapshotSplit, <1>1 DEF VaultTyped, AllWhole
<1>5. StoresTyped' /\ StoresWhole'
  BY <1>4, StoresFromTyped DEF RewrapSnapshot, VaultFault, StoresTyped, StoresWhole, Whole
<1> QED BY <1>2, <1>3, <1>5, NoRequestTyped, RequestMoveKeeps

LEMMA SaveSnapshotKeeps ==
  ASSUME VaultTyped, AllWhole, NEW u \in VaultUsers, vaultOverlap' \in BOOLEAN,
         SaveSnapshot(u)
  PROVE  VaultTyped' /\ AllWhole'
<1> DEFINE n == WithCopy(request[u], "tombstone", {})
<1>1. /\ n \in Request /\ n.pc = "tombstone" /\ n.op = request[u].op /\ n.copy = {}
  BY RequestTyped, RequestWith DEF RequestPcs
<1>2. request[u].op \in {"delete", "purge"} => RequestFits(n) BY <1>1, RequestTyped DEF RequestFits
<1>3. \/ RequestMove(u, n) /\ request[u].op \in {"delete", "purge"}
      \/ RequestMove(u, NoRequest)
  BY DEF SaveSnapshot, RequestMove, WithCopy
<1> HIDE DEF n
<1>4. /\ snapRow' \in [Snaps -> Record] /\ \A s \in Snaps : Whole(snapRow'[s])
      /\ vaultFaults' \in Nat
  BY RequestTyped, StoresFromTyped DEF SaveSnapshot, VaultFault, StoresTyped, StoresWhole
<1>5. StoresTyped' /\ StoresWhole' BY <1>4, StoresFromTyped DEF SaveSnapshot, StoresTyped, StoresWhole
<1> QED BY <1>1, <1>2, <1>3, <1>5, NoRequestTyped, RequestMoveKeeps

LEMMA SaveTombstoneKeeps ==
  ASSUME VaultTyped, AllWhole, NEW u \in VaultUsers, vaultOverlap' \in BOOLEAN,
         SaveTombstone(u)
  PROVE  VaultTyped' /\ AllWhole'
<1>1. RequestMove(u, NoRequest) BY DEF SaveTombstone, RequestMove
<1>2. StoresTyped' /\ StoresWhole'
  BY StoresFromTyped DEF SaveTombstone, VaultFault, StoresTyped, StoresWhole
<1> QED BY <1>1, <1>2, NoRequestTyped, RequestMoveKeeps

LEMMA PurgeProjectKeeps ==
  ASSUME VaultTyped, AllWhole, NEW u \in VaultUsers, vaultOverlap' \in BOOLEAN,
         PurgeProjectSnapshots(u)
  PROVE  VaultTyped' /\ AllWhole'
<1> DEFINE n == [NoRequest EXCEPT !.pc = "objects", !.op = "project"]
<1>1. n \in Request /\ RequestFits(n) /\ n.copy = {}
  BY SnapsAreNumbers DEF NoRequest, Request, RequestFits
<1>2. RequestMove(u, n) BY DEF PurgeProjectSnapshots, RequestMove
<1> HIDE DEF n
<1>3. rec' \in [Snaps -> Record] /\ \A s \in Snaps : Whole(rec'[s])
  BY PurgedTyped DEF PurgeProjectSnapshots, Whole, VaultTyped
<1>4. StoresTyped' /\ StoresWhole'
  BY <1>3, StoresFromTyped DEF PurgeProjectSnapshots, StoresTyped, StoresWhole
<1> QED BY <1>1, <1>2, <1>4, RequestMoveKeeps

LEMMA DeleteProjectObjectsKeeps ==
  ASSUME VaultTyped, AllWhole, NEW u \in VaultUsers, vaultOverlap' \in BOOLEAN,
         DeleteProjectObjects(u)
  PROVE  VaultTyped' /\ AllWhole'
<1> DEFINE n == [request[u] EXCEPT !.pc = "rows"]
<1>1. /\ n \in Request /\ n.pc = "rows" /\ n.op = request[u].op /\ n.copy = request[u].copy
  BY RequestTyped, RequestAt DEF RequestPcs
<1>2. RequestFits(n) /\ \A r \in n.copy : Whole(r)
  BY <1>1, RequestTyped DEF RequestFits, DeleteProjectObjects
<1>3. RequestMove(u, n) \/ RequestMove(u, NoRequest) BY DEF DeleteProjectObjects, RequestMove
<1> HIDE DEF n
<1>4. StoresTyped' /\ StoresWhole'
  BY StoresFromTyped DEF DeleteProjectObjects, VaultFault, StoresTyped, StoresWhole
<1> QED BY <1>1, <1>2, <1>3, <1>4, NoRequestTyped, RequestMoveKeeps

LEMMA DeleteRowsKeeps ==
  ASSUME VaultTyped, AllWhole, NEW u \in VaultUsers, vaultOverlap' \in BOOLEAN,
         DeleteSnapshotsForProject(u)
  PROVE  VaultTyped' /\ AllWhole'
<1>1. RequestMove(u, NoRequest) BY DEF DeleteSnapshotsForProject, RequestMove
<1>2. /\ snapRow' \in [Snaps -> Record] /\ \A s \in Snaps : Whole(snapRow'[s])
      /\ vaultFaults' \in Nat
  BY PurgedTyped, StoresFromTyped
     DEF DeleteSnapshotsForProject, VaultFault, Whole, StoresTyped, StoresWhole
<1>3. StoresTyped' /\ StoresWhole'
  BY <1>2, StoresFromTyped DEF DeleteSnapshotsForProject, StoresTyped, StoresWhole
<1> QED BY <1>1, <1>3, NoRequestTyped, RequestMoveKeeps

----
(* The steps of a rotation cycle. *)

\* A cycle whose pc moves, with new operations or updated records.
LEMMA CycleAt ==
  ASSUME NEW q \in KeyCycle, NEW pc \in {"idle", "loaded", "next", "rotate", "save", "finish"}
  PROVE  /\ [q EXCEPT !.pc = pc] \in KeyCycle
         /\ [q EXCEPT !.pc = pc].pc = pc
         /\ [q EXCEPT !.pc = pc].todo = q.todo
         /\ [q EXCEPT !.pc = pc].copies = q.copies
         /\ [q EXCEPT !.pc = pc].ops = q.ops
         /\ [q EXCEPT !.pc = pc].updated = q.updated
  BY DEF KeyCycle

Restored(q) == [q EXCEPT !.pc = "next", !.copies = {x \in q.copies : x[1] \in q.todo}]

LEMMA RestoredTyped ==
  ASSUME NEW q \in KeyCycle, CycleFits(q)
  PROVE  /\ Restored(q) \in KeyCycle /\ CycleFits(Restored(q))
         /\ Restored(q).pc = "next"
         /\ Restored(q).copies \subseteq q.copies
         /\ Restored(q).updated = q.updated
<1> DEFINE m == [q EXCEPT !.pc = "next"]
           copies == {x \in q.copies : x[1] \in q.todo}
           n == [m EXCEPT !.copies = copies]
<1>1. m \in KeyCycle /\ m.pc = "next" /\ m.todo = q.todo /\ m.updated = q.updated BY CycleAt
<1>2. Restored(q) = n BY DEF Restored
<1>3. copies \in SUBSET (Snaps \X Record) /\ copies \subseteq q.copies BY DEF KeyCycle
<1>4. \A s \in q.todo : \E x \in copies : x[1] = s BY DEF CycleFits
<1> HIDE DEF m, copies
<1>5. /\ n \in KeyCycle /\ n.pc = "next" /\ n.todo = q.todo /\ n.updated = q.updated
      /\ n.copies = copies
  BY <1>1, <1>3 DEF KeyCycle
<1> HIDE DEF n
<1>6. CycleFits(n) BY <1>4, <1>5 DEF CycleFits
<1> QED BY <1>2, <1>3, <1>5, <1>6

Chosen(q, ops, d) == [q EXCEPT !.pc = "rotate", !.ops = ops, !.day = d]

LEMMA ChosenTyped ==
  ASSUME NEW q \in KeyCycle, CycleFits(q), q.todo # {},
         NEW ops \in SUBSET {"dek", "kek"}, ops # {}, NEW d \in 0..MaxDays
  PROVE  /\ Chosen(q, ops, d) \in KeyCycle /\ CycleFits(Chosen(q, ops, d))
         /\ Chosen(q, ops, d).pc = "rotate" /\ Chosen(q, ops, d).todo = q.todo
         /\ Chosen(q, ops, d).copies = q.copies
         /\ Chosen(q, ops, d).updated = q.updated
<1> DEFINE m == [q EXCEPT !.pc = "rotate"]
           l == [m EXCEPT !.ops = ops]
           n == [l EXCEPT !.day = d]
<1>1. /\ m \in KeyCycle /\ m.pc = "rotate" /\ m.todo = q.todo /\ m.updated = q.updated
      /\ m.copies = q.copies
  BY CycleAt
<1>2. Chosen(q, ops, d) = n BY DEF Chosen
<1> HIDE DEF m
<1>3. /\ l \in KeyCycle /\ l.pc = "rotate" /\ l.todo = q.todo /\ l.updated = q.updated
      /\ l.copies = q.copies /\ l.ops = ops
  BY <1>1 DEF KeyCycle
<1> HIDE DEF l
<1>4. /\ n \in KeyCycle /\ n.pc = "rotate" /\ n.todo = q.todo /\ n.updated = q.updated
      /\ n.copies = q.copies /\ n.ops = ops
  BY <1>3 DEF KeyCycle
<1> HIDE DEF n
<1>5. CycleFits(n) BY <1>4 DEF CycleFits
<1> QED BY <1>2, <1>4, <1>5

Rotated(q, updated) == [q EXCEPT !.pc = "save", !.updated = updated]

LEMMA RotatedTyped ==
  ASSUME NEW q \in KeyCycle, CycleFits(q), q.pc = "rotate",
         NEW updated \in SUBSET (Snaps \X Record)
  PROVE  /\ Rotated(q, updated) \in KeyCycle /\ CycleFits(Rotated(q, updated))
         /\ Rotated(q, updated).pc = "save" /\ Rotated(q, updated).todo = q.todo
         /\ Rotated(q, updated).copies = q.copies
         /\ Rotated(q, updated).updated = updated
<1> DEFINE m == [q EXCEPT !.pc = "save"]
           n == [m EXCEPT !.updated = updated]
<1>1. /\ m \in KeyCycle /\ m.pc = "save" /\ m.todo = q.todo /\ m.ops = q.ops
      /\ m.copies = q.copies
  BY CycleAt
<1>2. Rotated(q, updated) = n BY DEF Rotated
<1> HIDE DEF m
<1>3. /\ n \in KeyCycle /\ n.pc = "save" /\ n.todo = q.todo /\ n.updated = updated
      /\ n.copies = q.copies /\ n.ops = q.ops
  BY <1>1 DEF KeyCycle
<1> HIDE DEF n
<1>4. CycleFits(n) BY <1>3 DEF CycleFits
<1> QED BY <1>2, <1>3, <1>4

LEMMA FinishTyped ==
  ASSUME NEW q \in KeyCycle, CycleFits(q), q.pc = "save"
  PROVE  CycleFits([q EXCEPT !.pc = "finish"])
<1> DEFINE n == [q EXCEPT !.pc = "finish"]
<1>1. n.pc = "finish" /\ n.todo = q.todo /\ n.ops = q.ops /\ n.copies = q.copies BY CycleAt
<1> HIDE DEF n
<1>2. CycleFits(n) BY <1>1 DEF CycleFits
<1> QED BY <1>2 DEF n

\* What a cycle loads: every row, and the snapshots of its batch.
Loaded(force, wants, only) ==
  [pc |-> "loaded", force |-> force, wants |-> wants, todo |-> Batch(only, force),
   copies |-> {<<s, snapRow[s]>> : s \in Snaps}, ops |-> {}, day |-> 0, updated |-> {}]

LEMMA LoadedTyped ==
  ASSUME NEW force \in BOOLEAN, NEW wants \in SUBSET {"dek", "kek"},
         NEW only \in SUBSET Snaps, snapRow \in [Snaps -> Record]
  PROVE  /\ Loaded(force, wants, only) \in KeyCycle
         /\ CycleFits(Loaded(force, wants, only))
         /\ Loaded(force, wants, only).pc = "loaded"
         /\ \A x \in Loaded(force, wants, only).copies :
              \E s \in Snaps : x = <<s, snapRow[s]>>
         /\ Loaded(force, wants, only).updated = {}
<1> DEFINE todo == Batch(only, force)
           copies == {<<s, snapRow[s]>> : s \in Snaps}
           n == [pc |-> "loaded", force |-> force, wants |-> wants, todo |-> todo,
                 copies |-> copies, ops |-> {}, day |-> 0, updated |-> {}]
<1>1. todo \in SUBSET Snaps BY DEF Batch
<1>2. copies \in SUBSET (Snaps \X Record) OBVIOUS
<1>3. \A s \in Snaps : \E x \in copies : x[1] = s
  <2> TAKE s \in Snaps
  <2> WITNESS <<s, snapRow[s]>> \in copies
  <2> QED OBVIOUS
<1>4. Loaded(force, wants, only) = n BY DEF Loaded
<1> HIDE DEF todo, copies
<1>5. /\ n \in KeyCycle /\ n.pc = "loaded" /\ n.copies = copies /\ n.updated = {}
      /\ n.todo = todo
  BY <1>1, <1>2, VaultAssumption DEF KeyCycle
<1> HIDE DEF n
<1>6. CycleFits(n) BY <1>1, <1>3, <1>5 DEF CycleFits
<1> QED BY <1>4, <1>5, <1>6 DEF copies

LEMMA LoadKeeps ==
  ASSUME VaultTyped, AllWhole, NEW c \in RotationCycles, NEW force \in BOOLEAN,
         NEW wants \in SUBSET {"dek", "kek"}, NEW only \in SUBSET Snaps,
         vaultOverlap' \in BOOLEAN, LoadKeyRotationSnapshots(c, force, wants, only)
  PROVE  VaultTyped' /\ AllWhole'
<1> DEFINE n == Loaded(force, wants, only)
<1>1. /\ n \in KeyCycle /\ CycleFits(n) /\ n.pc = "loaded"
      /\ \A x \in n.copies : \E s \in Snaps : x = <<s, snapRow[s]>>
      /\ n.updated = {}
  <2>1. snapRow \in [Snaps -> Record] BY DEF VaultTyped
  <2>2. n \in KeyCycle BY <2>1, LoadedTyped
  <2>3. CycleFits(n) BY <2>1, LoadedTyped
  <2>4. n.pc = "loaded" BY DEF Loaded
  <2>5. \A x \in n.copies : \E s \in Snaps : x = <<s, snapRow[s]>> BY <2>1, LoadedTyped
  <2>6. n.updated = {} BY <2>1, LoadedTyped
  <2> QED BY <2>2, <2>3, <2>4, <2>5, <2>6
<1>2. \A x \in n.copies \cup n.updated : Whole(x[2]) BY <1>1 DEF AllWhole
<1>3. CycleMove(c, n) \/ UNCHANGED <<keyCycle, request>>
  BY DEF LoadKeyRotationSnapshots, CycleMove, CycleUnchanged, Loaded
<1> HIDE DEF n
<1>4. StoresTyped' /\ StoresWhole' BY StoresFromTyped
     DEF LoadKeyRotationSnapshots, VaultFault, CycleUnchanged, StoresTyped, StoresWhole
<1>5. CASE CycleMove(c, n) BY <1>1, <1>2, <1>4, <1>5, CycleMoveKeeps
<1>6. CASE UNCHANGED <<keyCycle, request>>
  BY <1>4, <1>6 DEF VaultTyped, AllWhole, StoresTyped, StoresWhole
<1> QED BY <1>3, <1>5, <1>6

LEMMA RestoreRecordsKeeps ==
  ASSUME VaultTyped, AllWhole, NEW c \in RotationCycles, vaultOverlap' \in BOOLEAN,
         RestoreRecords(c)
  PROVE  VaultTyped' /\ AllWhole'
<1> DEFINE q == keyCycle[c]
           n == Restored(q)
<1>1. /\ q \in KeyCycle /\ CycleFits(q) /\ q.pc = "loaded"
      /\ \A x \in q.copies \cup q.updated : Whole(x[2])
  BY CycleTyped DEF RestoreRecords
<1>2. /\ n \in KeyCycle /\ CycleFits(n) /\ n.pc = "next"
      /\ \A x \in n.copies \cup n.updated : Whole(x[2])
  BY <1>1, RestoredTyped
<1>3. CycleMove(c, n) BY DEF RestoreRecords, CycleMove, CycleUnchanged, Restored
<1> HIDE DEF n
<1>4. ASSUME NEW s \in Snaps PROVE CopyOf(q, s) \in Record /\ Whole(CopyOf(q, s))
  <2>1. \E x \in q.copies : x[1] = s BY <1>1 DEF CycleFits
  <2> QED BY <1>1, <2>1, CopyOfTyped
<1>5. rec' \in [Snaps -> Record] /\ \A s \in Snaps : Whole(rec'[s]) BY <1>4 DEF RestoreRecords
<1>6. StoresTyped' /\ StoresWhole' BY <1>5, StoresFromTyped
     DEF RestoreRecords, CycleUnchanged, StoresTyped, StoresWhole
<1> QED BY <1>2, <1>3, <1>6, CycleMoveKeeps

LEMMA PersistKeyStateTyped ==
  ASSUME StoresTyped, NEW s \in Snaps, NEW k \in KeyInfo, PersistKeyState(s, k)
  PROVE  /\ keyState' \in [Snaps -> KeyInfo] /\ keyStateRow' \in [Snaps -> KeyInfo]
         /\ vaultFaults' \in Nat
  BY DEF PersistKeyState, VaultFault, StoresTyped

LEMMA KeyDayTyped ==
  ASSUME StoresTyped, NEW s \in Snaps, NEW r
  PROVE  KeyDay(s, r) \in 0..MaxDays
  BY VaultAssumption DEF KeyDay, StoresTyped, KeyInfo

LEMMA ChooseOperationKeeps ==
  ASSUME VaultTyped, AllWhole, NEW c \in RotationCycles, vaultOverlap' \in BOOLEAN,
         ChooseOperation(c)
  PROVE  VaultTyped' /\ AllWhole'
<1> DEFINE q == keyCycle[c]
           s == Current(q)
           r == CopyOf(q, s)
           ops == IF q.force THEN q.wants ELSE q.wants \cap Due(s, r)
<1>1. /\ q \in KeyCycle /\ CycleFits(q) /\ q.pc = "next" /\ q.todo # {}
      /\ \A x \in q.copies \cup q.updated : Whole(x[2])
  BY CycleTyped DEF ChooseOperation
<1>2. s \in q.todo /\ s \in Snaps BY <1>1, CurrentTyped
<1>3. r \in Record BY <1>1, <1>2, CopyOfTyped DEF CycleFits
<1>4. ops \in SUBSET {"dek", "kek"} BY <1>1 DEF KeyCycle
<1>5. \/ CycleMove(c, NextSnapshot(q))
      \/ r.state # "Purged" /\ ops # {} /\ CycleMove(c, Chosen(q, ops, today))
  BY DEF ChooseOperation, CycleMove, CycleUnchanged, Chosen
<1>6. [dek |-> r.payload.dek, day |-> KeyDay(s, r)] \in KeyInfo
  BY <1>2, <1>3, PayloadTyped, KeyDayTyped, StoresFromTyped DEF KeyInfo
<1>7. PersistKeyState(s, [dek |-> r.payload.dek, day |-> KeyDay(s, r)]) BY DEF ChooseOperation
<1> HIDE DEF ops, s, r
<1>8. StoresTyped' /\ StoresWhole' BY <1>2, <1>6, <1>7, PersistKeyStateTyped, StoresFromTyped
     DEF ChooseOperation, CycleUnchanged, StoresTyped, StoresWhole
<1>9. CASE CycleMove(c, NextSnapshot(q))
  <2>1. /\ NextSnapshot(q) \in KeyCycle /\ CycleFits(NextSnapshot(q))
        /\ NextSnapshot(q).pc = "next"
        /\ \A x \in NextSnapshot(q).copies \cup NextSnapshot(q).updated : Whole(x[2])
    BY <1>1, NextSnapshotTyped
  <2> QED BY <1>8, <1>9, <2>1, CycleMoveKeeps
<1>10. CASE r.state # "Purged" /\ ops # {} /\ CycleMove(c, Chosen(q, ops, today))
  <2>1. today \in 0..MaxDays BY DEF VaultTyped
  <2> DEFINE n == Chosen(q, ops, today)
  <2>2. /\ n \in KeyCycle /\ CycleFits(n) /\ n.todo = q.todo /\ n.copies = q.copies
        /\ n.updated = q.updated
    BY <1>1, <1>4, <1>10, <2>1, ChosenTyped
  <2>3. CopyOf(n, Current(n)) = r BY <2>2 DEF CopyOf, Current, r, s
  <2>4. \A x \in n.copies \cup n.updated : Whole(x[2]) BY <1>1, <2>2
  <2> HIDE DEF n
  <2>5. CycleMove(c, n) BY <1>10 DEF n
  <2> QED BY <1>8, <1>10, <2>2, <2>3, <2>4, <2>5, CycleMoveKeeps
<1> QED BY <1>5, <1>9, <1>10

LEMMA NextKeeps ==
  ASSUME VaultTyped, AllWhole, NEW c \in RotationCycles,
         keyCycle[c].pc \notin {"idle", "loaded"}, CycleMove(c, NextSnapshot(keyCycle[c])),
         StoresTyped', StoresWhole'
  PROVE  VaultTyped' /\ AllWhole'
<1> DEFINE n == NextSnapshot(keyCycle[c])
<1>1. /\ n \in KeyCycle /\ CycleFits(n) /\ n.pc = "next"
      /\ \A x \in n.copies \cup n.updated : Whole(x[2])
  BY CycleTyped, NextSnapshotTyped
<1> HIDE DEF n
<1>2. CycleMove(c, n) BY DEF n
<1> QED BY <1>1, <1>2, CycleMoveKeeps

\* A rotation that succeeds, and one that does not.
LEMMA RotateSplit ==
  ASSUME VaultTyped, AllWhole, NEW c \in RotationCycles, RotateSnapshot(c)
  PROVE  LET q == keyCycle[c]
             s == Current(q)
         IN  \/ /\ CycleMove(c, Rotated(q, {<<s, rec'[s]>>})) /\ UNCHANGED vaultFaults
                /\ rec' \in [Snaps -> Record]
                /\ rec'[s].state = rec[s].state /\ Whole(rec'[s])
                /\ \A t \in Snaps \ {s} : rec'[t] = rec[t]
             \/ /\ CycleMove(c, NextSnapshot(q)) /\ UNCHANGED rec
                /\ UNCHANGED vaultFaults \/ VaultFault
<1> DEFINE q == keyCycle[c]
           s == Current(q)
           r == CopyOf(q, s)
           dek == "dek" \in q.ops
           ok == IF dek THEN Decrypts(r.payload) ELSE Unwraps(r.payload)
           p == IF dek THEN Encrypt ELSE Rewrap(r.payload)
           n == Rotated(q, {<<s, rec'[s]>>})
<1>1. /\ q \in KeyCycle /\ CycleFits(q) /\ q.pc = "rotate" /\ q.todo # {}
      /\ q.day \in 0..MaxDays /\ activeKms \in KmsProviders /\ rec \in [Snaps -> Record]
      /\ \A x \in q.copies \cup q.updated : Whole(x[2])
  BY CycleTyped DEF RotateSnapshot, CycleFits, VaultTyped, KeyCycle
<1>2. s \in q.todo /\ s \in Snaps BY <1>1, CurrentTyped
<1>3. r \in Record /\ Whole(r) /\ r.state # "Purged"
  <2>1. \E x \in q.copies : x[1] = s BY <1>1, <1>2 DEF CycleFits
  <2>2. r \in Record /\ Whole(r) BY <1>1, <2>1, CopyOfTyped
  <2>3. r.state # "Purged" BY <1>1 DEF AllWhole
  <2> QED BY <2>2, <2>3
<1>4. \/ /\ ok /\ (dek => Deks \ KnownDeks # {})
         /\ rec' = [rec EXCEPT ![s] = WithPayload(rec[s], p, q.day)]
         /\ CycleMove(c, n) /\ UNCHANGED vaultFaults
      \/ /\ CycleMove(c, NextSnapshot(q)) /\ UNCHANGED rec
         /\ UNCHANGED vaultFaults \/ VaultFault
  BY DEF RotateSnapshot, CycleMove, CycleUnchanged, Rotated, WithPayload
<1>5. (dek => Deks \ KnownDeks # {}) =>
        p \in Payload /\ p.full /\ p.provider = p.wrappedBy
  BY <1>1, <1>3, PayloadTyped, RewrapTyped, EncryptTyped DEF Whole
<1> HIDE DEF q, s, r, dek, ok, p, n
<1>6. ASSUME dek => Deks \ KnownDeks # {},
             rec' = [rec EXCEPT ![s] = WithPayload(rec[s], p, q.day)]
      PROVE  /\ rec' \in [Snaps -> Record]
             /\ rec'[s].state = rec[s].state /\ Whole(rec'[s])
             /\ \A t \in Snaps \ {s} : rec'[t] = rec[t]
  <2> DEFINE m == WithPayload(rec[s], p, q.day)
  <2>1. m \in Record /\ m.state = rec[s].state /\ m.payload = p BY <1>1, <1>2, <1>5, <1>6, PayloadReplaced
  <2>2. rec' = [rec EXCEPT ![s] = m] BY <1>6
  <2> HIDE DEF m
  <2>3. rec' \in [Snaps -> Record] /\ rec'[s] = m /\ \A t \in Snaps \ {s} : rec'[t] = rec[t]
    BY <1>1, <1>2, <2>1, <2>2
  <2>4. Whole(m) BY <1>5, <1>6, <2>1 DEF Whole
  <2> QED BY <2>1, <2>3, <2>4
<1> QED BY <1>4, <1>6 DEF n, q, s

LEMMA RotateKeeps ==
  ASSUME VaultTyped, AllWhole, NEW c \in RotationCycles, vaultOverlap' \in BOOLEAN,
         RotateSnapshot(c)
  PROVE  VaultTyped' /\ AllWhole'
<1> DEFINE q == keyCycle[c]
           s == Current(q)
           n == Rotated(q, {<<s, rec'[s]>>})
<1>1. /\ q \in KeyCycle /\ CycleFits(q) /\ q.pc = "rotate" /\ s \in Snaps
      /\ \A x \in q.copies \cup q.updated : Whole(x[2])
  BY CycleTyped, CurrentTyped DEF RotateSnapshot, CycleFits
<1>2. rec' \in [Snaps -> Record] /\ \A t \in Snaps : Whole(rec'[t])
  BY <1>1, RotateSplit DEF VaultTyped, AllWhole
<1>3. StoresTyped' /\ StoresWhole' BY <1>2, StoresFromTyped
     DEF RotateSnapshot, CycleUnchanged, VaultFault, StoresTyped, StoresWhole, Whole
<1>4. /\ n \in KeyCycle /\ CycleFits(n) /\ n.pc = "save"
      /\ \A x \in n.copies \cup n.updated : Whole(x[2])
  <2>1. {<<s, rec'[s]>>} \in SUBSET (Snaps \X Record) BY <1>1, <1>2
  <2>2. /\ n \in KeyCycle /\ CycleFits(n) /\ n.pc = "save" /\ n.copies = q.copies
        /\ n.updated = {<<s, rec'[s]>>}
    BY <1>1, <2>1, RotatedTyped
  <2>3. ASSUME NEW x \in n.copies \cup n.updated PROVE Whole(x[2])
    <3>1. CASE x \in q.copies BY <1>1, <3>1
    <3>2. CASE x = <<s, rec'[s]>> BY <1>1, <1>2, <3>2
    <3> HIDE DEF n
    <3> QED BY <2>2, <3>1, <3>2
  <2> QED BY <2>2, <2>3
<1>5. CycleMove(c, n) \/ CycleMove(c, NextSnapshot(q)) BY RotateSplit
<1> HIDE DEF n
<1>6. CASE CycleMove(c, n) BY <1>3, <1>4, <1>6, CycleMoveKeeps
<1>7. CASE CycleMove(c, NextSnapshot(q)) BY <1>1, <1>3, <1>7, NextKeeps
<1> QED BY <1>5, <1>6, <1>7

LEMMA SaveRotatedKeeps ==
  ASSUME VaultTyped, AllWhole, NEW c \in RotationCycles, vaultOverlap' \in BOOLEAN,
         SaveRotated(c)
  PROVE  VaultTyped' /\ AllWhole'
<1> DEFINE q == keyCycle[c]
           n == [q EXCEPT !.pc = "finish"]
<1>1. /\ q \in KeyCycle /\ CycleFits(q) /\ q.pc = "save"
      /\ q.updated \subseteq Snaps \X Record
      /\ \A x \in q.copies \cup q.updated : Whole(x[2])
  BY CycleTyped DEF SaveRotated
<1>2. /\ n \in KeyCycle /\ CycleFits(n) /\ n.pc = "finish"
      /\ n.copies = q.copies /\ n.updated = q.updated
  BY <1>1, CycleAt, FinishTyped
<1>3. CycleMove(c, n) \/ CycleMove(c, NextSnapshot(q)) BY DEF SaveRotated, CycleMove, CycleUnchanged
<1> HIDE DEF n
<1>4. snapRow' \in [Snaps -> Record] /\ \A s \in Snaps : Whole(snapRow'[s])
  <2>1. CASE UNCHANGED snapRow BY <2>1 DEF VaultTyped, AllWhole
  <2>2. CASE ~UNCHANGED snapRow
    <3>1. PICK x \in q.updated : snapRow' = [snapRow EXCEPT ![x[1]] = x[2]] BY <2>2 DEF SaveRotated
    <3>2. x[1] \in Snaps /\ x[2] \in Record /\ Whole(x[2]) BY <1>1
    <3> QED BY <3>1, <3>2 DEF VaultTyped, AllWhole
  <2> QED BY <2>1, <2>2
<1>5. StoresTyped' /\ StoresWhole' BY <1>4, StoresFromTyped
     DEF SaveRotated, CycleUnchanged, VaultFault, StoresTyped, StoresWhole, Whole
<1>6. CASE CycleMove(c, n) BY <1>1, <1>2, <1>5, <1>6, CycleMoveKeeps
<1>7. CASE CycleMove(c, NextSnapshot(q)) BY <1>1, <1>5, <1>7, NextKeeps
<1> QED BY <1>3, <1>6, <1>7

LEMMA FinishRotationKeeps ==
  ASSUME VaultTyped, AllWhole, NEW c \in RotationCycles, vaultOverlap' \in BOOLEAN,
         FinishRotation(c)
  PROVE  VaultTyped' /\ AllWhole'
<1> DEFINE q == keyCycle[c]
<1>1. /\ q \in KeyCycle /\ q.pc = "finish" /\ q.day \in 0..MaxDays
      /\ q.updated \subseteq Snaps \X Record
  BY CycleTyped DEF FinishRotation, KeyCycle
<1>2. PICK x \in q.updated :
        PersistKeyState(x[1], [dek |-> x[2].payload.dek,
                               day |-> IF "dek" \in q.ops THEN q.day ELSE 0])
  BY DEF FinishRotation
<1>3. x[1] \in Snaps /\ x[2] \in Record BY <1>1
<1>4. [dek |-> x[2].payload.dek, day |-> IF "dek" \in q.ops THEN q.day ELSE 0] \in KeyInfo
  BY <1>1, <1>3, PayloadTyped, VaultAssumption DEF KeyInfo
<1>5. StoresTyped' /\ StoresWhole' BY <1>2, <1>3, <1>4, PersistKeyStateTyped, StoresFromTyped
     DEF FinishRotation, CycleUnchanged, StoresTyped, StoresWhole
<1>6. CycleMove(c, NextSnapshot(q)) BY DEF FinishRotation, CycleMove, CycleUnchanged
<1> QED BY <1>1, <1>5, <1>6, NextKeeps

LEMMA EndKeyCycleKeeps ==
  ASSUME VaultTyped, AllWhole, NEW c \in RotationCycles, vaultOverlap' \in BOOLEAN,
         EndKeyCycle(c)
  PROVE  VaultTyped' /\ AllWhole'
<1>1. CycleMove(c, NoCycle) BY DEF EndKeyCycle, CycleMove, CycleUnchanged
<1>2. StoresTyped' /\ StoresWhole'
  BY StoresFromTyped DEF EndKeyCycle, CycleUnchanged, StoresTyped, StoresWhole
<1> QED BY <1>1, <1>2, NoCycleTyped, CycleMoveKeeps

LEMMA DayPassesKeeps ==
  ASSUME VaultTyped, AllWhole, vaultOverlap' \in BOOLEAN, DayPasses
  PROVE  VaultTyped' /\ AllWhole'
<1>1. today' \in 0..MaxDays BY VaultAssumption DEF DayPasses, VaultTyped
<1>2. VaultTyped' BY <1>1 DEF DayPasses, VaultTyped, RequestFits, CycleFits
<1>3. AllWhole' BY DEF DayPasses, AllWhole, Whole
<1> QED BY <1>2, <1>3

LEMMA VaultRestartKeeps ==
  ASSUME VaultTyped, AllWhole, NEW p \in KmsProviders, vaultOverlap' \in BOOLEAN,
         VaultRestart(p)
  PROVE  VaultTyped' /\ AllWhole'
<1>1. /\ request' \in [VaultUsers -> Request]
      /\ \A u \in VaultUsers : request'[u] = NoRequest
      /\ keyCycle' \in [RotationCycles -> KeyCycle]
      /\ \A c \in RotationCycles : keyCycle'[c] = NoCycle
  BY NoRequestTyped, NoCycleTyped DEF VaultRestart
<1>2. StoresTyped' /\ StoresWhole' BY StoresFromTyped DEF VaultRestart, StoresTyped, StoresWhole, Whole
<1>3. VaultTyped'
  BY <1>1, <1>2, NoRequestTyped, NoCycleTyped DEF VaultTyped, StoresTyped, RequestFits, CycleFits
<1>4. AllWhole' BY <1>1, <1>2, NoRequestTyped, NoCycleTyped DEF AllWhole, StoresWhole, Whole
<1> QED BY <1>3, <1>4

----
(* The shape of the vault, and readability, which hold whatever overlaps   *)
(* and fails.                                                              *)

LEMMA InitTypedWhole == VaultInit => VaultTyped /\ AllWhole
<1> SUFFICES ASSUME VaultInit PROVE VaultTyped /\ AllWhole OBVIOUS
<1>1. ASSUME NEW s \in Snaps PROVE FirstRecord(s) \in Record /\ Whole(FirstRecord(s))
  BY VaultAssumption DEF VaultInit, FirstRecord, Record, Payload, Whole
<1>2. rec \in [Snaps -> Record] /\ \A s \in Snaps : Whole(rec[s]) BY <1>1 DEF VaultInit
<1>3. keyState \in [Snaps -> KeyInfo] BY VaultAssumption DEF VaultInit, KeyInfo
<1>4. /\ request \in [VaultUsers -> Request]
      /\ \A u \in VaultUsers : request[u] = NoRequest
      /\ keyCycle \in [RotationCycles -> KeyCycle]
      /\ \A c \in RotationCycles : keyCycle[c] = NoCycle
  BY NoRequestTyped, NoCycleTyped DEF VaultInit
<1>5. /\ tombstone \in [Snaps -> {"none", "deleted", "purged"}]
      /\ activeKms \in KmsProviders /\ vaultOverlap \in BOOLEAN
  BY DEF VaultInit
<1>6. today \in 0..MaxDays /\ vaultFaults \in Nat /\ vaultRestarts \in Nat
  BY VaultAssumption DEF VaultInit
<1>7. /\ snapRow = rec /\ keyStateRow = keyState
      /\ objects = Snaps /\ cached = Snaps /\ cachedRow = Snaps
  BY DEF VaultInit
<1>8. VaultTyped BY <1>2, <1>3, <1>4, <1>5, <1>7, <1>6, NoRequestTyped, NoCycleTyped DEF VaultTyped
<1>9. AllWhole BY <1>2, <1>4, <1>7, NoRequestTyped, NoCycleTyped DEF AllWhole
<1> QED BY <1>8, <1>9

LEMMA RequestStartsKeeps ==
  ASSUME VaultTyped, AllWhole, NEW u \in VaultUsers, vaultOverlap' \in BOOLEAN,
         RequestStarts(u)
  PROVE  VaultTyped' /\ AllWhole'
<1>1. ASSUME NEW s \in Snaps, SoftDeleteSnapshot(u, s) \/ RestoreSnapshot(u, s)
      PROVE  VaultTyped' /\ AllWhole'
  BY <1>1, StartRequestKeeps DEF SoftDeleteSnapshot, RestoreSnapshot
<1>2. ASSUME NEW s \in Snaps, PurgeSnapshot(u, s)
      PROVE  VaultTyped' /\ AllWhole'
  BY <1>2, StartRequestKeeps DEF PurgeSnapshot
<1>3. ASSUME NEW s \in Snaps, RefreshSnapshot(u, s)
      PROVE  VaultTyped' /\ AllWhole'
  BY <1>3, StartRequestKeeps DEF RefreshSnapshot
<1> QED BY <1>1, <1>2, <1>3, PurgeProjectKeeps DEF RequestStarts

LEMMA ActKeeps ==
  ASSUME VaultTyped, AllWhole, vaultOverlap' \in BOOLEAN, VaultAct
  PROVE  VaultTyped' /\ AllWhole'
<1>1. ASSUME NEW u \in VaultUsers, RequestStep(u)
      PROVE  VaultTyped' /\ AllWhole'
  BY <1>1, DeleteObjectKeeps, MarkSnapshotKeeps, ReadSnapshotKeeps, RewrapSnapshotKeeps,
     SaveSnapshotKeeps, SaveTombstoneKeeps, DeleteProjectObjectsKeeps, DeleteRowsKeeps
     DEF RequestStep
<1>2. ASSUME RuntimeCycleStarts
      PROVE  VaultTyped' /\ AllWhole'
  <2>1. RuntimeCycle \in RotationCycles BY VaultAssumption
  <2>2. LoadKeyRotationSnapshots(RuntimeCycle, FALSE, {"dek", "kek"}, Snaps)
    BY <1>2 DEF RuntimeCycleStarts
  <2> QED BY <2>1, <2>2, LoadKeeps
<1>3. ASSUME NEW c \in RotationCycles, NEW force \in BOOLEAN,
             NEW wants \in {{}, {"kek"}, {"dek", "kek"}},
             NEW only \in {Snaps} \cup {{s} : s \in Snaps},
             ManualCycleStarts(c, force, wants, only)
      PROVE  VaultTyped' /\ AllWhole'
  <2>1. wants \in SUBSET {"dek", "kek"} /\ only \in SUBSET Snaps OBVIOUS
  <2>2. LoadKeyRotationSnapshots(c, force, wants, only) BY <1>3 DEF ManualCycleStarts
  <2> QED BY <2>1, <2>2, LoadKeeps
<1>4. ASSUME NEW c \in RotationCycles, KeyCycleStep(c)
      PROVE  VaultTyped' /\ AllWhole'
  BY <1>4, RestoreRecordsKeeps, ChooseOperationKeeps, RotateKeeps, SaveRotatedKeeps,
     FinishRotationKeeps, EndKeyCycleKeeps DEF KeyCycleStep
<1> QED BY <1>1, <1>2, <1>3, <1>4, RequestStartsKeeps, DayPassesKeeps, VaultRestartKeeps
        DEF VaultAct

----
(* One actor at a time. *)

\* All others are idle.
OnlyRequest(u) ==
  /\ \A v \in VaultUsers \ {u} : request[v].pc = "idle"
  /\ \A c \in RotationCycles : keyCycle[c].pc = "idle"

OnlyCycle(c) ==
  /\ \A u \in VaultUsers : request[u].pc = "idle"
  /\ \A d \in RotationCycles \ {c} : keyCycle[d].pc = "idle"

AtMostOne == ~ \E a, b \in VaultActors : a # b

\* A step of u, with which the others have nothing to do.
RequestOnly(u) ==
  /\ keyCycle' = keyCycle
  /\ \A v \in VaultUsers \ {u} : request'[v] = request[v]
  /\ request[u].pc # "idle" \/ request'[u].pc # "idle"

CycleOnly(c) ==
  /\ request' = request
  /\ \A d \in RotationCycles \ {c} : keyCycle'[d] = keyCycle[d]
  /\ keyCycle[c].pc # "idle" \/ keyCycle'[c].pc # "idle"

LEMMA RequestAlone ==
  ASSUME Alone, AtMostOne', NEW u \in VaultUsers, RequestOnly(u)
  PROVE  Alone' /\ OnlyRequest(u) /\ OnlyRequest(u)'
<1>1. Alone' BY DEF AtMostOne, Alone
<1>2. u \in VaultActors \/ u \in VaultActors' BY DEF VaultActors, RequestOnly
<1>3. \A c \in RotationCycles : c # u BY VaultAssumption
<1>4. ASSUME NEW v \in VaultUsers \ {u} PROVE request[v].pc = "idle"
  BY <1>1, <1>2, <1>4 DEF VaultActors, Alone, RequestOnly
<1>5. ASSUME NEW c \in RotationCycles PROVE keyCycle[c].pc = "idle"
  BY <1>1, <1>2, <1>3, <1>5 DEF VaultActors, Alone, RequestOnly
<1> QED BY <1>1, <1>4, <1>5 DEF OnlyRequest, RequestOnly

LEMMA CycleAlone ==
  ASSUME Alone, AtMostOne', NEW c \in RotationCycles, CycleOnly(c)
  PROVE  Alone' /\ OnlyCycle(c) /\ OnlyCycle(c)'
<1>1. Alone' BY DEF AtMostOne, Alone
<1>2. c \in VaultActors \/ c \in VaultActors' BY DEF VaultActors, CycleOnly
<1>3. \A u \in VaultUsers : c # u BY VaultAssumption
<1>4. ASSUME NEW d \in RotationCycles \ {c} PROVE keyCycle[d].pc = "idle"
  BY <1>1, <1>2, <1>4 DEF VaultActors, Alone, CycleOnly
<1>5. ASSUME NEW u \in VaultUsers PROVE request[u].pc = "idle"
  BY <1>1, <1>2, <1>3, <1>5 DEF VaultActors, Alone, CycleOnly
<1> QED BY <1>1, <1>4, <1>5 DEF OnlyCycle, CycleOnly

\* What RowsFollow and PurgedLeavesNothing say of a request that is alone: of
\* the rows, and of what the purges have left.
RowsFollowRequest(q) ==
  /\ \A s \in Snaps : \/ rec[s] = snapRow[s]
                      \/ q.pc \in {"read", "save"} /\ q.snap = s
                      \/ q.op = "project"
  /\ q.pc = "save" => q.copy = {rec[q.snap]}
  /\ q.op = "refresh" => rec[q.snap].state = "Active"
  /\ q.op = "delete" /\ q.pc \in {"read", "save", "tombstone"} =>
       rec[q.snap].state # "Purged"
  /\ q.op = "project" => \A s \in Snaps : rec[s] = Purged(snapRow[s])

PurgeOf(q, s, pcs) == q.op = "purge" /\ q.pc \in pcs /\ q.snap = s

GoneForRequest(q) ==
  /\ \A s \in Snaps :
       /\ snapRow[s].state = "Purged" => ~snapRow[s].payload.full /\ s \notin objects
       /\ rec[s].state = "Purged" =>
            /\ ~rec[s].payload.full
            /\ s \notin objects \/ q.pc = "objects"
            /\ s \notin cached \/ vaultRestarts > 0
            /\ \/ tombstone[s] = "purged" \/ vaultRestarts > 0
               \/ s \in withProject
               \/ PurgeOf(q, s, {"read", "save", "tombstone"})
       /\ PurgeOf(q, s, {"mark", "read", "save", "tombstone"}) => s \notin objects
  /\ q.pc = "rows" => objects = {}

\* The same of a cycle.
RowsFollowCycle(q) ==
  /\ \A s \in Snaps : rec[s] = snapRow[s] \/ (q.pc = "save" /\ Current(q) = s)
  /\ q.pc = "loaded" => \A x \in q.copies : x[2] = snapRow[x[1]]
  /\ \A x \in q.copies : x[2].state = rec[x[1]].state
  /\ q.pc = "save" => q.updated = {<<Current(q), rec[Current(q)]>>}

PurgedGone ==
  \A s \in Snaps :
    /\ snapRow[s].state = "Purged" => ~snapRow[s].payload.full /\ s \notin objects
    /\ rec[s].state = "Purged" =>
         /\ ~rec[s].payload.full
         /\ s \notin objects
         /\ s \notin cached \/ vaultRestarts > 0
         /\ \/ tombstone[s] = "purged" \/ vaultRestarts > 0
            \/ s \in withProject

LEMMA RequestKnows ==
  ASSUME VaultTyped, NEW u \in VaultUsers, OnlyRequest(u), RowsFollow, PurgedLeavesNothing
  PROVE  RowsFollowRequest(request[u]) /\ GoneForRequest(request[u])
<1>1. /\ \A v \in VaultUsers \ {u} : request[v].pc = "idle" /\ request[v].op = "none"
      /\ \A c \in RotationCycles : keyCycle[c].pc = "idle"
  BY DEF VaultTyped, RequestFits, OnlyRequest
<1>2. RowsFollowRequest(request[u]) BY <1>1 DEF RowsFollow, Saving, RowsFollowRequest
<1>3. ASSUME NEW s \in Snaps, NEW pcs PROVE Purging(s, pcs) <=> PurgeOf(request[u], s, pcs)
  BY <1>1 DEF Purging, PurgeOf
<1>4. GoneForRequest(request[u]) BY <1>1, <1>3 DEF PurgedLeavesNothing, GoneForRequest
<1> QED BY <1>2, <1>4

LEMMA RequestTells ==
  ASSUME VaultTyped', NEW u \in VaultUsers, OnlyRequest(u)',
         RowsFollowRequest(request[u])', GoneForRequest(request[u])'
  PROVE  RowsFollow' /\ PurgedLeavesNothing'
<1>1. /\ \A v \in VaultUsers \ {u} :
           request'[v].pc = "idle" /\ request'[v].op = "none"
      /\ \A c \in RotationCycles : keyCycle'[c].pc = "idle" /\ keyCycle'[c].copies = {}
  BY DEF VaultTyped, RequestFits, CycleFits, OnlyRequest
<1>2. RowsFollow' BY <1>1 DEF RowsFollow, Saving, RowsFollowRequest
<1>3. ASSUME NEW s \in Snaps, NEW pcs
      PROVE  Purging(s, pcs)' <=> PurgeOf(request[u], s, pcs)'
  BY <1>1 DEF Purging, PurgeOf
<1>4. PurgedLeavesNothing' BY <1>1, <1>3 DEF PurgedLeavesNothing, GoneForRequest
<1> QED BY <1>2, <1>4

LEMMA CycleKnows ==
  ASSUME VaultTyped, NEW c \in RotationCycles, OnlyCycle(c), RowsFollow, PurgedLeavesNothing
  PROVE  RowsFollowCycle(keyCycle[c]) /\ PurgedGone
<1>1. \A u \in VaultUsers : request[u].pc = "idle" /\ request[u].op = "none"
  BY DEF VaultTyped, RequestFits, OnlyCycle
<1>2. RowsFollowCycle(keyCycle[c]) BY <1>1 DEF RowsFollow, Saving, RowsFollowCycle, OnlyCycle
<1>3. ASSUME NEW s \in Snaps, NEW pcs PROVE ~Purging(s, pcs) BY <1>1 DEF Purging
<1>4. PurgedGone BY <1>1, <1>3 DEF PurgedLeavesNothing, PurgedGone
<1> QED BY <1>2, <1>4

LEMMA CycleTells ==
  ASSUME VaultTyped', NEW c \in RotationCycles, OnlyCycle(c)',
         RowsFollowCycle(keyCycle[c])', PurgedGone'
  PROVE  RowsFollow' /\ PurgedLeavesNothing'
<1>1. /\ \A u \in VaultUsers : request'[u].pc = "idle" /\ request'[u].op = "none"
      /\ \A d \in RotationCycles \ {c} : keyCycle'[d].pc = "idle" /\ keyCycle'[d].copies = {}
  BY DEF VaultTyped, RequestFits, CycleFits, OnlyCycle
<1>2. RowsFollow' BY <1>1 DEF RowsFollow, Saving, RowsFollowCycle
<1>3. ASSUME NEW s \in Snaps, NEW pcs PROVE ~Purging(s, pcs)' BY <1>1 DEF Purging
<1>4. PurgedLeavesNothing' BY <1>1, <1>3 DEF PurgedLeavesNothing, PurgedGone
<1> QED BY <1>2, <1>4

----
(* The steps of a request that is alone and meets no fault. *)

GoesOn(u) ==
  /\ RequestOnly(u)
  /\ RowsFollowRequest(request[u])'
  /\ GoneForRequest(request[u])'

Knows(u) ==
  /\ VaultTyped /\ AllWhole
  /\ RowsFollowRequest(request[u])
  /\ GoneForRequest(request[u])

\* The request is over.
LEMMA RequestGone ==
  ASSUME VaultTyped, NEW u \in VaultUsers, RequestMove(u, NoRequest)
  PROVE  /\ request'[u].pc = "idle" /\ request'[u].op = "none"
         /\ request[u].pc # "idle" => RequestOnly(u)
  BY NoRequestTyped DEF RequestMove, RequestOnly, VaultTyped

LEMMA StartRequestGoesOn ==
  ASSUME NEW u \in VaultUsers, Knows(u), NEW s \in Snaps,
         NEW op, NEW pc, NEW copy, StartRequest(u, s, op, pc, copy),
         \/ op \in {"delete", "restore"} /\ pc = "mark" /\ copy = {}
         \/ op = "purge" /\ pc = "object" /\ copy = {}
         \/ op = "refresh" /\ pc = "mark" /\ copy = {rec[s]} /\ rec[s].state = "Active"
  PROVE  GoesOn(u)
<1>1. /\ request'[u].pc = pc /\ request'[u].op = op /\ request'[u].snap = s
      /\ RequestOnly(u)
  BY DEF StartRequest, RequestOnly, Knows, VaultTyped
<1>2. /\ request[u].pc = "idle" /\ request[u].op = "none"
      /\ UNCHANGED <<rec, snapRow, objects, cached, tombstone, withProject, vaultRestarts>>
  BY DEF StartRequest, Knows, VaultTyped, RequestFits
<1>3. RowsFollowRequest(request[u])' BY <1>1, <1>2 DEF Knows, RowsFollowRequest
<1>4. GoneForRequest(request[u])' BY <1>1, <1>2 DEF Knows, GoneForRequest, PurgeOf
<1> QED BY <1>1, <1>3, <1>4 DEF GoesOn

LEMMA DeleteObjectGoesOn ==
  ASSUME NEW u \in VaultUsers, Knows(u), DeleteObject(u), UNCHANGED vaultFaults
  PROVE  GoesOn(u)
<1> DEFINE n == [request[u] EXCEPT !.pc = "mark"]
<1>1. /\ vaultFaults \in Nat /\ request[u].pc = "object" /\ request[u].op = "purge"
      /\ request[u] \in Request /\ request \in [VaultUsers -> Request]
  BY DEF Knows, VaultTyped, RequestFits, DeleteObject
<1>2. /\ request' = [request EXCEPT ![u] = n] /\ objects' = objects \ {request[u].snap}
      /\ UNCHANGED <<rec, snapRow, cached, tombstone, withProject, vaultRestarts, keyCycle>>
  BY <1>1 DEF DeleteObject, VaultFault
<1>3. n.pc = "mark" /\ n.op = request[u].op /\ n.snap = request[u].snap BY <1>1, RequestAt DEF RequestPcs
<1> HIDE DEF n
<1>4. /\ request'[u].pc = "mark" /\ request'[u].op = "purge"
      /\ request'[u].snap = request[u].snap /\ RequestOnly(u)
  BY <1>1, <1>2, <1>3 DEF RequestOnly
<1>5. RowsFollowRequest(request[u])' BY <1>1, <1>2, <1>4 DEF Knows, RowsFollowRequest
<1>6. GoneForRequest(request[u])' BY <1>1, <1>2, <1>4 DEF Knows, GoneForRequest, PurgeOf
<1> QED BY <1>4, <1>5, <1>6 DEF GoesOn

LEMMA MarkSnapshotGoesOn ==
  ASSUME NEW u \in VaultUsers, Knows(u), MarkSnapshot(u)
  PROVE  GoesOn(u)
<1> DEFINE s == request[u].snap
           op == request[u].op
           n == [request[u] EXCEPT !.pc = "read"]
<1>1. /\ request[u].pc = "mark" /\ op # "refresh" /\ op # "project" /\ s \in Snaps
      /\ request[u] \in Request /\ request \in [VaultUsers -> Request]
      /\ UNCHANGED <<snapRow, objects, tombstone, withProject, vaultRestarts, keyCycle>>
  BY RequestTyped DEF Knows, RequestFits, MarkSnapshot
<1>2. CASE RequestMove(u, NoRequest) /\ UNCHANGED <<rec, cached>>
  <2>1. request'[u].pc = "idle" /\ request'[u].op = "none" /\ RequestOnly(u)
    BY <1>1, <1>2, RequestGone DEF Knows
  <2>2. RowsFollowRequest(request[u])' BY <1>1, <1>2, <2>1 DEF Knows, RowsFollowRequest
  <2>3. GoneForRequest(request[u])' BY <1>1, <1>2, <2>1 DEF Knows, GoneForRequest, PurgeOf
  <2> QED BY <2>1, <2>2, <2>3 DEF GoesOn
<1>3. CASE /\ op = "purge" \/ rec[s].state # "Purged"
           /\ RequestMove(u, n)
           /\ rec'[s].state = IF op = "purge" THEN "Purged"
                              ELSE IF op = "delete" THEN "SoftDeleted" ELSE "Active"
           /\ rec'[s].state = "Purged" => ~rec'[s].payload.full
           /\ \A t \in Snaps \ {s} : rec'[t] = rec[t]
           /\ cached' = IF op = "restore" THEN cached ELSE cached \ {s}
  <2>1. n.pc = "read" /\ n.op = op /\ n.snap = s BY <1>1, RequestAt DEF RequestPcs
  <2> HIDE DEF n
  <2>2. /\ request'[u].pc = "read" /\ request'[u].op = op /\ request'[u].snap = s
        /\ RequestOnly(u)
    BY <1>1, <1>3, <2>1 DEF RequestMove, RequestOnly
  <2>3. RowsFollowRequest(request[u])' BY <1>1, <1>3, <2>2 DEF Knows, RowsFollowRequest
  <2>4. ASSUME NEW t \in Snaps, rec'[t].state = "Purged"
        PROVE  /\ ~rec'[t].payload.full
               /\ t \notin objects
               /\ t \notin cached' \/ vaultRestarts > 0
               /\ \/ tombstone[t] = "purged" \/ vaultRestarts > 0
                  \/ t \in withProject
                  \/ PurgeOf(request[u], t, {"read", "save", "tombstone"})'
    <3>1. CASE t = s
      <4>1. op = "purge" /\ s \notin cached' BY <1>3, <2>4, <3>1
      <4>2. s \notin objects BY <1>1, <4>1 DEF Knows, GoneForRequest, PurgeOf
      <4>3. PurgeOf(request[u], t, {"read", "save", "tombstone"})' BY <2>2, <3>1, <4>1 DEF PurgeOf
      <4> QED BY <1>3, <2>4, <3>1, <4>1, <4>2, <4>3
    <3>2. CASE t # s
      <4>1. rec'[t] = rec[t] /\ ~PurgeOf(request[u], t, {"read", "save", "tombstone"})
        BY <1>3, <3>2 DEF PurgeOf
      <4> QED BY <1>1, <1>3, <2>4, <4>1 DEF Knows, GoneForRequest
    <3> QED BY <3>1, <3>2
  <2>5. GoneForRequest(request[u])' BY <1>1, <2>2, <2>4 DEF Knows, GoneForRequest, PurgeOf
  <2> QED BY <2>2, <2>3, <2>5 DEF GoesOn
<1> QED BY <1>2, <1>3, MarkSnapshotSplit DEF Knows

LEMMA ReadSnapshotGoesOn ==
  ASSUME NEW u \in VaultUsers, Knows(u), ReadSnapshot(u)
  PROVE  GoesOn(u)
<1> DEFINE s == request[u].snap
           n == WithCopy(request[u], "save", {rec[s]})
<1>1. /\ request[u].pc = "read" /\ s \in Snaps /\ {rec[s]} \in SUBSET Record
      /\ request[u].op # "project"
      /\ request[u] \in Request /\ request \in [VaultUsers -> Request]
      /\ UNCHANGED <<rec, snapRow, objects, cached, tombstone, withProject, vaultRestarts, keyCycle>>
  <2>1. s \in Snaps /\ request[u] \in Request /\ request \in [VaultUsers -> Request]
    BY RequestTyped DEF Knows
  <2>2. request[u].pc = "read" /\ request[u].op # "project"
    BY DEF Knows, VaultTyped, RequestFits, ReadSnapshot
  <2>3. rec[s] \in Record BY <2>1 DEF Knows, VaultTyped
  <2>4. UNCHANGED <<rec, snapRow, objects, cached, tombstone, withProject, vaultRestarts, keyCycle>>
    BY DEF ReadSnapshot
  <2> QED BY <2>1, <2>2, <2>3, <2>4
<1>2. request' = [request EXCEPT ![u] = n] BY DEF ReadSnapshot, WithCopy
<1>3. n.pc = "save" /\ n.op = request[u].op /\ n.snap = s /\ n.copy = {rec[s]}
  BY <1>1, RequestWith DEF RequestPcs
<1> HIDE DEF n
<1>4. /\ request'[u].pc = "save" /\ request'[u].op = request[u].op
      /\ request'[u].snap = s /\ request'[u].copy = {rec[s]} /\ RequestOnly(u)
  BY <1>1, <1>2, <1>3 DEF RequestOnly
<1>5. RowsFollowRequest(request[u])' BY <1>1, <1>4 DEF Knows, RowsFollowRequest
<1>6. GoneForRequest(request[u])' BY <1>1, <1>4 DEF Knows, GoneForRequest, PurgeOf
<1> QED BY <1>4, <1>5, <1>6 DEF GoesOn

LEMMA RewrapSnapshotGoesOn ==
  ASSUME NEW u \in VaultUsers, Knows(u), RewrapSnapshot(u)
  PROVE  GoesOn(u)
<1> DEFINE s == request[u].snap
           n == WithCopy(request[u], "save", {rec'[s]})
<1>1. /\ request[u].pc = "mark" /\ request[u].op = "refresh" /\ s \in Snaps
      /\ request[u] \in Request /\ request \in [VaultUsers -> Request]
      /\ rec[s].state = "Active"
      /\ UNCHANGED <<snapRow, objects, cached, tombstone, withProject, vaultRestarts, keyCycle>>
  BY RequestTyped DEF Knows, RowsFollowRequest, RewrapSnapshot
<1>2. CASE RequestMove(u, NoRequest) /\ UNCHANGED rec
  <2>1. request'[u].pc = "idle" /\ request'[u].op = "none" /\ RequestOnly(u)
    BY <1>1, <1>2, RequestGone DEF Knows
  <2>2. RowsFollowRequest(request[u])' BY <1>1, <1>2, <2>1 DEF Knows, RowsFollowRequest
  <2>3. GoneForRequest(request[u])' BY <1>1, <1>2, <2>1 DEF Knows, GoneForRequest, PurgeOf
  <2> QED BY <2>1, <2>2, <2>3 DEF GoesOn
<1>3. CASE /\ RequestMove(u, n) /\ rec' \in [Snaps -> Record]
           /\ rec'[s].state = rec[s].state
           /\ \A t \in Snaps \ {s} : rec'[t] = rec[t]
  <2>1. {rec'[s]} \in SUBSET Record BY <1>1, <1>3
  <2>2. n.pc = "save" /\ n.op = "refresh" /\ n.snap = s /\ n.copy = {rec'[s]}
    BY <1>1, <2>1, RequestWith DEF RequestPcs
  <2> HIDE DEF n
  <2>3. /\ request'[u].pc = "save" /\ request'[u].op = "refresh" /\ request'[u].snap = s
        /\ request'[u].copy = {rec'[s]} /\ RequestOnly(u)
    BY <1>1, <1>3, <2>2 DEF RequestMove, RequestOnly
  <2>4. RowsFollowRequest(request[u])' BY <1>1, <1>3, <2>3 DEF Knows, RowsFollowRequest
  <2>5. \A t \in Snaps : /\ rec[t].state = rec'[t].state
                         /\ rec'[t].state = "Purged" => rec'[t] = rec[t]
    BY <1>1, <1>3
  <2>6. GoneForRequest(request[u])' BY <1>1, <2>3, <2>5 DEF Knows, GoneForRequest, PurgeOf
  <2> QED BY <2>3, <2>4, <2>6 DEF GoesOn
<1> QED BY <1>2, <1>3, RewrapSnapshotSplit DEF Knows

LEMMA SaveSnapshotGoesOn ==
  ASSUME NEW u \in VaultUsers, Knows(u), SaveSnapshot(u), UNCHANGED vaultFaults
  PROVE  GoesOn(u)
<1> DEFINE s == request[u].snap
           n == WithCopy(request[u], "tombstone", {})
<1>1. /\ request[u].pc = "save" /\ s \in Snaps /\ request[u].op # "project"
      /\ request[u] \in Request /\ request \in [VaultUsers -> Request]
      /\ request[u].copy = {rec[s]} /\ snapRow \in [Snaps -> Record]
      /\ UNCHANGED <<rec, objects, cached, tombstone, withProject, vaultRestarts, keyCycle>>
  BY RequestTyped DEF Knows, VaultTyped, RequestFits, RowsFollowRequest, SaveSnapshot
<1>2. snapRow' = [snapRow EXCEPT ![s] = rec[s]] BY <1>1 DEF Knows, VaultTyped, VaultFault, SaveSnapshot
<1>3. \/ RequestMove(u, n) /\ request[u].op \in {"delete", "purge"}
      \/ RequestMove(u, NoRequest) /\ request[u].op \notin {"delete", "purge"}
  BY <1>1 DEF Knows, VaultTyped, VaultFault, SaveSnapshot, RequestMove, WithCopy
<1>4. n.pc = "tombstone" /\ n.op = request[u].op /\ n.snap = s BY <1>1, RequestWith DEF RequestPcs
<1> HIDE DEF n
<1>5. /\ \/ /\ request'[u].pc = "tombstone" /\ request'[u].op = request[u].op
            /\ request'[u].snap = s
         \/ /\ request'[u].pc = "idle" /\ request'[u].op = "none"
            /\ request[u].op # "purge"
      /\ RequestOnly(u)
  BY <1>1, <1>3, <1>4, NoRequestTyped DEF RequestMove, RequestOnly
<1>6. snapRow'[s] = rec[s] /\ \A t \in Snaps \ {s} : snapRow'[t] = snapRow[t] BY <1>1, <1>2
<1>7. RowsFollowRequest(request[u])' BY <1>1, <1>5, <1>6 DEF Knows, RowsFollowRequest
<1>8. GoneForRequest(request[u])' BY <1>1, <1>5, <1>6 DEF Knows, GoneForRequest, PurgeOf
<1> QED BY <1>5, <1>7, <1>8 DEF GoesOn

LEMMA SaveTombstoneGoesOn ==
  ASSUME NEW u \in VaultUsers, Knows(u), SaveTombstone(u), UNCHANGED vaultFaults
  PROVE  GoesOn(u)
<1> DEFINE s == request[u].snap
<1>1. /\ request[u].pc = "tombstone" /\ s \in Snaps /\ request[u].op \in {"delete", "purge"}
      /\ tombstone \in [Snaps -> {"none", "deleted", "purged"}]
      /\ UNCHANGED <<rec, snapRow, objects, cached, withProject, vaultRestarts, keyCycle>>
  BY RequestTyped DEF Knows, VaultTyped, RequestFits, SaveTombstone
<1>2. tombstone' = [tombstone EXCEPT ![s] =
                      IF request[u].op = "purge" THEN "purged" ELSE "deleted"]
  BY DEF Knows, VaultTyped, VaultFault, SaveTombstone
<1>3. request'[u].pc = "idle" /\ request'[u].op = "none" /\ RequestOnly(u)
  <2>1. RequestMove(u, NoRequest) BY DEF SaveTombstone, RequestMove
  <2> QED BY <1>1, <2>1, RequestGone DEF Knows
<1>4. /\ tombstone'[s] = IF request[u].op = "purge" THEN "purged" ELSE "deleted"
      /\ \A t \in Snaps \ {s} : tombstone'[t] = tombstone[t]
  BY <1>1, <1>2
<1>5. RowsFollowRequest(request[u])' BY <1>1, <1>3 DEF Knows, RowsFollowRequest
<1>6. request[u].op = "delete" => rec[s].state # "Purged" BY <1>1 DEF Knows, RowsFollowRequest
<1>7. GoneForRequest(request[u])' BY <1>1, <1>3, <1>4, <1>6 DEF Knows, GoneForRequest, PurgeOf
<1> QED BY <1>3, <1>5, <1>7 DEF GoesOn

LEMMA PurgeProjectGoesOn ==
  ASSUME NEW u \in VaultUsers, Knows(u), PurgeProjectSnapshots(u)
  PROVE  GoesOn(u)
<1>1. /\ request[u].pc = "idle" /\ request[u].op = "none"
      /\ rec \in [Snaps -> Record] /\ request \in [VaultUsers -> Request]
      /\ UNCHANGED <<snapRow, objects, tombstone, vaultRestarts, keyCycle>>
      /\ cached' = {} /\ withProject' = withProject \cup {s \in Snaps : rec[s].state # "Purged"}
  BY DEF Knows, VaultTyped, RequestFits, PurgeProjectSnapshots
<1>2. /\ request'[u].pc = "objects" /\ request'[u].op = "project"
      /\ RequestOnly(u)
  BY <1>1 DEF PurgeProjectSnapshots, NoRequest, RequestOnly
<1>3. \A s \in Snaps : rec'[s] = Purged(rec[s]) /\ rec[s] = snapRow[s]
  BY <1>1 DEF PurgeProjectSnapshots, Knows, RowsFollowRequest
<1>4. \A s \in Snaps : rec'[s].state = "Purged" /\ ~rec'[s].payload.full BY <1>1, <1>3, PurgedTyped
<1>5. RowsFollowRequest(request[u])' BY <1>1, <1>2, <1>3 DEF RowsFollowRequest
<1>6. GoneForRequest(request[u])' BY <1>1, <1>2, <1>4 DEF Knows, GoneForRequest, PurgeOf
<1> QED BY <1>2, <1>5, <1>6 DEF GoesOn

LEMMA DeleteProjectObjectsGoesOn ==
  ASSUME NEW u \in VaultUsers, Knows(u), DeleteProjectObjects(u), UNCHANGED vaultFaults
  PROVE  GoesOn(u)
<1> DEFINE n == [request[u] EXCEPT !.pc = "rows"]
<1>1. /\ request[u].pc = "objects" /\ request[u].op = "project"
      /\ request[u] \in Request /\ request \in [VaultUsers -> Request]
      /\ UNCHANGED <<rec, snapRow, cached, tombstone, withProject, vaultRestarts, keyCycle>>
  BY DEF Knows, VaultTyped, RequestFits, DeleteProjectObjects
<1>2. objects' = {} /\ request' = [request EXCEPT ![u] = n]
  BY DEF DeleteProjectObjects, Knows, VaultTyped, VaultFault
<1>3. n.pc = "rows" /\ n.op = "project" BY <1>1, RequestAt DEF RequestPcs
<1> HIDE DEF n
<1>4. request'[u].pc = "rows" /\ request'[u].op = "project" /\ RequestOnly(u)
  BY <1>1, <1>2, <1>3 DEF RequestOnly
<1>5. RowsFollowRequest(request[u])' BY <1>1, <1>4 DEF Knows, RowsFollowRequest
<1>6. GoneForRequest(request[u])' BY <1>1, <1>2, <1>4 DEF Knows, GoneForRequest, PurgeOf
<1> QED BY <1>4, <1>5, <1>6 DEF GoesOn

LEMMA DeleteRowsGoesOn ==
  ASSUME NEW u \in VaultUsers, Knows(u), DeleteSnapshotsForProject(u), UNCHANGED vaultFaults
  PROVE  GoesOn(u)
<1>1. /\ request[u].pc = "rows" /\ request[u].op = "project" /\ objects = {}
      /\ rec \in [Snaps -> Record] /\ snapRow \in [Snaps -> Record]
      /\ \A s \in Snaps : rec[s] = Purged(snapRow[s])
      /\ UNCHANGED <<rec, objects, cached, tombstone, withProject, vaultRestarts, keyCycle>>
  BY DEF Knows, VaultTyped, RequestFits, RowsFollowRequest, GoneForRequest,
         DeleteSnapshotsForProject
<1>2. request'[u].pc = "idle" /\ request'[u].op = "none" /\ RequestOnly(u)
  <2>1. RequestMove(u, NoRequest) BY DEF DeleteSnapshotsForProject, RequestMove
  <2> QED BY <1>1, <2>1, RequestGone DEF Knows
<1>3. \A s \in Snaps : snapRow'[s] = rec[s]
  BY <1>1 DEF DeleteSnapshotsForProject, Knows, VaultTyped, VaultFault
<1>4. \A s \in Snaps : rec[s].state = "Purged" /\ ~rec[s].payload.full BY <1>1, PurgedTyped
<1>5. RowsFollowRequest(request[u])' BY <1>1, <1>2, <1>3 DEF RowsFollowRequest
<1>6. GoneForRequest(request[u])' BY <1>1, <1>2, <1>3, <1>4 DEF Knows, GoneForRequest, PurgeOf
<1> QED BY <1>2, <1>5, <1>6 DEF GoesOn

----
(* The steps of a cycle that is alone and meets no fault. *)

CycleGoesOn(c) == CycleOnly(c) /\ RowsFollowCycle(keyCycle[c])' /\ PurgedGone'

CycleKnowing(c) ==
  VaultTyped /\ AllWhole /\ RowsFollowCycle(keyCycle[c]) /\ PurgedGone

LEMMA PurgedStaysGone ==
  ASSUME PurgedGone, UNCHANGED <<objects, cached, tombstone, withProject, vaultRestarts>>,
         \A s \in Snaps :
           /\ rec'[s].state = rec[s].state
           /\ rec[s].state = "Purged" => rec'[s] = rec[s]
           /\ snapRow'[s] = snapRow[s] \/ snapRow'[s] = rec[s]
  PROVE  PurgedGone'
  BY DEF PurgedGone

\* Records and rows are left alone.
LEMMA CycleRests ==
  ASSUME NEW c \in RotationCycles, CycleKnowing(c), NEW n \in KeyCycle, CycleMove(c, n),
         n.pc \in {"next", "rotate", "idle"}, n.copies \subseteq keyCycle[c].copies,
         keyCycle[c].pc \in {"next", "rotate", "finish"}, UNCHANGED <<rec, snapRow>>,
         UNCHANGED <<objects, cached, tombstone, withProject, vaultRestarts>>
  PROVE  CycleGoesOn(c)
<1>1. keyCycle'[c] = n /\ CycleOnly(c) BY DEF CycleMove, CycleKnowing, VaultTyped, CycleOnly
<1>2. RowsFollowCycle(keyCycle[c])' BY <1>1 DEF CycleKnowing, RowsFollowCycle
<1>3. PurgedGone' BY PurgedStaysGone DEF CycleKnowing
<1> QED BY <1>1, <1>2, <1>3 DEF CycleGoesOn

LEMMA CycleGoesNext ==
  ASSUME NEW c \in RotationCycles, CycleKnowing(c), CycleMove(c, NextSnapshot(keyCycle[c])),
         keyCycle[c].pc \in {"next", "rotate", "finish"}, UNCHANGED <<rec, snapRow>>,
         UNCHANGED <<objects, cached, tombstone, withProject, vaultRestarts>>
  PROVE  CycleGoesOn(c)
<1> DEFINE n == NextSnapshot(keyCycle[c])
<1>1. n \in KeyCycle /\ n.pc = "next" /\ n.copies \subseteq keyCycle[c].copies
  BY CycleTyped, NextSnapshotTyped DEF CycleKnowing
<1> HIDE DEF n
<1>2. CycleMove(c, n) BY DEF n
<1> QED BY <1>1, <1>2, CycleRests

LEMMA LoadGoesOn ==
  ASSUME NEW c \in RotationCycles, CycleKnowing(c), NEW force \in BOOLEAN,
         NEW wants \in SUBSET {"dek", "kek"}, NEW only \in SUBSET Snaps,
         LoadKeyRotationSnapshots(c, force, wants, only), UNCHANGED vaultFaults
  PROVE  CycleGoesOn(c)
<1> DEFINE n == Loaded(force, wants, only)
<1>1. snapRow \in [Snaps -> Record] /\ vaultFaults \in Nat
      /\ keyCycle \in [RotationCycles -> KeyCycle] /\ keyCycle[c].pc = "idle"
      /\ UNCHANGED <<rec, snapRow, objects, cached, tombstone, withProject, vaultRestarts, request>>
  BY DEF CycleKnowing, VaultTyped, LoadKeyRotationSnapshots, CycleUnchanged
<1>2. keyCycle' = [keyCycle EXCEPT ![c] = n] BY <1>1 DEF LoadKeyRotationSnapshots, Loaded, VaultFault
<1>3. n.pc = "loaded" BY DEF Loaded
<1>4. \A x \in n.copies : \E s \in Snaps : x = <<s, snapRow[s]>> BY <1>1, LoadedTyped
<1> HIDE DEF n
<1>5. keyCycle'[c] = n /\ CycleOnly(c) BY <1>1, <1>2, <1>3 DEF CycleOnly
<1>6. \A s \in Snaps : rec[s] = snapRow[s] BY <1>1 DEF CycleKnowing, RowsFollowCycle
<1>7. RowsFollowCycle(keyCycle[c])' BY <1>1, <1>3, <1>4, <1>5, <1>6 DEF RowsFollowCycle
<1>8. PurgedGone' BY <1>1, PurgedStaysGone DEF CycleKnowing
<1> QED BY <1>5, <1>7, <1>8 DEF CycleGoesOn

LEMMA RestoreRecordsGoesOn ==
  ASSUME NEW c \in RotationCycles, CycleKnowing(c), RestoreRecords(c)
  PROVE  CycleGoesOn(c)
<1> DEFINE q == keyCycle[c]
           n == Restored(q)
<1>1. /\ q \in KeyCycle /\ CycleFits(q) /\ q.pc = "loaded"
      /\ keyCycle \in [RotationCycles -> KeyCycle]
      /\ UNCHANGED <<snapRow, objects, cached, tombstone, withProject, vaultRestarts, request>>
      /\ \A s \in Snaps : rec[s] = snapRow[s]
      /\ \A x \in q.copies : x[2] = snapRow[x[1]] /\ x[2].state = rec[x[1]].state
  BY CycleTyped DEF CycleKnowing, RowsFollowCycle, RestoreRecords, CycleUnchanged
<1>2. ASSUME NEW s \in Snaps PROVE rec'[s] = rec[s]
  <2>1. \E x \in q.copies : x[1] = s BY <1>1 DEF CycleFits
  <2>2. CopyOf(q, s) = snapRow[s] BY <1>1, <2>1, CopyOfTyped
  <2> QED BY <1>1, <2>2 DEF RestoreRecords
<1>3. n.pc = "next" /\ n.copies \subseteq q.copies BY <1>1, RestoredTyped
<1>4. keyCycle' = [keyCycle EXCEPT ![c] = n] BY DEF RestoreRecords, Restored
<1> HIDE DEF n
<1>5. keyCycle'[c] = n /\ CycleOnly(c) BY <1>1, <1>3, <1>4 DEF CycleOnly
<1>6. \A x \in n.copies : x[1] \in Snaps BY <1>1, <1>3 DEF KeyCycle
<1>7. RowsFollowCycle(keyCycle[c])' BY <1>1, <1>2, <1>3, <1>5, <1>6 DEF RowsFollowCycle
<1>8. PurgedGone' BY <1>1, <1>2, PurgedStaysGone DEF CycleKnowing
<1> QED BY <1>5, <1>7, <1>8 DEF CycleGoesOn

LEMMA ChooseOperationGoesOn ==
  ASSUME NEW c \in RotationCycles, CycleKnowing(c), ChooseOperation(c)
  PROVE  CycleGoesOn(c)
<1> DEFINE q == keyCycle[c]
           s == Current(q)
           r == CopyOf(q, s)
           ops == IF q.force THEN q.wants ELSE q.wants \cap Due(s, r)
<1>1. /\ q \in KeyCycle /\ CycleFits(q) /\ q.pc = "next" /\ q.todo # {}
      /\ today \in 0..MaxDays
      /\ UNCHANGED <<rec, snapRow, objects, cached, tombstone, withProject, vaultRestarts>>
  BY CycleTyped DEF CycleKnowing, VaultTyped, ChooseOperation, CycleUnchanged
<1>2. ops \in SUBSET {"dek", "kek"} BY <1>1 DEF KeyCycle
<1>3. \/ CycleMove(c, NextSnapshot(q))
      \/ ops # {} /\ CycleMove(c, Chosen(q, ops, today))
  BY DEF ChooseOperation, CycleMove, CycleUnchanged, Chosen
<1>4. CASE CycleMove(c, NextSnapshot(q)) BY <1>1, <1>4, CycleGoesNext
<1> HIDE DEF ops, s, r
<1>5. CASE ops # {} /\ CycleMove(c, Chosen(q, ops, today))
  <2> DEFINE n == Chosen(q, ops, today)
  <2>1. n \in KeyCycle /\ n.pc = "rotate" /\ n.copies = q.copies BY <1>1, <1>2, <1>5, ChosenTyped
  <2> HIDE DEF n
  <2>2. CycleMove(c, n) BY <1>5 DEF n
  <2> QED BY <1>1, <2>1, <2>2, CycleRests
<1> QED BY <1>3, <1>4, <1>5

LEMMA RotateGoesOn ==
  ASSUME NEW c \in RotationCycles, CycleKnowing(c), RotateSnapshot(c)
  PROVE  CycleGoesOn(c)
<1> DEFINE q == keyCycle[c]
           s == Current(q)
           n == Rotated(q, {<<s, rec'[s]>>})
<1>1. /\ q \in KeyCycle /\ CycleFits(q) /\ q.pc = "rotate" /\ s \in Snaps
      /\ keyCycle \in [RotationCycles -> KeyCycle]
      /\ UNCHANGED <<snapRow, objects, cached, tombstone, withProject, vaultRestarts>>
      /\ \A t \in Snaps : rec[t] = snapRow[t]
      /\ \A x \in q.copies : x[2].state = rec[x[1]].state
      /\ q.copies \subseteq Snaps \X Record
  BY CycleTyped, CurrentTyped
     DEF CycleKnowing, RowsFollowCycle, RotateSnapshot, CycleUnchanged, CycleFits
<1>2. rec[s].state # "Purged"
  <2>1. s \in q.todo BY <1>1, CurrentTyped DEF CycleFits
  <2>2. \E x \in q.copies : x[1] = s BY <1>1, <2>1 DEF CycleFits
  <2>3. PICK x \in q.copies : x[1] = s /\ x[2] = CopyOf(q, s) BY <1>1, <2>2, CopyOfTyped
  <2>4. CopyOf(q, s).state # "Purged" BY <1>1 DEF CycleKnowing, AllWhole
  <2> QED BY <1>1, <2>3, <2>4
<1>3. CASE CycleMove(c, NextSnapshot(q)) /\ UNCHANGED rec BY <1>1, <1>3, CycleGoesNext
<1>4. CASE /\ CycleMove(c, n) /\ rec' \in [Snaps -> Record]
           /\ rec'[s].state = rec[s].state
           /\ \A t \in Snaps \ {s} : rec'[t] = rec[t]
  <2>1. {<<s, rec'[s]>>} \in SUBSET (Snaps \X Record) BY <1>1, <1>4
  <2>2. /\ n.pc = "save" /\ n.copies = q.copies /\ n.updated = {<<s, rec'[s]>>}
        /\ n.todo = q.todo
    BY <1>1, <2>1, RotatedTyped
  <2>3. Current(n) = s BY <2>2 DEF Current
  <2> HIDE DEF n
  <2>4. keyCycle'[c] = n /\ CycleOnly(c) BY <1>1, <1>4, <2>2 DEF CycleMove, CycleOnly
  <2>5. \A t \in Snaps : /\ rec'[t].state = rec[t].state
                         /\ rec[t].state = "Purged" => rec'[t] = rec[t]
    BY <1>2, <1>4
  <2> HIDE DEF s
  <2>6. RowsFollowCycle(keyCycle[c])'
    <3>1. \A t \in Snaps : rec'[t] = snapRow'[t] \/ s = t BY <1>1, <1>4
    <3>2. \A x \in n.copies : x[2].state = rec'[x[1]].state BY <1>1, <2>2, <2>5
    <3>3. Current(keyCycle[c])' = s BY <2>3, <2>4 DEF Current
    <3> QED BY <2>2, <2>4, <3>1, <3>2, <3>3 DEF RowsFollowCycle
  <2>7. PurgedGone' BY <1>1, <2>5, PurgedStaysGone DEF CycleKnowing
  <2> QED BY <2>4, <2>6, <2>7 DEF CycleGoesOn
<1> QED BY <1>3, <1>4, RotateSplit DEF CycleKnowing

LEMMA SaveRotatedGoesOn ==
  ASSUME NEW c \in RotationCycles, CycleKnowing(c), SaveRotated(c), UNCHANGED vaultFaults
  PROVE  CycleGoesOn(c)
<1> DEFINE q == keyCycle[c]
           s == Current(q)
           n == [q EXCEPT !.pc = "finish"]
<1>1. /\ q \in KeyCycle /\ q.pc = "save" /\ s \in Snaps /\ vaultFaults \in Nat
      /\ keyCycle \in [RotationCycles -> KeyCycle] /\ snapRow \in [Snaps -> Record]
      /\ UNCHANGED <<rec, objects, cached, tombstone, withProject, vaultRestarts, request>>
      /\ \A t \in Snaps : rec[t] = snapRow[t] \/ s = t
      /\ \A x \in q.copies : x[2].state = rec[x[1]].state
      /\ q.updated = {<<s, rec[s]>>}
  BY CycleTyped, CurrentTyped
     DEF CycleKnowing, VaultTyped, RowsFollowCycle, SaveRotated, CycleUnchanged, CycleFits
<1>2. snapRow' = [snapRow EXCEPT ![s] = rec[s]] /\ keyCycle' = [keyCycle EXCEPT ![c] = n]
  BY <1>1 DEF SaveRotated, VaultFault
<1>3. n.pc = "finish" /\ n.copies = q.copies BY <1>1, CycleAt
<1> HIDE DEF n, s
<1>4. keyCycle'[c] = n /\ CycleOnly(c) BY <1>1, <1>2, <1>3 DEF CycleOnly
<1>5. \A t \in Snaps : rec[t] = snapRow'[t] BY <1>1, <1>2
<1>6. RowsFollowCycle(keyCycle[c])' BY <1>1, <1>3, <1>4, <1>5 DEF RowsFollowCycle
<1>7. PurgedGone' BY <1>1, <1>5, PurgedStaysGone DEF CycleKnowing
<1> QED BY <1>4, <1>6, <1>7 DEF CycleGoesOn

LEMMA FinishRotationGoesOn ==
  ASSUME NEW c \in RotationCycles, CycleKnowing(c), FinishRotation(c)
  PROVE  CycleGoesOn(c)
<1>1. /\ CycleMove(c, NextSnapshot(keyCycle[c])) /\ keyCycle[c].pc = "finish"
      /\ UNCHANGED <<rec, snapRow, objects, cached, tombstone, withProject, vaultRestarts>>
  BY DEF FinishRotation, CycleMove, CycleUnchanged
<1> QED BY <1>1, CycleGoesNext

LEMMA EndKeyCycleGoesOn ==
  ASSUME NEW c \in RotationCycles, CycleKnowing(c), EndKeyCycle(c)
  PROVE  CycleGoesOn(c)
<1>1. /\ CycleMove(c, NoCycle) /\ keyCycle[c].pc = "next"
      /\ UNCHANGED <<rec, snapRow, objects, cached, tombstone, withProject, vaultRestarts>>
  BY DEF EndKeyCycle, CycleMove, CycleUnchanged
<1> QED BY <1>1, NoCycleTyped, CycleRests

----
(* Every step, and the theorems. *)

CalmParts == Alone /\ RowsFollow /\ PurgedLeavesNothing

LEMMA InitCalm == VaultInit => CalmParts
<1> SUFFICES ASSUME VaultInit PROVE CalmParts OBVIOUS
<1>1. \A u \in VaultUsers : request[u].pc = "idle" /\ request[u].op = "none"
  BY NoRequestTyped DEF VaultInit
<1>2. \A c \in RotationCycles : keyCycle[c].pc = "idle" /\ keyCycle[c].copies = {}
  BY NoCycleTyped DEF VaultInit
<1>3. Alone BY <1>1, <1>2 DEF Alone, VaultActors
<1>4. rec = snapRow /\ \A s \in Snaps : rec[s].state = "Active" BY DEF VaultInit, FirstRecord
<1>5. RowsFollow BY <1>1, <1>2, <1>4 DEF RowsFollow
<1>6. PurgedLeavesNothing BY <1>1, <1>4 DEF PurgedLeavesNothing, Purging
<1> QED BY <1>3, <1>5, <1>6 DEF CalmParts

\* Faults are only counted upwards.
LEMMA FaultsGrow ==
  ASSUME VaultTyped, VaultAct
  PROVE  vaultFaults' = vaultFaults \/ vaultFaults' = vaultFaults + 1
<1>1. ASSUME NEW u \in VaultUsers, RequestStarts(u)
      PROVE  vaultFaults' = vaultFaults
  BY <1>1 DEF RequestStarts, SoftDeleteSnapshot, RestoreSnapshot, PurgeSnapshot,
              RefreshSnapshot, StartRequest, PurgeProjectSnapshots
<1>2. ASSUME NEW u \in VaultUsers, RequestStep(u)
      PROVE  vaultFaults' = vaultFaults \/ vaultFaults' = vaultFaults + 1
  BY <1>2 DEF RequestStep, VaultFault, DeleteObject, MarkSnapshot, ReadSnapshot,
              RewrapSnapshot, SaveSnapshot, SaveTombstone, DeleteProjectObjects,
              DeleteSnapshotsForProject
<1>3. ASSUME NEW c, NEW force, NEW wants, NEW only,
             LoadKeyRotationSnapshots(c, force, wants, only)
      PROVE  vaultFaults' = vaultFaults \/ vaultFaults' = vaultFaults + 1
  BY <1>3 DEF LoadKeyRotationSnapshots, VaultFault
<1>4. ASSUME NEW c \in RotationCycles, KeyCycleStep(c)
      PROVE  vaultFaults' = vaultFaults \/ vaultFaults' = vaultFaults + 1
  BY <1>4 DEF KeyCycleStep, VaultFault, RestoreRecords, ChooseOperation, RotateSnapshot,
              SaveRotated, FinishRotation, EndKeyCycle, PersistKeyState
<1> QED BY <1>1, <1>2, <1>3, <1>4
        DEF VaultAct, RuntimeCycleStarts, ManualCycleStarts, DayPasses, VaultRestart

LEMMA RequestStepsGoOn ==
  ASSUME NEW u \in VaultUsers, Knows(u), UNCHANGED vaultFaults,
         RequestStarts(u) \/ RequestStep(u)
  PROVE  GoesOn(u)
<1>1. ASSUME NEW s \in Snaps, SoftDeleteSnapshot(u, s) \/ RestoreSnapshot(u, s)
      PROVE  GoesOn(u)
  BY <1>1, StartRequestGoesOn DEF SoftDeleteSnapshot, RestoreSnapshot
<1>2. ASSUME NEW s \in Snaps, PurgeSnapshot(u, s)
      PROVE  GoesOn(u)
  BY <1>2, StartRequestGoesOn DEF PurgeSnapshot
<1>3. ASSUME NEW s \in Snaps, RefreshSnapshot(u, s)
      PROVE  GoesOn(u)
  BY <1>3, StartRequestGoesOn DEF RefreshSnapshot
<1>4. CASE RequestStarts(u) BY <1>1, <1>2, <1>3, <1>4, PurgeProjectGoesOn DEF RequestStarts
<1>5. CASE RequestStep(u) BY <1>5, DeleteObjectGoesOn, MarkSnapshotGoesOn, ReadSnapshotGoesOn,
     RewrapSnapshotGoesOn, SaveSnapshotGoesOn, SaveTombstoneGoesOn,
     DeleteProjectObjectsGoesOn, DeleteRowsGoesOn DEF RequestStep
<1> QED BY <1>4, <1>5

LEMMA KeyCycleStepsGoOn ==
  ASSUME NEW c \in RotationCycles, CycleKnowing(c), UNCHANGED vaultFaults, KeyCycleStep(c)
  PROVE  CycleGoesOn(c)
  BY RestoreRecordsGoesOn, ChooseOperationGoesOn, RotateGoesOn, SaveRotatedGoesOn,
     FinishRotationGoesOn, EndKeyCycleGoesOn DEF KeyCycleStep

\* Whatever a request or a cycle does, it is the only one that moves, ...
LEMMA RequestsMoveAlone ==
  ASSUME VaultTyped, AllWhole, NEW u \in VaultUsers, RequestStarts(u) \/ RequestStep(u)
  PROVE  RequestOnly(u)
<1>1. request \in [VaultUsers -> Request] BY DEF VaultTyped
<1>2. CASE RequestStarts(u)
  <2>1. ASSUME NEW s \in Snaps, NEW op, NEW pc, NEW copy, pc # "idle",
               StartRequest(u, s, op, pc, copy)
        PROVE  RequestOnly(u)
    BY <1>1, <2>1 DEF StartRequest, RequestOnly
  <2>2. PurgeProjectSnapshots(u) => RequestOnly(u)
    BY <1>1 DEF PurgeProjectSnapshots, RequestOnly, NoRequest
  <2>3. ASSUME NEW s \in Snaps, SoftDeleteSnapshot(u, s) PROVE RequestOnly(u)
    BY <2>1, <2>3 DEF SoftDeleteSnapshot
  <2>4. ASSUME NEW s \in Snaps, RestoreSnapshot(u, s) PROVE RequestOnly(u)
    BY <2>1, <2>4 DEF RestoreSnapshot
  <2>5. ASSUME NEW s \in Snaps, PurgeSnapshot(u, s) PROVE RequestOnly(u) BY <2>1, <2>5 DEF PurgeSnapshot
  <2>6. ASSUME NEW s \in Snaps, RefreshSnapshot(u, s) PROVE RequestOnly(u)
    BY <2>1, <2>6 DEF RefreshSnapshot
  <2> QED BY <1>2, <2>2, <2>3, <2>4, <2>5, <2>6 DEF RequestStarts
<1>3. CASE RequestStep(u)
  <2>1. DeleteObject(u) \/ SaveSnapshot(u) \/ SaveTombstone(u) => RequestOnly(u)
    BY <1>1 DEF DeleteObject, SaveSnapshot, SaveTombstone, RequestOnly
  <2>2. MarkSnapshot(u) \/ ReadSnapshot(u) \/ RewrapSnapshot(u) => RequestOnly(u)
    BY <1>1 DEF MarkSnapshot, ReadSnapshot, RewrapSnapshot, RequestOnly
  <2>3. DeleteProjectObjects(u) \/ DeleteSnapshotsForProject(u) => RequestOnly(u)
    BY <1>1 DEF DeleteProjectObjects, DeleteSnapshotsForProject, RequestOnly
  <2> QED BY <1>3, <2>1, <2>2, <2>3 DEF RequestStep
<1> QED BY <1>2, <1>3

LEMMA LoadMovesAlone ==
  ASSUME VaultTyped, NEW c \in RotationCycles, NEW force, NEW wants, NEW only,
         LoadKeyRotationSnapshots(c, force, wants, only), UNCHANGED vaultFaults
  PROVE  CycleOnly(c)
<1>1. keyCycle \in [RotationCycles -> KeyCycle] /\ vaultFaults \in Nat BY DEF VaultTyped
<1> QED BY <1>1 DEF LoadKeyRotationSnapshots, CycleUnchanged, VaultFault, CycleOnly

LEMMA CyclesMoveAlone ==
  ASSUME VaultTyped, NEW c \in RotationCycles, KeyCycleStep(c)
  PROVE  CycleOnly(c)
<1>1. keyCycle \in [RotationCycles -> KeyCycle] BY DEF VaultTyped
<1>2. RestoreRecords(c) \/ ChooseOperation(c) \/ RotateSnapshot(c) => CycleOnly(c)
  BY <1>1 DEF RestoreRecords, ChooseOperation, RotateSnapshot, CycleUnchanged, CycleOnly
<1>3. SaveRotated(c) \/ FinishRotation(c) \/ EndKeyCycle(c) => CycleOnly(c)
  BY <1>1 DEF SaveRotated, FinishRotation, EndKeyCycle, CycleUnchanged, CycleOnly
<1> QED BY <1>2, <1>3 DEF KeyCycleStep

\* ... and so it leaves everything calm.
LEMMA RequestsStayCalm ==
  ASSUME VaultTyped, AllWhole, CalmParts, VaultTyped', AtMostOne', UNCHANGED vaultFaults,
         NEW u \in VaultUsers, RequestStarts(u) \/ RequestStep(u)
  PROVE  CalmParts'
<1>1. Alone' /\ OnlyRequest(u) /\ OnlyRequest(u)' BY RequestsMoveAlone, RequestAlone DEF CalmParts
<1>2. Knows(u) BY <1>1, RequestKnows DEF CalmParts, Knows
<1>3. GoesOn(u) BY <1>2, RequestStepsGoOn
<1> QED BY <1>1, <1>3, RequestTells DEF CalmParts, GoesOn

LEMMA CyclesStayCalm ==
  ASSUME VaultTyped, AllWhole, CalmParts, VaultTyped', AtMostOne', UNCHANGED vaultFaults,
         NEW c \in RotationCycles,
         \/ KeyCycleStep(c)
         \/ \E force \in BOOLEAN, wants \in SUBSET {"dek", "kek"}, only \in SUBSET Snaps :
              LoadKeyRotationSnapshots(c, force, wants, only)
  PROVE  CalmParts'
<1>1. CycleOnly(c) BY CyclesMoveAlone, LoadMovesAlone
<1>2. Alone' /\ OnlyCycle(c) /\ OnlyCycle(c)' BY <1>1, CycleAlone DEF CalmParts
<1>3. CycleKnowing(c) BY <1>2, CycleKnows DEF CalmParts, CycleKnowing
<1>4. CycleGoesOn(c) BY <1>3, KeyCycleStepsGoOn, LoadGoesOn
<1> QED BY <1>2, <1>4, CycleTells DEF CalmParts, CycleGoesOn

LEMMA RestartStaysCalm ==
  ASSUME VaultTyped, CalmParts, NEW p \in KmsProviders, VaultRestart(p)
  PROVE  CalmParts'
<1>1. /\ \A u \in VaultUsers : request'[u].pc = "idle" /\ request'[u].op = "none"
      /\ \A c \in RotationCycles : keyCycle'[c].pc = "idle" /\ keyCycle'[c].copies = {}
  BY NoRequestTyped, NoCycleTyped DEF VaultRestart
<1>2. rec' = snapRow /\ snapRow' = snapRow /\ objects' = objects /\ vaultRestarts' > 0
  BY DEF VaultRestart, VaultTyped
<1>3. Alone' BY <1>1 DEF Alone, VaultActors
<1>4. RowsFollow' BY <1>1, <1>2 DEF RowsFollow
<1>5. PurgedLeavesNothing' BY <1>1, <1>2 DEF CalmParts, PurgedLeavesNothing, Purging
<1> QED BY <1>3, <1>4, <1>5 DEF CalmParts

LEMMA DayStaysCalm ==
  ASSUME CalmParts, DayPasses
  PROVE  CalmParts'
<1>1. UNCHANGED <<rec, snapRow, objects, cached, tombstone, withProject, request, keyCycle, vaultRestarts>>
  BY DEF DayPasses
<1>2. Alone' BY <1>1 DEF CalmParts, Alone, VaultActors
<1>3. RowsFollow' BY <1>1 DEF CalmParts, RowsFollow, Saving, Current
<1>4. PurgedLeavesNothing' BY <1>1 DEF CalmParts, PurgedLeavesNothing, Purging
<1> QED BY <1>2, <1>3, <1>4 DEF CalmParts

LEMMA ActStaysCalm ==
  ASSUME VaultTyped, AllWhole, CalmParts, VaultTyped', AtMostOne', UNCHANGED vaultFaults,
         VaultAct
  PROVE  CalmParts'
<1>1. ASSUME RuntimeCycleStarts PROVE CalmParts'
  <2>1. RuntimeCycle \in RotationCycles BY VaultAssumption
  <2>2. LoadKeyRotationSnapshots(RuntimeCycle, FALSE, {"dek", "kek"}, Snaps)
    BY <1>1 DEF RuntimeCycleStarts
  <2> QED BY <2>1, <2>2, CyclesStayCalm
<1>2. ASSUME NEW c \in RotationCycles, NEW force \in BOOLEAN,
             NEW wants \in {{}, {"kek"}, {"dek", "kek"}},
             NEW only \in {Snaps} \cup {{s} : s \in Snaps},
             ManualCycleStarts(c, force, wants, only)
      PROVE  CalmParts'
  <2>1. wants \in SUBSET {"dek", "kek"} /\ only \in SUBSET Snaps OBVIOUS
  <2>2. LoadKeyRotationSnapshots(c, force, wants, only) BY <1>2 DEF ManualCycleStarts
  <2> QED BY <2>1, <2>2, CyclesStayCalm
<1>3. ASSUME NEW c \in RotationCycles, KeyCycleStep(c) PROVE CalmParts' BY <1>3, CyclesStayCalm
<1>4. ASSUME NEW u \in VaultUsers, RequestStarts(u) \/ RequestStep(u) PROVE CalmParts'
  BY <1>4, RequestsStayCalm
<1> QED BY <1>1, <1>2, <1>3, <1>4, RestartStaysCalm, DayStaysCalm DEF VaultAct

\* A purge reaches its tombstone only past the removal of the object, and nothing
\* puts an object back.
LEMMA TombstonesStayTrue ==
  ASSUME VaultTyped, TombstonesTrue, VaultAct
  PROVE  TombstonesTrue'
<1> DEFINE late == {"mark", "read", "save", "tombstone"}
<1>1. request \in [VaultUsers -> Request] /\ tombstone \in [Snaps -> {"none", "deleted", "purged"}]
  BY DEF VaultTyped
<1>2. ASSUME objects' \subseteq objects, UNCHANGED tombstone,
             \A u \in VaultUsers :
               request'[u].op = "purge" /\ request'[u].pc \in late =>
                 \/ /\ request[u].op = "purge" /\ request[u].pc \in late
                    /\ request'[u].snap = request[u].snap
                 \/ request'[u].snap \notin objects'
      PROVE  TombstonesTrue'
  BY <1>2 DEF TombstonesTrue, Purging
<1>3. ASSUME UNCHANGED <<objects, tombstone, request>> PROVE TombstonesTrue' BY <1>2, <1>3
<1>f. ASSUME NEW u \in VaultUsers PROVE request[u] \in Request BY <1>1
<1>c. ASSUME NEW u \in VaultUsers, NEW q, request' = [request EXCEPT ![u] = q],
             objects' \subseteq objects, UNCHANGED tombstone,
             q.op = "purge" /\ q.pc \in late =>
               \/ request[u].op = "purge" /\ request[u].pc \in late /\ q.snap = request[u].snap
               \/ q.snap \notin objects'
      PROVE  TombstonesTrue'
  <2> HIDE DEF late
  <2>1. \A w \in VaultUsers : request'[w] = IF w = u THEN q ELSE request[w] BY <1>1, <1>c
  <2> QED BY <1>2, <1>c, <2>1
<1>4. ASSUME NEW u \in VaultUsers, NEW s, NEW op, NEW pc, NEW copy,
             StartRequest(u, s, op, pc, copy), op # "purge" \/ pc = "object"
      PROVE  TombstonesTrue'
  BY <1>1, <1>2, <1>4 DEF StartRequest
<1>5. ASSUME NEW u \in VaultUsers, RequestStarts(u) PROVE TombstonesTrue'
  <2>1. PurgeProjectSnapshots(u) => TombstonesTrue' BY <1>1, <1>2 DEF PurgeProjectSnapshots, NoRequest
  <2> QED BY <1>4, <1>5, <2>1 DEF RequestStarts, SoftDeleteSnapshot, RestoreSnapshot,
                                  PurgeSnapshot, RefreshSnapshot
<1>6. ASSUME NEW u \in VaultUsers, RequestStep(u) PROVE TombstonesTrue'
  <2>1. ASSUME DeleteObject(u) PROVE TombstonesTrue'
    <3>1. objects' \subseteq objects /\ UNCHANGED tombstone BY <2>1 DEF DeleteObject
    <3> DEFINE q == [request[u] EXCEPT !.pc = "mark"]
    <3>2. CASE request' = [request EXCEPT ![u] = q] /\ request[u].snap \notin objects'
      <4>1. q.snap = request[u].snap BY <1>f
      <4> QED BY <3>1, <3>2, <4>1, <1>c
    <3>3. CASE request' = [request EXCEPT ![u] = NoRequest] BY <3>1, <3>3, <1>c DEF NoRequest
    <3> QED BY <2>1, <3>2, <3>3 DEF DeleteObject
  <2>2. ASSUME MarkSnapshot(u) PROVE TombstonesTrue'
    <3>1. objects' \subseteq objects /\ UNCHANGED tombstone /\ request[u].pc \in late
      BY <2>2 DEF MarkSnapshot
    <3> DEFINE q == [request[u] EXCEPT !.pc = "read"]
    <3>2. CASE request' = [request EXCEPT ![u] = q]
      <4>1. q.op = request[u].op /\ q.snap = request[u].snap BY <1>f
      <4> QED BY <3>1, <3>2, <4>1, <1>c
    <3>3. CASE request' = [request EXCEPT ![u] = NoRequest] BY <3>1, <3>3, <1>c DEF NoRequest
    <3> QED BY <2>2, <3>2, <3>3 DEF MarkSnapshot
  <2>3. ASSUME ReadSnapshot(u) PROVE TombstonesTrue'
    <3> DEFINE q == [request[u] EXCEPT !.pc = "save", !.copy = {rec[request[u].snap]}]
    <3>1. /\ objects' \subseteq objects /\ UNCHANGED tombstone /\ request[u].pc \in late
          /\ request' = [request EXCEPT ![u] = q]
      BY <2>3 DEF ReadSnapshot
    <3>2. q.op = request[u].op /\ q.snap = request[u].snap BY <1>f
    <3> QED BY <3>1, <3>2, <1>c
  <2>4. ASSUME RewrapSnapshot(u) PROVE TombstonesTrue'
    <3>1. objects' \subseteq objects /\ UNCHANGED tombstone /\ request[u].op # "purge"
      BY <2>4 DEF RewrapSnapshot
    <3> DEFINE q == [request[u] EXCEPT !.pc = "save", !.copy = {rec'[request[u].snap]}]
    <3>2. CASE request' = [request EXCEPT ![u] = q]
      <4>1. q.op # "purge" BY <3>1, <1>f
      <4> QED BY <3>1, <3>2, <4>1, <1>c
    <3>3. CASE request' = [request EXCEPT ![u] = NoRequest] BY <3>1, <3>3, <1>c DEF NoRequest
    <3> QED BY <2>4, <3>2, <3>3 DEF RewrapSnapshot
  <2>5. ASSUME SaveSnapshot(u) PROVE TombstonesTrue'
    <3>1. objects' \subseteq objects /\ UNCHANGED tombstone /\ request[u].pc \in late
      BY <2>5 DEF SaveSnapshot
    <3> DEFINE q == [request[u] EXCEPT !.pc = "tombstone", !.copy = {}]
    <3>2. CASE request' = [request EXCEPT ![u] = q]
      <4>1. q.op = request[u].op /\ q.snap = request[u].snap BY <1>f
      <4> QED BY <3>1, <3>2, <4>1, <1>c
    <3>3. CASE request' = [request EXCEPT ![u] = NoRequest] BY <3>1, <3>3, <1>c DEF NoRequest
    <3> QED BY <2>5, <3>2, <3>3 DEF SaveSnapshot
  <2>6. ASSUME SaveTombstone(u) PROVE TombstonesTrue'
    <3>1. /\ request[u].pc = "tombstone" /\ objects' = objects
          /\ request' = [request EXCEPT ![u] = NoRequest]
          /\ \/ UNCHANGED tombstone
             \/ tombstone' = [tombstone EXCEPT ![request[u].snap] =
                                IF request[u].op = "purge" THEN "purged" ELSE "deleted"]
      BY <2>6 DEF SaveTombstone
    <3>2. ASSUME NEW s \in Snaps, Purging(s, late)' PROVE Purging(s, late)
      BY <1>1, <3>1, <3>2 DEF Purging, NoRequest
    <3>3. ASSUME NEW s \in Snaps, tombstone'[s] = "purged"
          PROVE  tombstone[s] = "purged" \/ Purging(s, late)
      BY <1>1, <3>1, <3>3 DEF Purging
    <3> QED BY <3>1, <3>2, <3>3 DEF TombstonesTrue
  <2>7. DeleteProjectObjects(u) \/ DeleteSnapshotsForProject(u) => TombstonesTrue'
    BY <1>1, <1>2 DEF DeleteProjectObjects, DeleteSnapshotsForProject, NoRequest
  <2> QED BY <1>6, <2>1, <2>2, <2>3, <2>4, <2>5, <2>6, <2>7 DEF RequestStep
<1>7. ASSUME NEW c, NEW force, NEW wants, NEW only,
             LoadKeyRotationSnapshots(c, force, wants, only)
      PROVE  TombstonesTrue'
  BY <1>3, <1>7 DEF LoadKeyRotationSnapshots, CycleUnchanged
<1>8. ASSUME NEW c, KeyCycleStep(c) PROVE TombstonesTrue'
  BY <1>3, <1>8 DEF KeyCycleStep, CycleUnchanged, RestoreRecords, ChooseOperation,
                    RotateSnapshot, SaveRotated, FinishRotation, EndKeyCycle
<1>9. ASSUME NEW p, VaultRestart(p) PROVE TombstonesTrue' BY <1>1, <1>2, <1>9 DEF VaultRestart, NoRequest
<1>10. DayPasses => TombstonesTrue' BY <1>3 DEF DayPasses
<1> QED BY <1>5, <1>6, <1>7, <1>8, <1>9, <1>10
        DEF VaultAct, RuntimeCycleStarts, ManualCycleStarts

LEMMA NextKeepsInv == VaultInv /\ [VaultNext]_vaultVars => VaultInv'
<1> SUFFICES ASSUME VaultInv, [VaultNext]_vaultVars PROVE VaultInv' OBVIOUS
<1>1. VaultTyped /\ AllWhole /\ TombstonesTrue /\ (Calm => CalmParts) BY DEF VaultInv, CalmParts
<1>2. CASE VaultNext
  <2>1. vaultOverlap' \in BOOLEAN /\ (~vaultOverlap' => ~vaultOverlap /\ AtMostOne')
    BY <1>1, <1>2 DEF VaultNext, AtMostOne, VaultTyped
  <2>2. VaultAct BY <1>2 DEF VaultNext
  <2>3. VaultTyped' /\ AllWhole' /\ TombstonesTrue' BY <1>1, <2>1, <2>2, ActKeeps, TombstonesStayTrue
  <2>4. ASSUME Calm' PROVE CalmParts'
    <3>1. vaultFaults = 0 /\ vaultFaults' = 0 BY <1>1, <2>2, <2>4, FaultsGrow DEF Calm, VaultTyped
    <3>2. CalmParts /\ AtMostOne' BY <1>1, <2>1, <2>4, <3>1 DEF Calm
    <3> QED BY <1>1, <2>2, <2>3, <3>1, <3>2, ActStaysCalm
  <2> QED BY <2>3, <2>4 DEF VaultInv, CalmParts
<1>3. CASE UNCHANGED vaultVars
  <2>1. VaultTyped' BY <1>1, <1>3 DEF vaultVars, VaultTyped, RequestFits, CycleFits
  <2>2. AllWhole' BY <1>1, <1>3 DEF vaultVars, AllWhole, Whole, CopyOf, Current
  <2>3. UNCHANGED <<rec, snapRow, objects, cached, tombstone, withProject, request, keyCycle,
                    vaultRestarts, vaultFaults, vaultOverlap>>
    BY <1>3 DEF vaultVars
  <2>4. (Calm => CalmParts)'
    BY <1>1, <2>3 DEF Calm, CalmParts, Alone, VaultActors, RowsFollow, Saving, Current,
                      PurgedLeavesNothing, Purging
  <2>5. TombstonesTrue' BY <1>1, <2>3 DEF TombstonesTrue, Purging
  <2> QED BY <2>1, <2>2, <2>4, <2>5 DEF VaultInv, CalmParts
<1> QED BY <1>2, <1>3

\* The vault keeps its records, rows and copies whole, whatever overlaps, fails or is
\* cut short by a restart; and while one actor works at a time and nothing fails, memory
\* and rows follow each other and a purge leaves nothing behind.
THEOREM InvariantHolds == VaultSpec => []VaultInv
<1>1. VaultInit => TombstonesTrue BY NoRequestTyped DEF VaultInit, TombstonesTrue, Purging
<1>2. VaultInit => VaultInv BY <1>1, InitTypedWhole, InitCalm DEF VaultInv, CalmParts
<1> QED BY <1>2, NextKeepsInv, PTL DEF VaultSpec

LEMMA InvReadable == VaultInv => SnapshotsReadable
<1> SUFFICES ASSUME VaultInv PROVE SnapshotsReadable OBVIOUS
<1>1. VaultTyped /\ AllWhole BY DEF VaultInv
<1>2. ASSUME NEW u \in VaultUsers
      PROVE  (Cardinality(request[u].copy) = 1)
               <=> (request[u].pc = "save" \/ request[u].op = "refresh")
  <2>1. RequestFits(request[u]) BY <1>1 DEF VaultTyped
  <2>2. CASE request[u].copy = {}
    <3>1. Cardinality(request[u].copy) = 0 BY <2>2, FS_EmptySet
    <3> QED BY <2>1, <2>2, <3>1 DEF RequestFits
  <2>3. ASSUME NEW r \in Record, request[u].copy = {r}
        PROVE  /\ Cardinality(request[u].copy) = 1
               /\ request[u].pc = "save" \/ request[u].op = "refresh"
    <3>1. Cardinality({r}) = 1 BY FS_Singleton
    <3> QED BY <2>1, <2>3, <3>1 DEF RequestFits
  <2> QED BY <2>1, <2>2, <2>3 DEF RequestFits
<1>3. \A u \in VaultUsers : /\ request[u].pc \in RequestPcs
                            /\ request[u].copy \subseteq Record
  BY <1>1, RequestTyped DEF Request, RequestPcs
<1>4. ASSUME NEW c \in RotationCycles
      PROVE  /\ keyCycle[c].pc \in {"idle", "loaded", "next", "rotate", "save", "finish"}
             /\ keyCycle[c].pc \in {"rotate", "save", "finish"} => keyCycle[c].ops # {}
             /\ keyCycle[c].todo \subseteq Snaps
  BY <1>1, CycleTyped DEF KeyCycle, CycleFits
<1>5. VaultTypeOK BY <1>1, <1>2, <1>3, <1>4 DEF VaultTyped, VaultTypeOK, KeyInfo, RequestPcs
<1>6. ActiveReadable BY <1>1 DEF AllWhole, Whole, ActiveReadable, Decrypts, Unwraps
<1> QED BY <1>5, <1>6 DEF SnapshotsReadable

\* No overlap of deletes, restores, refreshes and rotations, no failure and no restart
\* leaves a snapshot that is not purged without a ciphertext that decrypts, in memory or
\* in its row; what Vault wrapped is out of reach only while another provider is active.
THEOREM SnapshotsReadableHolds == VaultSpec => []SnapshotsReadable
BY InvariantHolds, InvReadable, PTL

LEMMA InvPurgedIsGone == VaultInv => PurgedIsGone
<1> SUFFICES ASSUME VaultInv, ~vaultOverlap, vaultFaults = 0, VaultActors = {},
                    NEW s \in Snaps
             PROVE  /\ rec[s] = snapRow[s]
                    /\ rec[s].state = "Purged" =>
                         /\ ~rec[s].payload.full
                         /\ s \notin objects
                         /\ s \notin cached \/ vaultRestarts > 0
                         /\ tombstone[s] = "purged" \/ s \in withProject \/ vaultRestarts > 0
  BY DEF PurgedIsGone, VaultInv, TombstonesTrue
<1>1. VaultTyped /\ RowsFollow /\ PurgedLeavesNothing BY DEF VaultInv, Calm
<1>2. /\ \A u \in VaultUsers : request[u].pc = "idle" /\ request[u].op = "none"
      /\ \A c \in RotationCycles : keyCycle[c].pc = "idle"
  BY <1>1 DEF VaultActors, VaultTyped, RequestFits
<1>3. rec[s] = snapRow[s] BY <1>1, <1>2 DEF RowsFollow, Saving
<1>4. ~Purging(s, {"read", "save", "tombstone"}) BY <1>2 DEF Purging
<1> QED BY <1>1, <1>2, <1>3, <1>4 DEF PurgedLeavesNothing

\* A tombstone that says "purged" is true of the object, whatever overlapped or failed.
\* And a purge is complete: with one actor at a time and no failure, a snapshot that is purged
\* at rest has no ciphertext, no object and no cache entry, and its tombstone is written.
THEOREM PurgedIsGoneHolds == VaultSpec => []PurgedIsGone
BY InvariantHolds, InvPurgedIsGone, PTL

----
(* Evidence packages: the invariant. *)

CallSteps == {"idle", "certify", "savePackage", "saveTask", "audit", "taskRow", "refresh",
              "saveFailed", "saveToken", "tokenRow", "checkToken", "consume"}

CallOps == {"none", "export", "refresh", "status", "authorize", "download"}

ExportCallRecord ==
  [at : CallSteps, op : CallOps, user : ExportUsers \cup {NoExport},
   project : ExportProjects \cup {NoExport}, task : ExportTaskIds \cup {NoExport},
   token : DownloadTokens \cup {NoExport},
   found : ExportTaskRecords \cup {NoExport} \cup SUBSET Nat,
   auth : DownloadAuthorizations \cup {NoExport}]

ExportTables ==
  /\ ledger \in Seq(ExportProjects \cup {NoProject}) /\ archived \in 0..Len(ledger)
  /\ exportTasks \in [ExportTaskIds -> ExportTaskRecords \cup {NoExport}]
  /\ exportRows \in [ExportTaskIds -> ExportTaskRecords \cup {NoExport}]
  /\ packageRows \in [ExportTaskIds -> Packages \cup {NoExport}]
  /\ tokens \in [DownloadTokens -> DownloadAuthorizations \cup {NoExport}]
  /\ tokenRows \in [DownloadTokens -> DownloadAuthorizations \cup {NoExport}]
  /\ exportCall \in [ExportCalls -> ExportCallRecord]

\* Where a request holds a version of its task that it may write back.
Carrying == {"savePackage", "saveTask", "taskRow", "refresh", "saveFailed"}

\* What is known of a task: in memory, in its row, and under way.
Versions(t) ==
  ({exportTasks[t], exportRows[t]}
     \cup {exportCall[c].found : c \in {d \in ExportCalls : exportCall[d].task = t
                                                           /\ exportCall[d].at \in Carrying}})
  \ {NoExport}

SoundVersion(r) ==
  /\ r \in ExportTaskRecords
  /\ IntegrityVerified(r.package, r.package.events)
  /\ r.status = "completed" => r.verified /\ AnchorVerifies(r.package.anchor, r.package.chain)

GoodVersion(t, r) == SoundVersion(r) /\ (r.status = "completed" => t \in certified)

OwnedBy(t, u, p) == \A r \in Versions(t) : r.user = u /\ r.project = p

OneOwner(t) == \A r, s \in Versions(t) : r.user = s.user /\ r.project = s.project

Recorded(t) == exportTasks[t] # NoExport \/ exportRows[t] # NoExport

\* What is known of a token: in memory, in its row, and under way.
Copies(k) ==
  ({tokens[k], tokenRows[k]}
     \cup {exportCall[c].auth : c \in {d \in ExportCalls : exportCall[d].token = k}})
  \ {NoExport}

\* A token is for a task that was completed, and for its owner.
CopyFits(k, a) ==
  /\ a \in DownloadAuthorizations
  /\ a.task \in certified /\ Recorded(a.task)
  /\ OwnedBy(a.task, a.user, a.project)
  /\ tokenRows[k] # NoExport => tokenRows[k].task = a.task

RowsFit ==
  /\ \A t \in ExportTaskIds :
       /\ exportRows[t] # NoExport => packageRows[t] # NoExport
       /\ packageRows[t] # NoExport => IntegrityVerified(packageRows[t], packageRows[t].events)
  /\ \A k \in DownloadTokens :
       tokenRows[k] # NoExport => exportRows[tokenRows[k].task] # NoExport
  /\ \A k \in issued : k \in DownloadTokens /\ tokenRows[k] # NoExport
  /\ \A d \in served :
       /\ d.task \in ExportTaskIds /\ d.task \in certified
       /\ exportRows[d.task] # NoExport /\ OwnedBy(d.task, d.user, d.project)

\* Until its package is certified nobody else knows of a task.
CertifyFits(c) ==
  LET call == exportCall[c] IN
  call.at = "certify" =>
    /\ call.op = "export" /\ call.task \in ExportTaskIds
    /\ call.found \in SUBSET Nat /\ IsFiniteSet(call.found) /\ VerifyScopedChain(call.found)
    /\ exportTasks[call.task] = NoExport /\ exportRows[call.task] = NoExport
    /\ \A d \in ExportCalls \ {c} : exportCall[d].task # call.task

\* Until its row is inserted nobody else knows of a token.
SaveTokenFits(c) ==
  LET call == exportCall[c] IN
  call.at = "saveToken" =>
    /\ call.op = "authorize" /\ call.token \in DownloadTokens
    /\ call.auth \in DownloadAuthorizations /\ call.auth.task = call.task
    /\ tokens[call.token] = call.auth /\ tokenRows[call.token] = NoExport
    /\ \A d \in ExportCalls \ {c} : exportCall[d].token # call.token

DownloadFits(call) ==
  call.op = "download" =>
    /\ call.token \in issued /\ call.auth \in DownloadAuthorizations
    /\ call.at \notin {"tokenRow", "checkToken"} =>
         /\ call.auth.task = call.task
         /\ call.auth.user = call.user /\ call.auth.project = call.project

StepFits(call) ==
  /\ call.at # "idle" => call.user \in ExportUsers /\ call.project \in ExportProjects
  /\ call.at \in Carrying => call.found \in ExportTaskRecords /\ call.task \in ExportTaskIds
  /\ call.at \in {"savePackage", "saveTask", "saveFailed", "refresh"} =>
       call.op \in {"export", "refresh"}
  /\ call.at \in {"tokenRow", "checkToken", "consume"} => call.op = "download"
  /\ call.at = "taskRow" => call.op \in {"refresh", "status", "authorize", "download"}
  /\ call.at = "consume" => call.auth.consumed /\ call.task \in ExportTaskIds
  /\ call.at = "audit" /\ call.op = "authorize" =>
       call.token \in DownloadTokens /\ tokenRows[call.token] # NoExport
  /\ DownloadFits(call)

CallFits(c) == CertifyFits(c) /\ SaveTokenFits(c) /\ StepFits(exportCall[c])

ExportInv ==
  /\ ExportTables
  /\ \A t \in ExportTaskIds : OneOwner(t) /\ \A r \in Versions(t) : GoodVersion(t, r)
  /\ \A k \in DownloadTokens : \A a \in Copies(k) : CopyFits(k, a)
  /\ RowsFit
  /\ \A c \in ExportCalls : CallFits(c)

----
(* Evidence packages: what is built, refreshed and verified. *)

LEMMA ScopedEventsFinite ==
  ASSUME ledger \in Seq(ExportProjects \cup {NoProject}), archived \in 0..Len(ledger), NEW p
  PROVE  ScopedEvents(p) \in SUBSET Nat /\ IsFiniteSet(ScopedEvents(p))
<1>1. Len(ledger) \in Nat /\ archived \in Nat OBVIOUS
<1>2. ScopedEvents(p) \subseteq archived + 1 .. Len(ledger) BY DEF ScopedEvents
<1>3. IsFiniteSet(archived + 1 .. Len(ledger)) BY <1>1, FS_Interval
<1>4. IsFiniteSet(ScopedEvents(p)) BY <1>2, <1>3, FS_Subset
<1>5. ScopedEvents(p) \in SUBSET Nat BY <1>1, <1>2
<1> QED BY <1>4, <1>5

LEMMA CertificateTyped ==
  ASSUME NEW events \in SUBSET Nat, IsFiniteSet(events)
  PROVE  /\ Certificate(events) \in Certificates
         /\ HashChain(events, Certificate(events)) \in HashChains
<1>1. Cardinality(events) \in Nat BY FS_CardinalityType
<1> QED BY <1>1 DEF Certificate, Certificates, HashChain, HashChains

LEMMA ReceiptsTyped ==
  ASSUME NEW digest \in HashChains, NEW receipt \in AnchorReceipts(digest)
  PROVE  receipt \in AnchorReceiptSet
<1>1. CASE AnchorProvider = "mock"
  <2>1. receipt \in {[digest |-> digest, status |-> "confirmed", proof |-> TRUE]}
    BY <1>1, Zenon DEF AnchorReceipts
  <2>2. [digest |-> digest, status |-> "confirmed", proof |-> TRUE] \in AnchorReceiptSet
    BY DEF AnchorReceiptSet
  <2> QED BY <2>1, <2>2, Zenon
<1>2. CASE AnchorProvider # "mock"
  <2>1. \/ receipt \in [digest : {digest}, status : {"confirmed"}, proof : BOOLEAN]
        \/ receipt \in [digest : {digest}, status : {"pending", "failed"}, proof : {FALSE}]
    BY <1>2 DEF AnchorReceipts
  <2> QED BY <2>1 DEF AnchorReceiptSet
<1> QED BY <1>1, <1>2

LEMMA RefreshedTyped ==
  ASSUME NEW old \in AnchorReceiptSet, NEW receipt \in RefreshedReceipts(old)
  PROVE  receipt \in AnchorReceiptSet
<1>1. old.digest \in HashChains BY DEF AnchorReceiptSet
<1>2. CASE AnchorProvider = "mock" BY <1>2 DEF RefreshedReceipts, MockRefresh, AnchorReceiptSet
<1>3. CASE AnchorProvider # "mock" BY <1>1, <1>3, ReceiptsTyped DEF RefreshedReceipts
<1> QED BY <1>2, <1>3

LEMMA StatusTyped ==
  ASSUME NEW receipt \in AnchorReceiptSet
  PROVE  /\ ManifestStatus(receipt) \in {"pending_anchor", "verified", "failed_anchor"}
         /\ ManifestStatus(receipt) = "verified" => receipt.status = "confirmed"
  BY DEF AnchorReceiptSet, ManifestStatus

LEMMA BuiltSound ==
  ASSUME NEW events \in SUBSET Nat, IsFiniteSet(events), VerifyScopedChain(events),
         NEW receipt \in AnchorReceiptSet
  PROVE  LET package == BuildPackage(events, receipt) IN
         /\ package \in Packages /\ package.events = events
         /\ IntegrityVerified(package, package.events)
<1> DEFINE cert == Certificate(events)
           chain == HashChain(events, cert)
<1>1. cert \in Certificates /\ chain \in HashChains BY CertificateTyped
<1>2. ManifestStatus(receipt) \in {"pending_anchor", "verified", "failed_anchor"} BY StatusTyped
<1>3. BuildPackage(events, receipt) \in Packages
  BY <1>1, <1>2 DEF BuildPackage, Packages, TimestampReceipt
<1>4. IntegrityVerified(BuildPackage(events, receipt), events)
  BY DEF BuildPackage, IntegrityVerified, TimestampReceipt, StampVerifies
<1>5. BuildPackage(events, receipt).events = events BY DEF BuildPackage
<1> QED BY <1>3, <1>4, <1>5

LEMMA RefreshSound ==
  ASSUME NEW package \in Packages, IntegrityVerified(package, package.events),
         NEW receipt \in AnchorReceiptSet
  PROVE  LET new == RefreshAnchorReceipt(package, receipt) IN
         /\ new \in Packages /\ new.events = package.events
         /\ IntegrityVerified(new, new.events)
<1> DEFINE new == RefreshAnchorReceipt(package, receipt)
<1>1. ManifestStatus(receipt) \in {"pending_anchor", "verified", "failed_anchor"} BY StatusTyped
<1>2. new \in Packages BY <1>1 DEF RefreshAnchorReceipt, Packages
<1>3. /\ new.events = package.events /\ new.certificate = package.certificate
      /\ new.chain = package.chain /\ new.stamp = package.stamp
      /\ new.anchor = receipt /\ new.manifest.anchor = receipt
      /\ new.manifest.events = package.manifest.events
      /\ new.manifest.certificate = package.manifest.certificate
      /\ new.manifest.chain = package.manifest.chain
      /\ new.manifest.status = ManifestStatus(receipt)
  BY DEF RefreshAnchorReceipt, Packages
<1>4. IntegrityVerified(new, new.events) BY <1>3 DEF IntegrityVerified
<1> QED BY <1>2, <1>3, <1>4

\* Only a package with a confirmed anchor whose proof checks is verified.
LEMMA VerdictSound ==
  ASSUME NEW package \in Packages, NEW events
  PROVE  LET verdict == VerifyPackage(package, events) IN
         /\ ExportStatus(verdict) \in {"completed", "failed", "pending_anchor", "failed_anchor"}
         /\ ExportStatus(verdict) = "completed" =>
              verdict = "verified" /\ AnchorVerifies(package.anchor, package.chain)
<1> DEFINE verdict == VerifyPackage(package, events)
<1>1. package.anchor \in AnchorReceiptSet BY DEF Packages
<1>2. verdict \in {"invalid", "failed_anchor", "pending_anchor", "verified"}
  BY <1>1, StatusTyped DEF VerifyPackage
<1>3. verdict = "verified" => AnchorVerifies(package.anchor, package.chain)
  <2> SUFFICES ASSUME verdict = "verified" PROVE AnchorVerifies(package.anchor, package.chain) OBVIOUS
  <2>1. AnchorValid(package) /\ ManifestStatus(package.anchor) = "verified" BY DEF VerifyPackage
  <2>2. package.anchor.status = "confirmed" BY <1>1, <2>1, StatusTyped
  <2> QED BY <2>1, <2>2 DEF AnchorValid
<1> HIDE DEF verdict
<1>4. /\ ExportStatus(verdict) \in {"completed", "failed", "pending_anchor", "failed_anchor"}
      /\ ExportStatus(verdict) = "completed" => verdict = "verified"
  BY <1>2 DEF ExportStatus
<1> QED BY <1>3, <1>4 DEF verdict

LEMMA ExportTaskSound ==
  ASSUME NEW u \in ExportUsers, NEW p \in ExportProjects, NEW events,
         NEW package \in Packages, IntegrityVerified(package, package.events)
  PROVE  LET task == ExportTask(u, p, package, VerifyPackage(package, events)) IN
         SoundVersion(task) /\ task.user = u /\ task.project = p
<1> DEFINE verdict == VerifyPackage(package, events)
<1>1. /\ ExportStatus(verdict) \in {"completed", "failed", "pending_anchor", "failed_anchor"}
      /\ ExportStatus(verdict) = "completed" =>
              verdict = "verified" /\ AnchorVerifies(package.anchor, package.chain)
  BY VerdictSound
<1> HIDE DEF verdict
<1>2. SoundVersion(ExportTask(u, p, package, verdict))
  BY <1>1 DEF ExportTask, SoundVersion, ExportTaskRecords
<1>3. ExportTask(u, p, package, verdict).user = u /\ ExportTask(u, p, package, verdict).project = p
  BY DEF ExportTask
<1> QED BY <1>2, <1>3 DEF verdict

LEMMA SynchronizeSound ==
  ASSUME NEW task \in ExportTaskRecords, NEW events,
         NEW package \in Packages, IntegrityVerified(package, package.events)
  PROVE  LET new == SynchronizeExportTask(task, package, VerifyPackage(package, events)) IN
         SoundVersion(new) /\ new.user = task.user /\ new.project = task.project
<1> DEFINE verdict == VerifyPackage(package, events)
<1>1. /\ ExportStatus(verdict) \in {"completed", "failed", "pending_anchor", "failed_anchor"}
      /\ ExportStatus(verdict) = "completed" =>
              verdict = "verified" /\ AnchorVerifies(package.anchor, package.chain)
  BY VerdictSound
<1> HIDE DEF verdict
<1> DEFINE new == SynchronizeExportTask(task, package, verdict)
<1>2. /\ new \in ExportTaskRecords
      /\ new.package = package /\ new.status = ExportStatus(verdict)
      /\ new.verified = (verdict = "verified")
      /\ new.user = task.user /\ new.project = task.project
  BY <1>1 DEF SynchronizeExportTask, ExportTaskRecords
<1>3. SoundVersion(new) BY <1>1, <1>2 DEF SoundVersion
<1> QED BY <1>2, <1>3 DEF verdict

LEMMA MarkFailedSound ==
  ASSUME NEW task, SoundVersion(task)
  PROVE  LET new == MarkAnchorRefreshFailed(task) IN
         /\ SoundVersion(new) /\ new.status # "completed"
         /\ new.user = task.user /\ new.project = task.project
<1> DEFINE new == MarkAnchorRefreshFailed(task)
<1>1. task \in ExportTaskRecords /\ IntegrityVerified(task.package, task.package.events)
  BY DEF SoundVersion
<1>2. /\ new \in ExportTaskRecords /\ new.package = task.package /\ new.status = "failed_anchor"
      /\ new.user = task.user /\ new.project = task.project
  BY <1>1 DEF MarkAnchorRefreshFailed, ExportTaskRecords
<1> QED BY <1>1, <1>2 DEF SoundVersion

----
(* Evidence packages: versions of tasks and copies of tokens. *)

LEMMA VersionsAre ==
  ASSUME NEW t \in ExportTaskIds
  PROVE  /\ \A r : r \in Versions(t) <=>
              /\ r # NoExport
              /\ \/ r = exportTasks[t] \/ r = exportRows[t]
                 \/ \E c \in ExportCalls : /\ exportCall[c].task = t /\ exportCall[c].at \in Carrying
                                           /\ exportCall[c].found = r
         /\ \A r : r \in Versions(t)' <=>
              /\ r # NoExport
              /\ \/ r = exportTasks'[t] \/ r = exportRows'[t]
                 \/ \E c \in ExportCalls : /\ exportCall'[c].task = t /\ exportCall'[c].at \in Carrying
                                           /\ exportCall'[c].found = r
  BY DEF Versions

LEMMA CopiesAre ==
  ASSUME NEW k \in DownloadTokens
  PROVE  /\ \A a : a \in Copies(k) <=>
              /\ a # NoExport
              /\ \/ a = tokens[k] \/ a = tokenRows[k]
                 \/ \E c \in ExportCalls : exportCall[c].token = k /\ exportCall[c].auth = a
         /\ \A a : a \in Copies(k)' <=>
              /\ a # NoExport
              /\ \/ a = tokens'[k] \/ a = tokenRows'[k]
                 \/ \E c \in ExportCalls : exportCall'[c].token = k /\ exportCall'[c].auth = a
  BY DEF Copies

LEMMA NoExportApart ==
  /\ NoExport \notin ExportTaskIds /\ NoExport \notin DownloadTokens
  /\ NoExport \notin Packages /\ NoExport \notin ExportTaskRecords
  /\ NoExport \notin DownloadAuthorizations
  BY ExportAssumption

\* A request goes on: versions and copies of the others stay what they were.
LEMMA Continued ==
  ASSUME ExportTables, NEW c \in ExportCalls, NEW call, Continue(c, call)
  PROVE  /\ exportCall'[c] = call
         /\ \A d \in ExportCalls \ {c} : exportCall'[d] = exportCall[d]
         /\ call \in ExportCallRecord => exportCall' \in [ExportCalls -> ExportCallRecord]
  BY DEF ExportTables, Continue

\* A step that adds no version keeps what is said of versions.
LEMMA VersionsStay ==
  ASSUME ExportInv, NEW c \in ExportCalls, NEW call, Continue(c, call),
         certified \subseteq certified',
         \A t \in ExportTaskIds :
           /\ exportTasks'[t] # exportTasks[t] => exportTasks'[t] \in Versions(t)
           /\ exportRows'[t] # exportRows[t] => exportRows'[t] \in Versions(t),
         call.at \in Carrying => call.found \in Versions(call.task)
  PROVE  \A t \in ExportTaskIds : /\ Versions(t)' \subseteq Versions(t)
                                  /\ OneOwner(t)'
                                  /\ \A r \in Versions(t)' : GoodVersion(t, r)'
<1> SUFFICES ASSUME NEW t \in ExportTaskIds
             PROVE  /\ Versions(t)' \subseteq Versions(t)
                    /\ OneOwner(t)'
                    /\ \A r \in Versions(t)' : GoodVersion(t, r)'
  OBVIOUS
<1>1. ExportTables /\ OneOwner(t) /\ \A r \in Versions(t) : GoodVersion(t, r) BY DEF ExportInv
<1>2. Versions(t)' \subseteq Versions(t)
  <2> SUFFICES ASSUME NEW r \in Versions(t)' PROVE r \in Versions(t) OBVIOUS
  <2>1. r # NoExport BY VersionsAre
  <2>2. CASE r = exportTasks'[t] BY <2>1, <2>2, VersionsAre
  <2>3. CASE r = exportRows'[t] BY <2>1, <2>3, VersionsAre
  <2>4. CASE \E d \in ExportCalls : /\ exportCall'[d].task = t /\ exportCall'[d].at \in Carrying
                                    /\ exportCall'[d].found = r
    <3>1. PICK d \in ExportCalls : /\ exportCall'[d].task = t /\ exportCall'[d].at \in Carrying
                                   /\ exportCall'[d].found = r
      BY <2>4
    <3>2. CASE d = c BY <1>1, <3>1, <3>2, Continued
    <3>3. CASE d # c
      <4>1. exportCall'[d] = exportCall[d] BY <1>1, <3>3, Continued
      <4> QED BY <2>1, <3>1, <4>1, VersionsAre
    <3> QED BY <3>2, <3>3
  <2> QED BY <2>2, <2>3, <2>4, VersionsAre
<1>3. OneOwner(t)' BY <1>1, <1>2 DEF OneOwner
<1>4. ASSUME NEW r \in Versions(t)' PROVE GoodVersion(t, r)' BY <1>1, <1>2 DEF GoodVersion, SoundVersion
<1> QED BY <1>2, <1>3, <1>4

\* A copy again, consumed perhaps.
CopyLike(k, a) ==
  /\ a \in DownloadAuthorizations
  /\ \E b \in Copies(k) : a.task = b.task /\ a.user = b.user /\ a.project = b.project

\* A step that adds no copy keeps what is said of copies.
LEMMA CopiesStay ==
  ASSUME ExportInv, NEW c \in ExportCalls, NEW call, Continue(c, call),
         certified \subseteq certified',
         \A t \in ExportTaskIds : /\ Recorded(t) => Recorded(t)'
                                  /\ \A u, p : Recorded(t) /\ OwnedBy(t, u, p) => OwnedBy(t, u, p)',
         \A k \in DownloadTokens :
           /\ tokens'[k] # tokens[k] => CopyLike(k, tokens'[k])
           /\ tokenRows'[k] # tokenRows[k] => /\ tokenRows[k] # NoExport
                                              /\ CopyLike(k, tokenRows'[k]),
         call.auth # NoExport /\ call.token \in DownloadTokens =>
           \/ CopyLike(call.token, call.auth)
           \/ call.token = exportCall[c].token /\ call.auth = exportCall[c].auth
  PROVE  \A k \in DownloadTokens : \A a \in Copies(k)' : CopyFits(k, a)'
<1> SUFFICES ASSUME NEW k \in DownloadTokens, NEW a \in Copies(k)'
             PROVE  CopyFits(k, a)'
  OBVIOUS
<1>1. ExportTables /\ \A b \in Copies(k) : CopyFits(k, b) BY DEF ExportInv
<1>2. ASSUME a \in Copies(k) PROVE CopyLike(k, a) BY <1>1, <1>2 DEF CopyLike, CopyFits
<1>3. CopyLike(k, a)
  <2>1. a # NoExport BY CopiesAre
  <2>2. CASE a = tokens'[k] BY <1>2, <2>1, <2>2, CopiesAre
  <2>3. CASE a = tokenRows'[k] BY <1>2, <2>1, <2>3, CopiesAre
  <2>4. CASE \E d \in ExportCalls : exportCall'[d].token = k /\ exportCall'[d].auth = a
    <3>1. PICK d \in ExportCalls : exportCall'[d].token = k /\ exportCall'[d].auth = a BY <2>4
    <3>2. CASE d = c
      <4>1. call.token = k /\ call.auth = a BY <1>1, <3>1, <3>2, Continued
      <4> QED BY <1>2, <2>1, <4>1, CopiesAre
    <3>3. CASE d # c
      <4>1. exportCall'[d] = exportCall[d] BY <1>1, <3>3, Continued
      <4> QED BY <1>2, <2>1, <3>1, <4>1, CopiesAre
    <3> QED BY <3>2, <3>3
  <2> QED BY <2>2, <2>3, <2>4, CopiesAre
<1>4. PICK b \in Copies(k) : a.task = b.task /\ a.user = b.user /\ a.project = b.project
  BY <1>3 DEF CopyLike
<1>5. CopyFits(k, b) /\ a \in DownloadAuthorizations /\ a.task \in ExportTaskIds
  BY <1>1, <1>3 DEF CopyLike, DownloadAuthorizations
<1>6. a.task \in certified' /\ Recorded(a.task)' /\ OwnedBy(a.task, a.user, a.project)'
  BY <1>4, <1>5 DEF CopyFits
<1>7. ASSUME tokenRows'[k] # NoExport PROVE tokenRows'[k].task = a.task
  <2>1. CASE tokenRows'[k] = tokenRows[k] BY <1>4, <1>5, <1>7, <2>1 DEF CopyFits
  <2>2. CASE tokenRows'[k] # tokenRows[k]
    <3>1. tokenRows[k] # NoExport /\ CopyLike(k, tokenRows'[k]) BY <2>2
    <3>2. tokenRows'[k].task = tokenRows[k].task BY <1>1, <3>1 DEF CopyLike, CopyFits
    <3> QED BY <1>4, <1>5, <3>1, <3>2 DEF CopyFits
  <2> QED BY <2>1, <2>2
<1> QED BY <1>5, <1>6, <1>7 DEF CopyFits

\* The other requests fit, as long as nobody meets a task being certified or
\* a token being saved.
LEMMA OthersFit ==
  ASSUME ExportInv, NEW c \in ExportCalls, NEW call, Continue(c, call),
         issued \subseteq issued',
         \A t \in ExportTaskIds : t # exportCall[c].task /\ t # call.task =>
           exportTasks'[t] = exportTasks[t] /\ exportRows'[t] = exportRows[t],
         \A k \in DownloadTokens :
           /\ k # exportCall[c].token /\ k # call.token =>
                tokens'[k] = tokens[k] /\ tokenRows'[k] = tokenRows[k]
           /\ tokenRows[k] # NoExport => tokenRows'[k] # NoExport,
         \A d \in ExportCalls \ {c} :
           /\ exportCall[d].at = "certify" => call.task # exportCall[d].task
           /\ exportCall[d].at = "saveToken" => call.token # exportCall[d].token
  PROVE  \A d \in ExportCalls \ {c} : CallFits(d)'
<1> SUFFICES ASSUME NEW d \in ExportCalls, d # c PROVE CallFits(d)' OBVIOUS
<1> DEFINE other == exportCall[d]
<1>1. ExportTables /\ CallFits(d) BY DEF ExportInv
<1>2. exportCall'[d] = exportCall[d] /\ exportCall'[c] = call BY <1>1, Continued
<1>3. ASSUME NEW e \in ExportCalls, e # d PROVE exportCall'[e] = exportCall[e] \/ e = c BY <1>1, Continued
<1>4. CertifyFits(d)'
  <2> SUFFICES ASSUME other.at = "certify"
               PROVE  /\ other.op = "export" /\ other.task \in ExportTaskIds
                      /\ other.found \in SUBSET Nat /\ IsFiniteSet(other.found)
                      /\ VerifyScopedChain(other.found)
                      /\ exportTasks'[other.task] = NoExport /\ exportRows'[other.task] = NoExport
                      /\ \A e \in ExportCalls \ {d} : exportCall'[e].task # other.task
    BY <1>2 DEF CertifyFits
  <2>1. /\ other.op = "export" /\ other.task \in ExportTaskIds
        /\ other.found \in SUBSET Nat /\ IsFiniteSet(other.found)
        /\ VerifyScopedChain(other.found)
        /\ exportTasks[other.task] = NoExport /\ exportRows[other.task] = NoExport
        /\ \A e \in ExportCalls \ {d} : exportCall[e].task # other.task
    BY <1>1 DEF CallFits, CertifyFits
  <2>2. other.task # exportCall[c].task /\ other.task # call.task BY <2>1
  <2>3. \A e \in ExportCalls \ {d} : exportCall'[e].task # other.task BY <1>2, <1>3, <2>1, <2>2
  <2> QED BY <2>1, <2>2, <2>3
<1>5. SaveTokenFits(d)'
  <2> SUFFICES ASSUME other.at = "saveToken"
               PROVE  /\ other.op = "authorize" /\ other.token \in DownloadTokens
                      /\ other.auth \in DownloadAuthorizations /\ other.auth.task = other.task
                      /\ tokens'[other.token] = other.auth /\ tokenRows'[other.token] = NoExport
                      /\ \A e \in ExportCalls \ {d} : exportCall'[e].token # other.token
    BY <1>2 DEF SaveTokenFits
  <2>1. /\ other.op = "authorize" /\ other.token \in DownloadTokens
        /\ other.auth \in DownloadAuthorizations /\ other.auth.task = other.task
        /\ tokens[other.token] = other.auth /\ tokenRows[other.token] = NoExport
        /\ \A e \in ExportCalls \ {d} : exportCall[e].token # other.token
    BY <1>1 DEF CallFits, SaveTokenFits
  <2>2. other.token # exportCall[c].token /\ other.token # call.token BY <2>1
  <2>3. \A e \in ExportCalls \ {d} : exportCall'[e].token # other.token BY <1>2, <1>3, <2>1, <2>2
  <2> QED BY <2>1, <2>2, <2>3
<1>6. StepFits(exportCall[d])'
  <2>1. StepFits(other) BY <1>1 DEF CallFits
  <2> QED BY <1>2, <2>1 DEF StepFits, DownloadFits
<1> QED BY <1>4, <1>5, <1>6 DEF CallFits

\* The rows stay in order while none of them is lost.
LEMMA RowsStay ==
  ASSUME RowsFit, ExportTables, issued' = issued, served' = served, certified \subseteq certified',
         \A t \in ExportTaskIds :
           /\ \A u, p : Recorded(t) /\ OwnedBy(t, u, p) => OwnedBy(t, u, p)'
           /\ exportRows[t] # NoExport => exportRows'[t] # NoExport
           /\ exportRows'[t] # NoExport => packageRows'[t] # NoExport
           /\ packageRows'[t] # NoExport =>
                IntegrityVerified(packageRows'[t], packageRows'[t].events),
         \A k \in DownloadTokens :
           /\ tokenRows'[k] # NoExport => exportRows'[tokenRows'[k].task] # NoExport
           /\ tokenRows[k] # NoExport => tokenRows'[k] # NoExport
  PROVE  RowsFit'
<1>1. ASSUME NEW d \in served
      PROVE  /\ d.task \in ExportTaskIds /\ d.task \in certified'
             /\ exportRows'[d.task] # NoExport /\ OwnedBy(d.task, d.user, d.project)'
  <2>1. /\ d.task \in ExportTaskIds /\ d.task \in certified
        /\ exportRows[d.task] # NoExport /\ OwnedBy(d.task, d.user, d.project)
    BY DEF RowsFit
  <2>2. Recorded(d.task) BY <2>1 DEF Recorded
  <2> QED BY <2>1, <2>2
<1>2. \A k \in issued : k \in DownloadTokens /\ tokenRows'[k] # NoExport BY DEF RowsFit
<1>3. \A t \in ExportTaskIds :
        /\ exportRows'[t] # NoExport => packageRows'[t] # NoExport
        /\ packageRows'[t] # NoExport =>
             IntegrityVerified(packageRows'[t], packageRows'[t].events)
  OBVIOUS
<1> QED BY <1>1, <1>2, <1>3 DEF RowsFit

\* Fewer versions have fewer owners.
LEMMA OwnersStay ==
  ASSUME NEW t, Versions(t)' \subseteq Versions(t)
  PROVE  \A u, p : OwnedBy(t, u, p) => OwnedBy(t, u, p)'
  BY DEF OwnedBy

\* A step that puts in its place what is already known of a task or token.
LEMMA MoveKeeps ==
  ASSUME ExportInv, NEW c \in ExportCalls, NEW call \in ExportCallRecord, Continue(c, call),
         ExportTables', certified' = certified, issued' = issued, served' = served,
         \A t \in ExportTaskIds :
           /\ exportTasks'[t] # exportTasks[t] => t \in {call.task, exportCall[c].task} /\ exportTasks'[t] \in Versions(t)
           /\ exportRows'[t] # exportRows[t] => t \in {call.task, exportCall[c].task} /\ exportRows'[t] \in Versions(t)
           /\ exportRows'[t] # NoExport => packageRows'[t] # NoExport
           /\ packageRows'[t] # NoExport =>
                IntegrityVerified(packageRows'[t], packageRows'[t].events),
         \A k \in DownloadTokens :
           /\ tokens'[k] # tokens[k] => k = call.token /\ CopyLike(k, tokens'[k])
           /\ tokenRows'[k] # tokenRows[k] => /\ k = call.token /\ tokenRows[k] # NoExport
                                              /\ CopyLike(k, tokenRows'[k]),
         call.at \in Carrying => call.found \in Versions(call.task),
         call.auth # NoExport /\ call.token \in DownloadTokens =>
           \/ CopyLike(call.token, call.auth)
           \/ call.token = exportCall[c].token /\ call.auth = exportCall[c].auth,
         \A d \in ExportCalls \ {c} :
           /\ exportCall[d].at = "certify" => call.task # exportCall[d].task
           /\ exportCall[d].at = "saveToken" => call.token # exportCall[d].token,
         CallFits(c)'
  PROVE  ExportInv'
<1>1. ExportTables /\ RowsFit BY DEF ExportInv
<1>2. \A t \in ExportTaskIds : /\ Versions(t)' \subseteq Versions(t)
                               /\ OneOwner(t)'
                               /\ \A r \in Versions(t)' : GoodVersion(t, r)'
  BY VersionsStay
<1>3. ASSUME NEW t \in ExportTaskIds
      PROVE  /\ exportTasks[t] # NoExport => exportTasks'[t] # NoExport
             /\ exportRows[t] # NoExport => exportRows'[t] # NoExport
  BY VersionsAre
<1>4. \A t \in ExportTaskIds : /\ Recorded(t) => Recorded(t)'
                               /\ \A u, p : Recorded(t) /\ OwnedBy(t, u, p) => OwnedBy(t, u, p)'
  BY <1>2, <1>3, OwnersStay DEF Recorded
<1>5. \A k \in DownloadTokens : \A a \in Copies(k)' : CopyFits(k, a)' BY <1>4, CopiesStay
<1>6. ASSUME NEW k \in DownloadTokens
      PROVE  /\ tokenRows'[k] # NoExport => exportRows'[tokenRows'[k].task] # NoExport
             /\ tokenRows[k] # NoExport => tokenRows'[k] # NoExport
  <2>1. CASE tokenRows'[k] = tokenRows[k]
    <3>1. tokenRows[k] # NoExport =>
            exportRows[tokenRows[k].task] # NoExport /\ tokenRows[k].task \in ExportTaskIds
      BY <1>1 DEF RowsFit, ExportTables, DownloadAuthorizations
    <3> QED BY <1>3, <2>1, <3>1
  <2>2. CASE tokenRows'[k] # tokenRows[k]
    <3>1. tokenRows[k] # NoExport /\ CopyLike(k, tokenRows'[k]) BY <2>2
    <3>2. PICK b \in Copies(k) : tokenRows'[k].task = b.task BY <3>1 DEF CopyLike
    <3>3. tokenRows[k].task = b.task /\ b.task \in ExportTaskIds
      BY <3>1 DEF ExportInv, CopyFits, DownloadAuthorizations
    <3>4. exportRows[b.task] # NoExport BY <1>1, <3>1, <3>3 DEF RowsFit
    <3>5. tokenRows'[k] # NoExport BY <3>1, NoExportApart DEF CopyLike
    <3> QED BY <1>3, <3>2, <3>3, <3>4, <3>5
  <2> QED BY <2>1, <2>2
<1>7. RowsFit'
  <2>1. \A t \in ExportTaskIds :
          /\ \A u, p : Recorded(t) /\ OwnedBy(t, u, p) => OwnedBy(t, u, p)'
          /\ exportRows[t] # NoExport => exportRows'[t] # NoExport
          /\ exportRows'[t] # NoExport => packageRows'[t] # NoExport
          /\ packageRows'[t] # NoExport =>
               IntegrityVerified(packageRows'[t], packageRows'[t].events)
    BY <1>3, <1>4
  <2>2. certified \subseteq certified' OBVIOUS
  <2> QED BY <1>1, <1>6, <2>1, <2>2, RowsStay
<1>8. \A d \in ExportCalls : CallFits(d)' BY <1>6, OthersFit
<1> QED BY <1>2, <1>5, <1>7, <1>8 DEF ExportInv

\* A step that changes no map and no table.
LEMMA QuietKeeps ==
  ASSUME ExportInv, NEW c \in ExportCalls, NEW call \in ExportCallRecord, Continue(c, call),
         ledger' \in Seq(ExportProjects \cup {NoProject}), archived' \in 0..Len(ledger'),
         UNCHANGED <<exportTasks, exportRows, packageRows, tokens, tokenRows, issued, certified,
                     served>>,
         call.at \in Carrying => call.found \in Versions(call.task),
         call.auth # NoExport /\ call.token \in DownloadTokens =>
           \/ CopyLike(call.token, call.auth)
           \/ call.token = exportCall[c].token /\ call.auth = exportCall[c].auth,
         \A d \in ExportCalls \ {c} :
           /\ exportCall[d].at = "certify" => call.task # exportCall[d].task
           /\ exportCall[d].at = "saveToken" => call.token # exportCall[d].token,
         CallFits(c)'
  PROVE  ExportInv'
<1>1. ExportTables /\ RowsFit BY DEF ExportInv
<1>2. ExportTables' BY <1>1, Continued DEF ExportTables
<1>3. \A t \in ExportTaskIds :
        /\ exportRows'[t] # NoExport => packageRows'[t] # NoExport
        /\ packageRows'[t] # NoExport =>
             IntegrityVerified(packageRows'[t], packageRows'[t].events)
  BY <1>1 DEF RowsFit
<1> QED BY <1>2, <1>3, MoveKeeps

LEMMA IdleCallFits ==
  ASSUME ExportInv, NEW c \in ExportCalls, Finish(c)
  PROVE  IdleCall \in ExportCallRecord /\ CallFits(c)'
<1>1. IdleCall \in ExportCallRecord BY DEF IdleCall, ExportCallRecord, CallSteps, CallOps
<1>2. exportCall'[c] = IdleCall BY Continued DEF Finish, ExportInv
<1>3. IdleCall.at = "idle" /\ IdleCall.op = "none" BY DEF IdleCall
<1>4. CertifyFits(c)' /\ SaveTokenFits(c)' /\ StepFits(exportCall[c])'
  BY <1>2, <1>3 DEF CertifyFits, SaveTokenFits, StepFits, DownloadFits, Carrying
<1> QED BY <1>1, <1>4 DEF CallFits

\* A request that ends leaves everything as it is.
LEMMA FinishKeeps ==
  ASSUME ExportInv, NEW c \in ExportCalls, Finish(c),
         ledger' \in Seq(ExportProjects \cup {NoProject}), archived' \in 0..Len(ledger'),
         UNCHANGED <<exportTasks, exportRows, packageRows, tokens, tokenRows, issued, certified,
                     served>>
  PROVE  ExportInv'
<1>1. IdleCall \in ExportCallRecord /\ CallFits(c)' /\ Continue(c, IdleCall) BY IdleCallFits DEF Finish
<1>2. IdleCall.at \notin Carrying /\ IdleCall.auth = NoExport BY DEF IdleCall, Carrying
<1>3. ASSUME NEW d \in ExportCalls \ {c}
      PROVE  /\ exportCall[d].at = "certify" => IdleCall.task # exportCall[d].task
             /\ exportCall[d].at = "saveToken" => IdleCall.token # exportCall[d].token
  BY NoExportApart DEF ExportInv, CallFits, CertifyFits, SaveTokenFits, IdleCall
<1> QED BY <1>1, <1>2, <1>3, QuietKeeps

\* An event goes on record.
LEMMA AppendTyped ==
  ASSUME ExportInv, NEW p \in ExportProjects \cup {NoProject}, AppendAudit(p)
  PROVE  /\ ledger' \in Seq(ExportProjects \cup {NoProject})
         /\ archived' = archived => archived' \in 0..Len(ledger')
<1>1. ledger \in Seq(ExportProjects \cup {NoProject}) /\ archived \in 0..Len(ledger)
  BY DEF ExportInv, ExportTables
<1>2. ledger' = Append(ledger, p) BY DEF AppendAudit
<1>3. Len(ledger') = Len(ledger) + 1 /\ Len(ledger) \in Nat BY <1>1, <1>2
<1>4. ledger' \in Seq(ExportProjects \cup {NoProject}) BY <1>1, <1>2
<1> QED BY <1>1, <1>3, <1>4

----
(* Evidence packages: the actions. *)

LEMMA ExportInitHolds == ExportInit => ExportInv
<1> SUFFICES ASSUME ExportInit PROVE ExportInv OBVIOUS
<1>1. IdleCall \in ExportCallRecord BY DEF IdleCall, ExportCallRecord, CallSteps, CallOps
<1>2. ExportTables
  <2>1. ledger = <<>> /\ archived = 0 BY DEF ExportInit
  <2>2. ledger \in Seq(ExportProjects \cup {NoProject}) /\ archived \in 0..Len(ledger) BY <2>1
  <2> QED BY <1>1, <2>2 DEF ExportInit, ExportTables
<1>3. \A c \in ExportCalls : exportCall[c] = IdleCall BY DEF ExportInit
<1>4. IdleCall.at = "idle" /\ IdleCall.op = "none" /\ IdleCall.auth = NoExport BY DEF IdleCall
<1>5. \A t \in ExportTaskIds : Versions(t) = {} BY <1>3, <1>4 DEF Versions, ExportInit, Carrying
<1>6. \A k \in DownloadTokens : Copies(k) = {} BY <1>3, <1>4 DEF Copies, ExportInit
<1>7. RowsFit BY DEF RowsFit, ExportInit
<1>8. ASSUME NEW c \in ExportCalls PROVE CallFits(c)
  BY <1>3, <1>4 DEF CallFits, CertifyFits, SaveTokenFits, StepFits, DownloadFits, Carrying
<1> QED BY <1>2, <1>5, <1>6, <1>7, <1>8 DEF ExportInv, OneOwner

\* What other requests, retention and time do.
LEMMA SurroundingsKeep ==
  ASSUME ExportInv, ledger' \in Seq(ExportProjects \cup {NoProject}), archived' \in 0..Len(ledger'),
         UNCHANGED <<exportTasks, exportRows, packageRows, tokens, tokenRows, exportCall, issued,
                     certified, served>>
  PROVE  ExportInv'
<1>1. ExportTables' BY DEF ExportInv, ExportTables
<1>2. /\ \A t : Versions(t)' = Versions(t) /\ Recorded(t)' = Recorded(t)
      /\ \A k : Copies(k)' = Copies(k)
  BY DEF Versions, Copies, Recorded
<1>3. \A t \in ExportTaskIds : OneOwner(t)' /\ \A r \in Versions(t)' : GoodVersion(t, r)'
  BY <1>2 DEF ExportInv, OneOwner, GoodVersion, SoundVersion
<1>4. \A k \in DownloadTokens : \A a \in Copies(k)' : CopyFits(k, a)'
  BY <1>2 DEF ExportInv, CopyFits, OwnedBy
<1>5. RowsFit' BY <1>2 DEF ExportInv, RowsFit, OwnedBy
<1>6. ASSUME NEW c \in ExportCalls PROVE CallFits(c)'
  <2>1. CallFits(c) BY DEF ExportInv
  <2>2. CertifyFits(c)' /\ SaveTokenFits(c)' BY <2>1 DEF CallFits, CertifyFits, SaveTokenFits
  <2>3. StepFits(exportCall[c])' BY <2>1 DEF CallFits, StepFits, DownloadFits
  <2> QED BY <2>2, <2>3 DEF CallFits
<1> QED BY <1>1, <1>3, <1>4, <1>5, <1>6 DEF ExportInv

LEMMA ExportRestartKeeps ==
  ASSUME ExportInv, ExportRestart
  PROVE  ExportInv'
<1>1. ExportTables /\ RowsFit BY DEF ExportInv
<1>2. /\ exportTasks' = [t \in ExportTaskIds |-> NoExport]
      /\ tokens' = [k \in DownloadTokens |-> NoExport]
      /\ exportCall' = [c \in ExportCalls |-> IdleCall]
      /\ UNCHANGED <<ledger, archived, exportRows, packageRows, tokenRows, issued, certified, served>>
  BY DEF ExportRestart
<1>3. IdleCall \in ExportCallRecord BY DEF IdleCall, ExportCallRecord, CallSteps, CallOps
<1>4. IdleCall.at = "idle" /\ IdleCall.op = "none" /\ IdleCall.auth = NoExport BY DEF IdleCall
<1>5. ExportTables' BY <1>1, <1>2, <1>3 DEF ExportTables
<1>6. ASSUME NEW t \in ExportTaskIds PROVE Versions(t)' \subseteq Versions(t)
  BY <1>2, <1>4, VersionsAre DEF Carrying
<1>7. \A t \in ExportTaskIds : OneOwner(t)' /\ \A r \in Versions(t)' : GoodVersion(t, r)'
  BY <1>2, <1>6 DEF ExportInv, OneOwner, GoodVersion, SoundVersion
<1>8. ASSUME NEW k \in DownloadTokens, NEW a \in Copies(k)' PROVE CopyFits(k, a)'
  <2>1. a = tokenRows[k] /\ a # NoExport BY <1>2, <1>4, CopiesAre
  <2>2. a \in Copies(k) BY <2>1, CopiesAre
  <2>3. CopyFits(k, a) /\ a.task \in ExportTaskIds BY <2>2 DEF ExportInv, CopyFits, DownloadAuthorizations
  <2>4. exportRows[a.task] # NoExport BY <1>1, <2>1 DEF RowsFit
  <2> QED BY <1>2, <1>6, <2>3, <2>4 DEF CopyFits, OwnedBy, Recorded
<1>9. RowsFit' BY <1>1, <1>2, <1>6 DEF RowsFit, OwnedBy
<1>10. ASSUME NEW c \in ExportCalls PROVE CallFits(c)'
  <2>1. exportCall'[c] = IdleCall BY <1>2
  <2> QED BY <1>4, <2>1 DEF CallFits, CertifyFits, SaveTokenFits, StepFits, DownloadFits, Carrying
<1> QED BY <1>5, <1>7, <1>8, <1>9, <1>10 DEF ExportInv

LEMMA ArchiveTyped ==
  ASSUME ExportInv, ArchiveAuditEvents
  PROVE  archived' \in 0..Len(ledger')
<1>1. archived \in 0..Len(ledger) /\ ledger' = ledger /\ Len(ledger) \in Nat
  BY DEF ExportInv, ExportTables, ArchiveAuditEvents
<1>2. archived' \in archived + 1 .. Len(ledger) BY DEF ArchiveAuditEvents
<1> QED BY <1>1, <1>2

LEMMA ExportEvidenceKeeps ==
  ASSUME ExportInv, NEW c \in ExportCalls, NEW u \in ExportUsers, NEW p \in ExportProjects,
         ExportEvidence(c, u, p)
  PROVE  ExportInv'
<1>1. ExportTables /\ ledger \in Seq(ExportProjects \cup {NoProject}) /\ archived \in 0..Len(ledger)
  BY DEF ExportInv, ExportTables
<1>2. PICK t \in ExportTaskIds :
        /\ NewTask(t)
        /\ Continue(c, [IdleCall EXCEPT !.at = "certify", !.op = "export",
                         !.user = u, !.project = p, !.task = t, !.found = ScopedEvents(p)])
  BY DEF ExportEvidence
<1> DEFINE call == [IdleCall EXCEPT !.at = "certify", !.op = "export",
                         !.user = u, !.project = p, !.task = t, !.found = ScopedEvents(p)]
<1>3. ScopedEvents(p) \in SUBSET Nat /\ IsFiniteSet(ScopedEvents(p)) BY <1>1, ScopedEventsFinite
<1>4. /\ call.at = "certify" /\ call.op = "export" /\ call.user = u /\ call.project = p
      /\ call.task = t /\ call.found = ScopedEvents(p) /\ call.auth = NoExport
      /\ call.token = NoExport
  BY DEF IdleCall
<1>5. call \in ExportCallRecord BY <1>3 DEF IdleCall, ExportCallRecord, CallSteps, CallOps
<1> HIDE DEF call
<1>6. Continue(c, call) BY <1>2 DEF call
<1>7. exportCall'[c] = call /\ \A d \in ExportCalls \ {c} : exportCall'[d] = exportCall[d]
  BY <1>1, <1>6, Continued
<1>8. /\ exportTasks' = exportTasks /\ exportRows' = exportRows /\ issued' = issued
      /\ VerifyScopedChain(ScopedEvents(p))
  BY DEF ExportEvidence
<1>9. /\ exportTasks[t] = NoExport /\ exportRows[t] = NoExport
      /\ \A d \in ExportCalls : exportCall[d].task # t
  BY <1>2 DEF NewTask
<1>10. CallFits(c)'
  <2>1. CertifyFits(c)' BY <1>3, <1>4, <1>7, <1>8, <1>9 DEF CertifyFits
  <2>2. SaveTokenFits(c)' /\ StepFits(exportCall[c])'
    BY <1>4, <1>7 DEF SaveTokenFits, StepFits, DownloadFits, Carrying
  <2> QED BY <2>1, <2>2 DEF CallFits
<1>11. ASSUME NEW d \in ExportCalls \ {c}
       PROVE  /\ exportCall[d].at = "certify" => call.task # exportCall[d].task
              /\ exportCall[d].at = "saveToken" => call.token # exportCall[d].token
  BY <1>4, <1>9, NoExportApart DEF ExportInv, CallFits, SaveTokenFits
<1>12. call.at \notin Carrying BY <1>4 DEF Carrying
<1>13. UNCHANGED <<ledger, archived, exportTasks, exportRows, packageRows, tokens, tokenRows,
                   issued, certified, served>>
  BY DEF ExportEvidence
<1> QED BY <1>1, <1>4, <1>5, <1>6, <1>10, <1>11, <1>12, <1>13, QuietKeeps

LEMMA CertificationFailsKeeps ==
  ASSUME ExportInv, NEW c \in ExportCalls, CertificationFails(c)
  PROVE  ExportInv'
  BY FinishKeeps DEF CertificationFails, ExportInv, ExportTables

\* A request that goes on with the same task and token.
LEMMA SameTargets ==
  ASSUME ExportInv, NEW c \in ExportCalls, NEW call,
         call.task = exportCall[c].task \/ call.task = NoExport,
         call.token = exportCall[c].token \/ call.token = NoExport
  PROVE  \A d \in ExportCalls \ {c} :
           /\ exportCall[d].at = "certify" => call.task # exportCall[d].task
           /\ exportCall[d].at = "saveToken" => call.token # exportCall[d].token
  BY NoExportApart DEF ExportInv, CallFits, CertifyFits, SaveTokenFits

LEMMA CarriedVersion ==
  ASSUME ExportInv, NEW c \in ExportCalls, exportCall[c].at \in Carrying
  PROVE  LET call == exportCall[c] IN
         /\ call \in ExportCallRecord /\ call.task \in ExportTaskIds
         /\ call.user \in ExportUsers /\ call.project \in ExportProjects
         /\ call.found \in ExportTaskRecords /\ call.found \in Versions(call.task)
         /\ SoundVersion(call.found)
         /\ call.found.status = "completed" => call.task \in certified
<1> DEFINE call == exportCall[c]
<1>1. call \in ExportCallRecord /\ StepFits(call) BY DEF ExportInv, ExportTables, CallFits
<1>2. call.found \in ExportTaskRecords /\ call.task \in ExportTaskIds BY <1>1 DEF StepFits
<1>3. call.user \in ExportUsers /\ call.project \in ExportProjects BY <1>1 DEF StepFits, Carrying
<1>4. call.found \in Versions(call.task) BY <1>2, VersionsAre, NoExportApart
<1>5. GoodVersion(call.task, call.found) BY <1>2, <1>4 DEF ExportInv
<1> QED BY <1>1, <1>2, <1>3, <1>4, <1>5 DEF GoodVersion

LEMMA SaveEvidencePackageKeeps ==
  ASSUME ExportInv, NEW c \in ExportCalls, SaveEvidencePackage(c)
  PROVE  ExportInv'
<1> DEFINE old == exportCall[c]
           call == [old EXCEPT !.at = "saveTask"]
<1>1. /\ ExportTables /\ RowsFit /\ old.at = "savePackage"
      /\ UNCHANGED <<ledger, archived, exportTasks, exportRows, tokens, tokenRows,
                     issued, certified, served>>
  BY DEF ExportInv, SaveEvidencePackage
<1>2. ledger' \in Seq(ExportProjects \cup {NoProject}) /\ archived' \in 0..Len(ledger')
  BY <1>1 DEF ExportTables
<1>3. CASE Finish(c) /\ UNCHANGED packageRows BY <1>1, <1>2, <1>3, FinishKeeps
<1>4. CASE /\ packageRows' = [packageRows EXCEPT ![old.task] = old.found.package]
           /\ Continue(c, call)
  <2>1. /\ old \in ExportCallRecord /\ old.task \in ExportTaskIds
        /\ old.user \in ExportUsers /\ old.project \in ExportProjects
        /\ old.found \in ExportTaskRecords /\ old.found \in Versions(old.task)
        /\ SoundVersion(old.found)
    BY <1>1, CarriedVersion DEF Carrying
  <2>2. /\ call.at = "saveTask" /\ call.op = old.op /\ call.user = old.user
        /\ call.project = old.project /\ call.task = old.task /\ call.token = old.token
        /\ call.found = old.found /\ call.auth = old.auth
    BY <2>1 DEF ExportCallRecord
  <2>3. call \in ExportCallRecord BY <2>1 DEF ExportCallRecord, CallSteps
  <2>4. StepFits(old) BY DEF ExportInv, CallFits
  <2> HIDE DEF call, old
  <2>5. exportCall'[c] = call BY <1>1, <1>4, Continued
  <2>6. StepFits(exportCall[c])' BY <1>1, <2>1, <2>2, <2>4, <2>5 DEF StepFits, DownloadFits, Carrying
  <2>7. CallFits(c)' BY <2>2, <2>5, <2>6 DEF CallFits, CertifyFits, SaveTokenFits
  <2>8. /\ old.found.package \in Packages /\ old.found.package # NoExport
        /\ IntegrityVerified(old.found.package, old.found.package.events)
    BY <2>1, NoExportApart DEF SoundVersion, ExportTaskRecords
  <2>9. ExportTables' BY <1>1, <1>2, <1>4, <2>3, <2>8, Continued DEF ExportTables
  <2>10. \A t \in ExportTaskIds :
           /\ exportRows'[t] # NoExport => packageRows'[t] # NoExport
           /\ packageRows'[t] # NoExport =>
                IntegrityVerified(packageRows'[t], packageRows'[t].events)
    BY <1>1, <1>4, <2>8 DEF RowsFit, ExportTables
  <2>11. \A d \in ExportCalls \ {c} :
           /\ exportCall[d].at = "certify" => call.task # exportCall[d].task
           /\ exportCall[d].at = "saveToken" => call.token # exportCall[d].token
    BY <2>2, SameTargets DEF old
  <2>12. call.found \in Versions(call.task) /\ call.token = exportCall[c].token
         /\ call.auth = exportCall[c].auth
    BY <2>1, <2>2 DEF old
  <2> QED BY <1>1, <1>4, <2>3, <2>7, <2>9, <2>10, <2>11, <2>12, MoveKeeps
<1> QED BY <1>3, <1>4 DEF SaveEvidencePackage

\* The row of a task takes the version a request carries.
LEMMA TaskRowSaved ==
  ASSUME ExportInv, NEW c \in ExportCalls, exportCall[c].at \in {"saveTask", "saveFailed"},
         UNCHANGED <<ledger, archived, exportTasks, packageRows, tokens, tokenRows, issued,
                     certified, served>>,
         \/ UNCHANGED exportRows
         \/ /\ packageRows[exportCall[c].task] # NoExport
            /\ exportRows' = [exportRows EXCEPT ![exportCall[c].task] = exportCall[c].found],
         Continue(c, [exportCall[c] EXCEPT !.at = "audit"])
  PROVE  ExportInv'
<1> DEFINE old == exportCall[c]
           call == [old EXCEPT !.at = "audit"]
<1>1. /\ ExportTables /\ RowsFit /\ Continue(c, call) BY DEF ExportInv
<1>2. ledger' \in Seq(ExportProjects \cup {NoProject}) /\ archived' \in 0..Len(ledger')
  BY <1>1 DEF ExportTables
<1>3. /\ old \in ExportCallRecord /\ old.task \in ExportTaskIds
      /\ old.user \in ExportUsers /\ old.project \in ExportProjects
      /\ old.found \in ExportTaskRecords /\ old.found \in Versions(old.task)
  BY CarriedVersion DEF Carrying
<1>4. /\ call.at = "audit" /\ call.op = old.op /\ call.user = old.user
      /\ call.project = old.project /\ call.task = old.task /\ call.token = old.token
      /\ call.found = old.found /\ call.auth = old.auth
  BY <1>3 DEF ExportCallRecord
<1>5. call \in ExportCallRecord BY <1>3 DEF ExportCallRecord, CallSteps
<1>6. StepFits(old) /\ old.at \in {"saveTask", "saveFailed"} BY DEF ExportInv, CallFits
<1>7. \/ exportRows' = exportRows
      \/ packageRows[old.task] # NoExport /\ exportRows' = [exportRows EXCEPT ![old.task] = old.found]
  OBVIOUS
<1> HIDE DEF call, old
<1>8. exportCall'[c] = call BY <1>1, Continued
<1>9. StepFits(exportCall[c])' BY <1>3, <1>4, <1>6, <1>8 DEF StepFits, DownloadFits, Carrying
<1>10. CallFits(c)' BY <1>4, <1>8, <1>9 DEF CallFits, CertifyFits, SaveTokenFits
<1>11. ExportTables' BY <1>1, <1>2, <1>3, <1>5, <1>7, Continued DEF ExportTables
<1>12. \A t \in ExportTaskIds :
         /\ exportRows'[t] # exportRows[t] => t = call.task /\ exportRows'[t] \in Versions(t)
         /\ exportRows'[t] # NoExport => packageRows'[t] # NoExport
         /\ packageRows'[t] # NoExport =>
              IntegrityVerified(packageRows'[t], packageRows'[t].events)
  BY <1>1, <1>3, <1>4, <1>7 DEF RowsFit, ExportTables
<1>13. \A d \in ExportCalls \ {c} :
         /\ exportCall[d].at = "certify" => call.task # exportCall[d].task
         /\ exportCall[d].at = "saveToken" => call.token # exportCall[d].token
  BY <1>4, SameTargets DEF old
<1>14. call.at \notin Carrying /\ call.token = exportCall[c].token /\ call.auth = exportCall[c].auth
  BY <1>4 DEF old, Carrying
<1> QED BY <1>1, <1>5, <1>10, <1>11, <1>12, <1>13, <1>14, MoveKeeps

LEMMA SaveExportTaskKeeps ==
  ASSUME ExportInv, NEW c \in ExportCalls, SaveExportTask(c)
  PROVE  ExportInv'
<1>1. /\ exportCall[c].at = "saveTask"
      /\ UNCHANGED <<ledger, archived, exportTasks, packageRows, tokens, tokenRows,
                     issued, certified, served>>
  BY DEF SaveExportTask
<1>2. ledger' \in Seq(ExportProjects \cup {NoProject}) /\ archived' \in 0..Len(ledger')
  BY <1>1 DEF ExportInv, ExportTables
<1>3. CASE Finish(c) /\ UNCHANGED exportRows BY <1>1, <1>2, <1>3, FinishKeeps
<1>4. CASE /\ packageRows[exportCall[c].task] # NoExport
           /\ exportRows' = [exportRows EXCEPT ![exportCall[c].task] = exportCall[c].found]
           /\ Continue(c, [exportCall[c] EXCEPT !.at = "audit"])
  BY <1>1, <1>4, TaskRowSaved
<1> QED BY <1>3, <1>4 DEF SaveExportTask

LEMMA SaveFailedTaskKeeps ==
  ASSUME ExportInv, NEW c \in ExportCalls, SaveFailedTask(c)
  PROVE  ExportInv'
  BY TaskRowSaved DEF SaveFailedTask

\* A version of a task is new in memory; its owner is the one of the others.
LEMMA NewVersionKeeps ==
  ASSUME ExportInv, NEW c \in ExportCalls, NEW r, NEW a \in {"savePackage", "saveFailed"},
         exportCall[c].at \in {"certify", "refresh"}, exportCall[c].task \in ExportTaskIds,
         exportCall[c].op \in {"export", "refresh"},
         SoundVersion(r),
         \A s \in Versions(exportCall[c].task) : s.user = r.user /\ s.project = r.project,
         CacheExportTask(exportCall[c].task, r),
         Continue(c, [exportCall[c] EXCEPT !.at = a, !.found = r]),
         UNCHANGED <<ledger, archived, exportRows, packageRows, tokens, tokenRows, issued, served>>
  PROVE  ExportInv'
<1> DEFINE old == exportCall[c]
           t == old.task
           call == [old EXCEPT !.at = a, !.found = r]
<1>1. /\ ExportTables /\ RowsFit /\ Continue(c, call) /\ CallFits(c)
      /\ old \in ExportCallRecord
  BY DEF ExportInv, ExportTables
<1>2. r \in ExportTaskRecords /\ r # NoExport BY NoExportApart DEF SoundVersion
<1>3. /\ call.at = a /\ call.op = old.op /\ call.user = old.user
      /\ call.project = old.project /\ call.task = t /\ call.token = old.token
      /\ call.found = r /\ call.auth = old.auth
  BY <1>1 DEF ExportCallRecord
<1>4. call \in ExportCallRecord BY <1>1, <1>2 DEF ExportCallRecord, CallSteps
<1>5. /\ old.user \in ExportUsers /\ old.project \in ExportProjects
      /\ t \in ExportTaskIds /\ old.op \in {"export", "refresh"}
  BY <1>1 DEF CallFits, StepFits
<1>6. /\ exportTasks' = [exportTasks EXCEPT ![t] = r]
      /\ certified \subseteq certified' /\ (r.status = "completed" => t \in certified')
      /\ \A s \in Versions(t) : s.user = r.user /\ s.project = r.project
  BY DEF CacheExportTask
<1> HIDE DEF call, t, old
<1>7. exportCall'[c] = call BY <1>1, Continued
<1>8. CallFits(c)'
  <2>1. StepFits(exportCall[c])'
    BY <1>1, <1>2, <1>3, <1>5, <1>7 DEF StepFits, DownloadFits, Carrying, CallFits
  <2> QED BY <1>3, <1>7, <2>1 DEF CallFits, CertifyFits, SaveTokenFits
<1>9. ExportTables'
  <2>1. ledger' \in Seq(ExportProjects \cup {NoProject}) /\ archived' \in 0..Len(ledger')
    BY <1>1 DEF ExportTables
  <2> QED BY <1>1, <1>2, <1>4, <1>5, <1>6, <2>1, Continued DEF ExportTables
<1>10. ASSUME NEW x \in ExportTaskIds, NEW s \in Versions(x)'
       PROVE  s \in Versions(x) \/ (x = t /\ s = r)
  <2>1. s # NoExport BY VersionsAre
  <2>2. CASE s = exportTasks'[x] BY <1>1, <1>6, <2>1, <2>2, VersionsAre DEF ExportTables
  <2>3. CASE s = exportRows'[x] BY <2>1, <2>3, VersionsAre
  <2>4. CASE \E d \in ExportCalls : /\ exportCall'[d].task = x /\ exportCall'[d].at \in Carrying
                                    /\ exportCall'[d].found = s
    <3>1. PICK d \in ExportCalls : /\ exportCall'[d].task = x /\ exportCall'[d].at \in Carrying
                                   /\ exportCall'[d].found = s
      BY <2>4
    <3>2. CASE d = c BY <1>3, <1>7, <3>1, <3>2
    <3>3. CASE d # c
      <4>1. exportCall'[d] = exportCall[d] BY <1>1, <3>3, Continued
      <4> QED BY <2>1, <3>1, <4>1, VersionsAre
    <3> QED BY <3>2, <3>3
  <2> QED BY <2>1, <2>2, <2>3, <2>4, VersionsAre
<1>11. \A x \in ExportTaskIds : OneOwner(x)' BY <1>6, <1>10 DEF ExportInv, OneOwner
<1>12. ASSUME NEW x \in ExportTaskIds, NEW s \in Versions(x)' PROVE GoodVersion(x, s)'
  <2>1. SoundVersion(s) /\ (s.status = "completed" => x \in certified')
    BY <1>6, <1>10 DEF ExportInv, GoodVersion
  <2> QED BY <2>1 DEF GoodVersion, SoundVersion
<1>13. ASSUME NEW x \in ExportTaskIds
       PROVE  /\ Recorded(x) => Recorded(x)'
              /\ \A u, p : Recorded(x) /\ OwnedBy(x, u, p) => OwnedBy(x, u, p)'
  <2>1. Recorded(x) => Recorded(x)' BY <1>1, <1>2, <1>6 DEF Recorded, ExportTables
  <2>2. ASSUME NEW u, NEW p, Recorded(x), OwnedBy(x, u, p), NEW s \in Versions(x)'
        PROVE  s.user = u /\ s.project = p
    <3>1. CASE s \in Versions(x) BY <2>2, <3>1 DEF OwnedBy
    <3>2. CASE x = t /\ s = r
      <4>1. PICK v \in Versions(x) : TRUE BY <2>2, VersionsAre DEF Recorded
      <4> QED BY <1>6, <2>2, <3>2, <4>1 DEF OwnedBy
    <3> QED BY <1>10, <3>1, <3>2
  <2> QED BY <2>1, <2>2 DEF OwnedBy
<1>14. \A k \in DownloadTokens : \A b \in Copies(k)' : CopyFits(k, b)'
  <2>1. call.token = exportCall[c].token /\ call.auth = exportCall[c].auth BY <1>3 DEF old
  <2> QED BY <1>1, <1>6, <1>13, <2>1, CopiesStay
<1>15. RowsFit' BY <1>1, <1>6, <1>13, RowsStay DEF RowsFit
<1>16. \A d \in ExportCalls \ {c} :
         /\ exportCall[d].at = "certify" => call.task # exportCall[d].task
         /\ exportCall[d].at = "saveToken" => call.token # exportCall[d].token
  BY <1>3, SameTargets DEF t, old
<1>17. \A d \in ExportCalls \ {c} : CallFits(d)'
  <2>1. \A x \in ExportTaskIds : x # call.task =>
          exportTasks'[x] = exportTasks[x] /\ exportRows'[x] = exportRows[x]
    BY <1>1, <1>3, <1>6 DEF ExportTables
  <2> QED BY <1>1, <1>16, <2>1, OthersFit
<1> QED BY <1>8, <1>9, <1>11, <1>12, <1>14, <1>15, <1>17 DEF ExportInv

LEMMA PackageCertifiedKeeps ==
  ASSUME ExportInv, NEW c \in ExportCalls, PackageCertified(c)
  PROVE  ExportInv'
<1> DEFINE old == exportCall[c]
           events == old.found
<1>1. CallFits(c) /\ old.at = "certify" BY DEF ExportInv, PackageCertified
<1>2. /\ old.op = "export" /\ old.task \in ExportTaskIds
      /\ old.user \in ExportUsers /\ old.project \in ExportProjects
      /\ events \in SUBSET Nat /\ IsFiniteSet(events) /\ VerifyScopedChain(events)
      /\ exportTasks[old.task] = NoExport /\ exportRows[old.task] = NoExport
      /\ \A d \in ExportCalls \ {c} : exportCall[d].task # old.task
  BY <1>1 DEF CallFits, CertifyFits, StepFits
<1>3. PICK receipt \in AnchorReceipts(HashChain(events, Certificate(events))) :
        LET package == BuildPackage(events, receipt)
            task    == ExportTask(old.user, old.project, package, VerifyPackage(package, events))
        IN /\ CacheExportTask(old.task, task)
           /\ Continue(c, [old EXCEPT !.at = "savePackage", !.found = task])
  BY DEF PackageCertified
<1> DEFINE package == BuildPackage(events, receipt)
           task == ExportTask(old.user, old.project, package, VerifyPackage(package, events))
<1>4. receipt \in AnchorReceiptSet BY <1>2, CertificateTyped, ReceiptsTyped
<1>5. package \in Packages /\ IntegrityVerified(package, package.events) BY <1>2, <1>4, BuiltSound
<1> HIDE DEF package
<1>6. SoundVersion(task) BY <1>2, <1>5, ExportTaskSound
<1>7. CacheExportTask(old.task, task) /\ Continue(c, [old EXCEPT !.at = "savePackage", !.found = task])
  BY <1>3 DEF package
<1> HIDE DEF task
<1>8. Versions(old.task) = {}
  <2>1. ASSUME NEW r \in Versions(old.task) PROVE FALSE BY <1>1, <1>2, VersionsAre DEF Carrying
  <2> QED BY <2>1
<1>9. UNCHANGED <<ledger, archived, exportRows, packageRows, tokens, tokenRows, issued, served>>
  BY DEF PackageCertified
<1>10. \A s \in Versions(old.task) : s.user = task.user /\ s.project = task.project BY <1>8
<1> HIDE DEF old
<1> QED BY <1>1, <1>2, <1>6, <1>7, <1>9, <1>10, NewVersionKeeps DEF old

LEMMA RefreshingFacts ==
  ASSUME ExportInv, NEW c \in ExportCalls, exportCall[c].at = "refresh"
  PROVE  LET call == exportCall[c] IN
         /\ call.task \in ExportTaskIds /\ call.op \in {"export", "refresh"}
         /\ SoundVersion(call.found) /\ call.found \in ExportTaskRecords
         /\ call.found.package \in Packages
         /\ IntegrityVerified(call.found.package, call.found.package.events)
         /\ \A s \in Versions(call.task) : /\ s.user = call.found.user
                                           /\ s.project = call.found.project
<1> DEFINE call == exportCall[c]
<1>1. /\ call.task \in ExportTaskIds /\ call.found \in ExportTaskRecords
      /\ call.found \in Versions(call.task) /\ SoundVersion(call.found)
  BY CarriedVersion DEF Carrying
<1>2. call.op \in {"export", "refresh"} BY DEF ExportInv, CallFits, StepFits
<1>3. \A s \in Versions(call.task) : s.user = call.found.user /\ s.project = call.found.project
  BY <1>1 DEF ExportInv, OneOwner
<1> QED BY <1>1, <1>2, <1>3 DEF SoundVersion, ExportTaskRecords

LEMMA AnchorRefreshedKeeps ==
  ASSUME ExportInv, NEW c \in ExportCalls, AnchorRefreshed(c)
  PROVE  ExportInv'
<1> DEFINE old == exportCall[c]
           seen == ScopedEvents(old.project)
<1>1. old.at = "refresh" BY DEF AnchorRefreshed
<1>2. /\ old.task \in ExportTaskIds /\ old.op \in {"export", "refresh"}
      /\ old.found \in ExportTaskRecords /\ old.found.package \in Packages
      /\ IntegrityVerified(old.found.package, old.found.package.events)
      /\ \A s \in Versions(old.task) : s.user = old.found.user /\ s.project = old.found.project
  BY <1>1, RefreshingFacts
<1>3. PICK receipt \in RefreshedReceipts(old.found.package.anchor) :
        LET package == RefreshAnchorReceipt(old.found.package, receipt)
            task    == SynchronizeExportTask(old.found, package, VerifyPackage(package, seen))
        IN /\ CacheExportTask(old.task, task)
           /\ Continue(c, [old EXCEPT !.at = "savePackage", !.found = task])
  BY DEF AnchorRefreshed
<1> DEFINE package == RefreshAnchorReceipt(old.found.package, receipt)
           task == SynchronizeExportTask(old.found, package, VerifyPackage(package, seen))
<1>4. old.found.package.anchor \in AnchorReceiptSet BY <1>2 DEF Packages
<1>5. receipt \in AnchorReceiptSet BY <1>4, RefreshedTyped
<1>6. package \in Packages /\ IntegrityVerified(package, package.events) BY <1>2, <1>5, RefreshSound
<1> HIDE DEF package, seen
<1>7. SoundVersion(task) /\ task.user = old.found.user /\ task.project = old.found.project
  BY <1>2, <1>6, SynchronizeSound
<1>8. CacheExportTask(old.task, task) /\ Continue(c, [old EXCEPT !.at = "savePackage", !.found = task])
  BY <1>3 DEF package
<1> HIDE DEF task
<1>9. UNCHANGED <<ledger, archived, exportRows, packageRows, tokens, tokenRows, issued, served>>
  BY DEF AnchorRefreshed
<1>10. \A s \in Versions(old.task) : s.user = task.user /\ s.project = task.project BY <1>2, <1>7
<1> HIDE DEF old
<1> QED BY <1>1, <1>2, <1>7, <1>8, <1>9, <1>10, NewVersionKeeps DEF old

LEMMA AnchorRefreshFailsKeeps ==
  ASSUME ExportInv, NEW c \in ExportCalls, AnchorRefreshFails(c)
  PROVE  ExportInv'
<1> DEFINE old == exportCall[c]
           task == MarkAnchorRefreshFailed(old.found)
<1>1. /\ old.at = "refresh"
      /\ CacheExportTask(old.task, task)
      /\ Continue(c, [old EXCEPT !.at = "saveFailed", !.found = task])
      /\ UNCHANGED <<ledger, archived, exportRows, packageRows, tokens, tokenRows, issued, served>>
  BY DEF AnchorRefreshFails
<1>2. /\ old.task \in ExportTaskIds /\ old.op \in {"export", "refresh"}
      /\ SoundVersion(old.found)
      /\ \A s \in Versions(old.task) : s.user = old.found.user /\ s.project = old.found.project
  BY <1>1, RefreshingFacts
<1>3. SoundVersion(task) /\ task.user = old.found.user /\ task.project = old.found.project
  BY <1>2, MarkFailedSound
<1> HIDE DEF task
<1>4. \A s \in Versions(old.task) : s.user = task.user /\ s.project = task.project BY <1>2, <1>3
<1> HIDE DEF old
<1> QED BY <1>1, <1>2, <1>3, <1>4, NewVersionKeeps DEF old

LEMMA AuditAndAnswerKeeps ==
  ASSUME ExportInv, NEW c \in ExportCalls, AuditAndAnswer(c)
  PROVE  ExportInv'
<1> DEFINE old == exportCall[c]
<1>1. /\ ExportTables /\ RowsFit /\ old \in ExportCallRecord /\ StepFits(old)
  BY DEF ExportInv, ExportTables, CallFits
<1>2. /\ old.at = "audit" /\ Finish(c) /\ Continue(c, IdleCall) /\ AppendAudit(old.project)
      /\ UNCHANGED <<archived, exportTasks, exportRows, packageRows, tokens, tokenRows, certified>>
      /\ issued' = IF old.op = "authorize" THEN issued \cup {old.token} ELSE issued
      /\ served' = IF old.op = "download"
                   THEN served \cup {[token |-> old.token, user |-> old.user,
                                      project |-> old.project, task |-> old.task]}
                   ELSE served
  BY DEF AuditAndAnswer, Finish
<1>3. old.project \in ExportProjects BY <1>1, <1>2 DEF StepFits
<1>4. ledger' \in Seq(ExportProjects \cup {NoProject}) /\ archived' \in 0..Len(ledger')
  BY <1>2, <1>3, AppendTyped
<1>5. IdleCall \in ExportCallRecord /\ CallFits(c)' BY <1>2, IdleCallFits
<1>6. IdleCall.at \notin Carrying /\ IdleCall.auth = NoExport /\ IdleCall.task = NoExport
      /\ IdleCall.token = NoExport
  BY DEF IdleCall, Carrying
<1>7. ExportTables' BY <1>1, <1>2, <1>4, <1>5, Continued DEF ExportTables
<1>8. \A t \in ExportTaskIds : /\ Versions(t)' \subseteq Versions(t)
                               /\ OneOwner(t)'
                               /\ \A r \in Versions(t)' : GoodVersion(t, r)'
  BY <1>2, <1>6, VersionsStay
<1>9. \A t \in ExportTaskIds : /\ Recorded(t) => Recorded(t)'
                               /\ \A u, p : OwnedBy(t, u, p) => OwnedBy(t, u, p)'
  BY <1>2, <1>8, OwnersStay DEF Recorded
<1>10. \A k \in DownloadTokens : \A a \in Copies(k)' : CopyFits(k, a)' BY <1>2, <1>6, <1>9, CopiesStay
<1>11. \A d \in ExportCalls \ {c} : CallFits(d)'
  <2>1. \A d \in ExportCalls \ {c} :
          /\ exportCall[d].at = "certify" => IdleCall.task # exportCall[d].task
          /\ exportCall[d].at = "saveToken" => IdleCall.token # exportCall[d].token
    BY <1>6, SameTargets
  <2> QED BY <1>2, <2>1, OthersFit
<1>12. ASSUME NEW k \in issued' PROVE k \in DownloadTokens /\ tokenRows'[k] # NoExport
  <2>1. CASE k \in issued BY <1>1, <1>2, <2>1 DEF RowsFit
  <2>2. CASE old.op = "authorize" /\ k = old.token BY <1>1, <1>2, <2>2 DEF StepFits
  <2> QED BY <1>2, <2>1, <2>2
<1>13. ASSUME old.op = "download"
       PROVE  /\ old.task \in ExportTaskIds /\ old.task \in certified
              /\ exportRows[old.task] # NoExport /\ OwnedBy(old.task, old.user, old.project)
  <2>1. /\ old.token \in issued /\ old.auth \in DownloadAuthorizations
        /\ old.auth.task = old.task /\ old.auth.user = old.user
        /\ old.auth.project = old.project
    BY <1>1, <1>2, <1>13 DEF StepFits, DownloadFits
  <2>2. old.token \in DownloadTokens /\ tokenRows[old.token] # NoExport BY <1>1, <2>1 DEF RowsFit
  <2>3. old.auth \in Copies(old.token) BY <2>1, <2>2, CopiesAre, NoExportApart
  <2>4. CopyFits(old.token, old.auth) BY <2>2, <2>3 DEF ExportInv
  <2>5. exportRows[old.auth.task] # NoExport BY <1>1, <2>2, <2>4 DEF RowsFit, CopyFits
  <2>6. old.auth.task \in ExportTaskIds BY <2>1 DEF DownloadAuthorizations
  <2> QED BY <2>1, <2>4, <2>5, <2>6 DEF CopyFits
<1>14. ASSUME NEW d \in served'
       PROVE  /\ d.task \in ExportTaskIds /\ d.task \in certified'
              /\ exportRows'[d.task] # NoExport /\ OwnedBy(d.task, d.user, d.project)'
  <2>1. CASE d \in served BY <1>1, <1>2, <1>9, <2>1 DEF RowsFit
  <2>2. CASE /\ old.op = "download"
             /\ d = [token |-> old.token, user |-> old.user, project |-> old.project,
                     task |-> old.task]
    <3>1. d.task = old.task /\ d.user = old.user /\ d.project = old.project BY <2>2
    <3> HIDE DEF old
    <3>2. OwnedBy(d.task, d.user, d.project) /\ d.task \in ExportTaskIds BY <1>13, <2>2, <3>1
    <3> QED BY <1>2, <1>9, <1>13, <2>2, <3>1, <3>2
  <2> QED BY <1>2, <2>1, <2>2
<1>15. RowsFit' BY <1>1, <1>2, <1>12, <1>14 DEF RowsFit
<1> QED BY <1>5, <1>7, <1>8, <1>10, <1>11, <1>15 DEF ExportInv

\* A request that names a task.
TaskCallFits(call) ==
  /\ call \in ExportCallRecord /\ call.task \in ExportTaskIds
  /\ call.user \in ExportUsers /\ call.project \in ExportProjects
  /\ call.op \in {"refresh", "status", "authorize", "download"}
  /\ call.op = "download" =>
       /\ call.token \in issued /\ call.auth \in DownloadAuthorizations
       /\ CopyLike(call.token, call.auth)
       /\ call.auth.task = call.task
       /\ call.auth.user = call.user /\ call.auth.project = call.project

\* It meets nobody who is alone with a task or token, and its copy is known.
TaskCallGoesOn(c, call) ==
  /\ call.auth # NoExport /\ call.token \in DownloadTokens =>
       \/ CopyLike(call.token, call.auth)
       \/ call.token = exportCall[c].token /\ call.auth = exportCall[c].auth
  /\ \A d \in ExportCalls \ {c} :
       /\ exportCall[d].at = "certify" => call.task # exportCall[d].task
       /\ exportCall[d].at = "saveToken" => call.token # exportCall[d].token

\* The task is in memory, where it may have been put by this very step.
Fetched(c, call, task) ==
  /\ task \in Versions(call.task)
  /\ \/ exportTasks' = exportTasks /\ exportTasks[call.task] # NoExport
     \/ /\ exportTasks' = [exportTasks EXCEPT ![call.task] = task]
        /\ call.task = exportCall[c].task
  /\ UNCHANGED <<archived, exportRows, packageRows, tokenRows, issued, certified, served>>

LEMMA FetchedFacts ==
  ASSUME ExportInv, NEW c, NEW call, call.task \in ExportTaskIds, NEW task,
         Fetched(c, call, task)
  PROVE  /\ task \in ExportTaskRecords /\ GoodVersion(call.task, task)
         /\ exportTasks' \in [ExportTaskIds -> ExportTaskRecords \cup {NoExport}]
         /\ exportTasks'[call.task] # NoExport
         /\ \A t \in ExportTaskIds : exportTasks'[t] # exportTasks[t] =>
              /\ t = call.task /\ t = exportCall[c].task /\ exportTasks'[t] = task
         /\ RowsFit /\ ExportTables
         /\ \A t \in ExportTaskIds :
              /\ exportRows'[t] # NoExport => packageRows'[t] # NoExport
              /\ packageRows'[t] # NoExport =>
                   IntegrityVerified(packageRows'[t], packageRows'[t].events)
<1>1. GoodVersion(call.task, task) /\ ExportTables /\ RowsFit BY DEF ExportInv, Fetched
<1>2. task \in ExportTaskRecords /\ task # NoExport BY <1>1, NoExportApart DEF GoodVersion, SoundVersion
<1>3. /\ exportTasks' \in [ExportTaskIds -> ExportTaskRecords \cup {NoExport}]
      /\ exportTasks'[call.task] # NoExport
      /\ \A t \in ExportTaskIds : exportTasks'[t] # exportTasks[t] =>
           /\ t = call.task /\ t = exportCall[c].task /\ exportTasks'[t] = task
  BY <1>1, <1>2 DEF Fetched, ExportTables
<1>4. \A t \in ExportTaskIds :
        /\ exportRows'[t] # NoExport => packageRows'[t] # NoExport
        /\ packageRows'[t] # NoExport =>
             IntegrityVerified(packageRows'[t], packageRows'[t].events)
  BY <1>1 DEF Fetched, RowsFit
<1> QED BY <1>1, <1>2, <1>3, <1>4

\* The request ends, and the task it fetched stays in memory.
LEMMA FetchedAndFinished ==
  ASSUME ExportInv, NEW c \in ExportCalls, NEW call, TaskCallFits(call), NEW task,
         Fetched(c, call, task), Finish(c), UNCHANGED tokens,
         UNCHANGED ledger \/ AppendAudit(call.project)
  PROVE  ExportInv'
<1>1. call.task \in ExportTaskIds /\ call.project \in ExportProjects BY DEF TaskCallFits
<1>2. ledger' \in Seq(ExportProjects \cup {NoProject}) /\ archived' \in 0..Len(ledger')
  BY <1>1, AppendTyped DEF ExportInv, ExportTables, Fetched
<1>3. IdleCall \in ExportCallRecord /\ CallFits(c)' /\ Continue(c, IdleCall) BY IdleCallFits DEF Finish
<1>4. IdleCall.at \notin Carrying /\ IdleCall.auth = NoExport /\ IdleCall.task = NoExport
      /\ IdleCall.token = NoExport
  BY DEF IdleCall, Carrying
<1>5. UNCHANGED <<archived, exportRows, packageRows, tokenRows, issued, certified, served>>
      /\ task \in Versions(call.task)
  BY DEF Fetched
<1>6. ExportTables' BY <1>1, <1>2, <1>3, <1>5, FetchedFacts, Continued DEF ExportTables
<1>7. \A t \in ExportTaskIds :
        /\ exportTasks'[t] # exportTasks[t] =>
             t \in {IdleCall.task, exportCall[c].task} /\ exportTasks'[t] \in Versions(t)
        /\ exportRows'[t] # NoExport => packageRows'[t] # NoExport
        /\ packageRows'[t] # NoExport =>
             IntegrityVerified(packageRows'[t], packageRows'[t].events)
  <2>1. \A t \in ExportTaskIds : exportTasks'[t] # exportTasks[t] =>
          t = call.task /\ t = exportCall[c].task /\ exportTasks'[t] = task
    BY <1>1 DEF Fetched, ExportInv, ExportTables
  <2>2. \A t \in ExportTaskIds : exportRows'[t] # NoExport => packageRows'[t] # NoExport
    BY <1>1, FetchedFacts
  <2>3. \A t \in ExportTaskIds :
          packageRows'[t] # NoExport =>
                  IntegrityVerified(packageRows'[t], packageRows'[t].events)
    BY <1>1, FetchedFacts
  <2> QED BY <1>5, <2>1, <2>2, <2>3
<1>8. \A d \in ExportCalls \ {c} :
        /\ exportCall[d].at = "certify" => IdleCall.task # exportCall[d].task
        /\ exportCall[d].at = "saveToken" => IdleCall.token # exportCall[d].token
  BY <1>4, SameTargets
<1> QED BY <1>3, <1>4, <1>5, <1>6, <1>7, <1>8, MoveKeeps

LEMMA RefreshStartsKeeps ==
  ASSUME ExportInv, NEW c \in ExportCalls, NEW call, TaskCallFits(call), NEW task,
         TaskCallGoesOn(c, call), Fetched(c, call, task), RefreshStarts(c, call, task)
  PROVE  ExportInv'
<1> DEFINE next == [call EXCEPT !.at = "refresh", !.found = task]
<1>1. call.op = "refresh" /\ UNCHANGED tokens BY DEF RefreshStarts
<1>2. CASE AppendAudit(call.project) /\ Finish(c) BY <1>1, <1>2, FetchedAndFinished
<1>3. CASE Continue(c, next) /\ UNCHANGED ledger
  <2>1. /\ call \in ExportCallRecord /\ call.task \in ExportTaskIds
        /\ call.user \in ExportUsers /\ call.project \in ExportProjects
    BY DEF TaskCallFits
  <2>2. task \in ExportTaskRecords /\ task \in Versions(call.task) /\ ExportTables
    BY <2>1, FetchedFacts DEF Fetched
  <2>3. /\ next.at = "refresh" /\ next.op = "refresh" /\ next.user = call.user
        /\ next.project = call.project /\ next.task = call.task /\ next.token = call.token
        /\ next.found = task /\ next.auth = call.auth
    BY <1>1, <2>1 DEF ExportCallRecord
  <2>4. next \in ExportCallRecord BY <2>1, <2>2 DEF ExportCallRecord, CallSteps
  <2> HIDE DEF next
  <2>5. exportCall'[c] = next BY <1>3, <2>2, Continued
  <2>6. CallFits(c)' BY <2>1, <2>2, <2>3, <2>5
       DEF CallFits, CertifyFits, SaveTokenFits, StepFits, DownloadFits, Carrying
  <2>7. /\ exportTasks' \in [ExportTaskIds -> ExportTaskRecords \cup {NoExport}]
        /\ \A t \in ExportTaskIds :
             /\ exportRows'[t] # NoExport => packageRows'[t] # NoExport
             /\ packageRows'[t] # NoExport =>
                  IntegrityVerified(packageRows'[t], packageRows'[t].events)
    BY <2>1, FetchedFacts
  <2>8. \A t \in ExportTaskIds : exportTasks'[t] # exportTasks[t] =>
          t = call.task /\ exportTasks'[t] = task
    BY <2>1, <2>2 DEF Fetched, ExportTables
  <2>9. UNCHANGED <<archived, exportRows, packageRows, tokenRows, issued, certified, served>>
    BY DEF Fetched
  <2>10. ExportTables' BY <1>1, <1>3, <2>2, <2>4, <2>7, <2>9, Continued DEF ExportTables
  <2>11. \A t \in ExportTaskIds :
           exportTasks'[t] # exportTasks[t] =>
             t \in {next.task, exportCall[c].task} /\ exportTasks'[t] \in Versions(t)
    BY <2>2, <2>3, <2>8
  <2>12. /\ next.found \in Versions(next.task)
         /\ next.auth # NoExport /\ next.token \in DownloadTokens =>
              \/ CopyLike(next.token, next.auth)
              \/ next.token = exportCall[c].token /\ next.auth = exportCall[c].auth
         /\ \A d \in ExportCalls \ {c} :
              /\ exportCall[d].at = "certify" => next.task # exportCall[d].task
              /\ exportCall[d].at = "saveToken" => next.token # exportCall[d].token
    BY <2>2, <2>3 DEF TaskCallGoesOn
  <2> QED BY <1>1, <1>3, <2>4, <2>6, <2>7, <2>9, <2>10, <2>11, <2>12, MoveKeeps
<1> QED BY <1>2, <1>3 DEF RefreshStarts

LEMMA ConsumeAuthorizationKeeps ==
  ASSUME ExportInv, NEW c \in ExportCalls, NEW call, TaskCallFits(call), NEW task,
         TaskCallGoesOn(c, call), Fetched(c, call, task), ConsumeAuthorization(c, call, task)
  PROVE  ExportInv'
<1> DEFINE auth == [call.auth EXCEPT !.consumed = TRUE]
           next == [call EXCEPT !.at = "consume", !.auth = auth]
<1>1. /\ call.op = "download" /\ tokens' = [tokens EXCEPT ![call.token] = auth]
      /\ Continue(c, next) /\ UNCHANGED ledger
  BY DEF ConsumeAuthorization, CacheAuthorization
<1>2. /\ call \in ExportCallRecord /\ call.task \in ExportTaskIds
      /\ call.user \in ExportUsers /\ call.project \in ExportProjects
      /\ call.token \in issued /\ call.auth \in DownloadAuthorizations
      /\ CopyLike(call.token, call.auth)
      /\ call.auth.task = call.task
      /\ call.auth.user = call.user /\ call.auth.project = call.project
  BY <1>1 DEF TaskCallFits
<1>3. task \in Versions(call.task) /\ ExportTables /\ RowsFit BY <1>2, FetchedFacts DEF Fetched
<1>4. call.token \in DownloadTokens /\ tokenRows[call.token] # NoExport BY <1>2, <1>3 DEF RowsFit
<1>5. /\ auth \in DownloadAuthorizations /\ auth.task = call.auth.task
      /\ auth.user = call.auth.user /\ auth.project = call.auth.project /\ auth.consumed
  BY <1>2 DEF DownloadAuthorizations
<1>6. CopyLike(call.token, auth) BY <1>2, <1>5 DEF CopyLike
<1>7. /\ next.at = "consume" /\ next.op = "download" /\ next.user = call.user
      /\ next.project = call.project /\ next.task = call.task /\ next.token = call.token
      /\ next.auth = auth
  BY <1>1, <1>2 DEF ExportCallRecord
<1>8. next \in ExportCallRecord BY <1>2, <1>5 DEF ExportCallRecord, CallSteps
<1> HIDE DEF next, auth
<1>9. exportCall'[c] = next BY <1>1, <1>3, Continued
<1>10. UNCHANGED <<archived, exportRows, packageRows, tokenRows, issued, certified, served>>
  BY DEF Fetched
<1>11. CallFits(c)' BY <1>2, <1>5, <1>7, <1>9, <1>10
     DEF CallFits, CertifyFits, SaveTokenFits, StepFits, DownloadFits, Carrying
<1>12. /\ exportTasks' \in [ExportTaskIds -> ExportTaskRecords \cup {NoExport}]
       /\ \A t \in ExportTaskIds :
            /\ exportRows'[t] # NoExport => packageRows'[t] # NoExport
            /\ packageRows'[t] # NoExport =>
                 IntegrityVerified(packageRows'[t], packageRows'[t].events)
  BY <1>2, FetchedFacts
<1>13. \A t \in ExportTaskIds : exportTasks'[t] # exportTasks[t] =>
         t = call.task /\ exportTasks'[t] = task
  BY <1>2, <1>3 DEF Fetched, ExportTables
<1>14. ExportTables' BY <1>1, <1>3, <1>5, <1>8, <1>10, <1>12, Continued DEF ExportTables
<1>15. \A t \in ExportTaskIds :
         exportTasks'[t] # exportTasks[t] =>
           t \in {next.task, exportCall[c].task} /\ exportTasks'[t] \in Versions(t)
  BY <1>3, <1>7, <1>13
<1>16. \A k \in DownloadTokens :
         tokens'[k] # tokens[k] => k = next.token /\ CopyLike(k, tokens'[k])
  BY <1>1, <1>3, <1>4, <1>6, <1>7 DEF ExportTables
<1>17. /\ next.at \notin Carrying
       /\ CopyLike(next.token, next.auth)
       /\ \A d \in ExportCalls \ {c} :
            /\ exportCall[d].at = "certify" => next.task # exportCall[d].task
            /\ exportCall[d].at = "saveToken" => next.token # exportCall[d].token
  BY <1>6, <1>7 DEF TaskCallGoesOn, Carrying
<1> QED BY <1>1, <1>8, <1>10, <1>11, <1>12, <1>14, <1>15, <1>16, <1>17, MoveKeeps

\* A token is new: in memory, and with the request that will save it.
LEMMA NewTokenKeeps ==
  ASSUME ExportInv, NEW c \in ExportCalls, NEW call, TaskCallFits(call), NEW task,
         TaskCallGoesOn(c, call), Fetched(c, call, task), call.op = "authorize",
         DownloadAuthorized(task, call), NEW k \in DownloadTokens, NewToken(k),
         NEW auth, auth = [task |-> call.task, user |-> task.user,
                           project |-> task.project, consumed |-> FALSE],
         CacheAuthorization(k, auth),
         Continue(c, [call EXCEPT !.at = "saveToken", !.token = k, !.auth = auth]),
         UNCHANGED ledger
  PROVE  ExportInv'
<1> DEFINE next == [call EXCEPT !.at = "saveToken", !.token = k, !.auth = auth]
<1>1. /\ call \in ExportCallRecord /\ call.task \in ExportTaskIds
      /\ call.user \in ExportUsers /\ call.project \in ExportProjects
  BY DEF TaskCallFits
<1>2. /\ task \in Versions(call.task) /\ task \in ExportTaskRecords
      /\ GoodVersion(call.task, task) /\ ExportTables /\ RowsFit
      /\ exportTasks'[call.task] # NoExport
      /\ exportTasks' \in [ExportTaskIds -> ExportTaskRecords \cup {NoExport}]
  BY <1>1, FetchedFacts DEF Fetched
<1>3. /\ auth \in DownloadAuthorizations /\ auth.task = call.task
      /\ auth.user = task.user /\ auth.project = task.project /\ auth # NoExport
  <2>1. task.user \in ExportUsers /\ task.project \in ExportProjects BY <1>2 DEF ExportTaskRecords
  <2>2. [task |-> call.task, user |-> task.user, project |-> task.project, consumed |-> FALSE]
          \in DownloadAuthorizations
    BY <1>1, <2>1 DEF DownloadAuthorizations
  <2>3. auth \in DownloadAuthorizations BY <2>2
  <2>4. auth.task = call.task /\ auth.user = task.user /\ auth.project = task.project OBVIOUS
  <2> QED BY <2>3, <2>4, NoExportApart
<1>4. /\ next.at = "saveToken" /\ next.op = "authorize" /\ next.user = call.user
      /\ next.project = call.project /\ next.task = call.task /\ next.token = k
      /\ next.auth = auth
  BY <1>1 DEF ExportCallRecord
<1>5. next \in ExportCallRecord BY <1>1, <1>3 DEF ExportCallRecord, CallSteps
<1>6. Continue(c, next) /\ tokens' = [tokens EXCEPT ![k] = auth] BY DEF CacheAuthorization
<1> HIDE DEF next
<1>7. exportCall'[c] = next /\ \A d \in ExportCalls \ {c} : exportCall'[d] = exportCall[d]
  BY <1>2, <1>6, Continued
<1>8. UNCHANGED <<archived, exportRows, packageRows, tokenRows, issued, certified, served>> BY DEF Fetched
<1>9. /\ tokens[k] = NoExport /\ tokenRows[k] = NoExport
      /\ \A d \in ExportCalls : exportCall[d].token # k
  BY DEF NewToken
<1>10. ExportTables' BY <1>2, <1>3, <1>5, <1>6, <1>8, Continued DEF ExportTables
<1>11. \A t \in ExportTaskIds : exportTasks'[t] # exportTasks[t] =>
         t = call.task /\ exportTasks'[t] = task /\ exportTasks'[t] \in Versions(t)
  BY <1>1, <1>2 DEF Fetched, ExportTables
<1>12. \A t \in ExportTaskIds : /\ Versions(t)' \subseteq Versions(t)
                                /\ OneOwner(t)'
                                /\ \A r \in Versions(t)' : GoodVersion(t, r)'
  <2>1. next.at \notin Carrying BY <1>4 DEF Carrying
  <2> QED BY <1>6, <1>8, <1>11, <2>1, VersionsStay
<1>13. \A t \in ExportTaskIds : /\ Recorded(t) => Recorded(t)'
                                /\ \A u, p : OwnedBy(t, u, p) => OwnedBy(t, u, p)'
  BY <1>2, <1>8, <1>11, <1>12, OwnersStay DEF Recorded
<1>14. ASSUME NEW j \in DownloadTokens, NEW a \in Copies(j)' PROVE CopyFits(j, a)'
  <2>1. CASE j = k
    <3>1. a = auth
      <4>1. tokens'[k] = auth /\ tokenRows'[k] = NoExport BY <1>2, <1>6, <1>8, <1>9 DEF ExportTables
      <4>2. \A d \in ExportCalls : exportCall'[d].token = k => exportCall'[d].auth = auth
        BY <1>4, <1>7, <1>9
      <4> QED BY <2>1, <4>1, <4>2, CopiesAre
    <3>2. task.status = "completed" BY DEF DownloadAuthorized
    <3>3. call.task \in certified BY <1>2, <3>2 DEF GoodVersion
    <3>4. OwnedBy(call.task, task.user, task.project) BY <1>1, <1>2 DEF ExportInv, OneOwner, OwnedBy
    <3>5. OwnedBy(call.task, task.user, task.project)' /\ Recorded(call.task)'
      BY <1>1, <1>2, <1>13, <3>4 DEF Recorded
    <3> QED BY <1>3, <1>8, <1>9, <2>1, <3>1, <3>3, <3>5 DEF CopyFits
  <2>2. CASE j # k
    <3>1. a \in Copies(j) BY <1>2, <1>4, <1>6, <1>7, <1>8, <2>2, CopiesAre DEF ExportTables
    <3>2. CopyFits(j, a) /\ a.task \in ExportTaskIds
      BY <3>1 DEF ExportInv, CopyFits, DownloadAuthorizations
    <3> QED BY <1>8, <1>13, <3>2 DEF CopyFits
  <2> QED BY <2>1, <2>2
<1>15. RowsFit' BY <1>2, <1>8, <1>13, RowsStay DEF RowsFit
<1>16. CallFits(c)'
  <2>1. SaveTokenFits(c)' BY <1>2, <1>3, <1>4, <1>6, <1>7, <1>8, <1>9 DEF SaveTokenFits, ExportTables
  <2>2. CertifyFits(c)' /\ StepFits(exportCall[c])'
    BY <1>1, <1>4, <1>7 DEF CertifyFits, StepFits, DownloadFits, Carrying
  <2> QED BY <2>1, <2>2 DEF CallFits
<1>17. \A d \in ExportCalls \ {c} : CallFits(d)'
  <2>1. \A d \in ExportCalls \ {c} :
          /\ exportCall[d].at = "certify" => next.task # exportCall[d].task
          /\ exportCall[d].at = "saveToken" => next.token # exportCall[d].token
    BY <1>4, <1>9 DEF TaskCallGoesOn
  <2>2. \A j \in DownloadTokens :
          /\ j # exportCall[c].token /\ j # next.token =>
               tokens'[j] = tokens[j] /\ tokenRows'[j] = tokenRows[j]
          /\ tokenRows[j] # NoExport => tokenRows'[j] # NoExport
    BY <1>2, <1>4, <1>6, <1>8 DEF ExportTables
  <2>3. \A t \in ExportTaskIds : t # exportCall[c].task /\ t # next.task =>
          exportTasks'[t] = exportTasks[t] /\ exportRows'[t] = exportRows[t]
    BY <1>4, <1>8, <1>11
  <2> QED BY <1>6, <1>8, <2>1, <2>2, <2>3, OthersFit
<1> QED BY <1>10, <1>12, <1>14, <1>15, <1>16, <1>17 DEF ExportInv

LEMMA AuthorizeDownloadKeeps ==
  ASSUME ExportInv, NEW c \in ExportCalls, NEW call, TaskCallFits(call), NEW task,
         TaskCallGoesOn(c, call), Fetched(c, call, task), AuthorizeDownload(c, call, task)
  PROVE  ExportInv'
<1>1. CASE AppendAudit(call.project) /\ Finish(c) /\ UNCHANGED tokens BY <1>1, FetchedAndFinished
<1>2. CASE DownloadAuthorized(task, call)
  <2>1. PICK k \in {n \in DownloadTokens : NewToken(n)} :
          LET auth == [task |-> call.task, user |-> task.user,
                       project |-> task.project, consumed |-> FALSE]
          IN /\ CacheAuthorization(k, auth)
             /\ Continue(c, [call EXCEPT !.at = "saveToken", !.token = k, !.auth = auth])
             /\ UNCHANGED ledger
    BY <1>2 DEF AuthorizeDownload
  <2>2. k \in DownloadTokens /\ NewToken(k) OBVIOUS
  <2>3. call.op = "authorize" BY DEF AuthorizeDownload
  <2> QED BY <1>2, <2>1, <2>2, <2>3, NewTokenKeeps
<1> QED BY <1>1, <1>2 DEF AuthorizeDownload

LEMMA WithTaskKeeps ==
  ASSUME ExportInv, NEW c \in ExportCalls, NEW call, TaskCallFits(call), NEW task,
         TaskCallGoesOn(c, call), Fetched(c, call, task), WithTask(c, call, task)
  PROVE  ExportInv'
<1>1. CASE RefreshStarts(c, call, task) BY <1>1, RefreshStartsKeeps
<1>2. CASE StatusRead(c, call, task) BY <1>2, FetchedAndFinished DEF StatusRead
<1>3. CASE AuthorizeDownload(c, call, task) BY <1>3, AuthorizeDownloadKeeps
<1>4. CASE ConsumeAuthorization(c, call, task) BY <1>4, ConsumeAuthorizationKeeps
<1> QED BY <1>1, <1>2, <1>3, <1>4 DEF WithTask

LEMMA LoadExportTaskKeeps ==
  ASSUME ExportInv, NEW c \in ExportCalls, NEW call, TaskCallFits(call), TaskCallGoesOn(c, call),
         UNCHANGED <<archived, exportTasks, exportRows, packageRows, tokenRows, issued,
                     certified, served>>,
         LoadExportTask(c, call)
  PROVE  ExportInv'
<1>1. /\ call \in ExportCallRecord /\ call.task \in ExportTaskIds
      /\ call.user \in ExportUsers /\ call.project \in ExportProjects
      /\ call.op \in {"refresh", "status", "authorize", "download"}
      /\ ExportTables
  BY DEF TaskCallFits, ExportInv
<1>2. CASE exportTasks[call.task] # NoExport
  <2>1. exportTasks[call.task] \in Versions(call.task) BY <1>1, <1>2, VersionsAre
  <2>2. Fetched(c, call, exportTasks[call.task]) BY <1>2, <2>1 DEF Fetched
  <2>3. WithTask(c, call, exportTasks[call.task]) BY <1>2 DEF LoadExportTask
  <2> QED BY <2>2, <2>3, WithTaskKeeps
<1>3. CASE exportTasks[call.task] = NoExport
  <2> DEFINE row == exportRows[call.task]
             next == [call EXCEPT !.at = "taskRow", !.found = row]
  <2>1. /\ UNCHANGED <<ledger, tokens>>
        /\ IF row = NoExport THEN Finish(c) ELSE Continue(c, next)
    BY <1>3 DEF LoadExportTask
  <2>2. ledger' \in Seq(ExportProjects \cup {NoProject}) /\ archived' \in 0..Len(ledger')
    BY <1>1, <2>1 DEF ExportTables
  <2>3. CASE row = NoExport BY <2>1, <2>2, <2>3, FinishKeeps
  <2>4. CASE row # NoExport
    <3>1. row \in ExportTaskRecords /\ row \in Versions(call.task)
      BY <1>1, <2>4, VersionsAre DEF ExportTables
    <3>2. /\ next.at = "taskRow" /\ next.op = call.op /\ next.user = call.user
          /\ next.project = call.project /\ next.task = call.task /\ next.token = call.token
          /\ next.found = row /\ next.auth = call.auth
      BY <1>1 DEF ExportCallRecord
    <3>3. next \in ExportCallRecord BY <1>1, <3>1 DEF ExportCallRecord, CallSteps
    <3>4. Continue(c, next) BY <2>1, <2>4
    <3> HIDE DEF next, row
    <3>5. exportCall'[c] = next BY <1>1, <3>4, Continued
    <3>6. CallFits(c)'
      <4>1. CertifyFits(c)' /\ SaveTokenFits(c)' BY <3>2, <3>5 DEF CertifyFits, SaveTokenFits
      <4>2. DownloadFits(exportCall[c])' BY <3>2, <3>5 DEF DownloadFits, TaskCallFits
      <4>3. StepFits(exportCall[c])' BY <1>1, <3>1, <3>2, <3>5, <4>2 DEF StepFits, Carrying
      <4> QED BY <4>1, <4>3 DEF CallFits
    <3>7. /\ next.found \in Versions(next.task)
          /\ next.auth # NoExport /\ next.token \in DownloadTokens =>
               \/ CopyLike(next.token, next.auth)
               \/ next.token = exportCall[c].token /\ next.auth = exportCall[c].auth
          /\ \A d \in ExportCalls \ {c} :
               /\ exportCall[d].at = "certify" => next.task # exportCall[d].task
               /\ exportCall[d].at = "saveToken" => next.token # exportCall[d].token
      BY <3>1, <3>2 DEF TaskCallGoesOn
    <3> QED BY <2>1, <2>2, <3>3, <3>4, <3>6, <3>7, QuietKeeps
  <2> QED BY <2>3, <2>4
<1> QED BY <1>2, <1>3

LEMMA TaskRequestKeeps ==
  ASSUME ExportInv, NEW c \in ExportCalls, NEW op \in {"refresh", "status", "authorize"},
         NEW u \in ExportUsers, NEW p \in ExportProjects, NEW t \in ExportTaskIds,
         TaskRequest(c, op, u, p, t)
  PROVE  ExportInv'
<1> DEFINE call == [IdleCall EXCEPT !.op = op, !.user = u, !.project = p, !.task = t]
<1>1. /\ call.op = op /\ call.user = u /\ call.project = p /\ call.task = t
      /\ call.token = NoExport /\ call.auth = NoExport
  BY DEF IdleCall
<1>2. call \in ExportCallRecord BY DEF IdleCall, ExportCallRecord, CallSteps, CallOps
<1>3. /\ exportTasks[t] # NoExport \/ exportRows[t] # NoExport
      /\ LoadExportTask(c, call)
      /\ UNCHANGED <<archived, exportTasks, exportRows, packageRows, tokenRows, issued,
                     certified, served>>
  BY DEF TaskRequest
<1> HIDE DEF call
<1>4. TaskCallFits(call) BY <1>1, <1>2 DEF TaskCallFits
<1>5. TaskCallGoesOn(c, call)
  BY <1>1, <1>3, NoExportApart DEF TaskCallGoesOn, ExportInv, CallFits, CertifyFits, SaveTokenFits
<1> QED BY <1>3, <1>4, <1>5, LoadExportTaskKeeps

LEMMA TaskRowArrivesKeeps ==
  ASSUME ExportInv, NEW c \in ExportCalls, TaskRowArrives(c)
  PROVE  ExportInv'
<1> DEFINE call == exportCall[c]
<1>1. /\ call.at = "taskRow" /\ CacheExportTask(call.task, call.found)
      /\ WithTask(c, call, call.found)
      /\ UNCHANGED <<archived, exportRows, packageRows, tokenRows, issued, served>>
  BY DEF TaskRowArrives
<1>2. /\ call \in ExportCallRecord /\ call.task \in ExportTaskIds
      /\ call.user \in ExportUsers /\ call.project \in ExportProjects
      /\ call.found \in Versions(call.task)
      /\ call.found.status = "completed" => call.task \in certified
  BY <1>1, CarriedVersion DEF Carrying
<1>3. StepFits(call) /\ RowsFit BY DEF ExportInv, CallFits
<1>4. certified' = certified BY <1>1, <1>2 DEF CacheExportTask
<1>5. Fetched(c, call, call.found) BY <1>1, <1>2, <1>4 DEF Fetched, CacheExportTask
<1>6. TaskCallGoesOn(c, call) BY SameTargets DEF TaskCallGoesOn
<1>7. TaskCallFits(call)
  <2>1. call.op \in {"refresh", "status", "authorize", "download"} BY <1>1, <1>3 DEF StepFits
  <2>2. ASSUME call.op = "download"
        PROVE  /\ call.token \in issued /\ call.auth \in DownloadAuthorizations
               /\ CopyLike(call.token, call.auth)
               /\ call.auth.task = call.task
               /\ call.auth.user = call.user /\ call.auth.project = call.project
    <3>1. /\ call.token \in issued /\ call.auth \in DownloadAuthorizations
          /\ call.auth.task = call.task
          /\ call.auth.user = call.user /\ call.auth.project = call.project
      BY <1>1, <1>3, <2>2 DEF StepFits, DownloadFits
    <3>2. call.auth \in Copies(call.token) BY <1>3, <3>1, CopiesAre, NoExportApart DEF RowsFit
    <3> QED BY <3>1, <3>2 DEF CopyLike
  <2> QED BY <1>2, <2>1, <2>2 DEF TaskCallFits
<1> HIDE DEF call
<1> QED BY <1>1, <1>5, <1>6, <1>7, WithTaskKeeps

LEMMA WithAuthorizationKeeps ==
  ASSUME ExportInv, NEW c \in ExportCalls, NEW call \in ExportCallRecord,
         call.op = "download", call.user \in ExportUsers, call.project \in ExportProjects,
         call.token \in issued, NEW auth \in Copies(call.token),
         UNCHANGED <<archived, exportTasks, exportRows, packageRows, tokenRows, issued,
                     certified, served>>,
         WithAuthorization(c, call, auth)
  PROVE  ExportInv'
<1>1. ExportTables /\ RowsFit BY DEF ExportInv
<1>2. call.token \in DownloadTokens /\ tokenRows[call.token] # NoExport BY <1>1 DEF RowsFit
<1>3. CopyFits(call.token, auth) /\ auth \in DownloadAuthorizations /\ auth.task \in ExportTaskIds
  BY <1>2 DEF ExportInv, CopyFits, DownloadAuthorizations
<1>4. CASE AppendAudit(call.project) /\ Finish(c) /\ UNCHANGED tokens BY <1>4, AppendTyped, FinishKeeps
<1>5. CASE Finish(c) /\ UNCHANGED <<ledger, tokens>> BY <1>1, <1>5, FinishKeeps DEF ExportTables
<1>6. CASE /\ auth.project = call.project /\ auth.user = call.user
           /\ LoadExportTask(c, [call EXCEPT !.auth = auth, !.task = auth.task])
  <2> DEFINE next == [call EXCEPT !.auth = auth, !.task = auth.task]
  <2>1. /\ next.op = "download" /\ next.user = call.user /\ next.project = call.project
        /\ next.task = auth.task /\ next.token = call.token /\ next.auth = auth
    BY DEF ExportCallRecord
  <2>2. next \in ExportCallRecord BY <1>3 DEF ExportCallRecord
  <2>3. LoadExportTask(c, next) BY <1>6
  <2> HIDE DEF next
  <2>4. CopyLike(next.token, next.auth) BY <1>3, <2>1 DEF CopyLike
  <2>5. TaskCallFits(next) BY <1>3, <1>6, <2>1, <2>2, <2>4 DEF TaskCallFits
  <2>6. Recorded(next.task) BY <1>3, <2>1 DEF CopyFits
  <2>7. TaskCallGoesOn(c, next)
    <3>1. ASSUME NEW d \in ExportCalls \ {c}
          PROVE  /\ exportCall[d].at = "certify" => next.task # exportCall[d].task
                 /\ exportCall[d].at = "saveToken" => next.token # exportCall[d].token
      BY <1>2, <2>1, <2>6 DEF ExportInv, CallFits, CertifyFits, SaveTokenFits, Recorded
    <3> QED BY <2>4, <3>1 DEF TaskCallGoesOn
  <2> QED BY <2>3, <2>5, <2>7, LoadExportTaskKeeps
<1> QED BY <1>4, <1>5, <1>6 DEF WithAuthorization

LEMMA DownloadExportKeeps ==
  ASSUME ExportInv, NEW c \in ExportCalls, NEW u \in ExportUsers, NEW p \in ExportProjects,
         NEW k \in DownloadTokens, DownloadExport(c, u, p, k)
  PROVE  ExportInv'
<1> DEFINE call == [IdleCall EXCEPT !.op = "download", !.user = u, !.project = p, !.token = k]
<1>1. /\ call.op = "download" /\ call.user = u /\ call.project = p /\ call.token = k
      /\ call.task = NoExport /\ call.auth = NoExport /\ call.found = NoExport
  BY DEF IdleCall
<1>2. call \in ExportCallRecord BY DEF IdleCall, ExportCallRecord, CallSteps, CallOps
<1>3. /\ k \in issued /\ ExportTables /\ RowsFit
      /\ UNCHANGED <<archived, exportTasks, exportRows, packageRows, tokenRows, issued,
                     certified, served>>
      /\ IF tokens[k] # NoExport
         THEN WithAuthorization(c, call, tokens[k])
         ELSE /\ Continue(c, [call EXCEPT !.at = "tokenRow", !.auth = tokenRows[k]])
              /\ UNCHANGED <<ledger, tokens>>
  BY DEF DownloadExport, ExportInv
<1> HIDE DEF call
<1>4. CASE tokens[k] # NoExport
  <2>1. tokens[k] \in Copies(k) BY <1>4, CopiesAre
  <2> QED BY <1>1, <1>2, <1>3, <1>4, <2>1, WithAuthorizationKeeps
<1>5. CASE tokens[k] = NoExport
  <2> DEFINE next == [call EXCEPT !.at = "tokenRow", !.auth = tokenRows[k]]
  <2>1. tokenRows[k] # NoExport /\ tokenRows[k] \in DownloadAuthorizations
    BY <1>3 DEF RowsFit, ExportTables
  <2>2. tokenRows[k] \in Copies(k) BY <2>1, CopiesAre
  <2>3. /\ next.at = "tokenRow" /\ next.op = "download" /\ next.user = u /\ next.project = p
        /\ next.token = k /\ next.task = NoExport /\ next.auth = tokenRows[k]
    BY <1>1, <1>2 DEF ExportCallRecord
  <2>4. next \in ExportCallRecord BY <1>2, <2>1 DEF ExportCallRecord, CallSteps
  <2>5. Continue(c, next) /\ UNCHANGED <<ledger, tokens>> BY <1>3, <1>5
  <2> HIDE DEF next
  <2>6. exportCall'[c] = next BY <1>3, <2>5, Continued
  <2>7. CallFits(c)' BY <1>3, <2>1, <2>3, <2>6
       DEF CallFits, CertifyFits, SaveTokenFits, StepFits, DownloadFits, Carrying
  <2>8. CopyLike(next.token, next.auth) BY <2>1, <2>2, <2>3 DEF CopyLike
  <2>9. \A d \in ExportCalls \ {c} :
          /\ exportCall[d].at = "certify" => next.task # exportCall[d].task
          /\ exportCall[d].at = "saveToken" => next.token # exportCall[d].token
    BY <2>1, <2>3, NoExportApart DEF ExportInv, CallFits, CertifyFits, SaveTokenFits
  <2>10. next.at \notin Carrying BY <2>3 DEF Carrying
  <2>11. ledger' \in Seq(ExportProjects \cup {NoProject}) /\ archived' \in 0..Len(ledger')
    BY <1>3, <2>5 DEF ExportTables
  <2> QED BY <1>3, <2>4, <2>5, <2>7, <2>8, <2>9, <2>10, <2>11, QuietKeeps
<1> QED BY <1>4, <1>5

\* What is known of a request for a token it has the row of.
LEMMA TokenHeld ==
  ASSUME ExportInv, NEW c \in ExportCalls,
         exportCall[c].at \in {"tokenRow", "checkToken", "consume"}
  PROVE  LET call == exportCall[c] IN
         /\ call \in ExportCallRecord /\ call.op = "download"
         /\ call.user \in ExportUsers /\ call.project \in ExportProjects
         /\ call.token \in issued /\ call.token \in DownloadTokens
         /\ tokenRows[call.token] # NoExport
         /\ call.auth \in DownloadAuthorizations /\ call.auth \in Copies(call.token)
         /\ CopyLike(call.token, call.auth)
<1> DEFINE call == exportCall[c]
<1>1. call \in ExportCallRecord /\ StepFits(call) /\ RowsFit BY DEF ExportInv, ExportTables, CallFits
<1>2. /\ call.op = "download" /\ call.user \in ExportUsers /\ call.project \in ExportProjects
      /\ call.token \in issued /\ call.auth \in DownloadAuthorizations
  BY <1>1 DEF StepFits, DownloadFits
<1>3. call.token \in DownloadTokens /\ tokenRows[call.token] # NoExport BY <1>1, <1>2 DEF RowsFit
<1>4. call.auth \in Copies(call.token) BY <1>2, <1>3, CopiesAre, NoExportApart
<1> QED BY <1>1, <1>2, <1>3, <1>4 DEF CopyLike

LEMMA CheckTokenKeeps ==
  ASSUME ExportInv, NEW c \in ExportCalls, CheckToken(c)
  PROVE  ExportInv'
<1> DEFINE call == exportCall[c]
<1>1. /\ call.at = "checkToken" /\ WithAuthorization(c, call, call.auth)
      /\ UNCHANGED <<archived, exportTasks, exportRows, packageRows, tokenRows, issued,
                     certified, served>>
  BY DEF CheckToken
<1>2. /\ call \in ExportCallRecord /\ call.op = "download"
      /\ call.user \in ExportUsers /\ call.project \in ExportProjects
      /\ call.token \in issued /\ call.auth \in Copies(call.token)
  BY <1>1, TokenHeld
<1> HIDE DEF call
<1> QED BY <1>1, <1>2, WithAuthorizationKeeps

LEMMA TokenRowArrivesKeeps ==
  ASSUME ExportInv, NEW c \in ExportCalls, TokenRowArrives(c)
  PROVE  ExportInv'
<1> DEFINE old == exportCall[c]
           call == [old EXCEPT !.at = "checkToken"]
<1>1. /\ old.at = "tokenRow" /\ tokens' = [tokens EXCEPT ![old.token] = old.auth]
      /\ Continue(c, call)
      /\ UNCHANGED <<ledger, archived, exportTasks, exportRows, packageRows, tokenRows,
                     issued, certified, served>>
      /\ ExportTables /\ RowsFit
  BY DEF TokenRowArrives, CacheAuthorization, ExportInv
<1>2. /\ old \in ExportCallRecord /\ old.op = "download"
      /\ old.user \in ExportUsers /\ old.project \in ExportProjects
      /\ old.token \in issued /\ old.token \in DownloadTokens
      /\ old.auth \in DownloadAuthorizations /\ CopyLike(old.token, old.auth)
  BY <1>1, TokenHeld
<1>3. /\ call.at = "checkToken" /\ call.op = old.op /\ call.user = old.user
      /\ call.project = old.project /\ call.task = old.task /\ call.token = old.token
      /\ call.auth = old.auth
  BY <1>2 DEF ExportCallRecord
<1>4. call \in ExportCallRecord BY <1>2 DEF ExportCallRecord, CallSteps
<1> HIDE DEF call, old
<1>5. exportCall'[c] = call BY <1>1, Continued
<1>6. CallFits(c)' BY <1>1, <1>2, <1>3, <1>5
     DEF CallFits, CertifyFits, SaveTokenFits, StepFits, DownloadFits, Carrying
<1>7. ExportTables' BY <1>1, <1>2, <1>4, Continued DEF ExportTables
<1>8. \A t \in ExportTaskIds :
        /\ exportRows'[t] # NoExport => packageRows'[t] # NoExport
        /\ packageRows'[t] # NoExport =>
             IntegrityVerified(packageRows'[t], packageRows'[t].events)
  BY <1>1 DEF RowsFit
<1>9. \A k \in DownloadTokens :
        tokens'[k] # tokens[k] => k = call.token /\ CopyLike(k, tokens'[k])
  BY <1>1, <1>2, <1>3 DEF ExportTables
<1>10. /\ call.at \notin Carrying /\ CopyLike(call.token, call.auth) BY <1>2, <1>3 DEF Carrying
<1>11. \A d \in ExportCalls \ {c} :
         /\ exportCall[d].at = "certify" => call.task # exportCall[d].task
         /\ exportCall[d].at = "saveToken" => call.token # exportCall[d].token
  BY <1>3, SameTargets DEF old
<1> QED BY <1>1, <1>4, <1>6, <1>7, <1>8, <1>9, <1>10, <1>11, MoveKeeps

LEMMA ConsumeKeeps ==
  ASSUME ExportInv, NEW c \in ExportCalls, ConsumeDownloadAuthorization(c)
  PROVE  ExportInv'
<1> DEFINE old == exportCall[c]
           call == [old EXCEPT !.at = "audit"]
<1>1. /\ old.at = "consume"
      /\ UNCHANGED <<ledger, archived, exportTasks, exportRows, packageRows, tokens,
                     issued, certified, served>>
      /\ ExportTables /\ RowsFit /\ StepFits(old)
  BY DEF ConsumeDownloadAuthorization, ExportInv, CallFits
<1>2. ledger' \in Seq(ExportProjects \cup {NoProject}) /\ archived' \in 0..Len(ledger')
  BY <1>1 DEF ExportTables
<1>3. CASE Finish(c) /\ UNCHANGED tokenRows BY <1>1, <1>2, <1>3, FinishKeeps
<1>4. CASE tokenRows' = [tokenRows EXCEPT ![old.token] = old.auth] /\ Continue(c, call)
  <2>1. /\ old \in ExportCallRecord /\ old.op = "download"
        /\ old.user \in ExportUsers /\ old.project \in ExportProjects
        /\ old.token \in issued /\ old.token \in DownloadTokens
        /\ tokenRows[old.token] # NoExport
        /\ old.auth \in DownloadAuthorizations /\ CopyLike(old.token, old.auth)
    BY <1>1, TokenHeld
  <2>2. /\ call.at = "audit" /\ call.op = old.op /\ call.user = old.user
        /\ call.project = old.project /\ call.task = old.task /\ call.token = old.token
        /\ call.auth = old.auth
    BY <2>1 DEF ExportCallRecord
  <2>3. call \in ExportCallRecord BY <2>1 DEF ExportCallRecord, CallSteps
  <2> HIDE DEF call, old
  <2>4. exportCall'[c] = call BY <1>1, <1>4, Continued
  <2>5. CallFits(c)' BY <1>1, <2>1, <2>2, <2>4
       DEF CallFits, CertifyFits, SaveTokenFits, StepFits, DownloadFits, Carrying
  <2>6. ExportTables' BY <1>1, <1>4, <2>1, <2>3, Continued DEF ExportTables
  <2>7. \A t \in ExportTaskIds :
          /\ exportRows'[t] # NoExport => packageRows'[t] # NoExport
          /\ packageRows'[t] # NoExport =>
               IntegrityVerified(packageRows'[t], packageRows'[t].events)
    BY <1>1 DEF RowsFit
  <2>8. \A k \in DownloadTokens :
          tokenRows'[k] # tokenRows[k] => /\ k = call.token /\ tokenRows[k] # NoExport
                                          /\ CopyLike(k, tokenRows'[k])
    BY <1>1, <1>4, <2>1, <2>2 DEF ExportTables
  <2>9. call.at \notin Carrying /\ CopyLike(call.token, call.auth) BY <2>1, <2>2 DEF Carrying
  <2>10. \A d \in ExportCalls \ {c} :
           /\ exportCall[d].at = "certify" => call.task # exportCall[d].task
           /\ exportCall[d].at = "saveToken" => call.token # exportCall[d].token
    BY <2>2, SameTargets DEF old
  <2> QED BY <1>1, <1>4, <2>3, <2>5, <2>6, <2>7, <2>8, <2>9, <2>10, MoveKeeps
<1> QED BY <1>3, <1>4 DEF ConsumeDownloadAuthorization

LEMMA SaveDownloadAuthorizationKeeps ==
  ASSUME ExportInv, NEW c \in ExportCalls, SaveDownloadAuthorization(c)
  PROVE  ExportInv'
<1> DEFINE old == exportCall[c]
           call == [old EXCEPT !.at = "audit"]
           k == old.token
<1>1. /\ old.at = "saveToken"
      /\ UNCHANGED <<ledger, archived, exportTasks, exportRows, packageRows, tokens,
                     issued, certified, served>>
      /\ ExportTables /\ RowsFit /\ CallFits(c) /\ old \in ExportCallRecord
  BY DEF SaveDownloadAuthorization, ExportInv, ExportTables
<1>2. ledger' \in Seq(ExportProjects \cup {NoProject}) /\ archived' \in 0..Len(ledger')
  BY <1>1 DEF ExportTables
<1>3. CASE Finish(c) /\ UNCHANGED tokenRows BY <1>1, <1>2, <1>3, FinishKeeps
<1>4. CASE /\ exportRows[old.task] # NoExport
           /\ tokenRows' = [tokenRows EXCEPT ![k] = old.auth]
           /\ Continue(c, call)
  <2>1. /\ old.op = "authorize" /\ k \in DownloadTokens
        /\ old.auth \in DownloadAuthorizations /\ old.auth.task = old.task
        /\ tokens[k] = old.auth /\ tokenRows[k] = NoExport
        /\ \A d \in ExportCalls \ {c} : exportCall[d].token # k
        /\ old.user \in ExportUsers /\ old.project \in ExportProjects
    BY <1>1 DEF CallFits, SaveTokenFits, StepFits
  <2>2. /\ call.at = "audit" /\ call.op = old.op /\ call.user = old.user
        /\ call.project = old.project /\ call.task = old.task /\ call.token = k
        /\ call.auth = old.auth
    BY <1>1 DEF ExportCallRecord
  <2>3. call \in ExportCallRecord BY <1>1 DEF ExportCallRecord, CallSteps
  <2> HIDE DEF call, k, old
  <2>4. exportCall'[c] = call /\ \A d \in ExportCalls \ {c} : exportCall'[d] = exportCall[d]
    BY <1>1, <1>4, Continued
  <2>5. old.auth # NoExport /\ tokenRows'[k] = old.auth
        /\ \A j \in DownloadTokens : j # k => tokenRows'[j] = tokenRows[j]
    BY <1>1, <1>4, <2>1, NoExportApart DEF ExportTables
  <2>6. CallFits(c)' BY <2>1, <2>2, <2>4, <2>5
       DEF CallFits, CertifyFits, SaveTokenFits, StepFits, DownloadFits, Carrying
  <2>7. ExportTables' BY <1>1, <1>4, <2>1, <2>3, Continued DEF ExportTables
  <2>8. \A t \in ExportTaskIds : /\ Versions(t)' \subseteq Versions(t)
                                 /\ OneOwner(t)'
                                 /\ \A r \in Versions(t)' : GoodVersion(t, r)'
    <3>1. call.at \notin Carrying BY <2>2 DEF Carrying
    <3> QED BY <1>1, <1>4, <3>1, VersionsStay
  <2>9. \A t \in ExportTaskIds : /\ Recorded(t) => Recorded(t)'
                                 /\ \A u, p : OwnedBy(t, u, p) => OwnedBy(t, u, p)'
    BY <1>1, <2>8, OwnersStay DEF Recorded
  <2>10. ASSUME NEW j \in DownloadTokens, NEW a \in Copies(j)' PROVE CopyFits(j, a)'
    <3>1. CASE j = k
      <4>1. \A d \in ExportCalls : exportCall'[d].token = k => exportCall'[d].auth = old.auth
        BY <2>1, <2>2, <2>4
      <4>2. a = old.auth BY <1>1, <2>1, <2>5, <3>1, <4>1, CopiesAre
      <4>3. old.auth \in Copies(k) BY <2>1, <2>5, CopiesAre
      <4>4. CopyFits(k, a) /\ a.task \in ExportTaskIds
        BY <2>1, <4>2, <4>3 DEF ExportInv, CopyFits, DownloadAuthorizations
      <4> QED BY <1>1, <2>5, <2>9, <3>1, <4>2, <4>4 DEF CopyFits
    <3>2. CASE j # k
      <4>1. a \in Copies(j) BY <1>1, <2>2, <2>4, <2>5, <3>2, CopiesAre
      <4>2. CopyFits(j, a) /\ a.task \in ExportTaskIds
        BY <4>1 DEF ExportInv, CopyFits, DownloadAuthorizations
      <4> QED BY <1>1, <2>5, <2>9, <3>2, <4>2 DEF CopyFits
    <3> QED BY <3>1, <3>2
  <2>11. ASSUME NEW j \in DownloadTokens
         PROVE  /\ tokenRows'[j] # NoExport => exportRows'[tokenRows'[j].task] # NoExport
                /\ tokenRows[j] # NoExport => tokenRows'[j] # NoExport
    BY <1>1, <1>4, <2>1, <2>5 DEF RowsFit
  <2>12. RowsFit'
    <3>1. \A t \in ExportTaskIds :
            /\ exportRows'[t] # NoExport => packageRows'[t] # NoExport
            /\ packageRows'[t] # NoExport =>
                 IntegrityVerified(packageRows'[t], packageRows'[t].events)
      BY <1>1 DEF RowsFit
    <3> QED BY <1>1, <2>9, <2>11, <3>1, RowsStay
  <2>13. \A d \in ExportCalls \ {c} : CallFits(d)'
    <3>1. \A d \in ExportCalls \ {c} :
            /\ exportCall[d].at = "certify" => call.task # exportCall[d].task
            /\ exportCall[d].at = "saveToken" => call.token # exportCall[d].token
      BY <2>2, SameTargets DEF k, old
    <3>2. \A j \in DownloadTokens :
            /\ j # exportCall[c].token /\ j # call.token =>
                 tokens'[j] = tokens[j] /\ tokenRows'[j] = tokenRows[j]
            /\ tokenRows[j] # NoExport => tokenRows'[j] # NoExport
      BY <1>1, <2>2, <2>5, <2>11
    <3> QED BY <1>1, <1>4, <3>1, <3>2, OthersFit
  <2> QED BY <2>6, <2>7, <2>8, <2>10, <2>12, <2>13 DEF ExportInv
<1>5. CASE exportRows[old.task] = NoExport /\ Finish(c) /\ UNCHANGED <<tokenRows, exportFaults>>
  BY <1>1, <1>2, <1>5, FinishKeeps
<1> QED BY <1>3, <1>4, <1>5 DEF SaveDownloadAuthorization


LEMMA ExportStepKeeps ==
  ASSUME ExportInv, NEW c \in ExportCalls, ExportStep(c)
  PROVE  ExportInv'
<1>1. CASE SaveEvidencePackage(c) BY <1>1, SaveEvidencePackageKeeps
<1>2. CASE SaveExportTask(c) BY <1>2, SaveExportTaskKeeps
<1>3. CASE AuditAndAnswer(c) BY <1>3, AuditAndAnswerKeeps
<1>4. CASE CertificationFails(c) BY <1>4, CertificationFailsKeeps
<1>5. CASE PackageCertified(c) BY <1>5, PackageCertifiedKeeps
<1>6. CASE TaskRowArrives(c) BY <1>6, TaskRowArrivesKeeps
<1>7. CASE AnchorRefreshed(c) BY <1>7, AnchorRefreshedKeeps
<1>8. CASE AnchorRefreshFails(c) BY <1>8, AnchorRefreshFailsKeeps
<1>9. CASE SaveFailedTask(c) BY <1>9, SaveFailedTaskKeeps
<1>10. CASE SaveDownloadAuthorization(c) BY <1>10, SaveDownloadAuthorizationKeeps
<1>11. CASE TokenRowArrives(c) BY <1>11, TokenRowArrivesKeeps
<1>12. CASE CheckToken(c) BY <1>12, CheckTokenKeeps
<1>13. CASE ConsumeDownloadAuthorization(c) BY <1>13, ConsumeKeeps
<1> QED BY <1>1, <1>2, <1>3, <1>4, <1>5, <1>6, <1>7, <1>8, <1>9, <1>10, <1>11, <1>12, <1>13
        DEF ExportStep

LEMMA ExportNextKeeps ==
  ASSUME ExportInv, [ExportNext]_exportVars
  PROVE  ExportInv'
<1>1. ASSUME NEW c \in ExportCalls, ExportStep(c) PROVE ExportInv' BY <1>1, ExportStepKeeps
<1>2. ASSUME NEW c \in ExportCalls, NEW u \in ExportUsers, NEW p \in ExportProjects,
             ExportEvidence(c, u, p)
      PROVE  ExportInv'
  BY <1>2, ExportEvidenceKeeps
<1>3. ASSUME NEW c \in ExportCalls, NEW u \in ExportUsers, NEW p \in ExportProjects,
             NEW t \in ExportTaskIds, NEW op \in {"refresh", "status", "authorize"},
             TaskRequest(c, op, u, p, t)
      PROVE  ExportInv'
  BY <1>3, TaskRequestKeeps
<1>4. ASSUME NEW c \in ExportCalls, NEW u \in ExportUsers, NEW p \in ExportProjects,
             NEW k \in DownloadTokens, DownloadExport(c, u, p, k)
      PROVE  ExportInv'
  BY <1>4, DownloadExportKeeps
<1>5. ASSUME NEW u \in ExportUsers, NEW p \in ExportProjects, ExportEvidenceDenied(u, p)
      PROVE  ExportInv'
  <2>1. AppendAudit(p) /\ UNCHANGED <<archived, exportTasks, exportRows, packageRows, tokens,
                                      tokenRows, exportCall, issued, certified, served>>
    BY <1>5 DEF ExportEvidenceDenied
  <2> QED BY <2>1, AppendTyped, SurroundingsKeep
<1>6. CASE OtherAuditEvent
  <2>1. PICK p \in ExportProjects \cup {NoProject} : AppendAudit(p) BY <1>6 DEF OtherAuditEvent
  <2>2. UNCHANGED <<archived, exportTasks, exportRows, packageRows, tokens,
                    tokenRows, exportCall, issued, certified, served>>
    BY <1>6 DEF OtherAuditEvent
  <2> QED BY <2>1, <2>2, AppendTyped, SurroundingsKeep
<1>7. CASE ArchiveAuditEvents
  <2>1. UNCHANGED <<ledger, exportTasks, exportRows, packageRows, tokens,
                    tokenRows, exportCall, issued, certified, served>>
    BY <1>7 DEF ArchiveAuditEvents
  <2>2. ledger' \in Seq(ExportProjects \cup {NoProject}) BY <2>1 DEF ExportInv, ExportTables
  <2> QED BY <1>7, <2>1, <2>2, ArchiveTyped, SurroundingsKeep
<1>8. ASSUME UNCHANGED <<ledger, archived, exportTasks, exportRows, packageRows, tokens,
                         tokenRows, exportCall, issued, certified, served>>
      PROVE  ExportInv'
  <2>1. ledger' \in Seq(ExportProjects \cup {NoProject}) /\ archived' \in 0..Len(ledger')
    BY <1>8 DEF ExportInv, ExportTables
  <2> QED BY <1>8, <2>1, SurroundingsKeep
<1>9. ASSUME NEW k \in DownloadTokens, TokenExpires(k) PROVE ExportInv' BY <1>8, <1>9 DEF TokenExpires
<1>10. CASE ExportRestart BY <1>10, ExportRestartKeeps
<1>11. CASE UNCHANGED exportVars BY <1>8, <1>11 DEF exportVars
<1> QED BY <1>1, <1>2, <1>3, <1>4, <1>5, <1>6, <1>7, <1>9, <1>10, <1>11 DEF ExportNext

\* Every version of an export task that phase5.rs keeps in its map, in the table or in the
\* hands of a request is consistent, has one owner and says completed only with a confirmed
\* anchor; every copy of a download token is for a completed task and its owner.
THEOREM ExportInvHolds == ExportSpec => []ExportInv
BY ExportInitHolds, ExportNextKeeps, PTL DEF ExportSpec

LEMMA InvExportsSound == ExportInv => ExportsSound
<1> SUFFICES ASSUME ExportInv PROVE ExportsSound OBVIOUS
<1>1. ExportTables /\ RowsFit BY DEF ExportInv
<1>2. EvidenceTypeOK
  <2>1. ASSUME NEW c \in ExportCalls
        PROVE  /\ exportCall[c].at \in {"savePackage", "saveTask", "saveFailed", "refresh"}
                    => exportCall[c].found.user \in ExportUsers
               /\ exportCall[c].at = "consume" => exportCall[c].auth.consumed
    <3>1. StepFits(exportCall[c]) BY DEF ExportInv, CallFits
    <3> QED BY <3>1 DEF StepFits, Carrying, ExportTaskRecords
  <2> QED BY <1>1, <2>1 DEF EvidenceTypeOK, ExportTables, RowsFit
<1>3. ASSUME NEW task \in KnownTasks PROVE SoundVersion(task)
  <2>1. PICK t \in ExportTaskIds : task \in {exportTasks[t], exportRows[t]} \ {NoExport} BY DEF KnownTasks
  <2>2. task \in Versions(t) BY <2>1 DEF Versions
  <2> QED BY <2>2 DEF ExportInv, GoodVersion
<1>4. PackagesConsistent
  <2> SUFFICES ASSUME NEW package \in {task.package : task \in KnownTasks}
                        \cup ({packageRows[t] : t \in ExportTaskIds} \ {NoExport})
               PROVE  IntegrityVerified(package, package.events)
    BY DEF PackagesConsistent
  <2>1. CASE package \in {task.package : task \in KnownTasks} BY <1>3, <2>1 DEF SoundVersion
  <2>2. CASE package \in {packageRows[t] : t \in ExportTaskIds} \ {NoExport} BY <1>1, <2>2 DEF RowsFit
  <2> QED BY <2>1, <2>2
<1>5. CompletedMeansAnchored BY <1>3 DEF CompletedMeansAnchored, SoundVersion
<1>6. DownloadsAuthorised
  <2> SUFFICES ASSUME NEW d \in served
               PROVE  /\ d.task \in certified
                      /\ exportRows[d.task].user = d.user
                      /\ exportRows[d.task].project = d.project
    BY DEF DownloadsAuthorised
  <2>1. /\ d.task \in certified /\ exportRows[d.task] # NoExport
        /\ OwnedBy(d.task, d.user, d.project)
    BY <1>1 DEF RowsFit
  <2>2. exportRows[d.task] \in Versions(d.task) BY <2>1 DEF Versions
  <2> QED BY <2>1, <2>2 DEF OwnedBy
<1> QED BY <1>2, <1>4, <1>5, <1>6 DEF ExportsSound

\* Evidence can be relied on, for any number of requests, users, tasks and tokens, failures
\* and restarts: packages stay consistent through every refresh of phase5.rs, a completed
\* export has a confirmed anchor, and what was downloaded had been completed and went to
\* the user and project it was exported for.
THEOREM ExportsSoundHolds == ExportSpec => []ExportsSound
BY ExportInvHolds, InvExportsSound, PTL
=============================================================================
