--------------------------- MODULE AuditTrailProofs ---------------------------
(***************************************************************************)
(* Proofs that no event that reached the store is lost before its          *)
(* retention deadline, and that the audit trail can be believed, for any   *)
(* number of requests, events, days, failed statements and restarts, and   *)
(* any retention periods.                                                  *)
(*                                                                         *)
(* KeptUntilDeadline speaks of the store and the archive files only.  What *)
(* makes it inductive is what a retention run knows: from the insert of    *)
(* its bundle to the deletion of the rows the bundle's file is there       *)
(* (Bundled), it holds every row that is about to be deleted, and no       *)
(* bundle expires before the last of its events does (BundlesKeep).        *)
(*                                                                         *)
(* ChainIntact needs the chain, the rows and the run in step (IntactInv):  *)
(* the trail in memory is numbered from its anchor (Chained), the plan of  *)
(* a run is where it begins (PlanIsPrefix), and the rows are the trail     *)
(* without what a run has deleted and what requests have still to insert   *)
(* (StoreFollows).                                                         *)
(***************************************************************************)
EXTENDS AuditTrail, TLAPS, FiniteSetTheorems

----
(* The inductive invariant. *)

RunSteps == {"idle", "file", "bundle", "deactivate", "boundary", "events",
             "checkpoints", "memory", "replica", "cleanup", "release"}

\* The steps at which a run holds its plan.
Archiving == {"file", "bundle", "deactivate", "boundary", "events", "checkpoints", "memory"}

Trails == [anchor : SUBSET Checkpoint, events : Seq(Event), checkpoints : Seq(Checkpoint)]

Plans == [id : Nat, anchor : 0..MaxEvents, boundary : Checkpoint, events : Seq(Event),
          until : Nat, checkpoints : Seq(Checkpoint)]

Archives == [id : Nat, events : SUBSET Event, until : Nat, file : BOOLEAN, row : BOOLEAN]

AppendRecord ==
  [pc : {"idle", "deleting", "event", "checkpoint", "replica", "spawn", "seal"},
   op : {"request", "delete", "purge"}, before : 0..MaxEvents,
   event : SUBSET Event, checkpoint : SUBSET Checkpoint, copy : Trails]

ClockOK ==
  /\ auditDay \in 0..MaxAuditDays /\ auditCount \in 0..MaxEvents
  /\ auditSlot \in 0..(auditCount + auditDay)

StoreOK ==
  /\ trail \in Trails
  /\ hotEvents \subseteq Event /\ IsFiniteSet(hotEvents) /\ inserted \subseteq Event
  /\ hotChecks \subseteq Checkpoint /\ IsFiniteSet(hotChecks)
  /\ boundaries \subseteq [checkpoint : Checkpoint, active : BOOLEAN]
  /\ bundles \subseteq Archives /\ IsFiniteSet(bundles)

AppendOK(r) == r \in AppendRecord /\ IsFiniteSet(r.event) /\ IsFiniteSet(r.checkpoint)

AppendsOK == /\ appends \in [Writers -> AppendRecord]
             /\ \A w \in Writers : AppendOK(appends[w])

\* The deadline of every event comes at the time given, or before.
Expires(events, until) == \A e \in events : RetentionDeadline(e) <= until

RunOK ==
  /\ retention \in [pc : RunSteps, day : Nat, bundle : SUBSET (Plans \cup Trails)]
  /\ retention.day <= auditDay
  /\ retention.pc \in Archiving
       => \E p \in retention.bundle : /\ p \in Plans /\ retention.bundle = {p}
                                       /\ Expires(Range(p.events), p.until)
  /\ retention.pc = "replica" => \E t \in retention.bundle : t \in Trails /\ retention.bundle = {t}

BundlesKeep == \A b \in bundles : Expires(b.events, b.until)

Bundled == retention.pc \in {"deactivate", "boundary", "events"} => Stored(Planned, TRUE) \in bundles

AuditInv == ClockOK /\ StoreOK /\ AppendsOK /\ RunOK /\ BundlesKeep /\ Bundled /\ KeptUntilDeadline

----
(* Least and greatest numbers. *)

LEMMA NatMin ==
  ASSUME NEW S, S \subseteq Nat, S # {}
  PROVE  \E x \in S : \A y \in S : x <= y
<1>1. PICK x \in S : \A y \in S : ~ (<<y, x>> \in OpToRel(<, Nat)) BY NatLessThanWellFounded, WFMin
<1>2. \A y \in S : <<y, x>>[1] = y /\ <<y, x>>[2] = x /\ <<y, x>> \in Nat \X Nat OBVIOUS
<1>3. ASSUME NEW y \in S, y < x PROVE FALSE
  <2>1. <<y, x>> \in OpToRel(<, Nat) BY <1>2, <1>3 DEF OpToRel
  <2> QED BY <1>1, <2>1
<1> QED BY <1>3

LEMMA MaxOfBounded ==
  ASSUME NEW N \in Nat, NEW S, S \subseteq 0..N, S # {}
  PROVE  Max(S) \in S /\ \A s \in S : Max(S) >= s
<1> DEFINE T == {N - s : s \in S}
<1>1. T \subseteq Nat /\ T # {}
  <2>1. \A s \in S : N - s \in Nat OBVIOUS
  <2> QED BY <2>1
<1> HIDE DEF T
<1>2. PICK x \in T : \A y \in T : x <= y BY <1>1, NatMin
<1> USE DEF T
<1>3. \E s \in S : \A r \in S : s >= r
  <2>1. PICK s \in S : x = N - s BY <1>2
  <2>2. ASSUME NEW r \in S PROVE s >= r
    <3>1. N - r \in T OBVIOUS
    <3> HIDE DEF T
    <3>2. x <= N - r BY <3>1, <1>2
    <3> QED BY <3>2, <2>1
  <2> QED BY <2>2
<1> QED BY <1>3 DEF Max

LEMMA MinOfNat ==
  ASSUME NEW S, S \subseteq Nat, S # {}
  PROVE  Min(S) \in S
<1>1. \E x \in S : \A y \in S : x <= y BY NatMin
<1> QED BY <1>1 DEF Min

LEMMA MaxOfTwo ==
  ASSUME NEW x \in Int
  PROVE  Max({0, x}) \in Nat /\ x <= Max({0, x})
<1>1. \E m \in {0, x} : \A y \in {0, x} : m >= y
  <2>1. CASE x >= 0 BY <2>1
  <2>2. CASE x < 0 BY <2>2
  <2> QED BY <2>1, <2>2
<1>2. Max({0, x}) \in {0, x} /\ \A y \in {0, x} : Max({0, x}) >= y BY <1>1 DEF Max
<1> QED BY <1>2

LEMMA MinOfTwo ==
  ASSUME NEW x \in Nat, NEW y \in Nat
  PROVE  Min({x, y}) \in Nat
<1>1. Min({x, y}) \in {x, y} BY MinOfNat
<1> QED BY <1>1

----
(* Operators of the chain and of an archive. *)

LEMMA EmptyTyped == EmptyTrail \in Trails
  BY DEF EmptyTrail, Trails

LEMMA TrailParts ==
  ASSUME NEW t \in Trails
  PROVE  /\ t.anchor \subseteq Checkpoint /\ t.events \in Seq(Event)
         /\ t.checkpoints \in Seq(Checkpoint)
  BY DEF Trails

LEMMA OffsetTyped ==
  ASSUME NEW t \in Trails
  PROVE  Offset(t) \in Nat /\ AnchorHash(t) \in 0..MaxEvents /\ LatestEventHash(t) \in 0..MaxEvents
<1>1. MaxEvents \in Nat BY AuditAssumption
<1>2. ASSUME t.anchor # {} PROVE (CHOOSE c \in t.anchor : TRUE) \in Checkpoint BY <1>2, TrailParts
<1>3. \A c \in Checkpoint : c.count \in Nat /\ c.last \in 0..MaxEvents BY <1>1 DEF Checkpoint
<1>4. Offset(t) \in Nat /\ AnchorHash(t) \in 0..MaxEvents
  BY <1>1, <1>2, <1>3 DEF Offset, AnchorHash, Genesis
<1>5. t.events # <<>> => Last(t.events) \in Event BY TrailParts DEF Last
<1>6. \A e \in Event : e.id \in 0..MaxEvents BY <1>1 DEF Event
<1> QED BY <1>4, <1>5, <1>6 DEF LatestEventHash

LEMMA AppendTyped ==
  ASSUME NEW t \in Trails, NEW e \in Event
  PROVE  /\ AppendWithSigner(t, e) \in Trails
         /\ Last(AppendWithSigner(t, e).checkpoints) \in Checkpoint
<1> DEFINE events == Append(t.events, e)
           c == [count |-> Offset(t) + Len(events), last |-> e.id, day |-> e.day, slot |-> e.slot]
<1>1. events \in Seq(Event) /\ Len(events) \in Nat \ {0} BY TrailParts
<1>2. Offset(t) \in Nat BY OffsetTyped
<1>3. /\ e.id \in 1..MaxEvents /\ e.day \in 0..MaxAuditDays
      /\ e.slot \in 0..(MaxEvents + MaxAuditDays)
  BY DEF Event
<1> HIDE DEF events
<1>4. c \in Checkpoint BY <1>1, <1>2, <1>3 DEF Checkpoint
<1> HIDE DEF c
<1>5. Append(t.checkpoints, c) \in Seq(Checkpoint) /\ Last(Append(t.checkpoints, c)) = c
  BY <1>4, TrailParts DEF Last
<1>6. AppendWithSigner(t, e) = [t EXCEPT !.events = events, !.checkpoints = Append(@, c)]
  BY DEF AppendWithSigner, c, events
<1> QED BY <1>1, <1>4, <1>5, <1>6 DEF Trails

LEMMA ArchivedTyped ==
  ASSUME NEW t \in Trails, NEW b \in Checkpoint
  PROVE  /\ ArchivedEvents(t, b) \in Nat /\ b.count - Offset(t) <= ArchivedEvents(t, b)
         /\ ArchivedChecks(t, b) \in 0..Len(t.checkpoints)
<1>1. b.count \in Nat /\ Offset(t) \in Nat BY OffsetTyped DEF Checkpoint
<1>2. ArchivedEvents(t, b) \in Nat /\ b.count - Offset(t) <= ArchivedEvents(t, b)
  BY <1>1, MaxOfTwo DEF ArchivedEvents
<1> DEFINE later == {i \in 1..Len(t.checkpoints) : t.checkpoints[i].count > b.count}
<1>3. Len(t.checkpoints) \in Nat BY TrailParts
<1>4. later # {} => Min(later) \in later
  <2>1. later \subseteq Nat BY <1>3
  <2> HIDE DEF later
  <2> QED BY <2>1, MinOfNat
<1>5. ArchivedChecks(t, b) = IF later = {} THEN Len(t.checkpoints) ELSE Min(later) - 1
  BY DEF ArchivedChecks
<1>6. later # {} => Min(later) \in 1..Len(t.checkpoints) BY <1>4
<1> HIDE DEF later
<1> QED BY <1>2, <1>3, <1>5, <1>6

\* A stretch of a sequence.
LEMMA SubSeqTyped ==
  ASSUME NEW S, NEW s \in Seq(S), NEW m \in Nat \ {0}, NEW n \in Nat, n <= Len(s)
  PROVE  SubSeq(s, m, n) \in Seq(S)
<1>1. \A i \in m..n : s[i] \in S OBVIOUS
<1> QED BY <1>1

LEMMA ArchiveBoundaryTyped ==
  ASSUME NEW t \in Trails, NEW b \in Checkpoint
  PROVE  ApplyArchiveBoundary(t, b) \in Trails
<1> DEFINE n == Min({ArchivedEvents(t, b), Len(t.events)})
           m == ArchivedChecks(t, b)
<1>1. t.events \in Seq(Event) /\ t.checkpoints \in Seq(Checkpoint) BY TrailParts
<1>2. n \in Nat /\ m \in Nat
  <2>1. ArchivedEvents(t, b) \in Nat /\ m \in 0..Len(t.checkpoints) BY ArchivedTyped
  <2>2. Len(t.events) \in Nat /\ Len(t.checkpoints) \in Nat BY <1>1
  <2>3. n \in Nat BY <2>1, <2>2, MinOfTwo
  <2> HIDE DEF m, n
  <2> QED BY <2>1, <2>2, <2>3
<1> HIDE DEF n, m
<1>3. /\ SubSeq(t.events, n + 1, Len(t.events)) \in Seq(Event)
      /\ SubSeq(t.checkpoints, m + 1, Len(t.checkpoints)) \in Seq(Checkpoint)
  BY <1>1, <1>2, SubSeqTyped
<1>4. ApplyArchiveBoundary(t, b) =
        [anchor |-> {b}, events |-> SubSeq(t.events, n + 1, Len(t.events)),
         checkpoints |-> SubSeq(t.checkpoints, m + 1, Len(t.checkpoints))]
  BY DEF ApplyArchiveBoundary, n, m
<1> QED BY <1>3, <1>4 DEF Trails

LEMMA DeadlineTyped ==
  /\ \A e \in Event : RetentionDeadline(e) \in Nat
  /\ \E N \in Nat : \A e \in Event : RetentionDeadline(e) \in 0..N
<1> DEFINE D == RetentionDays
           N == MaxAuditDays + D["AccessLog"] + D["PermissionLifecycle"] + D["Evidence"]
                  + D["SystemManagement"]
<1>1. /\ D["AccessLog"] \in Nat /\ D["PermissionLifecycle"] \in Nat /\ D["Evidence"] \in Nat
      /\ D["SystemManagement"] \in Nat /\ MaxAuditDays \in Nat
  BY AuditAssumption DEF Categories
<1>2. \A e \in Event : e.day \in 0..MaxAuditDays BY DEF Event
<1>3. \A e \in Event : RetentionCategory(e.kind) \in
                         {"AccessLog", "PermissionLifecycle", "Evidence", "SystemManagement"}
  BY DEF RetentionCategory
<1>4. N \in Nat BY <1>1
<1>5. ASSUME NEW e \in Event PROVE RetentionDeadline(e) \in 0..N
  <2>1. /\ RetentionDeadline(e) = e.day + D[RetentionCategory(e.kind)] /\ e.day \in 0..MaxAuditDays
    BY <1>2 DEF RetentionDeadline
  <2>2. \/ D[RetentionCategory(e.kind)] = D["AccessLog"]
        \/ D[RetentionCategory(e.kind)] = D["PermissionLifecycle"]
        \/ D[RetentionCategory(e.kind)] = D["Evidence"]
        \/ D[RetentionCategory(e.kind)] = D["SystemManagement"]
    BY <1>3
  <2> HIDE DEF D
  <2> QED BY <1>1, <2>1, <2>2
<1> HIDE DEF N
<1> QED BY <1>4, <1>5

LEMMA UntilCovers ==
  ASSUME NEW E, E \subseteq Event, E # {}
  PROVE  RetainUntil(E) \in Nat /\ Expires(E, RetainUntil(E))
<1> DEFINE S == {RetentionDeadline(e) : e \in E}
<1>1. PICK N \in Nat : \A e \in Event : RetentionDeadline(e) \in 0..N BY DeadlineTyped
<1>2. S \subseteq 0..N /\ S # {} BY <1>1
<1>3. \A e \in E : RetentionDeadline(e) \in S OBVIOUS
<1> HIDE DEF S
<1>4. Max(S) \in S /\ \A s \in S : Max(S) >= s BY <1>2, MaxOfBounded
<1>5. Max(S) \in Nat /\ \A e \in E : RetentionDeadline(e) <= Max(S)
  <2>1. \A s \in S : s \in Nat BY <1>2
  <2>2. Max(S) \in Nat BY <2>1, <1>4
  <2>3. ASSUME NEW e \in E PROVE RetentionDeadline(e) <= Max(S)
    <3>1. RetentionDeadline(e) \in Nat /\ Max(S) >= RetentionDeadline(e) BY <2>1, <1>3, <1>4
    <3> QED BY <2>2, <3>1
  <2> QED BY <2>2, <2>3
<1>6. RetainUntil(E) = Max(S) BY DEF RetainUntil, S
<1> QED BY <1>5, <1>6 DEF Expires

LEMMA RangeTyped ==
  ASSUME NEW S, NEW s \in Seq(S)
  PROVE  Range(s) \subseteq S /\ (s # <<>> => Range(s) # {})
  BY DEF Range

\* The plan of a run, if it has one.
LEMMA PlanTyped ==
  ASSUME ClockOK, StoreOK
  PROVE  \/ BuildArchivePlan(trail, auditDay) = {}
         \/ \E p \in Plans : /\ BuildArchivePlan(trail, auditDay) = {p}
                             /\ Expires(Range(p.events), p.until)
<1> DEFINE candidates == BoundaryCandidates(trail, auditDay)
           boundary == trail.checkpoints[Max(candidates)]
           n == ArchivedEvents(trail, boundary)
           m == ArchivedChecks(trail, boundary)
           events == SubSeq(trail.events, 1, n)
           p == [id |-> Cardinality(bundles) + 1, anchor |-> AnchorHash(trail),
                 boundary |-> boundary, events |-> events, until |-> RetainUntil(Range(events)),
                 checkpoints |-> SubSeq(trail.checkpoints, 1, m)]
<1>1. /\ trail \in Trails /\ trail.events \in Seq(Event) /\ trail.checkpoints \in Seq(Checkpoint)
  BY TrailParts DEF StoreOK
<1> SUFFICES ASSUME candidates # {}, trail.events # <<>>, n <= Len(trail.events),
                    BuildArchivePlan(trail, auditDay) = {p}
             PROVE  p \in Plans /\ Expires(Range(p.events), p.until)
  <2>1. candidates = {} \/ trail.events = <<>> \/ n > Len(trail.events)
          => BuildArchivePlan(trail, auditDay) = {}
    BY DEF BuildArchivePlan
  <2>2. ~(candidates = {} \/ trail.events = <<>>) /\ ~(n > Len(trail.events))
          => BuildArchivePlan(trail, auditDay) = {p}
    BY DEF BuildArchivePlan
  <2>3. candidates # {} => n \in Nat
    <3>1. candidates # {} => Max(candidates) \in DOMAIN trail.checkpoints
      <4>1. candidates \subseteq 0..Len(trail.checkpoints) BY <1>1 DEF BoundaryCandidates
      <4>2. candidates # {} => Max(candidates) \in candidates BY <1>1, <4>1, MaxOfBounded
      <4> QED BY <4>2 DEF BoundaryCandidates
    <3>2. candidates # {} => boundary \in Checkpoint BY <1>1, <3>1
    <3> HIDE DEF boundary, candidates
    <3> QED BY <1>1, <3>2, ArchivedTyped
  <2>4. Len(trail.events) \in Nat BY <1>1
  <2> HIDE DEF candidates, n, p
  <2> QED BY <2>1, <2>2, <2>3, <2>4
<1>2. Max(candidates) \in candidates
  <2>1. candidates \subseteq 0..Len(trail.checkpoints) BY <1>1 DEF BoundaryCandidates
  <2> QED BY <1>1, <2>1, MaxOfBounded
<1>3. boundary \in Checkpoint /\ boundary.count > Offset(trail)
  <2>1. /\ Max(candidates) \in DOMAIN trail.checkpoints
        /\ trail.checkpoints[Max(candidates)].count > Offset(trail)
    BY <1>2 DEF BoundaryCandidates
  <2> HIDE DEF candidates
  <2> QED BY <1>1, <2>1
<1>4. n \in Nat /\ n >= 1 /\ m \in 0..Len(trail.checkpoints)
  <2>1. boundary.count \in Nat /\ Offset(trail) \in Nat BY <1>1, <1>3, OffsetTyped DEF Checkpoint
  <2>2. n \in Nat /\ boundary.count - Offset(trail) <= n /\ m \in 0..Len(trail.checkpoints)
    BY <1>1, <1>3, ArchivedTyped
  <2> HIDE DEF boundary, n, m
  <2> QED BY <1>3, <2>1, <2>2
<1> HIDE DEF n, m, boundary, candidates
<1>5. events \in Seq(Event) /\ events # <<>> BY <1>1, <1>4
<1>6. SubSeq(trail.checkpoints, 1, m) \in Seq(Checkpoint) BY <1>1, <1>4, SubSeqTyped
<1> HIDE DEF events
<1>7. RetainUntil(Range(events)) \in Nat /\ Expires(Range(events), RetainUntil(Range(events)))
  BY <1>5, RangeTyped, UntilCovers
<1>8. Cardinality(bundles) + 1 \in Nat BY FS_CardinalityType DEF StoreOK
<1>9. AnchorHash(trail) \in 0..MaxEvents BY <1>1, OffsetTyped
<1> QED BY <1>3, <1>5, <1>6, <1>7, <1>8, <1>9 DEF Plans

LEMMA StoredTyped ==
  ASSUME NEW p \in Plans, NEW row \in BOOLEAN
  PROVE  /\ Stored(p, row) \in Archives /\ Stored(p, row).file = TRUE
         /\ Stored(p, row).events = Range(p.events) /\ Stored(p, row).until = p.until
<1>1. p.id \in Nat /\ p.until \in Nat /\ Range(p.events) \subseteq Event BY RangeTyped DEF Plans
<1> QED BY <1>1 DEF Stored, Archives

----
(* What the steps share. *)

\* An event stays kept while rows and archive files are only added, or a file
\* gives way to one with the same events.
LEMMA KeptGrows ==
  ASSUME KeptUntilDeadline, ClockOK, StoreOK, hotEvents \subseteq hotEvents',
         inserted' \subseteq inserted \cup hotEvents', auditDay' \in Nat, auditDay <= auditDay',
         \A b \in bundles : b.file => \E c \in bundles' : c.file /\ c.events = b.events
  PROVE  KeptUntilDeadline'
<1> SUFFICES ASSUME NEW e \in inserted', auditDay' < RetentionDeadline(e)
             PROVE  e \in hotEvents' \cup UNION {b.events : b \in {x \in bundles' : x.file}}
  BY DEF KeptUntilDeadline, RetentionDeadline
<1>1. CASE e \in hotEvents' BY <1>1
<1>2. CASE e \in inserted
  <2>1. e \in Event /\ RetentionDeadline(e) \in Nat BY <1>2, DeadlineTyped DEF StoreOK
  <2>2. auditDay < RetentionDeadline(e) BY <2>1 DEF ClockOK
  <2>3. e \in hotEvents \/ \E b \in bundles : b.file /\ e \in b.events BY <1>2, <2>2 DEF KeptUntilDeadline
  <2>4. e \in hotEvents' \/ \E c \in bundles' : c.file /\ e \in c.events BY <2>3
  <2> QED BY <2>4
<1> QED BY <1>1, <1>2

LEMMA BundledStays ==
  ASSUME Bundled, UNCHANGED <<retention, bundles>>
  PROVE  Bundled'
<1>1. Planned' = Planned BY DEF Planned
<1> QED BY <1>1 DEF Bundled

\* A step that leaves the store and the retention run alone.
LEMMA StoreAlone ==
  ASSUME AuditInv, UNCHANGED <<storeVars, retention, inserted>>, ClockOK', auditDay <= auditDay',
         AppendsOK', trail' \in Trails
  PROVE  AuditInv'
<1>1. auditDay' \in Nat /\ auditDay \in Nat /\ retention.day \in Nat BY DEF AuditInv, ClockOK, RunOK
<1>2. StoreOK' /\ BundlesKeep' /\ Bundled'
  <2>1. StoreOK' /\ BundlesKeep' BY DEF AuditInv, StoreOK, BundlesKeep, storeVars
  <2> QED BY <2>1, BundledStays DEF AuditInv, storeVars
<1>3. RunOK'
  <2>1. retention'.day <= auditDay' BY <1>1 DEF AuditInv, RunOK
  <2> QED BY <2>1 DEF AuditInv, RunOK
<1>4. KeptUntilDeadline' BY <1>1, KeptGrows DEF AuditInv, storeVars
<1> QED BY <1>2, <1>3, <1>4 DEF AuditInv

LEMMA AppendsUpdate ==
  ASSUME AppendsOK, NEW w \in Writers, NEW r, AppendOK(r), appends' = [appends EXCEPT ![w] = r]
  PROVE  AppendsOK'
<1>1. r \in AppendRecord BY DEF AppendOK
<1>2. appends' \in [Writers -> AppendRecord] BY <1>1 DEF AppendsOK
<1>3. \A v \in Writers : appends'[v] = IF v = w THEN r ELSE appends[v] BY DEF AppendsOK
<1>4. \A v \in Writers : AppendOK(appends'[v]) BY <1>3 DEF AppendsOK
<1> QED BY <1>2, <1>4 DEF AppendsOK

LEMMA AppendMoves ==
  ASSUME NEW r, AppendOK(r),
         NEW pc \in {"idle", "deleting", "event", "checkpoint", "replica", "spawn", "seal"}
  PROVE  AppendOK([r EXCEPT !.pc = pc])
  BY DEF AppendOK, AppendRecord

LEMMA IdleAppend == AppendOK(NoAppend)
<1>1. {} \in SUBSET Event /\ {} \in SUBSET Checkpoint /\ IsFiniteSet({}) BY FS_EmptySet
<1>2. Genesis \in 0..MaxEvents BY AuditAssumption DEF Genesis
<1> QED BY <1>1, <1>2, EmptyTyped DEF AppendOK, AppendRecord, NoAppend

\* While a run archives, what it holds is its plan.
LEMMA PlannedOK ==
  ASSUME RunOK, retention.pc \in Archiving
  PROVE  /\ Planned \in Plans /\ retention.bundle = {Planned}
         /\ Expires(Range(Planned.events), Planned.until)
<1>1. PICK p \in Plans : retention.bundle = {p} /\ Expires(Range(p.events), p.until) BY DEF RunOK
<1>2. Planned = p BY <1>1 DEF Planned
<1> QED BY <1>1, <1>2

\* A run goes on with the bundle it holds, or with none it needs.
LEMMA GoesOn ==
  ASSUME RunOK, NEW pc \in RunSteps, GoesTo(pc), UNCHANGED auditDay, pc # "replica",
         pc \in Archiving => retention.pc \in Archiving
  PROVE  RunOK' /\ Planned' = Planned /\ retention'.pc = pc
<1>1. /\ retention'.pc = pc /\ retention'.day = retention.day
      /\ retention'.bundle = retention.bundle
      /\ retention' \in [pc : RunSteps, day : Nat, bundle : SUBSET (Plans \cup Trails)]
  BY DEF GoesTo, RunOK
<1>2. retention'.pc \in Archiving
        => \E p \in retention.bundle : /\ p \in Plans /\ retention.bundle = {p}
                                       /\ Expires(Range(p.events), p.until)
  BY <1>1 DEF RunOK
<1>3. RunOK' BY <1>1, <1>2 DEF RunOK
<1> QED BY <1>1, <1>3 DEF Planned

----
(* An append, a deletion, a delivery. *)

LEMMA RecordKeeps ==
  ASSUME AuditInv, NEW w \in Writers, NEW kind \in AuditKinds, RecordAuditEvent(w, kind)
  PROVE  AuditInv'
<1> DEFINE e == NewEvent(kind, auditSlot')
           r == [appends[w] EXCEPT !.pc = "event", !.event = {e},
                                   !.checkpoint = {Last(trail'.checkpoints)}, !.copy = trail']
<1>1. /\ trail \in Trails /\ ClockOK /\ AppendsOK BY DEF AuditInv, StoreOK
<1>2. /\ trail' = AppendWithSigner(trail, e) /\ appends' = [appends EXCEPT ![w] = r]
      /\ UNCHANGED <<storeVars, retention, inserted, auditDay>>
      /\ auditCount' = auditCount + 1 /\ auditCount < MaxEvents
      /\ auditSlot' = auditSlot \/ auditSlot' = auditSlot + 1
  BY DEF RecordAuditEvent
<1>3. /\ auditDay \in Nat /\ auditDay <= MaxAuditDays /\ auditCount \in Nat /\ auditSlot \in Nat
      /\ auditSlot <= auditCount + auditDay /\ MaxEvents \in Nat /\ MaxAuditDays \in Nat
  BY <1>1, AuditAssumption DEF ClockOK
<1>4. ClockOK' BY <1>2, <1>3 DEF ClockOK
<1>5. e \in Event
  <2>1. /\ auditCount + 1 \in 1..MaxEvents /\ auditDay \in 0..MaxAuditDays
        /\ auditSlot' \in 0..(MaxEvents + MaxAuditDays)
    BY <1>2, <1>3
  <2>2. LatestEventHash(trail) \in 0..MaxEvents BY <1>1, OffsetTyped
  <2> QED BY <2>1, <2>2 DEF Event, NewEvent
<1> HIDE DEF e
<1>6. trail' \in Trails /\ Last(trail'.checkpoints) \in Checkpoint BY <1>1, <1>2, <1>5, AppendTyped
<1>7. IsFiniteSet({e}) /\ IsFiniteSet({Last(trail'.checkpoints)}) BY FS_Singleton
<1>8. AppendOK(r)
  <2>1. appends[w] \in AppendRecord BY <1>1 DEF AppendsOK
  <2> QED BY <1>5, <1>6, <1>7, <2>1 DEF AppendOK, AppendRecord
<1> HIDE DEF r
<1>9. AppendsOK' BY <1>1, <1>2, <1>8, AppendsUpdate
<1>10. auditDay <= auditDay' BY <1>2, <1>3
<1> QED BY <1>2, <1>4, <1>6, <1>9, <1>10, StoreAlone

LEMMA PersistKeeps ==
  ASSUME AuditInv, NEW w \in Writers, PersistAuditAppend(w)
  PROVE  AuditInv'
<1>1. ClockOK /\ StoreOK /\ AppendsOK /\ RunOK /\ BundlesKeep /\ Bundled /\ KeptUntilDeadline
  BY DEF AuditInv
<1>2. UNCHANGED <<trail, boundaries, bundles, retention, auditDay, auditSlot, auditCount>>
  BY DEF PersistAuditAppend, clockVars
<1>3. ClockOK' /\ RunOK' /\ BundlesKeep' /\ Bundled'
  <2>1. ClockOK' /\ RunOK' /\ BundlesKeep' BY <1>1, <1>2 DEF ClockOK, RunOK, BundlesKeep
  <2> QED BY <1>1, <1>2, <2>1, BundledStays
<1>4. \E pc \in {"checkpoint", "replica", "spawn"} : appends' = [appends EXCEPT ![w].pc = pc]
  BY DEF PersistAuditAppend, InsertAuditEvent, InsertAuditCheckpoint, WriteReplicaFile
<1>5. AppendOK(appends[w]) BY <1>1 DEF AppendsOK
<1>6. AppendsOK'
  <2>1. PICK pc \in {"checkpoint", "replica", "spawn"} :
               appends' = [appends EXCEPT ![w] = [appends[w] EXCEPT !.pc = pc]]
    BY <1>4
  <2>2. AppendOK([appends[w] EXCEPT !.pc = pc]) BY <1>5, AppendMoves
  <2> QED BY <1>1, <2>1, <2>2, AppendsUpdate
<1>7. /\ appends[w].event \subseteq Event /\ IsFiniteSet(appends[w].event)
      /\ appends[w].checkpoint \subseteq Checkpoint /\ IsFiniteSet(appends[w].checkpoint)
  BY <1>5 DEF AppendOK, AppendRecord
<1>8. /\ \/ hotEvents' = hotEvents \cup appends[w].event /\ inserted' = inserted \cup appends[w].event
         \/ hotEvents' = hotEvents /\ inserted' = inserted
      /\ hotChecks' = hotChecks \cup appends[w].checkpoint \/ hotChecks' = hotChecks
  BY DEF PersistAuditAppend, InsertAuditEvent, InsertAuditCheckpoint, WriteReplicaFile
<1>9. StoreOK'
  <2>1. IsFiniteSet(hotEvents \cup appends[w].event) /\ IsFiniteSet(hotChecks \cup appends[w].checkpoint)
    BY <1>1, <1>7, FS_Union DEF StoreOK
  <2>2. /\ hotEvents' \subseteq Event /\ IsFiniteSet(hotEvents') /\ inserted' \subseteq Event
        /\ hotChecks' \subseteq Checkpoint /\ IsFiniteSet(hotChecks')
    BY <1>1, <1>7, <1>8, <2>1 DEF StoreOK
  <2> QED BY <1>1, <1>2, <2>2 DEF StoreOK
<1>10. KeptUntilDeadline'
  <2>1. auditDay' \in Nat /\ auditDay <= auditDay' BY <1>1, <1>2 DEF ClockOK
  <2>2. hotEvents \subseteq hotEvents' /\ inserted' \subseteq inserted \cup hotEvents' BY <1>8
  <2>3. \A b \in bundles : b.file => \E c \in bundles' : c.file /\ c.events = b.events BY <1>2
  <2> QED BY <1>1, <2>1, <2>2, <2>3, KeptGrows
<1> QED BY <1>3, <1>6, <1>9, <1>10 DEF AuditInv

LEMMA FinalizeKeeps ==
  ASSUME AuditInv, NEW w \in Writers, FinalizeAuditEvent(w)
  PROVE  AuditInv'
<1> DEFINE r == [appends[w] EXCEPT !.pc = "seal", !.checkpoint = {}, !.copy = EmptyTrail]
<1>1. /\ appends' = [appends EXCEPT ![w] = NoAppend] \/ appends' = [appends EXCEPT ![w] = r]
      /\ UNCHANGED <<trail, storeVars, retention, inserted, auditDay, auditSlot, auditCount>>
  BY DEF FinalizeAuditEvent, clockVars
<1>2. AppendsOK /\ ClockOK /\ trail \in Trails BY DEF AuditInv, StoreOK
<1>3. AppendOK(r)
  <2>1. AppendOK(appends[w]) BY <1>2 DEF AppendsOK
  <2>2. {} \in SUBSET Checkpoint /\ IsFiniteSet({}) BY FS_EmptySet
  <2> QED BY <2>1, <2>2, EmptyTyped DEF AppendOK, AppendRecord
<1> HIDE DEF r
<1>4. AppendsOK' BY <1>1, <1>2, <1>3, IdleAppend, AppendsUpdate
<1>5. ClockOK' /\ auditDay <= auditDay' BY <1>1, <1>2 DEF ClockOK
<1> QED BY <1>1, <1>2, <1>4, <1>5, StoreAlone

LEMMA DeletionKeeps ==
  ASSUME AuditInv, NEW w \in Writers,
         SealDeletion(w) \/ \E op \in {"delete", "purge"} : StartDeletion(w, op)
  PROVE  AuditInv'
<1>1. UNCHANGED <<trail, storeVars, retention, inserted, auditDay, auditSlot, auditCount>>
  BY DEF SealDeletion, StartDeletion, clockVars
<1>2. AppendsOK /\ ClockOK /\ trail \in Trails BY DEF AuditInv, StoreOK
<1>3. AppendsOK'
  <2>1. CASE SealDeletion(w) BY <1>2, <2>1, IdleAppend, AppendsUpdate DEF SealDeletion
  <2>2. ASSUME NEW op \in {"delete", "purge"}, StartDeletion(w, op) PROVE AppendsOK'
    <3> DEFINE r == [NoAppend EXCEPT !.pc = "deleting", !.op = op, !.before = LatestEventHash(trail)]
    <3>1. LatestEventHash(trail) \in 0..MaxEvents BY <1>2, OffsetTyped
    <3>2. AppendOK(r) BY <3>1, IdleAppend DEF AppendOK, AppendRecord
    <3>3. appends' = [appends EXCEPT ![w] = r] BY <2>2 DEF StartDeletion
    <3> HIDE DEF r
    <3> QED BY <1>2, <3>2, <3>3, AppendsUpdate
  <2> QED BY <2>1, <2>2
<1>4. ClockOK' /\ auditDay <= auditDay' BY <1>1, <1>2 DEF ClockOK
<1> QED BY <1>1, <1>2, <1>3, <1>4, StoreAlone

\* Forwarding, and a step of nothing, leave what the invariant speaks of alone.
LEMMA OtherKeeps ==
  ASSUME AuditInv, UNCHANGED <<trail, storeVars, appends, retention, inserted, clockVars>>
  PROVE  AuditInv'
<1>1. AppendsOK /\ ClockOK /\ trail \in Trails BY DEF AuditInv, StoreOK
<1>2. AppendsOK' /\ ClockOK' /\ auditDay <= auditDay' /\ trail' \in Trails
  BY <1>1 DEF AppendsOK, ClockOK, clockVars
<1> QED BY <1>2, StoreAlone

----
(* A retention run. *)

LEMMA StartKeeps ==
  ASSUME AuditInv, StartRetention
  PROVE  AuditInv'
<1> DEFINE plan == BuildArchivePlan(trail, auditDay)
<1>1. ClockOK /\ StoreOK /\ AppendsOK /\ RunOK /\ BundlesKeep /\ Bundled /\ KeptUntilDeadline
  BY DEF AuditInv
<1>2. UNCHANGED <<trail, storeVars, appends, inserted, auditDay, auditSlot, auditCount>>
  BY DEF StartRetention, clockVars
<1>3. CASE UNCHANGED retention BY <1>2, <1>3, OtherKeeps DEF clockVars
<1>4. CASE \E pc \in {"cleanup", "file", "release"} :
             /\ retention' = [day |-> auditDay, bundle |-> plan, pc |-> pc]
             /\ pc = "file" => plan # {}
  <2>1. PICK pc \in {"cleanup", "file", "release"} :
               /\ retention' = [day |-> auditDay, bundle |-> plan, pc |-> pc]
               /\ pc = "file" => plan # {}
    BY <1>4
  <2>2. \/ plan = {}
        \/ \E p \in plan : p \in Plans /\ plan = {p} /\ Expires(Range(p.events), p.until)
    <3>1. \/ plan = {}
          \/ \E p \in Plans : plan = {p} /\ Expires(Range(p.events), p.until)
      BY <1>1, PlanTyped
    <3> HIDE DEF plan
    <3> QED BY <3>1
  <2> HIDE DEF plan
  <2>3. plan \in SUBSET (Plans \cup Trails) /\ auditDay \in Nat /\ auditDay <= auditDay
    BY <1>1, <2>2 DEF ClockOK
  <2>4. /\ retention'.pc = pc /\ retention'.day = auditDay /\ retention'.bundle = plan
        /\ retention' \in [pc : RunSteps, day : Nat, bundle : SUBSET (Plans \cup Trails)]
    BY <2>1, <2>3 DEF RunSteps
  <2>5. RunOK' BY <1>2, <2>1, <2>2, <2>3, <2>4 DEF RunOK, Archiving
  <2>6. Bundled' BY <2>4 DEF Bundled
  <2>7. ClockOK' /\ StoreOK' /\ AppendsOK' /\ BundlesKeep'
    BY <1>1, <1>2 DEF ClockOK, StoreOK, AppendsOK, BundlesKeep, storeVars
  <2>8. KeptUntilDeadline' BY <1>1, <1>2, <2>3, KeptGrows DEF storeVars
  <2> QED BY <2>5, <2>6, <2>7, <2>8 DEF AuditInv
<1>5. \/ UNCHANGED retention
      \/ \E pc \in {"cleanup", "file", "release"} :
           /\ retention' = [day |-> auditDay, bundle |-> plan, pc |-> pc]
           /\ pc = "file" => plan # {}
  BY DEF StartRetention
<1> QED BY <1>3, <1>4, <1>5

\* What every step of a run leaves alone.
LEMMA RunFrame ==
  ASSUME AuditInv, RunAuditRetention
  PROVE  /\ UNCHANGED <<appends, clockVars, inserted>> /\ ClockOK' /\ AppendsOK'
         /\ auditDay' \in Nat /\ auditDay <= auditDay' /\ UNCHANGED auditDay
<1>1. UNCHANGED <<appends, clockVars, inserted>> /\ UNCHANGED auditDay BY DEF RunAuditRetention, clockVars
<1>2. ClockOK /\ AppendsOK /\ auditDay \in Nat /\ auditDay <= auditDay BY DEF AuditInv, ClockOK
<1> QED BY <1>1, <1>2 DEF ClockOK, AppendsOK, clockVars

\* The steps that keep bundles and event rows.
LEMMA QuietRunKeeps ==
  ASSUME AuditInv, RunAuditRetention, UNCHANGED <<hotEvents, bundles>>, RunOK', Bundled',
         trail' \in Trails, hotChecks' \subseteq hotChecks,
         boundaries' \subseteq [checkpoint : Checkpoint, active : BOOLEAN]
  PROVE  AuditInv'
<1>1. StoreOK /\ BundlesKeep /\ KeptUntilDeadline /\ ClockOK BY DEF AuditInv
<1>2. /\ UNCHANGED inserted /\ ClockOK' /\ AppendsOK'
      /\ auditDay' \in Nat /\ auditDay <= auditDay'
  BY RunFrame
<1>3. IsFiniteSet(hotChecks') BY <1>1, FS_Subset DEF StoreOK
<1>4. StoreOK' /\ BundlesKeep' BY <1>1, <1>2, <1>3 DEF StoreOK, BundlesKeep
<1>5. KeptUntilDeadline' BY <1>1, <1>2, KeptGrows
<1> QED BY <1>2, <1>4, <1>5 DEF AuditInv

LEMMA FileKeeps ==
  ASSUME AuditInv, RunAuditRetention, WriteArchiveBundleFile
  PROVE  AuditInv'
<1> DEFINE new == Stored(Planned, FALSE)
<1>1. /\ StoreOK /\ RunOK /\ BundlesKeep /\ KeptUntilDeadline /\ ClockOK BY DEF AuditInv
<1>2. /\ UNCHANGED inserted /\ UNCHANGED auditDay /\ ClockOK' /\ AppendsOK'
      /\ auditDay' \in Nat /\ auditDay <= auditDay'
  BY RunFrame
<1>3. /\ retention.pc = "file" /\ bundles' = bundles \cup {new} /\ GoesTo("bundle")
      /\ UNCHANGED <<trail, hotEvents, hotChecks, boundaries>>
  BY DEF WriteArchiveBundleFile
<1>4. RunOK' /\ retention'.pc = "bundle" BY <1>1, <1>2, <1>3, GoesOn DEF RunSteps, Archiving
<1>5. Planned \in Plans /\ Expires(Range(Planned.events), Planned.until)
  BY <1>1, <1>3, PlannedOK DEF Archiving
<1>6. new \in Archives /\ Expires(new.events, new.until) BY <1>5, StoredTyped
<1> HIDE DEF new
<1>7. IsFiniteSet(bundles \cup {new}) BY <1>1, FS_Singleton, FS_Union DEF StoreOK
<1>8. StoreOK' /\ BundlesKeep' BY <1>1, <1>2, <1>3, <1>6, <1>7 DEF StoreOK, BundlesKeep
<1>9. Bundled' BY <1>4 DEF Bundled
<1>10. KeptUntilDeadline' BY <1>1, <1>2, <1>3, KeptGrows
<1> QED BY <1>2, <1>4, <1>8, <1>9, <1>10 DEF AuditInv

LEMMA BundleKeeps ==
  ASSUME AuditInv, RunAuditRetention, InsertArchiveBundle
  PROVE  AuditInv'
<1> DEFINE old == Stored(Planned, FALSE)
           new == Stored(Planned, TRUE)
<1>1. /\ StoreOK /\ RunOK /\ BundlesKeep /\ KeptUntilDeadline /\ ClockOK BY DEF AuditInv
<1>2. /\ UNCHANGED inserted /\ UNCHANGED auditDay /\ ClockOK' /\ AppendsOK'
      /\ auditDay' \in Nat /\ auditDay <= auditDay'
  BY RunFrame
<1>3. /\ retention.pc = "bundle" /\ bundles' = (bundles \ {old}) \cup {new}
      /\ GoesTo("deactivate") /\ UNCHANGED <<trail, hotEvents, hotChecks, boundaries>>
  BY DEF InsertArchiveBundle
<1>4. RunOK' /\ Planned' = Planned BY <1>1, <1>2, <1>3, GoesOn DEF RunSteps, Archiving
<1>5. Planned \in Plans /\ Expires(Range(Planned.events), Planned.until)
  BY <1>1, <1>3, PlannedOK DEF Archiving
<1>6. new \in Archives /\ Expires(new.events, new.until) /\ new.file /\ new.events = old.events
  BY <1>5, StoredTyped
<1>7. Bundled' BY <1>3, <1>4 DEF Bundled
<1> HIDE DEF old, new
<1>8. IsFiniteSet((bundles \ {old}) \cup {new})
  <2>1. IsFiniteSet(bundles \ {old}) BY <1>1, FS_Subset DEF StoreOK
  <2> QED BY <2>1, FS_Singleton, FS_Union
<1>9. StoreOK' /\ BundlesKeep' BY <1>1, <1>2, <1>3, <1>6, <1>8 DEF StoreOK, BundlesKeep
<1>10. \A b \in bundles : b.file => \E c \in bundles' : c.file /\ c.events = b.events BY <1>3, <1>6
<1>11. KeptUntilDeadline' BY <1>1, <1>2, <1>3, <1>10, KeptGrows
<1> QED BY <1>2, <1>4, <1>7, <1>9, <1>11 DEF AuditInv

LEMMA BoundariesKeep ==
  ASSUME AuditInv, RunAuditRetention, DeactivateBoundaries \/ InsertBoundary
  PROVE  AuditInv'
<1>1. /\ StoreOK /\ RunOK /\ Bundled BY DEF AuditInv
<1>2. UNCHANGED auditDay BY RunFrame
<1>3. /\ retention.pc \in {"deactivate", "boundary"} /\ UNCHANGED <<trail, hotEvents, hotChecks, bundles>>
      /\ \E pc \in {"boundary", "events", "release"} : GoesTo(pc)
  BY DEF DeactivateBoundaries, InsertBoundary
<1>4. RunOK' /\ Planned' = Planned
  <2>1. PICK pc \in {"boundary", "events", "release"} : GoesTo(pc) BY <1>3
  <2> QED BY <1>1, <1>2, <1>3, <2>1, GoesOn DEF RunSteps, Archiving
<1>5. Bundled' BY <1>1, <1>3, <1>4 DEF Bundled
<1>6. Planned.boundary \in Checkpoint BY <1>1, <1>3, PlannedOK DEF Archiving, Plans
<1>7. boundaries' \subseteq [checkpoint : Checkpoint, active : BOOLEAN]
  <2>1. CASE DeactivateBoundaries BY <1>1, <2>1 DEF DeactivateBoundaries, StoreOK
  <2>2. CASE InsertBoundary
    <3> DEFINE new == [checkpoint |-> Planned.boundary, active |-> TRUE]
    <3>1. boundaries' = boundaries \/ boundaries' = boundaries \cup {new} BY <2>2 DEF InsertBoundary
    <3>2. new \in [checkpoint : Checkpoint, active : BOOLEAN] BY <1>6
    <3> HIDE DEF new
    <3> QED BY <1>1, <3>1, <3>2 DEF StoreOK
  <2> QED BY <2>1, <2>2
<1>8. trail' \in Trails BY <1>1, <1>3 DEF StoreOK
<1> QED BY <1>3, <1>4, <1>5, <1>7, <1>8, QuietRunKeeps

\* A deleted row is in the bundle, whose file was there first.
LEMMA DeleteKeeps ==
  ASSUME AuditInv, RunAuditRetention, DeleteAuditEvents
  PROVE  AuditInv'
<1>1. /\ StoreOK /\ RunOK /\ BundlesKeep /\ Bundled /\ KeptUntilDeadline /\ ClockOK BY DEF AuditInv
<1>2. /\ UNCHANGED inserted /\ UNCHANGED auditDay /\ ClockOK' /\ AppendsOK' BY RunFrame
<1>3. /\ retention.pc = "events" /\ hotEvents' = hotEvents \ Range(Planned.events)
      /\ GoesTo("checkpoints") /\ UNCHANGED <<trail, hotChecks, boundaries, bundles>>
  BY DEF DeleteAuditEvents
<1>4. RunOK' /\ retention'.pc = "checkpoints" BY <1>1, <1>2, <1>3, GoesOn DEF RunSteps, Archiving
<1>5. Bundled' BY <1>4 DEF Bundled
<1>6. StoreOK' /\ BundlesKeep'
  <2>1. IsFiniteSet(hotEvents') BY <1>1, <1>3, FS_Subset DEF StoreOK
  <2> QED BY <1>1, <1>2, <1>3, <2>1 DEF StoreOK, BundlesKeep
<1>7. KeptUntilDeadline'
  <2>1. Stored(Planned, TRUE) \in bundles BY <1>1, <1>3 DEF Bundled
  <2>2. Stored(Planned, TRUE).file = TRUE /\ Stored(Planned, TRUE).events = Range(Planned.events)
    BY <1>1, <1>3, PlannedOK, StoredTyped DEF Archiving
  <2>3. ASSUME NEW e \in inserted, auditDay < RetentionDeadline(e)
        PROVE  e \in hotEvents' \/ \E b \in bundles : b.file /\ e \in b.events
    <3>1. e \in hotEvents \/ \E b \in bundles : b.file /\ e \in b.events
      BY <1>1, <2>3 DEF KeptUntilDeadline
    <3> QED BY <1>3, <2>1, <2>2, <3>1
  <2> QED BY <1>2, <1>3, <2>3 DEF KeptUntilDeadline, RetentionDeadline
<1> QED BY <1>2, <1>4, <1>5, <1>6, <1>7 DEF AuditInv

LEMMA MemoryKeeps ==
  ASSUME AuditInv, RunAuditRetention,
         DeleteAuditCheckpoints \/ ApplyBoundaryInMemory \/ PersistAuditReplica \/ EndRetention
  PROVE  AuditInv'
<1>1. /\ StoreOK /\ RunOK /\ ClockOK BY DEF AuditInv
<1>2. UNCHANGED auditDay /\ auditDay \in Nat /\ retention.day \in Nat /\ retention.day <= auditDay
  BY <1>1, RunFrame DEF ClockOK, RunOK
<1>3. UNCHANGED <<hotEvents, boundaries, bundles>> /\ hotChecks' \subseteq hotChecks
  BY DEF DeleteAuditCheckpoints, ApplyBoundaryInMemory, PersistAuditReplica, EndRetention, storeVars
<1>4. trail' \in Trails /\ RunOK' /\ retention'.pc \in {"memory", "replica", "cleanup", "idle"}
  <2>1. CASE DeleteAuditCheckpoints
    <3>1. retention.pc = "checkpoints" /\ GoesTo("memory") /\ UNCHANGED trail
      BY <2>1 DEF DeleteAuditCheckpoints
    <3>2. RunOK' /\ retention'.pc = "memory" BY <1>1, <1>2, <3>1, GoesOn DEF RunSteps, Archiving
    <3> QED BY <1>1, <3>1, <3>2 DEF StoreOK
  <2>2. CASE ApplyBoundaryInMemory
    <3>1. Planned.boundary \in Checkpoint
      BY <1>1, <2>2, PlannedOK DEF ApplyBoundaryInMemory, Archiving, Plans
    <3>2. trail' \in Trails BY <1>1, <2>2, <3>1, ArchiveBoundaryTyped DEF ApplyBoundaryInMemory, StoreOK
    <3>3. retention' = [retention EXCEPT !.pc = "replica", !.bundle = {trail'}]
      BY <2>2 DEF ApplyBoundaryInMemory
    <3>4. /\ retention'.pc = "replica" /\ retention'.day = retention.day
          /\ retention'.bundle = {trail'}
          /\ retention' \in [pc : RunSteps, day : Nat, bundle : SUBSET (Plans \cup Trails)]
      BY <1>1, <3>2, <3>3 DEF RunOK, RunSteps
    <3>5. RunOK' BY <1>2, <3>2, <3>4 DEF RunOK, Archiving
    <3> QED BY <3>2, <3>4, <3>5
  <2>3. CASE PersistAuditReplica
    <3>1. retention' = [retention EXCEPT !.pc = "cleanup", !.bundle = {}] /\ UNCHANGED trail
      BY <2>3 DEF PersistAuditReplica
    <3>2. /\ retention'.pc = "cleanup" /\ retention'.day = retention.day
          /\ retention' \in [pc : RunSteps, day : Nat, bundle : SUBSET (Plans \cup Trails)]
      BY <1>1, <3>1 DEF RunOK, RunSteps
    <3>3. RunOK' BY <1>2, <3>2 DEF RunOK, Archiving
    <3> QED BY <1>1, <3>1, <3>2, <3>3 DEF StoreOK
  <2>4. CASE EndRetention
    <3>1. retention' = NoRun /\ UNCHANGED trail BY <2>4 DEF EndRetention
    <3>2. RunOK' /\ retention'.pc = "idle" BY <1>2, <3>1 DEF RunOK, NoRun, RunSteps, Archiving
    <3> QED BY <1>1, <3>1, <3>2 DEF StoreOK
  <2> QED BY <2>1, <2>2, <2>3, <2>4
<1>5. Bundled' BY <1>4 DEF Bundled
<1>6. boundaries' \subseteq [checkpoint : Checkpoint, active : BOOLEAN] BY <1>1, <1>3 DEF StoreOK
<1> QED BY <1>3, <1>4, <1>5, <1>6, QuietRunKeeps

LEMMA FailureKeeps ==
  ASSUME AuditInv, RunAuditRetention, RetentionFails
  PROVE  AuditInv'
<1>1. /\ StoreOK /\ RunOK BY DEF AuditInv
<1>2. UNCHANGED auditDay BY RunFrame
<1>3. GoesTo("release") /\ UNCHANGED <<trail, hotEvents, hotChecks, boundaries, bundles>>
  BY DEF RetentionFails, storeVars
<1>4. RunOK' /\ retention'.pc = "release" BY <1>1, <1>2, <1>3, GoesOn DEF RunSteps, Archiving
<1>5. Bundled' BY <1>4 DEF Bundled
<1> QED BY <1>1, <1>3, <1>4, <1>5, QuietRunKeeps DEF StoreOK

\* A bundle that expires holds no event whose deadline is still to come.
LEMMA CleanupKeeps ==
  ASSUME AuditInv, RunAuditRetention, CleanupExpiredAuditArchives
  PROVE  AuditInv'
<1>1. /\ StoreOK /\ RunOK /\ BundlesKeep /\ KeptUntilDeadline /\ ClockOK BY DEF AuditInv
<1>2. /\ UNCHANGED inserted /\ UNCHANGED auditDay /\ ClockOK' /\ AppendsOK' BY RunFrame
<1> DEFINE expired == {b \in bundles : b.row /\ b.until <= retention.day}
           Gone(b) == [b EXCEPT !.file = FALSE, !.row = FALSE]
           marked == {Gone(b) : b \in expired}
<1>3. /\ bundles' = (bundles \ expired) \cup marked
      /\ GoesTo("release") /\ UNCHANGED <<trail, hotEvents, hotChecks, boundaries>>
  BY DEF CleanupExpiredAuditArchives
<1>4. RunOK' /\ retention'.pc = "release" BY <1>1, <1>2, <1>3, GoesOn DEF RunSteps, Archiving
<1>5. Bundled' BY <1>4 DEF Bundled
<1>6. \A b \in Archives : Gone(b) \in Archives /\ Gone(b).events = b.events /\ Gone(b).until = b.until
  BY DEF Archives
<1>7. IsFiniteSet(marked)
  <2>1. IsFiniteSet(expired) BY <1>1, FS_Subset DEF StoreOK
  <2> DEFINE f == [b \in expired |-> Gone(b)]
  <2>2. f \in Surjection(expired, marked) BY DEF Surjection
  <2> HIDE DEF f, expired, marked
  <2> QED BY <2>1, <2>2, FS_Surjection
<1>8. bundles' \subseteq Archives BY <1>1, <1>3, <1>6 DEF StoreOK
<1>9. IsFiniteSet(bundles')
  <2>1. IsFiniteSet(bundles \ expired) BY <1>1, FS_Subset DEF StoreOK
  <2> HIDE DEF expired, marked
  <2> QED BY <1>3, <1>7, <2>1, FS_Union
<1>10. \A c \in bundles' : \E b \in bundles : c.events = b.events /\ c.until = b.until
  <2>1. bundles \subseteq Archives /\ expired \subseteq bundles BY <1>1 DEF StoreOK
  <2>2. \A c \in marked : \E b \in expired : c.events = b.events /\ c.until = b.until BY <1>6, <2>1
  <2> HIDE DEF expired, marked
  <2> QED BY <1>3, <2>1, <2>2
<1>11. BundlesKeep'
  <2>1. ASSUME NEW c \in bundles' PROVE Expires(c.events, c.until)
    <3>1. PICK b \in bundles : c.events = b.events /\ c.until = b.until BY <1>10
    <3> QED BY <1>1, <3>1 DEF BundlesKeep
  <2> QED BY <2>1 DEF BundlesKeep, Expires, RetentionDeadline
<1>12. StoreOK' BY <1>1, <1>2, <1>3, <1>8, <1>9 DEF StoreOK
<1>13. KeptUntilDeadline'
  <2>1. ASSUME NEW e \in inserted, auditDay < RetentionDeadline(e)
        PROVE  e \in hotEvents \/ \E b \in bundles' : b.file /\ e \in b.events
    <3>1. e \in hotEvents \/ \E b \in bundles : b.file /\ e \in b.events
      BY <1>1, <2>1 DEF KeptUntilDeadline
    <3>2. ASSUME NEW b \in expired, e \in b.events PROVE FALSE
      <4>1. /\ e \in Event /\ RetentionDeadline(e) \in Nat BY <1>1, DeadlineTyped DEF StoreOK
      <4>2. RetentionDeadline(e) <= b.until /\ b.until \in Nat /\ b.until <= retention.day
        BY <1>1, <3>2 DEF BundlesKeep, Expires, StoreOK, Archives
      <4>3. retention.day \in Nat /\ retention.day <= auditDay /\ auditDay \in Nat
        BY <1>1 DEF RunOK, ClockOK
      <4> HIDE DEF expired
      <4> QED BY <2>1, <4>1, <4>2, <4>3
    <3> HIDE DEF expired, marked
    <3> QED BY <1>3, <3>1, <3>2
  <2> QED BY <1>2, <1>3, <2>1 DEF KeptUntilDeadline, RetentionDeadline
<1> QED BY <1>2, <1>4, <1>5, <1>11, <1>12, <1>13 DEF AuditInv

LEMMA RunKeeps ==
  ASSUME AuditInv, RunAuditRetention
  PROVE  AuditInv'
<1>1. \/ RetentionFails \/ WriteArchiveBundleFile \/ InsertArchiveBundle
      \/ DeactivateBoundaries \/ InsertBoundary \/ DeleteAuditEvents \/ DeleteAuditCheckpoints
      \/ ApplyBoundaryInMemory \/ PersistAuditReplica \/ CleanupExpiredAuditArchives \/ EndRetention
  BY DEF RunAuditRetention
<1> QED BY <1>1, FailureKeeps, FileKeeps, BundleKeeps, BoundariesKeep, DeleteKeeps, MemoryKeeps,
           CleanupKeeps

----
(* Time, a restart, and the theorem. *)

LEMMA TickKeeps ==
  ASSUME AuditInv, AuditTick
  PROVE  AuditInv'
<1>1. /\ auditDay' = auditDay + 1 /\ auditSlot' = auditSlot + 1 /\ auditDay < MaxAuditDays
      /\ UNCHANGED <<trail, storeVars, appends, retention, inserted, auditCount>>
  BY DEF AuditTick
<1>2. /\ auditDay \in Nat /\ auditCount \in 0..MaxEvents /\ auditSlot \in Nat
      /\ auditSlot <= auditCount + auditDay /\ MaxAuditDays \in Nat /\ MaxEvents \in Nat
      /\ AppendsOK /\ trail \in Trails
  BY AuditAssumption DEF AuditInv, ClockOK, StoreOK
<1>3. ClockOK' /\ auditDay <= auditDay' BY <1>1, <1>2 DEF ClockOK
<1>4. AppendsOK' BY <1>1, <1>2 DEF AppendsOK
<1> QED BY <1>1, <1>2, <1>3, <1>4, StoreAlone

LEMMA LoadTyped ==
  ASSUME NEW S, NEW rows, rows \subseteq S, IsFiniteSet(rows), NEW s \in LoadOrders(rows)
  PROVE  s \in Seq(S)
<1>1. s \in [1..Cardinality(rows) -> S] BY DEF LoadOrders
<1>2. Cardinality(rows) \in Nat BY FS_CardinalityType
<1> QED BY <1>1, <1>2

LEMMA RestartKeeps ==
  ASSUME AuditInv, AuditRestart
  PROVE  AuditInv'
<1>1. /\ StoreOK /\ ClockOK /\ BundlesKeep /\ KeptUntilDeadline BY DEF AuditInv
<1>2. /\ appends' = [w \in Writers |-> NoAppend] /\ retention' = NoRun
      /\ UNCHANGED <<hotEvents, hotChecks, boundaries, bundles, inserted, auditDay, auditSlot, auditCount>>
  BY DEF AuditRestart, storeVars, clockVars
<1>3. trail' \in Trails
  <2>1. PICK events \in LoadOrders(hotEvents), checks \in LoadOrders(hotChecks) :
               trail' = [anchor |-> ActiveBoundary, events |-> events, checkpoints |-> checks]
    BY DEF AuditRestart
  <2>2. events \in Seq(Event) /\ checks \in Seq(Checkpoint) BY <1>1, LoadTyped DEF StoreOK
  <2>3. ActiveBoundary \subseteq Checkpoint BY <1>1 DEF ActiveBoundary, StoreOK
  <2> QED BY <2>1, <2>2, <2>3 DEF Trails
<1>4. auditDay \in Nat /\ auditDay <= auditDay BY <1>1 DEF ClockOK
<1>5. RunOK' /\ retention'.pc = "idle" BY <1>2, <1>4 DEF RunOK, NoRun, RunSteps, Archiving
<1>6. Bundled' BY <1>5 DEF Bundled
<1>7. AppendsOK'
  <2>1. NoAppend \in AppendRecord BY IdleAppend DEF AppendOK
  <2> QED BY <1>2, <2>1, IdleAppend DEF AppendsOK
<1>8. ClockOK' /\ StoreOK' /\ BundlesKeep' BY <1>1, <1>2, <1>3 DEF ClockOK, StoreOK, BundlesKeep
<1>9. KeptUntilDeadline' BY <1>1, <1>2, <1>4, KeptGrows
<1> QED BY <1>5, <1>6, <1>7, <1>8, <1>9 DEF AuditInv

LEMMA InitKeeps == AuditInit => AuditInv
<1> SUFFICES ASSUME AuditInit PROVE AuditInv OBVIOUS
<1>1. MaxEvents \in Nat /\ MaxAuditDays \in Nat BY AuditAssumption
<1>2. ClockOK BY <1>1 DEF AuditInit, ClockOK
<1>3. StoreOK BY EmptyTyped, FS_EmptySet DEF AuditInit, StoreOK
<1>4. AppendsOK
  <2>1. NoAppend \in AppendRecord BY IdleAppend DEF AppendOK
  <2> QED BY <2>1, IdleAppend DEF AuditInit, AppendsOK
<1>5. RunOK BY DEF AuditInit, RunOK, NoRun, RunSteps, Archiving
<1>6. BundlesKeep /\ Bundled /\ KeptUntilDeadline
  BY DEF AuditInit, BundlesKeep, Bundled, KeptUntilDeadline, NoRun
<1> QED BY <1>2, <1>3, <1>4, <1>5, <1>6 DEF AuditInv

LEMMA StepKeeps ==
  ASSUME AuditInv, [AuditNext]_auditVars
  PROVE  AuditInv'
<1>1. ASSUME NEW w \in Writers, NEW kind \in AuditKinds, RecordAuditEvent(w, kind) PROVE AuditInv'
  BY <1>1, RecordKeeps
<1>2. ASSUME NEW w \in Writers, NEW op \in {"delete", "purge"}, StartDeletion(w, op) PROVE AuditInv'
  BY <1>2, DeletionKeeps
<1>3. ASSUME NEW w \in Writers, SealDeletion(w) PROVE AuditInv' BY <1>3, DeletionKeeps
<1>4. ASSUME NEW w \in Writers, PersistAuditAppend(w) PROVE AuditInv' BY <1>4, PersistKeeps
<1>5. ASSUME NEW w \in Writers, FinalizeAuditEvent(w) PROVE AuditInv' BY <1>5, FinalizeKeeps
<1>6. ASSUME NEW e \in forwards, PublishExternalAuditForward(e) PROVE AuditInv'
  BY <1>6, OtherKeeps DEF PublishExternalAuditForward
<1>7. CASE StartRetention BY <1>7, StartKeeps
<1>8. CASE RunAuditRetention BY <1>8, RunKeeps
<1>9. CASE AuditTick BY <1>9, TickKeeps
<1>10. CASE AuditRestart BY <1>10, RestartKeeps
<1>11. CASE UNCHANGED auditVars BY <1>11, OtherKeeps DEF auditVars, storeVars, clockVars
<1> QED BY <1>1, <1>2, <1>3, <1>4, <1>5, <1>6, <1>7, <1>8, <1>9, <1>10, <1>11 DEF AuditNext

\* The invariant holds in every state, whatever fails or restarts
\* (persist_audit_append, run_audit_retention, load_audit_trail).
THEOREM AuditInvHolds == AuditSpec => []AuditInv
<1>1. AuditInv /\ [AuditNext]_auditVars => AuditInv' BY StepKeeps
<1> QED BY InitKeeps, <1>1, PTL DEF AuditSpec

\* An event that reached the store is in the store or in an archive file until
\* its own retention deadline: the file of a bundle is written before its rows
\* are deleted, and goes when the last of its events expires
\* (apply_audit_archive, cleanup_expired_audit_archives).
THEOREM KeptUntilDeadlineHolds == AuditSpec => []KeptUntilDeadline
<1>1. AuditInv => KeptUntilDeadline BY DEF AuditInv
<1> QED BY AuditInvHolds, <1>1, PTL

----
(* What keeps chain, rows and run in step. *)

\* The checkpoint that an event signs when nothing failed before it.
CheckOf(e) == [count |-> e.id, last |-> e.id, day |-> e.day, slot |-> e.slot]

\* A trail whose events are numbered from its anchor on, each with its checkpoint.
Chained(t) ==
  /\ \A c \in t.anchor : t.anchor = {c} /\ c.last = c.count
  /\ Len(t.checkpoints) = Len(t.events)
  /\ \A i \in DOMAIN t.events :
       /\ t.events[i].id = Offset(t) + i /\ t.events[i].prev = Offset(t) + i - 1
       /\ t.checkpoints[i] = CheckOf(t.events[i])
  /\ \A i, j \in DOMAIN t.events : i <= j =>
       t.events[i].day <= t.events[j].day /\ t.events[i].slot <= t.events[j].slot

\* What a run is about to archive is still where the chain begins, and from before today.
PlanIsPrefix ==
  retention.pc \in Archiving =>
    /\ Len(Planned.events) \in 1..Len(trail.events)
    /\ Len(Planned.checkpoints) = Len(Planned.events)
    /\ \A i \in 1..Len(Planned.events) :
         /\ Planned.events[i] = trail.events[i] /\ Planned.checkpoints[i] = trail.checkpoints[i]
         /\ trail.events[i].day < auditDay
    /\ Planned.boundary = trail.checkpoints[Len(Planned.events)]

\* Rows that requests have still to insert, and rows a run has deleted that memory still holds.
WaitingEvents == UNION {appends[w].event : w \in {v \in Writers : appends[v].pc = "event"}}
WaitingChecks ==
  UNION {appends[w].checkpoint : w \in {v \in Writers : appends[v].pc \in {"event", "checkpoint"}}}
DeletedEvents == IF retention.pc \in {"checkpoints", "memory"} THEN Range(Planned.events) ELSE {}
DeletedChecks == IF retention.pc = "memory" THEN Range(Planned.checkpoints) ELSE {}

Inserted == {"events", "checkpoints", "memory"}

StoreFollows ==
  /\ hotEvents \cup WaitingEvents = Range(trail.events) \ DeletedEvents
  /\ hotChecks \cup WaitingChecks = Range(trail.checkpoints) \ DeletedChecks
  /\ retention.pc \notin Critical => ActiveBoundary = trail.anchor
  /\ \A b \in boundaries : \/ b.checkpoint.count <= Offset(trail)
                           \/ retention.pc \in Inserted /\ b.checkpoint = Planned.boundary

InOrder ==
  /\ Chained(trail) /\ Chained(replica)
  /\ \A w \in Writers : Chained(appends[w].copy)
  /\ retention.pc = "replica" => Chained(Planned)
  /\ Offset(trail) + Len(trail.events) = auditCount
  /\ \A e \in Range(trail.events) : e.day <= auditDay /\ e.slot <= auditSlot

OneBoundary ==
  /\ \A c \in ActiveBoundary : ActiveBoundary = {c}
  /\ retention.pc = "boundary" => ActiveBoundary = {}
  /\ retention.pc \in Inserted => ActiveBoundary = {Planned.boundary}

Numbered ==
  /\ \A e \in Range(trail.events) \cup hotEvents : e.id <= auditCount
  /\ \A c \in Range(trail.checkpoints) \cup trail.anchor \cup hotChecks : c.last <= auditCount
  /\ \A b \in boundaries : b.checkpoint.last <= auditCount
  /\ retention.pc \in Archiving => Planned.boundary.last <= auditCount
  /\ \A e \in forwards : e.id \in 1..auditCount
  /\ \A d \in deliveries : d.event \in 1..auditCount

\* A request that appended: its evidence began before its event, and the chain has
\* not ended earlier since.
Recorded == {"event", "checkpoint", "replica", "spawn", "seal"}

Enclosing ==
  \A w \in Writers :
    /\ appends[w].before <= auditCount
    /\ appends[w].pc \in Recorded =>
         \A e \in appends[w].event :
           /\ e.id <= auditCount /\ appends[w].before < e.id
           /\ trail.checkpoints # <<>> => e.id <= Last(trail.checkpoints).last
    /\ appends[w].pc \in {"event", "checkpoint"}
         => \A c \in appends[w].checkpoint : c.last <= auditCount

\* What a request has still to insert is of today.
Today ==
  \A w \in Writers :
    /\ appends[w].pc = "event" => \A e \in appends[w].event : e.day = auditDay
    /\ appends[w].pc \in {"event", "checkpoint"} => \A c \in appends[w].checkpoint : c.day = auditDay

\* Every retention task was started by an append of its own.
Unfinished == {w \in Writers : appends[w].pc \in {"event", "checkpoint", "replica", "spawn"}}

TasksCounted ==
  /\ IsFiniteSet(Unfinished) /\ retentionTasks \in Nat
  /\ retentionTasks + Cardinality(Unfinished) <= auditCount

Rows == hotEvents \subseteq inserted /\ replica \in Trails

\* What holds whatever failed.
BaseInv ==
  /\ Rows /\ OneBoundary /\ Numbered /\ Enclosing /\ Today /\ TasksCounted
  /\ EvidenceEncloses /\ SuccessArrived

ChainInv == auditClean => InOrder /\ PlanIsPrefix /\ StoreFollows

IntactInv == BaseInv /\ ChainInv

----
(* Sequences. *)

LEMMA AppendParts ==
  ASSUME NEW S, NEW s \in Seq(S), NEW x \in S
  PROVE  /\ Append(s, x) \in Seq(S) /\ Len(Append(s, x)) = Len(s) + 1 /\ Len(s) \in Nat
         /\ \A i \in 1..Len(s) : Append(s, x)[i] = s[i]
         /\ Append(s, x)[Len(s) + 1] = x /\ Last(Append(s, x)) = x
         /\ Range(Append(s, x)) = Range(s) \cup {x}
<1>1. /\ Append(s, x) \in Seq(S) /\ Len(Append(s, x)) = Len(s) + 1 /\ Len(s) \in Nat
      /\ \A i \in 1..Len(s) : Append(s, x)[i] = s[i]
      /\ Append(s, x)[Len(s) + 1] = x /\ DOMAIN s = 1..Len(s)
      /\ DOMAIN Append(s, x) = 1..(Len(s) + 1)
  OBVIOUS
<1>2. Last(Append(s, x)) = x BY <1>1 DEF Last
<1>3. Range(Append(s, x)) \subseteq Range(s) \cup {x} BY <1>1 DEF Range
<1>4. Range(s) \cup {x} \subseteq Range(Append(s, x))
  <2>1. x \in Range(Append(s, x)) BY <1>1 DEF Range
  <2>2. ASSUME NEW i \in 1..Len(s) PROVE s[i] \in Range(Append(s, x))
    <3>1. i \in DOMAIN Append(s, x) /\ Append(s, x)[i] = s[i] BY <1>1
    <3> QED BY <3>1 DEF Range
  <2> QED BY <1>1, <2>1, <2>2 DEF Range
<1> QED BY <1>1, <1>2, <1>3, <1>4

\* What is left of a sequence without its first k elements.
LEMMA SuffixParts ==
  ASSUME NEW S, NEW s \in Seq(S), NEW k \in 0..Len(s), NEW q, q = SubSeq(s, k + 1, Len(s))
  PROVE  /\ q \in Seq(S) /\ Len(q) = Len(s) - k /\ Len(s) \in Nat /\ DOMAIN q = 1..(Len(s) - k)
         /\ \A i \in 1..(Len(s) - k) : q[i] = s[k + i]
<1>1. Len(s) \in Nat /\ \A i \in (k + 1)..Len(s) : s[i] \in S OBVIOUS
<1>2. q \in Seq(S) BY <1>1
<1>3. Len(q) = Len(s) - k BY <1>1
<1>4. \A i \in 1..(Len(s) - k) : q[i] = s[k + i] BY <1>1
<1> QED BY <1>1, <1>2, <1>3, <1>4

LEMMA SuffixRange ==
  ASSUME NEW S, NEW s \in Seq(S), NEW k \in 0..Len(s), NEW p \in Seq(S), Len(p) = k,
         \A i \in 1..k : p[i] = s[i],
         \A i, j \in 1..Len(s) : s[i] = s[j] => i = j
  PROVE  Range(SubSeq(s, k + 1, Len(s))) = Range(s) \ Range(p)
<1> DEFINE q == SubSeq(s, k + 1, Len(s))
<1>1. /\ q \in Seq(S) /\ Len(s) \in Nat /\ DOMAIN q = 1..(Len(s) - k)
      /\ \A i \in 1..(Len(s) - k) : q[i] = s[k + i]
  BY SuffixParts
<1>2. DOMAIN s = 1..Len(s) /\ DOMAIN p = 1..k OBVIOUS
<1> HIDE DEF q
<1>3. ASSUME NEW i \in 1..(Len(s) - k) PROVE q[i] \in Range(s) /\ q[i] \notin Range(p)
  <2>1. q[i] = s[k + i] /\ k + i \in 1..Len(s) BY <1>1
  <2>2. ASSUME NEW j \in 1..k, p[j] = s[k + i] PROVE FALSE
    <3>1. j \in 1..Len(s) /\ s[j] = s[k + i] BY <1>1, <2>2
    <3>2. j = k + i BY <2>1, <3>1
    <3> QED BY <1>1, <3>2
  <2> QED BY <1>2, <2>1, <2>2 DEF Range
<1>4. ASSUME NEW j \in 1..Len(s), s[j] \notin Range(p) PROVE s[j] \in Range(q)
  <2>1. j \notin 1..k BY <1>2, <1>4 DEF Range
  <2>2. j - k \in 1..(Len(s) - k) /\ k + (j - k) = j BY <1>1, <2>1
  <2>3. q[j - k] = s[j] BY <1>1, <2>2
  <2> QED BY <1>1, <2>2, <2>3 DEF Range
<1>5. Range(q) \subseteq Range(s) \ Range(p) BY <1>1, <1>3 DEF Range
<1>6. Range(s) \ Range(p) \subseteq Range(q)
  <2>1. ASSUME NEW x \in Range(s), x \notin Range(p) PROVE x \in Range(q)
    <3>1. PICK j \in 1..Len(s) : x = s[j] BY <1>2 DEF Range
    <3> QED BY <1>4, <2>1, <3>1
  <2> QED BY <2>1
<1> QED BY <1>5, <1>6 DEF q

\* The rows of a trail whose slots differ come back in one order only.
LEMMA LoadUnique ==
  ASSUME NEW S, \A x \in S : x.slot \in Nat, NEW a \in Seq(S),
         \A i, j \in 1..Len(a) : i < j => a[i].slot < a[j].slot,
         NEW b \in LoadOrders(Range(a)),
         \A x, y \in Range(a) : x.slot = y.slot => x = y
  PROVE  b = a
<1> DEFINE n == Len(a)
           H == Range(a)
<1>1. n \in Nat /\ DOMAIN a = 1..n /\ a \in [1..n -> S] OBVIOUS
<1>2. H \subseteq S /\ \A i \in 1..n : a[i] \in H BY <1>1 DEF Range
<1>3. \A i, j \in 1..n : a[i] = a[j] => i = j
  <2>1. SUFFICES ASSUME NEW i \in 1..n, NEW j \in 1..n, a[i] = a[j], i < j PROVE FALSE BY <1>1
  <2>2. a[i].slot < a[j].slot /\ a[i].slot \in Nat BY <1>1, <2>1
  <2> QED BY <2>1, <2>2
<1>4. IsFiniteSet(1..n) /\ Cardinality(1..n) = n BY <1>1, FS_Interval
<1>5. Cardinality(H) = n /\ IsFiniteSet(H)
  <2>1. a \in Surjection(1..n, H) /\ a \in Injection(1..n, H)
    <3>1. DOMAIN a = 1..n /\ a \in [1..n -> H] /\ \A h \in H : \E i \in 1..n : a[i] = h BY <1>1 DEF Range
    <3> HIDE DEF H, n
    <3> QED BY <1>3, <3>1 DEF Surjection, Injection, IsInjective
  <2> HIDE DEF H, n
  <2> QED BY <1>4, <2>1, FS_Surjection
<1>6. /\ b \in [1..n -> H]
      /\ \A i, j \in 1..n : i < j => b[i] # b[j] /\ b[i].slot <= b[j].slot
  <2>1. /\ b \in [1..Cardinality(H) -> H]
        /\ \A i, j \in DOMAIN b : i < j => b[i] # b[j] /\ b[i].slot <= b[j].slot
    BY DEF LoadOrders
  <2> HIDE DEF H, n
  <2> QED BY <1>5, <2>1
<1> HIDE DEF H, n
<1>7. \A i, j \in 1..n : i < j => b[i].slot < b[j].slot
  <2> SUFFICES ASSUME NEW i \in 1..n, NEW j \in 1..n, i < j PROVE b[i].slot < b[j].slot OBVIOUS
  <2>1. b[i] \in H /\ b[j] \in H /\ b[i] # b[j] /\ b[i].slot <= b[j].slot BY <1>6
  <2>2. b[i].slot # b[j].slot BY <2>1 DEF H
  <2>3. b[i].slot \in Nat /\ b[j].slot \in Nat BY <1>2, <2>1
  <2> QED BY <2>1, <2>2, <2>3
<1>8. \A h \in H : (\E i \in 1..n : a[i] = h) /\ (\E i \in 1..n : b[i] = h)
  <2>1. \A h \in H : \E i \in 1..n : a[i] = h BY <1>1 DEF H, Range
  <2>2. \A i, j \in 1..n : b[i] = b[j] => i = j BY <1>1, <1>6
  <2>3. b \in Injection(1..n, H) BY <1>6, <2>2 DEF Injection, IsInjective
  <2>4. b \in Surjection(1..n, H) BY <1>4, <1>5, <2>3, FS_Injection
  <2> QED BY <2>1, <2>4 DEF Surjection
<1> DEFINE D == {i \in 1..n : a[i] # b[i]}
<1>9. D = {}
  <2> SUFFICES ASSUME D # {} PROVE FALSE OBVIOUS
  <2>1. D \subseteq Nat BY <1>1
  <2> HIDE DEF D
  <2>2. PICK i \in D : \A j \in D : i <= j BY <2>1, NatMin
  <2>3. i \in 1..n /\ a[i] # b[i] /\ \A j \in 1..n : j < i => a[j] = b[j] BY <1>1, <2>2 DEF D
  <2>4. a[i] \in H /\ b[i] \in H BY <1>2, <1>6, <2>3
  <2>5. PICK j \in 1..n : b[j] = a[i] BY <1>8, <2>4
  <2>6. PICK k \in 1..n : a[k] = b[i] BY <1>8, <2>4
  <2>7. i < j /\ i < k
    <3>1. j # i /\ k # i BY <2>3, <2>5, <2>6
    <3>2. ~(j < i)
      <4>1. j < i => a[j] = a[i] BY <2>3, <2>5
      <4> QED BY <1>1, <1>3, <2>3, <4>1
    <3>3. ~(k < i)
      <4>1. k < i => b[k] = b[i] BY <2>3, <2>6
      <4>2. \A x, y \in 1..n : x < y => b[x] # b[y] BY <1>6
      <4> QED BY <1>1, <2>3, <4>1, <4>2
    <3> QED BY <1>1, <2>3, <3>1, <3>2, <3>3
  <2>8. b[i].slot < b[j].slot /\ a[i].slot < a[k].slot BY <1>7, <2>3, <2>7 DEF n
  <2>9. a[i].slot \in Nat /\ b[i].slot \in Nat BY <1>2, <2>4
  <2> QED BY <2>5, <2>6, <2>8, <2>9
<1>10. \A i \in 1..n : a[i] = b[i] BY <1>9
<1> QED BY <1>1, <1>6, <1>10

----
(* Chains. *)

LEMMA EventFields ==
  ASSUME NEW e \in Event
  PROVE  /\ e.id \in Nat /\ e.prev \in Nat /\ e.day \in Nat /\ e.slot \in Nat
         /\ e.id >= 1 /\ e.id <= MaxEvents
<1>1. MaxEvents \in Nat /\ MaxAuditDays \in Nat BY AuditAssumption
<1> QED BY <1>1 DEF Event

LEMMA CheckFields ==
  /\ \A c \in Checkpoint : /\ c.count \in Nat /\ c.last \in Nat /\ c.day \in Nat /\ c.slot \in Nat
                           /\ c.last >= 1 /\ c.last <= MaxEvents
  /\ \A e : /\ CheckOf(e).count = e.id /\ CheckOf(e).last = e.id
            /\ CheckOf(e).day = e.day /\ CheckOf(e).slot = e.slot
<1>1. MaxEvents \in Nat /\ MaxAuditDays \in Nat BY AuditAssumption
<1> QED BY <1>1 DEF Checkpoint, CheckOf

\* What the anchor of a trail says.
LEMMA AnchorParts ==
  /\ \A t : t.anchor = {} => Offset(t) = 0 /\ AnchorHash(t) = 0
  /\ \A t, c : t.anchor = {c} => Offset(t) = c.count /\ AnchorHash(t) = c.last
  BY DEF Offset, AnchorHash, Genesis

LEMMA TrailShape ==
  ASSUME NEW t \in Trails
  PROVE  /\ DOMAIN t.events = 1..Len(t.events) /\ Len(t.events) \in Nat
         /\ DOMAIN t.checkpoints = 1..Len(t.checkpoints) /\ Len(t.checkpoints) \in Nat
         /\ \A i \in 1..Len(t.events) : t.events[i] \in Event
         /\ \A i \in 1..Len(t.checkpoints) : t.checkpoints[i] \in Checkpoint
         /\ Offset(t) \in Nat
<1>1. t.events \in Seq(Event) /\ t.checkpoints \in Seq(Checkpoint) BY TrailParts
<1> QED BY <1>1, OffsetTyped

LEMMA ChainFacts ==
  ASSUME NEW t \in Trails, Chained(t)
  PROVE  /\ AnchorHash(t) = Offset(t) /\ LatestEventHash(t) = Offset(t) + Len(t.events)
         /\ VerifyReplica(t)
<1>1. AnchorHash(t) = Offset(t)
  <2>1. CASE t.anchor = {} BY <2>1, AnchorParts
  <2>2. ASSUME NEW c \in t.anchor PROVE AnchorHash(t) = Offset(t)
    <3>1. t.anchor = {c} /\ c.last = c.count BY <2>2 DEF Chained
    <3> QED BY <3>1, AnchorParts
  <2> QED BY <2>1, <2>2
<1> DEFINE n == Len(t.events)
<1>2. /\ DOMAIN t.events = 1..n /\ n \in Nat /\ Offset(t) \in Nat
      /\ DOMAIN t.checkpoints = 1..n /\ Len(t.checkpoints) = n
  BY TrailShape DEF Chained
<1>3. \A i \in 1..n : /\ t.events[i].id = Offset(t) + i /\ t.events[i].prev = Offset(t) + i - 1
                      /\ t.checkpoints[i].count = Offset(t) + i
                      /\ t.checkpoints[i].last = Offset(t) + i
  BY <1>2, CheckFields DEF Chained
<1>4. t.events = <<>> <=> n = 0 BY TrailParts
<1>5. t.checkpoints = <<>> <=> n = 0 BY <1>2, TrailParts
<1>6. n # 0 => /\ Last(t.events).id = Offset(t) + n
               /\ Last(t.checkpoints).count = Offset(t) + n /\ Last(t.checkpoints).last = Offset(t) + n
  <2>1. n # 0 => n \in 1..n BY <1>2
  <2>2. Last(t.events) = t.events[n] /\ Last(t.checkpoints) = t.checkpoints[n] BY <1>2 DEF Last
  <2> HIDE DEF n
  <2> QED BY <1>3, <2>1, <2>2
<1>7. VerifyChain(t.events, AnchorHash(t))
  <2>1. ASSUME NEW i \in 1..n
        PROVE  t.events[i].prev = IF i = 1 THEN AnchorHash(t) ELSE t.events[i - 1].id
    <3>1. CASE i = 1 BY <1>1, <1>2, <1>3, <3>1
    <3>2. CASE i # 1
      <4>1. i - 1 \in 1..n BY <1>2, <3>2
      <4> HIDE DEF n
      <4> QED BY <1>2, <1>3, <3>2, <4>1
    <3> QED BY <3>1, <3>2
  <2> QED BY <1>2, <2>1 DEF VerifyChain
<1>8. LatestEventHash(t) = Offset(t) + n BY <1>1, <1>2, <1>4, <1>6 DEF LatestEventHash
<1> HIDE DEF n
<1>9. VerifyReplica(t) BY <1>2, <1>4, <1>5, <1>6, <1>7 DEF VerifyReplica, n
<1> QED BY <1>1, <1>8, <1>9 DEF n

\* Events and checkpoints of a chain are told apart.
LEMMA ChainDistinct ==
  ASSUME NEW t \in Trails, Chained(t)
  PROVE  /\ \A i, j \in 1..Len(t.events) : t.events[i] = t.events[j] => i = j
         /\ \A i, j \in 1..Len(t.checkpoints) : t.checkpoints[i] = t.checkpoints[j] => i = j
         /\ Len(t.checkpoints) = Len(t.events)
<1>1. /\ DOMAIN t.events = 1..Len(t.events) /\ Offset(t) \in Nat
      /\ Len(t.checkpoints) = Len(t.events)
  BY TrailShape DEF Chained
<1>2. \A i \in 1..Len(t.events) : /\ t.events[i].id = Offset(t) + i
                                  /\ t.checkpoints[i].count = Offset(t) + i
  BY <1>1, CheckFields DEF Chained
<1>3. ASSUME NEW i \in 1..Len(t.events), NEW j \in 1..Len(t.events),
             t.events[i] = t.events[j] \/ t.checkpoints[i] = t.checkpoints[j]
      PROVE  i = j
  <2>1. Offset(t) + i = Offset(t) + j BY <1>2, <1>3
  <2> QED BY <1>1, <2>1
<1> QED BY <1>1, <1>3

\* An event with the next number, not before the others, goes on the chain.
LEMMA ChainAppends ==
  ASSUME NEW t \in Trails, Chained(t), NEW e \in Event,
         e.id = Offset(t) + Len(t.events) + 1, e.prev = Offset(t) + Len(t.events),
         \A f \in Range(t.events) : f.day <= e.day /\ f.slot <= e.slot,
         NEW u, u = AppendWithSigner(t, e)
  PROVE  /\ u \in Trails /\ Chained(u) /\ u.anchor = t.anchor /\ Offset(u) = Offset(t)
         /\ u.events = Append(t.events, e) /\ u.checkpoints = Append(t.checkpoints, CheckOf(e))
<1>1. t.events \in Seq(Event) /\ t.checkpoints \in Seq(Checkpoint) BY TrailParts
<1> DEFINE n == Len(t.events)
<1>2. /\ Append(t.events, e) \in Seq(Event) /\ Len(Append(t.events, e)) = n + 1 /\ n \in Nat
      /\ \A i \in 1..n : Append(t.events, e)[i] = t.events[i]
      /\ Append(t.events, e)[n + 1] = e
  BY <1>1, AppendParts
<1>3. e.id \in 1..MaxEvents /\ CheckOf(e) \in Checkpoint BY EventFields DEF Checkpoint, CheckOf, Event
<1>4. /\ Len(t.checkpoints) = n
      /\ Len(Append(t.checkpoints, CheckOf(e))) = n + 1
      /\ \A i \in 1..n : Append(t.checkpoints, CheckOf(e))[i] = t.checkpoints[i]
      /\ Append(t.checkpoints, CheckOf(e))[n + 1] = CheckOf(e)
  BY <1>1, <1>3, AppendParts DEF Chained
<1>5. u \in Trails BY AppendTyped
<1>6. u = [t EXCEPT !.events = Append(t.events, e),
                    !.checkpoints = Append(t.checkpoints, CheckOf(e))]
  <2>1. Offset(t) + Len(Append(t.events, e)) = e.id BY <1>2, TrailShape
  <2> QED BY <2>1 DEF AppendWithSigner, CheckOf
<1>7. /\ u.events = Append(t.events, e) /\ u.checkpoints = Append(t.checkpoints, CheckOf(e))
      /\ u.anchor = t.anchor
  BY <1>6 DEF Trails
<1>8. Offset(u) = Offset(t) /\ Offset(t) \in Nat BY <1>7, OffsetTyped DEF Offset
<1>9. DOMAIN u.events = 1..(n + 1) /\ DOMAIN t.events = 1..n BY <1>1, <1>2, <1>7
<1>10. \A i \in 1..n : /\ u.events[i] = t.events[i] /\ u.checkpoints[i] = t.checkpoints[i]
  BY <1>2, <1>4, <1>7
<1>11. u.events[n + 1] = e /\ u.checkpoints[n + 1] = CheckOf(e) BY <1>2, <1>4, <1>7
<1>12. \A i \in 1..n : /\ t.events[i].id = Offset(t) + i /\ t.events[i].prev = Offset(t) + i - 1
                       /\ t.checkpoints[i] = CheckOf(t.events[i])
  BY <1>9 DEF Chained
<1>13. \A i \in 1..n : t.events[i] \in Range(t.events) /\ t.events[i] \in Event BY <1>1, <1>9 DEF Range
<1>14. Chained(u)
  <2>1. \A c \in u.anchor : u.anchor = {c} /\ c.last = c.count BY <1>7 DEF Chained
  <2>2. Len(u.checkpoints) = Len(u.events) BY <1>2, <1>4, <1>7
  <2>3. ASSUME NEW i \in 1..(n + 1)
        PROVE  /\ u.events[i].id = Offset(u) + i /\ u.events[i].prev = Offset(u) + i - 1
               /\ u.checkpoints[i] = CheckOf(u.events[i])
    <3>1. CASE i \in 1..n BY <1>8, <1>10, <1>12, <3>1
    <3>2. CASE i = n + 1
      <4>1. e.id = Offset(t) + n + 1 /\ e.prev = Offset(t) + n /\ n \in Nat BY <1>2
      <4> HIDE DEF n
      <4>2. Offset(t) + i = e.id /\ Offset(t) + i - 1 = e.prev BY <1>8, <3>2, <4>1
      <4> QED BY <1>8, <1>11, <3>2, <4>2
    <3> HIDE DEF n
    <3> QED BY <1>2, <3>1, <3>2
  <2>4. ASSUME NEW i \in 1..(n + 1), NEW j \in 1..(n + 1), i <= j
        PROVE  u.events[i].day <= u.events[j].day /\ u.events[i].slot <= u.events[j].slot
    <3>1. CASE i \in 1..n /\ j \in 1..n BY <1>9, <1>10, <2>4, <3>1 DEF Chained
    <3>2. CASE i \in 1..n /\ j = n + 1 BY <1>10, <1>11, <1>13, <3>2
    <3>3. CASE i = n + 1 /\ j = n + 1 BY <1>11, <3>3, EventFields
    <3> HIDE DEF n
    <3> QED BY <1>2, <2>4, <3>1, <3>2, <3>3
  <2> HIDE DEF n
  <2> QED BY <1>9, <2>1, <2>2, <2>3, <2>4 DEF Chained
<1> QED BY <1>5, <1>7, <1>8, <1>14

\* Archiving up to the checkpoint of its k-th event takes the first k events off.
LEMMA ChainArchives ==
  ASSUME NEW t \in Trails, Chained(t), NEW k \in 1..Len(t.events), NEW b, b = t.checkpoints[k]
  PROVE  /\ b \in Checkpoint /\ b.count = Offset(t) + k /\ b.last = b.count
         /\ ArchivedEvents(t, b) = k /\ ArchivedChecks(t, b) = k
<1> DEFINE n == Len(t.events)
<1>1. /\ DOMAIN t.events = 1..n /\ n \in Nat /\ Offset(t) \in Nat /\ Len(t.checkpoints) = n
      /\ \A i \in 1..n : t.checkpoints[i] \in Checkpoint
  BY TrailShape DEF Chained
<1>2. \A i \in 1..n : t.checkpoints[i].count = Offset(t) + i /\ t.checkpoints[i].last = Offset(t) + i
  BY <1>1, CheckFields DEF Chained
<1>3. b \in Checkpoint /\ b.count = Offset(t) + k /\ b.last = b.count BY <1>1, <1>2
<1>4. ArchivedEvents(t, b) = k
  <2>1. b.count - Offset(t) = k /\ k \in Nat /\ k >= 1 BY <1>1, <1>3
  <2>2. Max({0, k}) = k
    <3>1. \E m \in {0, k} : \A y \in {0, k} : m >= y BY <2>1
    <3>2. Max({0, k}) \in {0, k} /\ Max({0, k}) >= k BY <3>1 DEF Max
    <3> QED BY <2>1, <3>2
  <2> QED BY <2>1, <2>2 DEF ArchivedEvents
<1> DEFINE later == {i \in 1..Len(t.checkpoints) : t.checkpoints[i].count > b.count}
<1>5. \A i : i \in later <=> i \in 1..n /\ i > k BY <1>1, <1>2, <1>3
<1>6. ArchivedChecks(t, b) = IF later = {} THEN n ELSE Min(later) - 1 BY <1>1 DEF ArchivedChecks
<1> HIDE DEF later, n
<1>7. CASE later = {}
  <2>1. k = n
    <3>1. k + 1 \notin later BY <1>7
    <3> QED BY <1>1, <1>5, <3>1 DEF n
  <2> QED BY <1>3, <1>4, <1>6, <1>7, <2>1
<1>8. CASE later # {}
  <2>1. k + 1 \in later /\ \A i \in later : k + 1 <= i /\ i \in Nat
    <3>1. PICK i \in later : TRUE BY <1>8
    <3>2. k + 1 \in 1..n BY <1>1, <1>5, <3>1 DEF n
    <3> QED BY <1>1, <1>5, <3>2
  <2>2. Min(later) \in later /\ Min(later) <= k + 1 BY <2>1 DEF Min
  <2>3. Min(later) = k + 1 BY <2>1, <2>2
  <2> QED BY <1>1, <1>3, <1>4, <1>6, <1>8, <2>3
<1> QED BY <1>7, <1>8

LEMMA ArchivedChain ==
  ASSUME NEW t \in Trails, Chained(t), NEW k \in 1..Len(t.events), NEW b, b = t.checkpoints[k],
         NEW u, u = ApplyArchiveBoundary(t, b)
  PROVE  /\ u \in Trails /\ Chained(u) /\ u.anchor = {b} /\ Offset(u) = Offset(t) + k
         /\ u.events = SubSeq(t.events, k + 1, Len(t.events))
         /\ u.checkpoints = SubSeq(t.checkpoints, k + 1, Len(t.checkpoints))
         /\ Len(u.events) = Len(t.events) - k
<1> DEFINE n == Len(t.events)
<1>1. /\ DOMAIN t.events = 1..n /\ n \in Nat /\ Offset(t) \in Nat /\ Len(t.checkpoints) = n
      /\ t.events \in Seq(Event) /\ t.checkpoints \in Seq(Checkpoint)
  BY TrailShape, TrailParts DEF Chained
<1>2. /\ b \in Checkpoint /\ b.count = Offset(t) + k /\ b.last = b.count
      /\ ArchivedEvents(t, b) = k /\ ArchivedChecks(t, b) = k
  BY ChainArchives
<1>3. Min({k, n}) = k
  <2>1. k \in Nat /\ k <= n BY <1>1
  <2>2. Min({k, n}) \in {k, n} /\ Min({k, n}) <= k
    <3>1. \E x \in {k, n} : \A y \in {k, n} : x <= y BY <1>1, <2>1
    <3>2. Min({k, n}) \in {k, n} /\ \A y \in {k, n} : Min({k, n}) <= y BY <3>1 DEF Min
    <3> QED BY <3>2
  <2> QED BY <1>1, <2>1, <2>2
<1> DEFINE evs == SubSeq(t.events, k + 1, n)
           cps == SubSeq(t.checkpoints, k + 1, Len(t.checkpoints))
<1>4. u.anchor = {b} /\ u.events = evs /\ u.checkpoints = cps
  <2>1. u = [anchor |-> {b}, events |-> evs, checkpoints |-> cps] BY <1>2, <1>3 DEF ApplyArchiveBoundary
  <2> HIDE DEF evs, cps
  <2> QED BY <2>1
<1>5. u \in Trails BY <1>2, ArchiveBoundaryTyped
<1>6. Offset(u) = Offset(t) + k
  <2>1. u.anchor = {b} BY <1>4
  <2> QED BY <1>2, <2>1, AnchorParts
<1>7. k \in 0..n BY <1>1
<1>8. /\ Len(u.events) = n - k /\ DOMAIN u.events = 1..(n - k)
      /\ \A i \in 1..(n - k) : u.events[i] = t.events[k + i]
  BY <1>1, <1>4, <1>7, SuffixParts
<1>9. /\ Len(u.checkpoints) = n - k
      /\ \A i \in 1..(n - k) : u.checkpoints[i] = t.checkpoints[k + i]
  BY <1>1, <1>4, <1>7, SuffixParts
<1>10. Chained(u)
  <2>1. \A i \in 1..(n - k) : k + i \in 1..n BY <1>1
  <2>2. \A i \in 1..n : /\ t.events[i].id = Offset(t) + i /\ t.events[i].prev = Offset(t) + i - 1
                        /\ t.checkpoints[i] = CheckOf(t.events[i])
    BY <1>1 DEF Chained
  <2>3. \A i, j \in 1..n : i <= j =>
          t.events[i].day <= t.events[j].day /\ t.events[i].slot <= t.events[j].slot
    BY <1>1 DEF Chained
  <2> HIDE DEF n
  <2>4. ASSUME NEW i \in 1..(n - k)
        PROVE  /\ u.events[i].id = Offset(u) + i /\ u.events[i].prev = Offset(u) + i - 1
               /\ u.checkpoints[i] = CheckOf(u.events[i])
    <3>1. u.events[i] = t.events[k + i] /\ u.checkpoints[i] = t.checkpoints[k + i] BY <1>8, <1>9
    <3>2. Offset(t) + (k + i) = Offset(u) + i /\ Offset(t) + (k + i) - 1 = Offset(u) + i - 1 BY <1>1, <1>6
    <3>3. /\ t.events[k + i].id = Offset(t) + (k + i)
          /\ t.events[k + i].prev = Offset(t) + (k + i) - 1
          /\ t.checkpoints[k + i] = CheckOf(t.events[k + i])
      BY <2>1, <2>2
    <3>4. /\ u.events[i].id = Offset(t) + (k + i)
          /\ u.events[i].prev = Offset(t) + (k + i) - 1
          /\ u.checkpoints[i] = CheckOf(u.events[i])
      BY <3>1, <3>3
    <3> QED BY <3>2, <3>4, Zenon
  <2>5. ASSUME NEW i \in 1..(n - k), NEW j \in 1..(n - k), i <= j
        PROVE  u.events[i].day <= u.events[j].day /\ u.events[i].slot <= u.events[j].slot
    <3>1. k + i <= k + j /\ k + i \in 1..n /\ k + j \in 1..n BY <1>1, <2>1, <2>5
    <3> QED BY <1>8, <2>3, <3>1
  <2>6. u.anchor = {b} /\ b.last = b.count BY <1>2, <1>4
  <2> QED BY <1>8, <1>9, <2>4, <2>5, <2>6 DEF Chained
<1> QED BY <1>4, <1>5, <1>6, <1>8, <1>10

----
(* Which step changes what. *)

RecordStep   == \E w \in Writers, kind \in AuditKinds : RecordAuditEvent(w, kind)
PersistStep  == \E w \in Writers : PersistAuditAppend(w)
FinalizeStep == \E w \in Writers : FinalizeAuditEvent(w)
DeletionStep == \E w \in Writers : SealDeletion(w) \/ \E op \in {"delete", "purge"} : StartDeletion(w, op)
PublishStep  == \E e \in forwards : PublishExternalAuditForward(e)

LEMMA StepCases ==
  ASSUME [AuditNext]_auditVars
  PROVE  \/ RecordStep \/ PersistStep \/ FinalizeStep \/ DeletionStep \/ PublishStep
         \/ StartRetention \/ RunAuditRetention \/ AuditTick \/ AuditRestart
         \/ UNCHANGED auditVars
  BY DEF AuditNext, RecordStep, PersistStep, FinalizeStep, DeletionStep, PublishStep

LEMMA Frames ==
  ASSUME [AuditNext]_auditVars
  PROVE  /\ \/ PersistStep \/ RunAuditRetention
            \/ UNCHANGED <<hotEvents, hotChecks, inserted, replica>>
         /\ StartRetention \/ RunAuditRetention \/ AuditRestart \/ UNCHANGED <<boundaries, retention>>
         /\ \/ RecordStep \/ PersistStep \/ FinalizeStep \/ DeletionStep \/ AuditRestart
            \/ UNCHANGED appends
         /\ RecordStep \/ RunAuditRetention \/ AuditRestart \/ UNCHANGED trail
         /\ RecordStep \/ UNCHANGED auditCount
         /\ AuditTick \/ UNCHANGED auditDay
         /\ FinalizeStep \/ PublishStep \/ AuditRestart \/ UNCHANGED forwards
         /\ PublishStep \/ UNCHANGED <<deliveries, received>>
         /\ FinalizeStep \/ StartRetention \/ AuditRestart \/ UNCHANGED retentionTasks
         /\ DeletionStep \/ UNCHANGED deletionRecords
         /\ UNCHANGED forwarder
<1>1. CASE RecordStep BY <1>1 DEF RecordStep, RecordAuditEvent, storeVars, forwardVars
<1>2. CASE PersistStep BY <1>2 DEF PersistStep, PersistAuditAppend, forwardVars, clockVars
<1>3. CASE FinalizeStep BY <1>3 DEF FinalizeStep, FinalizeAuditEvent, storeVars, clockVars
<1>4. CASE DeletionStep
  BY <1>4 DEF DeletionStep, SealDeletion, StartDeletion, storeVars, clockVars, forwardVars
<1>5. CASE PublishStep BY <1>5 DEF PublishStep, PublishExternalAuditForward, storeVars, clockVars
<1>6. CASE StartRetention BY <1>6 DEF StartRetention, storeVars, clockVars, forwardVars
<1>7. CASE RunAuditRetention BY <1>7 DEF RunAuditRetention, clockVars, forwardVars
<1>8. CASE AuditTick BY <1>8 DEF AuditTick, storeVars, forwardVars
<1>9. CASE AuditRestart BY <1>9 DEF AuditRestart, storeVars, clockVars
<1>10. CASE UNCHANGED auditVars BY <1>10 DEF auditVars
<1> QED BY <1>1, <1>2, <1>3, <1>4, <1>5, <1>6, <1>7, <1>8, <1>9, <1>10, StepCases

\* What a step of an append changes.
LEMMA PersistParts ==
  ASSUME NEW w \in Writers, PersistAuditAppend(w), AppendsOK
  PROVE  \/ /\ appends[w].pc = "event" /\ appends' = [appends EXCEPT ![w].pc = "checkpoint"]
            /\ hotEvents' = hotEvents \cup appends[w].event
            /\ inserted' = inserted \cup appends[w].event
            /\ UNCHANGED <<hotChecks, replica, auditClean>>
         \/ /\ appends[w].pc = "checkpoint" /\ appends' = [appends EXCEPT ![w].pc = "replica"]
            /\ hotChecks' = hotChecks \cup appends[w].checkpoint
            /\ UNCHANGED <<hotEvents, inserted, replica, auditClean>>
         \/ /\ appends[w].pc = "replica" /\ appends' = [appends EXCEPT ![w].pc = "spawn"]
            /\ replica' = appends[w].copy
            /\ UNCHANGED <<hotEvents, inserted, hotChecks, auditClean>>
         \/ /\ appends[w].pc \in {"event", "checkpoint", "replica"}
            /\ appends' = [appends EXCEPT ![w].pc = "spawn"]
            /\ auditClean' = FALSE
            /\ UNCHANGED <<hotEvents, inserted, hotChecks, replica>>
  BY DEF PersistAuditAppend, InsertAuditEvent, InsertAuditCheckpoint, WriteReplicaFile

\* Which steps of a run change what.
LEMMA RunTouches ==
  ASSUME RunAuditRetention
  PROVE  /\ DeleteAuditEvents \/ UNCHANGED hotEvents
         /\ DeleteAuditCheckpoints \/ UNCHANGED hotChecks
         /\ DeactivateBoundaries \/ InsertBoundary \/ UNCHANGED boundaries
         /\ ApplyBoundaryInMemory \/ UNCHANGED trail
         /\ PersistAuditReplica \/ UNCHANGED replica
         /\ RetentionFails \/ UNCHANGED auditClean
         /\ UNCHANGED inserted
<1>1. CASE RetentionFails BY <1>1 DEF RetentionFails, RunAuditRetention, storeVars
<1>2. CASE WriteArchiveBundleFile \/ InsertArchiveBundle \/ DeactivateBoundaries \/ InsertBoundary
  BY <1>2 DEF WriteArchiveBundleFile, InsertArchiveBundle, DeactivateBoundaries, InsertBoundary,
              RunAuditRetention
<1>3. CASE DeleteAuditEvents \/ DeleteAuditCheckpoints
  BY <1>3 DEF DeleteAuditEvents, DeleteAuditCheckpoints, RunAuditRetention
<1>4. CASE \/ ApplyBoundaryInMemory \/ PersistAuditReplica \/ EndRetention
           \/ CleanupExpiredAuditArchives
  BY <1>4 DEF ApplyBoundaryInMemory, PersistAuditReplica, EndRetention,
              CleanupExpiredAuditArchives, RunAuditRetention, storeVars
<1> QED BY <1>1, <1>2, <1>3, <1>4 DEF RunAuditRetention

LEMMA RowsKept ==
  ASSUME AuditInv, Rows, [AuditNext]_auditVars
  PROVE  Rows'
<1>1. CASE UNCHANGED <<hotEvents, hotChecks, inserted, replica>> BY <1>1 DEF Rows
<1>2. CASE PersistStep
  <2>1. PICK w \in Writers : PersistAuditAppend(w) BY <1>2 DEF PersistStep
  <2>2. AppendsOK /\ appends[w].copy \in Trails BY DEF AuditInv, AppendsOK, AppendRecord
  <2> QED BY <2>1, <2>2, PersistParts DEF Rows
<1>3. CASE RunAuditRetention
  <2>1. hotEvents' \subseteq hotEvents /\ UNCHANGED inserted BY <1>3, RunTouches DEF DeleteAuditEvents
  <2>2. CASE PersistAuditReplica
    <3>1. retention.pc = "replica" /\ replica' = Planned BY <2>2 DEF PersistAuditReplica
    <3>2. PICK t \in Trails : retention.bundle = {t} BY <3>1 DEF AuditInv, RunOK
    <3>3. Planned = t BY <3>2 DEF Planned
    <3> QED BY <2>1, <3>1, <3>2, <3>3 DEF Rows
  <2> QED BY <1>3, <2>1, <2>2, RunTouches DEF Rows
<1> QED BY <1>1, <1>2, <1>3, Frames

----
(* A retention run, step by step. *)

Moves(from, to) == retention.pc = from /\ retention'.pc = to /\ Planned' = Planned

LEMMA RunMoves ==
  ASSUME RunOK, RunAuditRetention
  PROVE  \/ /\ retention.pc \in {"file", "bundle", "deactivate", "cleanup"} \cup (Critical \ {"memory"})
            /\ retention'.pc = "release" /\ auditClean' = (auditClean /\ retention.pc \notin Critical)
            /\ UNCHANGED <<hotEvents, hotChecks, boundaries, trail, replica>>
         \/ /\ Moves("file", "bundle") \/ Moves("bundle", "deactivate")
            /\ UNCHANGED <<hotEvents, hotChecks, boundaries, trail, replica, auditClean>>
         \/ /\ Moves("deactivate", "boundary")
            /\ boundaries' = {[b EXCEPT !.active = FALSE] : b \in boundaries}
            /\ UNCHANGED <<hotEvents, hotChecks, trail, replica, auditClean>>
         \/ /\ Moves("boundary", "release") /\ \E b \in boundaries : b.checkpoint = Planned.boundary
            /\ UNCHANGED <<hotEvents, hotChecks, boundaries, trail, replica, auditClean>>
         \/ /\ Moves("boundary", "events")
            /\ boundaries' = boundaries \cup {[checkpoint |-> Planned.boundary, active |-> TRUE]}
            /\ UNCHANGED <<hotEvents, hotChecks, trail, replica, auditClean>>
         \/ /\ Moves("events", "checkpoints") /\ hotEvents' = hotEvents \ Range(Planned.events)
            /\ UNCHANGED <<hotChecks, boundaries, trail, replica, auditClean>>
         \/ /\ Moves("checkpoints", "memory") /\ hotChecks' = hotChecks \ Range(Planned.checkpoints)
            /\ UNCHANGED <<hotEvents, boundaries, trail, replica, auditClean>>
         \/ /\ retention.pc = "memory" /\ retention'.pc = "replica" /\ Planned' = trail'
            /\ trail' = ApplyArchiveBoundary(trail, Planned.boundary)
            /\ UNCHANGED <<hotEvents, hotChecks, boundaries, replica, auditClean>>
         \/ /\ retention.pc = "replica" /\ retention'.pc = "cleanup" /\ replica' = Planned
            /\ UNCHANGED <<hotEvents, hotChecks, boundaries, trail, auditClean>>
         \/ /\ retention.pc \in {"cleanup", "release"} /\ retention'.pc \in {"release", "idle"}
            /\ UNCHANGED <<hotEvents, hotChecks, boundaries, trail, replica, auditClean>>
<1>1. \A pc \in RunSteps : GoesTo(pc) => retention'.pc = pc /\ Planned' = Planned
  BY DEF GoesTo, RunOK, Planned
<1>2. CASE RetentionFails BY <1>1, <1>2 DEF RetentionFails, storeVars, RunSteps, Critical
<1>3. CASE WriteArchiveBundleFile BY <1>1, <1>3 DEF WriteArchiveBundleFile, Moves, RunSteps
<1>10. CASE InsertArchiveBundle BY <1>1, <1>10 DEF InsertArchiveBundle, Moves, RunSteps
<1>4. CASE DeactivateBoundaries BY <1>1, <1>4 DEF DeactivateBoundaries, Moves, RunSteps
<1>11. CASE InsertBoundary BY <1>1, <1>11 DEF InsertBoundary, Moves, RunSteps
<1>5. CASE DeleteAuditEvents BY <1>1, <1>5 DEF DeleteAuditEvents, Moves, RunSteps
<1>12. CASE DeleteAuditCheckpoints BY <1>1, <1>12 DEF DeleteAuditCheckpoints, Moves, RunSteps
<1>6. CASE ApplyBoundaryInMemory
  <2>1. retention' = [retention EXCEPT !.pc = "replica", !.bundle = {trail'}]
    BY <1>6 DEF ApplyBoundaryInMemory
  <2>2. retention'.pc = "replica" /\ retention'.bundle = {trail'} BY <2>1 DEF RunOK
  <2>3. Planned' = trail' BY <2>2 DEF Planned
  <2> QED BY <1>6, <2>2, <2>3 DEF ApplyBoundaryInMemory, storeVars
<1>7. CASE PersistAuditReplica
  <2>1. retention' = [retention EXCEPT !.pc = "cleanup", !.bundle = {}] BY <1>7 DEF PersistAuditReplica
  <2>2. retention'.pc = "cleanup" BY <2>1 DEF RunOK
  <2> QED BY <1>7, <2>2 DEF PersistAuditReplica, storeVars
<1>8. CASE CleanupExpiredAuditArchives BY <1>1, <1>8 DEF CleanupExpiredAuditArchives, RunSteps
<1>9. CASE EndRetention BY <1>9 DEF EndRetention, NoRun, storeVars
<1> QED BY <1>2, <1>3, <1>4, <1>5, <1>6, <1>7, <1>8, <1>9, <1>10, <1>11,
           <1>12 DEF RunAuditRetention

\* Where a run begins.
LEMMA StartMoves ==
  ASSUME StartRetention
  PROVE  /\ retentionTasks > 0 /\ retentionTasks' = retentionTasks - 1
         /\ UNCHANGED <<trail, hotEvents, hotChecks, boundaries, appends, auditClean>>
         /\ \/ UNCHANGED retention
            \/ /\ retention.pc = "idle" /\ retention'.pc \in {"cleanup", "file", "release"}
               /\ retention'.pc = "file" => \E p \in retention'.bundle : TRUE
               /\ retention'.bundle = BuildArchivePlan(trail, auditDay)
  BY DEF StartRetention, storeVars

\* Only the restart and the run end what is active.
LEMMA OneBoundaryKept ==
  ASSUME AuditInv, OneBoundary, [AuditNext]_auditVars
  PROVE  OneBoundary'
<1>1. RunOK BY DEF AuditInv
<1>2. CASE UNCHANGED <<boundaries, retention>>
  <2>1. ActiveBoundary' = ActiveBoundary /\ Planned' = Planned BY <1>2 DEF ActiveBoundary, Planned
  <2> QED BY <1>2, <2>1 DEF OneBoundary
<1>3. ASSUME UNCHANGED boundaries, retention'.pc \notin Inserted \cup {"boundary"}
      PROVE  OneBoundary'
  <2>1. ActiveBoundary' = ActiveBoundary BY <1>3 DEF ActiveBoundary
  <2> QED BY <1>3, <2>1 DEF OneBoundary, Inserted
<1>4. CASE StartRetention BY <1>2, <1>3, <1>4, StartMoves DEF Inserted
<1>5. CASE AuditRestart BY <1>3, <1>5 DEF AuditRestart, storeVars, NoRun, Inserted
<1>6. CASE RunAuditRetention
  <2>1. CASE UNCHANGED boundaries /\ retention'.pc \notin Inserted \cup {"boundary"} BY <1>3, <2>1
  <2>2. CASE /\ Moves("deactivate", "boundary")
             /\ boundaries' = {[b EXCEPT !.active = FALSE] : b \in boundaries}
    <3>1. \A b \in boundaries : [b EXCEPT !.active = FALSE].active = FALSE BY DEF AuditInv, StoreOK
    <3>2. ActiveBoundary' = {} BY <2>2, <3>1 DEF ActiveBoundary
    <3> QED BY <2>2, <3>2 DEF OneBoundary, Moves, Inserted
  <2>3. CASE /\ Moves("boundary", "events")
             /\ boundaries' = boundaries \cup {[checkpoint |-> Planned.boundary, active |-> TRUE]}
    <3>1. ActiveBoundary = {} BY <2>3 DEF OneBoundary, Moves
    <3> DEFINE r == [checkpoint |-> Planned.boundary, active |-> TRUE]
    <3>4. \A b \in boundaries : ~ b.active BY <3>1 DEF ActiveBoundary
    <3>5. r.active /\ r.checkpoint = Planned.boundary /\ boundaries' = boundaries \cup {r} BY <2>3
    <3> HIDE DEF r
    <3>6. {x \in boundaries' : x.active} = {r} BY <3>4, <3>5
    <3>2. ActiveBoundary' = {Planned.boundary} BY <3>5, <3>6 DEF ActiveBoundary
    <3>3. retention'.pc = "events" /\ Planned' = Planned BY <2>3 DEF Moves
    <3> QED BY <3>2, <3>3 DEF OneBoundary
  <2>4. CASE /\ Moves("events", "checkpoints") \/ Moves("checkpoints", "memory")
             /\ UNCHANGED boundaries
    <3>1. ActiveBoundary' = ActiveBoundary BY <2>4 DEF ActiveBoundary
    <3> QED BY <2>4, <3>1 DEF OneBoundary, Moves, Inserted
  <2> QED BY <1>1, <1>6, <2>1, <2>2, <2>3, <2>4, RunMoves DEF Inserted, Moves
<1> QED BY <1>2, <1>4, <1>5, <1>6, Frames

----
(* Numbers. *)

LEMMA AppendShape ==
  ASSUME NEW t \in Trails, NEW e \in Event, NEW u, u = AppendWithSigner(t, e)
  PROVE  /\ u.anchor = t.anchor /\ Range(u.events) = Range(t.events) \cup {e}
         /\ Range(u.checkpoints) = Range(t.checkpoints) \cup {Last(u.checkpoints)}
         /\ Last(u.checkpoints).last = e.id /\ Last(u.checkpoints).day = e.day
<1> DEFINE c == [count |-> Offset(t) + Len(Append(t.events, e)), last |-> e.id,
                 day |-> e.day, slot |-> e.slot]
<1>1. t.events \in Seq(Event) /\ t.checkpoints \in Seq(Checkpoint) BY TrailParts
<1>2. u = [t EXCEPT !.events = Append(t.events, e), !.checkpoints = Append(t.checkpoints, c)]
  BY DEF AppendWithSigner
<1>3. c.last = e.id /\ c.day = e.day OBVIOUS
<1> HIDE DEF c
<1>4. /\ u.events = Append(t.events, e) /\ u.checkpoints = Append(t.checkpoints, c)
      /\ u.anchor = t.anchor
  BY <1>2 DEF Trails
<1>5. c = Last(u.checkpoints) /\ c \in Checkpoint
  <2>1. Last(u.checkpoints) \in Checkpoint BY AppendTyped
  <2>2. Last(Append(t.checkpoints, c)) = c
    <3>1. t.checkpoints \in Seq(Checkpoint \cup {c}) BY <1>1
    <3> QED BY <3>1, AppendParts
  <2> QED BY <1>4, <2>1, <2>2
<1>6. Range(u.checkpoints) = Range(t.checkpoints) \cup {c} BY <1>1, <1>4, <1>5, AppendParts
<1>7. Range(u.events) = Range(t.events) \cup {e} BY <1>1, <1>4, AppendParts
<1> QED BY <1>3, <1>4, <1>5, <1>6, <1>7

LEMMA SuffixShape ==
  ASSUME NEW S, NEW s \in Seq(S), NEW k \in 0..Len(s), NEW q, q = SubSeq(s, k + 1, Len(s))
  PROVE  /\ Range(q) \subseteq Range(s)
         /\ q # <<>> => s # <<>> /\ Last(q) = Last(s)
<1>1. /\ q \in Seq(S) /\ Len(q) = Len(s) - k /\ Len(s) \in Nat /\ DOMAIN q = 1..(Len(s) - k)
      /\ \A i \in 1..(Len(s) - k) : q[i] = s[k + i]
  BY SuffixParts
<1>2. \A i \in 1..(Len(s) - k) : k + i \in DOMAIN s BY <1>1
<1>3. Range(q) \subseteq Range(s) BY <1>1, <1>2 DEF Range
<1>4. ASSUME q # <<>> PROVE s # <<>> /\ Last(q) = Last(s)
  <2>1. Len(s) - k \in 1..(Len(s) - k) BY <1>1, <1>4
  <2>2. q[Len(s) - k] = s[k + (Len(s) - k)] /\ k + (Len(s) - k) = Len(s) BY <1>1, <2>1
  <2>3. Last(q) = q[Len(s) - k] /\ Last(s) = s[Len(s)] BY <1>1 DEF Last
  <2>4. s # <<>> BY <2>1
  <2> QED BY <2>2, <2>3, <2>4
<1> QED BY <1>3, <1>4

LEMMA ArchiveShape ==
  ASSUME NEW t \in Trails, NEW b \in Checkpoint, NEW u, u = ApplyArchiveBoundary(t, b)
  PROVE  /\ u.anchor = {b} /\ Range(u.events) \subseteq Range(t.events)
         /\ Range(u.checkpoints) \subseteq Range(t.checkpoints)
         /\ u.checkpoints # <<>> => t.checkpoints # <<>> /\ Last(u.checkpoints) = Last(t.checkpoints)
<1> DEFINE n == Min({ArchivedEvents(t, b), Len(t.events)})
           m == ArchivedChecks(t, b)
<1>1. t.events \in Seq(Event) /\ t.checkpoints \in Seq(Checkpoint) BY TrailParts
<1>2. n \in 0..Len(t.events)
  <2>1. ArchivedEvents(t, b) \in Nat /\ Len(t.events) \in Nat BY <1>1, ArchivedTyped
  <2>2. \E x \in {ArchivedEvents(t, b), Len(t.events)} :
          \A y \in {ArchivedEvents(t, b), Len(t.events)} : x <= y
    BY <2>1
  <2>3. /\ n \in {ArchivedEvents(t, b), Len(t.events)}
        /\ \A y \in {ArchivedEvents(t, b), Len(t.events)} : n <= y
    BY <2>2 DEF Min
  <2> HIDE DEF n
  <2> QED BY <2>1, <2>3
<1>3. m \in 0..Len(t.checkpoints) BY ArchivedTyped
<1>4. u = [anchor |-> {b}, events |-> SubSeq(t.events, n + 1, Len(t.events)),
           checkpoints |-> SubSeq(t.checkpoints, m + 1, Len(t.checkpoints))]
  BY DEF ApplyArchiveBoundary
<1> HIDE DEF n, m
<1> DEFINE evs == SubSeq(t.events, n + 1, Len(t.events))
           cps == SubSeq(t.checkpoints, m + 1, Len(t.checkpoints))
<1>6. u = [anchor |-> {b}, events |-> evs, checkpoints |-> cps] BY <1>4
<1> HIDE DEF evs, cps
<1>7. u.anchor = {b} /\ u.events = evs /\ u.checkpoints = cps BY <1>6
<1>5. /\ u.anchor = {b} /\ u.events = SubSeq(t.events, n + 1, Len(t.events))
      /\ u.checkpoints = SubSeq(t.checkpoints, m + 1, Len(t.checkpoints))
  BY <1>7 DEF evs, cps
<1> QED BY <1>1, <1>2, <1>3, <1>5, SuffixShape

\* A plan ends at a checkpoint of the chain.
LEMMA PlanBoundary ==
  ASSUME trail \in Trails, NEW p \in BuildArchivePlan(trail, auditDay), auditDay \in Nat
  PROVE  /\ p.boundary \in Range(trail.checkpoints)
         /\ Max(BoundaryCandidates(trail, auditDay)) \in BoundaryCandidates(trail, auditDay)
<1> DEFINE candidates == BoundaryCandidates(trail, auditDay)
<1>1. trail.checkpoints \in Seq(Checkpoint) BY TrailParts
<1>2. candidates # {} /\ p.boundary = trail.checkpoints[Max(candidates)] BY DEF BuildArchivePlan
<1>3. candidates \subseteq DOMAIN trail.checkpoints BY DEF BoundaryCandidates
<1>4. candidates \subseteq 0..Len(trail.checkpoints) /\ Len(trail.checkpoints) \in Nat BY <1>1, <1>3
<1>5. Max(candidates) \in candidates BY <1>2, <1>4, MaxOfBounded
<1> QED BY <1>2, <1>3, <1>5 DEF Range

\* What an append does to the clock and the chain.
LEMMA RecordParts ==
  ASSUME AuditInv, NEW w \in Writers, NEW kind \in AuditKinds, RecordAuditEvent(w, kind)
  PROVE  \E e \in Event :
           /\ e = NewEvent(kind, auditSlot') /\ e.id = auditCount + 1 /\ e.day = auditDay
           /\ e.slot = auditSlot' /\ e.prev = LatestEventHash(trail)
           /\ trail' = AppendWithSigner(trail, e) /\ trail \in Trails /\ trail' \in Trails
           /\ appends' = [appends EXCEPT ![w] = [appends[w] EXCEPT
                            !.pc = "event", !.event = {e},
                            !.checkpoint = {Last(trail'.checkpoints)}, !.copy = trail']]
           /\ auditCount \in Nat /\ auditCount' = auditCount + 1 /\ UNCHANGED auditDay
           /\ auditSlot \in Nat /\ auditSlot' \in {auditSlot, auditSlot + 1}
           /\ appends[w].pc \in {"idle", "deleting"}
<1> DEFINE e == NewEvent(kind, auditSlot')
<1>1. /\ trail' = AppendWithSigner(trail, e)
      /\ appends' = [appends EXCEPT ![w] = [appends[w] EXCEPT
                       !.pc = "event", !.event = {e},
                       !.checkpoint = {Last(trail'.checkpoints)}, !.copy = trail']]
      /\ auditCount < MaxEvents /\ auditCount' = auditCount + 1 /\ UNCHANGED auditDay
      /\ auditSlot' \in {auditSlot, auditSlot + 1} /\ appends[w].pc \in {"idle", "deleting"}
  BY DEF RecordAuditEvent
<1>2. /\ auditDay \in 0..MaxAuditDays /\ auditCount \in Nat /\ auditSlot \in Nat
      /\ auditSlot <= auditCount + auditDay /\ MaxEvents \in Nat /\ MaxAuditDays \in Nat
      /\ trail \in Trails
  BY AuditAssumption DEF AuditInv, ClockOK, StoreOK
<1>3. LatestEventHash(trail) \in 0..MaxEvents BY <1>2, OffsetTyped
<1>4. auditCount + 1 \in 1..MaxEvents /\ auditSlot' \in 0..(MaxEvents + MaxAuditDays) BY <1>1, <1>2
<1>5. e \in Event BY <1>2, <1>3, <1>4 DEF Event, NewEvent
<1>6. /\ e.id = auditCount + 1 /\ e.day = auditDay /\ e.slot = auditSlot'
      /\ e.prev = LatestEventHash(trail)
  BY DEF NewEvent
<1>7. trail' \in Trails BY <1>1, <1>2, <1>5, AppendTyped
<1> QED BY <1>1, <1>2, <1>5, <1>6, <1>7

LEMMA LatestNumber ==
  ASSUME trail \in Trails, Numbered, auditCount \in Nat
  PROVE  LatestEventHash(trail) <= auditCount
<1>1. trail.events \in Seq(Event) BY TrailParts
<1>2. CASE trail.events # <<>>
  <2>1. Len(trail.events) \in DOMAIN trail.events /\ Last(trail.events) = trail.events[Len(trail.events)]
    BY <1>1, <1>2 DEF Last
  <2>2. Last(trail.events) \in Range(trail.events) BY <2>1 DEF Range
  <2> QED BY <1>2, <2>2 DEF LatestEventHash, Numbered
<1>3. CASE trail.events = <<>>
  <2>1. AnchorHash(trail) <= auditCount
    <3>1. CASE trail.anchor = {} BY <3>1, AnchorParts
    <3>2. CASE trail.anchor # {} BY <3>2 DEF AnchorHash, Numbered
    <3> QED BY <3>1, <3>2
  <2> QED BY <1>3, <2>1 DEF LatestEventHash
<1> QED BY <1>2, <1>3

LEMMA NumberedKept ==
  ASSUME AuditInv, OneBoundary, Numbered, Enclosing, [AuditNext]_auditVars
  PROVE  Numbered'
<1> USE DEF Archiving
<1>1. /\ trail \in Trails /\ RunOK /\ AppendsOK /\ auditCount \in Nat /\ auditDay \in Nat
      /\ hotEvents \subseteq Event /\ hotChecks \subseteq Checkpoint
  BY AuditAssumption DEF AuditInv, StoreOK, ClockOK
<1>2. /\ retention.pc \in Archiving => Planned \in Plans
      /\ UNCHANGED retention => Planned' = Planned
  BY <1>1, PlannedOK DEF Planned
<1>3. CASE RecordStep
  <2>1. PICK w \in Writers, kind \in AuditKinds : RecordAuditEvent(w, kind) BY <1>3 DEF RecordStep
  <2>2. PICK e \in Event : /\ e.id = auditCount + 1 /\ trail' = AppendWithSigner(trail, e)
                           /\ auditCount' = auditCount + 1
    BY <2>1, RecordParts
  <2>3. UNCHANGED <<hotEvents, hotChecks, boundaries, retention, forwards, deliveries>>
    BY <2>1 DEF RecordAuditEvent, storeVars, forwardVars
  <2>4. /\ trail'.anchor = trail.anchor /\ Range(trail'.events) = Range(trail.events) \cup {e}
        /\ Range(trail'.checkpoints) = Range(trail.checkpoints) \cup {Last(trail'.checkpoints)}
        /\ Last(trail'.checkpoints).last = e.id
    BY <1>1, <2>2, AppendShape
  <2>5. /\ \A f \in Range(trail.events) \cup hotEvents : f.id \in Nat /\ f.id <= auditCount
        /\ \A c \in Range(trail.checkpoints) \cup trail.anchor \cup hotChecks :
              c.last \in Nat /\ c.last <= auditCount
    <3>1. Range(trail.events) \subseteq Event /\ Range(trail.checkpoints) \subseteq Checkpoint
      BY <1>1, TrailParts, RangeTyped
    <3>2. trail.anchor \subseteq Checkpoint BY <1>1, TrailParts
    <3> QED BY <1>1, <3>1, <3>2, EventFields, CheckFields DEF Numbered
  <2>6. \A f \in Range(trail'.events) \cup hotEvents' : f.id <= auditCount'
    BY <1>1, <2>2, <2>3, <2>4, <2>5
  <2>7. \A c \in Range(trail'.checkpoints) \cup trail'.anchor \cup hotChecks' : c.last <= auditCount'
    BY <1>1, <2>2, <2>3, <2>4, <2>5
  <2>8. \A b \in boundaries' : b.checkpoint.last <= auditCount'
    <3>1. \A b \in boundaries : b.checkpoint.last \in Nat BY CheckFields DEF AuditInv, StoreOK
    <3> QED BY <1>1, <2>2, <2>3, <3>1 DEF Numbered
  <2>9. retention'.pc \in Archiving => Planned'.boundary.last <= auditCount'
    <3>1. retention.pc \in Archiving => Planned.boundary.last \in Nat BY <1>2, CheckFields DEF Plans
    <3>2. retention.pc \in Archiving => Planned.boundary.last <= auditCount'
      BY <1>1, <2>2, <3>1 DEF Numbered
    <3>3. Planned' = Planned BY <1>2, <2>3
    <3> QED BY <2>3, <3>2, <3>3
  <2>10. /\ \A f \in forwards' : f.id \in 1..auditCount'
         /\ \A d \in deliveries' : d.event \in 1..auditCount'
    BY <1>1, <2>2, <2>3 DEF Numbered
  <2> QED BY <2>6, <2>7, <2>8, <2>9, <2>10 DEF Numbered
<1>4. CASE PersistStep
  <2>1. PICK w \in Writers : PersistAuditAppend(w) BY <1>4 DEF PersistStep
  <2>2. UNCHANGED <<trail, boundaries, retention, forwards, deliveries, auditCount>>
    BY <2>1 DEF PersistAuditAppend, forwardVars, clockVars
  <2>3. /\ appends[w].pc = "event" => \A e \in appends[w].event : e.id <= auditCount
        /\ appends[w].pc = "checkpoint" => \A c \in appends[w].checkpoint : c.last <= auditCount
    BY DEF Enclosing, Recorded
  <2>4. /\ \A e \in hotEvents' : e \in hotEvents \/ e.id <= auditCount
        /\ \A c \in hotChecks' : c \in hotChecks \/ c.last <= auditCount
    BY <1>1, <2>1, <2>3, PersistParts
  <2>5. Planned' = Planned BY <1>2, <2>2
  <2> QED BY <2>2, <2>4, <2>5 DEF Numbered
<1>5. CASE FinalizeStep
  <2>1. PICK w \in Writers : FinalizeAuditEvent(w) BY <1>5 DEF FinalizeStep
  <2>2. UNCHANGED <<trail, hotEvents, hotChecks, boundaries, retention, deliveries, auditCount>>
    BY <2>1 DEF FinalizeAuditEvent, storeVars, clockVars
  <2>3. appends[w].event \subseteq Event /\ \A e \in appends[w].event : e.id <= auditCount
    BY <1>1, <2>1 DEF FinalizeAuditEvent, Enclosing, Recorded, AppendsOK, AppendRecord
  <2>4. \A e \in appends[w].event : e.id \in 1..auditCount BY <1>1, <2>3, EventFields
  <2>5. \A e \in forwards' : e.id \in 1..auditCount BY <2>1, <2>4 DEF FinalizeAuditEvent, Numbered
  <2>6. Planned' = Planned BY <1>2, <2>2
  <2> QED BY <2>2, <2>5, <2>6 DEF Numbered
<1>6. CASE DeletionStep \/ AuditTick \/ UNCHANGED auditVars
  <2>1. UNCHANGED <<trail, hotEvents, hotChecks, boundaries, retention, forwards, deliveries, auditCount>>
    BY <1>6 DEF DeletionStep, SealDeletion, StartDeletion, AuditTick, auditVars, storeVars,
                clockVars, forwardVars
  <2>2. Planned' = Planned BY <1>2, <2>1
  <2> QED BY <2>1, <2>2 DEF Numbered
<1>7. CASE PublishStep
  <2>1. PICK e \in forwards : PublishExternalAuditForward(e) BY <1>7 DEF PublishStep
  <2>2. UNCHANGED <<trail, hotEvents, hotChecks, boundaries, retention, auditCount>>
    BY <2>1 DEF PublishExternalAuditForward, storeVars, clockVars
  <2>3. forwards' \subseteq forwards /\ e.id \in 1..auditCount
    BY <2>1 DEF PublishExternalAuditForward, Numbered
  <2>4. \A d \in deliveries' : d \in deliveries \/ d.event = e.id
    BY <2>1 DEF PublishExternalAuditForward, ForwardWebhook, ForwardKafka, ForwardSyslog, Delivery
  <2>5. Planned' = Planned BY <1>2, <2>2
  <2> QED BY <2>2, <2>3, <2>4, <2>5 DEF Numbered
<1>8. CASE StartRetention
  <2>1. UNCHANGED <<trail, hotEvents, hotChecks, boundaries, forwards, deliveries, auditCount>>
    BY <1>8 DEF StartRetention, storeVars, clockVars, forwardVars
  <2>2. CASE UNCHANGED retention
    <3>1. Planned' = Planned BY <1>2, <2>2
    <3> QED BY <2>1, <2>2, <3>1 DEF Numbered
  <2>3. CASE retention'.pc \in {"cleanup", "release"} BY <2>1, <2>3 DEF Numbered
  <2>4. CASE /\ retention'.pc = "file" /\ \E p \in retention'.bundle : TRUE
             /\ retention'.bundle = BuildArchivePlan(trail, auditDay)
    <3>1. Planned' \in BuildArchivePlan(trail, auditDay) BY <2>4 DEF Planned
    <3>2. Planned'.boundary \in Range(trail.checkpoints) BY <1>1, <3>1, PlanBoundary
    <3> QED BY <2>1, <3>2 DEF Numbered
  <2> QED BY <1>8, <2>2, <2>3, <2>4, StartMoves
<1>9. CASE RunAuditRetention
  <2>1. UNCHANGED <<forwards, deliveries, auditCount>>
    BY <1>9 DEF RunAuditRetention, forwardVars, clockVars
  <2>2. retention.pc \in Archiving => Planned.boundary \in Checkpoint /\ Planned.boundary.last <= auditCount
    BY <1>2 DEF Numbered, Plans
  <2>3. hotEvents' \subseteq hotEvents /\ hotChecks' \subseteq hotChecks BY <1>1, <1>9, RunMoves
  <2>4. /\ Range(trail'.events) \subseteq Range(trail.events)
        /\ Range(trail'.checkpoints) \subseteq Range(trail.checkpoints)
        /\ \A c \in trail'.anchor : c.last <= auditCount
    <3>1. CASE UNCHANGED trail BY <3>1 DEF Numbered
    <3>2. CASE retention.pc = "memory" /\ trail' = ApplyArchiveBoundary(trail, Planned.boundary)
      BY <1>1, <2>2, <3>2, ArchiveShape
    <3> QED BY <1>1, <1>9, <3>1, <3>2, RunMoves
  <2>5. \A b \in boundaries' : b.checkpoint.last <= auditCount
    <3>1. CASE UNCHANGED boundaries BY <3>1 DEF Numbered
    <3>2. CASE boundaries' = {[b EXCEPT !.active = FALSE] : b \in boundaries}
      <4>1. \A b \in boundaries : [b EXCEPT !.active = FALSE].checkpoint = b.checkpoint
        BY DEF AuditInv, StoreOK
      <4> QED BY <3>2, <4>1 DEF Numbered
    <3>3. CASE /\ Moves("boundary", "events")
               /\ boundaries' = boundaries \cup {[checkpoint |-> Planned.boundary, active |-> TRUE]}
      BY <2>2, <3>3 DEF Numbered, Moves
    <3> QED BY <1>1, <1>9, <3>1, <3>2, <3>3, RunMoves
  <2>6. retention'.pc \in Archiving => retention.pc \in Archiving /\ Planned' = Planned
    BY <1>1, <1>9, RunMoves DEF Moves
  <2> QED BY <2>1, <2>2, <2>3, <2>4, <2>5, <2>6 DEF Numbered
<1>10. CASE AuditRestart
  <2>1. PICK events \in LoadOrders(hotEvents), checks \in LoadOrders(hotChecks) :
               trail' = [anchor |-> ActiveBoundary, events |-> events, checkpoints |-> checks]
    BY <1>10 DEF AuditRestart
  <2>2. /\ UNCHANGED <<hotEvents, hotChecks, boundaries, deliveries, auditCount>>
        /\ forwards' = {} /\ retention'.pc = "idle"
    BY <1>10 DEF AuditRestart, storeVars, clockVars, NoRun
  <2>3. \A S : \A s \in LoadOrders(S) : Range(s) \subseteq S BY DEF LoadOrders, Range
  <2>4. /\ Range(trail'.events) \subseteq hotEvents /\ Range(trail'.checkpoints) \subseteq hotChecks
        /\ trail'.anchor = ActiveBoundary
    BY <2>1, <2>3
  <2>5. \A c \in ActiveBoundary : c.last <= auditCount BY DEF ActiveBoundary, Numbered
  <2> QED BY <2>2, <2>4, <2>5 DEF Numbered
<1> QED BY <1>3, <1>4, <1>5, <1>6, <1>7, <1>8, <1>9, <1>10, StepCases

LEMMA AppendsAt ==
  ASSUME AppendsOK, NEW w \in Writers, NEW r, appends' = [appends EXCEPT ![w] = r]
  PROVE  \A v \in Writers : appends'[v] = IF v = w THEN r ELSE appends[v]
  BY DEF AppendsOK

\* What a request keeps when it only goes on.
LEMMA PersistMoves ==
  ASSUME AppendsOK, NEW w \in Writers, PersistAuditAppend(w)
  PROVE  /\ \A v \in Writers \ {w} : appends'[v] = appends[v]
         /\ appends[w].pc \in {"event", "checkpoint", "replica"}
         /\ appends'[w].pc \in {"checkpoint", "replica", "spawn"}
         /\ appends'[w].pc = "checkpoint" => appends[w].pc = "event"
         /\ appends'[w].before = appends[w].before /\ appends'[w].event = appends[w].event
         /\ appends'[w].checkpoint = appends[w].checkpoint /\ appends'[w].copy = appends[w].copy
<1>1. \E pc \in {"checkpoint", "replica", "spawn"} :
         /\ appends' = [appends EXCEPT ![w].pc = pc]
         /\ pc = "checkpoint" => appends[w].pc = "event"
         /\ appends[w].pc \in {"event", "checkpoint", "replica"}
  BY PersistParts
<1>2. PICK pc \in {"checkpoint", "replica", "spawn"} :
         /\ appends' = [appends EXCEPT ![w].pc = pc]
         /\ pc = "checkpoint" => appends[w].pc = "event"
         /\ appends[w].pc \in {"event", "checkpoint", "replica"}
  BY <1>1
<1> DEFINE r == [appends[w] EXCEPT !.pc = pc]
<1>3. /\ r.pc = pc /\ r.before = appends[w].before /\ r.event = appends[w].event
      /\ r.checkpoint = appends[w].checkpoint /\ r.copy = appends[w].copy
  BY DEF AppendsOK, AppendRecord
<1>4. appends' = [appends EXCEPT ![w].pc = pc] /\ appends \in [Writers -> AppendRecord]
  BY <1>2 DEF AppendsOK
<1>5. appends'[w] = r /\ \A v \in Writers \ {w} : appends'[v] = appends[v] BY <1>4
<1> HIDE DEF r
<1>6. /\ appends'[w].pc = pc
      /\ pc = "checkpoint" => appends[w].pc = "event"
      /\ appends[w].pc \in {"event", "checkpoint", "replica"}
  BY <1>2, <1>3, <1>5
<1> QED BY <1>3, <1>5, <1>6

LEMMA FinalizeMoves ==
  ASSUME AppendsOK, NEW w \in Writers, FinalizeAuditEvent(w)
  PROVE  /\ \A v \in Writers \ {w} : appends'[v] = appends[v]
         /\ appends[w].pc = "spawn"
         /\ \/ appends'[w] = NoAppend
            \/ /\ appends'[w].pc = "seal" /\ appends'[w].before = appends[w].before
               /\ appends'[w].event = appends[w].event /\ appends'[w].copy = EmptyTrail
  BY DEF AppendsOK, AppendRecord, FinalizeAuditEvent

LEMMA DeletionMoves ==
  ASSUME AppendsOK, DeletionStep
  PROVE  \E w \in Writers :
           /\ \A v \in Writers \ {w} : appends'[v] = appends[v]
           /\ \/ appends'[w] = NoAppend /\ appends[w].pc = "seal"
              \/ /\ appends'[w].pc = "deleting" /\ appends[w].pc = "idle"
                 /\ appends'[w].before = LatestEventHash(trail) /\ appends'[w].copy = EmptyTrail
<1>1. PICK w \in Writers : SealDeletion(w) \/ \E op \in {"delete", "purge"} : StartDeletion(w, op)
  BY DEF DeletionStep
<1>2. CASE SealDeletion(w) BY <1>2 DEF SealDeletion, AppendsOK
<1>3. ASSUME NEW op \in {"delete", "purge"}, StartDeletion(w, op)
      PROVE  /\ \A v \in Writers \ {w} : appends'[v] = appends[v]
             /\ appends'[w].pc = "deleting" /\ appends[w].pc = "idle"
             /\ appends'[w].before = LatestEventHash(trail) /\ appends'[w].copy = EmptyTrail
  BY <1>3 DEF StartDeletion, AppendsOK, NoAppend
<1> QED BY <1>1, <1>2, <1>3

----
(* What a request carries from its append to its last step. *)

LEMMA IdleParts ==
  /\ NoAppend.pc = "idle" /\ NoAppend.before = 0 /\ NoAppend.event = {}
  /\ NoAppend.copy = EmptyTrail
  BY DEF NoAppend, Genesis

LEMMA EnclosingKept ==
  ASSUME AuditInv, Numbered, Enclosing, [AuditNext]_auditVars
  PROVE  Enclosing'
<1> USE DEF Recorded
<1>1. /\ trail \in Trails /\ RunOK /\ AppendsOK /\ auditCount \in Nat
  BY AuditAssumption DEF AuditInv, StoreOK, ClockOK
<1>2. ASSUME UNCHANGED auditCount, trail'.checkpoints # <<>> =>
                 trail.checkpoints # <<>> /\ Last(trail'.checkpoints) = Last(trail.checkpoints),
             \A v \in Writers :
               /\ appends'[v].before <= auditCount
               /\ \/ appends'[v].pc \notin Recorded
                  \/ /\ appends[v].pc \in Recorded /\ appends'[v].event = appends[v].event
                     /\ appends'[v].before = appends[v].before
               /\ \/ appends'[v].pc \notin {"event", "checkpoint"}
                  \/ /\ appends[v].pc \in {"event", "checkpoint"}
                     /\ appends'[v].checkpoint = appends[v].checkpoint
      PROVE  Enclosing'
  BY <1>2 DEF Enclosing
<1>3. CASE RecordStep
  <2>1. PICK w \in Writers, kind \in AuditKinds : RecordAuditEvent(w, kind) BY <1>3 DEF RecordStep
  <2>2. PICK e \in Event :
          /\ e.id = auditCount + 1 /\ trail' = AppendWithSigner(trail, e)
          /\ auditCount' = auditCount + 1
          /\ appends' = [appends EXCEPT ![w] = [appends[w] EXCEPT
                            !.pc = "event", !.event = {e},
                            !.checkpoint = {Last(trail'.checkpoints)}, !.copy = trail']]
    BY <2>1, RecordParts
  <2> DEFINE r == [appends[w] EXCEPT !.pc = "event", !.event = {e},
                                     !.checkpoint = {Last(trail'.checkpoints)}, !.copy = trail']
  <2>3. /\ r.before = appends[w].before /\ r.event = {e}
        /\ r.checkpoint = {Last(trail'.checkpoints)}
    BY <1>1 DEF AppendsOK, AppendRecord
  <2> HIDE DEF r
  <2>4. \A v \in Writers : appends'[v] = IF v = w THEN r ELSE appends[v] BY <1>1, <2>2, AppendsAt DEF r
  <2>5. Last(trail'.checkpoints).last = e.id BY <1>1, <2>2, AppendShape
  <2>6. \A v \in Writers : appends[v].before \in Nat /\ appends[v].before <= auditCount
    BY <1>1, AuditAssumption DEF AppendsOK, AppendRecord, Enclosing
  <2>7. \A v \in Writers : \A f \in appends[v].event : f.id \in Nat
    BY <1>1, EventFields DEF AppendsOK, AppendRecord
  <2>8. \A v \in Writers : \A c \in appends[v].checkpoint : c.last \in Nat
    BY <1>1, CheckFields DEF AppendsOK, AppendRecord
  <2>9. ASSUME NEW v \in Writers
        PROVE  /\ appends'[v].before <= auditCount'
               /\ appends'[v].pc \in Recorded =>
                    \A f \in appends'[v].event :
                      /\ f.id <= auditCount' /\ appends'[v].before < f.id
                      /\ trail'.checkpoints # <<>> => f.id <= Last(trail'.checkpoints).last
               /\ appends'[v].pc \in {"event", "checkpoint"}
                    => \A c \in appends'[v].checkpoint : c.last <= auditCount'
    <3>1. CASE v = w
      <4>1. appends'[v] = r BY <2>4, <3>1
      <4>2. appends[w].before \in Nat /\ appends[w].before <= auditCount BY <2>6
      <4>3. /\ r.before <= auditCount' /\ r.before < e.id /\ e.id <= auditCount'
            /\ e.id <= Last(trail'.checkpoints).last /\ Last(trail'.checkpoints).last <= auditCount'
        BY <1>1, <2>2, <2>3, <2>5, <4>2
      <4> QED BY <2>3, <4>1, <4>3
    <3>2. CASE v # w
      <4>1. appends'[v] = appends[v] BY <2>4, <3>2
      <4>2. appends[v].before <= auditCount' BY <1>1, <2>2, <2>6
      <4>3. ASSUME appends[v].pc \in Recorded, NEW f \in appends[v].event
            PROVE  /\ f.id <= auditCount' /\ appends[v].before < f.id
                   /\ f.id <= Last(trail'.checkpoints).last
        <5>1. f.id \in Nat /\ f.id <= auditCount /\ appends[v].before < f.id BY <2>7, <4>3 DEF Enclosing
        <5> QED BY <1>1, <2>2, <2>5, <5>1
      <4>4. ASSUME appends[v].pc \in {"event", "checkpoint"}, NEW c \in appends[v].checkpoint
            PROVE  c.last <= auditCount'
        <5>1. c.last \in Nat /\ c.last <= auditCount BY <2>8, <4>4 DEF Enclosing
        <5> QED BY <1>1, <2>2, <5>1
      <4> QED BY <4>1, <4>2, <4>3, <4>4
    <3> QED BY <3>1, <3>2
  <2> QED BY <2>9 DEF Enclosing
<1>4. CASE PersistStep
  <2>1. PICK w \in Writers : PersistAuditAppend(w) BY <1>4 DEF PersistStep
  <2>2. UNCHANGED <<trail, auditCount>> BY <2>1 DEF PersistAuditAppend, clockVars
  <2>3. /\ \A v \in Writers \ {w} : appends'[v] = appends[v]
        /\ appends[w].pc \in {"event", "checkpoint", "replica"}
        /\ appends'[w].pc \in {"checkpoint", "replica", "spawn"}
        /\ appends'[w].pc = "checkpoint" => appends[w].pc = "event"
        /\ appends'[w].before = appends[w].before /\ appends'[w].event = appends[w].event
        /\ appends'[w].checkpoint = appends[w].checkpoint
    BY <1>1, <2>1, PersistMoves
  <2>4. \A v \in Writers : appends[v].before <= auditCount BY DEF Enclosing
  <2> QED BY <1>2, <2>2, <2>3, <2>4
<1>5. CASE FinalizeStep
  <2>1. PICK w \in Writers : FinalizeAuditEvent(w) BY <1>5 DEF FinalizeStep
  <2>2. UNCHANGED <<trail, auditCount>> BY <2>1 DEF FinalizeAuditEvent, clockVars
  <2>3. /\ \A v \in Writers \ {w} : appends'[v] = appends[v]
        /\ appends[w].pc = "spawn"
        /\ \/ appends'[w] = NoAppend
           \/ /\ appends'[w].pc = "seal" /\ appends'[w].before = appends[w].before
              /\ appends'[w].event = appends[w].event
    BY <1>1, <2>1, FinalizeMoves
  <2>4. \A v \in Writers : appends[v].before <= auditCount BY DEF Enclosing
  <2> QED BY <1>1, <1>2, <2>2, <2>3, <2>4, IdleParts
<1>6. CASE DeletionStep
  <2>1. PICK w \in Writers :
           /\ \A v \in Writers \ {w} : appends'[v] = appends[v]
           /\ \/ appends'[w] = NoAppend
              \/ appends'[w].pc = "deleting" /\ appends'[w].before = LatestEventHash(trail)
    BY <1>1, <1>6, DeletionMoves
  <2>2. UNCHANGED <<trail, auditCount>> BY <1>6 DEF DeletionStep, SealDeletion, StartDeletion, clockVars
  <2>3. LatestEventHash(trail) <= auditCount BY <1>1, LatestNumber
  <2>4. \A v \in Writers : appends[v].before <= auditCount BY DEF Enclosing
  <2> QED BY <1>1, <1>2, <2>1, <2>2, <2>3, <2>4, IdleParts
<1>7. CASE AuditRestart
  <2>1. UNCHANGED auditCount /\ \A w \in Writers : appends'[w] = NoAppend
    BY <1>7 DEF AuditRestart, clockVars
  <2> QED BY <1>1, <2>1, IdleParts DEF Enclosing
<1>8. ASSUME UNCHANGED <<appends, auditCount>>, RunAuditRetention \/ UNCHANGED trail
      PROVE  Enclosing'
  <2>1. trail'.checkpoints # <<>> =>
           trail.checkpoints # <<>> /\ Last(trail'.checkpoints) = Last(trail.checkpoints)
    <3>1. CASE UNCHANGED trail BY <3>1
    <3>2. CASE retention.pc = "memory" /\ trail' = ApplyArchiveBoundary(trail, Planned.boundary)
      <4>1. Planned.boundary \in Checkpoint BY <1>1, <3>2, PlannedOK DEF Archiving, Plans
      <4> QED BY <1>1, <3>2, <4>1, ArchiveShape
    <3>3. CASE RunAuditRetention BY <1>1, <3>1, <3>2, <3>3, RunMoves
    <3> QED BY <1>8, <3>1, <3>3
  <2>2. \A v \in Writers : appends[v].before <= auditCount BY DEF Enclosing
  <2> QED BY <1>2, <1>8, <2>1, <2>2
<1>9. CASE PublishStep \/ StartRetention \/ RunAuditRetention \/ AuditTick \/ UNCHANGED auditVars
  BY <1>8, <1>9 DEF PublishStep, PublishExternalAuditForward, StartRetention, RunAuditRetention,
                    AuditTick, auditVars, clockVars
<1> QED BY <1>3, <1>4, <1>5, <1>6, <1>7, <1>9, StepCases

LEMMA TodayKept ==
  ASSUME AuditInv, Today, [AuditNext]_auditVars
  PROVE  Today'
<1>1. /\ trail \in Trails /\ AppendsOK /\ auditCount \in Nat
  BY AuditAssumption DEF AuditInv, StoreOK, ClockOK
<1>2. CASE RecordStep
  <2>1. PICK w \in Writers, kind \in AuditKinds : RecordAuditEvent(w, kind) BY <1>2 DEF RecordStep
  <2>2. PICK e \in Event :
          /\ e.day = auditDay /\ trail' = AppendWithSigner(trail, e) /\ UNCHANGED auditDay
          /\ appends' = [appends EXCEPT ![w] = [appends[w] EXCEPT
                            !.pc = "event", !.event = {e},
                            !.checkpoint = {Last(trail'.checkpoints)}, !.copy = trail']]
    BY <2>1, RecordParts
  <2> DEFINE r == [appends[w] EXCEPT !.pc = "event", !.event = {e},
                                     !.checkpoint = {Last(trail'.checkpoints)}, !.copy = trail']
  <2>3. r.event = {e} /\ r.checkpoint = {Last(trail'.checkpoints)} BY <1>1 DEF AppendsOK, AppendRecord
  <2> HIDE DEF r
  <2>4. \A v \in Writers : appends'[v] = IF v = w THEN r ELSE appends[v] BY <1>1, <2>2, AppendsAt DEF r
  <2>5. Last(trail'.checkpoints).day = auditDay BY <1>1, <2>2, AppendShape
  <2> QED BY <2>2, <2>3, <2>4, <2>5 DEF Today
<1>3. CASE PersistStep
  <2>1. PICK w \in Writers : PersistAuditAppend(w) BY <1>3 DEF PersistStep
  <2>2. UNCHANGED auditDay BY <2>1 DEF PersistAuditAppend, clockVars
  <2> QED BY <1>1, <2>1, <2>2, PersistMoves DEF Today
<1>4. CASE FinalizeStep
  <2>1. PICK w \in Writers : FinalizeAuditEvent(w) BY <1>4 DEF FinalizeStep
  <2>2. UNCHANGED auditDay BY <2>1 DEF FinalizeAuditEvent, clockVars
  <2> QED BY <1>1, <2>1, <2>2, FinalizeMoves, IdleParts DEF Today
<1>5. CASE DeletionStep
  <2>1. UNCHANGED auditDay BY <1>5 DEF DeletionStep, SealDeletion, StartDeletion, clockVars
  <2> QED BY <1>1, <1>5, <2>1, DeletionMoves, IdleParts DEF Today
<1>6. CASE AuditRestart
  <2>1. \A w \in Writers : appends'[w] = NoAppend BY <1>6 DEF AuditRestart
  <2> QED BY <2>1, IdleParts DEF Today
<1>7. CASE AuditTick BY <1>7 DEF AuditTick, Today
<1>8. CASE PublishStep \/ StartRetention \/ RunAuditRetention \/ UNCHANGED auditVars
  <2>1. UNCHANGED <<appends, auditDay>>
    BY <1>8 DEF PublishStep, PublishExternalAuditForward, StartRetention, RunAuditRetention,
                auditVars, clockVars
  <2> QED BY <2>1 DEF Today
<1> QED BY <1>2, <1>3, <1>4, <1>5, <1>6, <1>7, <1>8, StepCases

LEMMA TasksKept ==
  ASSUME AuditInv, TasksCounted, [AuditNext]_auditVars
  PROVE  TasksCounted'
<1>1. /\ trail \in Trails /\ AppendsOK /\ auditCount \in Nat
      /\ IsFiniteSet(Unfinished) /\ Cardinality(Unfinished) \in Nat /\ retentionTasks \in Nat
  BY AuditAssumption, FS_CardinalityType DEF AuditInv, StoreOK, ClockOK, TasksCounted
<1>2. CASE RecordStep
  <2>1. PICK w \in Writers, kind \in AuditKinds : RecordAuditEvent(w, kind) BY <1>2 DEF RecordStep
  <2>2. PICK e \in Event :
          /\ auditCount' = auditCount + 1 /\ appends[w].pc \in {"idle", "deleting"}
          /\ appends' = [appends EXCEPT ![w] = [appends[w] EXCEPT
                            !.pc = "event", !.event = {e},
                            !.checkpoint = {Last(trail'.checkpoints)}, !.copy = trail']]
    BY <2>1, RecordParts
  <2>3. appends'[w].pc = "event" /\ \A v \in Writers \ {w} : appends'[v] = appends[v]
    BY <1>1, <2>2 DEF AppendsOK, AppendRecord
  <2>4. Unfinished' = Unfinished \cup {w} /\ w \notin Unfinished BY <2>2, <2>3 DEF Unfinished
  <2>5. IsFiniteSet(Unfinished') /\ Cardinality(Unfinished') = Cardinality(Unfinished) + 1
    BY <1>1, <2>4, FS_AddElement
  <2>6. UNCHANGED retentionTasks BY <2>1 DEF RecordAuditEvent
  <2> QED BY <1>1, <2>2, <2>5, <2>6 DEF TasksCounted
<1>3. CASE PersistStep
  <2>1. PICK w \in Writers : PersistAuditAppend(w) BY <1>3 DEF PersistStep
  <2>2. UNCHANGED <<retentionTasks, auditCount>> BY <2>1 DEF PersistAuditAppend, clockVars
  <2>3. Unfinished' = Unfinished BY <1>1, <2>1, PersistMoves DEF Unfinished
  <2> QED BY <2>2, <2>3 DEF TasksCounted
<1>4. CASE FinalizeStep
  <2>1. PICK w \in Writers : FinalizeAuditEvent(w) BY <1>4 DEF FinalizeStep
  <2>2. UNCHANGED auditCount /\ retentionTasks' = retentionTasks + 1
    BY <2>1 DEF FinalizeAuditEvent, clockVars
  <2>3. Unfinished' = Unfinished \ {w} /\ w \in Unfinished
    BY <1>1, <2>1, FinalizeMoves, IdleParts DEF Unfinished
  <2>4. IsFiniteSet(Unfinished') /\ Cardinality(Unfinished') = Cardinality(Unfinished) - 1
    BY <1>1, <2>3, FS_RemoveElement
  <2> QED BY <1>1, <2>2, <2>4 DEF TasksCounted
<1>5. CASE DeletionStep
  <2>1. UNCHANGED <<retentionTasks, auditCount>>
    BY <1>5 DEF DeletionStep, SealDeletion, StartDeletion, clockVars
  <2>2. Unfinished' = Unfinished BY <1>1, <1>5, DeletionMoves, IdleParts DEF Unfinished
  <2> QED BY <2>1, <2>2 DEF TasksCounted
<1>6. CASE AuditRestart
  <2>1. retentionTasks' = 0 /\ UNCHANGED auditCount /\ \A w \in Writers : appends'[w] = NoAppend
    BY <1>6 DEF AuditRestart, clockVars
  <2>2. Unfinished' = {} BY <2>1, IdleParts DEF Unfinished
  <2> QED BY <1>1, <2>1, <2>2, FS_EmptySet DEF TasksCounted
<1>7. CASE StartRetention
  <2>1. UNCHANGED <<appends, auditCount>> /\ retentionTasks > 0 /\ retentionTasks' = retentionTasks - 1
    BY <1>7 DEF StartRetention, clockVars
  <2>2. Unfinished' = Unfinished BY <2>1 DEF Unfinished
  <2> QED BY <1>1, <2>1, <2>2 DEF TasksCounted
<1>8. CASE PublishStep \/ RunAuditRetention \/ AuditTick \/ UNCHANGED auditVars
  <2>1. UNCHANGED <<appends, retentionTasks, auditCount>>
    BY <1>8 DEF PublishStep, PublishExternalAuditForward, AuditTick, RunAuditRetention,
                auditVars, clockVars
  <2>2. Unfinished' = Unfinished BY <2>1 DEF Unfinished
  <2> QED BY <2>1, <2>2 DEF TasksCounted
<1> QED BY <1>2, <1>3, <1>4, <1>5, <1>6, <1>7, <1>8, StepCases

----
(* Deletions and deliveries. *)

LEMMA AppendIs ==
  ASSUME NEW S, NEW s \in Seq(S), NEW x \in S, NEW t \in Seq(S), Len(t) = Len(s) + 1,
         \A i \in 1..Len(s) : t[i] = s[i], t[Len(s) + 1] = x
  PROVE  Append(s, x) = t
<1>1. /\ Append(s, x) \in Seq(S) /\ Len(Append(s, x)) = Len(s) + 1 /\ Len(s) \in Nat
      /\ \A i \in 1..Len(s) : Append(s, x)[i] = s[i]
      /\ Append(s, x)[Len(s) + 1] = x
  BY AppendParts
<1>2. \A i \in 1..(Len(s) + 1) : Append(s, x)[i] = t[i] BY <1>1
<1> DEFINE a == Append(s, x)
<1> HIDE DEF a
<1>3. a \in [1..(Len(s) + 1) -> S] /\ t \in [1..(Len(s) + 1) -> S]
  <2>1. a \in Seq(S) /\ Len(a) = Len(s) + 1 BY <1>1 DEF a
  <2>2. a \in [1..Len(a) -> S] /\ t \in [1..Len(t) -> S] BY <2>1
  <2> QED BY <2>1, <2>2
<1>4. \A i \in 1..(Len(s) + 1) : a[i] = t[i] BY <1>2 DEF a
<1>5. a = t BY <1>3, <1>4
<1> QED BY <1>5 DEF a

\* The states a controlled deletion goes through before its audit event.
LEMMA FlowParts ==
  ASSUME NEW op, NEW flow, flow = TransitionTo(TransitionTo(FlowOf(op), "AuditRecorded"), "Completed")
  PROVE  /\ \A i \in 1..(Len(flow) - 1) : CanTransitionTo(flow[i], flow[i + 1])
         /\ Last(flow) = "Completed" /\ "AuditRecorded" \in Range(flow)
<1> DEFINE gone == IF op = "purge" THEN "ContentPurged" ELSE "LogicalDeleted"
           f1 == <<"Requested">>
           f2 == <<"Requested", "Authorized">>
           f3 == <<"Requested", "Authorized", gone>>
           f4 == <<"Requested", "Authorized", gone, "TombstoneWritten">>
           f5 == <<"Requested", "Authorized", gone, "TombstoneWritten", "AuditRecorded">>
           f6 == <<"Requested", "Authorized", gone, "TombstoneWritten", "AuditRecorded", "Completed">>
<1>1. gone \in {"ContentPurged", "LogicalDeleted"} OBVIOUS
<1> HIDE DEF gone
<1>2. /\ CanTransitionTo("Requested", "Authorized") /\ CanTransitionTo("Authorized", gone)
      /\ CanTransitionTo(gone, "TombstoneWritten")
      /\ CanTransitionTo("TombstoneWritten", "AuditRecorded")
      /\ CanTransitionTo("AuditRecorded", "Completed")
  BY <1>1 DEF CanTransitionTo
<1>3. /\ Last(f1) = "Requested" /\ Append(f1, "Authorized") = f2
      /\ Last(f2) = "Authorized" /\ Append(f2, gone) = f3
      /\ Last(f3) = gone /\ Append(f3, "TombstoneWritten") = f4
  <2> DEFINE S == {"Requested", "Authorized", "TombstoneWritten", gone}
  <2>1. /\ Len(f1) = 1 /\ Len(f2) = 2 /\ Len(f3) = 3 /\ Len(f4) = 4
        /\ f1[1] = "Requested" /\ f2[1] = "Requested" /\ f2[2] = "Authorized"
        /\ f3[1] = "Requested" /\ f3[2] = "Authorized" /\ f3[3] = gone
        /\ f4[1] = "Requested" /\ f4[2] = "Authorized" /\ f4[3] = gone /\ f4[4] = "TombstoneWritten"
    OBVIOUS
  <2>2. f1 \in Seq(S) /\ f2 \in Seq(S) /\ f3 \in Seq(S) /\ f4 \in Seq(S) OBVIOUS
  <2>3. {"Requested", "Authorized", "TombstoneWritten", gone} \subseteq S OBVIOUS
  <2> HIDE DEF f1, f2, f3, f4, S
  <2>4. Append(f1, "Authorized") = f2
    <3>1. /\ Len(f2) = Len(f1) + 1 /\ f2[Len(f1) + 1] = "Authorized"
          /\ \A i \in 1..Len(f1) : f2[i] = f1[i]
      BY <2>1
    <3> QED BY <2>1, <2>2, <2>3, <3>1, AppendIs
  <2>5. Append(f2, gone) = f3
    <3>1. /\ Len(f3) = Len(f2) + 1 /\ f3[Len(f2) + 1] = gone
          /\ \A i \in 1..Len(f2) : f3[i] = f2[i]
      BY <2>1
    <3> QED BY <2>1, <2>2, <2>3, <3>1, AppendIs
  <2>6. Append(f3, "TombstoneWritten") = f4
    <3>1. /\ Len(f4) = Len(f3) + 1 /\ f4[Len(f3) + 1] = "TombstoneWritten"
          /\ \A i \in 1..Len(f3) : f4[i] = f3[i]
      BY <2>1
    <3> QED BY <2>1, <2>2, <2>3, <3>1, AppendIs
  <2> QED BY <2>1, <2>4, <2>5, <2>6 DEF Last
<1>4. /\ Last(f4) = "TombstoneWritten" /\ Append(f4, "AuditRecorded") = f5
      /\ Last(f5) = "AuditRecorded" /\ Append(f5, "Completed") = f6 /\ Last(f6) = "Completed"
  <2> DEFINE S == {"Requested", "Authorized", "TombstoneWritten", "AuditRecorded", "Completed", gone}
  <2>1. /\ Len(f4) = 4 /\ Len(f5) = 5 /\ Len(f6) = 6
        /\ f4[1] = "Requested" /\ f4[2] = "Authorized" /\ f4[3] = gone /\ f4[4] = "TombstoneWritten"
        /\ f5[1] = "Requested" /\ f5[2] = "Authorized" /\ f5[3] = gone /\ f5[4] = "TombstoneWritten"
        /\ f5[5] = "AuditRecorded"
        /\ f6[1] = "Requested" /\ f6[2] = "Authorized" /\ f6[3] = gone /\ f6[4] = "TombstoneWritten"
        /\ f6[5] = "AuditRecorded" /\ f6[6] = "Completed"
    OBVIOUS
  <2>2. f4 \in Seq(S) /\ f5 \in Seq(S) /\ f6 \in Seq(S) OBVIOUS
  <2>3. "AuditRecorded" \in S /\ "Completed" \in S OBVIOUS
  <2> HIDE DEF f4, f5, f6, S
  <2>4. Append(f4, "AuditRecorded") = f5
    <3>1. /\ Len(f5) = Len(f4) + 1 /\ f5[Len(f4) + 1] = "AuditRecorded"
          /\ \A i \in 1..Len(f4) : f5[i] = f4[i]
      BY <2>1
    <3> QED BY <2>1, <2>2, <2>3, <3>1, AppendIs
  <2>5. Append(f5, "Completed") = f6
    <3>1. /\ Len(f6) = Len(f5) + 1 /\ f6[Len(f5) + 1] = "Completed"
          /\ \A i \in 1..Len(f5) : f6[i] = f5[i]
      BY <2>1
    <3> QED BY <2>1, <2>2, <2>3, <3>1, AppendIs
  <2> QED BY <2>1, <2>4, <2>5 DEF Last
<1>5. "AuditRecorded" \in Range(f6)
  <2>1. 5 \in DOMAIN f6 /\ f6[5] = "AuditRecorded" OBVIOUS
  <2> QED BY <2>1 DEF Range
<1>6. \A i \in 1..(Len(f6) - 1) : CanTransitionTo(f6[i], f6[i + 1])
  <2>1. Len(f6) = 6 OBVIOUS
  <2>2. /\ f6[1] = "Requested" /\ f6[2] = "Authorized" /\ f6[3] = gone
        /\ f6[4] = "TombstoneWritten" /\ f6[5] = "AuditRecorded" /\ f6[6] = "Completed"
    OBVIOUS
  <2> HIDE DEF f6
  <2>3. ASSUME NEW i \in 1..5 PROVE CanTransitionTo(f6[i], f6[i + 1])
    <3>1. i = 1 \/ i = 2 \/ i = 3 \/ i = 4 \/ i = 5 OBVIOUS
    <3>2. CASE i = 1 BY <1>2, <2>2, <3>2
    <3>3. CASE i = 2 BY <1>2, <2>2, <3>3
    <3>4. CASE i = 3 BY <1>2, <2>2, <3>4
    <3>5. CASE i = 4 BY <1>2, <2>2, <3>5
    <3>6. CASE i = 5 BY <1>2, <2>2, <3>6
    <3> QED BY <3>1, <3>2, <3>3, <3>4, <3>5, <3>6
  <2> QED BY <2>1, <2>3
<1> HIDE DEF f1, f2, f3, f4, f5, f6
<1>7. TransitionTo(f1, "Authorized") = f2 /\ TransitionTo(f2, gone) = f3 BY <1>2, <1>3 DEF TransitionTo
<1>8. TransitionTo(f3, "TombstoneWritten") = f4 /\ TransitionTo(f4, "AuditRecorded") = f5
  BY <1>2, <1>3, <1>4 DEF TransitionTo
<1>9. TransitionTo(f5, "Completed") = f6 BY <1>2, <1>4 DEF TransitionTo
<1>10. FlowOf(op) = TransitionTo(TransitionTo(TransitionTo(f1, "Authorized"), gone), "TombstoneWritten")
  BY DEF FlowOf, f1, gone
<1>11. FlowOf(op) = f4 BY <1>7, <1>8, <1>10
<1>12. flow = f6 BY <1>8, <1>9, <1>11
<1> QED BY <1>4, <1>5, <1>6, <1>12

LEMMA EvidenceKept ==
  ASSUME AuditInv, Enclosing, EvidenceEncloses, [AuditNext]_auditVars
  PROVE  EvidenceEncloses'
<1>1. CASE UNCHANGED deletionRecords BY <1>1 DEF EvidenceEncloses
<1>2. CASE DeletionStep
  <2>1. PICK w \in Writers : SealDeletion(w) \/ \E op \in {"delete", "purge"} : StartDeletion(w, op)
    BY <1>2 DEF DeletionStep
  <2>2. CASE \E op \in {"delete", "purge"} : StartDeletion(w, op)
    BY <1>1, <2>2 DEF StartDeletion, forwardVars
  <2>3. CASE SealDeletion(w)
    <3>1. ASSUME NEW d \in deletionRecords', d \notin deletionRecords
          PROVE  /\ VerifyDeletionRecord(d)
                 /\ Last(d.flow) = "Completed" /\ "AuditRecorded" \in Range(d.flow)
                 /\ d.before < d.event /\ d.event <= d.after
      <4>1. trail.checkpoints # <<>> /\ appends[w].pc = "seal" BY <2>3, <3>1 DEF SealDeletion
      <4>2. PICK e \in appends[w].event :
              d = [before |-> appends[w].before, event |-> e.id,
                   after |-> Last(trail.checkpoints).last,
                   flow |-> TransitionTo(TransitionTo(FlowOf(appends[w].op), "AuditRecorded"),
                                         "Completed")]
        BY <2>3, <3>1, <4>1 DEF SealDeletion
      <4> DEFINE flow == TransitionTo(TransitionTo(FlowOf(appends[w].op), "AuditRecorded"), "Completed")
      <4>3. /\ \A i \in 1..(Len(flow) - 1) : CanTransitionTo(flow[i], flow[i + 1])
            /\ Last(flow) = "Completed" /\ "AuditRecorded" \in Range(flow)
        BY FlowParts
      <4> HIDE DEF flow
      <4>4. /\ d.flow = flow /\ d.before = appends[w].before /\ d.event = e.id
            /\ d.after = Last(trail.checkpoints).last
        BY <4>2 DEF flow
      <4>5. appends[w].before < e.id /\ e.id <= Last(trail.checkpoints).last
        BY <4>1, <4>2 DEF Enclosing, Recorded
      <4> QED BY <4>3, <4>4, <4>5 DEF VerifyDeletionRecord
    <3> QED BY <3>1 DEF EvidenceEncloses
  <2> QED BY <2>1, <2>2, <2>3
<1> QED BY <1>1, <1>2, Frames

LEMMA SuccessKept ==
  ASSUME SuccessArrived, [AuditNext]_auditVars
  PROVE  SuccessArrived'
<1>1. UNCHANGED forwarder /\ (PublishStep \/ UNCHANGED <<deliveries, received>>) BY Frames
<1>2. CASE UNCHANGED <<deliveries, received>> BY <1>1, <1>2 DEF SuccessArrived
<1>3. CASE PublishStep
  <2>1. PICK e \in forwards : PublishExternalAuditForward(e) BY <1>3 DEF PublishStep
  <2>2. ASSUME forwarder \in {"webhook", "kafka"}, NEW d \in deliveries', d.status = "success"
        PROVE  d.event \in received'
    <3>1. CASE d \in deliveries
      <4>1. received \subseteq received'
        BY <2>1 DEF PublishExternalAuditForward, ForwardWebhook, ForwardKafka, ForwardSyslog
      <4> QED BY <2>2, <3>1, <4>1 DEF SuccessArrived
    <3>2. CASE d \notin deliveries
      <4>1. Delivery(e, "failed").status = "failed" /\ Delivery(e, "success").event = e.id BY DEF Delivery
      <4>2. d = Delivery(e, "success") /\ e.id \in received'
        BY <2>1, <2>2, <3>2, <4>1 DEF PublishExternalAuditForward, ForwardWebhook, ForwardKafka
      <4> QED BY <4>1, <4>2
    <3> QED BY <3>1, <3>2
  <2> QED BY <1>1, <2>2 DEF SuccessArrived
<1> QED BY <1>1, <1>2, <1>3

LEMMA BaseKept ==
  ASSUME AuditInv, BaseInv, [AuditNext]_auditVars
  PROVE  BaseInv'
BY RowsKept, OneBoundaryKept, NumberedKept, EnclosingKept, TodayKept, TasksKept, EvidenceKept,
   SuccessKept DEF BaseInv

----
(* The chain while nothing it needs failed. *)

LEMMA EmptyChained == Chained(EmptyTrail)
  BY DEF Chained, EmptyTrail

LEMMA ChainTypes ==
  ASSUME AuditInv
  PROVE  /\ trail \in Trails /\ RunOK /\ AppendsOK
         /\ auditCount \in Nat /\ auditDay \in Nat /\ auditSlot \in Nat
         /\ Range(trail.events) \subseteq Event /\ Range(trail.checkpoints) \subseteq Checkpoint
         /\ \A e \in Event : e.day \in Nat /\ e.slot \in Nat
         /\ Offset(trail) \in Nat /\ Len(trail.events) \in Nat
         /\ \A b \in boundaries : b.checkpoint \in Checkpoint /\ b.checkpoint.count \in Nat
         /\ retention.pc \in Archiving => Planned \in Plans
<1>1. /\ trail \in Trails /\ RunOK /\ AppendsOK
      /\ auditCount \in Nat /\ auditDay \in Nat /\ auditSlot \in Nat
  BY AuditAssumption DEF AuditInv, StoreOK, ClockOK
<1>2. Range(trail.events) \subseteq Event /\ Range(trail.checkpoints) \subseteq Checkpoint
  BY <1>1, TrailParts, RangeTyped
<1>3. \A b \in boundaries : b.checkpoint \in Checkpoint /\ b.checkpoint.count \in Nat
  BY CheckFields DEF AuditInv, StoreOK
<1> QED BY <1>1, <1>2, <1>3, EventFields, TrailShape, PlannedOK

\* What a run is about to delete is from before today.
LEMMA PlanOld ==
  ASSUME AuditInv, InOrder, PlanIsPrefix, retention.pc \in Archiving
  PROVE  /\ \A e \in Range(Planned.events) : e.day < auditDay
         /\ \A c \in Range(Planned.checkpoints) : c.day < auditDay
<1>1. Planned \in Plans /\ trail \in Trails /\ Chained(trail) BY ChainTypes DEF InOrder
<1>2. /\ DOMAIN Planned.events = 1..Len(Planned.events)
      /\ DOMAIN Planned.checkpoints = 1..Len(Planned.events)
  BY <1>1 DEF Plans, PlanIsPrefix
<1>3. ASSUME NEW i \in 1..Len(Planned.events)
      PROVE  Planned.events[i].day < auditDay /\ Planned.checkpoints[i].day < auditDay
  <2>1. /\ Planned.events[i] = trail.events[i] /\ Planned.checkpoints[i] = trail.checkpoints[i]
        /\ trail.events[i].day < auditDay /\ Len(Planned.events) \in 1..Len(trail.events)
    BY DEF PlanIsPrefix
  <2>2. i \in DOMAIN trail.events BY <1>1, <2>1, TrailShape
  <2>3. trail.checkpoints[i] = CheckOf(trail.events[i]) BY <1>1, <2>2 DEF Chained
  <2> QED BY <2>1, <2>3, CheckFields
<1> QED BY <1>2, <1>3 DEF Range

\* A step that leaves chain, rows and run alone, and what requests wait for.
LEMMA ChainAlone ==
  ASSUME AuditInv, InOrder, PlanIsPrefix, StoreFollows,
         UNCHANGED <<trail, retention, boundaries, auditCount>>,
         auditDay' \in Nat, auditDay <= auditDay', auditSlot' \in Nat, auditSlot <= auditSlot',
         Chained(replica)', (\A w \in Writers : Chained(appends[w].copy))',
         hotEvents' \cup WaitingEvents' = hotEvents \cup WaitingEvents,
         hotChecks' \cup WaitingChecks' = hotChecks \cup WaitingChecks
  PROVE  InOrder' /\ PlanIsPrefix' /\ StoreFollows'
<1>1. /\ auditDay \in Nat /\ auditSlot \in Nat /\ trail \in Trails
      /\ \A e \in Range(trail.events) : e.day \in Nat /\ e.slot \in Nat
      /\ \A i \in 1..Len(trail.events) : trail.events[i].day \in Nat
      /\ Len(trail.events) \in Nat
  BY ChainTypes, TrailShape
<1>2. Planned' = Planned /\ ActiveBoundary' = ActiveBoundary BY DEF Planned, ActiveBoundary
<1>3. InOrder'
  <2>1. Chained(trail)' /\ Chained(replica)' /\ (retention.pc = "replica" => Chained(Planned))'
    BY <1>2 DEF InOrder
  <2>2. \A e \in Range(trail'.events) : e.day <= auditDay' /\ e.slot <= auditSlot' BY <1>1 DEF InOrder
  <2> QED BY <2>1, <2>2 DEF InOrder
<1>4. PlanIsPrefix'
  <2>1. ASSUME retention.pc \in Archiving, NEW i \in 1..Len(Planned.events)
        PROVE  trail.events[i].day < auditDay'
    <3>1. trail.events[i].day < auditDay /\ Len(Planned.events) \in 1..Len(trail.events)
      BY <2>1 DEF PlanIsPrefix
    <3>2. i \in 1..Len(trail.events) BY <1>1, <3>1
    <3>3. trail.events[i].day \in Nat BY <1>1, <3>2
    <3> QED BY <1>1, <3>1, <3>3
  <2> QED BY <1>2, <2>1 DEF PlanIsPrefix
<1>5. StoreFollows'
  <2>1. DeletedEvents' = DeletedEvents /\ DeletedChecks' = DeletedChecks
    BY <1>2 DEF DeletedEvents, DeletedChecks
  <2> QED BY <1>2, <2>1 DEF StoreFollows
<1> QED BY <1>3, <1>4, <1>5

\* Requests that neither begin nor end an insert wait for the same rows.
LEMMA WaitingSame ==
  ASSUME \A w \in Writers :
           /\ appends'[w].pc = "event" <=> appends[w].pc = "event"
           /\ appends'[w].pc = "checkpoint" <=> appends[w].pc = "checkpoint"
           /\ appends[w].pc \in {"event", "checkpoint"} =>
                /\ appends'[w].event = appends[w].event
                /\ appends'[w].checkpoint = appends[w].checkpoint
  PROVE  WaitingEvents' = WaitingEvents /\ WaitingChecks' = WaitingChecks
<1>1. /\ \A x : x \in WaitingEvents <=> \E w \in Writers : appends[w].pc = "event" /\ x \in appends[w].event
      /\ \A x : x \in WaitingEvents' <=>
                  \E w \in Writers : appends'[w].pc = "event" /\ x \in appends'[w].event
  BY DEF WaitingEvents
<1>2. /\ \A x : x \in WaitingChecks <=>
                  \E w \in Writers : appends[w].pc \in {"event", "checkpoint"} /\ x \in appends[w].checkpoint
      /\ \A x : x \in WaitingChecks' <=>
                  \E w \in Writers : appends'[w].pc \in {"event", "checkpoint"} /\ x \in appends'[w].checkpoint
  BY DEF WaitingChecks
<1>3. \A x : x \in WaitingEvents <=> x \in WaitingEvents' BY <1>1
<1>4. \A x : x \in WaitingChecks <=> x \in WaitingChecks' BY <1>2
<1> QED BY <1>3, <1>4

LEMMA WaitingParts ==
  /\ \A x : x \in WaitingEvents <=> \E w \in Writers : appends[w].pc = "event" /\ x \in appends[w].event
  /\ \A x : x \in WaitingChecks <=>
              \E w \in Writers : appends[w].pc \in {"event", "checkpoint"} /\ x \in appends[w].checkpoint
BY DEF WaitingEvents, WaitingChecks

LEMMA WaitingPartsNext ==
  /\ \A x : x \in WaitingEvents' <=>
              \E w \in Writers : appends'[w].pc = "event" /\ x \in appends'[w].event
  /\ \A x : x \in WaitingChecks' <=>
              \E w \in Writers : appends'[w].pc \in {"event", "checkpoint"} /\ x \in appends'[w].checkpoint
BY DEF WaitingEvents, WaitingChecks

LEMMA ChainRecord ==
  ASSUME AuditInv, InOrder, PlanIsPrefix, StoreFollows, RecordStep
  PROVE  InOrder' /\ PlanIsPrefix' /\ StoreFollows'
<1>1. PICK w \in Writers, kind \in AuditKinds : RecordAuditEvent(w, kind) BY DEF RecordStep
<1>2. PICK e \in Event :
        /\ e.id = auditCount + 1 /\ e.day = auditDay /\ e.slot = auditSlot'
        /\ e.prev = LatestEventHash(trail) /\ trail' = AppendWithSigner(trail, e)
        /\ trail' \in Trails
        /\ appends' = [appends EXCEPT ![w] = [appends[w] EXCEPT
                          !.pc = "event", !.event = {e},
                          !.checkpoint = {Last(trail'.checkpoints)}, !.copy = trail']]
        /\ auditCount' = auditCount + 1 /\ UNCHANGED auditDay
        /\ auditSlot' \in {auditSlot, auditSlot + 1}
        /\ appends[w].pc \in {"idle", "deleting"}
  BY <1>1, RecordParts
<1>3. UNCHANGED <<hotEvents, hotChecks, boundaries, retention, replica>>
  BY <1>1 DEF RecordAuditEvent, storeVars
<1>4. /\ trail \in Trails /\ AppendsOK /\ Chained(trail)
      /\ auditCount \in Nat /\ auditDay \in Nat /\ auditSlot \in Nat
      /\ \A f \in Range(trail.events) : f \in Event /\ f.day \in Nat /\ f.slot \in Nat
      /\ Offset(trail) \in Nat /\ Len(trail.events) \in Nat
  BY ChainTypes DEF InOrder
<1>5. auditSlot' \in Nat /\ auditSlot <= auditSlot' BY <1>2, <1>4
<1>6. /\ e.id = Offset(trail) + Len(trail.events) + 1
      /\ e.prev = Offset(trail) + Len(trail.events)
      /\ \A f \in Range(trail.events) : f.day <= e.day /\ f.slot <= e.slot
  BY <1>2, <1>4, <1>5, ChainFacts DEF InOrder
<1> DEFINE c == CheckOf(e)
<1>7. /\ Chained(trail') /\ trail'.anchor = trail.anchor /\ Offset(trail') = Offset(trail)
      /\ trail'.events = Append(trail.events, e) /\ trail'.checkpoints = Append(trail.checkpoints, c)
  BY <1>2, <1>4, <1>6, ChainAppends
<1>8. c \in Checkpoint BY EventFields DEF Checkpoint, CheckOf, Event
<1>9. c.day = auditDay BY <1>2, CheckFields
<1> HIDE DEF c
<1>10. /\ Range(trail'.events) = Range(trail.events) \cup {e} /\ Len(trail'.events) = Len(trail.events) + 1
       /\ \A i \in 1..Len(trail.events) : trail'.events[i] = trail.events[i]
  BY <1>4, <1>7, TrailParts, AppendParts
<1>11. /\ Range(trail'.checkpoints) = Range(trail.checkpoints) \cup {c}
       /\ \A i \in 1..Len(trail.events) : trail'.checkpoints[i] = trail.checkpoints[i]
       /\ Last(trail'.checkpoints) = c
  <2>1. Len(trail.checkpoints) = Len(trail.events) /\ trail.checkpoints \in Seq(Checkpoint)
    BY <1>4, TrailParts DEF Chained
  <2> QED BY <1>7, <1>8, <2>1, AppendParts
<1> DEFINE r == [appends[w] EXCEPT !.pc = "event", !.event = {e},
                                   !.checkpoint = {Last(trail'.checkpoints)}, !.copy = trail']
<1>12. r.pc = "event" /\ r.event = {e} /\ r.checkpoint = {c} /\ r.copy = trail'
  BY <1>4, <1>11 DEF AppendsOK, AppendRecord
<1> HIDE DEF r
<1>13. \A v \in Writers : appends'[v] = IF v = w THEN r ELSE appends[v] BY <1>2, <1>4, AppendsAt DEF r
<1>14. Planned' = Planned /\ ActiveBoundary' = ActiveBoundary BY <1>3 DEF Planned, ActiveBoundary
<1>15. InOrder'
  <2>1. \A v \in Writers : Chained(appends'[v].copy) BY <1>7, <1>12, <1>13 DEF InOrder
  <2>2. Offset(trail') + Len(trail'.events) = auditCount' BY <1>2, <1>4, <1>7, <1>10 DEF InOrder
  <2>3. \A f \in Range(trail'.events) : f.day <= auditDay' /\ f.slot <= auditSlot'
    <3>1. \A f \in Range(trail.events) : f.slot <= auditSlot' BY <1>2, <1>6
    <3> QED BY <1>2, <1>4, <1>5, <1>10, <3>1 DEF InOrder
  <2>4. Chained(replica)' /\ (retention.pc = "replica" => Chained(Planned))' BY <1>3, <1>14 DEF InOrder
  <2> QED BY <1>7, <2>1, <2>2, <2>3, <2>4 DEF InOrder
<1>16. PlanIsPrefix'
  <2> SUFFICES ASSUME retention.pc \in Archiving PROVE PlanIsPrefix' BY <1>3 DEF PlanIsPrefix
  <2> DEFINE k == Len(Planned.events)
  <2>1. k \in 1..Len(trail.events) BY DEF PlanIsPrefix
  <2>2. /\ Len(Planned.checkpoints) = k /\ Planned.boundary = trail.checkpoints[k]
        /\ \A i \in 1..k : /\ Planned.events[i] = trail.events[i]
                           /\ Planned.checkpoints[i] = trail.checkpoints[i]
                           /\ trail.events[i].day < auditDay
    BY DEF PlanIsPrefix
  <2>3. k \in 1..Len(trail'.events) /\ \A i \in 1..k : i \in 1..Len(trail.events) BY <1>4, <1>10, <2>1
  <2> HIDE DEF k
  <2>4. Planned'.boundary = trail'.checkpoints[k] BY <1>11, <1>14, <2>1, <2>2
  <2>5. \A i \in 1..k : /\ Planned'.events[i] = trail'.events[i]
                        /\ Planned'.checkpoints[i] = trail'.checkpoints[i]
                        /\ trail'.events[i].day < auditDay'
    BY <1>2, <1>10, <1>11, <1>14, <2>2, <2>3
  <2>6. Len(Planned'.events) = k BY <1>14 DEF k
  <2>7. Len(Planned'.checkpoints) = k BY <1>14, <2>2
  <2> QED BY <2>3, <2>4, <2>5, <2>6, <2>7 DEF PlanIsPrefix
<1>17. StoreFollows'
  <2>1. WaitingEvents' = WaitingEvents \cup {e}
    <3>1. \A x : x \in WaitingEvents' <=> x \in WaitingEvents \/ x = e
      BY <1>2, <1>12, <1>13, WaitingParts, WaitingPartsNext
    <3> QED BY <3>1
  <2>2. WaitingChecks' = WaitingChecks \cup {c}
    <3>1. ASSUME NEW x, x \in WaitingChecks' PROVE x \in WaitingChecks \/ x = c
      <4>1. PICK v \in Writers : appends'[v].pc \in {"event", "checkpoint"} /\ x \in appends'[v].checkpoint
        BY <3>1, WaitingPartsNext
      <4> QED BY <1>12, <1>13, <4>1, WaitingParts
    <3>2. ASSUME NEW x, x \in WaitingChecks PROVE x \in WaitingChecks'
      <4>1. PICK v \in Writers : appends[v].pc \in {"event", "checkpoint"} /\ x \in appends[v].checkpoint
        BY <3>2, WaitingParts
      <4>2. v # w BY <1>2, <4>1
      <4> QED BY <1>13, <4>1, <4>2, WaitingPartsNext
    <3>3. c \in WaitingChecks'
      <4>1. appends'[w] = r BY <1>13
      <4> QED BY <1>12, <4>1, WaitingPartsNext
    <3> QED BY <3>1, <3>2, <3>3
  <2>3. DeletedEvents' = DeletedEvents /\ DeletedChecks' = DeletedChecks
    BY <1>3, <1>14 DEF DeletedEvents, DeletedChecks
  <2>4. e \notin DeletedEvents /\ c \notin DeletedChecks
    <3>1. CASE retention.pc \in Archiving
      <4>1. ~(e.day < auditDay) /\ ~(c.day < auditDay) BY <1>2, <1>4, <1>9
      <4> QED BY <3>1, <4>1, PlanOld DEF DeletedEvents, DeletedChecks
    <3>2. CASE retention.pc \notin Archiving BY <3>2 DEF DeletedEvents, DeletedChecks, Archiving
    <3> QED BY <3>1, <3>2
  <2>5. hotEvents' \cup WaitingEvents' = Range(trail'.events) \ DeletedEvents'
    BY <1>3, <1>10, <2>1, <2>3, <2>4 DEF StoreFollows
  <2>6. hotChecks' \cup WaitingChecks' = Range(trail'.checkpoints) \ DeletedChecks'
    BY <1>3, <1>11, <2>2, <2>3, <2>4 DEF StoreFollows
  <2> QED BY <1>3, <1>7, <1>14, <2>5, <2>6 DEF StoreFollows
<1> QED BY <1>15, <1>16, <1>17

LEMMA ChainPersist ==
  ASSUME AuditInv, InOrder, PlanIsPrefix, StoreFollows, PersistStep, auditClean'
  PROVE  InOrder' /\ PlanIsPrefix' /\ StoreFollows'
<1>1. PICK w \in Writers : PersistAuditAppend(w) BY DEF PersistStep
<1>2. UNCHANGED <<trail, retention, boundaries, auditCount, auditDay, auditSlot>>
  BY <1>1 DEF PersistAuditAppend, clockVars
<1>3. AppendsOK /\ auditDay \in Nat /\ auditSlot \in Nat BY ChainTypes
<1>4. /\ \A v \in Writers \ {w} : appends'[v] = appends[v]
      /\ appends'[w].event = appends[w].event /\ appends'[w].checkpoint = appends[w].checkpoint
      /\ appends'[w].copy = appends[w].copy
  BY <1>1, <1>3, PersistMoves
<1>5. \A v \in Writers : Chained(appends'[v].copy) BY <1>4 DEF InOrder
<1>6. \A pc : appends' = [appends EXCEPT ![w].pc = pc] => appends'[w].pc = pc
  BY <1>3 DEF AppendsOK, AppendRecord
<1>7. auditDay <= auditDay' /\ auditSlot <= auditSlot' /\ auditDay' \in Nat /\ auditSlot' \in Nat
  BY <1>2, <1>3
<1>8. CASE /\ appends[w].pc = "event" /\ appends'[w].pc = "checkpoint"
           /\ hotEvents' = hotEvents \cup appends[w].event /\ UNCHANGED <<hotChecks, replica>>
  <2>1. \A x : x \in WaitingEvents \/ x \in appends[w].event
                 <=> x \in WaitingEvents' \/ x \in appends[w].event
    BY <1>4, <1>8, WaitingParts, WaitingPartsNext
  <2>2. \A x : x \in appends[w].event => x \in WaitingEvents BY <1>8, WaitingParts
  <2>3. hotEvents' \cup WaitingEvents' = hotEvents \cup WaitingEvents BY <1>8, <2>1, <2>2
  <2>4. \A x : x \in WaitingChecks <=> x \in WaitingChecks' BY <1>4, <1>8, WaitingParts, WaitingPartsNext
  <2>5. hotChecks' \cup WaitingChecks' = hotChecks \cup WaitingChecks BY <1>8, <2>4
  <2>6. Chained(replica)' BY <1>8 DEF InOrder
  <2> QED BY <1>2, <1>5, <1>7, <2>3, <2>5, <2>6, ChainAlone
<1>9. CASE /\ appends[w].pc = "checkpoint" /\ appends'[w].pc = "replica"
           /\ hotChecks' = hotChecks \cup appends[w].checkpoint /\ UNCHANGED <<hotEvents, replica>>
  <2>1. \A x : x \in WaitingChecks \/ x \in appends[w].checkpoint
                 <=> x \in WaitingChecks' \/ x \in appends[w].checkpoint
    BY <1>4, <1>9, WaitingParts, WaitingPartsNext
  <2>2. \A x : x \in appends[w].checkpoint => x \in WaitingChecks BY <1>9, WaitingParts
  <2>3. hotChecks' \cup WaitingChecks' = hotChecks \cup WaitingChecks BY <1>9, <2>1, <2>2
  <2>4. \A x : x \in WaitingEvents <=> x \in WaitingEvents' BY <1>4, <1>9, WaitingParts, WaitingPartsNext
  <2>5. hotEvents' \cup WaitingEvents' = hotEvents \cup WaitingEvents BY <1>9, <2>4
  <2>6. Chained(replica)' BY <1>9 DEF InOrder
  <2> QED BY <1>2, <1>5, <1>7, <2>3, <2>5, <2>6, ChainAlone
<1>10. CASE /\ appends[w].pc = "replica" /\ appends'[w].pc = "spawn"
            /\ replica' = appends[w].copy /\ UNCHANGED <<hotEvents, hotChecks>>
  <2>1. \A x : x \in WaitingEvents <=> x \in WaitingEvents' BY <1>4, <1>10, WaitingParts, WaitingPartsNext
  <2>2. \A x : x \in WaitingChecks <=> x \in WaitingChecks' BY <1>4, <1>10, WaitingParts, WaitingPartsNext
  <2>3. /\ hotEvents' \cup WaitingEvents' = hotEvents \cup WaitingEvents
        /\ hotChecks' \cup WaitingChecks' = hotChecks \cup WaitingChecks
    BY <1>10, <2>1, <2>2
  <2>4. Chained(replica)' BY <1>10 DEF InOrder
  <2> QED BY <1>2, <1>5, <1>7, <2>3, <2>4, ChainAlone
<1> QED BY <1>1, <1>3, <1>6, <1>8, <1>9, <1>10, PersistParts

\* The ends of requests, forwarding and time touch neither chain nor rows.
LEMMA ChainQuiet ==
  ASSUME AuditInv, InOrder, PlanIsPrefix, StoreFollows,
         FinalizeStep \/ DeletionStep \/ PublishStep \/ AuditTick \/ UNCHANGED auditVars
  PROVE  InOrder' /\ PlanIsPrefix' /\ StoreFollows'
<1>1. AppendsOK /\ auditDay \in Nat /\ auditSlot \in Nat BY ChainTypes
<1>2. UNCHANGED <<trail, retention, boundaries, auditCount, hotEvents, hotChecks, replica>>
  BY DEF FinalizeStep, FinalizeAuditEvent, DeletionStep, SealDeletion, StartDeletion, PublishStep,
         PublishExternalAuditForward, AuditTick, auditVars, storeVars, clockVars
<1>3. CASE AuditTick
  <2>1. UNCHANGED appends /\ auditDay' = auditDay + 1 /\ auditSlot' = auditSlot + 1 BY <1>3 DEF AuditTick
  <2>2. \A w \in Writers : Chained(appends'[w].copy) BY <2>1 DEF InOrder
  <2>3. WaitingEvents' = WaitingEvents /\ WaitingChecks' = WaitingChecks BY <2>1, WaitingSame
  <2>4. auditDay <= auditDay' /\ auditSlot <= auditSlot' /\ auditDay' \in Nat /\ auditSlot' \in Nat
    BY <1>1, <2>1
  <2>5. Chained(replica)' BY <1>2 DEF InOrder
  <2> QED BY <1>2, <2>2, <2>3, <2>4, <2>5, ChainAlone
<1>4. ASSUME UNCHANGED <<auditDay, auditSlot>>,
             \A v \in Writers :
               \/ appends'[v] = appends[v]
               \/ /\ appends[v].pc \notin {"event", "checkpoint"}
                  /\ appends'[v].pc \notin {"event", "checkpoint"}
                  /\ appends'[v].copy = EmptyTrail
      PROVE  InOrder' /\ PlanIsPrefix' /\ StoreFollows'
  <2>1. \A w \in Writers : Chained(appends'[w].copy) BY <1>4, EmptyChained DEF InOrder
  <2>2. WaitingEvents' = WaitingEvents /\ WaitingChecks' = WaitingChecks BY <1>4, WaitingSame
  <2>3. auditDay <= auditDay' /\ auditSlot <= auditSlot' /\ auditDay' \in Nat /\ auditSlot' \in Nat
    BY <1>1, <1>4
  <2>4. Chained(replica)' BY <1>2 DEF InOrder
  <2> QED BY <1>2, <2>1, <2>2, <2>3, <2>4, ChainAlone
<1>5. CASE FinalizeStep
  <2>1. PICK w \in Writers : FinalizeAuditEvent(w) BY <1>5 DEF FinalizeStep
  <2>2. UNCHANGED <<auditDay, auditSlot>> BY <2>1 DEF FinalizeAuditEvent, clockVars
  <2>3. /\ \A v \in Writers \ {w} : appends'[v] = appends[v]
        /\ appends[w].pc = "spawn" /\ appends'[w].pc \in {"idle", "seal"}
        /\ appends'[w].copy = EmptyTrail
    BY <1>1, <2>1, FinalizeMoves, IdleParts
  <2> QED BY <1>4, <2>2, <2>3
<1>6. CASE DeletionStep
  <2>1. UNCHANGED <<auditDay, auditSlot>> BY <1>6 DEF DeletionStep, SealDeletion, StartDeletion, clockVars
  <2>2. PICK w \in Writers :
           /\ \A v \in Writers \ {w} : appends'[v] = appends[v]
           /\ appends[w].pc \in {"seal", "idle"} /\ appends'[w].pc \in {"idle", "deleting"}
           /\ appends'[w].copy = EmptyTrail
    BY <1>1, <1>6, DeletionMoves, IdleParts
  <2> QED BY <1>4, <2>1, <2>2
<1>7. CASE PublishStep \/ UNCHANGED auditVars
  <2>1. UNCHANGED <<appends, auditDay, auditSlot>>
    BY <1>7 DEF PublishStep, PublishExternalAuditForward, auditVars, clockVars
  <2> QED BY <1>4, <2>1
<1> QED BY <1>3, <1>5, <1>6, <1>7

\* A plan made of a chain takes its first events, all of them old enough.
LEMMA PlanTaken ==
  ASSUME trail \in Trails, Chained(trail), auditDay \in Nat, NEW p \in BuildArchivePlan(trail, auditDay)
  PROVE  /\ Len(p.events) \in 1..Len(trail.events) /\ Len(p.checkpoints) = Len(p.events)
         /\ \A i \in 1..Len(p.events) :
              /\ p.events[i] = trail.events[i] /\ p.checkpoints[i] = trail.checkpoints[i]
              /\ trail.events[i].day < auditDay
         /\ p.boundary = trail.checkpoints[Len(p.events)]
<1> DEFINE k == Max(BoundaryCandidates(trail, auditDay))
           b == trail.checkpoints[k]
           evs == SubSeq(trail.events, 1, k)
           cps == SubSeq(trail.checkpoints, 1, k)
<1>1. k \in BoundaryCandidates(trail, auditDay) BY PlanBoundary
<1> HIDE DEF k
<1>2. /\ trail.events \in Seq(Event) /\ trail.checkpoints \in Seq(Checkpoint)
      /\ Len(trail.checkpoints) = Len(trail.events)
  BY TrailParts DEF Chained
<1>3. k \in 1..Len(trail.events) /\ b.day <= auditDay - ArchiveAfter BY <1>1, <1>2 DEF BoundaryCandidates
<1>4. ArchivedEvents(trail, b) = k /\ ArchivedChecks(trail, b) = k BY <1>3, ChainArchives
<1>5. \E x : p.events = SubSeq(trail.events, 1, ArchivedEvents(trail, b)) /\ p.boundary = b
               /\ p.checkpoints = SubSeq(trail.checkpoints, 1, ArchivedChecks(trail, b))
  BY DEF BuildArchivePlan, k
<1>6. p.events = evs /\ p.checkpoints = cps /\ p.boundary = b BY <1>4, <1>5
<1>7. /\ Len(evs) = k /\ Len(cps) = k
      /\ \A i \in 1..k : evs[i] = trail.events[i] /\ cps[i] = trail.checkpoints[i]
  BY <1>2, <1>3
<1> HIDE DEF evs, cps
<1>8. ASSUME NEW i \in 1..k PROVE trail.events[i].day < auditDay
  <2>1. k \in DOMAIN trail.events /\ i \in DOMAIN trail.events /\ i <= k BY <1>2, <1>3
  <2>2. trail.events[i].day <= trail.events[k].day /\ trail.checkpoints[k] = CheckOf(trail.events[k])
    BY <2>1 DEF Chained
  <2>3. b.day = trail.events[k].day BY <2>2, CheckFields
  <2>4. trail.events[i].day \in Nat /\ trail.events[k].day \in Nat BY <1>2, <2>1, EventFields
  <2>5. ArchiveAfter \in Nat /\ ArchiveAfter >= 1 BY AuditAssumption
  <2> HIDE DEF b
  <2> QED BY <1>3, <2>2, <2>3, <2>4, <2>5
<1> QED BY <1>3, <1>6, <1>7, <1>8

LEMMA ChainStart ==
  ASSUME AuditInv, InOrder, PlanIsPrefix, StoreFollows, StartRetention
  PROVE  InOrder' /\ PlanIsPrefix' /\ StoreFollows'
<1>1. /\ trail \in Trails /\ Chained(trail) /\ auditDay \in Nat /\ auditSlot \in Nat
  BY ChainTypes DEF InOrder
<1>2. UNCHANGED <<trail, hotEvents, hotChecks, boundaries, appends, replica, auditCount,
                  auditDay, auditSlot>>
  BY DEF StartRetention, storeVars, clockVars
<1>3. WaitingEvents' = WaitingEvents /\ WaitingChecks' = WaitingChecks BY <1>2, WaitingSame
<1>4. (\A w \in Writers : Chained(appends[w].copy))' /\ Chained(replica)' BY <1>2 DEF InOrder
<1>5. CASE UNCHANGED retention
  <2>1. auditDay <= auditDay' /\ auditSlot <= auditSlot' /\ auditDay' \in Nat /\ auditSlot' \in Nat
    BY <1>1, <1>2
  <2> QED BY <1>2, <1>3, <1>4, <1>5, <2>1, ChainAlone
<1>6. CASE /\ retention.pc = "idle" /\ retention'.pc \in {"cleanup", "file", "release"}
           /\ retention'.pc = "file" => \E p \in retention'.bundle : TRUE
           /\ retention'.bundle = BuildArchivePlan(trail, auditDay)
  <2>1. InOrder' BY <1>2, <1>6 DEF InOrder
  <2>2. PlanIsPrefix'
    <3>1. SUFFICES ASSUME retention'.pc = "file" PROVE PlanIsPrefix' BY <1>6 DEF PlanIsPrefix, Archiving
    <3>2. Planned' \in BuildArchivePlan(trail, auditDay) BY <1>6, <3>1 DEF Planned
    <3>3. /\ Len(Planned'.events) \in 1..Len(trail.events)
          /\ Len(Planned'.checkpoints) = Len(Planned'.events)
          /\ \A i \in 1..Len(Planned'.events) :
               /\ Planned'.events[i] = trail.events[i] /\ Planned'.checkpoints[i] = trail.checkpoints[i]
               /\ trail.events[i].day < auditDay
          /\ Planned'.boundary = trail.checkpoints[Len(Planned'.events)]
      BY <1>1, <3>2, PlanTaken
    <3> QED BY <1>2, <3>3 DEF PlanIsPrefix
  <2>3. StoreFollows'
    <3>1. /\ DeletedEvents = {} /\ DeletedChecks = {}
          /\ DeletedEvents' = {} /\ DeletedChecks' = {}
      BY <1>6 DEF DeletedEvents, DeletedChecks
    <3>2. ActiveBoundary' = ActiveBoundary BY <1>2 DEF ActiveBoundary
    <3>3. \A b \in boundaries : b.checkpoint.count <= Offset(trail) BY <1>6 DEF StoreFollows, Inserted
    <3>4. ActiveBoundary = trail.anchor BY <1>6 DEF StoreFollows, Critical
    <3> QED BY <1>2, <1>3, <3>1, <3>2, <3>3, <3>4 DEF StoreFollows
  <2> QED BY <2>1, <2>2, <2>3
<1> QED BY <1>5, <1>6, StartMoves

\* A run that touches neither rows nor chain, outside the steps that do.
LEMMA StoreQuiet ==
  ASSUME StoreFollows, UNCHANGED <<trail, hotEvents, hotChecks, boundaries>>,
         WaitingEvents' = WaitingEvents, WaitingChecks' = WaitingChecks,
         retention.pc \notin Critical, retention'.pc \notin Critical
  PROVE  StoreFollows'
<1>1. ActiveBoundary' = ActiveBoundary BY DEF ActiveBoundary
<1>2. /\ DeletedEvents = {} /\ DeletedChecks = {}
      /\ DeletedEvents' = {} /\ DeletedChecks' = {}
  BY DEF DeletedEvents, DeletedChecks, Critical
<1>3. \A b \in boundaries : b.checkpoint.count <= Offset(trail) BY DEF StoreFollows, Inserted, Critical
<1> QED BY <1>1, <1>2, <1>3 DEF StoreFollows

\* The boundary a run is about to insert is beyond those there are.
LEMMA BoundaryIsNew ==
  ASSUME AuditInv, InOrder, PlanIsPrefix, StoreFollows, retention.pc = "boundary", NEW b \in boundaries
  PROVE  b.checkpoint # Planned.boundary
<1> DEFINE k == Len(Planned.events)
<1>1. trail \in Trails /\ Chained(trail) /\ Offset(trail) \in Nat /\ Len(trail.events) \in Nat
  BY ChainTypes DEF InOrder
<1>2. k \in 1..Len(trail.events) /\ Planned.boundary = trail.checkpoints[k] BY DEF PlanIsPrefix, Archiving
<1> HIDE DEF k
<1>3. Planned.boundary.count = Offset(trail) + k BY <1>1, <1>2, ChainArchives
<1>4. b.checkpoint.count <= Offset(trail) BY DEF StoreFollows, Inserted
<1> QED BY <1>1, <1>2, <1>3, <1>4

\* The boundary reaches memory: the chain loses what the run deleted.
LEMMA ChainMemory ==
  ASSUME AuditInv, OneBoundary, InOrder, PlanIsPrefix, StoreFollows,
         WaitingEvents' = WaitingEvents, WaitingChecks' = WaitingChecks,
         UNCHANGED <<hotEvents, hotChecks, boundaries, replica, appends, auditCount, auditDay, auditSlot>>,
         retention.pc = "memory", retention'.pc = "replica", Planned' = trail',
         trail' = ApplyArchiveBoundary(trail, Planned.boundary)
  PROVE  InOrder' /\ PlanIsPrefix' /\ StoreFollows'
<1> DEFINE k == Len(Planned.events)
           b == Planned.boundary
<1>1. /\ trail \in Trails /\ Chained(trail) /\ Offset(trail) \in Nat /\ Len(trail.events) \in Nat
      /\ Planned \in Plans /\ \A x \in boundaries : x.checkpoint.count \in Nat
  BY ChainTypes DEF InOrder, Archiving
<1>2. /\ k \in 1..Len(trail.events) /\ b = trail.checkpoints[k] /\ Len(Planned.checkpoints) = k
      /\ \A i \in 1..k : /\ Planned.events[i] = trail.events[i]
                         /\ Planned.checkpoints[i] = trail.checkpoints[i]
  BY DEF PlanIsPrefix, Archiving
<1>3. Len(Planned.events) = k /\ trail' = ApplyArchiveBoundary(trail, b) OBVIOUS
<1>4. ActiveBoundary = {b} BY DEF OneBoundary, Inserted
<1> HIDE DEF k, b
<1>5. /\ Chained(trail') /\ trail'.anchor = {b} /\ Offset(trail') = Offset(trail) + k
      /\ trail'.events = SubSeq(trail.events, k + 1, Len(trail.events))
      /\ trail'.checkpoints = SubSeq(trail.checkpoints, k + 1, Len(trail.checkpoints))
      /\ Len(trail'.events) = Len(trail.events) - k
  <2> DEFINE u == ApplyArchiveBoundary(trail, b)
  <2>1. u = ApplyArchiveBoundary(trail, b) OBVIOUS
  <2> HIDE DEF u
  <2>2. /\ trail \in Trails /\ Chained(trail) /\ k \in 1..Len(trail.events)
        /\ b = trail.checkpoints[k]
    BY <1>1, <1>2
  <2>3. Chained(u) BY <2>1, <2>2, ArchivedChain
  <2>4. Offset(u) = Offset(trail) + k BY <2>1, <2>2, ArchivedChain
  <2>5. u.events = SubSeq(trail.events, k + 1, Len(trail.events)) BY <2>1, <2>2, ArchivedChain
  <2>6. u.checkpoints = SubSeq(trail.checkpoints, k + 1, Len(trail.checkpoints))
    BY <2>1, <2>2, ArchivedChain
  <2>7. u.anchor = {b} BY <2>1 DEF ApplyArchiveBoundary
  <2>8. Len(u.events) = Len(trail.events) - k
    <3>1. trail.events \in Seq(Event) /\ k \in 0..Len(trail.events) BY <1>1, <1>2, TrailParts
    <3> QED BY <2>5, <3>1, SuffixParts
  <2>9. trail' = u BY <1>3, <2>1
  <2> QED BY <2>3, <2>4, <2>5, <2>6, <2>7, <2>8, <2>9
<1>6. b.count = Offset(trail) + k BY <1>1, <1>2, ChainArchives
<1>7. /\ trail.events \in Seq(Event) /\ trail.checkpoints \in Seq(Checkpoint)
      /\ Planned.events \in Seq(Event) /\ Planned.checkpoints \in Seq(Checkpoint)
      /\ k \in 0..Len(trail.events) /\ Len(trail.checkpoints) = Len(trail.events)
  BY <1>1, <1>2, TrailParts DEF Plans, Chained
<1>8. Range(trail'.events) = Range(trail.events) \ Range(Planned.events)
  <2>1. \A i, j \in 1..Len(trail.events) : trail.events[i] = trail.events[j] => i = j
    BY <1>1, ChainDistinct
  <2> DEFINE s == trail.events
             p == Planned.events
  <2>2. /\ s \in Seq(Event) /\ p \in Seq(Event) /\ Len(p) = k /\ k \in 0..Len(s)
        /\ \A i \in 1..k : p[i] = s[i]
        /\ \A i, j \in 1..Len(s) : s[i] = s[j] => i = j
    BY <1>2, <1>3, <1>7, <2>1
  <2> HIDE DEF s, p
  <2>3. Range(SubSeq(s, k + 1, Len(s))) = Range(s) \ Range(p) BY <2>2, SuffixRange
  <2> QED BY <1>5, <2>3 DEF s, p
<1>9. Range(trail'.checkpoints) = Range(trail.checkpoints) \ Range(Planned.checkpoints)
  <2>1. \A i, j \in 1..Len(trail.checkpoints) : trail.checkpoints[i] = trail.checkpoints[j] => i = j
    BY <1>1, ChainDistinct
  <2> DEFINE s == trail.checkpoints
             p == Planned.checkpoints
  <2>2. /\ s \in Seq(Checkpoint) /\ p \in Seq(Checkpoint) /\ Len(p) = k /\ k \in 0..Len(s)
        /\ \A i \in 1..k : p[i] = s[i]
        /\ \A i, j \in 1..Len(s) : s[i] = s[j] => i = j
    BY <1>2, <1>7, <2>1
  <2> HIDE DEF s, p
  <2>3. Range(SubSeq(s, k + 1, Len(s))) = Range(s) \ Range(p) BY <2>2, SuffixRange
  <2> QED BY <1>5, <2>3 DEF s, p
<1>10. InOrder'
  <2>1. Chained(replica)' /\ \A w \in Writers : Chained(appends'[w].copy) BY DEF InOrder
  <2>2. Offset(trail') + Len(trail'.events) = auditCount' BY <1>1, <1>2, <1>5 DEF InOrder
  <2>3. \A e \in Range(trail'.events) : e.day <= auditDay' /\ e.slot <= auditSlot' BY <1>8 DEF InOrder
  <2> QED BY <1>5, <2>1, <2>2, <2>3 DEF InOrder
<1>11. PlanIsPrefix' BY DEF PlanIsPrefix, Archiving
<1>12. StoreFollows'
  <2>1. DeletedEvents = Range(Planned.events) /\ DeletedChecks = Range(Planned.checkpoints)
    BY DEF DeletedEvents, DeletedChecks
  <2>2. DeletedEvents' = {} /\ DeletedChecks' = {} BY DEF DeletedEvents, DeletedChecks
  <2>3. ActiveBoundary' = trail'.anchor BY <1>4, <1>5 DEF ActiveBoundary
  <2>4. ASSUME NEW x \in boundaries PROVE x.checkpoint.count <= Offset(trail')
    <3>1. x.checkpoint.count <= Offset(trail) \/ x.checkpoint = b BY DEF StoreFollows, b
    <3>2. Offset(trail) <= Offset(trail') /\ b.count <= Offset(trail') /\ Offset(trail') \in Nat
      BY <1>1, <1>2, <1>5, <1>6
    <3> QED BY <1>1, <3>1, <3>2
  <2> QED BY <1>8, <1>9, <2>1, <2>2, <2>3, <2>4 DEF StoreFollows
<1> QED BY <1>10, <1>11, <1>12

LEMMA ChainRun ==
  ASSUME AuditInv, OneBoundary, Today, InOrder, PlanIsPrefix, StoreFollows, RunAuditRetention, auditClean'
  PROVE  InOrder' /\ PlanIsPrefix' /\ StoreFollows'
<1>1. RunOK /\ AppendsOK BY ChainTypes
<1>2. UNCHANGED <<appends, auditCount, auditDay, auditSlot>> BY DEF RunAuditRetention, clockVars
<1>3. WaitingEvents' = WaitingEvents /\ WaitingChecks' = WaitingChecks BY <1>2, WaitingSame
<1>4. ASSUME UNCHANGED trail, Chained(replica)', retention'.pc # "replica" PROVE InOrder'
  BY <1>2, <1>4 DEF InOrder
<1>5. ASSUME UNCHANGED trail, retention'.pc \in Archiving => retention.pc \in Archiving /\ Planned' = Planned
      PROVE  PlanIsPrefix'
  BY <1>2, <1>5 DEF PlanIsPrefix
<1>6. UNCHANGED replica => Chained(replica)' BY DEF InOrder
<1>7. CASE /\ UNCHANGED <<hotEvents, hotChecks, boundaries, trail, replica>>
           /\ retention.pc \notin Critical /\ retention'.pc \notin Critical /\ retention'.pc # "replica"
           /\ retention'.pc \in Archiving => retention.pc \in Archiving /\ Planned' = Planned
  BY <1>3, <1>4, <1>5, <1>6, <1>7, StoreQuiet
<1>8. CASE /\ Moves("deactivate", "boundary")
           /\ boundaries' = {[b EXCEPT !.active = FALSE] : b \in boundaries}
           /\ UNCHANGED <<hotEvents, hotChecks, trail, replica>>
  <2>1. InOrder' /\ PlanIsPrefix' BY <1>4, <1>5, <1>6, <1>8 DEF Moves, Archiving
  <2>2. DeletedEvents = {} /\ DeletedChecks = {} /\ DeletedEvents' = {} /\ DeletedChecks' = {}
    BY <1>8 DEF DeletedEvents, DeletedChecks, Moves
  <2>3. \A b \in boundaries : [b EXCEPT !.active = FALSE].checkpoint = b.checkpoint
    BY DEF AuditInv, StoreOK
  <2>4. \A b \in boundaries : b.checkpoint.count <= Offset(trail)
    BY <1>8 DEF StoreFollows, Inserted, Moves
  <2>5. \A b \in boundaries' : b.checkpoint.count <= Offset(trail) BY <1>8, <2>3, <2>4
  <2>6. StoreFollows' BY <1>3, <1>8, <2>2, <2>5 DEF StoreFollows, Critical, Moves
  <2> QED BY <2>1, <2>6
<1>9. CASE /\ Moves("boundary", "events")
           /\ boundaries' = boundaries \cup {[checkpoint |-> Planned.boundary, active |-> TRUE]}
           /\ UNCHANGED <<hotEvents, hotChecks, trail, replica>>
  <2>1. InOrder' /\ PlanIsPrefix' BY <1>4, <1>5, <1>6, <1>9 DEF Moves, Archiving
  <2>2. DeletedEvents = {} /\ DeletedChecks = {} /\ DeletedEvents' = {} /\ DeletedChecks' = {}
    BY <1>9 DEF DeletedEvents, DeletedChecks, Moves
  <2>3. \A b \in boundaries : b.checkpoint.count <= Offset(trail)
    BY <1>9 DEF StoreFollows, Inserted, Moves
  <2>4. \A b \in boundaries' : b.checkpoint.count <= Offset(trail) \/ b.checkpoint = Planned'.boundary
    BY <1>9, <2>3 DEF Moves
  <2>5. StoreFollows' BY <1>3, <1>9, <2>2, <2>4 DEF StoreFollows, Critical, Inserted, Moves
  <2> QED BY <2>1, <2>5
<1>10. CASE /\ Moves("events", "checkpoints") /\ hotEvents' = hotEvents \ Range(Planned.events)
            /\ UNCHANGED <<hotChecks, boundaries, trail, replica>>
  <2>1. InOrder' /\ PlanIsPrefix' BY <1>4, <1>5, <1>6, <1>10 DEF Moves, Archiving
  <2>2. /\ DeletedEvents = {} /\ DeletedEvents' = Range(Planned.events)
        /\ DeletedChecks = {} /\ DeletedChecks' = {}
    BY <1>10 DEF DeletedEvents, DeletedChecks, Moves
  <2>3. ASSUME NEW x \in WaitingEvents PROVE x \notin Range(Planned.events)
    <3>1. x.day = auditDay BY WaitingParts DEF Today
    <3>2. auditDay \in Nat BY ChainTypes
    <3>3. \A e \in Range(Planned.events) : e.day < auditDay BY <1>10, PlanOld DEF Moves, Archiving
    <3> QED BY <3>1, <3>2, <3>3
  <2>4. hotEvents' \cup WaitingEvents' = Range(trail'.events) \ DeletedEvents'
    BY <1>3, <1>10, <2>2, <2>3 DEF StoreFollows
  <2>5. StoreFollows' BY <1>3, <1>10, <2>2, <2>4 DEF StoreFollows, Critical, Inserted, Moves
  <2> QED BY <2>1, <2>5
<1>11. CASE /\ Moves("checkpoints", "memory") /\ hotChecks' = hotChecks \ Range(Planned.checkpoints)
            /\ UNCHANGED <<hotEvents, boundaries, trail, replica>>
  <2>1. InOrder' /\ PlanIsPrefix' BY <1>4, <1>5, <1>6, <1>11 DEF Moves, Archiving
  <2>2. /\ DeletedEvents' = DeletedEvents
        /\ DeletedChecks = {} /\ DeletedChecks' = Range(Planned.checkpoints)
    BY <1>11 DEF DeletedEvents, DeletedChecks, Moves
  <2>3. ASSUME NEW x \in WaitingChecks PROVE x \notin Range(Planned.checkpoints)
    <3>1. x.day = auditDay BY WaitingParts DEF Today
    <3>2. auditDay \in Nat BY ChainTypes
    <3>3. \A c \in Range(Planned.checkpoints) : c.day < auditDay BY <1>11, PlanOld DEF Moves, Archiving
    <3> QED BY <3>1, <3>2, <3>3
  <2>4. hotChecks' \cup WaitingChecks' = Range(trail'.checkpoints) \ DeletedChecks'
    BY <1>3, <1>11, <2>2, <2>3 DEF StoreFollows
  <2>5. StoreFollows' BY <1>3, <1>11, <2>2, <2>4 DEF StoreFollows, Critical, Inserted, Moves
  <2> QED BY <2>1, <2>5
<1>12. CASE /\ retention.pc = "replica" /\ retention'.pc = "cleanup" /\ replica' = Planned
            /\ UNCHANGED <<hotEvents, hotChecks, boundaries, trail>>
  <2>1. Chained(replica)' BY <1>12 DEF InOrder
  <2>2. retention.pc \notin Critical /\ retention'.pc \notin Critical \cup Archiving
    BY <1>12 DEF Critical, Archiving
  <2> QED BY <1>3, <1>4, <1>5, <1>12, <2>1, <2>2, StoreQuiet
<1>13. CASE /\ retention.pc = "memory" /\ retention'.pc = "replica" /\ Planned' = trail'
            /\ trail' = ApplyArchiveBoundary(trail, Planned.boundary)
            /\ UNCHANGED <<hotEvents, hotChecks, boundaries, replica>>
  BY <1>2, <1>3, <1>13, ChainMemory
<1>14. CASE Moves("boundary", "release") /\ \E b \in boundaries : b.checkpoint = Planned.boundary
  BY <1>14, BoundaryIsNew DEF Moves
<1>15. CASE /\ retention.pc \in {"file", "bundle", "deactivate", "cleanup"} \cup (Critical \ {"memory"})
            /\ retention'.pc = "release" /\ auditClean' = (auditClean /\ retention.pc \notin Critical)
            /\ UNCHANGED <<hotEvents, hotChecks, boundaries, trail, replica>>
  <2>1. retention.pc \notin Critical /\ retention'.pc \notin Critical \cup Archiving
    BY <1>15 DEF Critical, Archiving
  <2> QED BY <1>7, <1>15, <2>1
<1>16. CASE /\ Moves("file", "bundle") \/ Moves("bundle", "deactivate")
            /\ UNCHANGED <<hotEvents, hotChecks, boundaries, trail, replica>>
  <2>1. retention.pc \notin Critical /\ retention'.pc \notin Critical /\ retention.pc \in Archiving
    BY <1>16 DEF Critical, Archiving, Moves
  <2> QED BY <1>7, <1>16, <2>1 DEF Moves
<1>17. CASE /\ retention.pc \in {"cleanup", "release"} /\ retention'.pc \in {"release", "idle"}
            /\ UNCHANGED <<hotEvents, hotChecks, boundaries, trail, replica>>
  <2>1. retention.pc \notin Critical /\ retention'.pc \notin Critical \cup Archiving
    BY <1>17 DEF Critical, Archiving
  <2> QED BY <1>7, <1>17, <2>1
<1> QED BY <1>1, <1>8, <1>9, <1>10, <1>11, <1>12, <1>13, <1>14, <1>15, <1>16, <1>17, RunMoves, ZenonT(60)

\* A restart after a clean end brings the chain in memory back.
LEMMA ChainRestart ==
  ASSUME AuditInv, InOrder, PlanIsPrefix, StoreFollows, AuditRestart, auditClean'
  PROVE  InOrder' /\ PlanIsPrefix' /\ StoreFollows'
<1>1. /\ trail \in Trails /\ Chained(trail) /\ auditDay \in Nat /\ auditSlot \in Nat
      /\ Offset(trail) \in Nat /\ Len(trail.events) \in Nat
  BY ChainTypes DEF InOrder
<1>2. /\ UNCHANGED <<hotEvents, hotChecks, boundaries, replica, auditCount, auditDay, auditSlot>>
      /\ retention'.pc = "idle"
      /\ \A w \in Writers : appends'[w] = NoAppend
      /\ \A w \in Writers : appends[w].pc \in {"idle", "deleting", "spawn", "seal"}
      /\ retention.pc \notin Critical
      /\ \A e, f \in hotEvents : e.slot = f.slot => e = f
  BY DEF AuditRestart, storeVars, clockVars, NoRun
<1>3. PICK events \in LoadOrders(hotEvents), checks \in LoadOrders(hotChecks) :
        trail' = [anchor |-> ActiveBoundary, events |-> events, checkpoints |-> checks]
  BY DEF AuditRestart
<1>4. WaitingEvents = {} /\ WaitingChecks = {} /\ WaitingEvents' = {} /\ WaitingChecks' = {}
  <2>1. \A x : x \notin WaitingEvents /\ x \notin WaitingChecks BY <1>2, WaitingParts
  <2>2. \A x : x \notin WaitingEvents' /\ x \notin WaitingChecks' BY <1>2, IdleParts, WaitingPartsNext
  <2> QED BY <2>1, <2>2
<1>5. DeletedEvents = {} /\ DeletedChecks = {} /\ DeletedEvents' = {} /\ DeletedChecks' = {}
  BY <1>2 DEF DeletedEvents, DeletedChecks, Critical
<1>6. /\ hotEvents = Range(trail.events) /\ hotChecks = Range(trail.checkpoints)
      /\ ActiveBoundary = trail.anchor
      /\ \A b \in boundaries : b.checkpoint.count <= Offset(trail)
  BY <1>2, <1>4, <1>5 DEF StoreFollows, Critical, Inserted
<1> DEFINE n == Len(trail.events)
<1>7. /\ trail.events \in Seq(Event) /\ trail.checkpoints \in Seq(Checkpoint)
      /\ Len(trail.checkpoints) = n /\ DOMAIN trail.events = 1..n
      /\ \A i \in 1..n : trail.events[i] \in Range(trail.events)
      /\ \A i \in 1..n : trail.checkpoints[i] = CheckOf(trail.events[i])
      /\ \A i, j \in 1..n : i <= j => trail.events[i].slot <= trail.events[j].slot
  <2>1. trail.events \in Seq(Event) /\ trail.checkpoints \in Seq(Checkpoint) BY <1>1, TrailParts
  <2>2. DOMAIN trail.events = 1..n BY <2>1
  <2> QED BY <1>1, <2>1, <2>2 DEF Chained, Range
<1> HIDE DEF n
<1>8. \A i, j \in 1..n : i < j => trail.events[i].slot < trail.events[j].slot
  <2>1. SUFFICES ASSUME NEW i \in 1..n, NEW j \in 1..n, i < j
                 PROVE  trail.events[i].slot < trail.events[j].slot
    OBVIOUS
  <2>2. trail.events[i].slot <= trail.events[j].slot BY <1>7, <2>1
  <2>3. trail.events[i] # trail.events[j] BY <1>1, <2>1, ChainDistinct DEF n
  <2>4. trail.events[i].slot # trail.events[j].slot BY <1>2, <1>6, <1>7, <2>3
  <2>5. trail.events[i].slot \in Nat /\ trail.events[j].slot \in Nat BY <1>7, EventFields
  <2> QED BY <2>2, <2>4, <2>5
<1>9. events = trail.events
  <2> DEFINE a == trail.events
  <2>1. /\ a \in Seq(Event) /\ \A i, j \in 1..Len(a) : i < j => a[i].slot < a[j].slot
        /\ events \in LoadOrders(Range(a)) /\ \A x, y \in Range(a) : x.slot = y.slot => x = y
    BY <1>2, <1>6, <1>7, <1>8 DEF n
  <2>2. \A x \in Event : x.slot \in Nat BY EventFields
  <2> HIDE DEF a
  <2>3. events = a BY <2>1, <2>2, LoadUnique
  <2> QED BY <2>3 DEF a
<1>10. checks = trail.checkpoints
  <2> DEFINE a == trail.checkpoints
  <2>1. \A i \in 1..n : a[i].slot = trail.events[i].slot BY <1>7, CheckFields
  <2>2. a \in Seq(Checkpoint) /\ Len(a) = n /\ checks \in LoadOrders(Range(a)) /\ DOMAIN a = 1..n
    BY <1>6, <1>7
  <2>3. \A i, j \in 1..n : i < j => a[i].slot < a[j].slot BY <1>8, <2>1
  <2>4. ASSUME NEW x \in Range(a), NEW y \in Range(a), x.slot = y.slot PROVE x = y
    <3>1. PICK i \in 1..n, j \in 1..n : x = a[i] /\ y = a[j] BY <2>2 DEF Range
    <3>2. trail.events[i] = trail.events[j] BY <1>2, <1>6, <1>7, <2>1, <2>4, <3>1
    <3> QED BY <1>7, <3>1, <3>2
  <2>5. \A x \in Checkpoint : x.slot \in Nat BY CheckFields
  <2> HIDE DEF a
  <2>6. checks = a BY <2>2, <2>3, <2>4, <2>5, LoadUnique
  <2> QED BY <2>6 DEF a
<1>11. trail' = trail BY <1>1, <1>3, <1>6, <1>9, <1>10 DEF Trails
<1>12. InOrder' BY <1>2, <1>11, IdleParts, EmptyChained DEF InOrder
<1>13. PlanIsPrefix' BY <1>2 DEF PlanIsPrefix, Archiving
<1>14. StoreFollows'
  <2>1. ActiveBoundary' = ActiveBoundary BY <1>2 DEF ActiveBoundary
  <2> QED BY <1>2, <1>4, <1>5, <1>6, <1>11, <2>1 DEF StoreFollows
<1> QED BY <1>12, <1>13, <1>14

LEMMA ChainKept ==
  ASSUME AuditInv, BaseInv, ChainInv, [AuditNext]_auditVars
  PROVE  ChainInv'
<1>1. SUFFICES ASSUME auditClean' PROVE InOrder' /\ PlanIsPrefix' /\ StoreFollows' BY DEF ChainInv
<1>2. OneBoundary /\ Today /\ RunOK BY DEF BaseInv, AuditInv
<1>3. auditClean
  <2>1. CASE PersistStep BY <1>1, <2>1 DEF PersistStep, PersistAuditAppend
  <2>2. CASE RunAuditRetention BY <1>1, <2>2, RunTouches DEF RetentionFails
  <2>3. CASE AuditRestart BY <1>1, <2>3 DEF AuditRestart
  <2>4. CASE RecordStep \/ FinalizeStep \/ DeletionStep \/ PublishStep
    BY <1>1, <2>4 DEF RecordStep, RecordAuditEvent, FinalizeStep, FinalizeAuditEvent, DeletionStep,
                      SealDeletion, StartDeletion, PublishStep, PublishExternalAuditForward
  <2>5. CASE StartRetention \/ AuditTick \/ UNCHANGED auditVars
    BY <1>1, <2>5 DEF StartRetention, AuditTick, auditVars
  <2> QED BY <2>1, <2>2, <2>3, <2>4, <2>5, StepCases
<1>4. InOrder /\ PlanIsPrefix /\ StoreFollows BY <1>3 DEF ChainInv
<1> QED BY <1>1, <1>2, <1>4, StepCases, ChainRecord, ChainPersist, ChainQuiet, ChainStart,
           ChainRun, ChainRestart

----
(* The invariant, and what it says. *)

LEMMA IntactInit ==
  ASSUME AuditInit
  PROVE  IntactInv
<1>1. /\ trail = EmptyTrail /\ replica = EmptyTrail
      /\ hotEvents = {} /\ hotChecks = {} /\ boundaries = {}
      /\ \A w \in Writers : appends[w] = NoAppend
      /\ retentionTasks = 0 /\ retention.pc = "idle"
      /\ forwards = {} /\ deliveries = {} /\ deletionRecords = {}
      /\ auditDay = 0 /\ auditSlot = 0 /\ auditCount = 0 /\ inserted = {}
  BY DEF AuditInit, NoRun
<1>2. /\ Range(EmptyTrail.events) = {} /\ Range(EmptyTrail.checkpoints) = {}
      /\ EmptyTrail.anchor = {} /\ EmptyTrail.checkpoints = <<>> /\ EmptyTrail.events = <<>>
  BY DEF EmptyTrail, Range
<1>3. Rows BY <1>1, EmptyTyped DEF Rows
<1>4. ActiveBoundary = {} BY <1>1 DEF ActiveBoundary
<1>5. OneBoundary BY <1>1, <1>4 DEF OneBoundary, Inserted
<1>6. Numbered BY <1>1, <1>2 DEF Numbered, Archiving
<1>7. Enclosing /\ Today BY <1>1, IdleParts DEF Enclosing, Today, Recorded
<1>8. TasksCounted
  <2>1. Unfinished = {} BY <1>1, IdleParts DEF Unfinished
  <2> QED BY <1>1, <2>1, FS_EmptySet DEF TasksCounted
<1>9. EvidenceEncloses /\ SuccessArrived BY <1>1 DEF EvidenceEncloses, SuccessArrived
<1>10. InOrder
  <2>1. Offset(trail) + Len(trail.events) = 0 BY <1>1, <1>2, AnchorParts
  <2> QED BY <1>1, <1>2, <2>1, EmptyChained, IdleParts DEF InOrder
<1>11. PlanIsPrefix BY <1>1 DEF PlanIsPrefix, Archiving
<1>12. StoreFollows
  <2>1. \A x : x \notin WaitingEvents /\ x \notin WaitingChecks BY <1>1, IdleParts, WaitingParts
  <2>2. DeletedEvents = {} /\ DeletedChecks = {} BY <1>1 DEF DeletedEvents, DeletedChecks
  <2> QED BY <1>1, <1>2, <1>4, <2>1, <2>2 DEF StoreFollows
<1> QED BY <1>3, <1>5, <1>6, <1>7, <1>8, <1>9, <1>10, <1>11, <1>12 DEF IntactInv, BaseInv, ChainInv

LEMMA IntactShape ==
  ASSUME AuditInv, IntactInv
  PROVE  AuditTypeOK
<1>1. /\ trail \in Trails /\ RunOK /\ auditCount \in 0..MaxEvents /\ MaxEvents \in Nat
      /\ Range(trail.events) \subseteq Event /\ Range(trail.checkpoints) \subseteq Checkpoint
      /\ hotChecks \subseteq Checkpoint
  BY AuditAssumption, ChainTypes DEF AuditInv, StoreOK, ClockOK
<1>2. Rows /\ OneBoundary /\ Numbered /\ TasksCounted BY DEF IntactInv, BaseInv
<1>3. Cardinality(ActiveBoundary) <= 1
  <2>1. CASE ActiveBoundary = {} BY <2>1, FS_EmptySet
  <2>2. CASE ActiveBoundary # {}
    <3>1. PICK c \in ActiveBoundary : ActiveBoundary = {c} BY <1>2, <2>2 DEF OneBoundary
    <3>2. Cardinality({c}) = 1 BY FS_Singleton
    <3> QED BY <3>1, <3>2
  <2> QED BY <2>1, <2>2
<1>4. retention.pc \in {"file", "bundle", "deactivate", "boundary", "events",
                       "checkpoints", "memory", "replica"} => retention.bundle # {}
  BY <1>1 DEF RunOK, Archiving
<1>5. retentionTasks \in 0..MaxEvents
  <2>1. Cardinality(Unfinished) \in Nat /\ retentionTasks \in Nat
        /\ retentionTasks + Cardinality(Unfinished) <= auditCount
    BY <1>2, FS_CardinalityType DEF TasksCounted
  <2> QED BY <1>1, <2>1
<1>6. \A d \in deliveries : d.event \in 1..auditCount BY <1>2 DEF Numbered
<1>7. ASSUME auditClean, NEW i \in DOMAIN trail.checkpoints, NEW j \in DOMAIN trail.checkpoints, j = i + 1
      PROVE  trail.checkpoints[j].count = trail.checkpoints[i].count + 1
  <2>1. Chained(trail) BY <1>7 DEF IntactInv, ChainInv, InOrder
  <2>2. i \in DOMAIN trail.events /\ j \in DOMAIN trail.events /\ Offset(trail) \in Nat
        /\ i \in Nat
    BY <1>1, <2>1, TrailShape DEF Chained
  <2>3. /\ trail.events[i].id = Offset(trail) + i /\ trail.events[j].id = Offset(trail) + j
        /\ trail.checkpoints[i] = CheckOf(trail.events[i])
        /\ trail.checkpoints[j] = CheckOf(trail.events[j])
    BY <2>1, <2>2 DEF Chained
  <2>4. /\ trail.checkpoints[i].count = Offset(trail) + i
        /\ trail.checkpoints[j].count = Offset(trail) + j
    BY <2>3, CheckFields
  <2> QED BY <1>7, <2>2, <2>4
<1>8. hotEvents \subseteq inserted BY <1>2 DEF Rows
<1> QED BY <1>1, <1>3, <1>4, <1>5, <1>6, <1>7, <1>8 DEF AuditTypeOK

LEMMA IntactEnough ==
  ASSUME AuditInv, IntactInv
  PROVE  ChainIntact
<1>1. AuditTypeOK BY IntactShape
<1>2. TrailVerifies
  <2>1. trail \in Trails /\ replica \in Trails BY ChainTypes DEF IntactInv, BaseInv, Rows
  <2>2. auditClean => Chained(trail) /\ Chained(replica) BY DEF IntactInv, ChainInv, InOrder
  <2> QED BY <2>1, <2>2, ChainFacts DEF TrailVerifies
<1>3. StoreAgrees
  <2>1. SUFFICES ASSUME auditClean, \A w \in Writers : appends[w].pc \in {"idle", "deleting", "seal"},
                        retention.pc = "idle"
                 PROVE  /\ hotEvents = Range(trail.events)
                        /\ hotChecks = Range(trail.checkpoints)
                        /\ ActiveBoundary = trail.anchor
    BY DEF StoreAgrees
  <2>2. StoreFollows BY <2>1 DEF IntactInv, ChainInv
  <2>3. \A x : x \notin WaitingEvents /\ x \notin WaitingChecks BY <2>1, WaitingParts
  <2>4. DeletedEvents = {} /\ DeletedChecks = {} BY <2>1 DEF DeletedEvents, DeletedChecks
  <2> QED BY <2>1, <2>2, <2>3, <2>4 DEF StoreFollows, Critical
<1>4. EvidenceEncloses /\ SuccessArrived BY DEF IntactInv, BaseInv
<1> QED BY <1>1, <1>2, <1>3, <1>4 DEF ChainIntact

\* The chain in memory, the rows that follow it and the run that archives it stay
\* in step for every number of requests, events, days, failures and restarts
\* (append_with_signer, persist_audit_append, apply_audit_archive,
\* apply_archive_boundary, load_audit_trail).
THEOREM IntactInvHolds == AuditSpec => []IntactInv
<1>1. AuditInit => IntactInv BY IntactInit
<1>2. AuditInv /\ IntactInv /\ [AuditNext]_auditVars => IntactInv' BY BaseKept, ChainKept DEF IntactInv
<1> QED BY <1>1, <1>2, AuditInvHolds, PTL DEF AuditSpec

\* The audit trail can be believed: chain and replica file verify and the store
\* agrees with memory unless a statement they need failed, there is one active
\* boundary at most, a deletion's evidence encloses it, and a success on record
\* arrived (verify_replica, load_audit_trail, seal_controlled_deletion_flow,
\* publish_external_audit_forward).
THEOREM ChainIntactHolds == AuditSpec => []ChainIntact
<1>1. AuditInv /\ IntactInv => ChainIntact BY IntactEnough
<1> QED BY <1>1, AuditInvHolds, IntactInvHolds, PTL
=============================================================================
