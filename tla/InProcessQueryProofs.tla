------------------------ MODULE InProcessQueryProofs ------------------------
(* Theorems about the queries that run in the API process, about the       *)
(* analyses saved over their results, about the pages, pivots and          *)
(* drilldowns that show them and about the analytics of what their users   *)
(* do, for any grants, tasks, sockets, templates, users, rows and bounds.  *)
EXTENDS InProcessQuery, AnalysisTemplates, UebaStream, SnapshotView,
        FiniteSetTheorems, SequenceTheorems, WellFoundedInduction, TLAPS

----
(* Updates of the records. *)

LEMMA PutFacts ==
  ASSUME NEW map, NEW k, NEW v
  PROVE  /\ DOMAIN Put(map, k, v) = DOMAIN map \union {k}
         /\ Put(map, k, v)[k] = v
         /\ \A x \in DOMAIN map : x # k => Put(map, k, v)[x] = map[x]
BY DEF Put

LEMMA TaskTypes ==
  /\ NoTask \in TaskRecord
  /\ Task("pending", NoSnapshot, FALSE) \in TaskRecord
  /\ \A s \in Tasks, hit \in BOOLEAN : Task("completed", s, hit) \in TaskRecord
  /\ \A r \in TaskRecord, st \in States :
       [r EXCEPT !.state = st]
         = [state |-> st, snapshot |-> r.snapshot, hit |-> r.hit]
  /\ \A r \in TaskRecord, st \in States : [r EXCEPT !.state = st] \in TaskRecord
BY DEF NoTask, Task, TaskRecord, States, Final

\* What an update of the registry does to t, and to no other task.
LEMMA UpdateFacts ==
  ASSUME InProcTypes, NEW t \in Tasks, NEW task \in TaskRecord, Update(t, task)
  PROVE  /\ registry' \in [Tasks -> TaskRecord] /\ registry'[t] = task
         /\ history' \in [Tasks -> [outcomes : SUBSET Final,
                                    grants : SUBSET DOMAIN Granted]]
         /\ history'[t].grants = history[t].grants
         /\ history[t].outcomes \subseteq history'[t].outcomes
         /\ task.state \in Final => task.state \in history'[t].outcomes
         /\ history'[t].outcomes = history[t].outcomes \union ({task.state} \intersect Final)
         /\ \A u \in Tasks \ {t} :
              registry'[u] = registry[u] /\ history'[u] = history[u]
         /\ Publish(t, task.state)
<1>0. registry \in [Tasks -> TaskRecord]
      /\ history \in [Tasks -> [outcomes : SUBSET Final,
                                grants : SUBSET DOMAIN Granted]]
  BY DEF InProcTypes
<1> DEFINE after == history[t].outcomes \union ({task.state} \intersect Final)
           h == [outcomes |-> after, grants |-> history[t].grants]
<1>1. after \in SUBSET Final BY <1>0
<1>2. history' = [history EXCEPT ![t] = h]
  <2>1. history' = [history EXCEPT ![t].outcomes = after]
    <3>1. CASE task.state \in Final
      <4>1. after = history[t].outcomes \union {task.state} BY <3>1
      <4> QED BY <3>1, <4>1 DEF Update
    <3>2. CASE task.state \notin Final
      <4>1. after = history[t].outcomes BY <1>0, <3>2
      <4> QED BY <3>2, <4>1 DEF Update
    <3> QED BY <3>1, <3>2
  <2>2. \A a : \A r \in [outcomes : SUBSET Final, grants : SUBSET DOMAIN Granted] :
          [r EXCEPT !.outcomes = a] = [outcomes |-> a, grants |-> r.grants]
    OBVIOUS
  <2>3. history[t] \in [outcomes : SUBSET Final, grants : SUBSET DOMAIN Granted] BY <1>0
  <2> HIDE DEF after
  <2>4. [history[t] EXCEPT !.outcomes = after] = h BY <2>2, <2>3
  <2> QED BY <2>1, <2>4
<1>3. h \in [outcomes : SUBSET Final, grants : SUBSET DOMAIN Granted] BY <1>0, <1>1
<1>4. history'[t] = h /\ \A u \in Tasks \ {t} : history'[u] = history[u] BY <1>0, <1>2
<1> HIDE DEF h
<1>5. history' \in [Tasks -> [outcomes : SUBSET Final,
                              grants : SUBSET DOMAIN Granted]]
  BY <1>0, <1>2, <1>3
<1>6. h.grants = history[t].grants /\ h.outcomes = after BY DEF h
<1> QED BY <1>0, <1>4, <1>5, <1>6 DEF Update

----
(* Streams. *)

LEMMA PublishFacts ==
  ASSUME socket \in [Sockets -> Stream], NEW t \in Tasks, NEW st \in States,
         Publish(t, st)
  PROVE  /\ socket' \in [Sockets -> Stream]
         /\ \A s \in Sockets :
              \/ socket'[s] = socket[s]
              \/ /\ socket[s].task = t /\ socket[s].pc # "closed"
                 /\ socket'[s].task = t
                 /\ Len(socket'[s].queue) = Len(socket[s].queue) + 1
<1>1. ASSUME NEW s \in Sockets
      PROVE  /\ socket'[s] \in Stream
             /\ \/ socket'[s] = socket[s]
                \/ /\ socket[s].task = t /\ socket[s].pc # "closed"
                   /\ socket'[s].task = t
                   /\ Len(socket'[s].queue) = Len(socket[s].queue) + 1
  <2>0. socket[s] \in Stream OBVIOUS
  <2>1. CASE socket[s].task = t /\ socket[s].pc \in {"subscribed", "open"}
    <3>1. socket'[s] = [socket[s] EXCEPT !.queue = Append(socket[s].queue, st)] BY <2>1 DEF Publish
    <3>2. /\ socket[s].queue \in Seq(States)
          /\ Append(socket[s].queue, st) \in Seq(States)
          /\ Len(Append(socket[s].queue, st)) = Len(socket[s].queue) + 1
      <4>1. socket[s].queue \in Seq(States) BY <2>0 DEF Stream
      <4> QED BY <4>1, AppendProperties
    <3>3. \A r \in Stream, q \in Seq(States) :
            /\ [r EXCEPT !.queue = q] \in Stream
            /\ [r EXCEPT !.queue = q].task = r.task
            /\ [r EXCEPT !.queue = q].queue = q
      BY DEF Stream
    <3> DEFINE q == Append(socket[s].queue, st)
    <3> HIDE DEF q
    <3>4. /\ socket'[s] \in Stream /\ socket'[s].task = socket[s].task
          /\ socket'[s].queue = Append(socket[s].queue, st)
      <4>1. socket'[s] = [socket[s] EXCEPT !.queue = q] /\ q \in Seq(States) BY <3>1, <3>2 DEF q
      <4>2. /\ socket'[s] \in Stream /\ socket'[s].task = socket[s].task
            /\ socket'[s].queue = q
        BY <2>0, <3>3, <4>1
      <4> QED BY <4>2 DEF q
    <3>5. socket[s].pc # "closed" BY <2>1
    <3> QED BY <2>1, <3>2, <3>4, <3>5
  <2>2. CASE ~(socket[s].task = t /\ socket[s].pc \in {"subscribed", "open"}) BY <2>0, <2>2 DEF Publish
  <2> QED BY <2>1, <2>2
<1>2. socket' = [s \in Sockets |-> socket'[s]] BY DEF Publish
<1> QED BY <1>1, <1>2

LEMMA PublishedType ==
  \A t : Published(t) \in Nat /\ Published(t)' \in Nat
<1> TAKE t
<1>1. (CASE job[t].pc \in {"idle", "save", "start"} -> 0
         [] job[t].pc \in {"write", "spawn", "execute", "object"} -> 1
         [] OTHER -> 2) \in 0..2
  OBVIOUS
<1>2. (CASE job'[t].pc \in {"idle", "save", "start"} -> 0
         [] job'[t].pc \in {"write", "spawn", "execute", "object"} -> 1
         [] OTHER -> 2) \in 0..2
  OBVIOUS
<1> QED BY <1>1, <1>2 DEF Published

\* A task that publishes an event has room for it.
LEMMA QueuesAfterPublish ==
  ASSUME QueuesShort, socket \in [Sockets -> Stream], NEW t \in Tasks,
         NEW st \in States, Publish(t, st),
         Published(t) + 1 <= Published(t)',
         \A u \in Tasks \ {t} : Published(u)' = Published(u)
  PROVE  QueuesShort'
<1> SUFFICES ASSUME NEW s \in Sockets
             PROVE  \/ socket'[s].pc = "closed" /\ socket'[s].queue = <<>>
                    \/ \E u \in Tasks : /\ socket'[s].task = u
                                       /\ Len(socket'[s].queue) <= Published(u)'
  BY DEF QueuesShort
<1>1. /\ Len(socket[s].queue) \in Nat
      /\ \A u : Published(u) \in Nat /\ Published(u)' \in Nat
  <2>1. socket[s].queue \in Seq(States) BY DEF Stream
  <2> QED BY <2>1, LenProperties, PublishedType
<1>2. \A u \in Tasks : Published(u) <= Published(u)' BY <1>1
<1>3. \/ socket[s].pc = "closed" /\ socket[s].queue = <<>>
      \/ \E u \in Tasks : socket[s].task = u /\ Len(socket[s].queue) <= Published(u)
  BY DEF QueuesShort
<1>4. CASE socket'[s] = socket[s]
  <2>1. CASE socket[s].pc = "closed" /\ socket[s].queue = <<>> BY <1>4, <2>1
  <2>2. ASSUME NEW u \in Tasks, socket[s].task = u,
               Len(socket[s].queue) <= Published(u)
        PROVE  socket'[s].task = u /\ Len(socket'[s].queue) <= Published(u)'
    <3>1. Published(u) <= Published(u)' BY <1>2
    <3> QED BY <1>1, <1>4, <2>2, <3>1
  <2> QED BY <1>3, <2>1, <2>2
<1>5. CASE /\ socket[s].task = t /\ socket[s].pc # "closed"
           /\ socket'[s].task = t
           /\ Len(socket'[s].queue) = Len(socket[s].queue) + 1
  <2>1. Len(socket[s].queue) <= Published(t) BY <1>3, <1>5
  <2>2. Len(socket'[s].queue) <= Published(t)' BY <1>1, <1>5, <2>1
  <2> QED BY <1>5, <2>2
<1> QED BY <1>4, <1>5, PublishFacts

LEMMA QueuesUnpublished ==
  ASSUME QueuesShort, socket \in [Sockets -> Stream], socket' = socket,
         \A u \in Tasks : Published(u) <= Published(u)'
  PROVE  QueuesShort'
<1> SUFFICES ASSUME NEW s \in Sockets, NEW u \in Tasks,
                    Len(socket[s].queue) <= Published(u)
             PROVE  Len(socket[s].queue) <= Published(u)'
  BY DEF QueuesShort
<1>1. /\ Len(socket[s].queue) \in Nat
      /\ Published(u) \in Nat /\ Published(u)' \in Nat
  <2>1. socket[s].queue \in Seq(States) BY DEF Stream
  <2> QED BY <2>1, LenProperties, PublishedType
<1> QED BY <1>1

----
(* A step of one task: what it leaves alone, and why what is known of any  *)
(* task stays genuine.                                                     *)

\* Genuine in the next state, of a task record known there.
StillGenuine(t, task) ==
  /\ task.state \in Final => task.state \in history'[t].outcomes
  /\ task.hit => task.state = "completed" /\ task.snapshot # t
  /\ task.state = "completed" =>
       /\ task.snapshot \in Stored'
       /\ Min(history'[task.snapshot].grants) = Min(history'[t].grants)
       /\ task.snapshot \in DOMAIN store' =>
            Undenied(store'[task.snapshot], history'[t].grants)

\* Stored results and the grants they were made under do not change.
Advance ==
  /\ \A s \in Stored : /\ s \in Stored'
                       /\ history'[s].grants = history[s].grants
                       /\ s \in DOMAIN store' =>
                            s \in DOMAIN store /\ store'[s] = store[s]
  /\ \A u \in Tasks : history[u].outcomes \subseteq history'[u].outcomes

OnlyOf(t) ==
  /\ \A u \in Tasks \ {t} :
       /\ job'[u] = job[u] /\ canceller'[u] = canceller[u]
       /\ registry'[u] = registry[u] /\ rows'[u] = rows[u]
       /\ history'[u] = history[u]
  /\ history'[t].grants = history[t].grants
  /\ history[t].outcomes \subseteq history'[t].outcomes
  /\ t \in Stored => t \in Stored'
  /\ \/ store' = store
     \/ t \notin Stored /\ \E v : store' = Put(store, t, v)
  /\ objects \subseteq objects'
  /\ UNCHANGED <<withDatabase, activeGrants>>

LEMMA GenuineKept ==
  ASSUME Advance, NEW t \in Tasks, NEW task, Genuine(t, task),
         history'[t].grants = history[t].grants \/ task.state # "completed"
  PROVE  StillGenuine(t, task)
BY DEF Advance, Genuine, StillGenuine

LEMMA OnlyOfAdvances ==
  ASSUME NEW t \in Tasks, OnlyOf(t)
  PROVE  Advance
<1>1. ASSUME NEW s \in Stored
      PROVE  /\ s \in Stored' /\ history'[s].grants = history[s].grants
             /\ s \in DOMAIN store' => s \in DOMAIN store /\ store'[s] = store[s]
  <2>1. s \in Tasks /\ s \in Stored' /\ history'[s].grants = history[s].grants
    <3>1. CASE s = t BY <3>1 DEF OnlyOf
    <3>2. CASE s # t BY <1>1, <3>2 DEF OnlyOf, Stored
    <3> QED BY <3>1, <3>2 DEF Stored
  <2>2. s \in DOMAIN store' => s \in DOMAIN store /\ store'[s] = store[s]
    <3>1. CASE store' = store BY <3>1
    <3>2. CASE t \notin Stored /\ \E v : store' = Put(store, t, v)
      <4>1. s # t BY <1>1, <3>2
      <4>2. PICK v : store' = Put(store, t, v) BY <3>2
      <4>3. DOMAIN store' = DOMAIN store \union {t} BY <4>2, PutFacts
      <4>4. \A x \in DOMAIN store : x # t => Put(store, t, v)[x] = store[x] BY DEF Put
      <4> QED BY <4>1, <4>2, <4>3, <4>4
    <3> QED BY <3>1, <3>2 DEF OnlyOf
  <2> QED BY <2>1, <2>2
<1>2. \A u \in Tasks : history[u].outcomes \subseteq history'[u].outcomes BY DEF OnlyOf
<1> QED BY <1>1, <1>2 DEF Advance

LEMMA OthersSame ==
  ASSUME InProcInv, Advance, NEW u \in Tasks,
         job'[u] = job[u], canceller'[u] = canceller[u],
         registry'[u] = registry[u], rows'[u] = rows[u],
         history'[u] = history[u], withDatabase' = withDatabase,
         objects \subseteq objects',
         u \in DOMAIN store => u \in DOMAIN store' /\ store'[u] = store[u]
  PROVE  RecordsGenuine(u)' /\ JobOrdered(u)'
<1>1. RecordsGenuine(u) /\ JobOrdered(u) BY DEF InProcInv
<1>2. RecordsGenuine(u)'
  <2>1. /\ StillGenuine(u, registry[u]) /\ StillGenuine(u, rows[u])
        /\ StillGenuine(u, job[u].write) /\ StillGenuine(u, canceller[u].write)
    BY <1>1, GenuineKept DEF RecordsGenuine
  <2>2. /\ StillGenuine(u, registry'[u]) /\ StillGenuine(u, rows'[u])
        /\ StillGenuine(u, job'[u].write) /\ StillGenuine(u, canceller'[u].write)
    BY <2>1
  <2> QED BY <2>2 DEF RecordsGenuine, Genuine, StillGenuine
<1>3. JobOrdered(u)' BY <1>1 DEF JobOrdered
<1> QED BY <1>2, <1>3

LEMMA OthersKept ==
  ASSUME InProcInv, NEW t \in Tasks, OnlyOf(t), NEW u \in Tasks \ {t}
  PROVE  RecordsGenuine(u)' /\ JobOrdered(u)'
<1>1. Advance BY OnlyOfAdvances
<1>2. /\ job'[u] = job[u] /\ canceller'[u] = canceller[u]
      /\ registry'[u] = registry[u] /\ rows'[u] = rows[u]
      /\ history'[u] = history[u] /\ withDatabase' = withDatabase
      /\ objects \subseteq objects'
  BY DEF OnlyOf
<1>3. u \in DOMAIN store => u \in DOMAIN store' /\ store'[u] = store[u]
  <2>1. CASE store' = store BY <2>1
  <2>2. CASE \E v : store' = Put(store, t, v)
    <3>1. PICK v : store' = Put(store, t, v) BY <2>2
    <3>2. DOMAIN store' = DOMAIN store \union {t} BY <3>1, PutFacts
    <3>3. \A x \in DOMAIN store : x # t => Put(store, t, v)[x] = store[x] BY DEF Put
    <3> QED BY <3>1, <3>2, <3>3
  <2> QED BY <2>1, <2>2 DEF OnlyOf
<1> QED BY <1>1, <1>2, <1>3, OthersSame

\* The parts of the invariant a step of t may disturb.
LEMMA StepInv ==
  ASSUME InProcInv, NEW t \in Tasks, OnlyOf(t),
         registry' \in [Tasks -> TaskRecord], rows' \in [Tasks -> TaskRecord],
         TaskWorkers(job'), TaskWorkers(canceller'), job'[t].pc \in JobSteps,
         history' \in [Tasks -> [outcomes : SUBSET Final,
                                 grants : SUBSET DOMAIN Granted]],
         socket' \in [Sockets -> Stream],
         StillGenuine(t, registry'[t]), StillGenuine(t, rows'[t]),
         StillGenuine(t, job'[t].write), StillGenuine(t, canceller'[t].write),
         JobOrdered(t)', StoresBacked', QueuesShort'
  PROVE  InProcInv'
<1>1. RecordsGenuine(t)' BY DEF RecordsGenuine, Genuine, StillGenuine
<1>2. \A u \in Tasks : RecordsGenuine(u)' /\ JobOrdered(u)' BY <1>1, OthersKept
<1>3. \A u \in Tasks : job'[u].pc \in JobSteps BY DEF OnlyOf, InProcInv, InProcTypes
<1>4. InProcTypes' BY <1>3 DEF InProcInv, InProcTypes, OnlyOf, TaskWorkers
<1> QED BY <1>2, <1>4 DEF InProcInv

\* Stores and caches that a step leaves alone stay backed.
LEMMA StoresKept ==
  ASSUME InProcInv, NEW t \in Tasks, OnlyOf(t),
         UNCHANGED <<store, snapshotRows, cacheIndex, cacheRows>>
  PROVE  StoresBacked'
<1>1. Advance BY OnlyOfAdvances
<1>2. StoresBacked BY DEF InProcInv
<1>3. \A s \in DOMAIN store : s \in Stored' /\ history'[s].grants = history[s].grants
  BY <1>1, <1>2 DEF Advance, StoresBacked
<1>4. objects \subseteq objects' BY DEF OnlyOf
<1> QED BY <1>2, <1>3, <1>4 DEF StoresBacked, Serves

----
(* The steps of a task that leave its state in the registry alone. *)

\* What every step leaves of the types.
LEMMA InvTypes ==
  ASSUME InProcInv
  PROVE  /\ registry \in [Tasks -> TaskRecord] /\ rows \in [Tasks -> TaskRecord]
         /\ TaskWorkers(job) /\ TaskWorkers(canceller)
         /\ history \in [Tasks -> [outcomes : SUBSET Final,
                                   grants : SUBSET DOMAIN Granted]]
         /\ socket \in [Sockets -> Stream]
         /\ \A t \in Tasks :
              /\ job[t].pc \in JobSteps
              /\ job[t].write \in TaskRecord /\ canceller[t].write \in TaskRecord
              /\ registry[t] \in TaskRecord /\ rows[t] \in TaskRecord
              /\ RecordsGenuine(t) /\ JobOrdered(t)
BY DEF InProcInv, InProcTypes, TaskWorkers

LEMMA JobMoves ==
  ASSUME InProcInv, NEW t \in Tasks, NEW p, job' = [job EXCEPT ![t].pc = p]
  PROVE  /\ TaskWorkers(job')
         /\ job'[t].pc = p /\ job'[t].write = job[t].write
         /\ job'[t].key = job[t].key /\ job'[t].result = job[t].result
         /\ \A u \in Tasks \ {t} : job'[u] = job[u]
<1>1. TaskWorkers(job) BY InvTypes
<1>2. job = [u \in Tasks |-> job[u]] BY <1>1 DEF TaskWorkers
<1>3. job'[t] = [job[t] EXCEPT !.pc = p] BY <1>2
<1>4. job[t] = [pc |-> job[t].pc, key |-> job[t].key,
               result |-> job[t].result, write |-> job[t].write]
  BY <1>1 DEF TaskWorkers
<1>5. job'[t] = [pc |-> p, key |-> job[t].key,
                result |-> job[t].result, write |-> job[t].write]
  BY <1>3, <1>4
<1>6. \A u \in Tasks \ {t} : job'[u] = job[u] BY <1>2
<1>7. job' = [u \in Tasks |-> job'[u]] BY <1>2
<1>8. TaskWorkers(job')
  <2>1. ASSUME NEW u \in Tasks
        PROVE  /\ job'[u] = [pc |-> job'[u].pc, key |-> job'[u].key,
                          result |-> job'[u].result, write |-> job'[u].write]
               /\ job'[u].write \in TaskRecord
    <3>1. CASE u = t BY <1>5, <3>1, InvTypes
    <3>2. CASE u # t
      <4>1. /\ job[u] = [pc |-> job[u].pc, key |-> job[u].key,
                       result |-> job[u].result, write |-> job[u].write]
            /\ job[u].write \in TaskRecord
        BY <1>1 DEF TaskWorkers
      <4> QED BY <1>6, <3>2, <4>1
    <3> QED BY <3>1, <3>2
  <2>2. job' = [u \in Tasks |-> [pc |-> job'[u].pc, key |-> job'[u].key,
                            result |-> job'[u].result, write |-> job'[u].write]]
    BY <1>7, <2>1
  <2> QED BY <2>1, <2>2 DEF TaskWorkers
<1> QED BY <1>5, <1>6, <1>8

LEMMA JobWrites ==
  ASSUME InProcInv, NEW t \in Tasks, NEW p, NEW x \in TaskRecord,
         job' = [job EXCEPT ![t].pc = p, ![t].write = x]
  PROVE  /\ TaskWorkers(job')
         /\ job'[t].pc = p /\ job'[t].write = x
         /\ job'[t].key = job[t].key /\ job'[t].result = job[t].result
         /\ \A u \in Tasks \ {t} : job'[u] = job[u]
<1> DEFINE moved == [job[t] EXCEPT !.pc = p]
<1>1. TaskWorkers(job) BY InvTypes
<1>2. job = [u \in Tasks |-> job[u]] BY <1>1 DEF TaskWorkers
<1>3. job'[t] = [moved EXCEPT !.write = x] BY <1>2
<1>4. job[t] = [pc |-> job[t].pc, key |-> job[t].key,
               result |-> job[t].result, write |-> job[t].write]
  BY <1>1 DEF TaskWorkers
<1>5. moved = [pc |-> p, key |-> job[t].key,
               result |-> job[t].result, write |-> job[t].write]
  BY <1>4
<1> HIDE DEF moved
<1>6. job'[t] = [pc |-> p, key |-> job[t].key,
                result |-> job[t].result, write |-> x]
  BY <1>3, <1>5
<1>10. /\ job'[t].pc = p /\ job'[t].write = x
       /\ job'[t].key = job[t].key /\ job'[t].result = job[t].result
  BY <1>6
<1>7. \A u \in Tasks \ {t} : job'[u] = job[u] BY <1>2
<1>8. job' = [u \in Tasks |-> job'[u]] BY <1>2
<1>9. TaskWorkers(job')
  <2>1. ASSUME NEW u \in Tasks
        PROVE  /\ job'[u] = [pc |-> job'[u].pc, key |-> job'[u].key,
                          result |-> job'[u].result, write |-> job'[u].write]
               /\ job'[u].write \in TaskRecord
    <3>1. CASE u = t
      <4>1. job'[t] = [pc |-> job'[t].pc, key |-> job'[t].key,
                      result |-> job'[t].result, write |-> job'[t].write]
        BY <1>6, <1>10, Zenon
      <4> QED BY <1>10, <3>1, <4>1
    <3>2. CASE u # t
      <4>1. /\ job[u] = [pc |-> job[u].pc, key |-> job[u].key,
                       result |-> job[u].result, write |-> job[u].write]
            /\ job[u].write \in TaskRecord
        BY <1>1 DEF TaskWorkers
      <4> QED BY <1>7, <3>2, <4>1
    <3> QED BY <3>1, <3>2
  <2>2. job' = [u \in Tasks |-> [pc |-> job'[u].pc, key |-> job'[u].key,
                            result |-> job'[u].result, write |-> job'[u].write]]
    BY <1>8, <2>1
  <2> QED BY <2>1, <2>2 DEF TaskWorkers
<1> QED BY <1>7, <1>9, <1>10

LEMMA CancellerMoves ==
  ASSUME InProcInv, NEW t \in Tasks, NEW p, canceller' = [canceller EXCEPT ![t].pc = p]
  PROVE  /\ TaskWorkers(canceller')
         /\ canceller'[t].pc = p /\ canceller'[t].write = canceller[t].write
         /\ canceller'[t].key = canceller[t].key /\ canceller'[t].result = canceller[t].result
         /\ \A u \in Tasks \ {t} : canceller'[u] = canceller[u]
<1>1. TaskWorkers(canceller) BY InvTypes
<1>2. canceller = [u \in Tasks |-> canceller[u]] BY <1>1 DEF TaskWorkers
<1>3. canceller'[t] = [canceller[t] EXCEPT !.pc = p] BY <1>2
<1>4. canceller[t] = [pc |-> canceller[t].pc, key |-> canceller[t].key,
               result |-> canceller[t].result, write |-> canceller[t].write]
  BY <1>1 DEF TaskWorkers
<1>5. canceller'[t] = [pc |-> p, key |-> canceller[t].key,
                result |-> canceller[t].result, write |-> canceller[t].write]
  BY <1>3, <1>4
<1>6. \A u \in Tasks \ {t} : canceller'[u] = canceller[u] BY <1>2
<1>7. canceller' = [u \in Tasks |-> canceller'[u]] BY <1>2
<1>8. TaskWorkers(canceller')
  <2>1. ASSUME NEW u \in Tasks
        PROVE  /\ canceller'[u] = [pc |-> canceller'[u].pc, key |-> canceller'[u].key,
                          result |-> canceller'[u].result, write |-> canceller'[u].write]
               /\ canceller'[u].write \in TaskRecord
    <3>1. CASE u = t BY <1>5, <3>1, InvTypes
    <3>2. CASE u # t
      <4>1. /\ canceller[u] = [pc |-> canceller[u].pc, key |-> canceller[u].key,
                       result |-> canceller[u].result, write |-> canceller[u].write]
            /\ canceller[u].write \in TaskRecord
        BY <1>1 DEF TaskWorkers
      <4> QED BY <1>6, <3>2, <4>1
    <3> QED BY <3>1, <3>2
  <2>2. canceller' = [u \in Tasks |-> [pc |-> canceller'[u].pc, key |-> canceller'[u].key,
                            result |-> canceller'[u].result, write |-> canceller'[u].write]]
    BY <1>7, <2>1
  <2> QED BY <2>1, <2>2 DEF TaskWorkers
<1> QED BY <1>5, <1>6, <1>8

LEMMA CancellerWrites ==
  ASSUME InProcInv, NEW t \in Tasks, NEW p, NEW x \in TaskRecord,
         canceller' = [canceller EXCEPT ![t].pc = p, ![t].write = x]
  PROVE  /\ TaskWorkers(canceller')
         /\ canceller'[t].pc = p /\ canceller'[t].write = x
         /\ canceller'[t].key = canceller[t].key /\ canceller'[t].result = canceller[t].result
         /\ \A u \in Tasks \ {t} : canceller'[u] = canceller[u]
<1> DEFINE moved == [canceller[t] EXCEPT !.pc = p]
<1>1. TaskWorkers(canceller) BY InvTypes
<1>2. canceller = [u \in Tasks |-> canceller[u]] BY <1>1 DEF TaskWorkers
<1>3. canceller'[t] = [moved EXCEPT !.write = x] BY <1>2
<1>4. canceller[t] = [pc |-> canceller[t].pc, key |-> canceller[t].key,
               result |-> canceller[t].result, write |-> canceller[t].write]
  BY <1>1 DEF TaskWorkers
<1>5. moved = [pc |-> p, key |-> canceller[t].key,
               result |-> canceller[t].result, write |-> canceller[t].write]
  BY <1>4
<1> HIDE DEF moved
<1>6. canceller'[t] = [pc |-> p, key |-> canceller[t].key,
                result |-> canceller[t].result, write |-> x]
  BY <1>3, <1>5
<1>10. /\ canceller'[t].pc = p /\ canceller'[t].write = x
       /\ canceller'[t].key = canceller[t].key /\ canceller'[t].result = canceller[t].result
  BY <1>6
<1>7. \A u \in Tasks \ {t} : canceller'[u] = canceller[u] BY <1>2
<1>8. canceller' = [u \in Tasks |-> canceller'[u]] BY <1>2
<1>9. TaskWorkers(canceller')
  <2>1. ASSUME NEW u \in Tasks
        PROVE  /\ canceller'[u] = [pc |-> canceller'[u].pc, key |-> canceller'[u].key,
                          result |-> canceller'[u].result, write |-> canceller'[u].write]
               /\ canceller'[u].write \in TaskRecord
    <3>1. CASE u = t
      <4>1. canceller'[t] = [pc |-> canceller'[t].pc, key |-> canceller'[t].key,
                      result |-> canceller'[t].result, write |-> canceller'[t].write]
        BY <1>6, <1>10, Zenon
      <4> QED BY <1>10, <3>1, <4>1
    <3>2. CASE u # t
      <4>1. /\ canceller[u] = [pc |-> canceller[u].pc, key |-> canceller[u].key,
                       result |-> canceller[u].result, write |-> canceller[u].write]
            /\ canceller[u].write \in TaskRecord
        BY <1>1 DEF TaskWorkers
      <4> QED BY <1>7, <3>2, <4>1
    <3> QED BY <3>1, <3>2
  <2>2. canceller' = [u \in Tasks |-> [pc |-> canceller'[u].pc, key |-> canceller'[u].key,
                            result |-> canceller'[u].result, write |-> canceller'[u].write]]
    BY <1>8, <2>1
  <2> QED BY <2>1, <2>2 DEF TaskWorkers
<1> QED BY <1>7, <1>9, <1>10

\* A step of the job of t that only moves its place and perhaps its row.
LEMMA QuietJobStep ==
  ASSUME InProcInv, NEW t \in Tasks, NEW p \in JobSteps, NEW x \in TaskRecord,
         job'[t].pc = p, job'[t].write = x,
         job'[t].key = job[t].key, job'[t].result = job[t].result,
         x \in {job[t].write, registry[t]},
         TaskWorkers(job'), \A u \in Tasks \ {t} : job'[u] = job[u],
         rows' \in [Tasks -> TaskRecord],
         \A u \in Tasks \ {t} : rows'[u] = rows[u],
         rows'[t] \in {rows[t], job[t].write},
         rows'[t].state = "none" \/ withDatabase,
         UNCHANGED <<registry, canceller, store, objects, socket, history,
                     withDatabase, activeGrants>>,
         t \in Stored => t \in Stored', job[t].pc # "idle",
         OnlyOf(t) => StoresBacked',
         Published(t) <= Published(t)',
         JobOrdered(t)'
  PROVE  InProcInv'
<1>1. OnlyOf(t) BY DEF OnlyOf
<1>2. Advance BY <1>1, OnlyOfAdvances
<1>3. /\ Genuine(t, registry[t]) /\ Genuine(t, rows[t])
      /\ Genuine(t, job[t].write) /\ Genuine(t, canceller[t].write)
  BY InvTypes DEF RecordsGenuine
<1>4. /\ StillGenuine(t, registry[t]) /\ StillGenuine(t, rows[t])
      /\ StillGenuine(t, job[t].write) /\ StillGenuine(t, canceller[t].write)
  BY <1>2, <1>3, GenuineKept
<1>5. /\ StillGenuine(t, registry'[t]) /\ StillGenuine(t, rows'[t])
      /\ StillGenuine(t, job'[t].write) /\ StillGenuine(t, canceller'[t].write)
  BY <1>4
<1>6. QueuesShort'
  <2>1. \A u \in Tasks \ {t} : Published(u) = Published(u)' BY DEF Published
  <2>2. \A u \in Tasks : Published(u) <= Published(u)' BY <2>1, PublishedType
  <2> QED BY <2>2, InvTypes, QueuesUnpublished DEF InProcInv
<1> QED BY <1>1, <1>5, <1>6, StepInv, InvTypes

LEMMA SaveTaskInv ==
  ASSUME InProcInv, NEW t \in Tasks, SaveTask(t)
  PROVE  InProcInv'
<1> DEFINE p == job'[t].pc
<1>1. /\ p \in {"start", "over"} /\ job[t].pc = "save"
      /\ job' = [job EXCEPT ![t].pc = p]
  BY InvTypes DEF SaveTask, TaskWorkers
<1>2. /\ TaskWorkers(job')
      /\ job'[t].pc = p /\ job'[t].write = job[t].write
      /\ job'[t].key = job[t].key /\ job'[t].result = job[t].result
      /\ \A u \in Tasks \ {t} : job'[u] = job[u]
  BY <1>1, JobMoves
<1>3. /\ rows' \in [Tasks -> TaskRecord]
      /\ \A u \in Tasks \ {t} : rows'[u] = rows[u]
      /\ rows'[t] \in {rows[t], job[t].write}
  BY InvTypes DEF SaveTask
<1>4. withDatabase BY <1>1, InvTypes DEF JobOrdered
<1>5. JobOrdered(t)' BY <1>1, <1>2, <1>4, InvTypes DEF SaveTask, JobOrdered
<1>6. OnlyOf(t) => StoresBacked' BY StoresKept DEF SaveTask, memoryVars
<1>7. Published(t) <= Published(t)' BY <1>1, <1>2 DEF Published, SaveTask
<1> QED BY <1>1, <1>2, <1>3, <1>4, <1>5, <1>6, <1>7, InvTypes, QuietJobStep
  DEF SaveTask, memoryVars, JobSteps, Stored

LEMMA WriteStateInv ==
  ASSUME InProcInv, NEW t \in Tasks, WriteState(t)
  PROVE  InProcInv'
<1> DEFINE p == IF job[t].pc = "write" THEN "spawn" ELSE "over"
<1>1. job[t].pc \in {"write", "writeLast"} /\ job' = [job EXCEPT ![t].pc = p] BY DEF WriteState
<1>2. /\ TaskWorkers(job')
      /\ job'[t].pc = p /\ job'[t].write = job[t].write
      /\ job'[t].key = job[t].key /\ job'[t].result = job[t].result
      /\ \A u \in Tasks \ {t} : job'[u] = job[u]
  <2> HIDE DEF p
  <2> QED BY <1>1, JobMoves
<1>3. /\ rows' \in [Tasks -> TaskRecord]
      /\ \A u \in Tasks \ {t} : rows'[u] = rows[u]
      /\ rows'[t] \in {rows[t], job[t].write}
      /\ rows'[t].state = "none" \/ withDatabase
  BY InvTypes DEF WriteState, SaveTaskState, JobOrdered
<1>4. UNCHANGED <<registry, canceller, store, objects, socket, history,
                  withDatabase, activeGrants, snapshotRows, cacheIndex, cacheRows>>
  BY DEF WriteState, memoryVars
<1>5. JobOrdered(t)' BY <1>1, <1>2, <1>3, <1>4, InvTypes DEF JobOrdered
<1>6. OnlyOf(t) => StoresBacked' BY <1>4, StoresKept
<1>7. Published(t) <= Published(t)' BY <1>1, <1>2, <1>4 DEF Published
<1>8. t \in Stored => t \in Stored' BY <1>1, <1>2 DEF JobSteps, Stored
<1>9. p \in JobSteps BY DEF JobSteps
<1> HIDE DEF p
<1> QED BY <1>1, <1>2, <1>3, <1>4, <1>5, <1>6, <1>7, <1>8, <1>9, InvTypes, QuietJobStep

LEMMA RunQueryTaskInv ==
  ASSUME InProcInv, NEW t \in Tasks, RunQueryTask(t)
  PROVE  InProcInv'
<1> DEFINE p == IF registry[t].state = "cancelled" THEN "over" ELSE "execute"
<1>1. job[t].pc = "spawn" /\ job' = [job EXCEPT ![t].pc = p] BY DEF RunQueryTask
<1>2. /\ TaskWorkers(job')
      /\ job'[t].pc = p /\ job'[t].write = job[t].write
      /\ job'[t].key = job[t].key /\ job'[t].result = job[t].result
      /\ \A u \in Tasks \ {t} : job'[u] = job[u]
  <2> HIDE DEF p
  <2> QED BY <1>1, JobMoves
<1>4. UNCHANGED <<registry, rows, canceller, store, objects, socket, history,
                  withDatabase, activeGrants, snapshotRows, cacheIndex, cacheRows>>
  BY DEF RunQueryTask, memoryVars, tableVars
<1>5. JobOrdered(t)' BY <1>1, <1>2, <1>4, InvTypes DEF JobOrdered
<1>6. OnlyOf(t) => StoresBacked' BY <1>4, StoresKept
<1>7. Published(t) <= Published(t)' BY <1>1, <1>2, <1>4 DEF Published
<1>8. t \notin Stored /\ p \in JobSteps BY <1>1 DEF JobSteps, Stored
<1>9. rows'[t].state = "none" \/ withDatabase BY <1>4, InvTypes DEF JobOrdered
<1> HIDE DEF p
<1> QED BY <1>1, <1>2, <1>4, <1>5, <1>6, <1>7, <1>8, <1>9, InvTypes, QuietJobStep

LEMMA SaveSnapshotInv ==
  ASSUME InProcInv, NEW t \in Tasks, SaveSnapshot(t)
  PROVE  InProcInv'
<1>1. job[t].pc = "snapshot" /\ job' = [job EXCEPT ![t].pc = "cache"] BY DEF SaveSnapshot
<1>2. /\ TaskWorkers(job')
      /\ job'[t].pc = "cache" /\ job'[t].write = job[t].write
      /\ job'[t].key = job[t].key /\ job'[t].result = job[t].result
      /\ \A u \in Tasks \ {t} : job'[u] = job[u]
  BY <1>1, JobMoves
<1>3. /\ UNCHANGED <<registry, rows, canceller, store, objects, socket, history,
                     withDatabase, activeGrants, cacheIndex, cacheRows>>
      /\ snapshotRows \subseteq snapshotRows'
      /\ snapshotRows' \subseteq snapshotRows \union {t}
  BY DEF SaveSnapshot, memoryVars
<1>4. JobOrdered(t)' BY <1>1, <1>2, <1>3, InvTypes DEF JobOrdered
<1>5. OnlyOf(t) => StoresBacked'
  <2> SUFFICES ASSUME OnlyOf(t) PROVE StoresBacked' OBVIOUS
  <2>1. t \in DOMAIN store /\ t \in objects BY <1>1, InvTypes DEF JobOrdered
  <2>2. StoresBacked BY DEF InProcInv
  <2>3. \A s \in DOMAIN store :
          s \in Stored' /\ history'[s].grants = history[s].grants
    BY <1>3, <2>2, OnlyOfAdvances DEF Advance, StoresBacked
  <2> QED BY <1>3, <2>1, <2>2, <2>3 DEF StoresBacked, Serves
<1>6. Published(t) <= Published(t)' BY <1>1, <1>2, <1>3 DEF Published
<1>7. t \in Stored' /\ "cache" \in JobSteps BY <1>2 DEF JobSteps, Stored
<1>8. rows'[t].state = "none" \/ withDatabase BY <1>3, InvTypes DEF JobOrdered
<1> QED BY <1>1, <1>2, <1>3, <1>4, <1>5, <1>6, <1>7, <1>8, InvTypes, QuietJobStep

LEMMA SaveCacheEntryInv ==
  ASSUME InProcInv, NEW t \in Tasks, SaveCacheEntry(t)
  PROVE  InProcInv'
<1>1. /\ job[t].pc = "cache"
      /\ job' = [job EXCEPT ![t].pc = "writeLast", ![t].write = registry[t]]
  BY DEF SaveCacheEntry
<1>2. /\ TaskWorkers(job')
      /\ job'[t].pc = "writeLast" /\ job'[t].write = registry[t]
      /\ job'[t].key = job[t].key /\ job'[t].result = job[t].result
      /\ \A u \in Tasks \ {t} : job'[u] = job[u]
  BY <1>1, InvTypes, JobWrites
<1>3. /\ UNCHANGED <<registry, rows, canceller, store, objects, socket, history,
                     withDatabase, activeGrants, cacheIndex, snapshotRows>>
      /\ \/ cacheRows' = cacheRows
         \/ t \in snapshotRows /\ cacheRows' = Put(cacheRows, job[t].key, t)
  BY DEF SaveCacheEntry, memoryVars
<1>4. JobOrdered(t)' BY <1>1, <1>2, <1>3, InvTypes DEF JobOrdered
<1>5. OnlyOf(t) => StoresBacked'
  <2> SUFFICES ASSUME OnlyOf(t) PROVE StoresBacked' OBVIOUS
  <2>1. /\ t \in DOMAIN store /\ t \in objects /\ store[t] = job[t].result
        /\ job[t].key = <<Min(history[t].grants), job[t].result.fields>>
    BY <1>1, InvTypes DEF JobOrdered
  <2>2. StoresBacked BY DEF InProcInv
  <2>3. \A s \in DOMAIN store :
          s \in Stored' /\ history'[s].grants = history[s].grants
    BY <1>3, <2>2, OnlyOfAdvances DEF Advance, StoresBacked
  <2>4. ASSUME NEW key \in DOMAIN cacheRows'
        PROVE  Serves(key, cacheRows'[key]) /\ cacheRows'[key] \in snapshotRows
    <3>1. CASE cacheRows' = cacheRows BY <2>2, <2>4, <3>1 DEF StoresBacked
    <3>2. CASE /\ t \in snapshotRows
               /\ cacheRows' = Put(cacheRows, job[t].key, t)
      <4>1. CASE key = job[t].key
        <5>1. cacheRows'[key] = t BY <3>2, <4>1 DEF Put
        <5> QED BY <2>1, <3>2, <4>1, <5>1 DEF Serves
      <4>2. CASE key # job[t].key
        <5>1. key \in DOMAIN cacheRows /\ cacheRows'[key] = cacheRows[key] BY <2>4, <3>2, <4>2 DEF Put
        <5> QED BY <2>2, <5>1 DEF StoresBacked
      <4> QED BY <4>1, <4>2
    <3> QED BY <1>3, <3>1, <3>2
  <2> QED BY <1>3, <2>2, <2>3, <2>4 DEF StoresBacked, Serves
<1>6. Published(t) <= Published(t)' BY <1>1, <1>2, <1>3 DEF Published
<1>7. t \in Stored' /\ "writeLast" \in JobSteps BY <1>2 DEF JobSteps, Stored
<1>8. rows'[t].state = "none" \/ withDatabase BY <1>3, InvTypes DEF JobOrdered
<1> QED BY <1>1, <1>2, <1>3, <1>4, <1>5, <1>6, <1>7, <1>8, InvTypes, QuietJobStep

LEMMA ExecuteQueryInv ==
  ASSUME InProcInv, NEW t \in Tasks, ExecuteQuery(t)
  PROVE  InProcInv'
<1>1. /\ job[t].pc = "execute" /\ job' = [job EXCEPT ![t].pc = "object"]
      /\ store' = Put(store, t, job[t].result)
  BY DEF ExecuteQuery
<1>2. /\ TaskWorkers(job')
      /\ job'[t].pc = "object" /\ job'[t].write = job[t].write
      /\ job'[t].key = job[t].key /\ job'[t].result = job[t].result
      /\ \A u \in Tasks \ {t} : job'[u] = job[u]
  BY <1>1, JobMoves
<1>3. UNCHANGED <<registry, rows, canceller, objects, socket, history,
                  withDatabase, activeGrants, snapshotRows, cacheIndex, cacheRows>>
  BY DEF ExecuteQuery, tableVars
<1>4. t \notin Stored /\ t \in Stored' BY <1>1, <1>2 DEF Stored
<1>5. OnlyOf(t) BY <1>1, <1>2, <1>3, <1>4 DEF OnlyOf
<1>6. Advance BY <1>5, OnlyOfAdvances
<1>7. /\ DOMAIN store' = DOMAIN store \union {t} /\ store'[t] = job[t].result
      /\ \A s \in DOMAIN store : s # t => store'[s] = store[s]
  BY <1>1 DEF Put
<1>8. JobOrdered(t)' BY <1>1, <1>2, <1>3, <1>7, InvTypes DEF JobOrdered
<1>9. StoresBacked'
  <2>1. StoresBacked BY DEF InProcInv
  <2>2. \A s \in DOMAIN store : s \in Stored' /\ s # t /\ store'[s] = store[s]
    BY <1>4, <1>6, <1>7, <2>1 DEF Advance, StoresBacked
  <2>3. job[t].result.select = Selected(history[t].grants) BY <1>1, InvTypes DEF JobOrdered
  <2>5. /\ DOMAIN store' \subseteq Stored'
        /\ \A s \in DOMAIN store' : store'[s].select = Selected(history'[s].grants)
    BY <1>3, <1>4, <1>7, <2>1, <2>2, <2>3 DEF StoresBacked
  <2>6. \A key, s : Serves(key, s) => /\ s \in DOMAIN store' /\ s \in objects'
                                      /\ key = <<Min(history'[s].grants), store'[s].fields>>
    BY <1>3, <1>7, <2>2 DEF Serves
  <2> QED BY <1>3, <1>7, <2>1, <2>5, <2>6 DEF StoresBacked, Serves
<1>10. QueuesShort'
  <2>1. \A u \in Tasks : Published(u) <= Published(u)'
    <3>1. \A u \in Tasks \ {t} : Published(u) = Published(u)' BY <1>2, <1>3 DEF Published
    <3>2. Published(t) <= Published(t)' BY <1>1, <1>2, <1>3 DEF Published
    <3> QED BY <3>1, <3>2, PublishedType
  <2> QED BY <1>3, <2>1, InvTypes, QueuesUnpublished DEF InProcInv
<1>11. /\ StillGenuine(t, registry'[t]) /\ StillGenuine(t, rows'[t])
       /\ StillGenuine(t, job'[t].write) /\ StillGenuine(t, canceller'[t].write)
  BY <1>2, <1>3, <1>6, InvTypes, GenuineKept DEF RecordsGenuine
<1>12. job'[t].pc \in JobSteps BY <1>2 DEF JobSteps
<1> QED BY <1>2, <1>3, <1>5, <1>8, <1>9, <1>10, <1>11, <1>12, StepInv, InvTypes
----
(* The steps of a task that replace its state in the registry. *)

LEMMA UpdateStep ==
  ASSUME InProcInv, NEW t \in Tasks, NEW task \in TaskRecord, Update(t, task),
         OnlyOf(t) => StillGenuine(t, task),
         UNCHANGED <<rows, store, withDatabase, activeGrants>>,
         objects \subseteq objects',
         TaskWorkers(job'), \A u \in Tasks \ {t} : job'[u] = job[u],
         TaskWorkers(canceller'), \A u \in Tasks \ {t} : canceller'[u] = canceller[u],
         job'[t].pc \in JobSteps, job'[t].write \in {job[t].write, task},
         canceller'[t].write = canceller[t].write,
         t \in Stored => t \in Stored',
         Published(t) + 1 <= Published(t)',
         JobOrdered(t)', OnlyOf(t) => StoresBacked'
  PROVE  InProcInv'
<1>1. /\ registry' \in [Tasks -> TaskRecord] /\ registry'[t] = task
      /\ history' \in [Tasks -> [outcomes : SUBSET Final,
                                 grants : SUBSET DOMAIN Granted]]
      /\ history'[t].grants = history[t].grants
      /\ history[t].outcomes \subseteq history'[t].outcomes
      /\ \A u \in Tasks \ {t} :
           registry'[u] = registry[u] /\ history'[u] = history[u]
      /\ Publish(t, task.state)
  BY UpdateFacts DEF InProcInv
<1>2. OnlyOf(t) BY <1>1 DEF OnlyOf
<1>3. Advance BY <1>2, OnlyOfAdvances
<1>4. /\ Genuine(t, rows[t]) /\ Genuine(t, job[t].write)
      /\ Genuine(t, canceller[t].write)
  BY InvTypes DEF RecordsGenuine
<1>5. /\ StillGenuine(t, rows[t]) /\ StillGenuine(t, job[t].write)
      /\ StillGenuine(t, canceller[t].write) /\ StillGenuine(t, task)
  BY <1>1, <1>2, <1>3, <1>4, GenuineKept
<1>6. /\ StillGenuine(t, registry'[t]) /\ StillGenuine(t, rows'[t])
      /\ StillGenuine(t, job'[t].write) /\ StillGenuine(t, canceller'[t].write)
  BY <1>1, <1>5
<1>7. task.state \in States BY DEF TaskRecord
<1>8. \A u \in Tasks \ {t} : Published(u)' = Published(u) BY DEF Published
<1>9. QueuesShort' BY <1>1, <1>7, <1>8, InvTypes, QueuesAfterPublish DEF InProcInv
<1>10. socket' \in [Sockets -> Stream] BY <1>1, <1>7, InvTypes, PublishFacts
<1>11. rows' \in [Tasks -> TaskRecord] /\ StoresBacked' BY <1>2, InvTypes
<1> QED BY <1>1, <1>2, <1>6, <1>9, <1>10, <1>11, StepInv

\* A task fails, or is cancelled, in any state.
LEMMA EndedTask ==
  ASSUME InProcInv, NEW t \in Tasks, registry[t].state # "completed",
         NEW st \in States \ {"completed"},
         Update(t, [registry[t] EXCEPT !.state = st])
  PROVE  /\ [registry[t] EXCEPT !.state = st] \in TaskRecord
         /\ [registry[t] EXCEPT !.state = st].state = st
         /\ StillGenuine(t, [registry[t] EXCEPT !.state = st])
<1> DEFINE task == [registry[t] EXCEPT !.state = st]
<1>1. registry[t] \in TaskRecord /\ Genuine(t, registry[t]) BY InvTypes DEF RecordsGenuine
<1>2. /\ task \in TaskRecord
      /\ task.state = st /\ task.hit = registry[t].hit
      /\ task.snapshot = registry[t].snapshot
  BY <1>1 DEF TaskRecord
<1>3. Update(t, task) OBVIOUS
<1> HIDE DEF task
<1>4. task.state \in Final => task.state \in history'[t].outcomes BY <1>2, <1>3, UpdateFacts DEF InProcInv
<1>5. StillGenuine(t, task) BY <1>1, <1>2, <1>4 DEF Genuine, StillGenuine
<1> QED BY <1>2, <1>5 DEF task
LEMMA AskCancelInv ==
  ASSUME InProcInv, NEW t \in Tasks, AskCancel(t)
  PROVE  InProcInv'
<1> DEFINE task == [registry[t] EXCEPT !.state = "cancelled"]
<1>1. /\ canceller[t].pc = "idle" /\ registry[t].state \in {"pending", "running"}
      /\ Update(t, task) /\ canceller' = [canceller EXCEPT ![t].pc = "signal"]
  BY DEF AskCancel, CancelTask
<1>2. UNCHANGED <<rows, job, store, cacheIndex, objects, snapshotRows, cacheRows,
                  withDatabase, activeGrants>>
  BY DEF AskCancel, memoryVars
<1>3. /\ TaskWorkers(canceller')
      /\ canceller'[t].pc = "signal" /\ canceller'[t].write = canceller[t].write
      /\ \A u \in Tasks \ {t} : canceller'[u] = canceller[u]
  BY <1>1, CancellerMoves
<1>4. task \in TaskRecord /\ task.state = "cancelled" /\ StillGenuine(t, task)
  BY <1>1, EndedTask DEF States, Final
<1> HIDE DEF task
<1>5. registry'[t].state = "cancelled" /\ history'[t].grants = history[t].grants
  BY <1>1, <1>4, UpdateFacts DEF InProcInv
<1>6. job[t].pc # "idle" BY <1>1, InvTypes DEF JobOrdered, NoTask, Task
<1>7. JobOrdered(t)' BY <1>2, <1>5, <1>6, InvTypes DEF JobOrdered
<1>8. Published(t) + 1 <= Published(t)' BY <1>1, <1>2, <1>3 DEF Published
<1>9. OnlyOf(t) => StoresBacked' BY <1>2, StoresKept
<1>10. t \in Stored => t \in Stored' BY <1>2 DEF Stored
<1> QED BY <1>1, <1>2, <1>3, <1>4, <1>7, <1>8, <1>9, <1>10, InvTypes, UpdateStep

LEMMA QueryFailsInv ==
  ASSUME InProcInv, NEW t \in Tasks, QueryFails(t)
  PROVE  InProcInv'
<1>1. job[t].pc = "execute"
      /\ job' = [job EXCEPT ![t].pc = "writeLast", ![t].write = registry'[t]]
  BY DEF QueryFails, Persist
<1>2. UNCHANGED <<rows, canceller, store, cacheIndex, objects, snapshotRows, cacheRows,
                  withDatabase, activeGrants>>
  BY DEF QueryFails, memoryVars, tableVars
<1>3. PICK st \in {"failed", "cancelled"} :
        Update(t, [registry[t] EXCEPT !.state = st])
  BY DEF QueryFails, CancelTask, MarkFailed
<1> DEFINE task == [registry[t] EXCEPT !.state = st]
<1>4. registry[t].state \in {"running", "cancelled"} BY <1>1, InvTypes DEF JobOrdered
<1>5. task \in TaskRecord /\ task.state = st /\ StillGenuine(t, task)
  BY <1>3, <1>4, EndedTask DEF States, Final
<1>6. Update(t, task) BY <1>3
<1> HIDE DEF task
<1>7. registry'[t] = task /\ history'[t].grants = history[t].grants
  BY <1>5, <1>6, UpdateFacts DEF InProcInv
<1>8. /\ TaskWorkers(job')
      /\ job'[t].pc = "writeLast" /\ job'[t].write = task
      /\ job'[t].key = job[t].key /\ job'[t].result = job[t].result
      /\ \A u \in Tasks \ {t} : job'[u] = job[u]
  <2>1. job' = [job EXCEPT ![t].pc = "writeLast", ![t].write = task] BY <1>1, <1>7
  <2> QED BY <1>5, <2>1, JobWrites
<1>9. JobOrdered(t)' BY <1>1, <1>2, <1>7, <1>8, InvTypes DEF JobOrdered
<1>10. Published(t) + 1 <= Published(t)' BY <1>1, <1>2, <1>8 DEF Published
<1>11. OnlyOf(t) => StoresBacked' BY <1>2, StoresKept
<1>12. t \in Stored' /\ job'[t].pc \in JobSteps BY <1>8 DEF Stored, JobSteps
<1> QED BY <1>2, <1>5, <1>6, <1>8, <1>9, <1>10, <1>11, <1>12, InvTypes, UpdateStep

\* A task completes with a snapshot that may be served to it.
LEMMA CompletedTask ==
  ASSUME InProcInv, NEW t \in Tasks, NEW s \in Tasks, NEW hit \in BOOLEAN,
         Update(t, Task("completed", s, hit)),
         hit => s # t,
         s \in Stored',
         Min(history'[s].grants) = Min(history'[t].grants),
         s \in DOMAIN store' => Undenied(store'[s], history'[t].grants)
  PROVE  /\ Task("completed", s, hit) \in TaskRecord
         /\ Task("completed", s, hit).state = "completed"
         /\ StillGenuine(t, Task("completed", s, hit))
<1> DEFINE task == Task("completed", s, hit)
<1>1. /\ task \in TaskRecord
      /\ task.state = "completed" /\ task.snapshot = s /\ task.hit = hit
  BY DEF Task, TaskRecord, States, Final
<1>2. Update(t, task) OBVIOUS
<1> HIDE DEF task
<1>3. task.state \in history'[t].outcomes BY <1>1, <1>2, UpdateFacts DEF InProcInv, Final
<1>4. StillGenuine(t, task) BY <1>1, <1>3 DEF StillGenuine
<1> QED BY <1>1, <1>4 DEF task

LEMMA StartInv ==
  ASSUME InProcInv, NEW t \in Tasks, Start(t)
  PROVE  InProcInv'
<1>1. job[t].pc = "start" BY DEF Start
<1>2. UNCHANGED <<rows, canceller, store, cacheIndex, objects, snapshotRows, cacheRows,
                  withDatabase, activeGrants>>
  BY DEF Start, memoryVars
<1>3. registry[t].state \in {"pending", "cancelled"} BY <1>1, InvTypes DEF JobOrdered
<1>4. OnlyOf(t) => StoresBacked' BY <1>2, StoresKept
<1>5. t \notin Stored BY <1>1 DEF Stored
<1>6. ASSUME NEW task \in TaskRecord, NEW p \in {"write", "writeLast"},
             Update(t, task), OnlyOf(t) => StillGenuine(t, task),
             p = "write" => task.state = "running",
             job' = [job EXCEPT ![t].pc = p, ![t].write = registry'[t]]
      PROVE  InProcInv'
  <2>1. registry'[t] = task /\ history'[t].grants = history[t].grants BY <1>6, UpdateFacts DEF InProcInv
  <2>2. job' = [job EXCEPT ![t].pc = p, ![t].write = task] BY <1>6, <2>1
  <2>3. /\ TaskWorkers(job')
        /\ job'[t].pc = p /\ job'[t].write = task
        /\ job'[t].key = job[t].key /\ job'[t].result = job[t].result
        /\ \A u \in Tasks \ {t} : job'[u] = job[u]
    BY <2>2, JobWrites
  <2>4. JobOrdered(t)' BY <1>1, <1>2, <1>6, <2>1, <2>3, InvTypes DEF JobOrdered
  <2>5. Published(t) + 1 <= Published(t)' BY <1>1, <1>2, <2>3 DEF Published
  <2>6. job'[t].pc \in JobSteps BY <2>3 DEF JobSteps
  <2> QED BY <1>2, <1>4, <1>5, <1>6, <2>3, <2>4, <2>5, <2>6, InvTypes, UpdateStep
<1>7. CASE job[t].key \in DOMAIN cacheIndex
  <2> DEFINE s == cacheIndex[job[t].key]
  <2>1. Update(t, Task("completed", s, TRUE))
        /\ job' = [job EXCEPT ![t].pc = "writeLast", ![t].write = registry'[t]]
    BY <1>7 DEF Start, MarkCompleted, Persist
  <2>2. Serves(job[t].key, s) BY <1>7 DEF InProcInv, StoresBacked
  <2> HIDE DEF s
  <2>3. s \in Stored /\ s \in DOMAIN store BY <2>2 DEF Serves, InProcInv, StoresBacked
  <2>4. s \in Tasks /\ s # t BY <1>5, <2>3 DEF Stored
  <2>5. Min(history[s].grants) = Min(history[t].grants)
        /\ store[s].fields = job[t].result.fields
        /\ Undenied(job[t].result, history[t].grants)
    BY <1>1, <2>2, InvTypes DEF Serves, JobOrdered
  <2>6. Undenied(store[s], history[t].grants) BY <2>5 DEF Undenied
  <2>7. Task("completed", s, TRUE) \in TaskRecord BY <2>4, TaskTypes
  <2>8. history'[t].grants = history[t].grants BY <2>1, <2>7, UpdateFacts DEF InProcInv
  <2>9. ASSUME OnlyOf(t) PROVE StillGenuine(t, Task("completed", s, TRUE))
    <3>1. s \in Stored' /\ history'[s].grants = history[s].grants
      BY <2>3, <2>9, OnlyOfAdvances DEF Advance
    <3>2. s \in DOMAIN store' => Undenied(store'[s], history'[t].grants) BY <1>2, <2>6, <2>8
    <3> QED BY <2>1, <2>4, <2>5, <2>8, <3>1, <3>2, CompletedTask
  <2> QED BY <1>6, <2>1, <2>7, <2>9
<1>8. CASE job[t].key \notin DOMAIN cacheIndex
  <2> DEFINE task == [registry[t] EXCEPT !.state = "running"]
  <2>1. Update(t, task)
        /\ job' = [job EXCEPT ![t].pc = "write", ![t].write = registry'[t]]
    BY <1>8 DEF Start, MarkRunning, Persist
  <2>2. task \in TaskRecord /\ task.state = "running" /\ StillGenuine(t, task)
    BY <1>3, <2>1, EndedTask DEF States, Final
  <2> HIDE DEF task
  <2> QED BY <1>6, <2>1, <2>2
<1> QED BY <1>7, <1>8

LEMMA StoreObjectInv ==
  ASSUME InProcInv, NEW t \in Tasks, StoreObject(t)
  PROVE  InProcInv'
<1>1. job[t].pc = "object" BY DEF StoreObject
<1>2. UNCHANGED <<rows, canceller, store, snapshotRows, cacheRows, withDatabase,
                  activeGrants>>
  BY DEF StoreObject, tableVars
<1>3. /\ t \in DOMAIN store /\ store[t] = job[t].result
      /\ job[t].key = <<Min(history[t].grants), job[t].result.fields>>
      /\ Undenied(job[t].result, history[t].grants)
      /\ registry[t].state \in {"running", "cancelled"}
  BY <1>1, InvTypes DEF JobOrdered
<1>4. t \in Stored BY <1>1 DEF Stored
<1>5. CASE /\ objects' = objects \union {t}
           /\ cacheIndex' = Put(cacheIndex, job[t].key, t)
           /\ MarkCompleted(t, t, FALSE)
           /\ job' = [job EXCEPT ![t].pc = IF withDatabase THEN "snapshot" ELSE "over"]
  <2> DEFINE p == IF withDatabase THEN "snapshot" ELSE "over"
             task == Task("completed", t, FALSE)
  <2>1. Update(t, task) BY <1>5 DEF MarkCompleted
  <2>2. job' = [job EXCEPT ![t].pc = p] BY <1>5
  <2>3. p \in {"snapshot", "over"} /\ (p = "snapshot" => withDatabase) OBVIOUS
  <2> HIDE DEF p
  <2>4. /\ TaskWorkers(job')
        /\ job'[t].pc = p /\ job'[t].write = job[t].write
        /\ job'[t].key = job[t].key /\ job'[t].result = job[t].result
        /\ \A u \in Tasks \ {t} : job'[u] = job[u]
    BY <2>2, JobMoves
  <2>5. t \in Stored' BY <2>3, <2>4 DEF Stored
  <2>6. task \in TaskRecord BY TaskTypes
  <2>7. history'[t].grants = history[t].grants BY <2>1, <2>6, UpdateFacts DEF InProcInv
  <2>8. StillGenuine(t, task) BY <1>2, <1>3, <2>1, <2>5, <2>7, CompletedTask
  <2>9. task.state = "completed" BY DEF Task
  <2> HIDE DEF task
  <2>10. registry'[t] = task BY <2>1, <2>6, UpdateFacts DEF InProcInv
  <2>11. JobOrdered(t)' BY <1>1, <1>2, <1>3, <1>5, <2>3, <2>4, <2>7, <2>9, <2>10, InvTypes DEF JobOrdered
  <2>12. Published(t) + 1 <= Published(t)' BY <1>1, <1>2, <2>3, <2>4 DEF Published
  <2>13. ASSUME OnlyOf(t) PROVE StoresBacked'
    <3>1. StoresBacked BY DEF InProcInv
    <3>2. \A s \in DOMAIN store :
            s \in Stored' /\ history'[s].grants = history[s].grants
      BY <2>13, <3>1, OnlyOfAdvances DEF Advance, StoresBacked
    <3>3. ASSUME NEW key \in DOMAIN cacheIndex'
          PROVE  /\ cacheIndex'[key] \in DOMAIN store
                 /\ cacheIndex'[key] \in objects'
                 /\ key = <<Min(history'[cacheIndex'[key]].grants),
                            store[cacheIndex'[key]].fields>>
      <4>1. CASE key = job[t].key
        <5>1. cacheIndex'[key] = t BY <1>5, <4>1 DEF Put
        <5> QED BY <1>2, <1>3, <1>5, <2>7, <4>1, <5>1 DEF Serves
      <4>2. CASE key # job[t].key
        <5>1. key \in DOMAIN cacheIndex /\ cacheIndex'[key] = cacheIndex[key] BY <1>5, <3>3, <4>2 DEF Put
        <5> QED BY <1>2, <1>5, <3>1, <3>2, <5>1 DEF StoresBacked, Serves
      <4> QED BY <4>1, <4>2
    <3>4. objects \subseteq objects' BY <1>5
    <3> QED BY <1>2, <3>1, <3>2, <3>3, <3>4 DEF StoresBacked, Serves
  <2>14. job'[t].pc \in JobSteps /\ objects \subseteq objects' BY <1>5, <2>3, <2>4 DEF JobSteps
  <2> QED BY <1>2, <2>1, <2>4, <2>5, <2>6, <2>8, <2>11, <2>12, <2>13, <2>14, InvTypes,
       UpdateStep
<1>6. CASE /\ MarkFailed(t) /\ job' = Persist(job, t, "writeLast")
           /\ UNCHANGED <<objects, cacheIndex>>
  <2> DEFINE task == [registry[t] EXCEPT !.state = "failed"]
  <2>1. Update(t, task)
        /\ job' = [job EXCEPT ![t].pc = "writeLast", ![t].write = registry'[t]]
    BY <1>6 DEF MarkFailed, Persist
  <2>2. task \in TaskRecord /\ task.state = "failed" /\ StillGenuine(t, task)
    BY <1>3, <2>1, EndedTask DEF States, Final
  <2> HIDE DEF task
  <2>3. registry'[t] = task /\ history'[t].grants = history[t].grants
    BY <2>1, <2>2, UpdateFacts DEF InProcInv
  <2>4. job' = [job EXCEPT ![t].pc = "writeLast", ![t].write = task] BY <2>1, <2>3
  <2>5. /\ TaskWorkers(job')
        /\ job'[t].pc = "writeLast" /\ job'[t].write = task
        /\ job'[t].key = job[t].key /\ job'[t].result = job[t].result
        /\ \A u \in Tasks \ {t} : job'[u] = job[u]
    BY <2>2, <2>4, JobWrites
  <2>6. JobOrdered(t)' BY <1>1, <1>2, <1>6, <2>2, <2>3, <2>5, InvTypes DEF JobOrdered
  <2>7. Published(t) + 1 <= Published(t)' BY <1>1, <1>2, <2>5 DEF Published
  <2>8. OnlyOf(t) => StoresBacked' BY <1>2, <1>6, StoresKept
  <2>9. t \in Stored' /\ job'[t].pc \in JobSteps /\ objects \subseteq objects'
    BY <1>6, <2>5 DEF Stored, JobSteps
  <2> QED BY <1>2, <2>1, <2>2, <2>5, <2>6, <2>7, <2>8, <2>9, InvTypes, UpdateStep
<1> QED BY <1>5, <1>6 DEF StoreObject
----
(* Cancellation after the registry. *)

LEMMA CancelStepInv ==
  ASSUME InProcInv, NEW t \in Tasks, NEW p, NEW x \in {registry[t], canceller[t].write},
         canceller[t].pc # "idle", canceller'[t].pc = p, p # "idle",
         canceller'[t].write = x, TaskWorkers(canceller'),
         \A u \in Tasks \ {t} : canceller'[u] = canceller[u],
         rows' \in [Tasks -> TaskRecord],
         \A u \in Tasks \ {t} : rows'[u] = rows[u],
         rows'[t] \in {rows[t], canceller[t].write},
         rows'[t].state = "none" \/ withDatabase,
         UNCHANGED <<registry, job, store, cacheIndex, objects, snapshotRows, cacheRows,
                     socket, history, withDatabase, activeGrants>>
  PROVE  InProcInv'
<1>1. OnlyOf(t) BY DEF OnlyOf, Stored
<1>2. Advance BY <1>1, OnlyOfAdvances
<1>3. /\ Genuine(t, registry[t]) /\ Genuine(t, rows[t])
      /\ Genuine(t, job[t].write) /\ Genuine(t, canceller[t].write)
  BY InvTypes DEF RecordsGenuine
<1>4. /\ StillGenuine(t, registry[t]) /\ StillGenuine(t, rows[t])
      /\ StillGenuine(t, job[t].write) /\ StillGenuine(t, canceller[t].write)
  BY <1>2, <1>3, GenuineKept
<1>5. /\ StillGenuine(t, registry'[t]) /\ StillGenuine(t, rows'[t])
      /\ StillGenuine(t, job'[t].write) /\ StillGenuine(t, canceller'[t].write)
  BY <1>4
<1>6. QueuesShort'
  <2>1. \A u \in Tasks : Published(u) = Published(u)' BY DEF Published
  <2>2. \A u \in Tasks : Published(u) <= Published(u)' BY <2>1, PublishedType
  <2> QED BY <2>2, InvTypes, QueuesUnpublished DEF InProcInv
<1>7. job[t].pc # "idle" BY InvTypes DEF JobOrdered, Idle
<1>8. JobOrdered(t)' BY <1>7, InvTypes DEF JobOrdered
<1>9. StoresBacked' BY <1>1, StoresKept
<1> QED BY <1>1, <1>5, <1>6, <1>8, <1>9, StepInv, InvTypes

LEMMA SignalSchedulerInv ==
  ASSUME InProcInv, NEW t \in Tasks, SignalScheduler(t)
  PROVE  InProcInv'
<1>1. /\ canceller[t].pc = "signal"
      /\ canceller' = [canceller EXCEPT ![t].pc = "write", ![t].write = registry[t]]
  BY DEF SignalScheduler
<1>2. UNCHANGED <<registry, rows, job, store, cacheIndex, objects, snapshotRows,
                  cacheRows, socket, history, withDatabase, activeGrants>>
  BY DEF SignalScheduler, memoryVars
<1>3. /\ TaskWorkers(canceller')
      /\ canceller'[t].pc = "write" /\ canceller'[t].write = registry[t]
      /\ \A u \in Tasks \ {t} : canceller'[u] = canceller[u]
  BY <1>1, InvTypes, CancellerWrites
<1>4. rows'[t].state = "none" \/ withDatabase BY <1>2, InvTypes DEF JobOrdered
<1> QED BY <1>1, <1>2, <1>3, <1>4, InvTypes, CancelStepInv

LEMMA WriteCancelledInv ==
  ASSUME InProcInv, NEW t \in Tasks, WriteCancelled(t)
  PROVE  InProcInv'
<1>1. /\ canceller[t].pc = "write"
      /\ canceller' = [canceller EXCEPT ![t].pc = "over"]
  BY DEF WriteCancelled
<1>2. UNCHANGED <<registry, job, store, cacheIndex, objects, snapshotRows, cacheRows,
                  socket, history, withDatabase, activeGrants>>
  BY DEF WriteCancelled, memoryVars
<1>3. /\ TaskWorkers(canceller')
      /\ canceller'[t].pc = "over" /\ canceller'[t].write = canceller[t].write
      /\ \A u \in Tasks \ {t} : canceller'[u] = canceller[u]
  BY <1>1, CancellerMoves
<1>4. /\ rows' \in [Tasks -> TaskRecord]
      /\ \A u \in Tasks \ {t} : rows'[u] = rows[u]
      /\ rows'[t] \in {rows[t], canceller[t].write}
      /\ rows'[t].state = "none" \/ withDatabase
  BY InvTypes DEF WriteCancelled, SaveTaskState, JobOrdered
<1> QED BY <1>1, <1>2, <1>3, <1>4, CancelStepInv

----
(* Steps that leave every task alone. *)

LEMMA TasksAlone ==
  ASSUME InProcInv,
         UNCHANGED <<registry, rows, job, canceller, store, objects, snapshotRows,
                     cacheIndex, cacheRows, withDatabase, history>>,
         activeGrants' \subseteq DOMAIN Granted, socket' \in [Sockets -> Stream],
         QueuesShort'
  PROVE  InProcInv'
<1>1. Advance BY DEF Advance, Stored
<1>2. \A u \in Tasks : RecordsGenuine(u)' /\ JobOrdered(u)' BY <1>1, OthersSame
<1>3. StoresBacked' BY DEF InProcInv, StoresBacked, Serves, Stored
<1>4. InProcTypes' BY DEF InProcInv, InProcTypes, TaskWorkers
<1> QED BY <1>2, <1>3, <1>4 DEF InProcInv

LEMMA GrantChangesInv ==
  ASSUME InProcInv, NEW g \in DOMAIN Granted, GrantChanges(g)
  PROVE  InProcInv'
<1>1. UNCHANGED <<registry, rows, job, canceller, store, objects, snapshotRows,
                  cacheIndex, cacheRows, withDatabase, history, socket>>
  BY DEF GrantChanges, memoryVars
<1>2. activeGrants' \subseteq DOMAIN Granted BY DEF GrantChanges, InProcInv, InProcTypes
<1>3. QueuesShort'
  <2>1. \A u \in Tasks : Published(u) = Published(u)' BY <1>1 DEF Published
  <2>2. \A u \in Tasks : Published(u) <= Published(u)' BY <2>1, PublishedType
  <2> QED BY <1>1, <2>2, InvTypes, QueuesUnpublished DEF InProcInv
<1> QED BY <1>1, <1>2, <1>3, InvTypes, TasksAlone

LEMMA UnchangedInv ==
  ASSUME InProcInv, UNCHANGED queryVars
  PROVE  InProcInv'
<1>1. UNCHANGED <<registry, rows, job, canceller, store, objects, snapshotRows,
                  cacheIndex, cacheRows, withDatabase, history, socket, activeGrants>>
  BY DEF queryVars
<1>2. activeGrants' \subseteq DOMAIN Granted BY <1>1 DEF InProcInv, InProcTypes
<1>3. QueuesShort'
  <2>1. \A u \in Tasks : Published(u) = Published(u)' BY <1>1 DEF Published
  <2>2. \A u \in Tasks : Published(u) <= Published(u)' BY <2>1, PublishedType
  <2> QED BY <1>1, <2>2, InvTypes, QueuesUnpublished DEF InProcInv
<1> QED BY <1>1, <1>2, <1>3, InvTypes, TasksAlone

\* One stream changes: it stays short when it is of t and not longer than
\* what t has published.
LEMMA OneStream ==
  ASSUME InProcInv, NEW s \in Sockets, NEW r \in Stream,
         socket' = [socket EXCEPT ![s] = r],
         \E t \in Tasks : r.task = t /\ Len(r.queue) <= Published(t),
         UNCHANGED <<registry, rows, job, canceller, store, objects, snapshotRows,
                     cacheIndex, cacheRows, withDatabase, history, activeGrants>>
  PROVE  InProcInv'
<1>1. /\ socket' \in [Sockets -> Stream] /\ socket'[s] = r
      /\ \A x \in Sockets \ {s} : socket'[x] = socket[x]
  BY InvTypes
<1>2. \A t \in Tasks : Published(t)' = Published(t) BY DEF Published
<1>3. QueuesShort'
  <2>1. QueuesShort BY DEF InProcInv
  <2>2. ASSUME NEW x \in Sockets
        PROVE  \/ socket'[x].pc = "closed" /\ socket'[x].queue = <<>>
               \/ \E t \in Tasks : /\ socket'[x].task = t
                                  /\ Len(socket'[x].queue) <= Published(t)
    <3>1. CASE x = s BY <1>1, <3>1
    <3>2. CASE x # s BY <1>1, <2>1, <3>2 DEF QueuesShort
    <3> QED BY <3>1, <3>2
  <2> QED BY <1>2, <2>2 DEF QueuesShort
<1>4. activeGrants' \subseteq DOMAIN Granted BY DEF InProcInv, InProcTypes
<1> QED BY <1>1, <1>3, <1>4, TasksAlone

\* The fields of a stream can be replaced one by one.
LEMMA StreamFields ==
  /\ \A q \in Stream, x \in {"closed", "subscribed", "open"} :
       /\ [q EXCEPT !.pc = x] \in Stream
       /\ [q EXCEPT !.pc = x].task = q.task
       /\ [q EXCEPT !.pc = x].queue = q.queue
  /\ \A q \in Stream, x \in Tasks \union {NoSnapshot} :
       /\ [q EXCEPT !.task = x] \in Stream
       /\ [q EXCEPT !.task = x].task = x
       /\ [q EXCEPT !.task = x].queue = q.queue
  /\ \A q \in Stream, x \in BOOLEAN :
       /\ [q EXCEPT !.replay = x] \in Stream
       /\ [q EXCEPT !.replay = x].task = q.task
       /\ [q EXCEPT !.replay = x].queue = q.queue
  /\ \A q \in Stream, x \in Seq(States) :
       /\ [q EXCEPT !.queue = x] \in Stream
       /\ [q EXCEPT !.queue = x].task = q.task
       /\ [q EXCEPT !.queue = x].queue = x
  /\ \A q \in Stream, x \in States \union {"nothing"} :
       /\ [q EXCEPT !.told = x] \in Stream
       /\ [q EXCEPT !.told = x].task = q.task
       /\ [q EXCEPT !.told = x].queue = q.queue
<1>1. \A q \in Stream, x \in {"closed", "subscribed", "open"} :
       /\ [q EXCEPT !.pc = x] \in Stream
       /\ [q EXCEPT !.pc = x].task = q.task
       /\ [q EXCEPT !.pc = x].queue = q.queue
  BY DEF Stream
<1>2. \A q \in Stream, x \in Tasks \union {NoSnapshot} :
       /\ [q EXCEPT !.task = x] \in Stream
       /\ [q EXCEPT !.task = x].task = x
       /\ [q EXCEPT !.task = x].queue = q.queue
  BY DEF Stream
<1>3. \A q \in Stream, x \in BOOLEAN :
       /\ [q EXCEPT !.replay = x] \in Stream
       /\ [q EXCEPT !.replay = x].task = q.task
       /\ [q EXCEPT !.replay = x].queue = q.queue
  BY DEF Stream
<1>4. \A q \in Stream, x \in Seq(States) :
       /\ [q EXCEPT !.queue = x] \in Stream
       /\ [q EXCEPT !.queue = x].task = q.task
       /\ [q EXCEPT !.queue = x].queue = x
  BY DEF Stream
<1>5. \A q \in Stream, x \in States \union {"nothing"} :
       /\ [q EXCEPT !.told = x] \in Stream
       /\ [q EXCEPT !.told = x].task = q.task
       /\ [q EXCEPT !.told = x].queue = q.queue
  BY DEF Stream
<1> QED BY <1>1, <1>2, <1>3, <1>4, <1>5

LEMMA SubscribeInv ==
  ASSUME InProcInv, NEW s \in Sockets, NEW t \in Tasks, Subscribe(s, t)
  PROVE  InProcInv'
<1>1. PICK replay \in BOOLEAN :
        socket' = [socket EXCEPT ![s] =
          [Closed EXCEPT !.pc = "subscribed", !.task = t, !.replay = replay]]
  BY DEF Subscribe
<1> DEFINE m == [Closed EXCEPT !.pc = "subscribed"]
           n == [m EXCEPT !.task = t]
           r == [n EXCEPT !.replay = replay]
<1>2. Closed \in Stream /\ Closed.queue = <<>> BY DEF Closed, Stream
<1>3. m \in Stream /\ m.queue = <<>> BY <1>2, StreamFields
<1>4. socket' = [socket EXCEPT ![s] = r] BY <1>1
<1> HIDE DEF m
<1>5. n \in Stream /\ n.task = t /\ n.queue = <<>> BY <1>3, StreamFields
<1> HIDE DEF n
<1>6. r \in Stream /\ r.task = t /\ r.queue = <<>> BY <1>5, StreamFields
<1> HIDE DEF r
<1>7. Len(r.queue) <= Published(t)
  <2>1. Len(<<>>) = 0 OBVIOUS
  <2> QED BY <1>6, <2>1, PublishedType
<1>8. UNCHANGED <<registry, rows, job, canceller, store, objects, snapshotRows,
                  cacheIndex, cacheRows, withDatabase, history, activeGrants>>
  BY DEF Subscribe, memoryVars
<1> QED BY <1>4, <1>6, <1>7, <1>8, OneStream

LEMMA OpenStreamInv ==
  ASSUME InProcInv, NEW s \in Sockets, OpenStream(s)
  PROVE  InProcInv'
<1> DEFINE told == IF socket[s].replay THEN registry[socket[s].task].state
                   ELSE socket[s].told
           m == [socket[s] EXCEPT !.pc = "open"]
           r == [m EXCEPT !.told = told]
<1>1. socket[s] \in Stream /\ socket[s].pc = "subscribed" BY InvTypes DEF OpenStream
<1>2. PICK t \in Tasks : socket[s].task = t /\ Len(socket[s].queue) <= Published(t)
  BY <1>1 DEF InProcInv, QueuesShort
<1>3. told \in States \union {"nothing"}
  <2>1. registry[t].state \in States BY InvTypes DEF TaskRecord
  <2> QED BY <1>1, <1>2, <2>1 DEF Stream
<1>4. socket' = [socket EXCEPT ![s].pc = "open", ![s].told = told] BY DEF OpenStream
<1> HIDE DEF told
<1>5. socket' = [socket EXCEPT ![s] = r] BY <1>4, InvTypes
<1>6. m \in Stream /\ m.task = socket[s].task /\ m.queue = socket[s].queue BY <1>1, StreamFields
<1> HIDE DEF m
<1>7. r \in Stream /\ r.task = socket[s].task /\ r.queue = socket[s].queue BY <1>3, <1>6, StreamFields
<1> HIDE DEF r
<1>8. UNCHANGED <<registry, rows, job, canceller, store, objects, snapshotRows,
                  cacheIndex, cacheRows, withDatabase, history, activeGrants>>
  BY DEF OpenStream, memoryVars
<1> QED BY <1>2, <1>5, <1>7, <1>8, OneStream

LEMMA SendEventInv ==
  ASSUME InProcInv, NEW s \in Sockets, SendEvent(s)
  PROVE  InProcInv'
<1> DEFINE head == Head(socket[s].queue)
           tail == Tail(socket[s].queue)
           p == IF head \in Final THEN "closed" ELSE socket[s].pc
           m == [socket[s] EXCEPT !.told = head]
           n == [m EXCEPT !.queue = tail]
           r == [n EXCEPT !.pc = p]
<1>1. socket[s] \in Stream /\ socket[s].pc = "open" /\ socket[s].queue # <<>> BY InvTypes DEF SendEvent
<1>2. PICK t \in Tasks : socket[s].task = t /\ Len(socket[s].queue) <= Published(t)
  BY <1>1 DEF InProcInv, QueuesShort
<1>3. /\ head \in States /\ tail \in Seq(States)
      /\ Len(tail) <= Len(socket[s].queue)
      /\ Len(tail) \in Nat /\ Len(socket[s].queue) \in Nat
  <2>1. socket[s].queue \in Seq(States) BY <1>1 DEF Stream
  <2> QED BY <1>1, <2>1, HeadTailProperties, LenProperties
<1>4. socket' = [socket EXCEPT ![s].told = head, ![s].queue = tail, ![s].pc = p] BY DEF SendEvent
<1>5. p \in {"closed", "subscribed", "open"} BY <1>1
<1> HIDE DEF head, tail, p
<1>6. socket' = [socket EXCEPT ![s] = r] BY <1>4, InvTypes
<1>7. m \in Stream /\ m.task = socket[s].task BY <1>1, <1>3, StreamFields
<1> HIDE DEF m
<1>8. n \in Stream /\ n.task = socket[s].task /\ n.queue = tail BY <1>3, <1>7, StreamFields
<1> HIDE DEF n
<1>9. r \in Stream /\ r.task = socket[s].task /\ r.queue = tail BY <1>5, <1>8, StreamFields
<1> HIDE DEF r
<1>10. Len(r.queue) <= Published(t) BY <1>2, <1>3, <1>9, PublishedType
<1>11. UNCHANGED <<registry, rows, job, canceller, store, objects, snapshotRows,
                   cacheIndex, cacheRows, withDatabase, history, activeGrants>>
  BY DEF SendEvent, memoryVars
<1> QED BY <1>2, <1>6, <1>9, <1>10, <1>11, OneStream
----
(* A new task. *)

LEMMA PrepareInv ==
  ASSUME InProcInv, NEW t \in Tasks, NEW fields \in Requests, Prepare(t, fields)
  PROVE  InProcInv'
<1> DEFINE pending == Task("pending", NoSnapshot, FALSE)
           p == IF withDatabase THEN "save" ELSE "start"
           k == <<Min(activeGrants), fields>>
           result == [fields |-> fields, select |-> Selected(activeGrants)]
<1>1. /\ job[t].pc = "idle" /\ activeGrants # {}
      /\ registry' = [registry EXCEPT ![t] = pending]
      /\ history' = [history EXCEPT ![t].grants = activeGrants]
      /\ job' = [job EXCEPT ![t] = [pc |-> p, key |-> k, result |-> result,
                                    write |-> pending]]
  BY DEF Prepare, Mergeable, MergeGrants, QueryCacheKey, Selected
<1>2. UNCHANGED <<rows, canceller, store, cacheIndex, objects, snapshotRows, cacheRows,
                  socket, withDatabase, activeGrants>>
  BY DEF Prepare, memoryVars, tableVars
<1>3. result.fields = fields /\ result.select = Selected(activeGrants) OBVIOUS
<1>4. Undenied(result, activeGrants)
  <2> DEFINE allowed == UNION {Granted[g].allowed : g \in activeGrants}
             denied == UNION {Granted[g].denied : g \in activeGrants}
  <2>1. fields \subseteq allowed \ denied
    <3>1. fields \subseteq MergeGrants(activeGrants).fields BY DEF Prepare
    <3>2. MergeGrants(activeGrants)
            = [grant |-> Min(activeGrants), fields |-> allowed \ denied,
               select |-> UNION {Granted[g].select : g \in activeGrants}]
      BY Zenon DEF MergeGrants
    <3> HIDE DEF allowed, denied
    <3>3. MergeGrants(activeGrants).fields = allowed \ denied BY <3>2
    <3> QED BY <3>1, <3>3
  <2>2. ASSUME NEW g \in activeGrants PROVE Granted[g].denied \subseteq denied BY Zenon
  <2> HIDE DEF allowed, denied
  <2>3. \A g \in activeGrants : fields \intersect Granted[g].denied = {} BY <2>1, <2>2
  <2> QED BY <1>3, <2>3 DEF Undenied
<1>5. /\ pending \in TaskRecord /\ pending.state = "pending" /\ ~pending.hit BY TaskTypes DEF Task
<1>6. p \in {"save", "start"} /\ (p = "save" => withDatabase) OBVIOUS
<1> HIDE DEF pending, p, k, result
<1>7. /\ registry' \in [Tasks -> TaskRecord] /\ registry'[t] = pending
      /\ \A u \in Tasks \ {t} : registry'[u] = registry[u]
  BY <1>1, <1>5, InvTypes
<1>8. /\ history' \in [Tasks -> [outcomes : SUBSET Final, grants : SUBSET DOMAIN Granted]]
      /\ history'[t].grants = activeGrants
      /\ history'[t].outcomes = history[t].outcomes
      /\ \A u \in Tasks \ {t} : history'[u] = history[u]
  <2> DEFINE h == [history[t] EXCEPT !.grants = activeGrants]
  <2>1. history' = [history EXCEPT ![t] = h] BY <1>1, InvTypes
  <2>2. \A r \in [outcomes : SUBSET Final, grants : SUBSET DOMAIN Granted],
           a \in SUBSET DOMAIN Granted :
          /\ [r EXCEPT !.grants = a]
               \in [outcomes : SUBSET Final, grants : SUBSET DOMAIN Granted]
          /\ [r EXCEPT !.grants = a].grants = a
          /\ [r EXCEPT !.grants = a].outcomes = r.outcomes
    OBVIOUS
  <2>3. activeGrants \in SUBSET DOMAIN Granted BY DEF InProcInv, InProcTypes
  <2>4. /\ h \in [outcomes : SUBSET Final, grants : SUBSET DOMAIN Granted]
        /\ h.grants = activeGrants /\ h.outcomes = history[t].outcomes
    BY <2>2, <2>3, InvTypes
  <2> HIDE DEF h
  <2> QED BY <2>1, <2>4, InvTypes
<1>9. /\ job'[t].pc = p /\ job'[t].key = k /\ job'[t].result = result
      /\ job'[t].write = pending
      /\ \A u \in Tasks \ {t} : job'[u] = job[u]
      /\ TaskWorkers(job')
  <2>1. TaskWorkers(job) BY InvTypes
  <2>2. job = [u \in Tasks |-> job[u]] BY <2>1 DEF TaskWorkers
  <2>3. job'[t] = [pc |-> p, key |-> k, result |-> result, write |-> pending] BY <1>1, <2>2
  <2>4. \A u \in Tasks \ {t} : job'[u] = job[u] BY <1>1, <2>2
  <2>5. job' = [u \in Tasks |-> job'[u]] BY <1>1, <2>2
  <2>6. ASSUME NEW u \in Tasks
        PROVE  /\ job'[u] = [pc |-> job'[u].pc, key |-> job'[u].key,
                          result |-> job'[u].result, write |-> job'[u].write]
               /\ job'[u].write \in TaskRecord
    <3>1. CASE u = t BY <1>5, <2>3, <3>1
    <3>2. CASE u # t
      <4>1. /\ job[u] = [pc |-> job[u].pc, key |-> job[u].key,
                         result |-> job[u].result, write |-> job[u].write]
            /\ job[u].write \in TaskRecord
        BY <2>1 DEF TaskWorkers
      <4> QED BY <2>4, <3>2, <4>1
    <3> QED BY <3>1, <3>2
  <2>7. job' = [u \in Tasks |-> [pc |-> job'[u].pc, key |-> job'[u].key,
                                 result |-> job'[u].result, write |-> job'[u].write]]
    BY <2>5, <2>6
  <2>8. TaskWorkers(job') BY <2>6, <2>7 DEF TaskWorkers
  <2> QED BY <2>3, <2>4, <2>8
<1>10. t \notin Stored /\ \A s \in Stored : s \in Stored' BY <1>1, <1>9 DEF Stored
<1>11. Advance BY <1>2, <1>8, <1>10 DEF Advance, Stored
<1>12. ASSUME NEW u \in Tasks
       PROVE  RecordsGenuine(u)' /\ JobOrdered(u)' /\ job'[u].pc \in JobSteps
  <2>1. CASE u # t BY <1>2, <1>7, <1>8, <1>9, <1>11, <2>1, OthersSame, InvTypes
  <2>2. CASE u = t
    <3>1. /\ registry[t] = NoTask /\ rows[t] = NoTask
          /\ canceller[t] = Idle /\ history[t].outcomes = {}
      BY <1>1, InvTypes DEF JobOrdered
    <3>2. NoTask.state = "none" /\ ~NoTask.hit /\ Idle.write = NoTask BY DEF NoTask, Task, Idle
    <3>3. StillGenuine(t, pending) /\ StillGenuine(t, NoTask) BY <1>5, <3>2 DEF StillGenuine, Final
    <3>4. RecordsGenuine(t)' BY <1>2, <1>7, <1>9, <3>1, <3>2, <3>3
      DEF RecordsGenuine, Genuine, StillGenuine
    <3>5. JobOrdered(t)'
      <4>1. k = <<Min(activeGrants), result.fields>> BY <1>3 DEF k
      <4> QED BY <1>1, <1>2, <1>3, <1>4, <1>5, <1>6, <1>7, <1>8, <1>9, <3>1, <3>2, <4>1
        DEF JobOrdered
    <3>6. job'[t].pc \in JobSteps BY <1>6, <1>9 DEF JobSteps
    <3> QED BY <2>2, <3>4, <3>5, <3>6
  <2> QED BY <2>1, <2>2
<1>13. StoresBacked'
  <2>1. StoresBacked BY DEF InProcInv
  <2>2. \A s \in DOMAIN store :
          s \in Stored' /\ history'[s].grants = history[s].grants
    BY <1>2, <1>11, <2>1 DEF Advance, StoresBacked
  <2> QED BY <1>2, <2>1, <2>2 DEF StoresBacked, Serves
<1>14. QueuesShort'
  <2>1. \A u \in Tasks \ {t} : Published(u) = Published(u)' BY <1>2, <1>9 DEF Published
  <2>2. Published(t) = Published(t)' BY <1>1, <1>2, <1>6, <1>9 DEF Published
  <2>3. \A u \in Tasks : Published(u) <= Published(u)' BY <2>1, <2>2, PublishedType
  <2> QED BY <1>2, <2>3, InvTypes, QueuesUnpublished DEF InProcInv
<1>15. InProcTypes' BY <1>2, <1>7, <1>8, <1>9, <1>12 DEF InProcInv, InProcTypes, TaskWorkers
<1> QED BY <1>12, <1>13, <1>14, <1>15 DEF InProcInv

----
(* The start of a process. *)

LEMMA RestartApiInv ==
  ASSUME InProcInv, RestartApi
  PROVE  InProcInv'
<1>1. /\ withDatabase /\ withDatabase' = withDatabase
      /\ rows' = RecoverInflight(rows) /\ registry' = rows'
      /\ store' = [t \in snapshotRows |-> store[t]] /\ cacheIndex' = cacheRows
      /\ UNCHANGED <<activeGrants, objects, snapshotRows, cacheRows>>
  BY DEF RestartApi
<1>2. ASSUME NEW t \in Tasks
      PROVE  /\ rows'[t] \in TaskRecord /\ registry'[t] = rows'[t]
             /\ \/ rows[t].state \notin {"pending", "running"} /\ rows'[t] = rows[t]
                \/ /\ rows[t].state \in {"pending", "running"}
                   /\ rows'[t].state = "failed" /\ ~rows'[t].hit
  <2>1. CASE rows[t].state \in {"pending", "running"}
    <3>1. rows'[t] = [rows[t] EXCEPT !.state = "failed"] BY <1>1, <2>1 DEF RecoverInflight
    <3>2. \A r \in TaskRecord : /\ [r EXCEPT !.state = "failed"] \in TaskRecord
                               /\ [r EXCEPT !.state = "failed"].state = "failed"
                               /\ [r EXCEPT !.state = "failed"].hit = r.hit
      BY DEF TaskRecord, States, Final
    <3>3. ~rows[t].hit BY <2>1, InvTypes DEF RecordsGenuine, Genuine
    <3> QED BY <1>1, <2>1, <3>1, <3>2, <3>3, InvTypes
  <2>2. CASE rows[t].state \notin {"pending", "running"} BY <1>1, <2>2, InvTypes DEF RecoverInflight
  <2> QED BY <2>1, <2>2
<1>3. rows' \in [Tasks -> TaskRecord] /\ registry' \in [Tasks -> TaskRecord]
  BY <1>1, <1>2 DEF RecoverInflight
<1>4. ASSUME NEW t \in Tasks
      PROVE  /\ job'[t].write = NoTask
             /\ job'[t].pc = (IF history[t].grants = {} THEN "idle" ELSE "over")
             /\ job'[t].pc = "idle" => job'[t] = Idle
             /\ job'[t] = [pc |-> job'[t].pc, key |-> job'[t].key,
                           result |-> job'[t].result, write |-> job'[t].write]
  BY DEF RestartApi, Idle
<1>5. ASSUME NEW t \in Tasks
      PROVE  /\ canceller'[t].write = NoTask
             /\ canceller[t].pc = "idle" => canceller'[t] = Idle
             /\ canceller'[t] = [pc |-> canceller'[t].pc, key |-> canceller'[t].key,
                              result |-> canceller'[t].result, write |-> canceller'[t].write]
  BY DEF RestartApi, Idle
<1>6. TaskWorkers(job') /\ TaskWorkers(canceller')
  <2>1. job' = [t \in Tasks |-> job'[t]] /\ canceller' = [t \in Tasks |-> canceller'[t]] BY DEF RestartApi
  <2>2. job' = [t \in Tasks |-> [pc |-> job'[t].pc, key |-> job'[t].key,
                                 result |-> job'[t].result, write |-> job'[t].write]]
    BY <1>4, <2>1
  <2>3. canceller' = [t \in Tasks |-> [pc |-> canceller'[t].pc, key |-> canceller'[t].key,
                             result |-> canceller'[t].result, write |-> canceller'[t].write]]
    BY <1>5, <2>1
  <2>4. TaskWorkers(job') BY <1>4, <2>2, TaskTypes DEF TaskWorkers
  <2>5. TaskWorkers(canceller') BY <1>5, <2>3, TaskTypes DEF TaskWorkers
  <2> QED BY <2>4, <2>5
<1>7. ASSUME NEW t \in Tasks
      PROVE  /\ history'[t] \in [outcomes : SUBSET Final, grants : SUBSET DOMAIN Granted]
             /\ history'[t].grants = history[t].grants
             /\ history'[t].outcomes = history[t].outcomes \union ({rows'[t].state} \ {"none"})
  <2> DEFINE after == history[t].outcomes \union ({rows'[t].state} \ {"none"})
  <2>1. history'[t] = [history[t] EXCEPT !.outcomes = after] BY DEF RestartApi
  <2>2. rows'[t].state \in Final \union {"none"} BY <1>2, InvTypes DEF TaskRecord, States, Final
  <2>3. after \in SUBSET Final BY <2>2, InvTypes
  <2>4. \A r \in [outcomes : SUBSET Final, grants : SUBSET DOMAIN Granted],
           a \in SUBSET Final :
          /\ [r EXCEPT !.outcomes = a]
               \in [outcomes : SUBSET Final, grants : SUBSET DOMAIN Granted]
          /\ [r EXCEPT !.outcomes = a].grants = r.grants
          /\ [r EXCEPT !.outcomes = a].outcomes = a
    OBVIOUS
  <2> HIDE DEF after
  <2>5. /\ history'[t] \in [outcomes : SUBSET Final, grants : SUBSET DOMAIN Granted]
        /\ history'[t].grants = history[t].grants
        /\ history'[t].outcomes = after
    BY <2>1, <2>3, <2>4, InvTypes
  <2> QED BY <2>5 DEF after
<1>8. history' \in [Tasks -> [outcomes : SUBSET Final, grants : SUBSET DOMAIN Granted]]
  <2>1. history' = [t \in Tasks |-> history'[t]] BY DEF RestartApi
  <2> QED BY <1>7, <2>1
<1>9. StoresBacked BY DEF InProcInv
<1>10. Advance
  <2>1. ASSUME NEW s \in Stored
        PROVE  /\ s \in Stored' /\ history'[s].grants = history[s].grants
               /\ s \in DOMAIN store' => s \in DOMAIN store /\ store'[s] = store[s]
    <3>1. s \in Tasks /\ job[s].pc # "idle" BY DEF Stored
    <3>2. history[s].grants # {} BY <3>1, InvTypes DEF JobOrdered
    <3>3. s \in Stored' BY <1>4, <3>1, <3>2 DEF Stored
    <3> QED BY <1>1, <1>7, <1>9, <3>1, <3>3 DEF StoresBacked
  <2>2. \A u \in Tasks : history[u].outcomes \subseteq history'[u].outcomes BY <1>7
  <2> QED BY <2>1, <2>2 DEF Advance
<1>11. ASSUME NEW t \in Tasks
       PROVE  RecordsGenuine(t)' /\ JobOrdered(t)' /\ job'[t].pc \in JobSteps
  <2>1. NoTask.state = "none" /\ ~NoTask.hit /\ Idle.pc = "idle" BY DEF NoTask, Task, Idle
  <2>2. StillGenuine(t, NoTask) BY <2>1 DEF StillGenuine, Final
  <2>3. StillGenuine(t, rows'[t])
    <3>1. CASE rows[t].state \in {"pending", "running"} BY <1>2, <1>7, <3>1 DEF StillGenuine
    <3>2. CASE rows[t].state \notin {"pending", "running"}
      <4>1. rows'[t] = rows[t] /\ Genuine(t, rows[t]) BY <1>2, <3>2, InvTypes DEF RecordsGenuine
      <4>2. StillGenuine(t, rows[t]) BY <1>7, <1>10, <4>1, GenuineKept
      <4> QED BY <4>1, <4>2
    <3> QED BY <3>1, <3>2
  <2>4. RecordsGenuine(t)' BY <1>2, <1>4, <1>5, <2>2, <2>3 DEF RecordsGenuine, Genuine, StillGenuine
  <2>5. ASSUME history[t].grants = {}
        PROVE  /\ registry'[t] = NoTask /\ rows'[t] = NoTask
               /\ history'[t].outcomes = {}
               /\ job'[t] = Idle /\ canceller'[t] = Idle
    <3>1. /\ rows[t] = NoTask /\ history[t].outcomes = {} /\ canceller[t] = Idle
      BY <2>5, InvTypes DEF JobOrdered
    <3>2. rows'[t] = NoTask BY <1>2, <2>1, <3>1
    <3> QED BY <1>2, <1>4, <1>5, <1>7, <2>1, <2>5, <3>1, <3>2
  <2>6. JobOrdered(t)' BY <1>1, <1>4, <1>7, <2>5 DEF JobOrdered
  <2> QED BY <1>4, <2>4, <2>6 DEF JobSteps
<1>12. StoresBacked'
  <2>1. /\ DOMAIN store' = snapshotRows
        /\ \A s \in snapshotRows :
             /\ s \in DOMAIN store /\ s \in objects /\ store'[s] = store[s]
             /\ s \in Stored' /\ history'[s].grants = history[s].grants
    BY <1>1, <1>9, <1>10 DEF Advance, StoresBacked
  <2>2. \A key \in DOMAIN cacheRows :
          Serves(key, cacheRows[key]) /\ cacheRows[key] \in snapshotRows
    BY <1>9 DEF StoresBacked
  <2> QED BY <1>1, <1>9, <2>1, <2>2 DEF StoresBacked, Serves
<1>13. QueuesShort' /\ socket' \in [Sockets -> Stream]
  <2>1. Closed \in Stream /\ Closed.pc = "closed" /\ Closed.queue = <<>> BY DEF Closed, Stream
  <2>2. socket' = [s \in Sockets |-> Closed] BY DEF RestartApi
  <2> QED BY <2>1, <2>2 DEF QueuesShort
<1>14. InProcTypes' BY <1>1, <1>3, <1>6, <1>8, <1>11, <1>13 DEF InProcInv, InProcTypes, TaskWorkers
<1> QED BY <1>11, <1>12, <1>13, <1>14 DEF InProcInv

----
(* The invariant. *)

LEMMA InProcInitInv == InProcInit => InProcInv
<1> SUFFICES ASSUME InProcInit PROVE InProcInv OBVIOUS
<1>1. /\ NoTask \in TaskRecord /\ NoTask.state = "none" /\ ~NoTask.hit
      /\ Idle.pc = "idle" /\ Idle.write = NoTask
      /\ Idle = [pc |-> Idle.pc, key |-> Idle.key, result |-> Idle.result,
                 write |-> Idle.write]
  BY TaskTypes DEF NoTask, Task, Idle
<1>2. \A t \in Tasks :
        /\ registry[t] = NoTask /\ rows[t] = NoTask /\ job[t] = Idle
        /\ canceller[t] = Idle
        /\ history[t].outcomes = {} /\ history[t].grants = {}
  BY DEF InProcInit
<1>3. \A t \in Tasks : Genuine(t, NoTask) BY <1>1 DEF Genuine, Final
<1>4. \A t \in Tasks : RecordsGenuine(t) BY <1>1, <1>2, <1>3 DEF RecordsGenuine
<1>5. \A t \in Tasks : JobOrdered(t) BY <1>1, <1>2 DEF JobOrdered
<1>6. DOMAIN store = {} /\ DOMAIN cacheIndex = {} /\ DOMAIN cacheRows = {}
      /\ snapshotRows = {}
  BY DEF InProcInit
<1>7. StoresBacked BY <1>6 DEF StoresBacked
<1>8. Closed \in Stream /\ Closed.pc = "closed" /\ Closed.queue = <<>> BY DEF Closed, Stream
<1>9. QueuesShort BY <1>8 DEF InProcInit, QueuesShort
<1>10. TaskWorkers(job) /\ TaskWorkers(canceller) BY <1>1 DEF InProcInit, TaskWorkers
<1>11. InProcTypes BY <1>1, <1>8, <1>10 DEF InProcInit, InProcTypes, JobSteps
<1> QED BY <1>4, <1>5, <1>7, <1>9, <1>11 DEF InProcInv

LEMMA InProcNextInv == InProcInv /\ [InProcNext]_queryVars => InProcInv'
<1> SUFFICES ASSUME InProcInv, [InProcNext]_queryVars PROVE InProcInv' OBVIOUS
<1>1. ASSUME NEW t \in Tasks, NEW fields \in Requests, Prepare(t, fields)
      PROVE  InProcInv'
  BY <1>1, PrepareInv
<1>2. ASSUME NEW t \in Tasks, JobStep(t) PROVE InProcInv'
  <2>1. CASE SaveTask(t) BY <2>1, SaveTaskInv
  <2>2. CASE Start(t) BY <2>2, StartInv
  <2>3. CASE WriteState(t) BY <2>3, WriteStateInv
  <2>4. CASE RunQueryTask(t) BY <2>4, RunQueryTaskInv
  <2>5. CASE ExecuteQuery(t) BY <2>5, ExecuteQueryInv
  <2>6. CASE QueryFails(t) BY <2>6, QueryFailsInv
  <2>7. CASE StoreObject(t) BY <2>7, StoreObjectInv
  <2>8. CASE SaveSnapshot(t) BY <2>8, SaveSnapshotInv
  <2>9. CASE SaveCacheEntry(t) BY <2>9, SaveCacheEntryInv
  <2> QED BY <1>2, <2>1, <2>2, <2>3, <2>4, <2>5, <2>6, <2>7, <2>8, <2>9 DEF JobStep
<1>3. ASSUME NEW t \in Tasks, AskCancel(t) \/ CancelStep(t) PROVE InProcInv'
  BY <1>3, AskCancelInv, SignalSchedulerInv, WriteCancelledInv DEF CancelStep
<1>4. ASSUME NEW s \in Sockets, SocketStep(s) \/ \E t \in Tasks : Subscribe(s, t)
      PROVE  InProcInv'
  BY <1>4, OpenStreamInv, SendEventInv, SubscribeInv DEF SocketStep
<1>5. CASE \E g \in DOMAIN Granted : GrantChanges(g) BY <1>5, GrantChangesInv
<1>6. CASE RestartApi BY <1>6, RestartApiInv
<1>7. CASE UNCHANGED queryVars BY <1>7, UnchangedInv
<1> QED BY <1>1, <1>2, <1>3, <1>4, <1>5, <1>6, <1>7 DEF InProcNext

\* The registry, the rows, the tasks' jobs and the stores agree in every
\* state: what InProcInv says of run_query_task and its tables holds.
THEOREM InvariantHolds == InProcSpec => []InProcInv
BY InProcInitInv, InProcNextInv, PTL DEF InProcSpec
----
(* Genuine results. *)

LEMMA InvGenuine == InProcInv => ResultsGenuine
<1> SUFFICES ASSUME InProcInv PROVE ResultsGenuine OBVIOUS
<1>1. StoresBacked BY DEF InProcInv
<1>2. ASSUME NEW t \in Tasks, registry[t].state = "completed"
      PROVE  /\ registry[t].snapshot \in Tasks
             /\ Min(history[registry[t].snapshot].grants) = Min(history[t].grants)
             /\ registry[t].snapshot \in DOMAIN store =>
                  Undenied(store[registry[t].snapshot], history[t].grants)
  BY <1>2, InvTypes DEF RecordsGenuine, Genuine, Stored
<1>3. InProcTypeOK
  <2>1. ASSUME NEW s \in Sockets PROVE Len(socket[s].queue) < 16
    <3>1. CASE socket[s].queue = <<>> BY <3>1
    <3>2. ASSUME NEW t \in Tasks, Len(socket[s].queue) <= Published(t)
          PROVE  Len(socket[s].queue) < 16
      <4>1. Published(t) <= 3
        <5>1. (CASE job[t].pc \in {"idle", "save", "start"} -> 0
                 [] job[t].pc \in {"write", "spawn", "execute", "object"} -> 1
                 [] OTHER -> 2) \in 0..2
          OBVIOUS
        <5> QED BY <5>1 DEF Published
      <4>2. Len(socket[s].queue) \in Nat
        <5>1. socket[s].queue \in Seq(States) BY InvTypes DEF Stream
        <5> QED BY <5>1, LenProperties
      <4> QED BY <3>2, <4>1, <4>2, PublishedType
    <3> QED BY <3>1, <3>2 DEF InProcInv, QueuesShort
  <2>2. ASSUME NEW t \in Tasks
        PROVE  /\ registry[t].state \in Final \union {"none", "pending", "running"}
               /\ registry[t].hit => registry[t].state = "completed" /\ registry[t].snapshot # t
               /\ rows[t].state # "none" => withDatabase
               /\ job[t].pc \in JobSteps
    BY InvTypes DEF TaskRecord, States, RecordsGenuine, Genuine, JobOrdered
  <2>3. snapshotRows \subseteq objects BY <1>1 DEF StoresBacked
  <2>4. activeGrants \subseteq DOMAIN Granted BY DEF InProcInv, InProcTypes
  <2> QED BY <1>2, <2>1, <2>2, <2>3, <2>4 DEF InProcTypeOK
<1>4. CacheIsBacked
  <2>1. ASSUME NEW key \in DOMAIN cacheIndex
        PROVE  /\ cacheIndex[key] \in DOMAIN store /\ cacheIndex[key] \in objects
               /\ store[cacheIndex[key]].fields = key[2]
    BY <1>1 DEF StoresBacked, Serves
  <2> QED BY <2>1 DEF CacheIsBacked
<1>5. ResultsAuthorised
  <2> SUFFICES ASSUME NEW t \in Tasks, NEW s, s = registry[t].snapshot,
                      registry[t].state = "completed", s \in DOMAIN store
               PROVE  /\ \A g \in history[t].grants :
                           store[s].fields \intersect Granted[g].denied = {}
                      /\ Min(history[s].grants) = Min(history[t].grants)
                      /\ store[s].select = UNION {Granted[g].select : g \in history[s].grants}
    BY Zenon DEF ResultsAuthorised
  <2>1. \A g \in history[t].grants : store[s].fields \intersect Granted[g].denied = {}
    BY <1>2 DEF Undenied
  <2>2. Min(history[s].grants) = Min(history[t].grants) BY <1>2
  <2>3. store[s].select = Selected(history[s].grants) BY <1>1 DEF StoresBacked
  <2>4. store[s].select = UNION {Granted[g].select : g \in history[s].grants} BY <2>3, Zenon DEF Selected
  <2> QED BY <2>1, <2>2, <2>4
<1> QED BY <1>3, <1>4, <1>5 DEF ResultsGenuine

\* What the cache opens, and what a completed task shows, is a stored result
\* whose fields no grant of its query denied (run_query_task, build_cache_key).
THEOREM ResultsGenuineHolds == InProcSpec => []ResultsGenuine
BY InvariantHolds, InvGenuine, PTL

----
(* The promise of the registry. *)

\* A task becomes what an update makes of it.
LEMMA Becoming ==
  ASSUME InProcInv, NEW t \in Tasks, NEW task \in TaskRecord, Update(t, task)
  PROVE  Promise!Becomes(t, task.state)
<1>1. /\ registry' \in [Tasks -> TaskRecord] /\ registry'[t] = task
      /\ history'[t].outcomes = history[t].outcomes \union ({task.state} \intersect Final)
      /\ \A u \in Tasks \ {t} :
           registry'[u] = registry[u] /\ history'[u] = history[u]
  BY UpdateFacts DEF InProcInv
<1>2. [u \in Tasks |-> registry'[u].state]
        = [[u \in Tasks |-> registry[u].state] EXCEPT ![t] = task.state]
  BY <1>1
<1>3. [u \in Tasks |-> history'[u].outcomes]
        = [[u \in Tasks |-> history[u].outcomes] EXCEPT ![t] =
             IF task.state \in Final THEN @ \union {task.state} ELSE @]
  BY <1>1
<1> QED BY <1>2, <1>3 DEF Promise!Becomes, Promise!Final, Final

LEMMA Stutters ==
  ASSUME UNCHANGED <<registry, history>>
  PROVE  UNCHANGED <<[t \in Tasks |-> registry[t].state],
                     [t \in Tasks |-> history[t].outcomes]>>
OBVIOUS

LEMMA PrepareSubmits ==
  ASSUME InProcInv, NEW t \in Tasks, NEW fields \in Requests, Prepare(t, fields)
  PROVE  Promise!Submit(t)
<1> DEFINE pending == Task("pending", NoSnapshot, FALSE)
<1>1. pending.state = "pending" BY DEF Task
<1>2. /\ registry[t].state = "none"
      /\ registry' = [registry EXCEPT ![t] = pending]
      /\ history' = [history EXCEPT ![t].grants = activeGrants]
  BY DEF Prepare
<1> HIDE DEF pending
<1>3. \A u \in Tasks : history'[u].outcomes = history[u].outcomes
  <2>1. \A r \in [outcomes : SUBSET Final, grants : SUBSET DOMAIN Granted] :
          [r EXCEPT !.grants = activeGrants].outcomes = r.outcomes
    OBVIOUS
  <2> QED BY <1>2, <2>1, InvTypes
<1>4. [u \in Tasks |-> registry'[u].state]
        = [[u \in Tasks |-> registry[u].state] EXCEPT ![t] = "pending"]
  BY <1>1, <1>2, InvTypes
<1>5. [u \in Tasks |-> history'[u].outcomes]
        = [[u \in Tasks |-> history[u].outcomes] EXCEPT ![t] = @]
  BY <1>3
<1>6. Promise!Becomes(t, "pending") BY <1>4, <1>5 DEF Promise!Becomes, Promise!Final
<1> QED BY <1>2, <1>6 DEF Promise!Submit

\* A failure of a query that is in flight, whether or not it was cancelled.
LEMMA FailureFinishes ==
  ASSUME InProcInv, NEW t \in Tasks, MarkFailed(t),
         registry[t].state \in {"pending", "running", "cancelled"}
  PROVE  Promise!Finish(t)
<1> DEFINE task == [registry[t] EXCEPT !.state = "failed"]
<1>1. Update(t, task) BY DEF MarkFailed
<1>2. task \in TaskRecord /\ task.state = "failed" BY <1>1, EndedTask DEF States, Final
<1> HIDE DEF task
<1>3. Promise!Becomes(t, "failed") BY <1>1, <1>2, Becoming
<1> QED BY <1>3 DEF Promise!Finish

LEMMA CompletionFinishes ==
  ASSUME InProcInv, NEW t \in Tasks, NEW s \in Tasks, NEW hit \in BOOLEAN,
         MarkCompleted(t, s, hit),
         registry[t].state \in {"pending", "running", "cancelled"}
  PROVE  Promise!Finish(t)
<1> DEFINE task == Task("completed", s, hit)
<1>1. Update(t, task) BY DEF MarkCompleted
<1>2. task \in TaskRecord /\ task.state = "completed" BY TaskTypes DEF Task
<1> HIDE DEF task
<1>3. Promise!Becomes(t, "completed") BY <1>1, <1>2, Becoming
<1> QED BY <1>3 DEF Promise!Finish

LEMMA CancellationCancels ==
  ASSUME InProcInv, NEW t \in Tasks, CancelTask(t),
         registry[t].state \in {"pending", "running"}
  PROVE  Promise!Cancel(t)
<1> DEFINE task == [registry[t] EXCEPT !.state = "cancelled"]
<1>1. Update(t, task) BY DEF CancelTask
<1>2. task \in TaskRecord /\ task.state = "cancelled" BY <1>1, EndedTask DEF States, Final
<1> HIDE DEF task
<1>3. Promise!Becomes(t, "cancelled") BY <1>1, <1>2, Becoming
<1> QED BY <1>3 DEF Promise!Cancel

\* To cancel a cancelled task again changes nothing the promise speaks of.
LEMMA CancelledAgain ==
  ASSUME InProcInv, NEW t \in Tasks, CancelTask(t), registry[t].state = "cancelled"
  PROVE  UNCHANGED <<[u \in Tasks |-> registry[u].state],
                     [u \in Tasks |-> history[u].outcomes]>>
<1> DEFINE task == [registry[t] EXCEPT !.state = "cancelled"]
<1>1. Update(t, task) BY DEF CancelTask
<1>2. task \in TaskRecord /\ task.state = "cancelled" BY <1>1, EndedTask DEF States, Final
<1> HIDE DEF task
<1>3. "cancelled" \in history[t].outcomes BY InvTypes DEF RecordsGenuine, Genuine, Final
<1>4. /\ registry'[t] = task
      /\ history'[t].outcomes = history[t].outcomes \union ({task.state} \intersect Final)
      /\ \A u \in Tasks \ {t} :
           registry'[u] = registry[u] /\ history'[u] = history[u]
  BY <1>1, <1>2, UpdateFacts DEF InProcInv
<1>5. history'[t].outcomes = history[t].outcomes BY <1>2, <1>3, <1>4
<1> QED BY <1>2, <1>4, <1>5

LEMMA RestartRestarts ==
  ASSUME InProcInv, RestartApi
  PROVE  Promise!Restart
<1> DEFINE after == [t \in Tasks |-> rows'[t].state]
<1>1. registry' = rows' /\ rows' = RecoverInflight(rows) BY DEF RestartApi
<1>2. ASSUME NEW t \in Tasks
      PROVE  /\ rows'[t].state \in Final \union {"none"}
             /\ rows'[t].state \in {"none", "failed"} \union history[t].outcomes
  <2>1. CASE rows[t].state \in {"pending", "running"}
    <3>1. rows'[t] = [rows[t] EXCEPT !.state = "failed"] BY <1>1, <2>1 DEF RecoverInflight
    <3>2. \A r \in TaskRecord : [r EXCEPT !.state = "failed"].state = "failed" BY DEF TaskRecord
    <3>3. rows'[t].state = "failed" BY <3>1, <3>2, InvTypes
    <3> QED BY <3>3 DEF Final
  <2>2. CASE rows[t].state \notin {"pending", "running"}
    <3>1. rows'[t] = rows[t] BY <1>1, <2>2 DEF RecoverInflight
    <3>2. rows[t].state \in Final \union {"none"} BY <2>2, InvTypes DEF TaskRecord, States
    <3>3. rows[t].state \in Final => rows[t].state \in history[t].outcomes
      BY InvTypes DEF RecordsGenuine, Genuine
    <3> QED BY <3>1, <3>2, <3>3
  <2> QED BY <2>1, <2>2
<1>3. after \in [Tasks -> Promise!Final \union {"none"}] BY <1>2 DEF Promise!Final, Final
<1>4. \A t \in Tasks :
        after[t] \in {"none", "failed"} \union [u \in Tasks |-> history[u].outcomes][t]
  BY <1>2
<1>5. [t \in Tasks |-> registry'[t].state] = after BY <1>1
<1>6. [t \in Tasks |-> history'[t].outcomes]
        = [t \in Tasks |-> [u \in Tasks |-> history[u].outcomes][t]
                             \union ({after[t]} \ {"none"})]
  <2>1. ASSUME NEW t \in Tasks
        PROVE  history'[t].outcomes = history[t].outcomes \union ({rows'[t].state} \ {"none"})
    <3>1. history'[t] = [history[t] EXCEPT !.outcomes = @ \union ({rows'[t].state} \ {"none"})]
      BY DEF RestartApi
    <3>2. \A a : \A r \in [outcomes : SUBSET Final, grants : SUBSET DOMAIN Granted] :
            [r EXCEPT !.outcomes = a].outcomes = a
      OBVIOUS
    <3> QED BY <3>1, <3>2, InvTypes
  <2> QED BY <2>1
<1> QED BY <1>3, <1>4, <1>5, <1>6 DEF Promise!Restart

LEMMA InitPromises == InProcInit => Promise!Init
BY DEF InProcInit, Promise!Init, NoTask, Task

LEMMA StepPromises ==
  InProcInv /\ [InProcNext]_queryVars
    => [Promise!Next]_<<[t \in Tasks |-> registry[t].state],
                        [t \in Tasks |-> history[t].outcomes]>>
<1> DEFINE vars == <<[t \in Tasks |-> registry[t].state],
                     [t \in Tasks |-> history[t].outcomes]>>
<1> SUFFICES ASSUME InProcInv, [InProcNext]_queryVars
             PROVE  Promise!Next \/ UNCHANGED vars
  OBVIOUS
<1>1. ASSUME NEW t \in Tasks, NEW fields \in Requests, Prepare(t, fields)
      PROVE  Promise!Next
  BY <1>1, PrepareSubmits DEF Promise!Next
<1>2. ASSUME NEW t \in Tasks, JobStep(t) PROVE Promise!Next \/ UNCHANGED vars
  <2>1. CASE SaveTask(t) \/ WriteState(t) \/ RunQueryTask(t) \/ ExecuteQuery(t)
               \/ SaveSnapshot(t) \/ SaveCacheEntry(t)
    <3>1. UNCHANGED <<registry, history>>
      BY <2>1 DEF SaveTask, WriteState, RunQueryTask, ExecuteQuery, SaveSnapshot,
                  SaveCacheEntry
    <3> QED BY <3>1, Stutters
  <2>2. CASE Start(t)
    <3>1. registry[t].state \in {"pending", "cancelled"} /\ job[t].pc = "start"
      BY <2>2, InvTypes DEF Start, JobOrdered
    <3>2. CASE job[t].key \in DOMAIN cacheIndex
      <4>1. MarkCompleted(t, cacheIndex[job[t].key], TRUE) BY <2>2, <3>2 DEF Start
      <4>2. cacheIndex[job[t].key] \in Tasks BY <3>2 DEF InProcInv, StoresBacked, Serves, Stored
      <4> QED BY <3>1, <4>1, <4>2, CompletionFinishes DEF Promise!Next
    <3>3. CASE job[t].key \notin DOMAIN cacheIndex
      <4> DEFINE task == [registry[t] EXCEPT !.state = "running"]
      <4>1. Update(t, task) BY <2>2, <3>3 DEF Start, MarkRunning
      <4>2. task \in TaskRecord /\ task.state = "running" BY <3>1, <4>1, EndedTask DEF States, Final
      <4> HIDE DEF task
      <4>3. Promise!Becomes(t, "running") BY <4>1, <4>2, Becoming
      <4> QED BY <3>1, <4>3 DEF Promise!Start, Promise!Next
    <3> QED BY <3>2, <3>3
  <2>3. CASE QueryFails(t)
    <3>1. registry[t].state \in {"running", "cancelled"} BY <2>3, InvTypes DEF QueryFails, JobOrdered
    <3>2. CASE MarkFailed(t) BY <3>1, <3>2, FailureFinishes DEF Promise!Next
    <3>3. CASE CancelTask(t) BY <3>1, <3>3, CancellationCancels, CancelledAgain DEF Promise!Next
    <3> QED BY <2>3, <3>2, <3>3 DEF QueryFails
  <2>4. CASE StoreObject(t)
    <3>1. registry[t].state \in {"running", "cancelled"} BY <2>4, InvTypes DEF StoreObject, JobOrdered
    <3>2. CASE MarkFailed(t) BY <3>1, <3>2, FailureFinishes DEF Promise!Next
    <3>3. CASE MarkCompleted(t, t, FALSE) BY <3>1, <3>3, CompletionFinishes DEF Promise!Next
    <3> QED BY <2>4, <3>2, <3>3 DEF StoreObject
  <2> QED BY <1>2, <2>1, <2>2, <2>3, <2>4 DEF JobStep
<1>3. ASSUME NEW t \in Tasks, AskCancel(t) PROVE Promise!Next
  BY <1>3, CancellationCancels DEF AskCancel, Promise!Next
<1>4. ASSUME NEW t \in Tasks, CancelStep(t) PROVE UNCHANGED vars
  <2>1. UNCHANGED <<registry, history>> BY <1>4 DEF CancelStep, SignalScheduler, WriteCancelled
  <2> QED BY <2>1, Stutters
<1>5. ASSUME NEW s \in Sockets, SocketStep(s) \/ \E t \in Tasks : Subscribe(s, t)
      PROVE  UNCHANGED vars
  <2>1. UNCHANGED <<registry, history>> BY <1>5 DEF SocketStep, OpenStream, SendEvent, Subscribe
  <2> QED BY <2>1, Stutters
<1>6. ASSUME NEW g \in DOMAIN Granted, GrantChanges(g) PROVE UNCHANGED vars
  <2>1. UNCHANGED <<registry, history>> BY <1>6 DEF GrantChanges
  <2> QED BY <2>1, Stutters
<1>7. CASE RestartApi BY <1>7, RestartRestarts DEF Promise!Next
<1>8. CASE UNCHANGED queryVars
  <2>1. UNCHANGED <<registry, history>> BY <1>8 DEF queryVars
  <2> QED BY <2>1, Stutters
<1> QED BY <1>1, <1>2, <1>3, <1>4, <1>5, <1>6, <1>7, <1>8 DEF InProcNext

\* The registry implements the safety part of the promise: completed and
\* failed are never replaced, and a restart reports only what has been
\* (QueryTaskRegistry::update, recover_inflight_query_tasks).
THEOREM RegistryKeepsPromise == InProcSpec => Promise!Safety
<1>1. InProcSpec => []InProcInv BY InvariantHolds
<1>2. InProcSpec => Promise!Init BY InitPromises DEF InProcSpec
<1>3. InProcSpec => [][Promise!Next]_<<[t \in Tasks |-> registry[t].state],
                                       [t \in Tasks |-> history[t].outcomes]>>
  BY <1>1, StepPromises, PTL DEF InProcSpec
<1> QED BY <1>2, <1>3, PTL DEF Promise!Safety

----
(* Saved analyses: the invariant. *)

Wishes == {"none", "private", "published", "gone"}

\* A handler that is past its save, or works on a template that was there
\* before, works on one its owner has asked something of.
HandlersKnown ==
  \A h \in DOMAIN handler :
    handler[h].pc = "memory" \/ handler[h].op # "create" => asked[handler[h].id] # "none"

TemplatesTyped ==
  /\ TemplatesTypeOK
  /\ asked \in [Templates -> Wishes]
  /\ HandlersKnown

\* In the table a template is as public as its owner wishes.
RowAsAsked(t) ==
  t \in DOMAIN templateRows => (templateRows[t].visibility = "published" <=> asked[t] = "published")

Agree(t) ==
  /\ t \in DOMAIN templates <=> t \in DOMAIN templateRows
  /\ t \in DOMAIN templates => templates[t] = templateRows[t]

\* The copy that the only handler of a template is about to save.
CopyFollows(x) ==
  /\ x.op \in {"create", "unpublish"} => x.copy.visibility = "private"
  /\ x.op = "publish" => x.copy.visibility = "published"
  /\ x.op = "update" => /\ x.id \in DOMAIN templateRows
                        /\ x.copy.visibility = templateRows[x.id].visibility

\* What the only handler of a template has still to put into memory is what it
\* saved.
SavedFollows(x) ==
  /\ x.op = "delete" => x.id \notin DOMAIN templateRows
  /\ x.op # "delete" => x.id \in DOMAIN templateRows /\ templateRows[x.id] = x.copy

AloneFits(t) ==
  /\ \A g, h \in Busy(t) : g = h
  /\ RowAsAsked(t)
  /\ Busy(t) = {} => Agree(t)
  /\ \A h \in Busy(t) :
       /\ handler[h].pc = "save" => Agree(t) /\ CopyFollows(handler[h])
       /\ handler[h].pc = "memory" => SavedFollows(handler[h])

TemplatesInv ==
  /\ TemplatesTyped
  /\ \A t \in Templates \ contended : AloneFits(t)

LEMMA TemplatesInitHolds == TemplatesInit => TemplatesInv
<1> SUFFICES ASSUME TemplatesInit PROVE TemplatesInv OBVIOUS
<1>1. /\ DOMAIN templates = {} /\ DOMAIN templateRows = {} /\ DOMAIN handler = {}
      /\ asked = [t \in Templates |-> "none"]
  BY DEF TemplatesInit
<1>2. TemplatesTyped BY <1>1 DEF TemplatesTyped, TemplatesTypeOK, HandlersKnown, Wishes
<1>3. \A t \in Templates : Busy(t) = {} BY <1>1 DEF Busy
<1> QED BY <1>1, <1>2, <1>3 DEF TemplatesInv, AloneFits, RowAsAsked, Agree

\* A template that no step touches, and whose handlers it leaves alone.
LEMMA OthersAlone ==
  ASSUME NEW t \in Templates, AloneFits(t), Busy(t)' = Busy(t),
         \A h \in Busy(t) : handler'[h] = handler[h],
         t \in DOMAIN templates' <=> t \in DOMAIN templates,
         t \in DOMAIN templates => templates'[t] = templates[t],
         t \in DOMAIN templateRows' <=> t \in DOMAIN templateRows,
         t \in DOMAIN templateRows => templateRows'[t] = templateRows[t],
         asked'[t] = asked[t]
  PROVE  AloneFits(t)'
<1>1. RowAsAsked(t)' /\ (Agree(t) => Agree(t)') BY DEF AloneFits, RowAsAsked, Agree
<1>2. ASSUME NEW h \in Busy(t)
      PROVE  /\ handler'[h].pc = "save" => Agree(t)' /\ CopyFollows(handler[h])'
             /\ handler'[h].pc = "memory" => SavedFollows(handler[h])'
  <2>1. handler'[h] = handler[h] /\ handler[h].id = t BY <1>2 DEF Busy
  <2>2. CopyFollows(handler[h]) => CopyFollows(handler[h])' BY <2>1 DEF CopyFollows
  <2>3. SavedFollows(handler[h]) => SavedFollows(handler[h])' BY <2>1 DEF SavedFollows
  <2> QED BY <1>1, <1>2, <2>1, <2>2, <2>3 DEF AloneFits
<1> QED BY <1>1, <1>2 DEF AloneFits

----
(* Saved analyses: a handler begins. *)

LEMMA HandleKeeps ==
  ASSUME TemplatesInv, NEW h \in TemplateRequests, NEW t \in Templates, NEW copy \in Template,
         NEW op \in {"create", "update", "publish", "unpublish", "delete"},
         Handle(h, op, t, copy),
         op # "create" => asked[t] # "none",
         t \notin contended /\ Busy(t) = {} =>
           CopyFollows([pc |-> "save", op |-> op, id |-> t, copy |-> copy])
  PROVE  TemplatesInv'
<1> DEFINE x == [pc |-> "save", op |-> op, id |-> t, copy |-> copy]
<1>1. /\ h \notin DOMAIN handler /\ handler' = Inserted(handler, h, x)
      /\ contended' = IF Busy(t) # {} THEN contended \union {t} ELSE contended
      /\ UNCHANGED <<templates, templateRows, asked>>
  BY DEF Handle
<1>2. /\ DOMAIN handler' = DOMAIN handler \union {h} /\ handler'[h] = x
      /\ \A g \in DOMAIN handler : handler'[g] = handler[g]
  BY <1>1 DEF Inserted
<1>3. x \in Handling BY DEF Handling
<1>4. TemplatesTyped' BY <1>1, <1>2, <1>3 DEF TemplatesInv, TemplatesTyped, TemplatesTypeOK, HandlersKnown
<1>5. \A s \in Templates : Busy(s)' = IF s = t THEN Busy(s) \union {h} ELSE Busy(s) BY <1>2 DEF Busy
<1>6. ASSUME NEW s \in Templates \ contended' PROVE AloneFits(s)'
  <2>1. s \notin contended /\ AloneFits(s) BY <1>1, <1>6 DEF TemplatesInv
  <2>2. CASE s # t BY <1>1, <1>2, <1>5, <2>1, <2>2, OthersAlone DEF Busy
  <2>3. CASE s = t
    <3>1. Busy(t) = {} /\ Busy(t)' = {h} BY <1>1, <1>5, <1>6, <2>3
    <3>2. Agree(t) /\ RowAsAsked(t) BY <2>1, <2>3, <3>1 DEF AloneFits
    <3>3. Agree(t)' /\ RowAsAsked(t)' BY <1>1, <3>2 DEF Agree, RowAsAsked
    <3>4. CopyFollows(x) BY <2>1, <2>3, <3>1
    <3>5. CopyFollows(handler[h])' BY <1>1, <1>2, <3>4 DEF CopyFollows
    <3> QED BY <1>2, <2>3, <3>1, <3>3, <3>5 DEF AloneFits
  <2> QED BY <2>2, <2>3
<1> QED BY <1>4, <1>6 DEF TemplatesInv

\* The owner's template, as a handler copies it.
LEMMA OwnedCopy ==
  ASSUME TemplatesInv, NEW u, NEW t, Owns(u, t)
  PROVE  /\ t \in Templates /\ templates[t] \in Template /\ asked[t] # "none"
         /\ t \notin contended /\ Busy(t) = {} =>
              t \in DOMAIN templateRows /\ templateRows[t] = templates[t]
<1>1. t \in DOMAIN templates BY DEF Owns
<1> QED BY <1>1 DEF TemplatesInv, TemplatesTyped, TemplatesTypeOK, AloneFits, Agree

LEMMA BeginKeeps ==
  ASSUME TemplatesInv, NEW h \in TemplateRequests, NEW u \in Authors, NEW t \in Templates,
         \/ \E fields \in SUBSET TemplateFields :
              CreateTemplate(h, u, t, fields) \/ UpdateTemplate(h, u, t, fields)
         \/ PublishTemplate(h, u, t) \/ UnpublishTemplate(h, u, t) \/ DeleteTemplate(h, u, t)
  PROVE  TemplatesInv'
<1>1. ASSUME NEW fields \in SUBSET TemplateFields, CreateTemplate(h, u, t, fields)
      PROVE  TemplatesInv'
  <2> DEFINE copy == [owner |-> u, fields |-> fields, visibility |-> "private"]
  <2>1. copy \in Template /\ Handle(h, "create", t, copy) BY <1>1 DEF Template, CreateTemplate
  <2>2. CopyFollows([pc |-> "save", op |-> "create", id |-> t, copy |-> copy]) BY DEF CopyFollows
  <2> QED BY <2>1, <2>2, HandleKeeps
<1>2. ASSUME NEW fields \in SUBSET TemplateFields, UpdateTemplate(h, u, t, fields)
      PROVE  TemplatesInv'
  <2> DEFINE copy == [templates[t] EXCEPT !.fields = fields]
  <2>1. Owns(u, t) /\ Handle(h, "update", t, copy) BY <1>2 DEF UpdateTemplate
  <2>2. copy \in Template /\ copy.visibility = templates[t].visibility BY <2>1, OwnedCopy DEF Template
  <2>3. t \notin contended /\ Busy(t) = {} =>
          CopyFollows([pc |-> "save", op |-> "update", id |-> t, copy |-> copy])
    BY <2>1, <2>2, OwnedCopy DEF CopyFollows
  <2>4. asked[t] # "none" BY <2>1, OwnedCopy
  <2> HIDE DEF copy
  <2> QED BY <2>1, <2>2, <2>3, <2>4, HandleKeeps
<1>3. ASSUME NEW op \in {"publish", "unpublish"}, NEW v \in {"private", "published"},
             v = (IF op = "publish" THEN "published" ELSE "private"),
             Owns(u, t), Handle(h, op, t, [templates[t] EXCEPT !.visibility = v])
      PROVE  TemplatesInv'
  <2> DEFINE copy == [templates[t] EXCEPT !.visibility = v]
  <2>1. copy \in Template /\ copy.visibility = v BY <1>3, OwnedCopy DEF Template
  <2>2. CopyFollows([pc |-> "save", op |-> op, id |-> t, copy |-> copy]) BY <1>3, <2>1 DEF CopyFollows
  <2>3. asked[t] # "none" /\ Handle(h, op, t, copy) BY <1>3, OwnedCopy
  <2> HIDE DEF copy
  <2> QED BY <2>1, <2>2, <2>3, HandleKeeps
<1>4. CASE PublishTemplate(h, u, t) BY <1>3, <1>4 DEF PublishTemplate
<1>5. CASE UnpublishTemplate(h, u, t) BY <1>3, <1>5 DEF UnpublishTemplate
<1>6. CASE DeleteTemplate(h, u, t)
  <2>1. Owns(u, t) /\ Handle(h, "delete", t, templates[t]) BY <1>6 DEF DeleteTemplate
  <2>2. templates[t] \in Template /\ asked[t] # "none" BY <2>1, OwnedCopy
  <2>3. CopyFollows([pc |-> "save", op |-> "delete", id |-> t, copy |-> templates[t]]) BY DEF CopyFollows
  <2> QED BY <2>1, <2>2, <2>3, HandleKeeps
<1> QED BY <1>1, <1>2, <1>4, <1>5, <1>6

----
(* Saved analyses: a handler saves, stores, or is lost. *)

\* What a map holds once a handler's template is put in or taken out.
LEMMA AppliedFacts ==
  ASSUME NEW map, NEW x
  PROVE  /\ \A t : t # x.id => /\ t \in DOMAIN Applied(map, x) <=> t \in DOMAIN map
                               /\ t \in DOMAIN map => Applied(map, x)[t] = map[t]
         /\ x.op = "delete" => x.id \notin DOMAIN Applied(map, x)
         /\ x.op # "delete" => /\ x.id \in DOMAIN Applied(map, x)
                               /\ Applied(map, x)[x.id] = x.copy
<1>1. CASE x.op = "delete" BY <1>1 DEF Applied, Restrict
<1>2. CASE x.op # "delete" BY <1>2 DEF Applied, Inserted
<1> QED BY <1>1, <1>2

LEMMA AppliedTyped ==
  ASSUME NEW map, NEW x \in Handling,
         DOMAIN map \subseteq Templates, \A t \in DOMAIN map : map[t] \in Template
  PROVE  /\ DOMAIN Applied(map, x) \subseteq Templates
         /\ \A t \in DOMAIN Applied(map, x) : Applied(map, x)[t] \in Template
<1>1. x.id \in Templates /\ x.copy \in Template BY DEF Handling
<1> QED BY <1>1, AppliedFacts

LEMMA LeaveFacts ==
  ASSUME NEW h, Leave(h)
  PROVE  /\ DOMAIN handler' = DOMAIN handler \ {h}
         /\ \A g \in DOMAIN handler' : handler'[g] = handler[g]
         /\ \A t : Busy(t)' = Busy(t) \ {h}
<1>1. /\ DOMAIN handler' = DOMAIN handler \ {h}
      /\ \A g \in DOMAIN handler' : handler'[g] = handler[g]
  BY DEF Leave, Restrict
<1> QED BY <1>1 DEF Busy

LEMMA LeaveOthers ==
  ASSUME NEW h, Leave(h), NEW t, t # handler[h].id
  PROVE  Busy(t)' = Busy(t) /\ \A g \in Busy(t) : handler'[g] = handler[g]
<1>1. h \notin Busy(t) BY DEF Busy
<1>2. Busy(t)' = Busy(t)
  <2>1. Busy(t)' = Busy(t) \ {h} BY LeaveFacts
  <2> QED BY <1>1, <2>1
<1>3. \A g \in Busy(t) : g \in DOMAIN handler' BY <1>1, LeaveFacts DEF Busy
<1> QED BY <1>2, <1>3, LeaveFacts

LEMMA LeaveAlone ==
  ASSUME NEW h \in DOMAIN handler, Leave(h), NEW t, t = handler[h].id, AloneFits(t)
  PROVE  Busy(t) = {h} /\ Busy(t)' = {}
<1>1. h \in Busy(t) BY DEF Busy
<1>2. Busy(t) = {h} BY <1>1 DEF AloneFits
<1>3. Busy(t)' = Busy(t) \ {h} BY LeaveFacts
<1> QED BY <1>2, <1>3

LEMMA SaveKeeps ==
  ASSUME TemplatesInv, NEW h, SaveTemplate(h)
  PROVE  TemplatesInv'
<1> DEFINE x == handler[h]
<1>1. /\ TemplatesTyped /\ h \in DOMAIN handler /\ x \in Handling /\ x.pc = "save"
      /\ UNCHANGED <<templates, contended>> /\ x.id \in Templates
  BY DEF TemplatesInv, TemplatesTyped, TemplatesTypeOK, SaveTemplate, Handling
<1>2. CASE /\ templateRows' = Applied(templateRows, x)
           /\ handler' = [handler EXCEPT ![h].pc = "memory"]
           /\ asked' = [asked EXCEPT ![x.id] = Wish(x)]
  <2>1. /\ DOMAIN handler' = DOMAIN handler
        /\ \A g \in DOMAIN handler : g # h => handler'[g] = handler[g]
        /\ handler'[h] = [x EXCEPT !.pc = "memory"]
    BY <1>1, <1>2
  <2>2. /\ handler'[h] \in Handling /\ handler'[h].pc = "memory" /\ handler'[h].op = x.op
        /\ handler'[h].id = x.id /\ handler'[h].copy = x.copy
    BY <1>1, <2>1 DEF Handling
  <2>3. \A t : Busy(t)' = Busy(t) BY <2>1, <2>2 DEF Busy
  <2>4. x.op # "create" => asked[x.id] # "none" BY <1>1 DEF TemplatesTyped, HandlersKnown
  <2>5. Wish(x) \in Wishes \ {"none"}
    <3>1. x.op \in {"create", "update", "publish", "unpublish", "delete"} BY <1>1 DEF Handling
    <3> QED BY <1>1, <2>4, <3>1 DEF Wish, Wishes, TemplatesTyped
  <2>6. /\ asked' \in [Templates -> Wishes] /\ asked'[x.id] = Wish(x)
        /\ \A t \in Templates : t # x.id => asked'[t] = asked[t]
    BY <1>1, <1>2, <2>5 DEF TemplatesTyped
  <2>7. TemplatesTyped'
    <3>1. /\ DOMAIN templateRows' \subseteq Templates
          /\ \A t \in DOMAIN templateRows' : templateRows'[t] \in Template
      BY <1>1, <1>2, AppliedTyped DEF TemplatesTyped, TemplatesTypeOK
    <3>2. \A t \in DOMAIN templateRows' : t # x.id => t \in DOMAIN templateRows BY <1>2, AppliedFacts
    <3>3. \A t \in DOMAIN templates' \union DOMAIN templateRows' : asked'[t] # "none"
      BY <1>1, <2>5, <2>6, <3>1, <3>2 DEF TemplatesTyped, TemplatesTypeOK
    <3>4. \A g \in DOMAIN handler' : handler'[g] \in Handling
      BY <1>1, <2>1, <2>2 DEF TemplatesTyped, TemplatesTypeOK
    <3>5. HandlersKnown'
      <4> SUFFICES ASSUME NEW g \in DOMAIN handler',
                          handler'[g].pc = "memory" \/ handler'[g].op # "create"
                   PROVE  asked'[handler'[g].id] # "none"
        BY DEF HandlersKnown
      <4>1. handler'[g].id \in Templates BY <3>4 DEF Handling
      <4>2. CASE handler'[g].id = x.id BY <2>5, <2>6, <4>2
      <4>3. CASE handler'[g].id # x.id
        <5>1. g # h /\ handler'[g] = handler[g] /\ g \in DOMAIN handler BY <2>1, <2>2, <4>3
        <5>2. asked[handler[g].id] # "none" BY <1>1, <5>1 DEF TemplatesTyped, HandlersKnown
        <5> QED BY <2>6, <4>1, <4>3, <5>1, <5>2
      <4> QED BY <4>2, <4>3
    <3> QED BY <1>1, <2>1, <2>6, <3>1, <3>3, <3>4, <3>5 DEF TemplatesTyped, TemplatesTypeOK
  <2>8. ASSUME NEW t \in Templates \ contended PROVE AloneFits(t)'
    <3>1. AloneFits(t) BY DEF TemplatesInv
    <3>2. CASE t # x.id
      <4>1. \A g \in Busy(t) : handler'[g] = handler[g] BY <2>1, <3>2 DEF Busy
      <4>2. /\ t \in DOMAIN templateRows' <=> t \in DOMAIN templateRows
            /\ t \in DOMAIN templateRows => templateRows'[t] = templateRows[t]
        BY <1>2, <3>2, AppliedFacts
      <4> QED BY <1>1, <2>3, <2>6, <3>1, <3>2, <4>1, <4>2, OthersAlone
    <3>3. CASE t = x.id
      <4>1. Busy(t) = {h} /\ Busy(t)' = {h}
        <5>1. h \in Busy(t) BY <1>1, <3>3 DEF Busy
        <5> QED BY <2>3, <3>1, <5>1 DEF AloneFits
      <4>2. Agree(t) /\ CopyFollows(x) /\ RowAsAsked(t) BY <1>1, <3>1, <4>1 DEF AloneFits
      <4>3. /\ x.op = "delete" => t \notin DOMAIN templateRows'
            /\ x.op # "delete" => t \in DOMAIN templateRows' /\ templateRows'[t] = x.copy
        BY <1>2, <3>3, AppliedFacts
      <4>4. SavedFollows(handler[h])' BY <2>2, <3>3, <4>3 DEF SavedFollows
      <4>5. RowAsAsked(t)'
        <5>1. x.op \in {"create", "update", "publish", "unpublish", "delete"} BY <1>1 DEF Handling
        <5> QED BY <2>6, <3>3, <4>2, <4>3, <5>1 DEF RowAsAsked, CopyFollows, Wish
      <4> QED BY <2>2, <4>1, <4>4, <4>5 DEF AloneFits
    <3> QED BY <3>2, <3>3
  <2> QED BY <1>1, <2>7, <2>8 DEF TemplatesInv
<1>3. CASE Leave(h) /\ UNCHANGED <<templateRows, asked>>
  <2>1. TemplatesTyped' BY <1>1, <1>3, LeaveFacts DEF TemplatesTyped, TemplatesTypeOK, HandlersKnown
  <2>2. ASSUME NEW t \in Templates \ contended PROVE AloneFits(t)'
    <3>1. AloneFits(t) BY DEF TemplatesInv
    <3>2. CASE t # x.id
      <4>1. Busy(t)' = Busy(t) /\ \A g \in Busy(t) : handler'[g] = handler[g] BY <1>3, <3>2, LeaveOthers
      <4> QED BY <1>1, <1>3, <3>1, <4>1, OthersAlone
    <3>3. CASE t = x.id
      <4>1. Busy(t) = {h} /\ Busy(t)' = {} BY <1>1, <1>3, <3>1, <3>3, LeaveAlone
      <4>2. Agree(t) /\ RowAsAsked(t) BY <1>1, <3>1, <4>1 DEF AloneFits
      <4>3. Agree(t)' /\ RowAsAsked(t)' BY <1>1, <1>3, <4>2 DEF Agree, RowAsAsked
      <4> QED BY <4>1, <4>3 DEF AloneFits
    <3> QED BY <3>2, <3>3
  <2> QED BY <1>1, <2>1, <2>2 DEF TemplatesInv
<1> QED BY <1>2, <1>3 DEF SaveTemplate

LEMMA StoreKeeps ==
  ASSUME TemplatesInv, NEW h, StoreTemplate(h)
  PROVE  TemplatesInv'
<1> DEFINE x == handler[h]
<1>1. /\ TemplatesTyped /\ h \in DOMAIN handler /\ x \in Handling /\ x.pc = "memory"
      /\ templates' = Applied(templates, x) /\ Leave(h)
      /\ UNCHANGED <<templateRows, asked, contended>> /\ x.id \in Templates
  BY DEF TemplatesInv, TemplatesTyped, TemplatesTypeOK, StoreTemplate, Handling
<1>2. TemplatesTyped'
  <2>1. /\ DOMAIN templates' \subseteq Templates
        /\ \A t \in DOMAIN templates' : templates'[t] \in Template
    BY <1>1, AppliedTyped DEF TemplatesTyped, TemplatesTypeOK
  <2>2. \A t \in DOMAIN templates' : t # x.id => t \in DOMAIN templates BY <1>1, AppliedFacts
  <2>3. asked[x.id] # "none" BY <1>1 DEF TemplatesTyped, HandlersKnown
  <2>4. \A t \in DOMAIN templates' \union DOMAIN templateRows' : asked'[t] # "none"
    BY <1>1, <2>2, <2>3 DEF TemplatesTyped, TemplatesTypeOK
  <2>5. HandlersKnown' /\ \A g \in DOMAIN handler' : handler'[g] \in Handling
    BY <1>1, LeaveFacts DEF TemplatesTyped, TemplatesTypeOK, HandlersKnown
  <2> QED BY <1>1, <2>1, <2>4, <2>5, LeaveFacts DEF TemplatesTyped, TemplatesTypeOK
<1>3. ASSUME NEW t \in Templates \ contended PROVE AloneFits(t)'
  <2>1. AloneFits(t) BY DEF TemplatesInv
  <2>2. CASE t # x.id
    <3>1. Busy(t)' = Busy(t) /\ \A g \in Busy(t) : handler'[g] = handler[g] BY <1>1, <2>2, LeaveOthers
    <3>2. /\ t \in DOMAIN templates' <=> t \in DOMAIN templates
          /\ t \in DOMAIN templates => templates'[t] = templates[t]
      BY <1>1, <2>2, AppliedFacts
    <3> QED BY <1>1, <2>1, <3>1, <3>2, OthersAlone
  <2>3. CASE t = x.id
    <3>1. Busy(t) = {h} /\ Busy(t)' = {} BY <1>1, <2>1, <2>3, LeaveAlone
    <3>2. SavedFollows(x) /\ RowAsAsked(t) BY <1>1, <2>1, <3>1 DEF AloneFits
    <3>3. /\ x.op = "delete" => t \notin DOMAIN templates'
          /\ x.op # "delete" => t \in DOMAIN templates' /\ templates'[t] = x.copy
      BY <1>1, <2>3, AppliedFacts
    <3>4. Agree(t)' /\ RowAsAsked(t)' BY <1>1, <2>3, <3>2, <3>3 DEF Agree, RowAsAsked, SavedFollows
    <3> QED BY <3>1, <3>4 DEF AloneFits
  <2> QED BY <2>2, <2>3
<1> QED BY <1>1, <1>2, <1>3 DEF TemplatesInv

LEMMA RestartTemplatesKeeps ==
  ASSUME TemplatesInv, RestartTemplates
  PROVE  TemplatesInv'
<1>1. /\ templates' = templateRows /\ DOMAIN handler' = {}
      /\ UNCHANGED <<templateRows, asked, contended>>
  BY DEF RestartTemplates, LoadTemplates
<1>2. TemplatesTyped' BY <1>1 DEF TemplatesInv, TemplatesTyped, TemplatesTypeOK, HandlersKnown
<1>3. ASSUME NEW t \in Templates \ contended PROVE AloneFits(t)'
  <2>1. Busy(t)' = {} BY <1>1 DEF Busy
  <2>2. RowAsAsked(t)' /\ Agree(t)' BY <1>1 DEF TemplatesInv, AloneFits, RowAsAsked, Agree
  <2> QED BY <2>1, <2>2 DEF AloneFits
<1> QED BY <1>1, <1>2, <1>3 DEF TemplatesInv

LEMMA TemplatesNextKeeps ==
  ASSUME TemplatesInv, [TemplatesNext]_templateVars
  PROVE  TemplatesInv'
<1>1. ASSUME NEW h \in TemplateRequests, NEW u \in Authors, NEW t \in Templates,
             \/ \E fields \in SUBSET TemplateFields :
                  CreateTemplate(h, u, t, fields) \/ UpdateTemplate(h, u, t, fields)
             \/ PublishTemplate(h, u, t) \/ UnpublishTemplate(h, u, t) \/ DeleteTemplate(h, u, t)
      PROVE  TemplatesInv'
  BY <1>1, BeginKeeps
<1>2. ASSUME NEW h \in TemplateRequests, SaveTemplate(h) \/ StoreTemplate(h)
      PROVE  TemplatesInv'
  BY <1>2, SaveKeeps, StoreKeeps
<1>3. CASE RestartTemplates BY <1>3, RestartTemplatesKeeps
<1>4. ASSUME UNCHANGED <<templates, templateRows, handler, asked, contended>>
      PROVE  TemplatesInv'
  <2>1. TemplatesTyped' BY <1>4 DEF TemplatesInv, TemplatesTyped, TemplatesTypeOK, HandlersKnown
  <2>2. \A t \in Templates : Busy(t)' = Busy(t) BY <1>4 DEF Busy
  <2>3. \A t \in Templates \ contended : AloneFits(t)' BY <1>4, <2>2, OthersAlone DEF TemplatesInv
  <2> QED BY <1>4, <2>1, <2>3 DEF TemplatesInv
<1>5. ASSUME NEW u \in Authors, NEW fields \in SUBSET TemplateFields, GrantMoves(u, fields)
      PROVE  TemplatesInv'
  BY <1>4, <1>5 DEF GrantMoves
<1>6. CASE UNCHANGED templateVars BY <1>4, <1>6 DEF templateVars
<1> QED BY <1>1, <1>2, <1>3, <1>5, <1>6 DEF TemplatesNext

\* Whatever the handlers of phase4.rs do to saved analyses, a template that no two of them
\* changed at a time is as public in its row as its owner asked, and only what its one
\* handler has saved is still missing in memory.
THEOREM TemplatesInvHolds == TemplatesSpec => []TemplatesInv
BY TemplatesInitHolds, TemplatesNextKeeps, PTL DEF TemplatesSpec

LEMMA InvTemplatesHold == TemplatesInv => TemplatesHold
<1> SUFFICES ASSUME TemplatesInv PROVE TemplatesHold OBVIOUS
<1>1. TemplatesTypeOK BY DEF TemplatesInv, TemplatesTyped
<1>2. TemplatesAgree BY DEF TemplatesInv, AloneFits, Agree, TemplatesAgree
<1>3. OwnersWishHolds BY DEF TemplatesInv, AloneFits, Agree, RowAsAsked, OwnersWishHolds, Visible
<1> QED BY <1>1, <1>2, <1>3 DEF TemplatesHold

\* A saved analysis is in memory what it is in its row, and others see it exactly when its
\* owner last had it published, through failed saves and restarts, for any number of
\* templates, authors and handlers; only overlapping handlers of one template (phase4.rs
\* copies, saves and stores without a lock) are excepted.
THEOREM TemplatesHoldAlways == TemplatesSpec => []TemplatesHold
BY TemplatesInvHolds, InvTemplatesHold, PTL

----
(* Behaviour analytics: the invariant. *)

UebaSignal == [user : UebaUsers, kind : SignalKinds \cup {"control"}, project : UebaProjects]

StepUpSession == [revoked |-> FALSE, stepUp |-> TRUE]
EndedSession == [revoked |-> TRUE, stepUp |-> FALSE]

DetectorSteps == {"idle", "tenants", "mitigate", "sessions", "grants", "alert", "hit", "notify"}

Detector ==
  [pc : DetectorSteps, upTo : Nat, tenants : SUBSET {TenantOf[u] : u \in UebaUsers},
   alerts : SUBSET Alert, todo : SUBSET Alert, saving : SUBSET UebaUsers, current : SUBSET Alert]

UebaTyped ==
  /\ uebaEvents \in Seq(UebaSignal)
  /\ kept \subseteq DOMAIN uebaEvents /\ publishing \subseteq DOMAIN uebaEvents
  /\ topic \in Seq(Nat) /\ \A i \in DOMAIN topic : topic[i] \in DOMAIN uebaEvents
  /\ offset \in 0..Len(topic)
  /\ detector \in Detector
  /\ sess \in [UebaUsers -> {OpenSession, StepUpSession, EndedSession}]
  /\ sessRow \in [UebaUsers -> {OpenSession, StepUpSession, EndedSession}]
  /\ access \in [UebaUsers \X UebaProjects -> {"active", "suspended", "revoked"}]
  /\ alertRows \subseteq Alert /\ hitRows \subseteq alertRows /\ socRows \subseteq hitRows
  /\ uebaMode \in {"stream", "legacy"} /\ uebaRestarts \in Nat

\* A session only becomes stricter, and its row follows.
RowBehind(u) ==
  /\ sess[u] = OpenSession => sessRow[u] = OpenSession
  /\ sessRow[u] = EndedSession => sess[u] = EndedSession

\* What the loop holds at each of its steps.
DetectorFits ==
  /\ detector.pc = "idle" => detector = IdleDetector
  /\ detector.pc # "idle" =>
       uebaMode = "stream" /\ offset < detector.upTo /\ detector.upTo <= Len(topic)
  /\ detector.todo \cup detector.current \subseteq detector.alerts
  /\ detector.pc = "tenants" => detector.alerts = {}
  /\ detector.pc \in {"mitigate", "sessions"} => detector.todo = detector.alerts
  /\ IF detector.pc \in {"hit", "notify"}
       THEN \E a \in detector.alerts : detector.current = {a}
       ELSE detector.current = {}
  /\ detector.pc = "hit" => detector.current \subseteq alertRows
  /\ detector.pc = "notify" => detector.current \subseteq hitRows
  /\ detector.saving \subseteq {u \in UebaUsers : sess[u] # sessRow[u]}

\* An alert was acted upon.
GrantsFollow(a) ==
  /\ a.action = SuspendPermissions => access[a.user, a.project] # "active"
  /\ a.action = TerminateSession => access[a.user, a.project] = "revoked"

SessionEnded(a) == a.action = TerminateSession => sess[a.user] = EndedSession

\* What is on record was acted upon; of the alerts the loop has in hand, their
\* sessions first, then their grants, and only then they are stored.
ActedUpon ==
  uebaMode = "stream" =>
    /\ \A a \in alertRows : GrantsFollow(a) /\ (uebaRestarts = 0 => SessionEnded(a))
    /\ detector.pc \in {"sessions", "grants", "alert", "hit", "notify"} =>
         \A a \in detector.alerts : SessionEnded(a)
    /\ detector.pc = "grants" => \A a \in detector.alerts \ detector.todo : GrantsFollow(a)
    /\ detector.pc \in {"alert", "hit", "notify"} =>
         \A a \in detector.alerts : GrantsFollow(a)

\* A burst, and what the rule for it counts.
Burst(r) == IF r = 2 THEN 3 ELSE 2
BurstKind(r) == IF r = 2 THEN "export" ELSE "denied"

\* A user's events of a kind before a place of the topic, as far as they can be
\* read.
Mine(events, records, readable, n, u, kind) ==
  {i \in {records[j] : j \in 1..n} \cap readable : events[i].user = u /\ events[i].kind = kind}

Covers(alerts, mine, u, r) ==
  Cardinality(mine) >= Burst(r) =>
    \E a \in alerts : a.user = u /\ a.rule = r /\ a.count >= Cardinality(mine)

\* Up to the saved offset what is on record covers the bursts; up to where the
\* loop has read, with what it is about to store, for the tenants it is done
\* with or did not read about.
BurstsCovered ==
  uebaMode = "stream" => \A u \in UebaUsers, r \in {2, 3} :
    /\ Covers(alertRows, Mine(uebaEvents, topic, kept, offset, u, BurstKind(r)), u, r)
    /\ detector.pc # "idle" /\ TenantOf[u] \notin detector.tenants =>
         Covers(alertRows \cup detector.todo
                  \cup (IF detector.pc = "grants" THEN detector.alerts ELSE {}),
                Mine(uebaEvents, topic, kept, detector.upTo, u, BurstKind(r)), u, r)

UebaInv ==
  /\ UebaTyped
  /\ \A u \in UebaUsers : RowBehind(u)
  /\ DetectorFits
  /\ ActedUpon
  /\ BurstsCovered

----
(* Behaviour analytics: what the rules return. *)

LEMMA GreatestNumber ==
  ASSUME NEW N \in Nat, NEW S, S \subseteq 0..N, S # {}
  PROVE  Max(S) \in S /\ \A r \in S : r <= Max(S)
<1> DEFINE T == {N - s : s \in S}
<1>1. T \in SUBSET Nat /\ T # {}
  <2>1. \A s \in S : N - s \in Nat OBVIOUS
  <2> QED BY <2>1
<1> HIDE DEF T
<1>2. PICK x \in T : \A y \in T : ~ (<<y, x>> \in OpToRel(<, Nat)) BY <1>1, NatLessThanWellFounded, WFMin
<1>3. \A m, n \in Nat : m < n => <<m, n>> \in OpToRel(<, Nat) BY DEF OpToRel
<1>4. ASSUME NEW y \in T PROVE x <= y
  <2>1. x \in Nat /\ y \in Nat BY <1>1, <1>2
  <2>2. ~ (y < x) BY <1>2, <1>3, <2>1
  <2> QED BY <2>1, <2>2
<1>5. PICK s \in S : x = N - s BY <1>2 DEF T
<1>6. ASSUME NEW r \in S PROVE s >= r
  <2>1. N - r \in T BY DEF T
  <2>2. x <= N - r BY <1>4, <2>1
  <2> QED BY <1>5, <2>2
<1> QED BY <1>6 DEF Max

LEMMA FiniteEvents ==
  ASSUME UebaTyped, NEW S, S \subseteq DOMAIN uebaEvents
  PROVE  /\ IsFiniteSet(S) /\ Cardinality(S) \in Nat
         /\ Cardinality(S) > 0 => S # {}
         /\ \A T \in SUBSET S : Cardinality(T) \in Nat /\ Cardinality(T) <= Cardinality(S)
<1>1. DOMAIN uebaEvents = 1..Len(uebaEvents) /\ Len(uebaEvents) \in Nat BY DEF UebaTyped
<1>2. IsFiniteSet(S)
  <2>1. IsFiniteSet(1..Len(uebaEvents)) BY <1>1, FS_Interval
  <2> QED BY <1>1, <2>1, FS_Subset
<1>3. Cardinality(S) \in Nat BY <1>2, FS_CardinalityType
<1>4. Cardinality(S) > 0 => S # {} BY FS_EmptySet
<1>5. \A T \in SUBSET S : Cardinality(T) \in Nat /\ Cardinality(T) <= Cardinality(S)
  BY <1>2, FS_Subset, FS_CardinalityType
<1> QED BY <1>2, <1>3, <1>4, <1>5

LEMMA FromScoreTyped == \A score : FromScore(score) \in 1..4
  BY DEF FromScore, Observe, StepUpAuth, SuspendPermissions, TerminateSession

LEMMA LastProjectTyped ==
  ASSUME UebaTyped, NEW ids, ids \subseteq DOMAIN uebaEvents, NEW u,
         \E i \in ids : uebaEvents[i].user = u
  PROVE  LastProject(ids, u) \in UebaProjects
<1> DEFINE mine == {i \in ids : uebaEvents[i].user = u}
           late == {i \in ids \ kept : uebaEvents[i].user = u}
           last == IF late = {} THEN Max(mine) ELSE Max(late)
<1>1. Len(uebaEvents) \in Nat /\ DOMAIN uebaEvents = 1..Len(uebaEvents) BY DEF UebaTyped
<1>2. mine \subseteq 0..Len(uebaEvents) /\ late \subseteq 0..Len(uebaEvents) /\ mine # {} BY <1>1
<1>3. last \in DOMAIN uebaEvents
  <2>1. Max(mine) \in mine BY <1>1, <1>2, GreatestNumber
  <2>2. late # {} => Max(late) \in late BY <1>1, <1>2, GreatestNumber
  <2> QED BY <2>1, <2>2
<1>4. uebaEvents[last].project \in UebaProjects
  <2>1. uebaEvents[last] \in UebaSignal BY <1>1, <1>3 DEF UebaTyped
  <2> QED BY <2>1 DEF UebaSignal
<1>5. LastProject(ids, u) = uebaEvents[last].project BY DEF LastProject
<1> QED BY <1>4, <1>5

LEMMA EvaluationTyped ==
  ASSUME UebaTyped, NEW ids, ids \subseteq DOMAIN uebaEvents, NEW users \in SUBSET UebaUsers,
         NEW a \in EvaluateAlerts(ids, users)
  PROVE  a \in Alert
<1>1. PICK u \in users, r \in 1..6 :
        /\ Fires(ids, u, r)
        /\ a = AlertOf(ids, u, r)
  BY DEF EvaluateAlerts
<1>2. \A kind : /\ Cardinality(Of(ids, u, kind)) \in Nat
                /\ Cardinality(Of(ids, u, kind)) > 0 => Of(ids, u, kind) # {}
  <2>1. ASSUME NEW kind PROVE Of(ids, u, kind) \subseteq DOMAIN uebaEvents BY DEF Of
  <2> QED BY <2>1, FiniteEvents
<1>3. Evidence(ids, u, r) \in Nat BY <1>2 DEF Evidence
<1>4. \E kind : Cardinality(Of(ids, u, kind)) > 0
  <2>1. \/ Cardinality(Of(ids, u, "query")) >= 5
        \/ Cardinality(Of(ids, u, "export")) >= 3
        \/ Cardinality(Of(ids, u, "denied")) >= 2
        \/ Cardinality(Of(ids, u, "late")) > 0
        \/ Cardinality(Of(ids, u, "dns")) > 0
        \/ Cardinality(Of(ids, u, "http")) > 0
    <3>1. r = 1 \/ r = 2 \/ r = 3 \/ r = 4 \/ r = 5 \/ r = 6 BY <1>1
    <3> QED BY <1>1, <3>1 DEF Fires
  <2> QED BY <1>2, <2>1
<1>5. \E i \in ids : uebaEvents[i].user = u BY <1>2, <1>4 DEF Of
<1>6. LastProject(ids, u) \in UebaProjects BY <1>5, LastProjectTyped
<1>7. r \in DOMAIN UebaRuleNames BY DEF UebaRuleNames
<1>8. FromScore(RiskScore[r]) \in 1..4 BY FromScoreTyped
<1> QED BY <1>1, <1>3, <1>6, <1>7, <1>8 DEF Alert, AlertOf

\* A burst among what is looked at gives an alert that counts it whole.
LEMMA EvaluationCovers ==
  ASSUME UebaTyped, NEW ids, ids \subseteq DOMAIN uebaEvents, NEW users, NEW u \in users,
         NEW r \in {2, 3}, Cardinality(Of(ids, u, BurstKind(r))) >= Burst(r)
  PROVE  \E a \in EvaluateAlerts(ids, users) :
           a.user = u /\ a.rule = r /\ a.count = Cardinality(Of(ids, u, BurstKind(r)))
<1> DEFINE n == Cardinality(Of(ids, u, BurstKind(r)))
<1>1. n \in Nat
  <2>1. Of(ids, u, BurstKind(r)) \subseteq DOMAIN uebaEvents BY DEF Of
  <2> QED BY <2>1, FiniteEvents
<1>2. Fires(ids, u, r) /\ Evidence(ids, u, r) = n
  <2>1. CASE r = 2
    <3>1. n = Cardinality(Of(ids, u, "export")) /\ n >= 3 BY <2>1 DEF BurstKind, Burst
    <3>2. n > n \div 2 + 1 BY <1>1, <3>1
    <3> QED BY <2>1, <3>1, <3>2 DEF Fires, Evidence, ExportBaseline
  <2>2. CASE r = 3
    <3>1. n = Cardinality(Of(ids, u, "denied")) /\ n >= 2 BY <2>2 DEF BurstKind, Burst
    <3> QED BY <2>2, <3>1 DEF Fires, Evidence
  <2> QED BY <2>1, <2>2
<1> DEFINE a == AlertOf(ids, u, r)
<1>3. <<u, r>> \in {x \in users \X (1..6) : Fires(ids, x[1], x[2])} BY <1>2
<1>4. a \in EvaluateAlerts(ids, users) BY <1>3 DEF EvaluateAlerts
<1>5. a.user = u /\ a.rule = r /\ a.count = n BY <1>2 DEF AlertOf
<1> QED BY <1>4, <1>5

\* What a session becomes.
LEMMA MitigatedFacts ==
  ASSUME NEW s \in {OpenSession, StepUpSession, EndedSession}, NEW x
  PROVE  /\ Mitigated(s, x) \in {OpenSession, StepUpSession, EndedSession}
         /\ s = EndedSession => Mitigated(s, x) = EndedSession
         /\ x = TerminateSession => Mitigated(s, x) = EndedSession
         /\ Mitigated(s, x) = OpenSession => s = OpenSession
         /\ Mitigated(s, x) = StepUpSession /\ Mitigated(s, x) # s => s = OpenSession
<1> USE DEF Mitigated, OpenSession, StepUpSession, EndedSession, TerminateSession, StepUpAuth
<1>1. CASE s.revoked
  <2>1. s = EndedSession BY <1>1
  <2>2. Mitigated(s, x) = s BY <1>1
  <2> QED BY <2>1, <2>2
<1>2. CASE ~s.revoked /\ x = 4 BY <1>2
<1>3. CASE ~s.revoked /\ x = 2
  <2>1. Mitigated(s, x) = [s EXCEPT !.stepUp = TRUE] BY <1>3
  <2>2. s = OpenSession \/ s = StepUpSession BY <1>3
  <2>3. [s EXCEPT !.stepUp = TRUE] = StepUpSession
    <3>1. \A b, c, d : [[revoked |-> b, stepUp |-> c] EXCEPT !.stepUp = d]
                         = [revoked |-> b, stepUp |-> d]
      OBVIOUS
    <3>2. [OpenSession EXCEPT !.stepUp = TRUE] = StepUpSession BY <3>1, Zenon
    <3>3. [StepUpSession EXCEPT !.stepUp = TRUE] = StepUpSession BY <3>1, Zenon
    <3> HIDE DEF OpenSession, StepUpSession
    <3> QED BY <2>2, <3>2, <3>3, Zenon
  <2> QED BY <1>3, <2>1, <2>2, <2>3
<1>4. CASE ~s.revoked /\ x # 2 /\ x # 4
  <2>1. Mitigated(s, x) = s BY <1>4
  <2>2. s # EndedSession BY <1>4
  <2> QED BY <1>4, <2>1, <2>2
<1> QED BY <1>1, <1>2, <1>3, <1>4

LEMMA SessionsDiffer ==
  OpenSession # StepUpSession /\ OpenSession # EndedSession /\ StepUpSession # EndedSession
  BY DEF OpenSession, StepUpSession, EndedSession

LEMMA HighestFound ==
  ASSUME NEW alerts \in SUBSET Alert, NEW a \in alerts, a.action = TerminateSession
  PROVE  HighestAction(alerts, a.user) = TerminateSession
<1> DEFINE S == {b.action : b \in {c \in alerts : c.user = a.user}} \cup {0}
<1>1. S \subseteq 0..4 /\ 4 \in S /\ TerminateSession = 4 BY DEF Alert, TerminateSession
<1>2. Max(S) \in S /\ \A r \in S : r <= Max(S) BY <1>1, GreatestNumber
<1>3. Max(S) = 4 BY <1>1, <1>2
<1>4. HighestAction(alerts, a.user) = Max(S) BY DEF HighestAction
<1> QED BY <1>1, <1>3, <1>4

----
(* Behaviour analytics: what the topic shows of a user. *)

\* Events that are kept or published later do not change what was before.
LEMMA MineStays ==
  ASSUME NEW n \in Nat, NEW events, NEW records, NEW readable,
         NEW events2, NEW records2, NEW readable2, NEW u, NEW kind,
         \A j \in 1..n : records2[j] = records[j] /\ records[j] \in DOMAIN events,
         \A i \in DOMAIN events : events2[i] = events[i] /\ (i \in readable2 <=> i \in readable)
  PROVE  Mine(events2, records2, readable2, n, u, kind) = Mine(events, records, readable, n, u, kind)
  BY DEF Mine

LEMMA CoversMore ==
  ASSUME NEW A, NEW B, A \subseteq B, NEW mine, NEW u, NEW r, Covers(A, mine, u, r)
  PROVE  Covers(B, mine, u, r)
  BY DEF Covers

\* As long as events, topic and store only grow, and no alert is forgotten.
LEMMA StillCovered ==
  ASSUME UebaTyped, BurstsCovered, uebaMode' = uebaMode,
         \A j \in 1..Len(topic) : topic'[j] = topic[j],
         \A i \in DOMAIN uebaEvents : uebaEvents'[i] = uebaEvents[i] /\ (i \in kept' <=> i \in kept),
         alertRows \subseteq alertRows', offset' = offset,
         detector'.pc # "idle" =>
           /\ detector.pc # "idle" /\ detector'.upTo = detector.upTo
           /\ detector.upTo \in 0..Len(topic) /\ detector'.tenants = detector.tenants
           /\ alertRows \cup detector.todo
                \cup (IF detector.pc = "grants" THEN detector.alerts ELSE {})
              \subseteq alertRows' \cup detector'.todo
                \cup (IF detector'.pc = "grants" THEN detector'.alerts ELSE {})
  PROVE  BurstsCovered'
<1> SUFFICES ASSUME uebaMode = "stream", NEW u \in UebaUsers, NEW r \in {2, 3}
             PROVE  /\ Covers(alertRows', Mine(uebaEvents', topic', kept', offset', u, BurstKind(r)), u, r)
                    /\ detector'.pc # "idle" /\ TenantOf[u] \notin detector'.tenants =>
                         Covers(alertRows' \cup detector'.todo
                                  \cup (IF detector'.pc = "grants" THEN detector'.alerts ELSE {}),
                                Mine(uebaEvents', topic', kept', detector'.upTo, u, BurstKind(r)), u, r)
  BY DEF BurstsCovered
<1>1. \A n \in 0..Len(topic) : Mine(uebaEvents', topic', kept', n, u, BurstKind(r))
                                 = Mine(uebaEvents, topic, kept, n, u, BurstKind(r))
  <2> SUFFICES ASSUME NEW n \in 0..Len(topic)
               PROVE  Mine(uebaEvents', topic', kept', n, u, BurstKind(r))
                        = Mine(uebaEvents, topic, kept, n, u, BurstKind(r))
    OBVIOUS
  <2>1. Len(topic) \in Nat /\ n \in Nat /\ \A j \in 1..n : j \in 1..Len(topic) /\ j \in DOMAIN topic
    BY DEF UebaTyped
  <2>2. \A j \in 1..n : topic'[j] = topic[j] /\ topic[j] \in DOMAIN uebaEvents BY <2>1 DEF UebaTyped
  <2> QED BY <2>1, <2>2, MineStays
<1>2. offset \in 0..Len(topic) BY DEF UebaTyped
<1>3. Covers(alertRows', Mine(uebaEvents', topic', kept', offset', u, BurstKind(r)), u, r)
  BY <1>1, <1>2, CoversMore DEF BurstsCovered
<1>4. ASSUME detector'.pc # "idle", TenantOf[u] \notin detector'.tenants
      PROVE  Covers(alertRows' \cup detector'.todo
                      \cup (IF detector'.pc = "grants" THEN detector'.alerts ELSE {}),
                    Mine(uebaEvents', topic', kept', detector'.upTo, u, BurstKind(r)), u, r)
  <2>1. Covers(alertRows \cup detector.todo
                 \cup (IF detector.pc = "grants" THEN detector.alerts ELSE {}),
               Mine(uebaEvents, topic, kept, detector.upTo, u, BurstKind(r)), u, r)
    BY <1>4 DEF BurstsCovered
  <2> QED BY <1>1, <1>4, <2>1, CoversMore
<1> QED BY <1>3, <1>4

----
(* Behaviour analytics: events come and are published. *)

LEMMA UebaInitHolds == UebaInit => UebaInv
<1> SUFFICES ASSUME UebaInit PROVE UebaInv OBVIOUS
<1> DEFINE n == Len(uebaEvents)
<1>1. /\ uebaEvents \in EarlierSignals /\ kept = DOMAIN uebaEvents /\ publishing = {}
      /\ topic = [i \in DOMAIN uebaEvents |-> i] /\ offset = Len(topic)
      /\ detector = IdleDetector /\ sess = [u \in UebaUsers |-> OpenSession] /\ sessRow = sess
      /\ access = [g \in UebaUsers \X UebaProjects |-> "active"]
      /\ alertRows = {} /\ hitRows = {} /\ socRows = {} /\ uebaMode \in {"stream", "legacy"}
      /\ uebaRestarts = 0
  BY DEF UebaInit
<1>2. uebaEvents \in Seq(UebaSignal) BY <1>1, UebaAssumption DEF UebaSignal
<1>3. n \in Nat /\ DOMAIN uebaEvents = 1..n BY <1>2
<1>4. topic \in Seq(Nat) /\ Len(topic) = n /\ DOMAIN topic = 1..n /\ \A i \in 1..n : topic[i] = i
  BY <1>1, <1>3
<1>5. IdleDetector \in Detector BY DEF IdleDetector, Detector, DetectorSteps
<1>6. UebaTyped BY <1>1, <1>2, <1>3, <1>4, <1>5 DEF UebaTyped
<1>7. DetectorFits BY <1>1 DEF DetectorFits, IdleDetector
<1>8. ActedUpon /\ \A u \in UebaUsers : RowBehind(u) BY <1>1 DEF ActedUpon, IdleDetector, RowBehind
<1>9. BurstsCovered
  <2> SUFFICES ASSUME NEW u \in UebaUsers, NEW r \in {2, 3}
               PROVE  Covers(alertRows, Mine(uebaEvents, topic, kept, offset, u, BurstKind(r)), u, r)
    BY <1>1 DEF BurstsCovered, IdleDetector
  <2> DEFINE mine == {i \in DOMAIN uebaEvents :
                        uebaEvents[i].user = u /\ uebaEvents[i].kind = BurstKind(r)}
  <2>1. Mine(uebaEvents, topic, kept, offset, u, BurstKind(r)) = mine BY <1>1, <1>3, <1>4 DEF Mine
  <2>2. Cardinality(mine) < Burst(r)
    <3>1. CASE r = 2 BY <1>1, <3>1, UebaAssumption DEF BurstKind, Burst
    <3>2. CASE r = 3 BY <1>1, <3>2, UebaAssumption DEF BurstKind, Burst
    <3> QED BY <3>1, <3>2
  <2>3. mine \subseteq DOMAIN uebaEvents OBVIOUS
  <2>4. Cardinality(mine) \in Nat BY <1>6, <2>3, FiniteEvents
  <2>5. ~ (Cardinality(mine) >= Burst(r)) BY <2>2, <2>4 DEF Burst
  <2> HIDE DEF mine
  <2> QED BY <2>1, <2>5 DEF Covers
<1> QED BY <1>6, <1>7, <1>8, <1>9 DEF UebaInv

LEMMA RecordSignalKeeps ==
  ASSUME UebaInv, NEW u \in UebaUsers, NEW kind \in SignalKinds, NEW p \in UebaProjects,
         RecordSignal(u, kind, p)
  PROVE  UebaInv'
<1> DEFINE n == Len(uebaEvents)
           signal == [user |-> u, kind |-> kind, project |-> p]
<1>1. UebaTyped /\ DetectorFits /\ BurstsCovered /\ ActedUpon BY DEF UebaInv
<1>2. /\ uebaEvents' = Append(uebaEvents, signal)
      /\ kept' \subseteq kept \cup {n + 1} /\ kept \subseteq kept'
      /\ publishing' \subseteq publishing \cup {n + 1}
      /\ UNCHANGED <<topic, offset, detector, sess, sessRow, access, alertRows, hitRows, socRows,
                     uebaMode, uebaRestarts>>
  BY DEF RecordSignal
<1>3. uebaEvents \in Seq(UebaSignal) /\ signal \in UebaSignal /\ n \in Nat
  BY <1>1 DEF UebaTyped, UebaSignal
<1>4. /\ uebaEvents' \in Seq(UebaSignal) /\ DOMAIN uebaEvents = 1..n
      /\ DOMAIN uebaEvents' = 1..(n + 1) /\ \A i \in 1..n : uebaEvents'[i] = uebaEvents[i]
  BY <1>2, <1>3
<1> HIDE DEF signal
<1>5. UebaTyped' BY <1>1, <1>2, <1>4 DEF UebaTyped
<1>6. DetectorFits' /\ ActedUpon' /\ (\A v \in UebaUsers : RowBehind(v)')
  BY <1>2 DEF UebaInv, DetectorFits, ActedUpon, GrantsFollow, SessionEnded, RowBehind
<1>7. BurstsCovered'
  <2>1. \A i \in DOMAIN uebaEvents : uebaEvents'[i] = uebaEvents[i] /\ (i \in kept' <=> i \in kept)
    BY <1>2, <1>3, <1>4
  <2>2. detector.pc # "idle" => detector.upTo \in 0..Len(topic)
    BY <1>1 DEF UebaTyped, DetectorFits, Detector
  <2> QED BY <1>1, <1>2, <2>1, <2>2, StillCovered
<1> QED BY <1>5, <1>6, <1>7 DEF UebaInv

LEMMA PublishKeeps ==
  ASSUME UebaInv, NEW i \in publishing, PublishAuditEvent(i)
  PROVE  UebaInv'
<1>1. UebaTyped /\ DetectorFits /\ BurstsCovered /\ ActedUpon BY DEF UebaInv
<1>2. /\ publishing' = publishing \ {i}
      /\ topic' = Append(topic, i) \/ topic' = topic
      /\ UNCHANGED <<uebaEvents, kept, offset, detector, sess, sessRow, access, alertRows, hitRows,
                     socRows, uebaMode, uebaRestarts>>
  BY DEF PublishAuditEvent
<1>3. i \in DOMAIN uebaEvents /\ i \in Nat /\ topic \in Seq(Nat) /\ Len(topic) \in Nat
  BY <1>1 DEF UebaTyped
<1>4. /\ topic' \in Seq(Nat) /\ Len(topic') \in Nat /\ Len(topic) <= Len(topic')
      /\ \A j \in 1..Len(topic) : topic'[j] = topic[j]
      /\ \A j \in 1..Len(topic') : j \in 1..Len(topic) \/ topic'[j] = i
      /\ DOMAIN topic' = 1..Len(topic') /\ DOMAIN topic = 1..Len(topic)
  <2>1. CASE topic' = topic BY <1>3, <2>1
  <2>2. CASE topic' = Append(topic, i) BY <1>3, <2>2
  <2> QED BY <1>2, <2>1, <2>2
<1>5. UebaTyped'
  <2>1. offset \in 0..Len(topic') BY <1>1, <1>3, <1>4 DEF UebaTyped
  <2>2. \A j \in DOMAIN topic' : topic'[j] \in DOMAIN uebaEvents BY <1>1, <1>3, <1>4 DEF UebaTyped
  <2> QED BY <1>1, <1>2, <1>4, <2>1, <2>2 DEF UebaTyped
<1>6. DetectorFits'
  <2>1. detector.upTo \in Nat BY <1>1 DEF UebaTyped, Detector
  <2>2. detector.upTo <= Len(topic) => detector.upTo <= Len(topic') BY <1>3, <1>4, <2>1
  <2> QED BY <1>1, <1>2, <2>2 DEF DetectorFits
<1>7. ActedUpon' /\ (\A v \in UebaUsers : RowBehind(v)')
  BY <1>2 DEF UebaInv, ActedUpon, GrantsFollow, SessionEnded, RowBehind
<1>8. BurstsCovered'
  <2>1. detector.pc # "idle" => detector.upTo \in 0..Len(topic)
    BY <1>1 DEF UebaTyped, DetectorFits, Detector
  <2> QED BY <1>1, <1>2, <1>4, <2>1, StillCovered
<1> QED BY <1>5, <1>6, <1>7, <1>8 DEF UebaInv

----
(* Behaviour analytics: the loop. *)

\* A step of the loop that writes nothing but what it holds, or a row.
LEMMA LoopMoves ==
  ASSUME UebaInv, detector' \in Detector, DetectorFits', ActedUpon',
         alertRows \subseteq alertRows', alertRows' \subseteq Alert,
         hitRows' \subseteq alertRows', socRows' \subseteq hitRows',
         UNCHANGED <<uebaEvents, kept, publishing, topic, offset, sess, sessRow, uebaMode,
                     uebaRestarts>>,
         access' \in [UebaUsers \X UebaProjects -> {"active", "suspended", "revoked"}],
         detector'.pc # "idle" =>
           /\ detector.pc # "idle" /\ detector'.upTo = detector.upTo
           /\ detector'.tenants = detector.tenants
           /\ alertRows \cup detector.todo
                \cup (IF detector.pc = "grants" THEN detector.alerts ELSE {})
              \subseteq alertRows' \cup detector'.todo
                \cup (IF detector'.pc = "grants" THEN detector'.alerts ELSE {})
  PROVE  UebaInv'
<1>1. UebaTyped /\ DetectorFits /\ BurstsCovered BY DEF UebaInv
<1>2. UebaTyped' BY <1>1 DEF UebaTyped
<1>3. \A v \in UebaUsers : RowBehind(v)' BY DEF UebaInv, RowBehind
<1>4. BurstsCovered'
  <2>1. detector.pc # "idle" => detector.upTo \in 0..Len(topic)
    BY <1>1 DEF UebaTyped, DetectorFits, Detector
  <2> QED BY <1>1, <2>1, StillCovered
<1> QED BY <1>2, <1>3, <1>4 DEF UebaInv

LEMMA IdleFits ==
  /\ IdleDetector \in Detector /\ IdleDetector.pc = "idle"
  /\ detector' = IdleDetector => DetectorFits'
<1>1. IdleDetector \in Detector /\ IdleDetector.pc = "idle" BY DEF IdleDetector, Detector, DetectorSteps
<1>2. detector' = IdleDetector => DetectorFits' BY DEF IdleDetector, DetectorFits
<1> QED BY <1>1, <1>2

LEMMA AbortKeeps ==
  ASSUME UebaInv, AbortTick
  PROVE  UebaInv'
<1>1. /\ detector' = IdleDetector
      /\ UNCHANGED <<uebaEvents, kept, publishing, topic, offset, sess, sessRow, access, alertRows,
                     hitRows, socRows, uebaMode, uebaRestarts>>
  BY DEF AbortTick
<1>2. UebaTyped /\ ActedUpon BY DEF UebaInv
<1>3. detector' \in Detector /\ DetectorFits' /\ detector'.pc = "idle" BY <1>1, IdleFits
<1>4. ActedUpon' BY <1>1, <1>2, <1>3 DEF ActedUpon, GrantsFollow, SessionEnded
<1> QED BY <1>1, <1>2, <1>3, <1>4, LoopMoves DEF UebaTyped

LEMMA FetchRecordsKeeps ==
  ASSUME UebaInv, FetchRecords
  PROVE  UebaInv'
<1>1. UebaTyped /\ DetectorFits /\ BurstsCovered /\ ActedUpon BY DEF UebaInv
<1>2. PICK upTo \in offset + 1..Len(topic) :
        detector' = [IdleDetector EXCEPT
          !.pc = "tenants", !.upTo = upTo,
          !.tenants = {TenantOf[uebaEvents[topic[i]].user] : i \in offset + 1..upTo}]
  BY DEF FetchRecords
<1>3. /\ uebaMode = "stream" /\ detector.pc = "idle"
      /\ UNCHANGED <<uebaEvents, kept, publishing, topic, offset, sess, sessRow, access, alertRows,
                     hitRows, socRows, uebaMode, uebaRestarts>>
  BY DEF FetchRecords
<1> DEFINE read == {TenantOf[uebaEvents[topic[i]].user] : i \in offset + 1..upTo}
<1>4. /\ offset \in Nat /\ upTo \in Nat /\ offset < upTo /\ upTo <= Len(topic) /\ Len(topic) \in Nat
  BY <1>1 DEF UebaTyped
<1>5. \A i \in 1..upTo : topic[i] \in DOMAIN uebaEvents /\ uebaEvents[topic[i]].user \in UebaUsers
  <2>1. \A i \in 1..upTo : i \in DOMAIN topic BY <1>1, <1>4 DEF UebaTyped
  <2>2. \A i \in DOMAIN topic : topic[i] \in DOMAIN uebaEvents BY <1>1 DEF UebaTyped
  <2>3. \A i \in DOMAIN uebaEvents : uebaEvents[i] \in UebaSignal BY <1>1 DEF UebaTyped
  <2> QED BY <2>1, <2>2, <2>3 DEF UebaSignal
<1>6. read \subseteq {TenantOf[u] : u \in UebaUsers}
  <2>1. \A i \in offset + 1..upTo : i \in 1..upTo BY <1>4
  <2> QED BY <1>5, <2>1
<1>7. /\ detector'.pc = "tenants" /\ detector'.upTo = upTo /\ detector'.tenants = read
      /\ detector'.alerts = {} /\ detector'.todo = {} /\ detector'.saving = {}
      /\ detector'.current = {}
  BY <1>2 DEF IdleDetector
<1> HIDE DEF read
<1>8. detector' \in Detector
  <2>1. detector' = [pc |-> "tenants", upTo |-> upTo, tenants |-> read, alerts |-> {}, todo |-> {},
                     saving |-> {}, current |-> {}]
    BY <1>2 DEF IdleDetector, read
  <2> QED BY <1>4, <1>6, <2>1 DEF Detector, DetectorSteps
<1>9. UebaTyped' BY <1>1, <1>3, <1>8 DEF UebaTyped
<1>10. DetectorFits' BY <1>3, <1>4, <1>7 DEF DetectorFits
<1>11. ActedUpon' /\ (\A v \in UebaUsers : RowBehind(v)')
  BY <1>3, <1>7 DEF UebaInv, ActedUpon, GrantsFollow, SessionEnded, RowBehind
<1>12. BurstsCovered'
  <2> SUFFICES ASSUME NEW u \in UebaUsers, NEW r \in {2, 3}
               PROVE  /\ Covers(alertRows, Mine(uebaEvents, topic, kept, offset, u, BurstKind(r)), u, r)
                      /\ TenantOf[u] \notin read =>
                           Covers(alertRows, Mine(uebaEvents, topic, kept, upTo, u, BurstKind(r)), u, r)
    BY <1>3, <1>7 DEF BurstsCovered
  <2>1. Covers(alertRows, Mine(uebaEvents, topic, kept, offset, u, BurstKind(r)), u, r)
    BY <1>1, <1>3 DEF BurstsCovered
  <2>2. ASSUME TenantOf[u] \notin read
        PROVE  Mine(uebaEvents, topic, kept, upTo, u, BurstKind(r))
                 = Mine(uebaEvents, topic, kept, offset, u, BurstKind(r))
    <3>1. \A i \in offset + 1..upTo : uebaEvents[topic[i]].user # u BY <2>2 DEF read
    <3>2. \A i \in 1..upTo : i \in 1..offset \/ i \in offset + 1..upTo BY <1>4
    <3>3. \A i \in 1..offset : i \in 1..upTo BY <1>4
    <3> QED BY <3>1, <3>2, <3>3 DEF Mine
  <2> QED BY <2>1, <2>2
<1> QED BY <1>9, <1>10, <1>11, <1>12 DEF UebaInv

LEMMA EvaluateTenantKeeps ==
  ASSUME UebaInv, NEW t, EvaluateTenant(t)
  PROVE  UebaInv'
<1> DEFINE ids == SignalEvents(kept \cup Staged)
           users == {u \in UebaUsers : TenantOf[u] = t}
           new == {a \in EvaluateAlerts(ids, users) :
                     Signature(a) \notin {Signature(b) : b \in alertRows}}
<1>1. UebaTyped /\ DetectorFits /\ BurstsCovered /\ ActedUpon BY DEF UebaInv
<1>2. /\ detector.pc = "tenants" /\ t \in detector.tenants
      /\ detector' = [detector EXCEPT !.pc = "mitigate", !.tenants = @ \ {t},
                        !.alerts = new, !.todo = new]
      /\ UNCHANGED <<uebaEvents, kept, publishing, topic, offset, sess, sessRow, access, alertRows,
                     hitRows, socRows, uebaMode, uebaRestarts>>
  BY DEF EvaluateTenant
<1>3. /\ uebaMode = "stream" /\ detector.upTo \in Nat /\ detector.upTo <= Len(topic)
      /\ offset \in Nat /\ Len(topic) \in Nat /\ detector.alerts = {} /\ detector.todo = {}
      /\ detector.current = {}
  BY <1>1, <1>2 DEF UebaTyped, DetectorFits, Detector
<1>4. ids \subseteq DOMAIN uebaEvents
  <2>1. \A i \in offset + 1..detector.upTo : i \in DOMAIN topic BY <1>1, <1>3 DEF UebaTyped
  <2>2. Staged \subseteq DOMAIN uebaEvents BY <1>1, <2>1 DEF UebaTyped, Staged
  <2> QED BY <1>1, <2>2 DEF UebaTyped, SignalEvents
<1>5. users \in SUBSET UebaUsers OBVIOUS
<1> HIDE DEF ids, users
<1>6. new \in SUBSET Alert BY <1>1, <1>4, <1>5, EvaluationTyped
<1> HIDE DEF new
<1>7. /\ detector' \in Detector /\ detector'.pc = "mitigate" /\ detector'.upTo = detector.upTo
      /\ detector'.tenants = detector.tenants \ {t} /\ detector'.alerts = new
      /\ detector'.todo = new /\ detector'.current = detector.current
      /\ detector'.saving = detector.saving
  <2>1. detector \in Detector BY <1>1 DEF UebaTyped
  <2> QED BY <1>2, <1>6, <2>1 DEF Detector, DetectorSteps
<1>8. UebaTyped' BY <1>1, <1>2, <1>7 DEF UebaTyped
<1>9. DetectorFits' BY <1>1, <1>2, <1>3, <1>7 DEF DetectorFits
<1>10. ActedUpon' /\ (\A v \in UebaUsers : RowBehind(v)')
  BY <1>2, <1>7 DEF UebaInv, ActedUpon, GrantsFollow, SessionEnded, RowBehind
<1>11. BurstsCovered'
  <2> SUFFICES ASSUME NEW u \in UebaUsers, NEW r \in {2, 3}
               PROVE  /\ Covers(alertRows, Mine(uebaEvents, topic, kept, offset, u, BurstKind(r)), u, r)
                      /\ TenantOf[u] \notin detector.tenants \ {t} =>
                           Covers(alertRows \cup new,
                                  Mine(uebaEvents, topic, kept, detector.upTo, u, BurstKind(r)), u, r)
    BY <1>2, <1>7 DEF BurstsCovered
  <2> DEFINE mine == Mine(uebaEvents, topic, kept, detector.upTo, u, BurstKind(r))
             all == Of(ids, u, BurstKind(r))
  <2>1. Covers(alertRows, Mine(uebaEvents, topic, kept, offset, u, BurstKind(r)), u, r)
    BY <1>1, <1>3 DEF BurstsCovered
  <2>2. CASE TenantOf[u] \notin detector.tenants
    <3>1. Covers(alertRows \cup {} \cup {}, mine, u, r) BY <1>1, <1>2, <1>3, <2>2 DEF BurstsCovered
    <3> QED BY <2>1, <3>1, CoversMore
  <2>3. ASSUME TenantOf[u] = t PROVE Covers(alertRows \cup new, mine, u, r)
    <3>1. mine \subseteq all BY DEF Mine, Of, ids, SignalEvents, BurstKind
    <3>2. all \subseteq DOMAIN uebaEvents BY <1>4 DEF Of
    <3> HIDE DEF mine
    <3>3. /\ Cardinality(mine) \in Nat /\ Cardinality(all) \in Nat
          /\ Cardinality(mine) <= Cardinality(all)
      BY <1>1, <3>1, <3>2, FiniteEvents
    <3> SUFFICES ASSUME Cardinality(mine) >= Burst(r)
                 PROVE  \E a \in alertRows \cup new :
                          a.user = u /\ a.rule = r /\ a.count >= Cardinality(mine)
      BY DEF Covers
    <3>4. Cardinality(all) >= Burst(r) BY <3>3 DEF Burst
    <3>5. u \in users BY <2>3 DEF users
    <3>6. PICK a \in EvaluateAlerts(ids, users) :
            a.user = u /\ a.rule = r /\ a.count = Cardinality(all)
      BY <1>1, <1>4, <3>4, <3>5, EvaluationCovers
    <3>7. CASE a \in new BY <3>3, <3>6, <3>7
    <3>8. CASE a \notin new
      <4>1. PICK b \in alertRows : Signature(b) = Signature(a) BY <3>6, <3>8 DEF new
      <4>2. b.user = u /\ b.rule = r /\ b.count = Cardinality(all) BY <3>6, <4>1 DEF Signature
      <4> QED BY <3>3, <4>2
    <3> QED BY <3>7, <3>8
  <2> QED BY <2>1, <2>2, <2>3
<1> QED BY <1>8, <1>9, <1>10, <1>11 DEF UebaInv

\* The sessions of memory become stricter only.
LEMMA SessionsMitigated ==
  ASSUME UebaTyped, \A v \in UebaUsers : RowBehind(v), NEW f,
         sess' = [u \in UebaUsers |-> Mitigated(sess[u], f[u])], sessRow' = sessRow
  PROVE  /\ sess' \in [UebaUsers -> {OpenSession, StepUpSession, EndedSession}]
         /\ \A u \in UebaUsers : /\ RowBehind(u)'
                                 /\ sess[u] = EndedSession => sess'[u] = EndedSession
                                 /\ sess'[u] # sess[u] => sess'[u] # sessRow[u]
                                 /\ f[u] = TerminateSession => sess'[u] = EndedSession
<1>1. \A u \in UebaUsers : /\ sess[u] \in {OpenSession, StepUpSession, EndedSession}
                           /\ sessRow[u] \in {OpenSession, StepUpSession, EndedSession}
                           /\ sess'[u] = Mitigated(sess[u], f[u])
  BY DEF UebaTyped
<1>2. ASSUME NEW u \in UebaUsers
      PROVE  /\ sess'[u] \in {OpenSession, StepUpSession, EndedSession}
             /\ RowBehind(u)'
             /\ sess[u] = EndedSession => sess'[u] = EndedSession
             /\ sess'[u] # sess[u] => sess'[u] # sessRow[u]
             /\ f[u] = TerminateSession => sess'[u] = EndedSession
  BY <1>1, MitigatedFacts, SessionsDiffer DEF RowBehind
<1>3. sess' \in [UebaUsers -> {OpenSession, StepUpSession, EndedSession}] BY <1>2
<1> QED BY <1>2, <1>3

LEMMA MitigateSessionsKeeps ==
  ASSUME UebaInv, MitigateSessions
  PROVE  UebaInv'
<1> DEFINE f == [u \in UebaUsers |-> HighestAction(detector.alerts, u)]
           saving == {u \in UebaUsers : sess'[u] # sess[u]}
<1>1. UebaTyped /\ DetectorFits /\ BurstsCovered /\ ActedUpon /\ \A v \in UebaUsers : RowBehind(v)
  BY DEF UebaInv
<1>2. /\ detector.pc = "mitigate"
      /\ sess' = [u \in UebaUsers |-> Mitigated(sess[u], f[u])]
      /\ detector' = [detector EXCEPT !.pc = "sessions", !.saving = saving]
      /\ UNCHANGED <<uebaEvents, kept, publishing, topic, offset, sessRow, access, alertRows,
                     hitRows, socRows, uebaMode, uebaRestarts>>
  BY DEF MitigateSessions
<1>3. \A u \in UebaUsers : f[u] = HighestAction(detector.alerts, u) OBVIOUS
<1> HIDE DEF f
<1>4. /\ sess' \in [UebaUsers -> {OpenSession, StepUpSession, EndedSession}]
      /\ \A u \in UebaUsers : /\ RowBehind(u)'
                              /\ sess[u] = EndedSession => sess'[u] = EndedSession
                              /\ sess'[u] # sess[u] => sess'[u] # sessRow[u]
                              /\ f[u] = TerminateSession => sess'[u] = EndedSession
  BY <1>1, <1>2, SessionsMitigated
<1>5. detector \in Detector /\ detector.alerts \in SUBSET Alert BY <1>1 DEF UebaTyped, Detector
<1>6. /\ detector' \in Detector /\ detector'.pc = "sessions" /\ detector'.upTo = detector.upTo
      /\ detector'.tenants = detector.tenants /\ detector'.alerts = detector.alerts
      /\ detector'.todo = detector.todo /\ detector'.current = detector.current
      /\ detector'.saving = saving
  BY <1>2, <1>5 DEF Detector, DetectorSteps
<1>7. UebaTyped' BY <1>1, <1>2, <1>4, <1>6 DEF UebaTyped
<1>8. DetectorFits' BY <1>1, <1>2, <1>4, <1>6 DEF DetectorFits
<1>9. ActedUpon'
  <2> SUFFICES ASSUME uebaMode = "stream" PROVE ActedUpon' BY <1>2 DEF ActedUpon
  <2>1. \A a \in Alert : SessionEnded(a) => SessionEnded(a)' BY <1>4 DEF SessionEnded, Alert
  <2>2. \A a \in detector.alerts : SessionEnded(a)'
    <3> SUFFICES ASSUME NEW a \in detector.alerts, a.action = TerminateSession
                 PROVE  sess'[a.user] = EndedSession
      BY DEF SessionEnded
    <3>1. a.user \in UebaUsers BY <1>5 DEF Alert
    <3>2. f[a.user] = TerminateSession BY <1>3, <1>5, <3>1, HighestFound
    <3> QED BY <1>4, <3>1, <3>2
  <2>3. \A a : GrantsFollow(a) => GrantsFollow(a)' BY <1>2 DEF GrantsFollow
  <2>4. alertRows \subseteq Alert BY <1>1 DEF UebaTyped
  <2> QED BY <1>1, <1>2, <1>6, <2>1, <2>2, <2>3, <2>4 DEF ActedUpon
<1>10. BurstsCovered'
  <2>1. detector.upTo \in 0..Len(topic) BY <1>1, <1>2 DEF UebaTyped, DetectorFits, Detector
  <2> QED BY <1>1, <1>2, <1>6, <2>1, StillCovered
<1> QED BY <1>4, <1>7, <1>8, <1>9, <1>10 DEF UebaInv

LEMMA SaveActiveSessionKeeps ==
  ASSUME UebaInv, NEW u \in UebaUsers, SaveActiveSession(u)
  PROVE  UebaInv'
<1>1. UebaTyped /\ DetectorFits /\ BurstsCovered /\ ActedUpon /\ \A v \in UebaUsers : RowBehind(v)
  BY DEF UebaInv
<1>2. /\ detector.pc = "sessions" /\ sessRow' = [sessRow EXCEPT ![u] = sess[u]]
      /\ detector' = [detector EXCEPT !.saving = @ \ {u}]
      /\ UNCHANGED <<uebaEvents, kept, publishing, topic, offset, sess, access, alertRows,
                     hitRows, socRows, uebaMode, uebaRestarts>>
  BY DEF SaveActiveSession
<1>3. detector \in Detector BY <1>1 DEF UebaTyped
<1>4. /\ detector' \in Detector /\ detector'.pc = "sessions" /\ detector'.upTo = detector.upTo
      /\ detector'.tenants = detector.tenants /\ detector'.alerts = detector.alerts
      /\ detector'.todo = detector.todo /\ detector'.current = detector.current
      /\ detector'.saving = detector.saving \ {u}
  BY <1>2, <1>3 DEF Detector
<1>5. /\ sessRow' \in [UebaUsers -> {OpenSession, StepUpSession, EndedSession}]
      /\ sessRow'[u] = sess[u] /\ \A v \in UebaUsers : v # u => sessRow'[v] = sessRow[v]
  BY <1>1, <1>2 DEF UebaTyped
<1>6. UebaTyped' BY <1>1, <1>2, <1>4, <1>5 DEF UebaTyped
<1>7. DetectorFits' BY <1>1, <1>2, <1>4, <1>5 DEF DetectorFits
<1>8. ASSUME NEW v \in UebaUsers PROVE RowBehind(v)' BY <1>1, <1>2, <1>5, SessionsDiffer DEF RowBehind
<1>9. ActedUpon' BY <1>1, <1>2, <1>4 DEF ActedUpon, GrantsFollow, SessionEnded
<1>10. BurstsCovered'
  <2>1. detector.upTo \in 0..Len(topic) BY <1>1, <1>2 DEF UebaTyped, DetectorFits, Detector
  <2> QED BY <1>1, <1>2, <1>4, <2>1, StillCovered
<1> QED BY <1>6, <1>7, <1>8, <1>9, <1>10 DEF UebaInv

\* A step of the loop that leaves events, topic, sessions and grants alone.
LEMMA LoopGoesOn ==
  ASSUME UebaInv, detector.pc # "idle", detector'.pc # "idle",
         detector' \in Detector, DetectorFits',
         alertRows \subseteq alertRows', alertRows' \subseteq Alert,
         hitRows' \subseteq alertRows', socRows' \subseteq hitRows',
         UNCHANGED <<uebaEvents, kept, publishing, topic, offset, sess, sessRow, access, uebaMode,
                     uebaRestarts>>,
         detector'.upTo = detector.upTo, detector'.tenants = detector.tenants,
         uebaMode = "stream" =>
           /\ \A a \in alertRows' : GrantsFollow(a) /\ (uebaRestarts = 0 => SessionEnded(a))
           /\ detector'.pc \in {"sessions", "grants", "alert", "hit", "notify"} =>
                \A a \in detector'.alerts : SessionEnded(a)
           /\ detector'.pc = "grants" =>
                \A a \in detector'.alerts \ detector'.todo : GrantsFollow(a)
           /\ detector'.pc \in {"alert", "hit", "notify"} =>
                \A a \in detector'.alerts : GrantsFollow(a),
         alertRows \cup detector.todo
             \cup (IF detector.pc = "grants" THEN detector.alerts ELSE {})
           \subseteq alertRows' \cup detector'.todo
             \cup (IF detector'.pc = "grants" THEN detector'.alerts ELSE {})
  PROVE  UebaInv'
<1>1. ActedUpon'
  <2>1. \A a : (GrantsFollow(a) => GrantsFollow(a)') /\ (SessionEnded(a) => SessionEnded(a)')
    BY DEF GrantsFollow, SessionEnded
  <2> QED BY <2>1 DEF ActedUpon
<1>2. access' \in [UebaUsers \X UebaProjects -> {"active", "suspended", "revoked"}]
  BY DEF UebaInv, UebaTyped
<1> QED BY <1>1, <1>2, LoopMoves

LEMMA SessionsSavedKeeps ==
  ASSUME UebaInv, SessionsSaved
  PROVE  UebaInv'
<1>1. UebaTyped /\ DetectorFits /\ ActedUpon /\ detector \in Detector BY DEF UebaInv, UebaTyped
<1>2. /\ detector.pc = "sessions" /\ detector.saving = {}
      /\ detector' = [detector EXCEPT !.pc = "grants"]
      /\ UNCHANGED <<uebaEvents, kept, publishing, topic, offset, sess, sessRow, access, alertRows,
                     hitRows, socRows, uebaMode, uebaRestarts>>
  BY DEF SessionsSaved
<1>3. /\ detector' \in Detector /\ detector'.pc = "grants" /\ detector'.upTo = detector.upTo
      /\ detector'.tenants = detector.tenants /\ detector'.alerts = detector.alerts
      /\ detector'.todo = detector.todo /\ detector'.current = detector.current
      /\ detector'.saving = detector.saving
  BY <1>1, <1>2 DEF Detector, DetectorSteps
<1>4. DetectorFits' /\ detector.todo = detector.alerts BY <1>1, <1>2, <1>3 DEF DetectorFits
<1>5. alertRows \subseteq Alert /\ hitRows \subseteq alertRows /\ socRows \subseteq hitRows
  BY <1>1 DEF UebaTyped
<1> QED BY <1>1, <1>2, <1>3, <1>4, <1>5, LoopGoesOn DEF ActedUpon

LEMMA GrantsSignalledKeeps ==
  ASSUME UebaInv, GrantsSignalled
  PROVE  UebaInv'
<1>1. UebaTyped /\ DetectorFits /\ ActedUpon /\ detector \in Detector BY DEF UebaInv, UebaTyped
<1>2. /\ detector.pc = "grants" /\ detector.todo = {}
      /\ detector' = [detector EXCEPT !.pc = "alert", !.todo = detector.alerts]
      /\ UNCHANGED <<uebaEvents, kept, publishing, topic, offset, sess, sessRow, access, alertRows,
                     hitRows, socRows, uebaMode, uebaRestarts>>
  BY DEF GrantsSignalled
<1>3. /\ detector' \in Detector /\ detector'.pc = "alert" /\ detector'.upTo = detector.upTo
      /\ detector'.tenants = detector.tenants /\ detector'.alerts = detector.alerts
      /\ detector'.todo = detector.alerts /\ detector'.current = detector.current
      /\ detector'.saving = detector.saving
  BY <1>1, <1>2 DEF Detector, DetectorSteps
<1>4. DetectorFits' BY <1>1, <1>2, <1>3 DEF DetectorFits
<1>5. alertRows \subseteq Alert /\ hitRows \subseteq alertRows /\ socRows \subseteq hitRows
  BY <1>1 DEF UebaTyped
<1> QED BY <1>1, <1>2, <1>3, <1>4, <1>5, LoopGoesOn DEF ActedUpon

LEMMA SignalGrantsKeeps ==
  ASSUME UebaInv, NEW a \in detector.todo, SignalGrants(a)
  PROVE  UebaInv'
<1>1. UebaTyped /\ DetectorFits /\ ActedUpon /\ detector \in Detector BY DEF UebaInv, UebaTyped
<1>2. /\ detector.pc = "grants"
      /\ access' = [access EXCEPT ![<<a.user, a.project>>] = Signalled(@, a.action)]
      /\ detector' = [detector EXCEPT !.todo = @ \ {a}]
      /\ UNCHANGED <<uebaEvents, kept, publishing, topic, offset, sess, sessRow, alertRows,
                     hitRows, socRows, uebaMode, uebaRestarts>>
  BY DEF SignalGrants
<1>3. /\ detector' \in Detector /\ detector'.pc = "grants" /\ detector'.upTo = detector.upTo
      /\ detector'.tenants = detector.tenants /\ detector'.alerts = detector.alerts
      /\ detector'.todo = detector.todo \ {a} /\ detector'.current = detector.current
      /\ detector'.saving = detector.saving
  BY <1>1, <1>2 DEF Detector
<1>4. DetectorFits' BY <1>1, <1>2, <1>3 DEF DetectorFits
<1>5. a \in Alert /\ alertRows \subseteq Alert /\ detector.alerts \subseteq Alert
  BY <1>1 DEF UebaTyped, Detector
<1>6. <<a.user, a.project>> \in UebaUsers \X UebaProjects BY <1>5 DEF Alert
<1>7. \A g \in UebaUsers \X UebaProjects :
        /\ access[g] \in {"active", "suspended", "revoked"}
        /\ access'[g] = IF g = <<a.user, a.project>> THEN Signalled(access[g], a.action)
                        ELSE access[g]
  BY <1>1, <1>2 DEF UebaTyped
<1>8. \A status \in {"active", "suspended", "revoked"} :
        /\ Signalled(status, a.action) \in {"active", "suspended", "revoked"}
        /\ status = "revoked" => Signalled(status, a.action) = "revoked"
        /\ status # "active" => Signalled(status, a.action) # "active"
        /\ a.action = SuspendPermissions => Signalled(status, a.action) # "active"
        /\ a.action = TerminateSession => Signalled(status, a.action) = "revoked"
  BY DEF Signalled, SuspendPermissions, TerminateSession
<1>9. access' \in [UebaUsers \X UebaProjects -> {"active", "suspended", "revoked"}]
  <2>1. DOMAIN access' = UebaUsers \X UebaProjects BY <1>1, <1>2 DEF UebaTyped
  <2>2. \A g \in UebaUsers \X UebaProjects : access'[g] \in {"active", "suspended", "revoked"}
    BY <1>7, <1>8
  <2>3. access' = [g \in DOMAIN access' |-> access'[g]] BY <1>2
  <2> QED BY <2>1, <2>2, <2>3
<1>10. ASSUME NEW b \in Alert PROVE /\ GrantsFollow(b) => GrantsFollow(b)'
                                    /\ b = a => GrantsFollow(b)'
                                    /\ SessionEnded(b) => SessionEnded(b)'
  <2>1. <<b.user, b.project>> \in UebaUsers \X UebaProjects BY DEF Alert
  <2>2. access[b.user, b.project] = access[<<b.user, b.project>>]
        /\ access'[b.user, b.project] = access'[<<b.user, b.project>>]
    OBVIOUS
  <2> QED BY <1>2, <1>7, <1>8, <2>1, <2>2 DEF GrantsFollow, SessionEnded
<1>11. ActedUpon' BY <1>1, <1>2, <1>3, <1>5, <1>10 DEF ActedUpon
<1>12. alertRows \subseteq Alert /\ hitRows \subseteq alertRows /\ socRows \subseteq hitRows
  BY <1>1 DEF UebaTyped
<1>13. detector.todo \subseteq detector.alerts BY <1>1 DEF DetectorFits
<1> QED BY <1>2, <1>3, <1>4, <1>9, <1>11, <1>12, <1>13, LoopMoves

LEMMA SaveUebaAlertKeeps ==
  ASSUME UebaInv, NEW a \in detector.todo, SaveUebaAlert(a)
  PROVE  UebaInv'
<1>1. UebaTyped /\ DetectorFits /\ ActedUpon /\ detector \in Detector BY DEF UebaInv, UebaTyped
<1>2. /\ detector.pc = "alert" /\ alertRows' = alertRows \cup {a}
      /\ detector' = [detector EXCEPT !.pc = "hit", !.todo = @ \ {a}, !.current = {a}]
      /\ UNCHANGED <<uebaEvents, kept, publishing, topic, offset, sess, sessRow, access,
                     hitRows, socRows, uebaMode, uebaRestarts>>
  BY DEF SaveUebaAlert
<1>3. a \in detector.alerts /\ a \in Alert BY <1>1 DEF DetectorFits, Detector
<1>4. /\ detector' \in Detector /\ detector'.pc = "hit" /\ detector'.upTo = detector.upTo
      /\ detector'.tenants = detector.tenants /\ detector'.alerts = detector.alerts
      /\ detector'.todo = detector.todo \ {a} /\ detector'.current = {a}
      /\ detector'.saving = detector.saving
  BY <1>1, <1>2, <1>3 DEF Detector, DetectorSteps
<1>5. DetectorFits' BY <1>1, <1>2, <1>3, <1>4 DEF DetectorFits
<1>6. alertRows' \subseteq Alert /\ hitRows \subseteq alertRows' /\ socRows \subseteq hitRows
  BY <1>1, <1>2, <1>3 DEF UebaTyped
<1>7. uebaMode = "stream" => GrantsFollow(a) /\ SessionEnded(a) BY <1>1, <1>2, <1>3 DEF ActedUpon
<1>8. uebaMode = "stream" =>
        /\ \A b \in alertRows' : GrantsFollow(b) /\ (uebaRestarts = 0 => SessionEnded(b))
        /\ \A b \in detector'.alerts : SessionEnded(b) /\ GrantsFollow(b)
  BY <1>1, <1>2, <1>4, <1>7 DEF ActedUpon
<1>9. alertRows \cup detector.todo \subseteq alertRows' \cup detector'.todo BY <1>2, <1>4
<1> QED BY <1>2, <1>4, <1>5, <1>6, <1>8, <1>9, LoopGoesOn

LEMMA SaveUebaRuleHitKeeps ==
  ASSUME UebaInv, SaveUebaRuleHit
  PROVE  UebaInv'
<1>1. UebaTyped /\ DetectorFits /\ ActedUpon /\ detector \in Detector BY DEF UebaInv, UebaTyped
<1>2. /\ detector.pc = "hit" /\ hitRows' = hitRows \cup detector.current
      /\ detector' = [detector EXCEPT !.pc = "notify"]
      /\ UNCHANGED <<uebaEvents, kept, publishing, topic, offset, sess, sessRow, access, alertRows,
                     socRows, uebaMode, uebaRestarts>>
  BY DEF SaveUebaRuleHit
<1>3. /\ detector' \in Detector /\ detector'.pc = "notify" /\ detector'.upTo = detector.upTo
      /\ detector'.tenants = detector.tenants /\ detector'.alerts = detector.alerts
      /\ detector'.todo = detector.todo /\ detector'.current = detector.current
      /\ detector'.saving = detector.saving
  BY <1>1, <1>2 DEF Detector, DetectorSteps
<1>4. DetectorFits' /\ detector.current \subseteq alertRows BY <1>1, <1>2, <1>3 DEF DetectorFits
<1>5. alertRows' \subseteq Alert /\ hitRows' \subseteq alertRows' /\ socRows' \subseteq hitRows'
  BY <1>1, <1>2, <1>4 DEF UebaTyped
<1> QED BY <1>1, <1>2, <1>3, <1>4, <1>5, LoopGoesOn DEF ActedUpon

LEMMA QueueSocNotificationKeeps ==
  ASSUME UebaInv, QueueSocNotification
  PROVE  UebaInv'
<1>1. UebaTyped /\ DetectorFits /\ ActedUpon /\ detector \in Detector BY DEF UebaInv, UebaTyped
<1>2. /\ detector.pc = "notify" /\ socRows' = socRows \cup detector.current
      /\ detector' = [detector EXCEPT !.pc = "alert", !.current = {}]
      /\ UNCHANGED <<uebaEvents, kept, publishing, topic, offset, sess, sessRow, access, alertRows,
                     hitRows, uebaMode, uebaRestarts>>
  BY DEF QueueSocNotification
<1>3. /\ detector' \in Detector /\ detector'.pc = "alert" /\ detector'.upTo = detector.upTo
      /\ detector'.tenants = detector.tenants /\ detector'.alerts = detector.alerts
      /\ detector'.todo = detector.todo /\ detector'.current = {}
      /\ detector'.saving = detector.saving
  BY <1>1, <1>2 DEF Detector, DetectorSteps
<1>4. DetectorFits' /\ detector.current \subseteq hitRows BY <1>1, <1>2, <1>3 DEF DetectorFits
<1>5. alertRows' \subseteq Alert /\ hitRows' \subseteq alertRows' /\ socRows' \subseteq hitRows'
  BY <1>1, <1>2, <1>4 DEF UebaTyped
<1> QED BY <1>1, <1>2, <1>3, <1>4, <1>5, LoopGoesOn DEF ActedUpon

LEMMA TenantDoneKeeps ==
  ASSUME UebaInv, TenantDone
  PROVE  UebaInv'
<1>1. UebaTyped /\ DetectorFits /\ ActedUpon /\ detector \in Detector BY DEF UebaInv, UebaTyped
<1>2. /\ detector.pc = "alert" /\ detector.todo = {}
      /\ detector' = [detector EXCEPT !.pc = "tenants", !.alerts = {}]
      /\ UNCHANGED <<uebaEvents, kept, publishing, topic, offset, sess, sessRow, access, alertRows,
                     hitRows, socRows, uebaMode, uebaRestarts>>
  BY DEF TenantDone
<1>3. /\ detector' \in Detector /\ detector'.pc = "tenants" /\ detector'.upTo = detector.upTo
      /\ detector'.tenants = detector.tenants /\ detector'.alerts = {}
      /\ detector'.todo = detector.todo /\ detector'.current = detector.current
      /\ detector'.saving = detector.saving
  BY <1>1, <1>2 DEF Detector, DetectorSteps
<1>4. DetectorFits' BY <1>1, <1>2, <1>3 DEF DetectorFits
<1>5. alertRows' \subseteq Alert /\ hitRows' \subseteq alertRows' /\ socRows' \subseteq hitRows'
  BY <1>1, <1>2 DEF UebaTyped
<1> QED BY <1>1, <1>2, <1>3, <1>4, <1>5, LoopGoesOn DEF ActedUpon

LEMMA SaveStreamOffsetKeeps ==
  ASSUME UebaInv, SaveStreamOffset
  PROVE  UebaInv'
<1>1. UebaTyped /\ DetectorFits /\ ActedUpon /\ BurstsCovered BY DEF UebaInv
<1>2. /\ detector.pc = "tenants" /\ detector.tenants = {} /\ detector' = IdleDetector
      /\ offset' = detector.upTo \/ offset' = offset
      /\ UNCHANGED <<uebaEvents, kept, publishing, topic, sess, sessRow, access, alertRows,
                     hitRows, socRows, uebaMode, uebaRestarts>>
  BY DEF SaveStreamOffset
<1>3. /\ detector.upTo \in 0..Len(topic) /\ detector.alerts = {} /\ detector.todo = {}
  BY <1>1, <1>2 DEF UebaTyped, DetectorFits, Detector
<1>4. detector' \in Detector /\ DetectorFits' /\ detector'.pc = "idle" BY <1>2, IdleFits
<1>5. UebaTyped' BY <1>1, <1>2, <1>3, <1>4 DEF UebaTyped
<1>6. ActedUpon' /\ (\A v \in UebaUsers : RowBehind(v)')
  BY <1>2, <1>4 DEF UebaInv, ActedUpon, GrantsFollow, SessionEnded, RowBehind
<1>7. BurstsCovered'
  <2> SUFFICES ASSUME uebaMode = "stream", NEW u \in UebaUsers, NEW r \in {2, 3}
               PROVE  Covers(alertRows, Mine(uebaEvents, topic, kept, offset', u, BurstKind(r)), u, r)
    BY <1>2, <1>4 DEF BurstsCovered
  <2>1. Covers(alertRows, Mine(uebaEvents, topic, kept, offset, u, BurstKind(r)), u, r)
    BY <1>1 DEF BurstsCovered
  <2>2. Covers(alertRows \cup {} \cup {},
               Mine(uebaEvents, topic, kept, detector.upTo, u, BurstKind(r)), u, r)
    BY <1>1, <1>2, <1>3 DEF BurstsCovered
  <2>3. alertRows \cup {} \cup {} = alertRows OBVIOUS
  <2> QED BY <1>2, <2>1, <2>2, <2>3
<1> QED BY <1>4, <1>5, <1>6, <1>7 DEF UebaInv

----
(* Behaviour analytics: without a database, restarts, and the theorems. *)

LEMMA LegacyAlertsKeeps ==
  ASSUME UebaInv, NEW t, LegacyAlerts(t)
  PROVE  UebaInv'
<1> DEFINE ids == SignalEvents(kept)
           users == {u \in UebaUsers : TenantOf[u] = t}
           alerts == EvaluateAlerts(ids, users)
           f == [u \in UebaUsers |-> HighestAction(alerts, u)]
<1>1. UebaTyped /\ DetectorFits /\ \A v \in UebaUsers : RowBehind(v) BY DEF UebaInv
<1>2. /\ uebaMode = "legacy"
      /\ sess' = [u \in UebaUsers |-> Mitigated(sess[u], f[u])]
      /\ access' = [g \in DOMAIN access |->
           IF HighestAction(alerts, g[1]) = SuspendPermissions
           THEN Signalled(access[g], SuspendPermissions) ELSE access[g]]
      /\ alertRows' = alertRows \cup alerts
      /\ UNCHANGED <<uebaEvents, kept, publishing, topic, offset, detector, sessRow, hitRows,
                     socRows, uebaMode, uebaRestarts>>
  BY DEF LegacyAlerts
<1>3. ids \subseteq DOMAIN uebaEvents /\ users \in SUBSET UebaUsers BY <1>1 DEF UebaTyped, SignalEvents
<1>4. alerts \subseteq Alert
  <2> HIDE DEF ids, users
  <2> QED BY <1>1, <1>3, EvaluationTyped
<1> HIDE DEF f, alerts
<1>5. /\ sess' \in [UebaUsers -> {OpenSession, StepUpSession, EndedSession}]
      /\ \A u \in UebaUsers : RowBehind(u)'
  BY <1>1, <1>2, SessionsMitigated
<1>6. access' \in [UebaUsers \X UebaProjects -> {"active", "suspended", "revoked"}]
  <2>1. \A g \in UebaUsers \X UebaProjects :
          /\ access[g] \in {"active", "suspended", "revoked"}
          /\ Signalled(access[g], SuspendPermissions) \in {"active", "suspended", "revoked"}
    BY <1>1 DEF UebaTyped, Signalled, SuspendPermissions, TerminateSession
  <2>2. DOMAIN access = UebaUsers \X UebaProjects BY <1>1 DEF UebaTyped
  <2> QED BY <1>2, <2>1, <2>2
<1>7. detector = IdleDetector BY <1>1, <1>2 DEF DetectorFits
<1>8. UebaTyped' BY <1>1, <1>2, <1>4, <1>5, <1>6 DEF UebaTyped
<1>9. DetectorFits' BY <1>2, <1>7, IdleFits
<1>10. ActedUpon' /\ BurstsCovered' BY <1>2 DEF ActedUpon, BurstsCovered
<1> QED BY <1>5, <1>8, <1>9, <1>10 DEF UebaInv

LEMMA UebaRestartKeeps ==
  ASSUME UebaInv, UebaRestart
  PROVE  UebaInv'
<1>1. UebaTyped /\ DetectorFits /\ ActedUpon /\ BurstsCovered BY DEF UebaInv
<1>2. /\ publishing' = {} /\ detector' = IdleDetector /\ sess' = sessRow
      /\ uebaRestarts' = uebaRestarts + 1
      /\ UNCHANGED <<uebaEvents, kept, topic, offset, sessRow, access, alertRows, hitRows,
                     socRows, uebaMode>>
  BY DEF UebaRestart
<1>3. detector' \in Detector /\ DetectorFits' /\ detector'.pc = "idle" BY <1>2, IdleFits
<1>4. UebaTyped' BY <1>1, <1>2, <1>3 DEF UebaTyped
<1>5. uebaRestarts' # 0 BY <1>1, <1>2 DEF UebaTyped
<1>6. ActedUpon' /\ (\A v \in UebaUsers : RowBehind(v)')
  BY <1>1, <1>2, <1>3, <1>5, SessionsDiffer DEF ActedUpon, GrantsFollow, RowBehind
<1>7. BurstsCovered' BY <1>1, <1>2, <1>3, StillCovered
<1> QED BY <1>3, <1>4, <1>6, <1>7 DEF UebaInv

LEMMA UebaNextKeeps ==
  ASSUME UebaInv, [UebaNext]_uebaVars
  PROVE  UebaInv'
<1>1. ASSUME NEW u \in UebaUsers, NEW kind \in SignalKinds, NEW p \in UebaProjects,
             RecordSignal(u, kind, p)
      PROVE  UebaInv'
  BY <1>1, RecordSignalKeeps
<1>2. ASSUME NEW i \in publishing, PublishAuditEvent(i) PROVE UebaInv' BY <1>2, PublishKeeps
<1>3. CASE Detect
  <2>1. CASE FetchRecords BY <2>1, FetchRecordsKeeps
  <2>2. CASE MitigateSessions BY <2>2, MitigateSessionsKeeps
  <2>3. CASE SessionsSaved BY <2>3, SessionsSavedKeeps
  <2>4. CASE GrantsSignalled BY <2>4, GrantsSignalledKeeps
  <2>5. CASE SaveUebaRuleHit BY <2>5, SaveUebaRuleHitKeeps
  <2>6. CASE QueueSocNotification BY <2>6, QueueSocNotificationKeeps
  <2>7. CASE TenantDone BY <2>7, TenantDoneKeeps
  <2>8. CASE SaveStreamOffset BY <2>8, SaveStreamOffsetKeeps
  <2>9. ASSUME NEW t \in {TenantOf[u] : u \in UebaUsers}, EvaluateTenant(t) PROVE UebaInv'
    BY <2>9, EvaluateTenantKeeps
  <2>10. ASSUME NEW u \in UebaUsers, SaveActiveSession(u) PROVE UebaInv' BY <2>10, SaveActiveSessionKeeps
  <2>11. ASSUME NEW a \in detector.todo, SignalGrants(a) \/ SaveUebaAlert(a) PROVE UebaInv'
    BY <2>11, SignalGrantsKeeps, SaveUebaAlertKeeps
  <2> QED BY <1>3, <2>1, <2>2, <2>3, <2>4, <2>5, <2>6, <2>7, <2>8, <2>9, <2>10, <2>11 DEF Detect
<1>4. CASE EvaluationFails \/ SessionSaveFails \/ GrantSignalFails \/ AlertSaveFails
  BY <1>4, AbortKeeps DEF EvaluationFails, SessionSaveFails, GrantSignalFails, AlertSaveFails
<1>5. ASSUME NEW t \in {TenantOf[u] : u \in UebaUsers}, LegacyAlerts(t) PROVE UebaInv'
  BY <1>5, LegacyAlertsKeeps
<1>6. CASE UebaRestart BY <1>6, UebaRestartKeeps
<1>7. CASE UNCHANGED uebaVars
  BY <1>7 DEF uebaVars, UebaInv, UebaTyped, RowBehind, DetectorFits, ActedUpon, GrantsFollow,
              SessionEnded, BurstsCovered
<1> QED BY <1>1, <1>2, <1>3, <1>4, <1>5, <1>6, <1>7 DEF UebaNext

\* At every step of the loop of stage11_ueba.rs, what is on record was acted upon and the
\* alerts in hand have ended their sessions, then changed their grants, before they are
\* stored; and up to where the loop has read, what is on record or about to be covers
\* every burst of the tenants it is done with.
THEOREM UebaInvHolds == UebaSpec => []UebaInv
BY UebaInitHolds, UebaNextKeeps, PTL DEF UebaSpec

LEMMA InvDetectionsHold == UebaInv => DetectionsHold
<1> SUFFICES ASSUME UebaInv PROVE DetectionsHold OBVIOUS
<1>1. UebaTyped /\ DetectorFits /\ ActedUpon /\ BurstsCovered BY DEF UebaInv
<1>2. UebaTypeOK
  <2>1. detector \in Detector BY <1>1 DEF UebaTyped
  <2>2. detector.pc \in {"hit", "notify"} <=> Cardinality(detector.current) = 1
    <3>1. CASE detector.pc \in {"hit", "notify"} BY <1>1, <3>1, FS_Singleton DEF DetectorFits
    <3>2. CASE detector.pc \notin {"hit", "notify"} BY <1>1, <3>2, FS_EmptySet DEF DetectorFits
    <3> QED BY <3>1, <3>2
  <2>3. \A u \in UebaUsers : {sess[u], sessRow[u]} \subseteq [revoked : BOOLEAN, stepUp : BOOLEAN]
    <3>1. {OpenSession, StepUpSession, EndedSession} \subseteq [revoked : BOOLEAN, stepUp : BOOLEAN]
      BY DEF OpenSession, StepUpSession, EndedSession
    <3> QED BY <1>1, <3>1 DEF UebaTyped
  <2>4. \A u \in UebaUsers, p \in UebaProjects :
          access[u, p] \in {"active", "suspended", "revoked"}
    BY <1>1 DEF UebaTyped
  <2>5. detector.pc \in {"idle", "tenants", "evaluate", "mitigate", "sessions", "grants",
                         "alert", "hit", "notify"}
    BY <2>1 DEF Detector, DetectorSteps
  <2> QED BY <1>1, <2>2, <2>3, <2>4, <2>5 DEF UebaTypeOK, UebaTyped, DetectorFits
<1>3. OffsetCovers
  <2> SUFFICES ASSUME uebaMode = "stream", NEW u \in UebaUsers, NEW r \in {2, 3}
               PROVE  LET mine == Of(ReadEvents, u, IF r = 2 THEN "export" ELSE "denied")
                      IN  Cardinality(mine) >= (IF r = 2 THEN 3 ELSE 2) =>
                            \E a \in alertRows : /\ a.user = u /\ a.rule = r
                                                 /\ a.count >= Cardinality(mine)
    BY DEF OffsetCovers
  <2>1. Of(ReadEvents, u, BurstKind(r)) = Mine(uebaEvents, topic, kept, offset, u, BurstKind(r))
    BY DEF Of, ReadEvents, Mine
  <2>2. Covers(alertRows, Of(ReadEvents, u, BurstKind(r)), u, r) BY <1>1, <2>1 DEF BurstsCovered
  <2> QED BY <2>2 DEF Covers, BurstKind, Burst
<1>4. AlertsEnforced
  <2> SUFFICES ASSUME uebaMode = "stream", NEW a \in alertRows
               PROVE  /\ a.action = SuspendPermissions => access[a.user, a.project] # "active"
                      /\ a.action = TerminateSession => access[a.user, a.project] = "revoked"
                      /\ a.action = TerminateSession /\ uebaRestarts = 0 => sess[a.user].revoked
    BY DEF AlertsEnforced
  <2>1. GrantsFollow(a) /\ (uebaRestarts = 0 => SessionEnded(a)) BY <1>1 DEF ActedUpon
  <2>2. EndedSession.revoked BY DEF EndedSession
  <2> QED BY <2>1, <2>2 DEF GrantsFollow, SessionEnded
<1> QED BY <1>2, <1>3, <1>4 DEF DetectionsHold

\* Detections hold through failures and restarts of the loop, for any users, projects,
\* tenants and numbers of events: no burst before the saved offset of stage11_ueba.rs is
\* without an alert, and none is on record whose sessions and grants were not acted upon.
THEOREM DetectionsHoldAlways == UebaSpec => []DetectionsHold
BY UebaInvHolds, InvDetectionsHold, PTL

----
(* Views: what masking does to a text. *)

LEMMA FirstOf ==
  ASSUME NEW S \in SUBSET Nat, S # {}
  PROVE  \E i \in S : \A j \in 1..(i - 1) : j \notin S
<1>1. PICK i \in S : \A y \in S : ~ (<<y, i>> \in OpToRel(<, Nat)) BY NatLessThanWellFounded, WFMin
<1>2. ASSUME NEW j \in 1..(i - 1), j \in S PROVE FALSE
  <2>1. <<j, i>> \in OpToRel(<, Nat) BY <1>2 DEF OpToRel
  <2> QED BY <1>1, <1>2, <2>1
<1> QED BY <1>2

LEMMA FirstAtFound ==
  ASSUME NEW t \in Seq(Nat), At \in Range(t)
  PROVE  /\ FirstAt(t) \in 1..Len(t) /\ t[FirstAt(t)] = At
         /\ \A j \in 1..(FirstAt(t) - 1) : t[j] # At
         /\ \A i \in 1..Len(t) : t[i] = At /\ (\A j \in 1..(i - 1) : t[j] # At) => FirstAt(t) = i
<1> DEFINE S == {i \in DOMAIN t : t[i] = At}
<1>1. S # {} /\ S \subseteq Nat BY DEF Range
<1>2. PICK i \in S : \A j \in 1..(i - 1) : j \notin S BY <1>1, FirstOf
<1>3. \A j \in 1..(i - 1) : t[j] # At BY <1>2
<1>4. i \in DOMAIN t /\ t[i] = At /\ \A j \in 1..(i - 1) : t[j] # At BY <1>2, <1>3
<1>5. /\ FirstAt(t) \in DOMAIN t /\ t[FirstAt(t)] = At
      /\ \A j \in 1..(FirstAt(t) - 1) : t[j] # At
  BY <1>4 DEF FirstAt
<1> QED BY <1>5

LEMMA EmailShape ==
  ASSUME NEW t \in Seq(Nat), At \in Range(t)
  PROVE  LET m == MaskValue("email", t)
         IN  /\ m \in Seq(Nat)
             /\ \/ Len(m) > 3 /\ m[1] = Star /\ m[4] = At
                \/ Len(m) > 4 /\ m[1] # At /\ m[2] = Star /\ m[3] = Star /\ m[4] = Star /\ m[5] = At
<1> DEFINE at == FirstAt(t)
<1>1. PICK L \in Nat : Len(t) = L OBVIOUS
<1>2. at \in 1..L /\ t[at] = At /\ \A j \in 1..(at - 1) : t[j] # At BY <1>1, FirstAtFound
<1>3. MaskValue("email", t) = Starred(t, IF at = 1 THEN 0 ELSE 1, 3, at) BY DEF MaskValue
<1> HIDE DEF at
<1>4. CASE at = 1
  <2> DEFINE m == Starred(t, 0, 3, 1)
  <2>1. m \in Seq(Nat) /\ Len(m) = L + 3 /\ m[1] = Star /\ m[4] = t[1]
    BY <1>1, <1>2, <1>4 DEF Starred, Star
  <2> HIDE DEF m
  <2>2. L >= 1 BY <1>2
  <2> QED BY <1>2, <1>3, <1>4, <2>1, <2>2 DEF m
<1>5. CASE at # 1
  <2> DEFINE m == Starred(t, 1, 3, at)
  <2>1. m \in Seq(Nat) /\ Len(m) = L - at + 5 BY <1>1, <1>2 DEF Starred, Star
  <2>2. m[1] = t[1] /\ m[2] = Star /\ m[3] = Star /\ m[4] = Star /\ m[5] = t[at] BY <1>1, <1>2 DEF Starred
  <2> HIDE DEF m
  <2>3. t[1] # At /\ L - at + 5 > 4 BY <1>2, <1>5
  <2> QED BY <1>2, <1>3, <1>5, <2>1, <2>2, <2>3 DEF m
<1> QED BY <1>4, <1>5

LEMMA PhoneShape ==
  ASSUME NEW t \in Seq(Nat), Len(t) >= 7
  PROVE  LET m == MaskValue("phone", t)
         IN  m \in Seq(Nat) /\ Len(m) = 11 /\ \A i \in 4..7 : m[i] = Star
<1>1. PICK L \in Nat : Len(t) = L OBVIOUS
<1>2. MaskValue("phone", t) = Starred(t, 3, 4, L - 3) BY <1>1 DEF MaskValue
<1> DEFINE e(i) == IF i <= 3 THEN t[i] ELSE IF i <= 7 THEN Star ELSE t[i - 11 + L]
           m == [i \in 1..11 |-> e(i)]
<1>3. Starred(t, 3, 4, L - 3) = m BY <1>1 DEF Starred
<1>4. ASSUME NEW i \in 1..11 PROVE e(i) \in Nat
  <2>1. i > 7 => i - 11 + L \in 1..L BY <1>1
  <2> QED BY <1>1, <2>1 DEF Star
<1>5. \A i \in 4..7 : i \in 1..11 /\ e(i) = Star OBVIOUS
<1> HIDE DEF e
<1>6. m \in Seq(Nat) /\ Len(m) = 11 /\ \A i \in 4..7 : m[i] = Star BY <1>4, <1>5
<1> HIDE DEF m
<1> QED BY <1>2, <1>3, <1>6

\* The other masks are stars.
LEMMA MaskTyped ==
  ASSUME NEW s \in Strategies, NEW t \in Seq(Nat)
  PROVE  MaskValue(s, t) \in Seq(Nat)
<1>1. CASE s = "email" /\ At \in Range(t) BY <1>1, EmailShape
<1>2. CASE s = "phone" /\ Len(t) >= 7 BY <1>2, PhoneShape
<1>3. CASE ~(s = "email" /\ At \in Range(t)) /\ ~(s = "phone" /\ Len(t) >= 7)
  BY <1>3 DEF MaskValue, Strategies, Stars, Star
<1> QED BY <1>1, <1>2, <1>3

\* A masked text contains a star.
LEMMA MaskShows ==
  ASSUME NEW s \in Strategies, s # "none", NEW t \in Seq(Nat)
  PROVE  ~(Range(MaskValue(s, t)) \subseteq Digits)
<1> DEFINE m == MaskValue(s, t)
<1>1. \E i \in DOMAIN m : m[i] = Star
  <2>1. CASE s = "email" /\ At \in Range(t)
    <3> HIDE DEF m
    <3>1. m \in Seq(Nat) /\ Len(m) > 3 /\ (m[1] = Star \/ m[2] = Star) BY <2>1, EmailShape DEF m
    <3> QED BY <3>1
  <2>2. CASE s = "phone" /\ Len(t) >= 7 BY <2>2, PhoneShape
  <2>3. CASE ~(s = "email" /\ At \in Range(t)) /\ ~(s = "phone" /\ Len(t) >= 7)
    BY <2>3 DEF MaskValue, Strategies, Stars
  <2> QED BY <2>1, <2>2, <2>3
<1>2. Star \notin Digits BY DEF Star, Digits
<1> HIDE DEF m
<1> QED BY <1>1, <1>2 DEF Range, m

\* Masking what is masked changes nothing, but for a text that begins with '@'.
LEMMA MaskTwice ==
  ASSUME NEW s \in Strategies, NEW t \in Seq(Nat), ~Addressless(s, MaskValue(s, t))
  PROVE  MaskValue(s, MaskValue(s, t)) = MaskValue(s, t)
<1> DEFINE m == MaskValue(s, t)
           mm == MaskValue(s, m)
<1>1. m \in Seq(Nat) /\ mm \in Seq(Nat) BY MaskTyped
<1>2. CASE s = "email" /\ At \in Range(t)
  <2>1. PICK n \in Nat : /\ Len(m) = n /\ n > 4 /\ m[1] # At /\ m[2] = Star /\ m[3] = Star /\ m[4] = Star
                        /\ m[5] = At
    BY <1>2, EmailShape DEF Addressless
  <2>2. At \in Range(m) /\ FirstAt(m) = 5
    <3> HIDE DEF m
    <3>1. 5 \in DOMAIN m /\ 5 \in 1..Len(m) BY <1>1, <2>1
    <3>2. At \in Range(m) BY <2>1, <3>1 DEF Range
    <3>3. \A j \in 1..(5 - 1) : m[j] # At BY <2>1 DEF Star, At
    <3> QED BY <1>1, <2>1, <3>1, <3>2, <3>3, FirstAtFound
  <2>3. mm = Starred(m, 1, 3, 5) BY <1>2, <2>2 DEF MaskValue
  <2> HIDE DEF m, mm
  <2>4. Len(mm) = n /\ \A i \in 1..n : mm[i] = IF i <= 1 THEN m[i] ELSE IF i <= 4 THEN Star ELSE m[i]
    BY <1>1, <2>1, <2>3 DEF Starred, Star
  <2>5. mm = m BY <1>1, <2>1, <2>4, SeqEqual
  <2> QED BY <2>5 DEF m, mm
<1>3. CASE s = "phone" /\ Len(t) >= 7
  <2>1. Len(m) = 11 /\ \A i \in 4..7 : m[i] = Star BY <1>3, PhoneShape
  <2> HIDE DEF m
  <2>2. mm = Starred(m, 3, 4, 8) BY <1>3, <2>1 DEF MaskValue
  <2> HIDE DEF mm
  <2>3. Len(mm) = 11 /\ \A i \in 1..11 : mm[i] = IF i <= 3 THEN m[i] ELSE IF i <= 7 THEN Star ELSE m[i]
    BY <1>1, <2>1, <2>2 DEF Starred, Star
  <2>4. \A i \in 1..11 : mm[i] = m[i] BY <2>1, <2>3
  <2>5. mm = m BY <1>1, <2>1, <2>3, <2>4, SeqEqual DEF m, mm
  <2> QED BY <2>5 DEF m, mm
<1>4. CASE ~(s = "email" /\ At \in Range(t)) /\ ~(s = "phone" /\ Len(t) >= 7)
  <2>1. CASE s = "email"
    <3>1. m = Stars(3) BY <1>4, <2>1 DEF MaskValue
    <3>2. At \notin Range(Stars(3)) BY DEF Stars, Star, At, Range
    <3> QED BY <2>1, <3>1, <3>2 DEF MaskValue
  <2>2. CASE s = "phone" BY <1>4, <2>2 DEF MaskValue, Stars
  <2>3. CASE s = "full"
    <3>1. PICK n \in Nat : n = Len(t) OBVIOUS
    <3> QED BY <2>3, <3>1 DEF MaskValue, Stars
  <2> QED BY <2>1, <2>2, <2>3 DEF MaskValue, Strategies
<1> QED BY <1>2, <1>3, <1>4

----
(* Views: the order of rows. *)

LEMMA BeforeOrder ==
  ASSUME NEW s \in Seq(Nat), NEW t \in Seq(Nat), NEW u \in Seq(Nat)
  PROVE  /\ ~Before(s, s)
         /\ Before(s, t) /\ Before(t, u) => Before(s, u)
         /\ s = t \/ Before(s, t) \/ Before(t, s)
<1>1. PICK a \in Nat, b \in Nat, c \in Nat : Len(s) = a /\ Len(t) = b /\ Len(u) = c OBVIOUS
<1>2. s \in [1..a -> Nat] /\ t \in [1..b -> Nat] /\ u \in [1..c -> Nat] BY <1>1
<1>3. ~Before(s, s) BY <1>1, <1>2 DEF Before
<1>4. ASSUME Before(s, t), Before(t, u) PROVE Before(s, u)
  <2>1. PICK i \in 1..b : (\A j \in 1..(i - 1) : j <= a /\ s[j] = t[j]) /\ (i > a \/ s[i] < t[i])
    BY <1>1, <1>4 DEF Before
  <2>2. PICK k \in 1..c : (\A j \in 1..(k - 1) : j <= b /\ t[j] = u[j]) /\ (k > b \/ t[k] < u[k])
    BY <1>1, <1>4 DEF Before
  <2> DEFINE m == IF i < k THEN i ELSE k
  <2>3. m \in 1..c /\ m <= i /\ m <= k /\ m <= b BY <2>1, <2>2
  <2>4. \A j \in 1..(m - 1) : j <= a /\ s[j] = t[j] /\ t[j] = u[j] BY <2>1, <2>2, <2>3
  <2>5. m > a \/ s[m] < u[m]
    <3>1. CASE i < k BY <2>1, <2>2, <3>1
    <3>2. CASE k < i BY <2>1, <2>2, <3>2
    <3>3. CASE i = k
      <4>1. i <= a => s[i] \in Nat /\ t[i] \in Nat /\ u[i] \in Nat BY <1>2, <2>1, <2>2, <3>3
      <4> QED BY <2>1, <2>2, <3>3, <4>1
    <3> QED BY <3>1, <3>2, <3>3
  <2> HIDE DEF m
  <2> QED BY <1>1, <2>3, <2>4, <2>5 DEF Before
<1>5. ASSUME s # t PROVE Before(s, t) \/ Before(t, s)
  <2> DEFINE D == {i \in Nat \ {0} : (i <= a \/ i <= b) /\ (i <= a /\ i <= b => s[i] # t[i])}
  <2>1. D # {}
    <3>1. ASSUME D = {} PROVE FALSE
      <4>1. a = b
        <5>1. a + 1 \notin D /\ b + 1 \notin D BY <3>1
        <5> QED BY <5>1
      <4>2. ASSUME NEW i \in 1..a PROVE s[i] = t[i]
        <5>1. i \notin D BY <3>1
        <5> QED BY <4>1, <5>1
      <4> QED BY <1>1, <1>5, <4>1, <4>2, SeqEqual
    <3> QED BY <3>1
  <2>2. PICK i \in Nat : i \in D /\ \A j \in 1..(i - 1) : j \notin D BY <2>1, FirstOf
  <2>3. i >= 1 /\ (i <= a \/ i <= b) /\ (i <= a /\ i <= b => s[i] # t[i]) BY <2>2
  <2>4. \A j \in Nat \ {0} : j \notin D => (j > a /\ j > b) \/ (j <= a /\ j <= b /\ s[j] = t[j]) OBVIOUS
  <2> HIDE DEF D
  <2>6. \A j \in 1..(i - 1) : j <= a /\ j <= b /\ s[j] = t[j]
    <3>1. ASSUME NEW j \in 1..(i - 1) PROVE j <= a /\ j <= b /\ s[j] = t[j]
      <4>1. j \in Nat \ {0} /\ j < i /\ j \notin D BY <2>2
      <4> QED BY <2>3, <2>4, <4>1
    <3> QED BY <3>1
  <2>7. i \in 1..b /\ (i > a \/ s[i] < t[i]) => Before(s, t) BY <1>1, <2>6 DEF Before
  <2>8. i \in 1..a /\ (i > b \/ t[i] < s[i]) => Before(t, s) BY <1>1, <2>6 DEF Before
  <2>9. i <= a /\ i <= b => s[i] < t[i] \/ t[i] < s[i] BY <1>2, <2>3
  <2> QED BY <2>3, <2>7, <2>8, <2>9
<1> QED BY <1>3, <1>4, <1>5

LEMMA RowOrder ==
  ASSUME NEW cols \in Seq(Columns), NEW x \in [Range(cols) -> Seq(Nat)],
         NEW y \in [Range(cols) -> Seq(Nat)], NEW z \in [Range(cols) -> Seq(Nat)]
  PROVE  /\ ~RowBefore(cols, x, x)
         /\ RowBefore(cols, x, y) /\ RowBefore(cols, y, z) => RowBefore(cols, x, z)
         /\ x = y \/ RowBefore(cols, x, y) \/ RowBefore(cols, y, x)
<1>1. PICK n \in Nat : DOMAIN cols = 1..n /\ Range(cols) = {cols[i] : i \in 1..n} BY DEF Range
<1>2. \A i \in 1..n : x[cols[i]] \in Seq(Nat) /\ y[cols[i]] \in Seq(Nat) /\ z[cols[i]] \in Seq(Nat)
  BY <1>1
<1>3. ~RowBefore(cols, x, x) BY <1>1, <1>2, BeforeOrder DEF RowBefore
<1>4. ASSUME RowBefore(cols, x, y), RowBefore(cols, y, z) PROVE RowBefore(cols, x, z)
  <2>1. PICK i \in 1..n : (\A j \in 1..(i - 1) : x[cols[j]] = y[cols[j]]) /\ Before(x[cols[i]], y[cols[i]])
    BY <1>1, <1>4 DEF RowBefore
  <2>2. PICK k \in 1..n : (\A j \in 1..(k - 1) : y[cols[j]] = z[cols[j]]) /\ Before(y[cols[k]], z[cols[k]])
    BY <1>1, <1>4 DEF RowBefore
  <2> DEFINE m == IF i < k THEN i ELSE k
  <2>3. m \in 1..n /\ \A j \in 1..(m - 1) : x[cols[j]] = z[cols[j]] BY <2>1, <2>2
  <2>4. Before(x[cols[m]], z[cols[m]])
    <3>1. CASE i < k BY <2>1, <2>2, <3>1
    <3>2. CASE k < i BY <2>1, <2>2, <3>2
    <3>3. CASE i = k BY <1>2, <2>1, <2>2, <3>3, BeforeOrder
    <3> QED BY <3>1, <3>2, <3>3
  <2> HIDE DEF m
  <2> QED BY <1>1, <2>3, <2>4 DEF RowBefore
<1>5. ASSUME x # y PROVE RowBefore(cols, x, y) \/ RowBefore(cols, y, x)
  <2> DEFINE D == {i \in 1..n : x[cols[i]] # y[cols[i]]}
  <2>1. D # {} /\ D \in SUBSET Nat
    <3>1. ASSUME D = {} PROVE FALSE
      <4>1. \A c \in Range(cols) : x[c] = y[c] BY <1>1, <3>1
      <4> QED BY <1>5, <4>1
    <3> QED BY <3>1
  <2>2. PICK i \in D : \A j \in 1..(i - 1) : j \notin D BY <2>1, FirstOf
  <2>3. \A j \in 1..(i - 1) : x[cols[j]] = y[cols[j]] BY <2>2
  <2>4. Before(x[cols[i]], y[cols[i]]) \/ Before(y[cols[i]], x[cols[i]]) BY <1>2, BeforeOrder
  <2> QED BY <1>1, <2>3, <2>4 DEF RowBefore
<1> QED BY <1>3, <1>4, <1>5

\* Each place in an order is taken.
LEMMA InOrderFound ==
  ASSUME NEW S, IsFiniteSet(S), NEW upto \in [S -> SUBSET S], \A i \in S : i \in upto[i],
         \A i, j \in S : i # j => \/ upto[i] \subseteq upto[j] /\ j \notin upto[i]
                                  \/ upto[j] \subseteq upto[i] /\ i \notin upto[j],
         NEW n \in 1..Cardinality(S)
  PROVE  InOrder(S, upto)[n] \in S
<1> DEFINE f == [i \in S |-> Cardinality(upto[i])]
           N == Cardinality(S)
           T == 1..N \ {n}
<1>1. N \in Nat /\ \A i \in S : IsFiniteSet(upto[i]) /\ f[i] \in 1..N
  <2>1. N \in Nat BY FS_CardinalityType
  <2>2. ASSUME NEW i \in S PROVE IsFiniteSet(upto[i]) /\ f[i] \in 1..N
    <3>1. IsFiniteSet(upto[i]) /\ Cardinality(upto[i]) <= N BY FS_Subset
    <3> QED BY <2>1, <3>1, FS_EmptySet, FS_CardinalityType
  <2> QED BY <2>1, <2>2
<1>2. ASSUME NEW i \in S, NEW j \in S, i # j PROVE f[i] # f[j] BY <1>1, <1>2, FS_Subset
<1>3. ASSUME \A i \in S : f[i] # n PROVE FALSE
  <2>1. f \in [S -> T] BY <1>1, <1>3
  <2>2. IsFiniteSet(T) /\ Cardinality(T) < Cardinality(S)
    <3>1. IsFiniteSet(1..N) /\ Cardinality(1..N) = N BY <1>1, FS_Interval
    <3>2. IsFiniteSet(T) /\ Cardinality(T) = N - 1 BY <3>1, FS_RemoveElement
    <3> QED BY <1>1, <3>2
  <2> HIDE DEF f, T, N
  <2> QED BY <1>2, <2>1, <2>2, FS_PigeonHole
<1> QED BY <1>3 DEF InOrder

Profiles == [Columns -> Strategies]

LEMMA ProfileTyped ==
  ASSUME storedMask \in StoredMasks
  PROVE  Profile(TRUE) \in Profiles /\ Profile(FALSE) \in Profiles
BY SnapshotViewAssumption DEF Profile, Profiles

LEMMA SecuredTyped ==
  ASSUME NEW p \in Profiles, NEW cols \in Seq(Columns), NEW i \in DOMAIN ViewRows
  PROVE  Secured(p, cols, i) \in [Range(cols) -> Seq(Nat)]
<1>1. \A c \in Range(cols) : c \in Columns BY DEF Range
<1>2. \A c \in Columns : ViewRows[i][c] \in Seq(Nat) BY SnapshotViewAssumption
<1> QED BY <1>1, <1>2, MaskTyped DEF Secured, Profiles

LEMMA MatchingFinite ==
  ASSUME NEW p, NEW ask
  PROVE  /\ IsFiniteSet(Matching(p, ask)) /\ Matching(p, ask) \subseteq DOMAIN ViewRows
         /\ Cardinality(Matching(p, ask)) \in 0..Len(ViewRows)
<1>1. PICK n \in Nat : Len(ViewRows) = n /\ DOMAIN ViewRows = 1..n BY SnapshotViewAssumption
<1>2. Matching(p, ask) \subseteq 1..n BY <1>1 DEF Matching
<1>3. IsFiniteSet(1..n) /\ Cardinality(1..n) = n BY FS_Interval
<1> HIDE DEF Matching
<1>4. IsFiniteSet(Matching(p, ask)) /\ Cardinality(Matching(p, ask)) <= n BY <1>2, <1>3, FS_Subset
<1> QED BY <1>1, <1>2, <1>4, FS_CardinalityType

\* What is shown is among the rows.
LEMMA SortedRows ==
  ASSUME NEW p \in Profiles, NEW cols \in Seq(Columns), NEW ask
  PROVE  LET recs == Sorted(p, cols, ask)
         IN  /\ recs \in Seq({Secured(p, cols, i) : i \in DOMAIN ViewRows})
             /\ Len(recs) = Cardinality(Matching(p, ask))
<1> DEFINE found == Matching(p, ask)
           recs == [i \in found |-> Secured(p, cols, i)]
           upto == [i \in found |-> {j \in found : \/ RowBefore(cols, recs[j], recs[i])
                                                 \/ (recs[j] = recs[i] /\ j <= i)}]
<1>1. /\ IsFiniteSet(found) /\ Cardinality(found) \in Nat
      /\ \A i \in found : i \in DOMAIN ViewRows /\ i \in Nat
  BY MatchingFinite, SnapshotViewAssumption
<1>2. recs \in [found -> [Range(cols) -> Seq(Nat)]] BY <1>1, SecuredTyped
<1>3. Sorted(p, cols, ask) = [n \in 1..Cardinality(found) |-> recs[InOrder(found, upto)[n]]] BY DEF Sorted
<1> HIDE DEF found, recs
<1>4. \A i \in found : i \in upto[i] BY <1>1
<1>5. ASSUME NEW i \in found, NEW j \in found, i # j
      PROVE  \/ upto[i] \subseteq upto[j] /\ j \notin upto[i]
             \/ upto[j] \subseteq upto[i] /\ i \notin upto[j]
  <2>1. \A k, l, m \in found : /\ ~RowBefore(cols, recs[k], recs[k])
                               /\ RowBefore(cols, recs[k], recs[l]) /\ RowBefore(cols, recs[l], recs[m])
                                    => RowBefore(cols, recs[k], recs[m])
    <3>1. \A k \in found : recs[k] \in [Range(cols) -> Seq(Nat)] BY <1>2
    <3> QED BY <3>1, RowOrder, Zenon
  <2>2. recs[i] = recs[j] \/ RowBefore(cols, recs[i], recs[j]) \/ RowBefore(cols, recs[j], recs[i])
    BY <1>2, RowOrder
  <2>3. CASE recs[i] = recs[j] BY <1>1, <1>5, <2>1, <2>3
  <2>4. CASE RowBefore(cols, recs[i], recs[j]) BY <2>1, <2>4
  <2>5. CASE RowBefore(cols, recs[j], recs[i]) BY <2>1, <2>5
  <2> QED BY <2>2, <2>3, <2>4, <2>5
<1>6. upto \in [found -> SUBSET found] OBVIOUS
<1> HIDE DEF upto
<1>7. \A n \in 1..Cardinality(found) : InOrder(found, upto)[n] \in found
  BY <1>1, <1>4, <1>5, <1>6, InOrderFound
<1>8. \A n \in 1..Cardinality(found) :
        recs[InOrder(found, upto)[n]] \in {Secured(p, cols, i) : i \in DOMAIN ViewRows}
  BY <1>1, <1>7 DEF recs
<1> QED BY <1>1, <1>3, <1>8 DEF found

----
(* Views: the invariant. *)

\* A request asks for columns, in a pivot by one of them.
AskFits(ask) ==
  /\ ask.kind \in {"none", "page", "pivot", "drill"} /\ ask.cols \in Seq(Columns)
  /\ ask.kind \in {"pivot", "drill"} => ask.dim \in Columns
  /\ ask.metric = "number" => ask.field \in Columns
  /\ ask.format \in {"json", "arrow"}

\* The first n rows as they are shown.
RowShown(p, ask, row) ==
  IF ask.format = "arrow" THEN row ELSE [c \in DOMAIN row |-> MaskValue(p[c], row[c])]

FirstShown(p, ask, recs, n) == [i \in 1..n |-> RowShown(p, ask, recs[i])]

ColsOf(ask, allowed) == IF ask.kind = "page" THEN allowed ELSE ask.cols

\* What a request that nothing disturbed has shown: the first rows.
ShownFits(x, p, allowed) ==
  LET recs == Sorted(p, ColsOf(x.ask, allowed), x.ask)
      n == IF x.pc = "done" THEN Len(recs) ELSE x.cursor
  IN  /\ x.pc \in {"policies", "more", "done"} => x.cols = ColsOf(x.ask, allowed)
      /\ x.ask.kind \in {"page", "drill"} =>
           n \in 0..Len(recs) /\ x.shown = FirstShown(p, x.ask, recs, n)
      /\ x.ask.kind = "drill" \/ (x.ask.kind = "pivot" /\ x.pc = "done") => x.buckets = Buckets(p, x.ask)
      /\ x.ask.kind = "drill" => x.ask.key \in DOMAIN x.buckets
      /\ x.ask.kind = "pivot" /\ x.pc = "done" /\ x.ask.metric = "number" =>
           p[x.ask.field] = "none" \/ ViewRows = <<>>

\* A request under way; who reads the row of a snapshot being deleted revives it.
ViewerFits(x, row, back) ==
  /\ DOMAIN x = DOMAIN NoViewer /\ AskFits(x.ask)
  /\ x.pc \in {"idle", "load", "row", "grant", "policies", "more", "done"}
  /\ x.cols \in Seq(Columns) /\ x.cursor \in 0..Len(ViewRows)
  /\ x.pc = "row" /\ x.copy = "Active" => back
  /\ x.fresh => row = "SoftDeleted" /\ (x.pc \in {"grant", "policies", "more", "done"} => back)

ViewInv ==
  /\ inMemory \in {"Active", "SoftDeleted"} /\ inRow \in {"Active", "SoftDeleted"}
  /\ fieldGrant \in FieldGrants /\ storedMask \in StoredMasks
  /\ ~revived /\ inMemory = "Active" => inRow = "Active" /\ ~deleting
  /\ viewer = [v \in Viewers |-> viewer[v]]
  /\ \A v \in Viewers : /\ ViewerFits(viewer[v], inRow, revived)
                        /\ viewer[v].steady => ShownFits(viewer[v], Profile(FALSE), AllowedColumns)

\* The next page goes on where the last one ended.
LEMMA PageFollows ==
  ASSUME NEW p \in Profiles, NEW x, x.pc = "policies", x.ask.kind \in {"page", "drill"},
         x.cols \in Seq(Columns), NEW allowed, ShownFits(x, p, allowed), NEW y, NEW recs,
         recs = Sorted(p, x.cols, x.ask),
         y.ask = x.ask /\ y.cols = x.cols /\ y.buckets = x.buckets,
         y.shown = x.shown \o Rendered(p, x.ask, PageRows(recs, x.cursor)),
         y.cursor = NextCursor(recs, x.cursor),
         y.pc = IF HasMore(recs, x.cursor) THEN "more" ELSE "done"
  PROVE  ShownFits(y, p, allowed)
<1> DEFINE e(i) == RowShown(p, x.ask, recs[i])
           a == x.cursor
           S == {e(i) : i \in 1..Len(recs)}
<1>1. PICK N \in Nat : Len(recs) = N /\ DOMAIN recs = 1..N
  <2>1. recs \in Seq({Secured(p, x.cols, i) : i \in DOMAIN ViewRows}) BY SortedRows
  <2> QED BY <2>1, LenProperties
<1>2. /\ recs = Sorted(p, ColsOf(x.ask, allowed), x.ask)
      /\ a \in 0..N /\ x.shown = [i \in 1..a |-> e(i)]
  BY <1>1 DEF ShownFits, FirstShown
<1> HIDE DEF a
<1> DEFINE b == IF a + PageSize < N THEN a + PageSize ELSE N
           more == [k \in 1..(b - a) |-> e(a + k)]
<1>3. b \in a..N /\ b \in 0..N BY <1>2, SnapshotViewAssumption
<1>4. PageRows(recs, a) = [k \in 1..(b - a) |-> recs[a + k]] BY <1>1, <1>2, <1>3 DEF PageRows
<1>5. Rendered(p, x.ask, PageRows(recs, a)) = more BY <1>4 DEF Rendered, RowShown
<1> HIDE DEF b, e
<1>6. \A i \in 1..N : e(i) \in S BY <1>1
<1> HIDE DEF S
<1>7. x.shown \o more = [i \in 1..b |-> e(i)]
  <2>1. x.shown \in Seq(S) /\ Len(x.shown) = a BY <1>2, <1>6
  <2>2. more \in Seq(S) /\ Len(more) = b - a
    <3>1. b - a \in Nat /\ \A k \in 1..(b - a) : e(a + k) \in S BY <1>2, <1>3, <1>6
    <3> QED BY <3>1
  <2>3. [i \in 1..b |-> e(i)] \in Seq(S) /\ Len([i \in 1..b |-> e(i)]) = b BY <1>3, <1>6
  <2>4. /\ x.shown \o more \in Seq(S) /\ Len(x.shown \o more) = b
        /\ \A i \in 1..b : (x.shown \o more)[i] = IF i <= a THEN x.shown[i] ELSE more[i - a]
    BY <1>2, <1>3, <2>1, <2>2, ConcatProperties
  <2>5. \A i \in 1..b : (x.shown \o more)[i] = e(i) BY <1>2, <1>3, <2>4
  <2> QED BY <1>3, <2>3, <2>4, <2>5, SeqEqual
<1>8. /\ HasMore(recs, a) => b = NextCursor(recs, a) /\ b \in 0..N
      /\ ~HasMore(recs, a) => b = N
  BY <1>1, <1>2, <1>3, SnapshotViewAssumption DEF b, HasMore, NextCursor
<1>9. y.shown = x.shown \o more BY <1>5 DEF a
<1> HIDE DEF more
<1>10. /\ x.cols = ColsOf(x.ask, allowed)
       /\ x.ask.kind = "drill" => x.buckets = Buckets(p, x.ask) /\ x.ask.key \in DOMAIN x.buckets
  BY DEF ShownFits
<1>11. recs = Sorted(p, ColsOf(y.ask, allowed), y.ask) BY <1>2
<1>12. (IF y.pc = "done" THEN Len(recs) ELSE y.cursor) = b BY <1>1, <1>8 DEF a
<1>13. y.shown = FirstShown(p, y.ask, recs, b) BY <1>7, <1>9 DEF e, FirstShown
<1> QED BY <1>1, <1>3, <1>9, <1>10, <1>11, <1>12, <1>13 DEF ShownFits

LEMMA NoneShown ==
  ASSUME NEW p, NEW cols, NEW ask
  PROVE  LET recs == Sorted(p, cols, ask)
         IN  0 \in 0..Len(recs) /\ FirstShown(p, ask, recs, 0) = <<>>
BY MatchingFinite, SnapshotViewAssumption DEF Sorted, FirstShown

LEMMA NobodyFits ==
  /\ 0 \in 0..Len(ViewRows) /\ \A row, back : ViewerFits(NoViewer, row, back)
  /\ \A p, allowed : ShownFits(NoViewer, p, allowed)
<1>1. Len(ViewRows) \in Nat BY SnapshotViewAssumption
<1>2. <<>> \in Seq(Columns) BY EmptySeq
<1>3. AskFits(NoAsk) BY <1>2 DEF AskFits, NoAsk
<1>4. \A p, allowed : ShownFits(NoViewer, p, allowed) BY DEF ShownFits, NoViewer, NoAsk
<1>5. /\ NoViewer.pc = "idle" /\ NoViewer.ask = NoAsk /\ NoViewer.cols = <<>> /\ NoViewer.cursor = 0
      /\ NoViewer.fresh = FALSE
  BY DEF NoViewer
<1> QED BY <1>1, <1>2, <1>3, <1>4, <1>5 DEF ViewerFits

LEMMA ViewersKept ==
  ASSUME ViewInv, NEW v \in Viewers, NEW y, SetViewer(v, y), revived => revived',
         UNCHANGED <<inRow, deleting, fieldGrant, storedMask>>, inMemory' \in {"Active", "SoftDeleted"},
         ~revived' /\ inMemory' = "Active" => inRow = "Active" /\ ~deleting,
         ViewerFits(y, inRow, revived'), y.steady => ShownFits(y, Profile(FALSE), AllowedColumns)
  PROVE  ViewInv'
<1>1. Profile(FALSE)' = Profile(FALSE) /\ AllowedColumns' = AllowedColumns
  BY DEF ViewInv, Profile, AllowedColumns
<1>2. viewer' = [w \in Viewers |-> IF w = v THEN y ELSE viewer[w]] BY DEF ViewInv, SetViewer
<1>3. \A x : ViewerFits(x, inRow, revived) => ViewerFits(x, inRow, revived') BY DEF ViewerFits
<1> QED BY <1>1, <1>2, <1>3 DEF ViewInv

LEMMA ViewInvNext == ViewInv /\ [ViewNext]_viewVars => ViewInv'
<1> SUFFICES ASSUME ViewInv, [ViewNext]_viewVars PROVE ViewInv' OBVIOUS
<1> DEFINE p == Profile(FALSE)
<1>1. ASSUME NEW v \in Viewers,
             \/ \E ask \in PageRequests \union PivotRequests : AskView(v, ask)
             \/ \E key \in DOMAIN viewer[v].buckets : AskDrilldown(v, key)
             \/ NextPage(v) \/ LoadScopedSnapshot(v) \/ RestoreLoaded(v) \/ LoadActiveGrant(v)
             \/ \E failed \in BOOLEAN : Serve(v, failed)
      PROVE  ViewInv'
  <2> DEFINE x == viewer[v]
  <2>1. /\ ViewerFits(x, inRow, revived) /\ (x.steady => ShownFits(x, p, AllowedColumns))
        /\ inMemory \in {"Active", "SoftDeleted"} /\ p \in Profiles /\ Profile(TRUE) \in Profiles
        /\ (~revived /\ inMemory = "Active" => inRow = "Active" /\ ~deleting)
    BY ProfileTyped DEF ViewInv
  <2>2. /\ 0 \in 0..Len(ViewRows) /\ ViewerFits(NoViewer, inRow, revived)
        /\ ShownFits(NoViewer, p, AllowedColumns)
    BY NobodyFits
  <2> HIDE DEF p
  <2>3. ASSUME NEW ask \in PageRequests \union PivotRequests, AskView(v, ask) PROVE ViewInv'
    <3> DEFINE y == [NoViewer EXCEPT !.pc = "load", !.ask = ask,
                                     !.fresh = inRow = "SoftDeleted" /\ ~deleting]
    <3>1. AskFits(ask) /\ ask.kind \in {"page", "pivot"}
      <4>1. /\ <<>> \in Seq(Columns) /\ \A d \in Columns : <<d>> \in Seq(Columns)
          /\ \A d, c \in Columns : <<d, c>> \in Seq(Columns)
        OBVIOUS
      <4>2. CASE ask \in PageRequests BY <4>1, <4>2 DEF PageRequests, AskFits, NoAsk
      <4>3. CASE ask \in PivotRequests
        <5>1. CASE \E d \in Columns : ask = [NoAsk EXCEPT !.kind = "pivot", !.dim = d, !.cols = <<d>>]
          BY <4>1, <5>1 DEF AskFits, NoAsk
        <5>2. CASE \E d, c \in Columns : ask = [NoAsk EXCEPT !.kind = "pivot", !.dim = d, !.metric = "number",
                                                            !.field = c, !.cols = <<d, c>>]
          BY <4>1, <5>2 DEF AskFits, NoAsk
        <5> QED BY <4>3, <5>1, <5>2 DEF PivotRequests
      <4> QED BY <4>2, <4>3
    <3>2. ViewerFits(y, inRow, revived) BY <2>2, <3>1 DEF ViewerFits, NoViewer
    <3>3. ShownFits(y, p, AllowedColumns) BY <3>1, NoneShown DEF ShownFits, NoViewer
    <3>4. SetViewer(v, y) BY <2>3 DEF AskView
    <3> HIDE DEF y
    <3> QED BY <2>1, <2>3, <3>2, <3>3, <3>4, ViewersKept DEF AskView, p
  <2>4. ASSUME NEW key \in DOMAIN x.buckets, AskDrilldown(v, key) PROVE ViewInv'
    <3> DEFINE ask == [NoAsk EXCEPT !.kind = "drill", !.dim = x.ask.dim, !.key = key, !.cols = x.ask.cols]
               y == [x EXCEPT !.pc = "load", !.cursor = 0, !.shown = <<>>, !.ask = ask,
                              !.fresh = inRow = "SoftDeleted" /\ ~deleting]
    <3>1. AskFits(ask) /\ ask.kind = "drill" /\ ask.key = key
      BY <2>1, <2>4 DEF AskDrilldown, ViewerFits, AskFits, NoAsk
    <3>2. Buckets(p, ask) = Buckets(p, x.ask) BY DEF Buckets, NoAsk
    <3> HIDE DEF ask
    <3>3. ViewerFits(y, inRow, revived) BY <2>1, <2>2, <3>1 DEF ViewerFits, NoViewer
    <3>4. y.steady => ShownFits(y, p, AllowedColumns)
      BY <2>1, <2>4, <3>1, <3>2, NoneShown DEF ShownFits, NoViewer, ViewerFits, AskDrilldown
    <3>5. SetViewer(v, y) BY <2>4 DEF AskDrilldown, ask
    <3> HIDE DEF y
    <3> QED BY <2>1, <2>4, <3>3, <3>4, <3>5, ViewersKept DEF AskDrilldown, p
  <2>5. ASSUME NextPage(v) PROVE ViewInv'
    <3> DEFINE y == [x EXCEPT !.pc = "load", !.fresh = inRow = "SoftDeleted" /\ ~deleting]
    <3>1. ViewerFits(y, inRow, revived) /\ (y.steady => ShownFits(y, p, AllowedColumns))
      BY <2>1, <2>5 DEF NextPage, ViewerFits, ShownFits, NoViewer
    <3>2. SetViewer(v, y) BY <2>5 DEF NextPage
    <3> HIDE DEF y
    <3> QED BY <2>1, <2>5, <3>1, <3>2, ViewersKept DEF NextPage, p
  <2>6. ASSUME LoadScopedSnapshot(v) \/ RestoreLoaded(v) PROVE ViewInv'
    <3>1. ASSUME NEW y, SetViewer(v, y), y = NoViewer \/ y = [x EXCEPT !.pc = "grant"]
                                       \/ y = [x EXCEPT !.pc = "row", !.copy = inRow],
                 ViewerFits(y, inRow, revived')
          PROVE  ViewInv'
      <4>1. y.steady => ShownFits(y, p, AllowedColumns)
        BY <2>1, <2>2, <2>6, <3>1 DEF ShownFits, ViewerFits, NoViewer, LoadScopedSnapshot, RestoreLoaded
      <4> QED BY <2>1, <2>6, <3>1, <4>1, ViewersKept DEF LoadScopedSnapshot, RestoreLoaded, ViewerFits, p
    <3> QED BY <2>1, <2>2, <2>6, <3>1 DEF LoadScopedSnapshot, RestoreLoaded, Refuse, ViewerFits, NoViewer
  <2>7. ASSUME LoadActiveGrant(v) PROVE ViewInv'
    <3> DEFINE cols == IF x.ask.kind = "page" THEN AllowedColumns ELSE x.ask.cols
               y == [x EXCEPT !.pc = "policies", !.cols = cols]
    <3>1. Range(cols) \subseteq fieldGrant => cols \in Seq(Columns)
      <4>1. fieldGrant \subseteq Columns BY SnapshotViewAssumption DEF ViewInv
      <4>2. \E n \in Nat : DOMAIN AllowedColumns = 1..n /\ AllowedColumns = [i \in 1..n |-> AllowedColumns[i]]
        <5>1. IsFiniteSet(1..Len(ViewFields)) /\ DOMAIN ViewFields = 1..Len(ViewFields)
          BY FS_Interval, SnapshotViewAssumption
        <5>2. \A S : S \subseteq DOMAIN ViewFields => Cardinality(S) \in Nat
          BY <5>1, FS_Subset, FS_CardinalityType
        <5> QED BY <5>2 DEF AllowedColumns
      <4> QED BY <2>1, <4>1, <4>2 DEF ViewerFits, AskFits, Range
    <3>2. CASE SetViewer(v, NoViewer) BY <2>1, <2>2, <2>7, <3>2, ViewersKept DEF LoadActiveGrant, p
    <3>3. CASE SetViewer(v, y) /\ Range(cols) \subseteq fieldGrant
      <4>1. ViewerFits(y, inRow, revived) /\ (y.steady => ShownFits(y, p, AllowedColumns))
        BY <2>1, <2>7, <3>1, <3>3 DEF LoadActiveGrant, ViewerFits, ShownFits, ColsOf, NoViewer
      <4> HIDE DEF y
      <4> QED BY <2>1, <2>7, <3>3, <4>1, ViewersKept DEF LoadActiveGrant, p
    <3> QED BY <2>7, <3>2, <3>3 DEF LoadActiveGrant, Refuse
  <2>8. ASSUME NEW failed \in BOOLEAN, Serve(v, failed) PROVE ViewInv'
    <3> DEFINE q == Profile(failed)
               recs == Sorted(q, x.cols, x.ask)
    <3>1. q \in Profiles /\ (~failed => q = p) BY <2>1 DEF p
    <3> HIDE DEF q
    <3>2. ASSUME NEW y, SetViewer(v, y), ViewerFits(y, inRow, revived), y.steady => ShownFits(y, p, AllowedColumns)
          PROVE  ViewInv'
      BY <2>1, <2>8, <3>2, ViewersKept DEF Serve, p
    <3>3. CASE SetViewer(v, NoViewer) BY <2>2, <3>2, <3>3
    <3>4. CASE ServePage(v, failed)
      <4> DEFINE y == [x EXCEPT !.shown = @ \o Rendered(q, x.ask, PageRows(recs, x.cursor)),
                                !.cursor = NextCursor(recs, x.cursor),
                                !.pc = IF HasMore(recs, x.cursor) THEN "more" ELSE "done",
                                !.steady = @ /\ ~failed]
      <4>1. SetViewer(v, y) /\ x.pc = "policies" /\ x.ask.kind \in {"page", "drill"}
        BY <2>8, <3>4 DEF Serve, ServePage, q
      <4>2. NextCursor(recs, x.cursor) \in 0..Len(ViewRows)
        <5>0. x.cols \in Seq(Columns) BY <2>1 DEF ViewerFits
        <5>1. Len(recs) \in 0..Len(ViewRows) BY <3>1, <5>0, SortedRows, MatchingFinite
        <5> QED BY <2>1, <5>1, SnapshotViewAssumption DEF ViewerFits, NextCursor, HasMore
      <4> HIDE DEF recs
      <4>3. ViewerFits(y, inRow, revived) BY <2>1, <4>1, <4>2 DEF ViewerFits, NoViewer
      <4>4. /\ y.ask = x.ask /\ y.cols = x.cols /\ y.buckets = x.buckets
            /\ y.shown = x.shown \o Rendered(q, x.ask, PageRows(recs, x.cursor))
            /\ y.cursor = NextCursor(recs, x.cursor) /\ y.pc = IF HasMore(recs, x.cursor) THEN "more" ELSE "done"
            /\ (y.steady => x.steady /\ ~failed)
        BY <2>1 DEF ViewerFits, NoViewer
      <4> HIDE DEF y
      <4>5. y.steady => ShownFits(y, p, AllowedColumns)
        BY <2>1, <3>1, <4>1, <4>4, PageFollows DEF recs, ViewerFits
      <4> QED BY <3>2, <4>1, <4>3, <4>5
    <3>5. CASE ServePivot(v, failed) /\ ~SetViewer(v, NoViewer)
      <4> DEFINE y == [x EXCEPT !.buckets = Buckets(q, x.ask), !.pc = "done", !.steady = @ /\ ~failed]
      <4>1. SetViewer(v, y) /\ x.pc = "policies" /\ x.ask.kind = "pivot" /\ ValidateNumeric(q, x.ask)
        BY <2>8, <3>5 DEF Serve, ServePivot, Refuse, q
      <4>2. x.ask.metric = "number" => q[x.ask.field] = "none" \/ ViewRows = <<>>
        <5>1. ASSUME x.ask.metric = "number", ViewRows # <<>> PROVE q[x.ask.field] = "none"
          <6>1. 1 \in DOMAIN ViewRows /\ x.ask.field \in Columns /\ ViewRows[1][x.ask.field] \in Seq(Nat)
            BY <2>1, <5>1, SnapshotViewAssumption, EmptySeq DEF ViewerFits, AskFits
          <6> QED BY <3>1, <4>1, <5>1, <6>1, MaskShows DEF ValidateNumeric, Profiles
        <5> QED BY <5>1
      <4>3. ViewerFits(y, inRow, revived) BY <2>1, <4>1 DEF ViewerFits, NoViewer
      <4>4. y.steady => ShownFits(y, p, AllowedColumns)
        BY <2>1, <3>1, <4>1, <4>2 DEF ShownFits, ViewerFits, NoViewer
      <4> QED BY <3>2, <4>1, <4>3, <4>4
    <3> QED BY <2>8, <3>3, <3>4, <3>5 DEF Serve
  <2> QED BY <1>1, <2>3, <2>4, <2>5, <2>6, <2>7, <2>8
<1>2. ASSUME SoftDeleteView \/ SaveDeletedView \/ UNCHANGED viewVars PROVE ViewInv'
  <2>1. Profile(FALSE)' = Profile(FALSE) /\ AllowedColumns' = AllowedColumns
    BY <1>2 DEF Profile, AllowedColumns, SoftDeleteView, SaveDeletedView, viewVars
  <2>2. /\ viewer' = viewer /\ revived' = revived /\ fieldGrant' = fieldGrant /\ storedMask' = storedMask
        /\ \A x : ViewerFits(x, inRow, revived) => ViewerFits(x, inRow', revived)
    BY <1>2 DEF SoftDeleteView, SaveDeletedView, viewVars, ViewerFits
  <2>3. /\ inMemory' \in {"Active", "SoftDeleted"} /\ inRow' \in {"Active", "SoftDeleted"}
        /\ ~revived' /\ inMemory' = "Active" => inRow' = "Active" /\ ~deleting'
    BY <1>2 DEF ViewInv, SoftDeleteView, SaveDeletedView, viewVars
  <2> QED BY <2>1, <2>2, <2>3 DEF ViewInv
<1>3. ASSUME NEW g \in FieldGrants, NEW s \in StoredMasks, ChangeView(g, s) PROVE ViewInv'
  <2>1. \A x : ViewerFits(x, inRow, revived) => /\ ViewerFits([x EXCEPT !.steady = FALSE], inRow, revived)
                                                /\ [x EXCEPT !.steady = FALSE].steady = FALSE
    BY DEF ViewerFits, NoViewer
  <2> QED BY <1>3, <2>1 DEF ViewInv, ChangeView, Disturbed
<1> QED BY <1>1, <1>2, <1>3 DEF ViewNext, ViewInv

\* Requests, and what they show, are as ViewInv says (phase4.rs).
THEOREM ViewInvHolds == ViewSpec => []ViewInv
<1>1. ViewInit => ViewInv BY NobodyFits DEF ViewInit, ViewInv
<1> QED BY <1>1, ViewInvNext, PTL DEF ViewSpec

\* Pages add up to the snapshot, buckets open to their rows, numbers come from
\* clear text and what was deleted is not shown (read_page_batches,
\* execute_drilldown, validate_numeric_metric_field, load_scoped_snapshot).
THEOREM ViewsHonestHolds == ViewSpec => []ViewsHonest
<1>1. ViewInv => ViewsHonest
  <2> SUFFICES ASSUME ViewInv PROVE ViewsHonest OBVIOUS
  <2> DEFINE p == Profile(FALSE)
  <2>1. ViewTypeOK /\ DeletedNotShown
    <3>1. \A cols \in Seq(Columns) : Range(cols) \subseteq Columns BY DEF Range
    <3>2. ViewTypeOK BY <3>1 DEF ViewInv, ViewerFits, ViewTypeOK
    <3> QED BY <3>2 DEF ViewInv, ViewerFits, DeletedNotShown
  <2>2. NumbersNeedClearText BY DEF ViewInv, ShownFits, NumbersNeedClearText
  <2>3. ASSUME NEW v \in Viewers, viewer[v].pc = "done", viewer[v].steady, viewer[v].ask.kind \in {"page", "drill"}
        PROVE  LET x == viewer[v]
                   recs == Sorted(p, x.cols, x.ask)
               IN  /\ p \in Profiles /\ x.cols \in Seq(Columns) /\ AskFits(x.ask)
                   /\ x.cols = ColsOf(x.ask, AllowedColumns)
                   /\ recs \in Seq({Secured(p, x.cols, i) : i \in DOMAIN ViewRows})
                   /\ Len(recs) = Cardinality(Matching(p, x.ask))
                   /\ x.shown = FirstShown(p, x.ask, recs, Len(recs))
                   /\ x.ask.kind = "drill" => x.buckets = Buckets(p, x.ask) /\ x.ask.key \in DOMAIN x.buckets
    <3> DEFINE x == viewer[v]
    <3>1. ViewerFits(x, inRow, revived) /\ ShownFits(x, p, AllowedColumns) /\ p \in Profiles
      BY <2>3, ProfileTyped DEF ViewInv
    <3> HIDE DEF p
    <3>2. x.cols = ColsOf(x.ask, AllowedColumns) /\ x.cols \in Seq(Columns) BY <2>3, <3>1 DEF ShownFits, ViewerFits
    <3> QED BY <2>3, <3>1, <3>2, SortedRows DEF ShownFits, ViewerFits
  <2>4. PagesComplete
    <3> SUFFICES ASSUME NEW v \in Viewers, viewer[v].pc = "done", viewer[v].steady, viewer[v].ask.kind = "page"
                 PROVE  LET x == viewer[v]
                            recs == Sorted(p, x.cols, x.ask)
                        IN  /\ DOMAIN x.shown = DOMAIN recs
                            /\ \A n \in DOMAIN recs, c \in Range(x.cols) :
                                 \/ x.shown[n][c] = recs[n][c]
                                 \/ x.ask.format = "json" /\ Addressless(p[c], recs[n][c])
      BY DEF PagesComplete
    <3> DEFINE x == viewer[v]
               recs == Sorted(p, x.cols, x.ask)
    <3> HIDE DEF p, recs
    <3>1. /\ p \in Profiles /\ x.cols \in Seq(Columns) /\ AskFits(x.ask)
          /\ recs \in Seq({Secured(p, x.cols, i) : i \in DOMAIN ViewRows})
          /\ x.shown = FirstShown(p, x.ask, recs, Len(recs))
      BY <2>3 DEF recs
    <3>2. DOMAIN recs = 1..Len(recs) BY <3>1, LenProperties
    <3>3. ASSUME NEW n \in DOMAIN recs, NEW c \in Range(x.cols)
          PROVE  \/ x.shown[n][c] = recs[n][c]
                 \/ x.ask.format = "json" /\ Addressless(p[c], recs[n][c])
      <4>1. PICK i \in DOMAIN ViewRows : recs[n] = Secured(p, x.cols, i) BY <3>1, <3>2, ElementOfSeq
      <4>2. p[c] \in Strategies /\ ViewRows[i][c] \in Seq(Nat)
        BY <3>1, SnapshotViewAssumption DEF Range, Profiles
      <4>3. c \in DOMAIN recs[n] /\ recs[n][c] = MaskValue(p[c], ViewRows[i][c]) BY <4>1 DEF Secured
      <4>4. x.shown[n] = RowShown(p, x.ask, recs[n]) BY <3>1, <3>2 DEF FirstShown
      <4> QED BY <3>1, <4>2, <4>3, <4>4, MaskTwice DEF RowShown, AskFits
    <3> QED BY <3>1, <3>2, <3>3 DEF FirstShown, recs
  <2>5. BucketsOpen
    <3> SUFFICES ASSUME NEW v \in Viewers, viewer[v].pc = "done", viewer[v].steady,
                        viewer[v].ask.kind = "drill", ~Addressless(p[viewer[v].ask.dim], viewer[v].ask.key)
                 PROVE  Len(viewer[v].shown) = Cardinality(viewer[v].buckets[viewer[v].ask.key])
      BY DEF BucketsOpen
    <3> DEFINE x == viewer[v]
    <3> HIDE DEF p
    <3>1. /\ p \in Profiles /\ AskFits(x.ask) /\ x.buckets = Buckets(p, x.ask) /\ x.ask.key \in DOMAIN x.buckets
          /\ Len(x.shown) = Cardinality(Matching(p, x.ask))
      <4> DEFINE recs == Sorted(p, x.cols, x.ask)
      <4>1. \A n \in Nat : Len(FirstShown(p, x.ask, recs, n)) = n BY DEF FirstShown
      <4>2. Len(recs) = Cardinality(Matching(p, x.ask)) /\ x.shown = FirstShown(p, x.ask, recs, Len(recs))
        BY <2>3
      <4>3. Len(recs) \in Nat BY <4>2, MatchingFinite
      <4> HIDE DEF recs
      <4> QED BY <2>3, <4>1, <4>2, <4>3
    <3>2. PICK i \in DOMAIN ViewRows : x.ask.key = MaskValue(p[x.ask.dim], ViewRows[i][x.ask.dim])
      BY <3>1 DEF Buckets
    <3>3. p[x.ask.dim] \in Strategies /\ ViewRows[i][x.ask.dim] \in Seq(Nat)
      BY <3>1, SnapshotViewAssumption DEF AskFits, Profiles
    <3>4. MaskValue(p[x.ask.dim], x.ask.key) = x.ask.key BY <3>2, <3>3, MaskTwice
    <3>5. Matching(p, x.ask) = x.buckets[x.ask.key]
      <4> DEFINE shown(j) == MaskValue(p[x.ask.dim], ViewRows[j][x.ask.dim])
                 same == {j \in DOMAIN ViewRows : shown(j) = x.ask.key}
      <4>1. x.ask.key \in {shown(j) : j \in DOMAIN ViewRows} BY <3>2
      <4>2. x.buckets[x.ask.key] = same BY <3>1, <4>1 DEF Buckets
      <4>3. x.ask.kind = "drill" OBVIOUS
      <4>4. Matching(p, x.ask) = same BY <3>4, <4>3 DEF Matching
      <4> QED BY <4>2, <4>4
    <3> QED BY <3>1, <3>5
  <2> QED BY <2>1, <2>2, <2>4, <2>5 DEF ViewsHonest
<1> QED BY <1>1, ViewInvHolds, PTL

=============================================================================
