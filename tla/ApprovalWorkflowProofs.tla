----------------------- MODULE ApprovalWorkflowProofs -----------------------
(* Theorems about permission applications and their approval, for any      *)
(* directory, flow and number of callbacks: what routing and the engine's  *)
(* operations return, then the inductive invariant WorkflowInv action by   *)
(* action, then what it implies.                                           *)
EXTENDS ApprovalWorkflow, FiniteSetTheorems, SequenceTheorems, TLAPS

----
(* retain keeps everyone else. *)

LEMMA RankIncreases ==
  ASSUME NEW n \in Nat, NEW kept \in SUBSET (1..n)
  PROVE  /\ IsFiniteSet(kept)
         /\ \A k \in kept : Rank(kept, k) \in 1..Cardinality(kept)
         /\ \A k, m \in kept : k < m => Rank(kept, k) < Rank(kept, m)
<1>1. IsFiniteSet(kept) /\ Cardinality(kept) \in Nat
  <2>1. IsFiniteSet(1..n) BY FS_Interval
  <2>2. IsFiniteSet(kept) BY <2>1, FS_Subset
  <2> QED BY <2>2, FS_CardinalityType
<1>2. \A k \in kept : /\ IsFiniteSet({j \in kept : j <= k})
                      /\ Cardinality({j \in kept : j <= k}) \in Nat
                      /\ Cardinality({j \in kept : j <= k}) <= Cardinality(kept)
  BY <1>1, FS_Subset, FS_CardinalityType
<1>3. \A k \in kept : Rank(kept, k) \in 1..Cardinality(kept)
  <2> TAKE k \in kept
  <2>1. k \in {j \in kept : j <= k} OBVIOUS
  <2>2. Cardinality({j \in kept : j <= k}) # 0 BY <1>2, <2>1, FS_EmptySet
  <2> QED BY <1>1, <1>2, <2>2 DEF Rank
<1>4. ASSUME NEW k \in kept, NEW m \in kept, k < m
      PROVE  Rank(kept, k) < Rank(kept, m)
  <2> DEFINE below(x) == {j \in kept : j <= x}
  <2>0. \A j \in kept : j \in Nat OBVIOUS
  <2>1. below(k) \subseteq below(m) /\ m \in below(m) /\ m \notin below(k)
    <3>1. k \in Nat /\ m \in Nat /\ ~(m <= k) BY <1>4, <2>0
    <3>2. \A j \in kept : j <= k => j <= m BY <1>4, <2>0, <3>1
    <3>3. below(k) \subseteq below(m) BY <3>2
    <3>4. m <= m BY <3>1
    <3> QED BY <3>1, <3>3, <3>4
  <2>2. IsFiniteSet(below(m)) /\ Cardinality(below(m)) \in Nat /\ Cardinality(below(k)) \in Nat BY <1>2
  <2>3. /\ Cardinality(below(k)) <= Cardinality(below(m))
        /\ Cardinality(below(k)) # Cardinality(below(m))
    <3> HIDE DEF below
    <3> QED BY <2>1, <2>2, FS_Subset
  <2> QED BY <2>2, <2>3 DEF Rank
<1> QED BY <1>1, <1>3, <1>4

LEMMA WithoutProperties ==
  ASSUME NEW s \in Seq(Users), NEW u
  PROVE  /\ Without(s, u) \in Seq(Users)
         /\ \A k \in DOMAIN s : s[k] # u =>
              \E j \in DOMAIN Without(s, u) : Without(s, u)[j] = s[k]
<1> DEFINE kept == {k \in DOMAIN s : s[k] # u}
           n == Cardinality(kept)
           place(i) == CHOOSE k \in kept : Rank(kept, k) = i
           f == [k \in kept |-> Rank(kept, k)]
<1>1. Len(s) \in Nat /\ DOMAIN s = 1..Len(s) /\ kept \in SUBSET (1..Len(s)) BY LenProperties
<1>2. /\ IsFiniteSet(kept) /\ n \in Nat
      /\ \A k \in kept : Rank(kept, k) \in 1..n
      /\ \A k, m \in kept : Rank(kept, k) = Rank(kept, m) => k = m
  <2> HIDE DEF kept
  <2>1. /\ IsFiniteSet(kept)
        /\ \A k \in kept : Rank(kept, k) \in 1..n
        /\ \A k, m \in kept : k < m => Rank(kept, k) < Rank(kept, m)
    BY <1>1, RankIncreases
  <2>2. n \in Nat BY <2>1, FS_CardinalityType
  <2>3. ASSUME NEW k \in kept, NEW m \in kept, Rank(kept, k) = Rank(kept, m)
        PROVE  k = m
    <3>1. k \in Nat /\ m \in Nat /\ Rank(kept, k) \in Nat BY <1>1, <2>1, <2>2
    <3> QED BY <2>1, <2>3, <3>1
  <2> QED BY <2>1, <2>2, <2>3
<1>3. \A i \in 1..n : \E k \in kept : Rank(kept, k) = i
  <2> HIDE DEF kept
  <2>1. f \in Injection(kept, 1..n) BY <1>2 DEF Injection, IsInjective
  <2>2. IsFiniteSet(1..n) /\ Cardinality(1..n) = n BY <1>2, FS_Interval
  <2>3. f \in Surjection(kept, 1..n)
    <3> HIDE DEF f, n
    <3>1. Cardinality(kept) = Cardinality(1..n) BY <2>2 DEF n
    <3> QED BY <2>1, <2>2, <3>1, FS_Injection
  <2> QED BY <2>3 DEF Surjection
<1>4. \A i \in 1..n : place(i) \in kept /\ Rank(kept, place(i)) = i BY <1>3
<1>5. \A i \in 1..n : s[place(i)] \in Users BY <1>1, <1>4, ElementOfSeq
<1>6. Without(s, u) = [i \in 1..n |-> s[place(i)]] BY DEF Without
<1>7. Without(s, u) \in Seq(Users)
  <2> HIDE DEF n, place
  <2> QED BY <1>2, <1>5, <1>6, IsASeq
<1>8. ASSUME NEW k \in DOMAIN s, s[k] # u
      PROVE  \E j \in DOMAIN Without(s, u) : Without(s, u)[j] = s[k]
  <2>1. k \in kept BY <1>8
  <2>2. Rank(kept, k) \in 1..n BY <2>1, <1>2
  <2>3. place(Rank(kept, k)) = k BY <2>1, <2>2, <1>2, <1>4
  <2> HIDE DEF kept, place, n
  <2>4. Without(s, u)[Rank(kept, k)] = s[k] BY <2>2, <2>3, <1>6
  <2> QED BY <2>2, <2>4, <1>6
<1> QED BY <1>7, <1>8
----
(* Where a request for approval is routed. *)

LEMMA LeastNatural ==
  ASSUME NEW S \in SUBSET Nat, S # {}
  PROVE  \E m \in S : \A k \in S : m <= k
<1>1. PICK m \in S : \A k \in S : <<k, m>> \notin OpToRel(<, Nat) BY NatLessThanWellFounded, WFMin
<1>2. \A k \in S : ~(k < m) BY <1>1 DEF OpToRel
<1> QED BY <1>2

LEMMA DelegateTypes ==
  ASSUME available \subseteq Known, NEW u, HasDelegate(u, available)
  PROVE  Delegate[u] \in Users
BY RoutingAssumption DEF HasDelegate

LEMMA ConfiguredTargetType ==
  ASSUME available \subseteq Known, NEW u
  PROVE  ConfiguredTarget(u, available) \in Users
<1> DEFINE Usable(i) == /\ EscalationUsers[i] # u
                        /\ \/ EscalationUsers[i] \in available
                           \/ HasDelegate(EscalationUsers[i], available)
           found == {i \in DOMAIN EscalationUsers : Usable(i)}
           first == CHOOSE i \in found : \A j \in found : i <= j
<1>1. CASE found = {} BY <1>1, RoutingAssumption DEF ConfiguredTarget
<1>2. CASE found # {}
  <2>1. found \in SUBSET Nat BY RoutingAssumption, LenProperties
  <2>2. \E m \in found : \A k \in found : m <= k
    <3> HIDE DEF found
    <3> QED BY <1>2, <2>1, LeastNatural
  <2>3. first \in found
    <3> HIDE DEF found
    <3> QED BY <2>2
  <2>4. \/ EscalationUsers[first] \in available
        \/ HasDelegate(EscalationUsers[first], available)
    <3> HIDE DEF first
    <3> QED BY <2>3
  <2>5. ConfiguredTarget(u, available) =
          IF EscalationUsers[first] \in available THEN EscalationUsers[first]
          ELSE Delegate[EscalationUsers[first]]
    BY <1>2 DEF ConfiguredTarget
  <2> HIDE DEF first
  <2> QED BY <2>4, <2>5, DelegateTypes, RoutingAssumption
<1> QED BY <1>1, <1>2

LEMMA RouteType ==
  ASSUME available \subseteq Known, NEW u, NEW direct
  PROVE  Route(u, direct, available) \in Users \cup {Nobody}
BY ConfiguredTargetType, DelegateTypes, RoutingAssumption DEF Route

LEMMA ResolveType ==
  ASSUME available \subseteq Known, NEW sel
  PROVE  Resolve(sel) \in Users \cup {Nobody}
BY RouteType DEF Resolve
----
(* The engine's operations. *)

LEMMA FlowTypes ==
  /\ Len(Flow) \in Nat \ {0} /\ DOMAIN Flow = 1..Len(Flow)
  /\ \A i \in DOMAIN Flow : /\ Flow[i].mode \in Mode
                             /\ Flow[i].approvers \in Seq(Selector)
<1> DEFINE Form == [mode : Mode, approvers : Seq(Selector),
                    escalation : Selector \cup [kind : {"None"}]]
<1>1. Flow \in Seq(Form) /\ Flow # <<>> BY WorkflowAssumption
<1>2. Len(Flow) \in Nat \ {0} /\ DOMAIN Flow = 1..Len(Flow)
  <2> HIDE DEF Form
  <2> QED BY <1>1, EmptySeq, LenProperties
<1>3. \A i \in DOMAIN Flow : Flow[i] \in Form
  <2> HIDE DEF Form
  <2> QED BY <1>1, <1>2, ElementOfSeq
<1> QED BY <1>2, <1>3

LEMMA InstanceTypes ==
  ASSUME NEW x \in Instance, WellFormed(x)
  PROVE  /\ x.status \in {"Pending", "Approved", "Rejected"}
         /\ x.current \in 1..Len(Flow) /\ x.steps \in Seq(Step)
         /\ x.current = Len(x.steps) /\ DOMAIN x.steps = 1..x.current
         /\ x # NoInstance
         /\ \A i \in DOMAIN x.steps : x.steps[i] \in Step
         /\ Current(x) \in Step
<1>1. x.status \in {"Pending", "Approved", "Rejected"} /\ x # NoInstance BY DEF Instance, NoInstance
<1>2. x.current = Len(x.steps) BY <1>1 DEF WellFormed
<1>3. x.current \in 1..Len(Flow) /\ x.steps \in Seq(Step) BY FlowTypes DEF Instance
<1>4. DOMAIN x.steps = 1..x.current BY <1>2, <1>3, LenProperties
<1>5. \A i \in DOMAIN x.steps : x.steps[i] \in Step BY <1>2, <1>3, <1>4, ElementOfSeq
<1>6. x.current \in DOMAIN x.steps BY <1>3, <1>4
<1> QED BY <1>1, <1>2, <1>3, <1>4, <1>5, <1>6 DEF Current

LEMMA CurrentReplaced ==
  ASSUME NEW x \in Instance, WellFormed(x), NEW s \in Step
  PROVE  LET y == WithCurrent(x, s) IN
         /\ y \in Instance /\ WellFormed(y)
         /\ y.status = x.status /\ y.current = x.current
         /\ DOMAIN y.steps = DOMAIN x.steps
         /\ \A i \in DOMAIN x.steps : y.steps[i] = IF i = x.current THEN s ELSE x.steps[i]
<1> DEFINE y == WithCurrent(x, s)
           steps == [x.steps EXCEPT ![x.current] = s]
<1>0. /\ x.current \in 1..Len(x.steps) /\ x.steps \in Seq(Step)
      /\ x.current = Len(x.steps) /\ DOMAIN x.steps = 1..x.current
  BY InstanceTypes
<1>1. y = [x EXCEPT !.steps = steps] BY DEF WithCurrent
<1>2. /\ steps \in Seq(Step) /\ Len(steps) = Len(x.steps)
      /\ \A i \in 1..Len(x.steps) : steps[i] = IF i = x.current THEN s ELSE x.steps[i]
  <2> HIDE DEF steps
  <2> QED BY <1>0, ExceptSeq DEF steps
<1>3. /\ y \in Instance /\ y.steps = steps /\ y.status = x.status
      /\ y.current = x.current
  <2> HIDE DEF steps
  <2> QED BY <1>1, <1>2 DEF Instance
<1>4. WellFormed(y) /\ DOMAIN y.steps = DOMAIN x.steps
  <2> HIDE DEF steps, y
  <2> QED BY <1>0, <1>2, <1>3, LenProperties DEF WellFormed
<1> HIDE DEF y, steps
<1> QED BY <1>0, <1>2, <1>3, <1>4 DEF y

LEMMA StepBuilt ==
  ASSUME available \subseteq Known, NEW i \in DOMAIN Flow, CanBuild(i)
  PROVE  /\ BuildStepState(i) \in Step
         /\ \A given, r : Genuine(given, r, i, BuildStepState(i))
<1> DEFINE routes == RoutesOf(i)
<1>1. Flow[i].approvers \in Seq(Selector) BY FlowTypes
<1>2. DOMAIN Flow[i].approvers = 1..Len(Flow[i].approvers) /\ Len(Flow[i].approvers) \in Nat
  BY <1>1, LenProperties
<1>3. \A k \in DOMAIN Flow[i].approvers : routes[k] \in Users BY ResolveType DEF CanBuild, RoutesOf
<1>4. routes \in [1..Len(Flow[i].approvers) -> Users] BY <1>2, <1>3 DEF RoutesOf
<1>5. routes \in Seq(Users)
  <2> HIDE DEF routes
  <2> QED BY <1>2, <1>4, SeqDef
<1> HIDE DEF routes
<1>6. BuildStepState(i) \in Step BY <1>5 DEF BuildStepState, Step, routes
<1>7. \A given, r : Genuine(given, r, i, BuildStepState(i)) BY DEF Genuine, BuildStepState
<1> QED BY <1>6, <1>7

LEMMA SoundlyReplaced ==
  ASSUME NEW x \in Instance, WellFormed(x), NEW s \in Step, NEW given, NEW r,
         Sound(given, r, x), Genuine(given, r, x.current, s)
  PROVE  Sound(given, r, WithCurrent(x, s))
<1> DEFINE y == WithCurrent(x, s)
<1>1. /\ y.status = x.status /\ y.current = x.current /\ DOMAIN y.steps = DOMAIN x.steps
      /\ \A i \in DOMAIN x.steps : y.steps[i] = IF i = x.current THEN s ELSE x.steps[i]
  BY CurrentReplaced
<1> HIDE DEF y
<1>2. x # NoInstance BY InstanceTypes
<1>3. \A i \in DOMAIN y.steps : Genuine(given, r, i, y.steps[i]) BY <1>1, <1>2 DEF Sound
<1>4. Sound(given, r, y) BY <1>1, <1>2, <1>3 DEF Sound
<1> QED BY <1>4 DEF y

LEMMA Started ==
  ASSUME available \subseteq Known, NEW given, NEW r
  PROVE  /\ StartInstance \in Copy /\ WellFormed(StartInstance)
         /\ Sound(given, r, StartInstance)
         /\ StartInstance # NoInstance => StartInstance.status = "Pending"
<1>1. CASE CanBuild(1)
  <2> DEFINE s == BuildStepState(1)
  <2>1. s \in Step /\ Genuine(given, r, 1, s) BY <1>1, FlowTypes, StepBuilt
  <2> HIDE DEF s
  <2>2. StartInstance = [status |-> "Pending", current |-> 1, steps |-> <<s>>]
    BY <1>1 DEF StartInstance, s
  <2>3. <<s>> \in Seq(Step) /\ Len(<<s>>) = 1 /\ DOMAIN <<s>> = {1} /\ <<s>>[1] = s BY <2>1
  <2>4. StartInstance \in Instance BY <2>2, <2>3, FlowTypes DEF Instance
  <2> QED BY <2>1, <2>2, <2>3, <2>4 DEF Copy, WellFormed, Sound
<1>2. CASE ~CanBuild(1) BY <1>2 DEF StartInstance, Copy, WellFormed, Sound, NoInstance
<1> QED BY <1>1, <1>2

LEMMA Advanced ==
  ASSUME available \subseteq Known, NEW x \in Instance, WellFormed(x), NEW given, NEW r,
         Sound(given, r, x), Earned(given, r, x.current), x.status = "Pending"
  PROVE  LET y == AdvanceInstance(x) IN
         /\ y \in Copy /\ WellFormed(y) /\ Sound(given, r, y)
         /\ y # NoInstance => y.status \in {"Pending", "Approved"}
<1> DEFINE y == AdvanceInstance(x)
<1>0. /\ x.current \in 1..Len(Flow) /\ x.steps \in Seq(Step) /\ Len(Flow) \in Nat
      /\ x.current = Len(x.steps) /\ DOMAIN x.steps = 1..x.current /\ x # NoInstance
  BY InstanceTypes, FlowTypes
<1>1. CASE x.current = Len(Flow)
  <2>1. y = [x EXCEPT !.status = "Approved"] BY <1>1 DEF AdvanceInstance
  <2>2. /\ y \in Instance /\ y.status = "Approved" /\ y.current = x.current
        /\ y.steps = x.steps
    BY <2>1 DEF Instance
  <2>3. WellFormed(y) BY <1>0, <2>2 DEF WellFormed
  <2>4. Sound(given, r, y) BY <1>0, <1>1, <2>2 DEF Sound
  <2> QED BY <2>2, <2>3, <2>4 DEF Copy
<1>2. CASE x.current # Len(Flow) /\ CanBuild(x.current + 1)
  <2> DEFINE next == x.current + 1
             s == BuildStepState(next)
             steps == Append(x.steps, s)
  <2>1. next \in DOMAIN Flow BY <1>0, <1>2, FlowTypes
  <2>2. s \in Step /\ Genuine(given, r, next, s) BY <1>2, <2>1, StepBuilt
  <2>3. y = [x EXCEPT !.current = next, !.steps = steps] BY <1>2 DEF AdvanceInstance
  <2> HIDE DEF s
  <2>4. /\ steps \in Seq(Step) /\ Len(steps) = next
        /\ \A i \in 1..x.current : steps[i] = x.steps[i]
        /\ steps[next] = s
    BY <1>0, <2>2, AppendProperties
  <2> HIDE DEF steps
  <2>5. DOMAIN steps = 1..next BY <2>4, LenProperties
  <2>6. /\ y \in Instance /\ y.status = "Pending" /\ y.current = next
        /\ y.steps = steps
    BY <2>1, <2>3, <2>4 DEF Instance
  <2> HIDE DEF y
  <2>7. WellFormed(y) BY <2>4, <2>6 DEF WellFormed
  <2>8. \A i \in DOMAIN steps : Genuine(given, r, i, steps[i])
    <3> TAKE i \in DOMAIN steps
    <3>1. CASE i = next BY <2>2, <2>4, <3>1
    <3>2. CASE i # next
      <4>1. i \in 1..x.current BY <1>0, <2>5, <3>2
      <4> QED BY <1>0, <2>4, <4>1 DEF Sound
    <3> QED BY <3>1, <3>2
  <2>9. \A i \in 1..(next - 1) : Earned(given, r, i)
    <3> TAKE i \in 1..(next - 1)
    <3>1. i = x.current \/ i \in 1..(x.current - 1) BY <1>0
    <3> QED BY <1>0, <3>1 DEF Sound
  <2>10. Sound(given, r, y) BY <2>6, <2>8, <2>9 DEF Sound
  <2> QED BY <2>6, <2>7, <2>10 DEF Copy, y
<1>3. CASE x.current # Len(Flow) /\ ~CanBuild(x.current + 1)
  <2>1. y = NoInstance BY <1>3 DEF AdvanceInstance
  <2> QED BY <2>1 DEF Copy, WellFormed, Sound
<1> QED BY <1>1, <1>2, <1>3

LEMMA StillPendingType ==
  ASSUME NEW x \in Instance, WellFormed(x), NEW u \in Users, MayApprove(x, u)
  PROVE  /\ StillPending(x, u) \in Seq(Users)
         /\ Flow[x.current].mode # "AnyOne" =>
              \A k \in DOMAIN Current(x).pending : Current(x).pending[k] # u =>
                \E j \in DOMAIN StillPending(x, u) :
                  StillPending(x, u)[j] = Current(x).pending[k]
<1> DEFINE p == Current(x).pending
           mode == Flow[x.current].mode
<1>1. p \in Seq(Users) /\ mode \in Mode BY InstanceTypes, FlowTypes DEF Step
<1>2. CASE mode = "Serial"
  <2>1. p # <<>> /\ Head(p) = u BY <1>1, <1>2 DEF MayApprove, Assigned
  <2>2. StillPending(x, u) = Tail(p) BY <1>2 DEF StillPending
  <2> HIDE DEF p
  <2>3. /\ Tail(p) \in Seq(Users) /\ Len(Tail(p)) = Len(p) - 1 /\ Len(p) \in Nat
        /\ \A i \in 1..Len(Tail(p)) : Tail(p)[i] = p[i + 1]
        /\ DOMAIN p = 1..Len(p) /\ DOMAIN Tail(p) = 1..Len(Tail(p))
    BY <1>1, <2>1, HeadTailProperties, LenProperties
  <2>4. p[1] = u BY <1>1, <2>1
  <2>5. ASSUME NEW k \in DOMAIN p, p[k] # u
        PROVE  \E j \in DOMAIN Tail(p) : Tail(p)[j] = p[k]
    <3>1. k - 1 \in DOMAIN Tail(p) BY <2>3, <2>4, <2>5
    <3>2. Tail(p)[k - 1] = p[k] BY <2>3, <3>1
    <3> QED BY <3>1, <3>2
  <2> QED BY <2>2, <2>3, <2>5 DEF p
<1>3. CASE mode = "ParallelAll"
  <2>1. StillPending(x, u) = Without(p, u) BY <1>3 DEF StillPending
  <2> HIDE DEF p
  <2>2. /\ Without(p, u) \in Seq(Users)
        /\ \A k \in DOMAIN p : p[k] # u =>
              \E j \in DOMAIN Without(p, u) : Without(p, u)[j] = p[k]
    BY <1>1, WithoutProperties
  <2> QED BY <2>1, <2>2 DEF p
<1>4. CASE mode = "AnyOne"
  <2>1. StillPending(x, u) = <<>> BY <1>4 DEF StillPending
  <2> QED BY <1>4, <2>1
<1> QED BY <1>1, <1>2, <1>3, <1>4 DEF Mode

LEMMA Approved ==
  ASSUME available \subseteq Known, NEW x \in Instance, WellFormed(x), NEW given, NEW r,
         Sound(given, r, x), NEW u \in Users, <<r, u, x.current>> \in given
  PROVE  LET y == Approve(x, u) IN
         /\ y \in Copy /\ WellFormed(y) /\ Sound(given, r, y)
         /\ y # NoInstance => y.status \in {"Pending", "Approved"}
<1> DEFINE now  == Current(x)
           rest == StillPending(x, u)
           s    == [now EXCEPT !.pending = rest, !.approved = @ \cup {u}]
           done == [s EXCEPT !.status = "Approved"]
<1>0. /\ now \in Step /\ x # NoInstance /\ x.current \in DOMAIN x.steps
      /\ x.status \in {"Pending", "Approved", "Rejected"}
  BY InstanceTypes
<1>1. CASE ~MayApprove(x, u) BY <1>1 DEF Approve, Copy, WellFormed, Sound
<1>2. CASE MayApprove(x, u)
  <2>1. /\ rest \in Seq(Users)
        /\ Flow[x.current].mode # "AnyOne" =>
             \A k \in DOMAIN now.pending : now.pending[k] # u =>
               \E j \in DOMAIN rest : rest[j] = now.pending[k]
    BY <1>2, StillPendingType
  <2>2. Genuine(given, r, x.current, now) BY <1>0 DEF Sound, Current
  <2>3. now.status # "Approved"
    <3>1. now.pending # <<>> BY <1>2 DEF MayApprove, Assigned
    <3> QED BY <2>2, <3>1 DEF Genuine
  <2>4. x.status = "Pending" BY <1>2 DEF MayApprove
  <2>5. Approve(x, u) = IF rest # <<>> THEN WithCurrent(x, s)
                        ELSE AdvanceInstance(WithCurrent(x, done))
    BY <1>2 DEF Approve
  <2> HIDE DEF now, rest
  <2>6. s \in Step /\ done \in Step BY <1>0, <2>1 DEF Step
  <2>7. /\ s.approved = now.approved \cup {u} /\ s.pending = rest
        /\ s.status = now.status /\ s.rerouted = now.rerouted /\ s.assigned = now.assigned
        /\ done.approved = now.approved \cup {u} /\ done.pending = rest
        /\ done.status = "Approved" /\ done.rerouted = now.rerouted
        /\ done.assigned = now.assigned
    BY <1>0 DEF Step
  <2> HIDE DEF s, done
  <2>8. \A v \in now.approved \cup {u} : <<r, v, x.current>> \in given BY <2>2 DEF Genuine
  <2>9. Flow[x.current].mode # "AnyOne" /\ ~now.rerouted =>
          \A k \in DOMAIN now.assigned :
            \/ now.assigned[k] \in now.approved \cup {u}
            \/ \E j \in DOMAIN rest : rest[j] = now.assigned[k]
    BY <2>1, <2>2 DEF Genuine
  <2>10. Genuine(given, r, x.current, s) BY <2>3, <2>7, <2>8, <2>9 DEF Genuine
  <2>11. CASE rest # <<>>
    <3> DEFINE y == WithCurrent(x, s)
    <3>1. y \in Instance /\ WellFormed(y) /\ y.status = x.status BY <2>6, CurrentReplaced
    <3>2. Sound(given, r, y) BY <2>6, <2>10, SoundlyReplaced
    <3> HIDE DEF y
    <3>3. Approve(x, u) = y BY <2>5, <2>11 DEF y
    <3> QED BY <2>4, <3>1, <3>2, <3>3 DEF Copy
  <2>12. CASE rest = <<>>
    <3> DEFINE z == WithCurrent(x, done)
    <3>1. Genuine(given, r, x.current, done) BY <2>7, <2>8, <2>9, <2>12 DEF Genuine
    <3>2. z \in Instance /\ WellFormed(z) /\ z.status = x.status /\ z.current = x.current
      BY <2>6, CurrentReplaced
    <3>3. Sound(given, r, z) BY <2>6, <3>1, SoundlyReplaced
    <3> HIDE DEF z
    <3>4. Earned(given, r, z.current) BY <3>2 DEF Earned
    <3>5. Approve(x, u) = AdvanceInstance(z) BY <2>5, <2>12 DEF z
    <3> QED BY <2>4, <3>2, <3>3, <3>4, <3>5, Advanced
  <2> QED BY <2>11, <2>12
<1> QED BY <1>1, <1>2

LEMMA Rejected ==
  ASSUME NEW x \in Instance, WellFormed(x), NEW given, NEW r, Sound(given, r, x)
  PROVE  LET y == Reject(x) IN
         /\ y \in Copy /\ WellFormed(y) /\ Sound(given, r, y)
         /\ y # NoInstance => y.status = "Rejected"
<1> DEFINE now == Current(x)
           s == [now EXCEPT !.status = "Rejected"]
           z == WithCurrent(x, s)
           y == [z EXCEPT !.status = "Rejected"]
<1>0. now \in Step /\ x # NoInstance /\ x.current \in DOMAIN x.steps BY InstanceTypes
<1>1. CASE x.status # "Pending" BY <1>1 DEF Reject, Copy, WellFormed, Sound
<1>2. CASE x.status = "Pending"
  <2>1. Genuine(given, r, x.current, now) BY <1>0 DEF Sound, Current
  <2>2. Reject(x) = y BY <1>2 DEF Reject
  <2> HIDE DEF now
  <2>3. s \in Step /\ Genuine(given, r, x.current, s) BY <1>0, <2>1 DEF Step, Genuine
  <2> HIDE DEF s
  <2>4. z \in Instance /\ WellFormed(z) /\ Sound(given, r, z) BY <2>3, CurrentReplaced, SoundlyReplaced
  <2> HIDE DEF z
  <2>5. z # NoInstance /\ z.current = Len(z.steps) BY <2>4, InstanceTypes
  <2>6. /\ y \in Instance /\ y.status = "Rejected" /\ y.current = z.current
        /\ y.steps = z.steps
    BY <2>4 DEF Instance
  <2> HIDE DEF y
  <2>7. WellFormed(y) BY <2>5, <2>6 DEF WellFormed
  <2>8. Sound(given, r, y) BY <2>4, <2>5, <2>6 DEF Sound
  <2> QED BY <2>2, <2>6, <2>7, <2>8 DEF Copy
<1> QED BY <1>1, <1>2

LEMMA Rerouted ==
  ASSUME NEW x \in Instance, WellFormed(x), NEW given, NEW r, Sound(given, r, x),
         x.status = "Pending", NEW s \in Step, s.rerouted, s.status # "Approved",
         s.approved = Current(x).approved
  PROVE  LET y == WithCurrent(x, s) IN
         y \in Copy /\ WellFormed(y) /\ Sound(given, r, y) /\ y.status = "Pending"
<1>1. Genuine(given, r, x.current, Current(x)) BY InstanceTypes DEF Sound, Current
<1>2. Genuine(given, r, x.current, s) BY <1>1 DEF Genuine
<1> QED BY <1>2, CurrentReplaced, SoundlyReplaced DEF Copy

LEMMA Delegated ==
  ASSUME available \subseteq Known, NEW x \in Instance, WellFormed(x), NEW given, NEW r,
         Sound(given, r, x), NEW u, NEW v
  PROVE  LET y == DelegateTo(x, u, v) IN
         /\ y \in Copy /\ WellFormed(y) /\ Sound(given, r, y)
         /\ y # NoInstance => y.status = "Pending"
<1> DEFINE now == Current(x)
           place == CHOOSE k \in DOMAIN now.pending :
                      now.pending[k] = u /\ \A j \in 1..(k - 1) : now.pending[j] # u
           to == Route(v, TRUE, available)
           p == [now.pending EXCEPT ![place] = to]
           s == [now EXCEPT !.pending = p, !.rerouted = TRUE]
           fails == x.status # "Pending" \/ ~Assigned(x, u) \/ to = Nobody
<1>0. now \in Step /\ x # NoInstance /\ x.current \in DOMAIN x.steps BY InstanceTypes
<1>1. CASE fails
  <2>1. DelegateTo(x, u, v) = NoInstance BY <1>1 DEF DelegateTo
  <2> QED BY <2>1 DEF Copy, WellFormed, Sound
<1>2. CASE ~fails
  <2>1. DelegateTo(x, u, v) = WithCurrent(x, s) BY <1>2 DEF DelegateTo
  <2>2. to \in Users BY <1>2, RouteType
  <2>3. now.status # "Approved"
    <3>1. Genuine(given, r, x.current, now) BY <1>0 DEF Sound, Current
    <3>2. Assigned(x, u) BY <1>2
    <3>3. now.pending # <<>> BY <3>2 DEF Assigned
    <3> QED BY <3>1, <3>3 DEF Genuine
  <2> HIDE DEF place, to
  <2>4. p \in Seq(Users)
    <3> DEFINE q == now.pending
    <3>1. q \in Seq(Users) BY <1>0 DEF Step
    <3> HIDE DEF q
    <3>2. DOMAIN q = 1..Len(q) /\ Len(q) \in Nat BY <3>1, LenProperties
    <3>3. CASE place \in 1..Len(q)
      <4>1. [q EXCEPT ![place] = to] \in Seq(Users) BY <2>2, <3>1, <3>3, ExceptSeq
      <4> QED BY <4>1 DEF q
    <3>4. CASE place \notin 1..Len(q)
      <4>1. [q EXCEPT ![place] = to] = q BY <3>1, <3>2, <3>4, LenProperties
      <4> QED BY <3>1, <4>1 DEF q
    <3> QED BY <3>3, <3>4
  <2> HIDE DEF p, now
  <2>5. /\ s \in Step /\ s.rerouted /\ s.status # "Approved"
        /\ s.approved = now.approved
    BY <1>0, <2>3, <2>4 DEF Step
  <2> HIDE DEF s
  <2>6. x.status = "Pending" BY <1>2
  <2> QED BY <2>1, <2>5, <2>6, Rerouted DEF now
<1> QED BY <1>1, <1>2

LEMMA TickedOut ==
  ASSUME available \subseteq Known, NEW x \in Instance, WellFormed(x), NEW given, NEW r,
         Sound(given, r, x), x.status = "Pending"
  PROVE  LET y == TickTimeouts(x) IN
         /\ y \in Copy /\ WellFormed(y) /\ Sound(given, r, y)
         /\ y # NoInstance => y.status = "Pending"
<1> DEFINE now == Current(x)
           to == EscalationOf(x)
           s == [now EXCEPT !.status = "Escalated", !.pending = <<to>>,
                            !.rerouted = TRUE, !.due = "later"]
<1>0. now \in Step BY InstanceTypes
<1>1. CASE to = Nobody
  <2>1. TickTimeouts(x) = NoInstance BY <1>1 DEF TickTimeouts
  <2> QED BY <2>1 DEF Copy, WellFormed, Sound
<1>2. CASE to # Nobody
  <2>1. TickTimeouts(x) = WithCurrent(x, s) BY <1>2 DEF TickTimeouts
  <2>2. to \in Users BY <1>2, RouteType, ResolveType DEF EscalationOf
  <2> HIDE DEF to, now
  <2>3. <<to>> \in Seq(Users) BY <2>2
  <2>4. /\ s \in Step /\ s.rerouted /\ s.status # "Approved"
        /\ s.approved = now.approved
    BY <1>0, <2>3 DEF Step
  <2> HIDE DEF s
  <2> QED BY <2>1, <2>4, Rerouted DEF now
<1> QED BY <1>1, <1>2

LEMMA Outdated ==
  ASSUME NEW x \in Instance, WellFormed(x), NEW given, NEW r, Sound(given, r, x)
  PROVE  LET y == Overdue(x) IN
         y \in Instance /\ WellFormed(y) /\ Sound(given, r, y) /\ y.status = x.status
<1> DEFINE now == Current(x)
           s == [now EXCEPT !.due = "past"]
<1>0. now \in Step /\ x # NoInstance /\ x.current \in DOMAIN x.steps BY InstanceTypes
<1>1. Genuine(given, r, x.current, now) BY <1>0 DEF Sound, Current
<1> HIDE DEF now
<1>2. s \in Step /\ Genuine(given, r, x.current, s) BY <1>0, <1>1 DEF Step, Genuine
<1>3. Overdue(x) = WithCurrent(x, s) BY DEF Overdue, now
<1> HIDE DEF s
<1> QED BY <1>2, <1>3, CurrentReplaced, SoundlyReplaced

----
(* Types. *)

LEMMA NoInstanceTypes ==
  /\ NoInstance \in Copy /\ WellFormed(NoInstance) /\ NoInstance.status = "None"
  /\ \A given, r : Sound(given, r, NoInstance)
  /\ \A x \in Copy : x \in Instance \/ x = NoInstance
  /\ \A x \in Copy : x.status # "None" => x \in Instance
BY DEF NoInstance, Copy, WellFormed, Sound

LEMMA IdleCallTypes ==
  /\ IdleCall \in CallState /\ IdleCall.pc = "idle" /\ IdleCall.copy = NoInstance
<1>1. (CHOOSE r \in Requests : TRUE) \in Requests BY WorkflowAssumption
<1> QED BY <1>1, NoInstanceTypes DEF IdleCall, CallState, Action

LEMMA FaultTypes ==
  ASSUME TypeOK, Fault
  PROVE  faults' \in 0..MaxFaults
BY WorkflowAssumption DEF TypeOK, Fault

LEMMA SubmittingTypes ==
  ASSUME TypeOK, NEW r \in Requests, NEW x \in Copy, WellFormed(x),
         NEW pc \in {"idle", "restore", "instance", "application", "queue",
                     "refused", "done"},
         Submitting(r, pc, x)
  PROVE  /\ submit' \in [Requests -> Submission]
         /\ \A q \in Requests : WellFormed(submit'[q].copy)
         /\ submit'[r].pc = pc /\ submit'[r].copy = x
         /\ \A q \in Requests : q # r => submit'[q] = submit[q]
<1> DEFINE new == [submit[r] EXCEPT !.pc = pc, !.copy = x]
<1>1. submit[r] \in Submission /\ submit \in [Requests -> Submission] BY DEF TypeOK
<1>2. new \in Submission /\ new.pc = pc /\ new.copy = x BY <1>1 DEF Submission
<1>3. submit' = [submit EXCEPT ![r] = new] BY <1>1 DEF Submitting
<1> HIDE DEF new
<1>4. submit' \in [Requests -> Submission] BY <1>1, <1>2, <1>3
<1>5. submit'[r] = new /\ \A q \in Requests : q # r => submit'[q] = submit[q] BY <1>1, <1>3
<1> QED BY <1>2, <1>4, <1>5 DEF TypeOK

LEMMA GotoTypes ==
  ASSUME TypeOK, NEW c \in Calls,
         NEW pc \in {"idle", "grant", "application", "registry", "action", "instance"},
         Goto(c, pc)
  PROVE  /\ call' \in [Calls -> CallState]
         /\ \A d \in Calls : WellFormed(call'[d].copy)
         /\ call'[c].pc = pc /\ call'[c].request = call[c].request
         /\ call'[c].copy = call[c].copy /\ call'[c].verdict = call[c].verdict
         /\ call'[c].action = call[c].action
         /\ \A d \in Calls : d # c => call'[d] = call[d]
<1> DEFINE new == [call[c] EXCEPT !.pc = pc]
<1>1. call[c] \in CallState /\ call \in [Calls -> CallState] BY DEF TypeOK
<1>2. /\ new \in CallState /\ new.pc = pc /\ new.request = call[c].request
      /\ new.copy = call[c].copy /\ new.verdict = call[c].verdict
      /\ new.action = call[c].action
  BY <1>1 DEF CallState
<1>3. call' = [call EXCEPT ![c] = new] BY <1>1 DEF Goto
<1> HIDE DEF new
<1>4. call' \in [Calls -> CallState] BY <1>1, <1>2, <1>3
<1>5. call'[c] = new /\ \A d \in Calls : d # c => call'[d] = call[d] BY <1>1, <1>3
<1> QED BY <1>2, <1>4, <1>5 DEF TypeOK

LEMMA SubmitTypeOK ==
  ASSUME TypeOK, CopiesSound, NEW r \in Requests, SubmitStep(r) \/ SubmitFails(r)
  PROVE  TypeOK'
<1>0. /\ available \subseteq Known /\ submit \in [Requests -> Submission]
      /\ submit[r] \in Submission
      /\ inst \in [Requests -> Copy] /\ app \in [Requests -> Status]
      /\ registry \in [Requests -> [status : Status, grants : Nat]]
      /\ \A q \in Requests : WellFormed(submit[q].copy) /\ WellFormed(inst[q])
  BY DEF TypeOK
<1> DEFINE Kept == /\ submit' \in [Requests -> Submission]
                   /\ \A q \in Requests : WellFormed(submit'[q].copy)
<1>1. CASE Submit(r)
  <2>1. Kept
    <3>1. ASSUME NEW p \in SameKey(r), submit' = [submit EXCEPT ![r].pc = "restore", ![r].found = p]
          PROVE  Kept
      <4> DEFINE new == [submit[r] EXCEPT !.pc = "restore", !.found = p]
      <4>1. p \in Requests BY DEF SameKey
      <4>2. new \in Submission /\ new.copy = submit[r].copy BY <1>0, <4>1 DEF Submission
      <4>3. submit' = [submit EXCEPT ![r] = new] BY <1>0, <3>1
      <4> HIDE DEF new
      <4> QED BY <1>0, <4>2, <4>3
    <3>2. ASSUME Submitting(r, IF StartInstance = NoInstance THEN "refused"
                               ELSE "instance", StartInstance)
          PROVE  Kept
      BY <1>0, <3>2, Started, SubmittingTypes
    <3> QED BY <1>1, <3>1, <3>2 DEF Submit
  <2> QED BY <1>1, <2>1 DEF Submit, TypeOK, tables
<1>2. CASE RestoreExisting(r)
  <2>1. Kept BY <1>2, NoInstanceTypes, SubmittingTypes DEF RestoreExisting
  <2>2. registry' \in [Requests -> [status : Status, grants : Nat]]
    <3>1. submit[r].found \in Requests BY <1>0 DEF Submission
    <3> QED BY <1>0, <1>2, <3>1 DEF RestoreExisting, Status
  <2> QED BY <1>2, <2>1, <2>2 DEF RestoreExisting, TypeOK, tables
<1>3. CASE SubmitInstance(r)
  <2>1. Kept BY <1>3, NoInstanceTypes, SubmittingTypes DEF SubmitInstance
  <2>2. inst' \in [Requests -> Copy] /\ \A q \in Requests : WellFormed(inst'[q])
    BY <1>0, <1>3 DEF SubmitInstance, Submission
  <2> QED BY <1>3, <2>1, <2>2 DEF SubmitInstance, TypeOK
<1>4. CASE SubmitApplication(r)
  <2>1. Kept BY <1>4, NoInstanceTypes, SubmittingTypes DEF SubmitApplication
  <2>2. app' \in [Requests -> Status] BY <1>0, <1>4 DEF SubmitApplication, Status
  <2> QED BY <1>4, <2>1, <2>2 DEF SubmitApplication, TypeOK
<1>5. CASE SubmitQueue(r)
  <2>1. Kept BY <1>5, NoInstanceTypes, SubmittingTypes DEF SubmitQueue
  <2>2. registry' \in [Requests -> [status : Status, grants : Nat]] BY <1>0, <1>5 DEF SubmitQueue, Status
  <2> QED BY <1>5, <2>1, <2>2 DEF SubmitQueue, TypeOK, tables
<1>6. CASE SubmitFails(r)
  <2>1. Kept BY <1>6, NoInstanceTypes, SubmittingTypes DEF SubmitFails
  <2>2. faults' \in 0..MaxFaults BY <1>6, FaultTypes DEF SubmitFails
  <2> QED BY <1>6, <2>1, <2>2 DEF SubmitFails, TypeOK, tables
<1> QED BY <1>1, <1>2, <1>3, <1>4, <1>5, <1>6 DEF SubmitStep

LEMMA CallTypeOK ==
  ASSUME TypeOK, NEW c \in Calls, CallStep(c) \/ CallFails(c)
  PROVE  TypeOK'
<1>0. /\ call \in [Calls -> CallState] /\ call[c] \in CallState
      /\ Req(c) \in Requests /\ call[c].copy \in Copy
      /\ grants \in [Requests -> Nat] /\ actions \subseteq Requests \X Action
      /\ call[c].action \in Action /\ call[c].verdict \in Status
      /\ inst \in [Requests -> Copy] /\ app \in [Requests -> Status]
      /\ registry \in [Requests -> [status : Status, grants : Nat]]
      /\ \A d \in Calls : WellFormed(call[d].copy)
      /\ \A q \in Requests : WellFormed(inst[q])
  BY DEF TypeOK, Req, CallState, Status
<1> DEFINE Kept == /\ call' \in [Calls -> CallState]
                   /\ \A d \in Calls : WellFormed(call'[d].copy)
<1>1. CASE SaveGrant(c)
  <2>1. Kept BY <1>1, GotoTypes DEF SaveGrant
  <2>2. grants' \in [Requests -> Nat] BY <1>0, <1>1 DEF SaveGrant
  <2> QED BY <1>1, <2>1, <2>2 DEF SaveGrant, TypeOK
<1>2. CASE SaveApplication(c)
  <2>1. Kept BY <1>2, GotoTypes DEF SaveApplication
  <2>2. app' \in [Requests -> Status] BY <1>0, <1>2 DEF SaveApplication
  <2> QED BY <1>2, <2>1, <2>2 DEF SaveApplication, TypeOK
<1>3. CASE UpdateRegistry(c)
  <2>1. Kept BY <1>3, GotoTypes DEF UpdateRegistry
  <2>2. registry' \in [Requests -> [status : Status, grants : Nat]]
    <3> DEFINE held == registry[Req(c)]
               new == CASE call[c].verdict = "Denied" -> [held EXCEPT !.status = "Denied"]
                        [] held.status = "Absent"     -> held
                        [] OTHER -> [status |-> "Active", grants |-> held.grants + 1]
    <3>1. held \in [status : Status, grants : Nat] BY <1>0
    <3>2. registry' = [registry EXCEPT ![Req(c)] = new] BY <1>3 DEF UpdateRegistry
    <3> HIDE DEF held
    <3>3. new \in [status : Status, grants : Nat]
      <4>1. CASE call[c].verdict = "Denied" BY <3>1, <4>1 DEF Status
      <4>2. CASE call[c].verdict # "Denied" BY <3>1, <4>2 DEF Status
      <4> QED BY <4>1, <4>2
    <3> HIDE DEF new
    <3> QED BY <1>0, <3>2, <3>3
  <2> QED BY <1>3, <2>1, <2>2 DEF UpdateRegistry, TypeOK, tables
<1>4. CASE SaveAction(c)
  <2>1. Kept BY <1>4, GotoTypes DEF SaveAction
  <2>2. actions' \subseteq Requests \X Action BY <1>0, <1>4 DEF SaveAction
  <2> QED BY <1>4, <2>1, <2>2 DEF SaveAction, TypeOK
<1>5. CASE SaveInstance(c)
  <2>1. Kept BY <1>0, <1>5, IdleCallTypes, NoInstanceTypes DEF SaveInstance
  <2>2. inst' \in [Requests -> Copy] /\ \A q \in Requests : WellFormed(inst'[q])
    BY <1>0, <1>5 DEF SaveInstance
  <2> QED BY <1>5, <2>1, <2>2 DEF SaveInstance, TypeOK
<1>6. CASE CallFails(c)
  <2>1. Kept BY <1>0, <1>6, IdleCallTypes, NoInstanceTypes DEF CallFails
  <2>2. faults' \in 0..MaxFaults BY <1>6, FaultTypes DEF CallFails
  <2> QED BY <1>6, <2>1, <2>2 DEF CallFails, TypeOK, tables
<1> QED BY <1>1, <1>2, <1>3, <1>4, <1>5, <1>6 DEF CallStep

LEMMA SoundStays ==
  ASSUME NEW given, NEW more, given \subseteq more, NEW r, NEW x, Sound(given, r, x)
  PROVE  Sound(more, r, x)
BY DEF Sound, Genuine, Earned

LEMMA CallbackTaken ==
  ASSUME TypeOK, CopiesSound, NEW c \in Calls, NEW r \in Requests, NEW u \in Callers,
         NEW action \in Action, Callback(c, r, u, action)
  PROVE  /\ said \subseteq said' /\ said' \subseteq Requests \X Users \X DOMAIN Flow
         /\ calls' \in 0..MaxCallbacks
         /\ \E x \in Instance, v \in {"Pending", "Active", "Denied"} :
              /\ WellFormed(x) /\ Sound(said', r, x)
              /\ call' = [call EXCEPT ![c] =
                    [pc |-> FirstStatement(v), request |-> r, action |-> action,
                     verdict |-> v, copy |-> x]]
              /\ action = "delegate" => x.status = "Pending"
              /\ x.status # "Pending" => v # "Pending"
              /\ v = "Active" => x.status = "Approved"
<1> DEFINE y == inst[r]
<1>0. /\ y \in Instance /\ WellFormed(y) /\ Sound(said, r, y) /\ u \in Users
      /\ available \subseteq Known
  BY WorkflowAssumption, NoInstanceTypes DEF TypeOK, CopiesSound, Callback
<1>1. y.current \in DOMAIN Flow BY <1>0, InstanceTypes, FlowTypes
<1>2. /\ said \subseteq said' /\ said' \subseteq Requests \X Users \X DOMAIN Flow
      /\ action = "approve" => <<r, u, y.current>> \in said'
  BY <1>0, <1>1 DEF Callback, TypeOK
<1>3. calls' \in 0..MaxCallbacks BY WorkflowAssumption DEF Callback, TypeOK
<1>4. PICK x \in Outcomes(r, u, action) \ {NoInstance} : \E v \in Verdicts(x) :
        call' = [call EXCEPT ![c] =
                    [pc |-> FirstStatement(v), request |-> r, action |-> action,
                     verdict |-> v, copy |-> x]]
  BY DEF Callback
<1>5. PICK v \in Verdicts(x) :
        call' = [call EXCEPT ![c] =
                    [pc |-> FirstStatement(v), request |-> r, action |-> action,
                     verdict |-> v, copy |-> x]]
  BY <1>4
<1> HIDE DEF y
<1>6. Sound(said', r, y) BY <1>0, <1>2, SoundStays
<1>7. /\ x \in Copy /\ WellFormed(x) /\ Sound(said', r, x)
      /\ x.status \in {"Pending", "Approved", "Rejected"}
      /\ action = "delegate" => x.status = "Pending"
  <2>1. CASE action = "approve"
    <3>1. x = Approve(y, u) BY <1>4, <2>1 DEF Outcomes, y
    <3> QED BY <1>0, <1>2, <1>4, <1>6, <2>1, <3>1, Approved
  <2>2. CASE action = "reject"
    <3>1. x = Reject(y) BY <1>4, <2>2 DEF Outcomes, y
    <3> QED BY <1>0, <1>4, <1>6, <2>2, <3>1, Rejected
  <2>3. CASE action = "delegate"
    <3>1. PICK v2 \in Deputies : x = DelegateTo(y, u, v2) BY <1>4, <2>3 DEF Outcomes, y
    <3> QED BY <1>0, <1>4, <1>6, <2>3, <3>1, Delegated
  <2> QED BY <2>1, <2>2, <2>3 DEF Action
<1>8. x \in Instance BY <1>4, <1>7, NoInstanceTypes
<1>9. /\ v \in {"Pending", "Active", "Denied"}
      /\ x.status # "Pending" => v # "Pending"
      /\ v = "Active" => x.status = "Approved"
  BY <1>7, <1>5 DEF Verdicts
<1>10. /\ x \in Instance /\ v \in {"Pending", "Active", "Denied"}
       /\ WellFormed(x) /\ Sound(said', r, x)
       /\ call' = [call EXCEPT ![c] =
             [pc |-> FirstStatement(v), request |-> r, action |-> action,
              verdict |-> v, copy |-> x]]
       /\ action = "delegate" => x.status = "Pending"
       /\ x.status # "Pending" => v # "Pending"
       /\ v = "Active" => x.status = "Approved"
  <2>1. call' = [call EXCEPT ![c] =
          [pc |-> FirstStatement(v), request |-> r, action |-> action,
           verdict |-> v, copy |-> x]]
    BY <1>5
  <2>2. /\ x \in Instance /\ v \in {"Pending", "Active", "Denied"}
        /\ WellFormed(x) /\ Sound(said', r, x)
    BY <1>7, <1>8, <1>9
  <2>3. /\ action = "delegate" => x.status = "Pending"
        /\ x.status # "Pending" => v # "Pending"
        /\ v = "Active" => x.status = "Approved"
    BY <1>7, <1>9
  <2> QED BY <2>1, <2>2, <2>3, Zenon
<1> QED BY <1>2, <1>3, <1>10, Zenon

LEMMA CallbackTypeOK ==
  ASSUME TypeOK, CopiesSound, NEW c \in Calls, NEW r \in Requests, NEW u \in Callers,
         NEW action \in Action, Callback(c, r, u, action)
  PROVE  TypeOK'
<1>1. PICK x \in Instance, v \in {"Pending", "Active", "Denied"} :
        /\ WellFormed(x)
        /\ call' = [call EXCEPT ![c] =
              [pc |-> FirstStatement(v), request |-> r, action |-> action,
               verdict |-> v, copy |-> x]]
  BY CallbackTaken
<1> DEFINE new == [pc |-> FirstStatement(v), request |-> r, action |-> action,
                   verdict |-> v, copy |-> x]
<1>2. new \in CallState /\ new.copy = x BY <1>1 DEF CallState, FirstStatement, Copy
<1>3. call' = [call EXCEPT ![c] = new] BY <1>1
<1> HIDE DEF new
<1>4. call' \in [Calls -> CallState] /\ \A d \in Calls : WellFormed(call'[d].copy)
  BY <1>1, <1>2, <1>3 DEF TypeOK
<1>5. said' \subseteq Requests \X Users \X DOMAIN Flow /\ calls' \in 0..MaxCallbacks BY CallbackTaken
<1> QED BY <1>4, <1>5 DEF Callback, TypeOK, tables

LEMMA TickTypeOK ==
  ASSUME TypeOK, CopiesSound, TickPending,
         TickStep \/ TickFails \/ ApiCrash \/ \E u \in Absentees : HrSync(u)
  PROVE  TypeOK'
<1>0. /\ available \subseteq Known /\ inst \in [Requests -> Copy]
      /\ \A q \in Requests : WellFormed(inst[q])
      /\ DOMAIN tick \subseteq Requests
      /\ \A q \in DOMAIN tick : tick[q] \in Instance /\ WellFormed(tick[q])
  BY NoInstanceTypes DEF TypeOK, TickPending
<1>1. CASE LoadDueApprovalInstances BY <1>0, <1>1 DEF LoadDueApprovalInstances, TypeOK, tables
<1>2. CASE \E r \in Requests : TickInstance(r)
  <2>1. PICK r \in Requests : TickInstance(r) BY <1>2
  <2> DEFINE x == TickTimeouts(tick[r])
  <2>2. r \in DOMAIN tick /\ tick[r].status = "Pending" /\ Sound(said, r, tick[r])
    BY <2>1 DEF TickInstance, TickPending, CopiesSound
  <2>3. x \in Copy /\ WellFormed(x) BY <1>0, <2>2, TickedOut
  <2> HIDE DEF x
  <2>4. inst' \in [Requests -> Copy] /\ \A q \in Requests : WellFormed(inst'[q])
    BY <1>0, <2>1, <2>3 DEF TickInstance, x
  <2>5. /\ DOMAIN tick' \subseteq Requests
        /\ \A q \in DOMAIN tick' : tick'[q] \in Copy /\ WellFormed(tick'[q])
    BY <1>0, <2>1 DEF TickInstance, Copy
  <2> QED BY <2>1, <2>4, <2>5 DEF TickInstance, TypeOK
<1>3. CASE TickFails
  <2>1. faults' \in 0..MaxFaults BY <1>3, FaultTypes DEF TickFails
  <2> QED BY <1>3, <2>1 DEF TickFails, TypeOK, tables
<1>4. CASE ApiCrash
  <2>1. faults' \in 0..MaxFaults BY <1>4, FaultTypes DEF ApiCrash
  <2>2. /\ call' \in [Calls -> CallState] /\ \A d \in Calls : WellFormed(call'[d].copy)
    BY <1>4, IdleCallTypes, NoInstanceTypes DEF ApiCrash
  <2>3. /\ submit' \in [Requests -> Submission]
        /\ \A q \in Requests : WellFormed(submit'[q].copy)
    BY <1>4, NoInstanceTypes DEF ApiCrash, TypeOK, Submission
  <2>4. registry' \in [Requests -> [status : Status, grants : Nat]] BY <1>4 DEF ApiCrash, TypeOK
  <2> QED BY <1>4, <2>1, <2>2, <2>3, <2>4 DEF ApiCrash, TypeOK, tables
<1>5. CASE \E u \in Absentees : HrSync(u)
  <2>1. available' \subseteq Known BY <1>0, <1>5, WorkflowAssumption DEF HrSync
  <2> QED BY <1>5, <2>1 DEF HrSync, TypeOK, tables
<1> QED BY <1>1, <1>2, <1>3, <1>4, <1>5 DEF TickStep

LEMMA DeadlineEffect ==
  ASSUME TypeOK, CopiesSound, NEW r \in Requests, DeadlinePasses(r)
  PROVE  /\ inst' \in [Requests -> Copy] /\ inst'[r].status = "Pending"
         /\ inst[r].status = "Pending" /\ inst'[r] \in Instance
         /\ WellFormed(inst'[r]) /\ Sound(said, r, inst'[r])
         /\ \A q \in Requests : q # r => inst'[q] = inst[q]
         /\ call' \in [Calls -> CallState]
         /\ \A c \in Calls :
              /\ call'[c].pc = call[c].pc /\ call'[c].request = call[c].request
              /\ call'[c].action = call[c].action /\ call'[c].verdict = call[c].verdict
              /\ call'[c].copy.status = call[c].copy.status
              /\ WellFormed(call'[c].copy) /\ Sound(said, call'[c].request, call'[c].copy)
<1>0. /\ inst \in [Requests -> Copy] /\ inst[r].status = "Pending" /\ WellFormed(inst[r])
      /\ Sound(said, r, inst[r])
  BY DEF TypeOK, CopiesSound, DeadlinePasses
<1>1. inst[r] \in Instance BY <1>0, NoInstanceTypes
<1> DEFINE late == Overdue(inst[r])
<1>2. /\ late \in Instance /\ WellFormed(late) /\ Sound(said, r, late)
      /\ late.status = "Pending"
  BY <1>0, <1>1, Outdated
<1>3. inst' = [inst EXCEPT ![r] = late] BY DEF DeadlinePasses
<1> HIDE DEF late
<1>4. /\ inst' \in [Requests -> Copy] /\ inst'[r] = late
      /\ \A q \in Requests : q # r => inst'[q] = inst[q]
  BY <1>0, <1>2, <1>3 DEF Copy
<1> DEFINE Moved(c) == [call[c] EXCEPT !.copy = Overdue(@)]
           Shares(c) == /\ call[c].pc # "idle" /\ Req(c) = r
                        /\ call[c].copy.status = "Pending"
                        /\ call[c].copy.current = inst[r].current
<1>5. call' = [c \in Calls |-> IF Shares(c) THEN Moved(c) ELSE call[c]] BY DEF DeadlinePasses
<1>6. ASSUME NEW c \in Calls
      PROVE  /\ call[c] \in CallState /\ WellFormed(call[c].copy)
             /\ Sound(said, call[c].request, call[c].copy)
  BY DEF TypeOK, CopiesSound
<1>7. ASSUME NEW c \in Calls, Shares(c)
      PROVE  /\ Moved(c) \in CallState /\ Moved(c).pc = call[c].pc
             /\ Moved(c).request = call[c].request /\ Moved(c).action = call[c].action
             /\ Moved(c).verdict = call[c].verdict
             /\ Moved(c).copy.status = call[c].copy.status
             /\ WellFormed(Moved(c).copy) /\ Sound(said, Moved(c).request, Moved(c).copy)
  <2> DEFINE x == Overdue(call[c].copy)
  <2>1. call[c].copy \in Copy /\ call[c].copy.status = "Pending" BY <1>6, <1>7 DEF CallState
  <2>2. call[c].copy \in Instance BY <2>1, NoInstanceTypes
  <2>3. /\ x \in Instance /\ WellFormed(x) /\ Sound(said, call[c].request, x)
        /\ x.status = call[c].copy.status
    BY <1>6, <2>2, Outdated
  <2>4. Moved(c) = [call[c] EXCEPT !.copy = x] OBVIOUS
  <2> HIDE DEF x, Moved
  <2>5. /\ Moved(c) \in CallState /\ Moved(c).pc = call[c].pc
        /\ Moved(c).request = call[c].request /\ Moved(c).action = call[c].action
        /\ Moved(c).verdict = call[c].verdict /\ Moved(c).copy = x
    BY <1>6, <2>3, <2>4 DEF CallState, Copy
  <2> QED BY <2>3, <2>5
<1> HIDE DEF Moved, Shares
<1>8. call' \in [Calls -> CallState] BY <1>5, <1>6, <1>7
<1>9. ASSUME NEW c \in Calls
      PROVE  /\ call'[c].pc = call[c].pc /\ call'[c].request = call[c].request
             /\ call'[c].action = call[c].action /\ call'[c].verdict = call[c].verdict
             /\ call'[c].copy.status = call[c].copy.status
             /\ WellFormed(call'[c].copy) /\ Sound(said, call'[c].request, call'[c].copy)
  <2>1. CASE Shares(c)
    <3>1. call'[c] = Moved(c) BY <1>5, <2>1
    <3> QED BY <1>7, <2>1, <3>1
  <2>2. CASE ~Shares(c)
    <3>1. call'[c] = call[c] BY <1>5, <2>2
    <3> QED BY <1>6, <3>1
  <2> QED BY <2>1, <2>2
<1> QED BY <1>0, <1>2, <1>4, <1>8, <1>9

----
(* Submissions. *)

\* A submission moves on and leaves the tables alone.
LEMMA SubmissionMoves ==
  ASSUME WorkflowInv, TypeOK', NEW r \in Requests,
         UNCHANGED <<inst, app, grants, actions, call, tick, said>>,
         \A q \in Requests : registry'[q].grants = registry[q].grants,
         \A q \in Requests : q # r => submit'[q] = submit[q],
         Sound(said, r, submit'[r].copy), Submitted(r)'
  PROVE  WorkflowInv'
<1>1. CopiesSound' BY DEF WorkflowInv, CopiesSound
<1>2. GrantsSound' BY DEF WorkflowInv, GrantsSound
<1>3. ASSUME NEW q \in Requests PROVE Submitted(q)'
  <2>1. CASE q = r BY <2>1
  <2>2. CASE q # r BY <2>2 DEF WorkflowInv, Submitted
  <2> QED BY <2>1, <2>2
<1>4. \A c \in Calls : Decided(c)' BY DEF WorkflowInv, Decided, Req
<1>5. TickPending' /\ KeysUnique' BY DEF WorkflowInv, TickPending, KeysUnique
<1> QED BY <1>1, <1>2, <1>3, <1>4, <1>5 DEF WorkflowInv

LEMMA SubmitKeeps ==
  ASSUME WorkflowInv, TypeOK', NEW r \in Requests,
         Submit(r) \/ RestoreExisting(r) \/ SubmitQueue(r) \/ SubmitFails(r)
  PROVE  WorkflowInv'
<1>0. /\ TypeOK /\ available \subseteq Known /\ submit \in [Requests -> Submission]
      /\ submit[r] \in Submission
      /\ registry \in [Requests -> [status : Status, grants : Nat]]
      /\ Submitted(r) /\ Sound(said, r, submit[r].copy)
  BY DEF WorkflowInv, TypeOK, CopiesSound
<1>1. CASE Submit(r)
  <2>1. /\ UNCHANGED <<inst, app, grants, actions, call, tick, said, registry>>
        /\ submit[r].pc = "idle"
    BY <1>1 DEF Submit, tables
  <2>2. ASSUME NEW p \in SameKey(r), submit' = [submit EXCEPT ![r].pc = "restore", ![r].found = p]
        PROVE  WorkflowInv'
    <3> DEFINE new == [submit[r] EXCEPT !.pc = "restore", !.found = p]
    <3>1. new.pc = "restore" /\ new.copy = submit[r].copy BY <1>0 DEF Submission
    <3>2. submit' = [submit EXCEPT ![r] = new] BY <1>0, <2>2
    <3> HIDE DEF new
    <3>3. submit'[r] = new /\ \A q \in Requests : q # r => submit'[q] = submit[q] BY <1>0, <3>2
    <3>4. Submitted(r)' BY <1>0, <2>1, <3>1, <3>3 DEF Submitted
    <3> QED BY <1>0, <2>1, <3>1, <3>3, <3>4, SubmissionMoves
  <2>3. ASSUME Submitting(r, IF StartInstance = NoInstance THEN "refused"
                             ELSE "instance", StartInstance)
        PROVE  WorkflowInv'
    <3> DEFINE pc == IF StartInstance = NoInstance THEN "refused" ELSE "instance"
    <3>1. /\ StartInstance \in Copy /\ WellFormed(StartInstance)
          /\ Sound(said, r, StartInstance)
          /\ pc = "instance" => StartInstance.status = "Pending"
      BY <1>0, Started
    <3>2. pc \in {"refused", "instance"} OBVIOUS
    <3> HIDE DEF pc
    <3>3. /\ submit'[r].pc = pc /\ submit'[r].copy = StartInstance
          /\ \A q \in Requests : q # r => submit'[q] = submit[q]
      <4>1. Submitting(r, pc, StartInstance) BY <2>3 DEF pc
      <4> QED BY <1>0, <3>1, <3>2, <4>1, SubmittingTypes
    <3>4. Submitted(r)' BY <1>0, <2>1, <3>1, <3>2, <3>3 DEF Submitted
    <3> QED BY <1>0, <2>1, <3>1, <3>3, <3>4, SubmissionMoves
  <2> QED BY <1>1, <2>2, <2>3 DEF Submit
<1>2. ASSUME NEW pc \in {"done", "refused"}, Submitting(r, pc, NoInstance),
             UNCHANGED <<inst, app, grants, actions, call, tick, said>>,
             \A q \in Requests : registry'[q].grants = registry[q].grants
      PROVE  WorkflowInv'
  <2>1. /\ submit'[r].pc = pc /\ submit'[r].copy = NoInstance
        /\ \A q \in Requests : q # r => submit'[q] = submit[q]
    BY <1>0, <1>2, NoInstanceTypes, SubmittingTypes
  <2>2. Submitted(r)' BY <1>0, <1>2, <2>1 DEF Submitted
  <2>3. Sound(said, r, submit'[r].copy) BY <2>1, NoInstanceTypes
  <2> QED BY <1>2, <2>1, <2>2, <2>3, SubmissionMoves
<1>3. CASE RestoreExisting(r)
  <2>1. \A q \in Requests : registry'[q].grants = registry[q].grants BY <1>0, <1>3 DEF RestoreExisting
  <2> QED BY <1>2, <1>3, <2>1 DEF RestoreExisting, tables
<1>4. CASE SubmitQueue(r)
  <2>1. \A q \in Requests : registry'[q].grants = registry[q].grants BY <1>0, <1>4 DEF SubmitQueue
  <2> QED BY <1>2, <1>4, <2>1 DEF SubmitQueue, tables
<1>5. CASE SubmitFails(r) BY <1>2, <1>5 DEF SubmitFails, tables
<1> QED BY <1>1, <1>3, <1>4, <1>5

LEMMA SubmitInstanceKeeps ==
  ASSUME WorkflowInv, TypeOK', NEW r \in Requests, SubmitInstance(r)
  PROVE  WorkflowInv'
<1>0. /\ TypeOK /\ inst \in [Requests -> Copy] /\ Submitted(r)
      /\ Sound(said, r, submit[r].copy) /\ submit[r].pc = "instance"
      /\ app[r] = "Absent" /\ inst[r] = NoInstance /\ submit[r].copy.status = "Pending"
      /\ UNCHANGED <<available, app, grants, actions, registry, call, tick, said>>
  BY DEF WorkflowInv, TypeOK, CopiesSound, SubmitInstance, Submitted
<1>1. CASE KeyFree(r, submit[r].copy) /\ inst' = [inst EXCEPT ![r] = submit[r].copy]
           /\ Submitting(r, "application", NoInstance)
  <2>1. /\ submit'[r].pc = "application" /\ submit'[r].copy = NoInstance
        /\ \A q \in Requests : q # r => submit'[q] = submit[q]
    BY <1>0, <1>1, NoInstanceTypes, SubmittingTypes
  <2>2. /\ inst'[r] = submit[r].copy
        /\ \A q \in Requests : q # r => inst'[q] = inst[q]
    BY <1>0, <1>1
  <2>3. CopiesSound'
    <3>1. ASSUME NEW q \in Requests
          PROVE  Sound(said, q, inst'[q]) /\ Sound(said, q, submit'[q].copy)
      <4>1. CASE q = r BY <1>0, <2>1, <2>2, <4>1, NoInstanceTypes
      <4>2. CASE q # r BY <2>1, <2>2, <4>2 DEF WorkflowInv, CopiesSound
      <4> QED BY <4>1, <4>2
    <3> QED BY <1>0, <3>1 DEF WorkflowInv, CopiesSound
  <2>4. ASSUME NEW q \in Requests PROVE Submitted(q)'
    <3>1. CASE q = r BY <1>0, <2>1, <2>2, <3>1 DEF Submitted
    <3>2. CASE q # r BY <1>0, <2>1, <2>2, <3>2 DEF WorkflowInv, Submitted
    <3> QED BY <3>1, <3>2
  <2>5. KeysUnique' BY <1>0, <1>1, <2>2 DEF WorkflowInv, KeysUnique, KeyFree, SameKey
  <2>6. GrantsSound' /\ (\A c \in Calls : Decided(c)') /\ TickPending'
    BY <1>0 DEF WorkflowInv, GrantsSound, Decided, Req, TickPending
  <2> QED BY <2>3, <2>4, <2>5, <2>6 DEF WorkflowInv
<1>2. CASE Submitting(r, "refused", NoInstance) /\ UNCHANGED inst
  <2>1. /\ submit'[r].pc = "refused" /\ submit'[r].copy = NoInstance
        /\ \A q \in Requests : q # r => submit'[q] = submit[q]
    BY <1>0, <1>2, NoInstanceTypes, SubmittingTypes
  <2>2. Submitted(r)' BY <1>0, <1>2, <2>1 DEF Submitted
  <2>3. Sound(said, r, submit'[r].copy) BY <2>1, NoInstanceTypes
  <2> QED BY <1>0, <1>2, <2>1, <2>2, <2>3, SubmissionMoves
<1> QED BY <1>1, <1>2 DEF SubmitInstance

LEMMA SubmitApplicationKeeps ==
  ASSUME WorkflowInv, TypeOK', NEW r \in Requests, SubmitApplication(r)
  PROVE  WorkflowInv'
<1>0. /\ TypeOK /\ app \in [Requests -> Status] /\ Submitted(r)
      /\ submit[r].pc = "application" /\ app[r] = "Absent" /\ inst[r].status = "Pending"
      /\ UNCHANGED <<available, inst, grants, actions, registry, call, tick, said>>
      /\ app'[r] = "Pending" /\ \A q \in Requests : q # r => app'[q] = app[q]
  BY DEF WorkflowInv, TypeOK, SubmitApplication, Submitted
<1>1. /\ submit'[r].pc = "queue" /\ submit'[r].copy = NoInstance
      /\ \A q \in Requests : q # r => submit'[q] = submit[q]
  BY <1>0, NoInstanceTypes, SubmittingTypes DEF SubmitApplication
<1>2. CopiesSound'
  <2>1. ASSUME NEW q \in Requests PROVE Sound(said, q, submit'[q].copy)
    <3>1. CASE q = r BY <1>1, <3>1, NoInstanceTypes
    <3>2. CASE q # r BY <1>1, <3>2 DEF WorkflowInv, CopiesSound
    <3> QED BY <3>1, <3>2
  <2> QED BY <1>0, <2>1 DEF WorkflowInv, CopiesSound
<1>3. ASSUME NEW q \in Requests PROVE Submitted(q)'
  <2>1. CASE q = r BY <1>0, <1>1, <2>1 DEF Submitted
  <2>2. CASE q # r BY <1>0, <1>1, <2>2 DEF WorkflowInv, Submitted
  <2> QED BY <2>1, <2>2
<1>4. ASSUME NEW c \in Calls PROVE Decided(c)'
  <2>1. Req(c) \in Requests /\ Decided(c) BY <1>0 DEF WorkflowInv, TypeOK, CallState, Req
  <2>2. CASE call[c].pc = "idle" BY <1>0, <2>2 DEF Decided
  <2>3. CASE call[c].pc # "idle"
    <3>1. Req(c) # r BY <1>0, <2>1, <2>3 DEF Decided
    <3> QED BY <1>0, <2>1, <3>1 DEF Decided, Req
  <2> QED BY <2>2, <2>3
<1>5. GrantsSound' /\ KeysUnique' BY <1>0 DEF WorkflowInv, GrantsSound, KeysUnique
<1>6. TickPending' BY <1>0 DEF WorkflowInv, TickPending, TypeOK
<1> QED BY <1>2, <1>3, <1>4, <1>5, <1>6 DEF WorkflowInv

----
(* Callbacks. *)

\* What an approved copy has earned.
LEMMA ApprovedIsEarned ==
  ASSUME TypeOK, NEW c \in Calls, Sound(said, Req(c), call[c].copy),
         call[c].copy.status = "Approved"
  PROVE  \A i \in DOMAIN Flow : Earned(said, Req(c), i)
<1> DEFINE x == call[c].copy
<1>1. x \in Instance /\ WellFormed(x) BY NoInstanceTypes DEF TypeOK, CallState
<1> HIDE DEF x
<1>2. /\ x # NoInstance /\ x.current \in 1..Len(Flow)
      /\ DOMAIN Flow = 1..Len(Flow) /\ Len(Flow) \in Nat
  BY <1>1, InstanceTypes, FlowTypes
<1>3. /\ \A i \in 1..(x.current - 1) : Earned(said, Req(c), i)
      /\ x.current = Len(Flow) /\ Earned(said, Req(c), x.current)
  BY <1>2 DEF Sound, x
<1>4. ASSUME NEW i \in DOMAIN Flow PROVE Earned(said, Req(c), i)
  <2>1. i = x.current \/ i \in 1..(x.current - 1) BY <1>2, <1>3
  <2> QED BY <1>3, <2>1
<1> QED BY <1>4

\* A callback goes on with what it holds and leaves the instances alone.
LEMMA CallGoesOn ==
  ASSUME WorkflowInv, TypeOK', NEW c \in Calls,
         UNCHANGED <<inst, submit, tick, said>>, actions \subseteq actions',
         NEW pc \in {"application", "registry", "action", "instance"},
         Goto(c, pc), call[c].pc # "idle",
         \A q \in Requests : \/ app'[q] = app[q]
                             \/ app[q] # "Absent" /\ app'[q] \in {"Active", "Denied"},
         pc \in {"application", "registry"} => call[c].verdict # "Pending",
         Decided(c)',
         \A q \in Requests : grants'[q] + registry'[q].grants > 0 =>
           \/ grants[q] + registry[q].grants > 0
           \/ q = Req(c) /\ call[c].copy.status = "Approved"
  PROVE  WorkflowInv'
<1>0. TypeOK BY DEF WorkflowInv
<1>1. /\ call'[c].pc = pc /\ call'[c].request = call[c].request
      /\ call'[c].copy = call[c].copy /\ call'[c].verdict = call[c].verdict
      /\ call'[c].action = call[c].action
      /\ \A d \in Calls : d # c => call'[d] = call[d]
  BY <1>0, GotoTypes
<1>2. CopiesSound'
  <2>1. ASSUME NEW d \in Calls PROVE Sound(said, call'[d].request, call'[d].copy)
    <3>1. call'[d].request = call[d].request /\ call'[d].copy = call[d].copy BY <1>1
    <3> QED BY <3>1 DEF WorkflowInv, CopiesSound
  <2> QED BY <2>1 DEF WorkflowInv, CopiesSound
<1>3. GrantsSound'
  <2>1. ASSUME NEW q \in Requests, grants'[q] + registry'[q].grants > 0
        PROVE  \A i \in DOMAIN Flow : Earned(said, q, i)
    <3>1. CASE grants[q] + registry[q].grants > 0 BY <3>1 DEF WorkflowInv, GrantsSound
    <3>2. CASE q = Req(c) /\ call[c].copy.status = "Approved"
      <4>1. Sound(said, Req(c), call[c].copy) BY DEF WorkflowInv, CopiesSound, Req
      <4> QED BY <1>0, <3>2, <4>1, ApprovedIsEarned
    <3> QED BY <2>1, <3>1, <3>2
  <2>2. ASSUME NEW d \in Calls
        PROVE  /\ call'[d].pc = "grant" => call'[d].verdict = "Active"
               /\ call'[d].pc # "idle" /\ call'[d].verdict = "Active" =>
                    call'[d].copy.status = "Approved"
    <3>1. CASE d = c BY <1>1, <3>1 DEF WorkflowInv, GrantsSound
    <3>2. CASE d # c BY <1>1, <3>2 DEF WorkflowInv, GrantsSound
    <3> QED BY <3>1, <3>2
  <2> QED BY <2>1, <2>2 DEF GrantsSound
<1>4. ASSUME NEW q \in Requests PROVE Submitted(q)'
  <2>1. Submitted(q) BY DEF WorkflowInv
  <2> QED BY <2>1 DEF Submitted
<1>5. ASSUME NEW d \in Calls PROVE Decided(d)'
  <2>1. CASE d = c BY <2>1
  <2>2. CASE d # c
    <3>1. call'[d] = call[d] /\ Decided(d) /\ Req(d) \in Requests
      BY <1>0, <1>1, <2>2 DEF WorkflowInv, TypeOK, CallState, Req
    <3> QED BY <3>1 DEF Decided, Req
  <2> QED BY <2>1, <2>2
<1>6. TickPending'
  <2>1. DOMAIN tick \subseteq Requests BY <1>0 DEF TypeOK
  <2> QED BY <2>1 DEF WorkflowInv, TickPending
<1>7. KeysUnique' BY DEF WorkflowInv, KeysUnique
<1> QED BY <1>2, <1>3, <1>4, <1>5, <1>6, <1>7 DEF WorkflowInv

LEMMA CallKeeps ==
  ASSUME WorkflowInv, TypeOK', NEW c \in Calls,
         SaveGrant(c) \/ SaveApplication(c) \/ UpdateRegistry(c) \/ SaveAction(c)
  PROVE  WorkflowInv'
<1>0. /\ TypeOK /\ Req(c) \in Requests /\ Decided(c)
      /\ call[c].verdict \in {"Pending", "Active", "Denied"}
      /\ call[c].action \in Action
      /\ grants \in [Requests -> Nat] /\ app \in [Requests -> Status]
      /\ registry \in [Requests -> [status : Status, grants : Nat]]
      /\ \A q \in Requests : grants[q] \in Nat /\ registry[q].grants \in Nat
      /\ call[c].pc = "grant" => call[c].verdict = "Active"
      /\ call[c].pc # "idle" /\ call[c].verdict = "Active" =>
           call[c].copy.status = "Approved"
  BY DEF WorkflowInv, TypeOK, CallState, Req, GrantsSound
<1>1. CASE SaveGrant(c)
  <2>1. /\ UNCHANGED <<inst, submit, tick, said, app, actions, registry>>
        /\ call[c].pc = "grant" /\ Goto(c, "application")
        /\ \A q \in Requests : q # Req(c) => grants'[q] = grants[q]
    BY <1>0, <1>1 DEF SaveGrant
  <2>2. /\ call'[c].pc = "application" /\ call'[c].request = call[c].request
        /\ call'[c].copy = call[c].copy /\ call'[c].verdict = call[c].verdict
        /\ call'[c].action = call[c].action
    BY <1>0, <2>1, GotoTypes
  <2>3. Decided(c)' BY <1>0, <2>1, <2>2 DEF Decided, Req
  <2> QED BY <1>0, <2>1, <2>3, CallGoesOn
<1>2. CASE SaveApplication(c)
  <2>1. /\ UNCHANGED <<inst, submit, tick, said, grants, actions, registry>>
        /\ call[c].pc = "application" /\ Goto(c, "registry")
        /\ app'[Req(c)] = call[c].verdict
        /\ \A q \in Requests : q # Req(c) => app'[q] = app[q]
    BY <1>0, <1>2 DEF SaveApplication
  <2>2. /\ call'[c].pc = "registry" /\ call'[c].request = call[c].request
        /\ call'[c].copy = call[c].copy /\ call'[c].verdict = call[c].verdict
        /\ call'[c].action = call[c].action
    BY <1>0, <2>1, GotoTypes
  <2>3. call[c].verdict \in {"Active", "Denied"} /\ app[Req(c)] # "Absent" BY <1>0, <2>1 DEF Decided
  <2>4. Decided(c)' BY <1>0, <2>1, <2>2, <2>3 DEF Decided, Req
  <2> QED BY <1>0, <2>1, <2>3, <2>4, CallGoesOn
<1>3. CASE UpdateRegistry(c)
  <2>1. /\ UNCHANGED <<inst, submit, tick, said, app, grants, actions>>
        /\ call[c].pc = "registry" /\ Goto(c, "action")
        /\ \A q \in Requests : q # Req(c) => registry'[q] = registry[q]
    BY <1>0, <1>3 DEF UpdateRegistry, tables
  <2>2. /\ call'[c].pc = "action" /\ call'[c].request = call[c].request
        /\ call'[c].copy = call[c].copy /\ call'[c].verdict = call[c].verdict
        /\ call'[c].action = call[c].action
    BY <1>0, <2>1, GotoTypes
  <2>3. Decided(c)' BY <1>0, <2>1, <2>2 DEF Decided, Req
  <2>4. call[c].verdict # "Active" => registry'[Req(c)].grants = registry[Req(c)].grants
    <3>1. ASSUME call[c].verdict = "Denied"
          PROVE  registry'[Req(c)].grants = registry[Req(c)].grants
      <4> DEFINE held == registry[Req(c)]
                 new == CASE call[c].verdict = "Denied" -> [held EXCEPT !.status = "Denied"]
                          [] held.status = "Absent"     -> held
                          [] OTHER -> [status |-> "Active", grants |-> held.grants + 1]
      <4>1. registry' = [registry EXCEPT ![Req(c)] = new] BY <1>3 DEF UpdateRegistry
      <4>3. held \in [status : Status, grants : Nat] BY <1>0
      <4> HIDE DEF held
      <4>4. new.grants = held.grants BY <3>1, <4>3
      <4> HIDE DEF new
      <4> QED BY <1>0, <4>1, <4>4 DEF held
    <3> QED BY <1>0, <2>1, <3>1 DEF Decided
  <2> QED BY <1>0, <2>1, <2>3, <2>4, CallGoesOn
<1>4. CASE SaveAction(c)
  <2>1. /\ UNCHANGED <<inst, submit, tick, said, app, grants, registry>>
        /\ call[c].pc = "action" /\ Goto(c, "instance")
        /\ actions' = actions \cup {<<Req(c), call[c].action>>}
    BY <1>4 DEF SaveAction
  <2>2. /\ call'[c].pc = "instance" /\ call'[c].request = call[c].request
        /\ call'[c].copy = call[c].copy /\ call'[c].verdict = call[c].verdict
        /\ call'[c].action = call[c].action
    BY <1>0, <2>1, GotoTypes
  <2>3. Decided(c)' BY <1>0, <2>1, <2>2 DEF Decided, Req
  <2> QED BY <1>0, <2>1, <2>3, CallGoesOn
<1> QED BY <1>1, <1>2, <1>3, <1>4

\* A callback ends; it may have saved its copy.
LEMMA CallEnds ==
  ASSUME WorkflowInv, TypeOK', NEW c \in Calls, SaveInstance(c) \/ CallFails(c)
  PROVE  WorkflowInv'
<1>0. /\ TypeOK /\ Req(c) \in Requests /\ Decided(c) /\ call[c].action \in Action
      /\ call[c].copy \in Copy /\ Sound(said, Req(c), call[c].copy)
      /\ call \in [Calls -> CallState] /\ inst \in [Requests -> Copy]
      /\ app \in [Requests -> Status]
      /\ UNCHANGED <<app, grants, actions, registry, submit, tick, said>>
      /\ call' = [call EXCEPT ![c] = IdleCall]
  BY DEF WorkflowInv, TypeOK, CallState, CopiesSound, Req, SaveInstance, CallFails, tables
<1>1. /\ call'[c] = IdleCall /\ IdleCall.pc = "idle" /\ IdleCall.copy = NoInstance
      /\ \A d \in Calls : d # c => call'[d] = call[d]
  BY <1>0, IdleCallTypes
<1>2. CASE UNCHANGED inst
  <2>1. CopiesSound'
    <3>1. ASSUME NEW d \in Calls PROVE Sound(said, call'[d].request, call'[d].copy)
      <4>1. CASE d = c BY <1>1, <4>1, NoInstanceTypes
      <4>2. CASE d # c BY <1>1, <4>2 DEF WorkflowInv, CopiesSound
      <4> QED BY <4>1, <4>2
    <3> QED BY <1>0, <1>2, <3>1 DEF WorkflowInv, CopiesSound
  <2>2. \A q \in Requests : Submitted(q)' BY <1>0, <1>2 DEF WorkflowInv, Submitted
  <2>3. GrantsSound' BY <1>0, <1>1 DEF WorkflowInv, GrantsSound
  <2>4. \A d \in Calls : Decided(d)' BY <1>0, <1>1 DEF WorkflowInv, Decided, Req
  <2>5. TickPending' /\ KeysUnique' BY <1>0, <1>2 DEF WorkflowInv, TickPending, KeysUnique
  <2> QED BY <2>1, <2>2, <2>3, <2>4, <2>5 DEF WorkflowInv
<1>3. CASE SaveInstance(c) /\ KeyFree(Req(c), call[c].copy)
  <2> DEFINE r == Req(c)
             x == call[c].copy
  <2>0. /\ r \in Requests /\ call[c].pc = "instance" /\ inst' = [inst EXCEPT ![r] = x]
        /\ app[r] # "Absent" /\ x \in Instance
        /\ x.status # "Pending" =>
             /\ call[c].action \in {"approve", "reject"}
             /\ app[r] \in {"Active", "Denied"} /\ <<r, call[c].action>> \in actions
    BY <1>0, <1>3, NoInstanceTypes DEF SaveInstance, Decided, Action
  <2>1. /\ Sound(said, r, x) /\ KeyFree(r, x) BY <1>0, <1>3
  <2> HIDE DEF r, x
  <2>2. inst'[r] = x /\ \A q \in Requests : q # r => inst'[q] = inst[q] BY <1>0, <2>0
  <2>3. CopiesSound'
    <3>1. ASSUME NEW d \in Calls PROVE Sound(said, call'[d].request, call'[d].copy)
      <4>1. CASE d = c BY <1>1, <4>1, NoInstanceTypes
      <4>2. CASE d # c BY <1>1, <4>2 DEF WorkflowInv, CopiesSound
      <4> QED BY <4>1, <4>2
    <3>2. ASSUME NEW q \in Requests PROVE Sound(said, q, inst'[q])
      BY <2>1, <2>2 DEF WorkflowInv, CopiesSound
    <3> QED BY <1>0, <3>1, <3>2 DEF WorkflowInv, CopiesSound
  <2>4. ASSUME NEW q \in Requests PROVE Submitted(q)'
    <3>1. CASE q = r
      <4>1. x.status \in {"Pending", "Approved", "Rejected"} BY <2>0 DEF Instance
      <4>2. Submitted(r) BY <2>0 DEF WorkflowInv
      <4>3. submit[r].pc \notin {"idle", "restore", "instance", "application"} BY <2>0, <4>2 DEF Submitted
      <4> QED BY <1>0, <2>0, <2>2, <3>1, <4>1, <4>3 DEF Submitted
    <3>2. CASE q # r BY <1>0, <2>2, <3>2 DEF WorkflowInv, Submitted
    <3> QED BY <3>1, <3>2
  <2>5. GrantsSound' BY <1>0, <1>1 DEF WorkflowInv, GrantsSound
  <2>6. \A d \in Calls : Decided(d)' BY <1>0, <1>1 DEF WorkflowInv, Decided, Req
  <2>7. TickPending' BY <1>0 DEF WorkflowInv, TickPending
  <2>8. KeysUnique' BY <2>0, <2>1, <2>2 DEF WorkflowInv, KeysUnique, KeyFree, SameKey
  <2> QED BY <2>3, <2>4, <2>5, <2>6, <2>7, <2>8 DEF WorkflowInv
<1> QED BY <1>2, <1>3 DEF SaveInstance, CallFails, tables

LEMMA CallbackKeeps ==
  ASSUME WorkflowInv, TypeOK', NEW c \in Calls, NEW r \in Requests, NEW u \in Callers,
         NEW action \in Action, Callback(c, r, u, action)
  PROVE  WorkflowInv'
<1>0. /\ TypeOK /\ CopiesSound /\ call \in [Calls -> CallState]
      /\ UNCHANGED <<app, inst, grants, actions, registry, submit, tick>>
      /\ app[r] # "Absent"
  BY DEF WorkflowInv, TypeOK, Callback, tables
<1>1. said \subseteq said' BY <1>0, CallbackTaken
<1>2. PICK x \in Instance, v \in {"Pending", "Active", "Denied"} :
        /\ WellFormed(x) /\ Sound(said', r, x)
        /\ call' = [call EXCEPT ![c] =
              [pc |-> FirstStatement(v), request |-> r, action |-> action,
               verdict |-> v, copy |-> x]]
        /\ action = "delegate" => x.status = "Pending"
        /\ x.status # "Pending" => v # "Pending"
        /\ v = "Active" => x.status = "Approved"
  BY <1>0, CallbackTaken
<1>3. /\ call'[c].pc = FirstStatement(v) /\ call'[c].request = r /\ call'[c].action = action
      /\ call'[c].verdict = v /\ call'[c].copy = x
      /\ \A d \in Calls : d # c => call'[d] = call[d]
  BY <1>0, <1>2
<1>4. x # NoInstance BY <1>2, InstanceTypes
<1>5. CopiesSound'
  <2>1. ASSUME NEW q \in Requests PROVE Sound(said', q, inst[q]) /\ Sound(said', q, submit[q].copy)
    BY <1>0, <1>1, SoundStays DEF CopiesSound
  <2>2. ASSUME NEW q \in DOMAIN tick PROVE Sound(said', q, tick[q])
    BY <1>0, <1>1, SoundStays DEF CopiesSound
  <2>3. ASSUME NEW d \in Calls PROVE Sound(said', call'[d].request, call'[d].copy)
    <3>1. CASE d = c BY <1>2, <1>3, <3>1
    <3>2. CASE d # c
      <4>1. Sound(said, call[d].request, call[d].copy) BY <1>0 DEF CopiesSound
      <4>2. Sound(said', call[d].request, call[d].copy) BY <1>1, <4>1, SoundStays
      <4> QED BY <1>3, <3>2, <4>2
    <3> QED BY <3>1, <3>2
  <2> QED BY <1>0, <2>1, <2>2, <2>3 DEF CopiesSound
<1>6. GrantsSound'
  <2>1. ASSUME NEW d \in Calls
        PROVE  /\ call'[d].pc = "grant" => call'[d].verdict = "Active"
               /\ call'[d].pc # "idle" /\ call'[d].verdict = "Active" =>
                    call'[d].copy.status = "Approved"
    <3>1. CASE d = c BY <1>2, <1>3, <3>1 DEF FirstStatement
    <3>2. CASE d # c BY <1>3, <3>2 DEF WorkflowInv, GrantsSound
    <3> QED BY <3>1, <3>2
  <2>2. \A q, i : Earned(said, q, i) => Earned(said', q, i) BY <1>1 DEF Earned
  <2> QED BY <1>0, <2>1, <2>2 DEF WorkflowInv, GrantsSound
<1>7. ASSUME NEW d \in Calls PROVE Decided(d)'
  <2>1. CASE d = c
    <3>1. v \in {"Pending", "Active", "Denied"} BY <1>2
    <3>2. call'[c].pc \in {"grant", "application", "registry"} => v # "Pending" BY <1>3 DEF FirstStatement
    <3>3. call'[c].pc \notin {"registry", "instance"} BY <1>2, <1>3 DEF FirstStatement
    <3>4. call'[c].pc = "action" => v = "Pending" BY <1>2, <1>3 DEF FirstStatement
    <3> QED BY <1>0, <1>2, <1>3, <1>4, <2>1, <3>1, <3>2, <3>3, <3>4 DEF Decided, Req
  <2>2. CASE d # c BY <1>0, <1>3, <2>2 DEF WorkflowInv, Decided, Req
  <2> QED BY <2>1, <2>2
<1>8. \A q \in Requests : Submitted(q)' BY <1>0 DEF WorkflowInv, Submitted
<1>9. TickPending' /\ KeysUnique' BY <1>0 DEF WorkflowInv, TickPending, KeysUnique
<1> QED BY <1>5, <1>6, <1>7, <1>8, <1>9 DEF WorkflowInv

----
(* The loop, the clock, crashes and the directory. *)

LEMMA TickKeeps ==
  ASSUME WorkflowInv, TypeOK', TickStep \/ TickFails
  PROVE  WorkflowInv'
<1>0. /\ TypeOK /\ CopiesSound /\ TickPending /\ inst \in [Requests -> Copy]
      /\ UNCHANGED <<app, grants, actions, registry, submit, call, said>>
  BY DEF WorkflowInv, TypeOK, TickStep, LoadDueApprovalInstances, TickInstance, TickFails, tables
<1>1. GrantsSound' /\ \A c \in Calls : Decided(c)' BY <1>0 DEF WorkflowInv, GrantsSound, Decided, Req
<1>2. ASSUME UNCHANGED inst, DOMAIN tick' \subseteq Requests,
             \A q \in DOMAIN tick' : /\ Sound(said, q, tick'[q])
                                     /\ app[q] # "Absent" /\ tick'[q].status = "Pending"
      PROVE  WorkflowInv'
  <2>1. CopiesSound' BY <1>0, <1>2 DEF CopiesSound
  <2>2. (\A q \in Requests : Submitted(q)') /\ KeysUnique'
    BY <1>0, <1>2 DEF WorkflowInv, Submitted, KeysUnique
  <2>3. TickPending' BY <1>0, <1>2 DEF TickPending
  <2> QED BY <1>1, <2>1, <2>2, <2>3 DEF WorkflowInv
<1>3. CASE LoadDueApprovalInstances
  <2>1. /\ UNCHANGED inst /\ DOMAIN tick' \subseteq Requests
        /\ \A q \in DOMAIN tick' : /\ tick'[q] = inst[q] /\ app[q] # "Absent"
                                  /\ inst[q].status = "Pending"
    BY <1>3 DEF LoadDueApprovalInstances, tables
  <2>2. \A q \in Requests : Sound(said, q, inst[q]) BY <1>0 DEF CopiesSound
  <2> QED BY <1>2, <2>1, <2>2
<1>4. ASSUME tick' = <<>>, UNCHANGED inst
      PROVE  WorkflowInv'
  <2>1. DOMAIN tick' = {} BY <1>4
  <2> QED BY <1>2, <1>4, <2>1
<1>5. CASE TickFails BY <1>4, <1>5 DEF TickFails, tables
<1>6. CASE \E r \in Requests : TickInstance(r)
  <2>1. PICK r \in Requests : TickInstance(r) BY <1>6
  <2> DEFINE x == TickTimeouts(tick[r])
  <2>2. /\ r \in DOMAIN tick /\ tick[r].status = "Pending" /\ Sound(said, r, tick[r])
        /\ app[r] # "Absent" /\ tick[r] \in Copy /\ WellFormed(tick[r])
    BY <1>0, <2>1 DEF TickInstance, TickPending, CopiesSound, TypeOK
  <2>3. tick[r] \in Instance /\ available \subseteq Known BY <1>0, <2>2, NoInstanceTypes DEF TypeOK
  <2>4. Sound(said, r, x) /\ (x # NoInstance => x.status = "Pending") BY <2>2, <2>3, TickedOut
  <2> HIDE DEF x
  <2>5. CASE /\ x # NoInstance /\ KeyFree(r, x) /\ inst' = [inst EXCEPT ![r] = x]
             /\ tick' = [p \in DOMAIN tick \ {r} |-> tick[p]]
    <3>1. inst'[r] = x /\ \A q \in Requests : q # r => inst'[q] = inst[q] BY <1>0, <2>5
    <3>2. CopiesSound'
      <4>1. ASSUME NEW q \in Requests PROVE Sound(said, q, inst'[q]) BY <1>0, <2>4, <3>1 DEF CopiesSound
      <4>2. ASSUME NEW q \in DOMAIN tick' PROVE Sound(said, q, tick'[q]) BY <1>0, <2>5 DEF CopiesSound
      <4> QED BY <1>0, <4>1, <4>2 DEF CopiesSound
    <3>3. ASSUME NEW q \in Requests PROVE Submitted(q)'
      <4>1. CASE q = r
        <5>1. Submitted(r) BY DEF WorkflowInv
        <5> QED BY <1>0, <2>2, <2>4, <2>5, <3>1, <4>1, <5>1 DEF Submitted
      <4>2. CASE q # r BY <1>0, <3>1, <4>2 DEF WorkflowInv, Submitted
      <4> QED BY <4>1, <4>2
    <3>4. TickPending' BY <1>0, <2>5 DEF TickPending
    <3>5. KeysUnique' BY <2>4, <2>5, <3>1 DEF WorkflowInv, KeysUnique, KeyFree, SameKey
    <3> QED BY <1>1, <3>2, <3>3, <3>4, <3>5 DEF WorkflowInv
  <2>6. CASE tick' = <<>> /\ UNCHANGED inst BY <1>4, <2>6
  <2> QED BY <2>1, <2>5, <2>6 DEF TickInstance, x
<1> QED BY <1>3, <1>5, <1>6 DEF TickStep

LEMMA DeadlineTypeOK ==
  ASSUME TypeOK, CopiesSound, NEW r \in Requests, DeadlinePasses(r)
  PROVE  TypeOK'
<1>1. /\ inst' \in [Requests -> Copy] /\ call' \in [Calls -> CallState]
      /\ \A c \in Calls : WellFormed(call'[c].copy)
  BY DeadlineEffect
<1>2. \A q \in Requests : WellFormed(inst'[q])
  <2>1. WellFormed(inst'[r]) /\ \A q \in Requests : q # r => inst'[q] = inst[q] BY DeadlineEffect
  <2> QED BY <2>1 DEF TypeOK
<1> QED BY <1>1, <1>2 DEF DeadlinePasses, TypeOK

LEMMA DeadlineKeeps ==
  ASSUME WorkflowInv, TypeOK', NEW r \in Requests, DeadlinePasses(r)
  PROVE  WorkflowInv'
<1>0. /\ TypeOK /\ CopiesSound
      /\ UNCHANGED <<app, grants, actions, registry, submit, tick, said>>
  BY DEF WorkflowInv, DeadlinePasses
<1>1. /\ inst'[r].status = "Pending" /\ inst[r].status = "Pending"
      /\ Sound(said, r, inst'[r]) /\ inst'[r] \in Instance
      /\ \A q \in Requests : q # r => inst'[q] = inst[q]
  BY <1>0, DeadlineEffect
<1>2. \A c \in Calls :
        /\ call'[c].pc = call[c].pc /\ call'[c].request = call[c].request
        /\ call'[c].action = call[c].action /\ call'[c].verdict = call[c].verdict
        /\ call'[c].copy.status = call[c].copy.status
        /\ Sound(said, call'[c].request, call'[c].copy)
  BY <1>0, DeadlineEffect
<1>3. CopiesSound' BY <1>0, <1>1, <1>2 DEF CopiesSound
<1>4. GrantsSound' BY <1>0, <1>2 DEF WorkflowInv, GrantsSound
<1>5. ASSUME NEW q \in Requests PROVE Submitted(q)'
  <2>1. inst[r] # NoInstance BY <1>1, NoInstanceTypes
  <2>2. CASE q = r BY <1>0, <1>1, <2>1, <2>2 DEF WorkflowInv, Submitted
  <2>3. CASE q # r BY <1>0, <1>1, <2>3 DEF WorkflowInv, Submitted
  <2> QED BY <2>2, <2>3
<1>6. ASSUME NEW c \in Calls PROVE Decided(c)'
  <2>1. Decided(c) BY DEF WorkflowInv
  <2>2. call[c].pc # "idle" => call'[c].copy # NoInstance
    <3> SUFFICES ASSUME call[c].pc # "idle" PROVE call'[c].copy # NoInstance OBVIOUS
    <3>1. call[c].copy \in Instance BY <1>0, <2>1, NoInstanceTypes DEF Decided, TypeOK, CallState
    <3>2. call[c].copy.status # "None" BY <3>1 DEF Instance
    <3> QED BY <1>2, <3>2, NoInstanceTypes
  <2> QED BY <1>0, <1>2, <2>1, <2>2 DEF Decided, Req
<1>7. TickPending' BY <1>0 DEF WorkflowInv, TickPending
<1>8. KeysUnique'
  <2>1. \A q \in Requests : inst'[q].status = inst[q].status BY <1>1
  <2> QED BY <2>1 DEF WorkflowInv, KeysUnique
<1> QED BY <1>3, <1>4, <1>5, <1>6, <1>7, <1>8 DEF WorkflowInv

LEMMA CrashKeeps ==
  ASSUME WorkflowInv, TypeOK', ApiCrash
  PROVE  WorkflowInv'
<1>0. /\ TypeOK /\ UNCHANGED <<app, inst, grants, actions, said>>
      /\ tick' = <<>> /\ call' = [c \in Calls |-> IdleCall]
      /\ \A r \in Requests : registry'[r].grants = grants[r] /\ grants[r] \in Nat
                               /\ registry[r].grants \in Nat
  BY DEF WorkflowInv, TypeOK, ApiCrash, tables
<1>1. /\ \A c \in Calls : call'[c].pc = "idle" /\ call'[c].copy = NoInstance
      /\ DOMAIN tick' = {}
  BY <1>0, IdleCallTypes
<1>2. \A r \in Requests :
        \/ submit'[r] = submit[r]
        \/ submit'[r].pc = "refused" /\ submit'[r].copy = NoInstance
  BY DEF ApiCrash
<1>3. CopiesSound'
  <2>1. ASSUME NEW r \in Requests PROVE Sound(said, r, submit'[r].copy)
    BY <1>2, NoInstanceTypes DEF WorkflowInv, CopiesSound
  <2>2. ASSUME NEW c \in Calls PROVE Sound(said, call'[c].request, call'[c].copy) BY <1>1, NoInstanceTypes
  <2> QED BY <1>0, <1>1, <2>1, <2>2 DEF WorkflowInv, CopiesSound
<1>4. GrantsSound'
  <2>1. \A r \in Requests : grants[r] + grants[r] > 0 => grants[r] + registry[r].grants > 0 BY <1>0
  <2> QED BY <1>0, <1>1, <2>1 DEF WorkflowInv, GrantsSound
<1>5. \A r \in Requests : Submitted(r)' BY <1>0, <1>2 DEF WorkflowInv, Submitted
<1>6. \A c \in Calls : Decided(c)' BY <1>1 DEF Decided
<1>7. TickPending' /\ KeysUnique' BY <1>0, <1>1 DEF WorkflowInv, TickPending, KeysUnique
<1> QED BY <1>3, <1>4, <1>5, <1>6, <1>7 DEF WorkflowInv

LEMMA StutterKeeps ==
  ASSUME WorkflowInv, TypeOK',
         UNCHANGED <<app, inst, grants, actions, registry, submit, call, tick, said>>
  PROVE  WorkflowInv'
<1>1. CopiesSound' /\ GrantsSound' BY DEF WorkflowInv, CopiesSound, GrantsSound
<1>2. (\A r \in Requests : Submitted(r)') /\ \A c \in Calls : Decided(c)'
  BY DEF WorkflowInv, Submitted, Decided, Req
<1>3. TickPending' /\ KeysUnique' BY DEF WorkflowInv, TickPending, KeysUnique
<1> QED BY <1>1, <1>2, <1>3 DEF WorkflowInv

----
(* The theorems. *)

LEMMA InitInv == Init => WorkflowInv
<1> SUFFICES ASSUME Init PROVE WorkflowInv OBVIOUS
<1>1. TypeOK
  <2>1. call \in [Calls -> CallState] /\ \A c \in Calls : WellFormed(call[c].copy)
    BY IdleCallTypes, NoInstanceTypes DEF Init
  <2>2. submit \in [Requests -> Submission] /\ \A r \in Requests : WellFormed(submit[r].copy)
    BY NoInstanceTypes DEF Init, Submission
  <2>3. inst \in [Requests -> Copy] /\ \A r \in Requests : WellFormed(inst[r]) BY NoInstanceTypes DEF Init
  <2>4. DOMAIN tick = {} BY DEF Init
  <2> QED BY <2>1, <2>2, <2>3, <2>4, WorkflowAssumption DEF Init, TypeOK, Status
<1>2. CopiesSound
  <2>1. DOMAIN tick = {} BY DEF Init
  <2>2. \A c \in Calls : call[c].copy = NoInstance BY IdleCallTypes DEF Init
  <2> QED BY <2>1, <2>2, NoInstanceTypes DEF Init, CopiesSound
<1>3. GrantsSound BY IdleCallTypes DEF Init, GrantsSound
<1>4. \A r \in Requests : Submitted(r) BY NoInstanceTypes DEF Init, Submitted
<1>5. \A c \in Calls : Decided(c) BY IdleCallTypes DEF Init, Decided
<1>6. TickPending BY DEF Init, TickPending
<1>7. KeysUnique BY NoInstanceTypes DEF Init, KeysUnique
<1> QED BY <1>1, <1>2, <1>3, <1>4, <1>5, <1>6, <1>7 DEF WorkflowInv

LEMMA NextInv == WorkflowInv /\ [Next]_vars => WorkflowInv'
<1> SUFFICES ASSUME WorkflowInv, [Next]_vars PROVE WorkflowInv' OBVIOUS
<1>0. TypeOK /\ CopiesSound /\ TickPending BY DEF WorkflowInv
<1>1. ASSUME NEW r \in Requests, SubmitStep(r) \/ SubmitFails(r)
      PROVE  WorkflowInv'
  <2>1. TypeOK' BY <1>0, <1>1, SubmitTypeOK
  <2> QED BY <1>1, <2>1, SubmitKeeps, SubmitInstanceKeeps, SubmitApplicationKeeps DEF SubmitStep
<1>2. ASSUME NEW r \in Requests, DeadlinePasses(r) PROVE WorkflowInv'
  BY <1>0, <1>2, DeadlineTypeOK, DeadlineKeeps
<1>3. ASSUME NEW c \in Calls, NEW r \in Requests, NEW u \in Callers, NEW action \in Action,
             Callback(c, r, u, action)
      PROVE  WorkflowInv'
  BY <1>0, <1>3, CallbackTypeOK, CallbackKeeps
<1>4. ASSUME NEW c \in Calls, CallStep(c) \/ CallFails(c) PROVE WorkflowInv'
  <2>1. TypeOK' BY <1>0, <1>4, CallTypeOK
  <2> QED BY <1>4, <2>1, CallKeeps, CallEnds DEF CallStep
<1>5. CASE TickStep \/ TickFails BY <1>0, <1>5, TickTypeOK, TickKeeps
<1>6. CASE ApiCrash BY <1>0, <1>6, TickTypeOK, CrashKeeps
<1>7. CASE \E u \in Absentees : HrSync(u)
  <2>1. TypeOK' BY <1>0, <1>7, TickTypeOK
  <2> QED BY <1>7, <2>1, StutterKeeps DEF HrSync, tables
<1>8. CASE UNCHANGED vars
  <2>1. TypeOK' BY <1>0, <1>8 DEF TypeOK, vars
  <2> QED BY <1>8, <2>1, StutterKeeps DEF vars
<1> QED BY <1>1, <1>2, <1>3, <1>4, <1>5, <1>6, <1>7, <1>8 DEF Next

\* Whatever callbacks, submissions and ticks overwrite, fail and crash in
\* between, the tables, the registry and the copies that handlers hold fit
\* together as WorkflowInv says (approval_callback_handler,
\* submit_persistent_permission_application, run_governance_tick).
THEOREM InvariantHolds == Spec => []WorkflowInv
BY InitInv, NextInv, PTL DEF Spec

LEMMA GrantsEarnedFollows == WorkflowInv => GrantsEarned
<1> SUFFICES ASSUME WorkflowInv PROVE GrantsEarned OBVIOUS
<1>1. GrantNeedsEveryStep BY DEF WorkflowInv, GrantsSound, GrantNeedsEveryStep, Earned
<1>2. ApprovalsAreGenuine
  <2> SUFFICES ASSUME NEW r \in Requests, inst[r] # NoInstance, NEW i \in DOMAIN inst[r].steps
               PROVE  LET s == inst[r].steps[i] IN
                      /\ \A u \in s.approved : <<r, u, i>> \in said
                      /\ /\ s.status = "Approved"
                         /\ Flow[i].mode # "AnyOne"
                         /\ ~s.rerouted
                         => \A k \in DOMAIN s.assigned : s.assigned[k] \in s.approved
    BY DEF ApprovalsAreGenuine
  <2> DEFINE s == inst[r].steps[i]
  <2>1. Genuine(said, r, i, s) BY DEF WorkflowInv, CopiesSound, Sound
  <2> HIDE DEF s
  <2>2. s.status = "Approved" => DOMAIN s.pending = {} BY <2>1 DEF Genuine
  <2> QED BY <2>1, <2>2 DEF Genuine, s
<1> QED BY <1>1, <1>2 DEF GrantsEarned, WorkflowInv

\* However saves overwrite each other, the table shows no approval that was
\* not given, and an application has no grant, in the table or the registry,
\* before some assigned approver has approved each step of its flow
\* (approval_callback_handler saves the whole row, without a version).
THEOREM GrantsEarnedHolds == Spec => []GrantsEarned
BY InvariantHolds, GrantsEarnedFollows, PTL

\* An instance is closed only after its application was decided and the
\* deciding action recorded: the callback saves it last.
THEOREM ClosedMeansDecidedHolds == Spec => []ClosedMeansDecided
<1>1. WorkflowInv => ClosedMeansDecided BY DEF WorkflowInv, Submitted, ClosedMeansDecided
<1> QED BY <1>1, InvariantHolds, PTL

\* Two applications with one merge key are never both pending, although the
\* submissions look for a pending one first: the index on the pending
\* instances decides.
THEOREM OnePendingHolds == Spec => []OnePendingApplication
<1>1. WorkflowInv => OnePendingApplication
  BY DEF WorkflowInv, Submitted, KeysUnique, OnePendingApplication, SameKey
<1> QED BY <1>1, InvariantHolds, PTL
=============================================================================
