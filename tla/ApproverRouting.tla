--------------------------- MODULE ApproverRouting ---------------------------
(***************************************************************************)
(* The HR directory and the way it resolves an approver                    *)
(* (crates/sdqp-hr-integration/src/lib.rs, OrgDirectory::route_approver):  *)
(* the person asked, or their delegate, or the same up the chain of        *)
(* managers, then the configured targets, then the system fallback.        *)
(*                                                                         *)
(* The chain and the delegates are constants; who is available changes.    *)
(***************************************************************************)
EXTENDS Naturals, Sequences

CONSTANTS
  Users,              \* user ids, those the directory does not know included
  Nobody,             \* no such user: an empty field, or an error
  Manager,            \* manager_id of the users in the directory
  Delegate,           \* delegate_user_id of the users in the directory
  EscalationUsers,    \* policy.escalation_user_ids
  Fallback,           \* policy.system_fallback_user_id
  MaxManagerHops,     \* policy.max_manager_hops
  AllowDelegation     \* policy.allow_delegation

Known == DOMAIN Manager

ASSUME RoutingAssumption ==
  /\ Nobody \notin Users
  /\ Known \subseteq Users
  /\ Manager \in [Known -> Users \cup {Nobody}]
  /\ Delegate \in [Known -> Users \cup {Nobody}]
  /\ EscalationUsers \in Seq(Users)
  /\ Fallback \in Users
  /\ MaxManagerHops \in Nat
  /\ AllowDelegation \in BOOLEAN

\* available_delegate_route of u: its delegate, when that one is available.
HasDelegate(u, available) ==
  /\ AllowDelegation
  /\ u \in Known
  /\ Delegate[u] # u
  /\ Delegate[u] \in available

\* The user n managers above u.
Above(u) ==
  LET up[n \in 0..MaxManagerHops] ==
        IF n = 0 THEN u
        ELSE IF up[n - 1] \in Known THEN Manager[up[n - 1]] ELSE Nobody
  IN up

\* The loop over policy.escalation_user_ids, for an approver asked as u.
ConfiguredTarget(u, available) ==
  LET Usable(i) == /\ EscalationUsers[i] # u
                   /\ \/ EscalationUsers[i] \in available
                      \/ HasDelegate(EscalationUsers[i], available)
      found == {i \in DOMAIN EscalationUsers : Usable(i)}
  IN IF found = {} THEN Fallback
     ELSE LET t == EscalationUsers[CHOOSE i \in found :
                                     \A j \in found : i <= j]
          IN IF t \in available THEN t ELSE Delegate[t]

\* route_approver: who approves in the place of u.  direct says whether u may
\* do so; Nobody is the error UserNotFound.
Route(u, direct, available) ==
  LET up == Above(u)
      Cycle(n)   == \E m \in 0..(n - 1) : up[m] = up[n]
      Unknown(n) == up[n] \notin Known
      Direct(n)  == (n > 0 \/ direct) /\ up[n] \in available
      Top(n)     == n = MaxManagerHops \/ Manager[up[n]] = Nobody
      Ends(n)    == \/ Cycle(n) \/ Unknown(n) \/ Direct(n)
                    \/ HasDelegate(up[n], available) \/ Top(n)
      n == CHOOSE i \in 0..MaxManagerHops :
             Ends(i) /\ \A j \in 0..(i - 1) : ~Ends(j)
  IN IF Cycle(n) THEN Fallback
     ELSE IF Unknown(n) THEN Nobody
     ELSE IF Direct(n) THEN up[n]
     ELSE IF HasDelegate(up[n], available) THEN Delegate[up[n]]
     ELSE ConfiguredTarget(u, available)
=============================================================================
