---------------------------- MODULE DataPolicies ----------------------------
(***************************************************************************)
(* Classification of the fields of one data source: phase9.rs and the      *)
(* detection that follows a query (phase2.rs, apps/sdqp-worker) over the   *)
(* tables classification_rule_versions, classification_field_policies and  *)
(* classification_detection_runs, with crates/sdqp-data-classification.    *)
(* Detections and reviews are sequences of statements of their own; only   *)
(* the activation of a version is a transaction, at the isolation level    *)
(* READ COMMITTED.                                                         *)
(***************************************************************************)
EXTENDS Integers, Sequences, FiniteSets, FiniteSetsExt

CONSTANTS
  PolicyFields,       \* the fields
  RuleBooks,          \* rule lists a version may have, the first one seeded:
                      \* rules are [matches, level, mask, detects]
  FoundIn,            \* what a query's rows show: for each field, the patterns
  Detections,         \* query runs that classify what they read
  Reviewers,          \* administrators' requests that may run at a time
  MaxBooks,           \* bound: rule versions
  MaxReviews,         \* bound: requests
  MaxPolicyFaults     \* bound: failed statements

None == 0

Masks == {"none", "email", "phone", "full"}

Patterns == {"id_card", "bank_card", "email", "phone"}

ASSUME DataPoliciesAssumption ==
  /\ RuleBooks \in Seq(Seq([matches : SUBSET PolicyFields, level : 1..5, mask : Masks,
                            detects : BOOLEAN]))
  /\ RuleBooks # <<>>
  /\ \A found \in FoundIn, f \in PolicyFields : found[f] \in Seq(Patterns)
  /\ None \notin Detections
  /\ MaxBooks \in Nat \ {0} /\ MaxReviews \in Nat /\ MaxPolicyFaults \in Nat

VARIABLES
  versions,     \* classification_rule_versions, by id
  policies,     \* classification_field_policies
  findings,     \* classification_detection_runs
  detection,    \* detections in progress
  review,       \* requests in progress
  reviews, policyFaults,
  overlapped,   \* history: two activations overlapped
  overtaken     \* history: fields reviewed while a detection was under way

policyVars == <<versions, policies, findings, detection, review, reviews, policyFaults,
                overlapped, overtaken>>

Books == 1..MaxBooks

\* A policy: level 1..5, how the field is masked, who has decided.
Policy(level, mask, status, source, version) ==
  [level |-> level, mask |-> mask, status |-> status, source |-> source,
   version |-> version, run |-> None]

NoPolicy == Policy(None, "none", "none", "none", None)

Waiting == [pc |-> "idle", known |-> {}, version |-> None, found |-> <<>>, todo |-> {}]

IdleReview == [pc |-> "idle", version |-> None, seen |-> {}, fields |-> {}]

PoliciesTypeOK ==
  /\ DOMAIN versions \subseteq Books
  /\ \A v \in DOMAIN versions :
       /\ versions[v].status \in {"draft", "active", "retired"}
       /\ \A w \in DOMAIN versions : versions[w].number = versions[v].number => w = v
  /\ \A f \in PolicyFields :
       /\ policies[f].level \in 0..5
       /\ policies[f].status \in {"none", "pending", "confirmed"}
       /\ policies[f].version # None => policies[f].version \in DOMAIN versions
       /\ policies[f].status = "none" <=> policies[f].run = None
  /\ \A d \in Detections : detection[d].pc \in {"idle", "version", "record", "policies", "over"}
  /\ \A r \in Reviewers : review[r].pc \in {"idle", "number", "retire", "activate", "confirm", "close"}

\* seed_catalog stores default_rule_version as the active version.
PoliciesInit ==
  /\ versions = [v \in {1} |-> [number |-> 1, status |-> "active", rules |-> RuleBooks[1]]]
  /\ policies = [f \in PolicyFields |-> NoPolicy]
  /\ findings = <<>>
  /\ detection = [d \in Detections |-> Waiting]
  /\ review = [r \in Reviewers |-> IdleReview]
  /\ reviews = 0 /\ policyFaults = 0
  /\ overlapped = FALSE /\ overtaken = {}

PolicyFault == policyFaults < MaxPolicyFaults /\ policyFaults' = policyFaults + 1

\* A table after an insert.
RowsWith(table, id, row) ==
  [i \in DOMAIN table \union {id} |-> IF i = id THEN row ELSE table[i]]

----
(* crates/sdqp-data-classification. *)

\* The first rule that matches the field, or 0.
RuleFor(rules, f) ==
  LET matching == {i \in DOMAIN rules : f \in rules[i].matches}
  IN  IF matching = {} THEN None ELSE Min(matching)

RequiresConfirmation(rule) == rule.detects \/ rule.level >= 4

\* policy_from_rule, default_fallback_policy.
BasePolicy(rules, version, f) ==
  LET i == RuleFor(rules, f)
  IN  IF i = None THEN Policy(3, "full", "pending", "rules", None)
      ELSE Policy(rules[i].level, rules[i].mask,
                  IF RequiresConfirmation(rules[i]) THEN "pending" ELSE "confirmed",
                  "rules", version)

\* What one pattern makes of a policy that it finds too low.
EscalateBy(policy, pattern) ==
  LET raise(level, mask) ==
        IF policy.level < level THEN [policy EXCEPT !.level = level, !.mask = mask] ELSE policy
  IN  CASE pattern \in {"id_card", "bank_card"} -> raise(5, "full")
        [] pattern = "email" -> raise(4, "email")
        [] pattern = "phone" -> raise(4, "phone")

\* apply_pattern_escalation, pattern after pattern.
Escalated(policy, patterns) ==
  LET after[n \in 0..Len(patterns)] ==
        IF n = 0 THEN policy ELSE EscalateBy(after[n - 1], patterns[n])
  IN  [after[Len(patterns)] EXCEPT !.status = "pending", !.source = "samples"]

\* classify_field_from_samples.
Classify(rules, version, f, patterns) ==
  LET base == BasePolicy(rules, version, f)
  IN  IF patterns = <<>> THEN base ELSE Escalated(base, patterns)

\* confirm_field_policy_with_rule_version: what the version's rule says
\* replaces what was detected.
Confirmed(policy, f, version) ==
  LET rules == versions[version].rules
      i == RuleFor(rules, f)
      bound == IF i = None THEN policy
               ELSE [policy EXCEPT !.level = rules[i].level, !.mask = rules[i].mask]
  IN  [bound EXCEPT !.status = "confirmed", !.source = "review", !.version = version]

----
(* Detection after a query, by the API or a worker. *)

\* load_classification_policies, as far as a detection looks at it.
ConfirmedFields == {f \in PolicyFields : policies[f].status = "confirmed"}

\* A failure to load counts as no policies.
LoadPolicies(d) ==
  /\ detection[d].pc = "idle"
  /\ \E found \in FoundIn, failed \in BOOLEAN :
       /\ failed => policyFaults < MaxPolicyFaults
       /\ policyFaults' = policyFaults + (IF failed THEN 1 ELSE 0)
       /\ detection' = [detection EXCEPT ![d] =
            [Waiting EXCEPT !.pc = "version", !.found = found,
               !.known = IF failed THEN {} ELSE ConfirmedFields]]
       /\ overtaken' = overtaken \union (IF failed THEN {d} \X PolicyFields ELSE {})
  /\ UNCHANGED <<versions, policies, findings, review, reviews, overlapped>>

\* The active version with the highest number.
ActiveVersions == {v \in DOMAIN versions : versions[v].status = "active"}

ActiveVersion ==
  IF ActiveVersions = {} THEN None
  ELSE CHOOSE v \in ActiveVersions : \A w \in ActiveVersions : versions[w].number <= versions[v].number

\* Mutant: confirmed fields are classified again.
LoadRules_All(d) ==
  /\ detection[d].pc = "version"
  /\ \/ /\ ActiveVersion # None
        /\ detection' = [detection EXCEPT ![d].pc = "record", ![d].todo = PolicyFields,
                                          ![d].version = ActiveVersion]
     \/ ActiveVersion = None /\ detection' = [detection EXCEPT ![d].pc = "over"]
  /\ UNCHANGED <<versions, policies, findings, review, reviews, policyFaults, overlapped, overtaken>>

LoadRules(d) ==
  LET todo == PolicyFields \ detection[d].known
  IN  /\ detection[d].pc = "version"
      /\ \/ /\ ActiveVersion # None /\ todo # {}
            /\ detection' = [detection EXCEPT ![d].pc = "record", ![d].todo = todo,
                                              ![d].version = ActiveVersion]
            /\ UNCHANGED policyFaults
         \/ /\ ActiveVersion = None \/ todo = {}
            /\ detection' = [detection EXCEPT ![d].pc = "over"] /\ UNCHANGED policyFaults
         \/ PolicyFault /\ detection' = [detection EXCEPT ![d].pc = "over"]
      /\ UNCHANGED <<versions, policies, findings, review, reviews, overlapped, overtaken>>

\* save_classification_detection_run: the run, then policy after policy.
RecordRun(d) ==
  /\ detection[d].pc = "record"
  /\ \/ /\ findings' = RowsWith(findings, d, [status |-> "pending", fields |-> detection[d].todo,
                                               version |-> detection[d].version])
        /\ detection' = [detection EXCEPT ![d].pc = "policies"] /\ UNCHANGED policyFaults
     \/ PolicyFault /\ detection' = [detection EXCEPT ![d].pc = "over"] /\ UNCHANGED findings
  /\ UNCHANGED <<versions, policies, review, reviews, overlapped, overtaken>>

\* The row a detection writes, the worker's like the API's.
PolicyRow(d, f) ==
  LET v == detection[d].version
  IN  [Classify(versions[v].rules, v, f, detection[d].found[f]) EXCEPT !.run = d]

SavePolicy(d, f) ==
  /\ detection[d].pc = "policies" /\ f \in detection[d].todo
  /\ \/ /\ policies' = [policies EXCEPT ![f] = PolicyRow(d, f)]
        /\ detection' = [detection EXCEPT ![d].todo = @ \ {f},
             ![d].pc = IF detection[d].todo = {f} THEN "over" ELSE @]
        /\ UNCHANGED policyFaults
     \/ PolicyFault /\ detection' = [detection EXCEPT ![d].pc = "over"] /\ UNCHANGED policies
  /\ UNCHANGED <<versions, findings, review, reviews, overlapped, overtaken>>

----
(* Rule versions. *)

NewReview(r, next) ==
  /\ review[r].pc = "idle" /\ reviews < MaxReviews /\ reviews' = reviews + 1
  /\ review' = [review EXCEPT ![r] = next]

\* create_classification_rule_version reads the highest number.
ReadNumber(r) ==
  /\ Cardinality(DOMAIN versions) < MaxBooks
  /\ NewReview(r, [IdleReview EXCEPT !.pc = "number",
                     !.version = Max({versions[v].number : v \in DOMAIN versions}) + 1])
  /\ UNCHANGED <<versions, policies, findings, detection, policyFaults, overlapped, overtaken>>

\* The number is unique: of two requests that read the same one, one fails.
InsertVersion(r) ==
  /\ review[r].pc = "number"
  /\ \/ /\ \A v \in DOMAIN versions : versions[v].number # review[r].version
        /\ Cardinality(DOMAIN versions) < MaxBooks
        /\ \E i \in DOMAIN RuleBooks :
             versions' = RowsWith(versions, Cardinality(DOMAIN versions) + 1,
               [number |-> review[r].version, status |-> "draft", rules |-> RuleBooks[i]])
     \/ /\ \/ \E v \in DOMAIN versions : versions[v].number = review[r].version
           \/ Cardinality(DOMAIN versions) = MaxBooks
        /\ UNCHANGED versions
  /\ review' = [review EXCEPT ![r] = IdleReview]
  /\ UNCHANGED <<policies, findings, detection, reviews, policyFaults, overlapped, overtaken>>

Activating == {r \in Reviewers : review[r].pc \in {"retire", "activate"}}

\* activate_classification_rule_version: the first statement sees the
\* versions active when it begins.
BeginActivation(r, v) ==
  /\ NewReview(r, [IdleReview EXCEPT !.pc = "retire", !.version = v, !.seen = ActiveVersions \ {v}])
  /\ overlapped' = (overlapped \/ Activating # {})
  /\ UNCHANGED <<versions, policies, findings, detection, policyFaults, overtaken>>

\* Rows another transaction has updated.
LockedByOthers(r) == UNION {review[q].seen : q \in {q \in Reviewers \ {r} : review[q].pc = "activate"}}

\* It waits for their transactions and looks at the rows again.
RetireOthers(r) ==
  /\ review[r].pc = "retire" /\ review[r].seen \intersect LockedByOthers(r) = {}
  /\ review' = [review EXCEPT ![r].pc = "activate", ![r].seen = @ \intersect ActiveVersions]
  /\ UNCHANGED <<versions, policies, findings, detection, reviews, policyFaults, overlapped, overtaken>>

\* The second statement and the commit, which happens even when the version
\* is retired and the caller will be told that it was not found.
CommitActivation(r) ==
  LET v == review[r].version
      retired == review[r].seen
  IN  /\ review[r].pc = "activate" /\ v \notin LockedByOthers(r)
      /\ versions' = [w \in DOMAIN versions |->
           IF w \in retired THEN [versions[w] EXCEPT !.status = "retired"]
           ELSE IF w = v /\ versions[w].status # "retired" THEN [versions[w] EXCEPT !.status = "active"]
           ELSE versions[w]]
      /\ review' = [review EXCEPT ![r] = IdleReview]
      /\ UNCHANGED <<policies, findings, detection, reviews, policyFaults, overlapped, overtaken>>

\* A failed statement, or a deadlock of two activations: nothing changes.
RollBack(r) ==
  /\ r \in Activating
  /\ \/ PolicyFault
     \/ /\ review[r].version \in LockedByOthers(r) \/ review[r].seen \intersect LockedByOthers(r) # {}
        /\ UNCHANGED policyFaults
  /\ review' = [review EXCEPT ![r] = IdleReview]
  /\ UNCHANGED <<versions, policies, findings, detection, reviews, overlapped, overtaken>>

\* retire_classification_rule_version, whatever the status.
RetireVersion(r, v) ==
  /\ NewReview(r, IdleReview) /\ v \notin LockedByOthers(r)
  /\ versions' = [versions EXCEPT ![v].status = "retired"]
  /\ UNCHANGED <<policies, findings, detection, policyFaults, overlapped, overtaken>>

----
(* Manual confirmation. *)

\* confirm_classification_policies_handler chooses the version: the one
\* named, or the active one.
BeginConfirm(r, v, fields) ==
  /\ v # None
  /\ fields # {} /\ \A f \in fields : policies[f].status # "none"
  /\ NewReview(r, [IdleReview EXCEPT !.pc = "confirm", !.version = v, !.fields = fields,
                                !.seen = {<<f, policies[f]>> : f \in fields}])
  /\ UNCHANGED <<versions, policies, findings, detection, policyFaults, overlapped, overtaken>>

\* One UPDATE for each policy that was loaded, from what was loaded.
ConfirmField(r, f) ==
  LET x == CHOOSE x \in review[r].seen : x[1] = f
  IN  /\ review[r].pc = "confirm" /\ \E y \in review[r].seen : y[1] = f
      /\ policies' = [policies EXCEPT ![f] =
           [Confirmed(x[2], f, review[r].version) EXCEPT !.run = policies[f].run]]
      /\ review' = [review EXCEPT ![r].seen = @ \ {x},
                       ![r].pc = IF review[r].seen = {x} THEN "close" ELSE @]
      /\ overtaken' = overtaken \union
           {<<d, f>> : d \in {d \in Detections : detection[d].pc \in {"version", "record", "policies"}}}
      /\ UNCHANGED <<versions, findings, detection, reviews, policyFaults, overlapped>>

\* The runs the policies now point to are marked, whatever else they found.
CloseRuns(r) ==
  /\ review[r].pc = "close"
  /\ findings' = [d \in DOMAIN findings |->
       IF \E f \in review[r].fields : policies[f].run = d
       THEN [findings[d] EXCEPT !.status = "confirmed"] ELSE findings[d]]
  /\ review' = [review EXCEPT ![r] = IdleReview]
  /\ UNCHANGED <<versions, policies, detection, reviews, policyFaults, overlapped, overtaken>>

\* A statement fails: what was confirmed before stays confirmed.
ConfirmFails(r) ==
  /\ review[r].pc \in {"confirm", "close"} /\ PolicyFault
  /\ review' = [review EXCEPT ![r] = IdleReview]
  /\ UNCHANGED <<versions, policies, findings, detection, reviews, overlapped, overtaken>>

PoliciesNext ==
  \/ \E d \in Detections :
       LoadPolicies(d) \/ LoadRules(d) \/ RecordRun(d) \/ \E f \in PolicyFields : SavePolicy(d, f)
  \/ \E r \in Reviewers :
       \/ ReadNumber(r) \/ InsertVersion(r)
       \/ RetireOthers(r) \/ CommitActivation(r) \/ RollBack(r)
       \/ \E v \in DOMAIN versions :
            \/ BeginActivation(r, v) \/ RetireVersion(r, v)
            \/ \E fields \in SUBSET PolicyFields : BeginConfirm(r, v, fields)
       \/ \E f \in PolicyFields : ConfirmField(r, f)
       \/ CloseRuns(r) \/ ConfirmFails(r)

PoliciesSpec == PoliciesInit /\ [][PoliciesNext]_policyVars

----
(* Properties. *)

\* As long as no two activations overlapped, at most one version is active:
\* a transaction that fails halfway leaves no second one and drafts do not
\* count (activate_classification_rule_version).  Overlapping ones may leave
\* two, of which the higher number is used.
OneActiveVersion == ~overlapped => Cardinality(ActiveVersions) <= 1

\* A detection never takes back what a reviewer confirmed, unless it had
\* read the policies before the review, or could not read them
\* (the filter on existing_status, phase2.rs:1477-1486).
ReviewsHold ==
  [][\A f \in PolicyFields :
       policies[f].source = "review" /\ policies'[f].source # "review" =>
         \E d \in Detections : <<d, f>> \in overtaken]_policyVars

\* Whether the rule for a field says that it is sensitive and shown all the
\* same.  Nothing forbids such a rule.
ShownByRule(policy, f) ==
  policy.version # None /\
    LET rules == versions[policy.version].rules
        i == RuleFor(rules, f)
    IN  i # None /\ rules[i].level >= 4 /\ rules[i].mask = "none"

\* Until it is reviewed, a field in whose rows something sensitive was seen
\* is at least sensitive and pending, whatever the rules say of it, and masked:
\* only a rule that is as strict itself decides how (apply_pattern_escalation).
SensitiveUntilReviewed ==
  \A f \in PolicyFields : policies[f].source = "samples" =>
    /\ policies[f].level >= 4 /\ policies[f].status = "pending"
    /\ policies[f].mask # "none" \/ ShownByRule(policies[f], f)

\* Every policy points to a run that covered its field.  A run that is
\* confirmed has a field that is reviewed or is not its own by now, or one
\* that was reviewed while a detection was under way: that detection may
\* replace the review, a later one what it wrote, and the last UPDATE of the
\* review marks the run that the policy points to by then.
FindingsTraceable ==
  /\ \A f \in PolicyFields : policies[f].status # "none" =>
       /\ policies[f].run \in DOMAIN findings
       /\ f \in findings[policies[f].run].fields
  /\ \A d \in DOMAIN findings : findings[d].status = "confirmed" =>
       \E f \in findings[d].fields : \/ policies[f].source = "review"
                                     \/ policies[f].run # d
                                     \/ \E e \in Detections : <<e, f>> \in overtaken

\* An activation that is answered "not found" leaves the versions as they are.
RefusedActivationHarmless ==
  [][\A r \in Reviewers :
       review[r].pc = "activate" /\ review'[r].pc = "idle"
         /\ versions[review[r].version].status = "retired" => versions' = versions]_policyVars

\* Classification holds: one version of the rules is active, what was seen to
\* be sensitive stays masked until it is reviewed, every policy can be traced
\* to its run, and no detection takes back a review it could have known of.
PoliciesHold ==
  /\ [](PoliciesTypeOK /\ OneActiveVersion /\ SensitiveUntilReviewed /\ FindingsTraceable)
  /\ ReviewsHold
=============================================================================
