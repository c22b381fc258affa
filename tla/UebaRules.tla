------------------------------ MODULE UebaRules ------------------------------
(***************************************************************************)
(* Governance of the behaviour rules: the second half of                   *)
(* apps/sdqp-api/src/phase6.rs over the tables ueba_governance_rules,      *)
(* ueba_replay_runs, ueba_tuning_proposals and ueba_calibration_runs, with *)
(* the replay, tuning and calibration of crates/sdqp-ueba.  Each request   *)
(* is a sequence of statements of its own: there is neither a transaction  *)
(* nor a lock.  Without a database the same handlers change one map.       *)
(***************************************************************************)
EXTENDS Integers, Sequences, FiniteSets, FiniteSetsExt

CONSTANTS
  Editors,          \* administrators' requests that may run at a time
  RuleNames,        \* rule names, in the order they are loaded in
  Activities,       \* for each name, how often every user did what it counts
  DefaultThreshold, \* thresholds of the seeded versions
  Thresholds,       \* thresholds a request may ask for
  Targets,          \* alert volumes a tuning request may aim at
  MaxRuleVersions,  \* bound: versions created
  MaxRuleRequests,  \* bound: requests
  MaxRuleFaults     \* bound: failed statements

ASSUME UebaRulesAssumption ==
  /\ RuleNames \in Seq(STRING) /\ RuleNames # <<>>
  /\ \A counts \in Activities, n \in DOMAIN RuleNames : counts[n] \in Seq(Nat)
  /\ Thresholds \subseteq Nat \ {0} /\ Targets \subseteq Nat
  /\ \A n \in DOMAIN RuleNames : DefaultThreshold[n] \in Nat \ {0}
  /\ MaxRuleVersions \in Nat /\ MaxRuleRequests \in Nat /\ MaxRuleFaults \in Nat

VARIABLES
  ruleRows,      \* stored rule versions by id
  proposals,     \* stored tuning proposals
  replayRun,     \* hits for each name in the last replay, or none
  calibration,   \* recommended threshold for each name, or none
  activity,      \* the audit events the rules are replayed on
  editor,        \* requests in progress
  rulesMode,     \* "database" or "memory"
  versionsMade, ruleRequests, ruleFaults,
  disturbed      \* history: requests overlapped, or one failed halfway

rulesVars == <<ruleRows, proposals, replayRun, calibration, activity, editor, rulesMode,
               versionsMade, ruleRequests, ruleFaults, disturbed>>

NameIds == DOMAIN RuleNames

\* deterministic_rule_version_id for the first versions, then fresh ids.
RuleIds == 1..Len(RuleNames) + MaxRuleVersions

NoRule == 0

RuleRow(id, name, version, status, enabled, threshold, base) ==
  [id |-> id, name |-> name, version |-> version, status |-> status,
   enabled |-> enabled, threshold |-> threshold, base |-> base]

NoRun == <<>>

\* UebaRuleStateChange.
StateChanges == {"activate", "enable", "disable", "retire"}

IdleEditor == [pc |-> "idle", op |-> "none", loaded |-> {}, row |-> {}, todo |-> {},
               proposal |-> NoRule, run |-> NoRun]

RulesTypeOK ==
  /\ DOMAIN ruleRows \subseteq RuleIds
  /\ \A id \in DOMAIN ruleRows :
       LET row == ruleRows[id]
       IN  /\ row.id = id /\ row.name \in NameIds /\ row.version \in 1..MaxRuleVersions + 1
           /\ row.status \in {"draft", "active", "retired"}
           /\ row.status = "retired" => ~row.enabled
           /\ row.threshold > 0
           /\ row.base # NoRule => /\ row.base \in DOMAIN ruleRows
                                   /\ ruleRows[row.base].name = row.name
                                   /\ ruleRows[row.base].version < row.version
  /\ \A p \in DOMAIN proposals :
       /\ proposals[p].source \in DOMAIN ruleRows
       /\ (proposals[p].status = "applied") = (proposals[p].applied # NoRule)
  /\ \A e \in Editors : editor[e].pc \in {"idle", "load", "seed", "act", "save", "put",
                                          "activate", "retire", "propose", "apply"}

RulesInit ==
  /\ ruleRows = <<>>
  /\ proposals = <<>>
  /\ replayRun = NoRun
  /\ calibration = <<>>
  /\ activity \in Activities
  /\ editor = [e \in Editors |-> IdleEditor]
  /\ rulesMode \in {"database", "memory"}
  /\ versionsMade = 0 /\ ruleRequests = 0 /\ ruleFaults = 0
  /\ disturbed = FALSE

Upsert(table, key, row) ==
  [k \in DOMAIN table \cup {key} |-> IF k = key THEN row ELSE table[k]]

----
(* What the rules compute.  counts[u] is how often user u did something. *)

\* build_user_baselines and baseline_count_for_rule.
BaselineCount(name, count) ==
  CASE RuleNames[name] = "HighFrequencyQuery" -> Max({count \div 2, 1})
    [] RuleNames[name] \in {"ExportSpike", "UnauthorizedQueryBurst"} -> count \div 2
    [] OTHER -> 0

\* UebaRuleThresholds::alert_threshold with what governance_rule_tuning sets.
AlertThreshold(name, count) ==
  CASE RuleNames[name] = "HighFrequencyQuery" -> 2 * BaselineCount(name, count)
    [] RuleNames[name] = "ExportSpike" -> BaselineCount(name, count) + 1
    [] OTHER -> 0

\* UebaRuleStatus::is_enabled after governance_rules_to_core.
RuleActive(row) == row.status = "active" /\ row.enabled

\* replay_ueba_rules: how many users the active versions of a name report.
HitsFor(rows, name) ==
  Cardinality({x \in rows \X DOMAIN activity[name] :
    LET row == x[1]
        count == activity[name][x[2]]
    IN  /\ row.name = name /\ RuleActive(row)
        /\ count >= row.threshold /\ count > AlertThreshold(name, count)})

ReplayRun(rows) == [n \in NameIds |-> HitsFor(rows, n)]

\* What stands at an index, counted from 0, when the counts are sorted.
Ranked(counts, index) ==
  Min({counts[u] : u \in {u \in DOMAIN counts :
         Cardinality({w \in DOMAIN counts : counts[w] <= counts[u]}) > index}})

\* percentile_nearest: the index is rounded to the nearest, halves upwards.
PercentileNearest(counts, percent) ==
  IF counts = <<>> THEN 0
  ELSE Ranked(counts, ((Len(counts) - 1) * percent + 50) \div 100)

\* calibrate_ueba_rules: the recommended min_events.
Calibrated(counts) ==
  Max({PercentileNearest(counts, 95), PercentileNearest(counts, 50) + 1, 1})

\* propose_rule_tuning as build_tuning_proposal calls it.  The run is handed
\* over without its hits (replay_response_to_core_summary), so that no alert
\* is ever counted and the one change it can propose is the looser one.
CoreProposal(source, target) ==
  IF RuleActive(source) /\ target > 0 THEN {Max({source.threshold - 1, 1})} ELSE {}

\* The threshold build_tuning_proposal comes to.
ProposedThreshold(source, run, target) ==
  IF CoreProposal(source, target) # {}
  THEN CHOOSE t \in CoreProposal(source, target) : TRUE
  ELSE source.threshold + (IF run[source.name] > target THEN 1 ELSE 0)

\* Versions in the order they are loaded in.
First(rows) ==
  CHOOSE r \in rows : \A q \in rows : \/ r.name < q.name
                                      \/ r.name = q.name /\ r.version <= q.version

\* select_tuning_source_rule for a request that names a rule: the first
\* version of all is taken if it has the name; otherwise the first version of
\* the first rule with hits, and otherwise the first active one.
TuningSource(rows, name, run) ==
  LET hit == {n \in NameIds : run[n] > 0}
      ofHits == {r \in rows : hit # {} /\ r.name = Min(hit)}
      active == {r \in rows : RuleActive(r)}
  IN  CASE First(rows).name = name -> {First(rows)}
        [] First(rows).name # name /\ ofHits # {} -> {First(ofHits)}
        [] First(rows).name # name /\ ofHits = {} /\ active # {} -> {First(active)}
        [] OTHER -> {}

\* next_rule_version.
NextRuleVersion(rows, name) == Max({r.version : r \in {q \in rows : q.name = name}} \cup {0}) + 1

NewRuleId == Len(RuleNames) + versionsMade + 1

----
(* Steps that requests share *)

StoredRules == {ruleRows[id] : id \in DOMAIN ruleRows}

Set(e, new) == editor' = [editor EXCEPT ![e] = new]

\* A statement failed, or the caller went away: what was done stays done.
RequestFails(e) ==
  /\ rulesMode = "database" /\ editor[e].pc # "idle"
  /\ ruleFaults < MaxRuleFaults
  /\ ruleFaults' = ruleFaults + 1
  /\ disturbed' = TRUE
  /\ Set(e, IdleEditor)
  /\ UNCHANGED <<ruleRows, proposals, replayRun, calibration, activity, rulesMode,
                 versionsMade, ruleRequests>>

Quiet == UNCHANGED <<activity, rulesMode, ruleRequests, ruleFaults, disturbed>>

\* can_manage_ueba_governance holds.  A proposal that is applied is refused.
StartRequest(e, op, p) ==
  /\ editor[e].pc = "idle"
  /\ ruleRequests < MaxRuleRequests
  /\ ruleRequests' = ruleRequests + 1
  /\ op = "apply" => p \in DOMAIN proposals /\ proposals[p].status # "applied"
  /\ op # "apply" => p = NoRule
  /\ disturbed' = (disturbed \/ \E f \in Editors : editor[f].pc # "idle")
  /\ Set(e, [IdleEditor EXCEPT !.op = op, !.proposal = p,
               !.pc = IF op \in StateChanges THEN "act" ELSE "load"])
  /\ UNCHANGED <<ruleRows, proposals, replayRun, calibration, activity, rulesMode,
                 versionsMade, ruleFaults>>

\* default_ueba_governance_rules.
DefaultRule(n) == RuleRow(n, n, 1, "active", TRUE, DefaultThreshold[n], NoRule)

\* load_or_seed_ueba_rules: a tenant without rules gets the default ones, in
\* the database one after the other.
LoadOrSeedRules(e) ==
  /\ editor[e].pc = "load"
  /\ \/ /\ StoredRules # {}
        /\ Set(e, [editor[e] EXCEPT !.pc = "act", !.loaded = StoredRules])
        /\ UNCHANGED ruleRows
     \/ /\ StoredRules = {} /\ rulesMode = "database"
        /\ Set(e, [editor[e] EXCEPT !.pc = "seed", !.todo = NameIds])
        /\ UNCHANGED ruleRows
     \/ /\ StoredRules = {} /\ rulesMode = "memory"
        /\ ruleRows' = [n \in NameIds |-> DefaultRule(n)]
        /\ Set(e, [editor[e] EXCEPT !.pc = "act",
                     !.loaded = {DefaultRule(n) : n \in NameIds}])
  /\ Quiet /\ UNCHANGED <<proposals, replayRun, calibration, versionsMade>>

SeedRule(e) ==
  /\ editor[e].pc = "seed" /\ editor[e].todo # {}
  /\ LET n == Min(editor[e].todo)
     IN  /\ ruleRows' = Upsert(ruleRows, n, DefaultRule(n))
         /\ Set(e, [editor[e] EXCEPT !.todo = @ \ {n}])
  /\ Quiet /\ UNCHANGED <<proposals, replayRun, calibration, versionsMade>>

RulesSeeded(e) ==
  /\ editor[e].pc = "seed" /\ editor[e].todo = {}
  /\ Set(e, [editor[e] EXCEPT !.pc = "act", !.loaded = StoredRules])
  /\ Quiet /\ UNCHANGED <<ruleRows, proposals, replayRun, calibration, versionsMade>>

\* ueba_rules_handler only lists what was loaded.
ListRules(e) ==
  /\ editor[e].pc = "act" /\ editor[e].op = "list"
  /\ Set(e, IdleEditor)
  /\ Quiet /\ UNCHANGED <<ruleRows, proposals, replayRun, calibration, versionsMade>>

----
(* New versions *)

\* A version about to be saved.
Build(e, name, active, threshold, base) ==
  /\ versionsMade < MaxRuleVersions
  /\ versionsMade' = versionsMade + 1
  /\ Set(e, [editor[e] EXCEPT !.pc = "save",
       !.row = {RuleRow(NewRuleId, name, NextRuleVersion(editor[e].loaded, name),
                        IF active THEN "active" ELSE "draft", TRUE, threshold, base)}])
  /\ Quiet /\ UNCHANGED <<ruleRows, proposals, replayRun, calibration>>

\* create_ueba_rule_handler, build_created_rule.
BuildCreatedRule(e, name, active, threshold) ==
  /\ editor[e].pc = "act" /\ editor[e].op = "create"
  /\ Build(e, name, active, threshold, NoRule)

\* tune_ueba_rule_handler, build_tuned_rule.
BuildTunedRule(e, source, active, threshold) ==
  /\ editor[e].pc = "act" /\ editor[e].op = "tune" /\ source \in editor[e].loaded
  /\ Build(e, source.name, active, threshold, source.id)

\* Mutant: the threshold of the source is kept.
BuildProposedRule_OldThreshold(e, active) ==
  /\ editor[e].pc = "act" /\ editor[e].op = "apply"
  /\ LET p == proposals[editor[e].proposal]
     IN  \E source \in {r \in editor[e].loaded : r.id = p.source} :
           Build(e, source.name, active, source.threshold, source.id)

\* apply_tuning_proposal: a tuned version with the proposed threshold.
BuildProposedRule(e, active) ==
  /\ editor[e].pc = "act" /\ editor[e].op = "apply"
  /\ LET p == proposals[editor[e].proposal]
     IN  \E source \in {r \in editor[e].loaded : r.id = p.source} :
           Build(e, source.name, active, p.threshold, source.id)

\* save_rule_version: the version is stored, as active if it is to be, before
\* the others are retired.
SaveRuleVersion(e) ==
  /\ editor[e].pc = "save"
  /\ \E row \in editor[e].row :
       /\ ruleRows' = Upsert(ruleRows, row.id, row)
       /\ Set(e, CASE row.status = "active" -> [editor[e] EXCEPT !.pc = "activate"]
                   [] row.status # "active" /\ editor[e].op = "apply" ->
                        [editor[e] EXCEPT !.pc = "apply"]
                   [] OTHER -> IdleEditor)
  /\ Quiet /\ UNCHANGED <<proposals, replayRun, calibration, versionsMade>>

Activated(row) == [row EXCEPT !.status = "active", !.enabled = TRUE]

Retired(row) == [row EXCEPT !.status = "retired", !.enabled = FALSE]

\* The versions that an activation retires.
Others(row) == {r \in StoredRules : r.name = row.name /\ r.id # row.id /\ r.status = "active"}

AfterActivation(e) ==
  IF editor[e].op = "apply" THEN [editor[e] EXCEPT !.pc = "apply"] ELSE IdleEditor

\* activate_ueba_governance_rule reads the version and all the others.
ActivateRule(e) ==
  /\ rulesMode = "database" /\ editor[e].pc = "activate"
  /\ \E row \in editor[e].row :
       Set(e, [editor[e] EXCEPT !.pc = "retire", !.row = {ruleRows[row.id]},
                 !.todo = Others(row)])
  /\ Quiet /\ UNCHANGED <<ruleRows, proposals, replayRun, calibration, versionsMade>>

\* The active ones are retired one after the other, as they were read; two of
\* the same version in either order.
RetireOther(e) ==
  /\ editor[e].pc = "retire"
  /\ \E row \in editor[e].todo :
       /\ \A other \in editor[e].todo : row.version <= other.version
       /\ ruleRows' = Upsert(ruleRows, row.id, Retired(row))
       /\ Set(e, [editor[e] EXCEPT !.todo = @ \ {row}])
  /\ Quiet /\ UNCHANGED <<proposals, replayRun, calibration, versionsMade>>

SaveActivated(e) ==
  /\ editor[e].pc = "retire" /\ editor[e].todo = {}
  /\ \E row \in editor[e].row : ruleRows' = Upsert(ruleRows, row.id, Activated(row))
  /\ Set(e, AfterActivation(e))
  /\ Quiet /\ UNCHANGED <<proposals, replayRun, calibration, versionsMade>>

\* change_in_memory_rule_state, under its lock.  Here a retired version that
\* is disabled stays as it is.
ChangedInMemory(op, id) ==
  [i \in DOMAIN ruleRows |->
     CASE i = id /\ op = "activate" -> Activated(ruleRows[i])
       [] i = id /\ op = "retire" -> Retired(ruleRows[i])
       [] i = id /\ op = "disable" -> [ruleRows[i] EXCEPT !.enabled = FALSE]
       [] i = id /\ op = "enable" /\ ruleRows[i].status # "retired" ->
            [ruleRows[i] EXCEPT !.enabled = TRUE]
       [] i # id /\ op = "activate" /\ ruleRows[i] \in Others(ruleRows[id]) ->
            Retired(ruleRows[i])
       [] OTHER -> ruleRows[i]]

ActivateInMemory(e) ==
  /\ rulesMode = "memory" /\ editor[e].pc = "activate"
  /\ \E row \in editor[e].row : ruleRows' = ChangedInMemory("activate", row.id)
  /\ Set(e, AfterActivation(e))
  /\ Quiet /\ UNCHANGED <<proposals, replayRun, calibration, versionsMade>>

----
(* Changes of state *)

\* change_ueba_rule_state: the version that is asked for, as it is now.  A
\* retired one can be activated, but neither enabled nor disabled.
ChangeRuleState(e, id) ==
  /\ rulesMode = "database"
  /\ editor[e].pc = "act" /\ editor[e].op \in StateChanges
  /\ id \in DOMAIN ruleRows
  /\ LET row == ruleRows[id]
         op == editor[e].op
     IN  Set(e, CASE op = "activate" -> [editor[e] EXCEPT !.pc = "activate", !.row = {row}]
                  [] op = "retire" -> [editor[e] EXCEPT !.pc = "put", !.row = {Retired(row)}]
                  [] op \in {"enable", "disable"} /\ row.status # "retired" ->
                       [editor[e] EXCEPT !.pc = "put",
                          !.row = {[row EXCEPT !.enabled = (op = "enable")]}]
                  [] OTHER -> IdleEditor)
  /\ Quiet /\ UNCHANGED <<ruleRows, proposals, replayRun, calibration, versionsMade>>

ChangeRuleStateInMemory(e, id) ==
  /\ rulesMode = "memory"
  /\ editor[e].pc = "act" /\ editor[e].op \in StateChanges
  /\ id \in DOMAIN ruleRows
  /\ ruleRows' = ChangedInMemory(editor[e].op, id)
  /\ Set(e, IdleEditor)
  /\ Quiet /\ UNCHANGED <<proposals, replayRun, calibration, versionsMade>>

RuleNotFound(e) ==
  /\ editor[e].pc = "act" /\ editor[e].op \in StateChanges
  /\ Set(e, IdleEditor)
  /\ Quiet /\ UNCHANGED <<ruleRows, proposals, replayRun, calibration, versionsMade>>

\* set_ueba_governance_rule_enabled and retire_ueba_governance_rule write the
\* whole version as it was read.
PutRule(e) ==
  /\ editor[e].pc = "put"
  /\ \E row \in editor[e].row : ruleRows' = Upsert(ruleRows, row.id, row)
  /\ Set(e, IdleEditor)
  /\ Quiet /\ UNCHANGED <<proposals, replayRun, calibration, versionsMade>>

----
(* Replays, proposals, calibrations *)

\* run_ueba_replay: all the versions, or those of one name.
RunReplay(e, names) ==
  /\ editor[e].pc = "act" /\ editor[e].op \in {"replay", "propose"}
  /\ LET run == ReplayRun({r \in StoredRules : r.name \in names})
     IN  /\ replayRun' = run
         /\ Set(e, IF editor[e].op = "replay" THEN IdleEditor
                   ELSE [editor[e] EXCEPT !.pc = "propose", !.run = run])
  /\ Quiet /\ UNCHANGED <<ruleRows, proposals, calibration, versionsMade>>

\* The request names an earlier run.
LoadReplay(e) ==
  /\ editor[e].pc = "act" /\ editor[e].op = "propose" /\ replayRun # NoRun
  /\ Set(e, [editor[e] EXCEPT !.pc = "propose", !.run = replayRun])
  /\ Quiet /\ UNCHANGED <<ruleRows, proposals, replayRun, calibration, versionsMade>>

\* build_tuning_proposal and save_tuning_proposal, for a name and a target.
SaveTuningProposal(e, name, target) ==
  /\ editor[e].pc = "propose"
  /\ LET run == editor[e].run
         sources == TuningSource(editor[e].loaded, name, run)
     IN  \/ \E source \in sources :
              proposals' = Upsert(proposals, Cardinality(DOMAIN proposals) + 1,
                [status |-> "proposed", source |-> source.id, applied |-> NoRule,
                 threshold |-> ProposedThreshold(source, run, target),
                 from |-> source.threshold, hits |-> run[source.name], target |-> target])
         \/ sources = {} /\ UNCHANGED proposals
  /\ Set(e, IdleEditor)
  /\ Quiet /\ UNCHANGED <<ruleRows, replayRun, calibration, versionsMade>>

\* The end of apply_tuning_proposal: the proposal as it was loaded, applied.
SaveAppliedProposal(e) ==
  /\ editor[e].pc = "apply"
  /\ \E row \in editor[e].row :
       proposals' = [proposals EXCEPT ![editor[e].proposal].status = "applied",
                                      ![editor[e].proposal].applied = row.id]
  /\ Set(e, IdleEditor)
  /\ Quiet /\ UNCHANGED <<ruleRows, replayRun, calibration, versionsMade>>

\* run_ueba_calibration: recommendations for the default rules.
RunCalibration(e) ==
  /\ editor[e].pc = "act" /\ editor[e].op = "calibrate"
  /\ calibration' = [n \in NameIds |-> Calibrated(activity[n])]
  /\ Set(e, IdleEditor)
  /\ Quiet /\ UNCHANGED <<ruleRows, proposals, replayRun, versionsMade>>

RuleOps == {"list", "create", "tune", "replay", "propose", "apply", "calibrate"}

RuleStep(e) ==
  \/ \E op \in RuleOps \cup StateChanges, p \in {NoRule} \cup DOMAIN proposals :
       StartRequest(e, op, p)
  \/ LoadOrSeedRules(e) \/ SeedRule(e) \/ RulesSeeded(e) \/ ListRules(e)
  \/ \E n \in NameIds, active \in BOOLEAN, t \in Thresholds : BuildCreatedRule(e, n, active, t)
  \/ \E r \in editor[e].loaded, active \in BOOLEAN, t \in Thresholds :
       BuildTunedRule(e, r, active, t)
  \/ \E active \in BOOLEAN : BuildProposedRule(e, active)
  \/ SaveRuleVersion(e)
  \/ ActivateRule(e) \/ RetireOther(e) \/ SaveActivated(e) \/ ActivateInMemory(e)
  \/ \E id \in DOMAIN ruleRows : ChangeRuleState(e, id) \/ ChangeRuleStateInMemory(e, id)
  \/ RuleNotFound(e) \/ PutRule(e)
  \/ \E names \in {NameIds} \cup {{n} : n \in NameIds} : RunReplay(e, names)
  \/ LoadReplay(e)
  \/ \E n \in NameIds, target \in Targets : SaveTuningProposal(e, n, target)
  \/ SaveAppliedProposal(e) \/ RunCalibration(e)
  \/ RequestFails(e)

RulesNext == \E e \in Editors : RuleStep(e)

RulesSpec == RulesInit /\ [][RulesNext]_rulesVars

----
(* Properties *)

\* As long as requests come one after the other and none fails halfway, a
\* rule has at most one active version whenever no request is in progress,
\* and no two versions of it have the same number.
RulesOrderly ==
  (~disturbed /\ \A e \in Editors : editor[e].pc = "idle") =>
    \A a, b \in StoredRules :
      a # b /\ a.name = b.name =>
        /\ a.version # b.version
        /\ ~(a.status = "active" /\ b.status = "active")

\* A proposal on record as applied names a stored version made from the
\* proposal's source with the proposed threshold, whatever became of the
\* source and of the other versions in the meantime.
AppliedProposals ==
  \A p \in {q \in DOMAIN proposals : proposals[q].status = "applied"} :
    LET made == proposals[p].applied
    IN  /\ made \in DOMAIN ruleRows
        /\ ruleRows[made].base = proposals[p].source
        /\ ruleRows[made].threshold = proposals[p].threshold

\* A calibrated threshold singles users out: no more than half of them have
\* done what the rule counts that often.
CalibrationSelective ==
  calibration # <<>> =>
    \A n \in NameIds :
      2 * Cardinality({u \in DOMAIN activity[n] : activity[n][u] >= calibration[n]})
        <= Len(activity[n])

\* A tuning proposal moves the number of alerts towards the target: where the
\* replay had more hits than the target, the threshold is not lowered.
TuningTowardsTarget ==
  \A p \in DOMAIN proposals :
    proposals[p].hits > proposals[p].target => proposals[p].threshold >= proposals[p].from

\* The rules are in order: one active version of each where requests do not
\* overlap, applied proposals that name what was made of them, and calibrated
\* thresholds that single users out.
RulesSound ==
  /\ RulesTypeOK
  /\ RulesOrderly
  /\ AppliedProposals
  /\ CalibrationSelective
=============================================================================
