------------------------- MODULE CredentialRotation -------------------------
(***************************************************************************)
(* Rotation of the integration API keys: run_credential_rotation_cycle     *)
(* (apps/sdqp-api/src/lib.rs), the state machine of a credential           *)
(* (crates/sdqp-system-security/src/transport.rs) and the tables           *)
(* integration_api_credentials and credential_rotation_state.              *)
(*                                                                         *)
(* The runtime job and an administrator's request run the same cycle, and  *)
(* nothing keeps them apart.  A secret is its version; version 1 is the    *)
(* one of the configuration.  Policies come from the keys in memory, so a  *)
(* key that is externally managed, or not found, does not occur.           *)
(***************************************************************************)
EXTENDS Integers

CONSTANTS
  Keys,                  \* configured integration API keys
  Runners,               \* cycles that may be under way
  RetryLimit,            \* min(max_attempts, manual_intervention_after)
  MaxVersions,           \* bound: secrets generated
  MaxCycles,             \* bound: cycles started
  MaxRotationFaults,     \* bound: failed statements
  MaxRotationRestarts    \* bound: restarts

ASSUME RotationAssumption ==
  /\ Keys # {}
  /\ RetryLimit \in Nat \ {0}
  /\ MaxVersions \in Nat \ {0} /\ MaxCycles \in Nat
  /\ MaxRotationFaults \in Nat /\ MaxRotationRestarts \in Nat

VARIABLES
  keyMem,      \* the key records of IntegrationSecurityPolicy
  keyRow,      \* integration_api_credentials; 0 for no row
  rot,         \* credential_rotation_states in memory
  rotRow,      \* the table credential_rotation_state
  elapsed,     \* keys whose interval or back-off is over
  cycle,       \* the cycles under way
  versions,    \* secrets generated
  cycles,
  overlap,     \* history: two cycles were under way at once
  rotationFaults,
  rotationRestarts

rotationVars == <<keyMem, keyRow, rot, rotRow, elapsed, cycle, versions,
                  cycles, overlap, rotationFaults, rotationRestarts>>

NoState == [status |-> "none", attempts |-> 0, version |-> 0]
NewDue  == [status |-> "Due", attempts |-> 0, version |-> 0]

State == [status : {"Due", "Rotating", "Active", "FailedRetryable",
                    "ManualInterventionRequired"},
          attempts : Nat, version : 0..MaxVersions] \cup {NoState}

IdleCycle == [pc |-> "idle", force |-> FALSE, todo |-> {},
              key |-> CHOOSE k \in Keys : TRUE, copy |-> NoState]

\* The retries are counted, and end at the limit.
CountsFit(s) ==
  /\ s.status = "FailedRetryable" => s.attempts \in 1..RetryLimit - 1
  /\ s.status = "ManualInterventionRequired" => s.attempts >= RetryLimit

RotationTypeOK ==
  /\ keyMem \in [Keys -> 0..MaxVersions]
  /\ keyRow \in [Keys -> 0..MaxVersions]
  /\ rot \in [Keys -> State] /\ rotRow \in [Keys -> State]
  /\ elapsed \subseteq Keys
  /\ \A r \in Runners : /\ cycle[r].pc \in {"idle", "next", "started", "key",
                                            "publish", "ended"}
                        /\ cycle[r].todo \subseteq Keys
                        /\ cycle[r].copy \in State
  /\ \A k \in Keys : CountsFit(rot[k]) /\ CountsFit(rotRow[k])
  /\ versions \in 1..MaxVersions

RotationInit ==
  /\ keyMem = [k \in Keys |-> 1]
  /\ keyRow = [k \in Keys |-> 0]
  /\ rot = [k \in Keys |-> NoState]
  /\ rotRow = [k \in Keys |-> NoState]
  /\ elapsed = {}
  /\ cycle = [r \in Runners |-> IdleCycle]
  /\ versions = 1
  /\ cycles = 0
  /\ overlap = FALSE
  /\ rotationFaults = 0
  /\ rotationRestarts = 0

RotationFault ==
  /\ rotationFaults < MaxRotationFaults
  /\ rotationFaults' = rotationFaults + 1

----
(* The state of a credential. *)

RefreshDueStatus(k) ==
  IF rot[k] = NoState THEN NewDue
  ELSE IF rot[k].status = "Active" /\ k \in elapsed
  THEN [rot[k] EXCEPT !.status = "Due"] ELSE rot[k]

IsDue(k) ==
  CASE rot[k].status = "Due" -> TRUE
    [] rot[k].status \in {"Active", "FailedRetryable"} -> k \in elapsed
    [] OTHER -> FALSE

StartAttempt(s) == [s EXCEPT !.status = "Rotating", !.attempts = @ + 1]

MarkSuccess(s, v) == [status |-> "Active", attempts |-> 0, version |-> v]

MarkFailure(s) ==
  [s EXCEPT !.status = IF s.attempts >= RetryLimit
                       THEN "ManualInterventionRequired" ELSE "FailedRetryable"]

----
(* A cycle. *)

\* Policies are built from the keys in memory; `only` is the credential an
\* administrator asks for, or all of them.
StartCycle(r, force, only) ==
  /\ cycle[r].pc = "idle"
  /\ cycles < MaxCycles
  /\ cycles' = cycles + 1
  /\ rot' = [k \in Keys |-> IF keyMem[k] # 0 THEN RefreshDueStatus(k)
                            ELSE rot[k]]
  /\ cycle' = [cycle EXCEPT ![r] =
                 [@ EXCEPT !.pc = "next", !.force = force,
                           !.todo = {k \in only : keyMem[k] # 0}]]
  /\ overlap' = (overlap \/ \E q \in Runners : cycle[q].pc # "idle")
  /\ UNCHANGED <<keyMem, keyRow, rotRow, elapsed, versions, rotationFaults,
                 rotationRestarts>>

\* The state is read, its attempt counted, and put back.
RotateSingleCredential(r, k) ==
  /\ cycle[r].pc = "next" /\ k \in cycle[r].todo
  /\ IF cycle[r].force \/ IsDue(k)
     THEN /\ rot' = [rot EXCEPT ![k] = StartAttempt(rot[k])]
          /\ elapsed' = elapsed \ {k}
          /\ cycle' = [cycle EXCEPT ![r] =
                         [@ EXCEPT !.pc = "started", !.key = k,
                                   !.todo = cycle[r].todo \ {k},
                                   !.copy = rot'[k]]]
     ELSE /\ cycle' = [cycle EXCEPT ![r].todo = @ \ {k}]
          /\ UNCHANGED <<rot, elapsed>>
  /\ UNCHANGED <<keyMem, keyRow, rotRow, versions, cycles, overlap,
                 rotationFaults, rotationRestarts>>

\* persist_rotation_state: a failed statement is only logged.
PersistRotationState(r) ==
  /\ cycle[r].pc \in {"started", "ended"}
  /\ \/ /\ rotRow' = [rotRow EXCEPT ![cycle[r].key] = cycle[r].copy]
        /\ UNCHANGED rotationFaults
     \/ RotationFault /\ UNCHANGED rotRow
  /\ cycle' = [cycle EXCEPT ![r].pc = IF @ = "started" THEN "key" ELSE "next"]
  /\ UNCHANGED <<keyMem, keyRow, rot, elapsed, versions, cycles, overlap,
                 rotationRestarts>>

\* The new secret is stored before it is used.
SaveIntegrationApiKey(r) ==
  /\ cycle[r].pc = "key"
  /\ LET k == cycle[r].key
         failed == MarkFailure(cycle[r].copy)
     IN  \/ /\ versions < MaxVersions
            /\ versions' = versions + 1
            /\ keyRow' = [keyRow EXCEPT ![k] = versions']
            /\ cycle' = [cycle EXCEPT ![r] =
                           [@ EXCEPT !.pc = "publish", !.copy =
                              MarkSuccess(cycle[r].copy, versions')]]
            /\ UNCHANGED <<rot, rotationFaults>>
         \/ /\ RotationFault
            /\ rot' = [rot EXCEPT ![k] = failed]
            /\ cycle' = [cycle EXCEPT ![r] =
                           [@ EXCEPT !.pc = "ended", !.copy = failed]]
            /\ UNCHANGED <<versions, keyRow>>
  /\ UNCHANGED <<keyMem, rotRow, elapsed, cycles, overlap, rotationRestarts>>

\* Mutant: the state names the secret, which is not put to use.
UpsertApiKey_Forgotten(r) ==
  /\ cycle[r].pc = "publish"
  /\ rot' = [rot EXCEPT ![cycle[r].key] = cycle[r].copy]
  /\ cycle' = [cycle EXCEPT ![r].pc = "ended"]
  /\ UNCHANGED <<keyMem, keyRow, rotRow, elapsed, versions, cycles, overlap,
                 rotationFaults, rotationRestarts>>

UpsertApiKey(r) ==
  /\ cycle[r].pc = "publish"
  /\ keyMem' = [keyMem EXCEPT ![cycle[r].key] = cycle[r].copy.version]
  /\ rot' = [rot EXCEPT ![cycle[r].key] = cycle[r].copy]
  /\ cycle' = [cycle EXCEPT ![r].pc = "ended"]
  /\ UNCHANGED <<keyRow, rotRow, elapsed, versions, cycles, overlap,
                 rotationFaults, rotationRestarts>>

\* Mutant: the cycle ends without waiting for its last credential.
EndCycle_Early(r) ==
  /\ cycle[r].pc \in {"next", "key"}
  /\ cycle[r].todo = {}
  /\ cycle' = [cycle EXCEPT ![r] = IdleCycle]
  /\ UNCHANGED <<keyMem, keyRow, rot, rotRow, elapsed, versions, cycles,
                 overlap, rotationFaults, rotationRestarts>>

EndCycle(r) ==
  /\ cycle[r].pc = "next" /\ cycle[r].todo = {}
  /\ cycle' = [cycle EXCEPT ![r] = IdleCycle]
  /\ UNCHANGED <<keyMem, keyRow, rot, rotRow, elapsed, versions, cycles,
                 overlap, rotationFaults, rotationRestarts>>

IntervalElapses(k) ==
  /\ k \notin elapsed
  /\ rot[k].status \in {"Active", "FailedRetryable"}
  /\ elapsed' = elapsed \cup {k}
  /\ UNCHANGED <<keyMem, keyRow, rot, rotRow, cycle, versions, cycles, overlap,
                 rotationFaults, rotationRestarts>>

\* Stored keys replace the configured ones, all of them, when there are any.
LoadCredentials ==
  /\ rotationRestarts < MaxRotationRestarts
  /\ rotationRestarts' = rotationRestarts + 1
  /\ keyMem' = IF \E k \in Keys : keyRow[k] # 0 THEN keyRow
               ELSE [k \in Keys |-> 1]
  /\ rot' = rotRow
  /\ cycle' = [r \in Runners |-> IdleCycle]
  /\ UNCHANGED <<keyRow, rotRow, elapsed, versions, cycles, overlap,
                 rotationFaults>>

CycleStep(r) ==
  \/ \E k \in cycle[r].todo : RotateSingleCredential(r, k)
  \/ PersistRotationState(r)
  \/ SaveIntegrationApiKey(r)
  \/ UpsertApiKey(r)
  \/ EndCycle(r)

RotationNext ==
  \/ \E r \in Runners : \/ \E force \in BOOLEAN,
                             only \in {Keys} \cup {{k} : k \in Keys} :
                             StartCycle(r, force, only)
                        \/ CycleStep(r)
  \/ \E k \in Keys : IntervalElapses(k)
  \/ LoadCredentials

RotationSpec == RotationInit /\ [][RotationNext]_rotationVars

\* A cycle that runs is an async function: it goes on.
RotationFairness == \A r \in Runners : WF_rotationVars(CycleStep(r))

----

\* As long as the job and an administrator have not run at the same time, and
\* while no cycle is under way, the secret the API accepts is the stored one,
\* and the state of an active credential names it, whatever statement failed
\* and wherever a restart cut a rotation short.  Only both together, a state
\* that was not stored and a restart, leave it with the version before.
KeyMatchesState ==
  (~overlap /\ \A r \in Runners : cycle[r].pc = "idle")
    => \A k \in Keys : /\ keyRow[k] # 0 => keyMem[k] = keyRow[k]
                       /\ rot[k].status = "Active" =>
                            \/ rot[k].version = keyMem[k]
                            \/ rotationFaults > 0 /\ rotationRestarts > 0

\* A credential does not stay in rotation: the attempt ends in a new secret,
\* a retry or a call for help.  A restart in the middle of an attempt is left
\* out: the stored status Rotating is never due again.
RotationSettles ==
  [](rotationRestarts = 0 /\ versions < MaxVersions)
    => \A k \in Keys : (rot[k].status = "Rotating")
                         ~> (rot[k].status # "Rotating")

\* Secrets and their states stay in step through failed statements and
\* restarts, as long as cycles do not overlap (run_credential_rotation_cycle).
SecretsInStep == RotationTypeOK /\ KeyMatchesState

----
(* What SecretsInStep rests on: where a cycle stands says how far key,      *)
(* state and their rows may be apart.                                       *)

Cycle == [pc : {"idle", "next", "started", "key", "publish", "ended"},
          force : BOOLEAN, todo : SUBSET Keys, key : Keys, copy : State]

\* The state a cycle carries from step to step.
CopyFits(c) ==
  /\ CountsFit(c.copy)
  /\ c.pc \in {"started", "key"} => c.copy.status = "Rotating" /\ c.copy.attempts > 0
  /\ c.pc = "publish" => c.copy.status = "Active" /\ keyRow[c.key] # 0

CyclesTyped ==
  /\ rotationFaults \in Nat /\ rotationRestarts \in Nat /\ overlap \in BOOLEAN
  /\ cycle \in [Runners -> Cycle]
  /\ \A r \in Runners : CopyFits(cycle[r])

OneCycle ==
  \A q, r \in Runners : cycle[q].pc # "idle" /\ cycle[r].pc # "idle" => q = r

\* A key is in use with the stored secret, except between the two steps that
\* store it and put it to use.
KeyFollowsRow ==
  \A k \in Keys : keyRow[k] # 0 =>
    \/ keyMem[k] = keyRow[k]
    \/ \E r \in Runners : cycle[r].pc = "publish" /\ cycle[r].key = k

\* A cycle puts to use what it stored.
CopyNamesRow ==
  \A r \in Runners : cycle[r].pc = "publish" =>
    cycle[r].copy.version = keyRow[cycle[r].key]

StateNamesKey ==
  \A k \in Keys : rot[k].status = "Active" =>
    \/ rot[k].version = keyMem[k]
    \/ rotationFaults > 0 /\ rotationRestarts > 0

\* As long as no statement failed, the stored state of an active credential
\* names the stored secret, and says otherwise before this one is replaced.
RowNamesKey ==
  \/ rotationFaults > 0
  \/ /\ \A k \in Keys : rotRow[k].status = "Active" =>
           rotRow[k].version = keyRow[k] /\ keyRow[k] # 0
     /\ \A r \in Runners :
          /\ cycle[r].pc \in {"key", "publish"} =>
               rotRow[cycle[r].key].status # "Active"
          /\ cycle[r].pc = "ended" /\ cycle[r].copy.status = "Active" =>
               /\ cycle[r].copy.version = keyRow[cycle[r].key]
               /\ keyRow[cycle[r].key] # 0

InStep ==
  /\ OneCycle
  /\ KeyFollowsRow
  /\ CopyNamesRow
  /\ StateNamesKey
  /\ RowNamesKey

RotationInv ==
  /\ RotationTypeOK
  /\ CyclesTyped
  /\ overlap \/ InStep
=============================================================================
