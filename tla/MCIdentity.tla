----------------------------- MODULE MCIdentity -----------------------------
(* Small instances of sessions, provisioning and the rotation of           *)
(* credentials.  The variable part says which is explored: sessions alone, *)
(* logins under a change of the account, synchronisation with a provider,  *)
(* and the credentials of integrations.                                    *)
EXTENDS ScimProvisioning, CredentialRotation, TLC

CONSTANTS alice, bob, l1, l2

VARIABLE part

vars == <<sessionVars, userVars, boundVars, scimVars, rotationVars, part>>

\* Alice has a password, Bob comes through the identity provider.
MCOwner == l1 :> alice @@ l2 :> bob

\* Scores 0, 67 and 84.
MCSignals == {{}, {"impossible_travel", "device_posture", "ip_drift"},
              {"export_burst", "exfiltration_hint", "ip_drift"}}

MCPolicies == {[deleteUsers |-> d, disableUsers |-> TRUE,
                deleteGroups |-> d, disableGroups |-> TRUE] : d \in BOOLEAN}

MCInit ==
  /\ IdentityInit
  /\ users = [u \in Users |->
                IF u = alice THEN [active |-> TRUE, source |-> "LocalPassword"]
                ELSE Absent]
  /\ RotationInit
  /\ part \in {"sessions", "accounts", "sync", "credentials"}

SessionsPart ==
  /\ part = "sessions"
  /\ \/ SessionsNext /\ UNCHANGED scimVars
     \/ LoadDirectory
  /\ restarts' + saveFaults' <= 1

\* One request changes an account while its user logs in.
AccountsPart ==
  /\ part = "accounts"
  /\ IdentityNext
  /\ tokens' <= 1 /\ served' <= 1 /\ restarts' = 0 /\ saveFaults' = 0
  /\ refresh' = refresh /\ provider' = provider /\ groups' = groups
  /\ \A j \in Jobs : ~job'[j].sync

SyncPart ==
  /\ part = "sync"
  /\ \/ ScimNext
     \/ LoadDirectory
  /\ restarts' + saveFaults' <= 1

\* Two failures and restarts in all, and one if cycles overlap.
CredentialsPart ==
  /\ part = "credentials"
  /\ RotationNext
  /\ rotationFaults' + rotationRestarts' <= IF overlap' THEN 1 ELSE 2
  /\ UNCHANGED <<sessionVars, userVars, boundVars, scimVars>>

MCNext ==
  /\ \/ (SessionsPart \/ AccountsPart \/ SyncPart) /\ UNCHANGED rotationVars
     \/ CredentialsPart
  /\ part' = part

MCSpec == MCInit /\ [][MCNext]_vars

Symmetry == Permutations(Verifies) \cup Permutations(Refreshes)
              \cup Permutations(Jobs)
=============================================================================
