------------------------------ MODULE MCLoops -------------------------------
(* What the background loops of the API must get done in the end: rotate   *)
(* credentials and data keys, end the grants of closed projects and of     *)
(* employees who left, deliver notifications, answer suspicious behaviour. *)
(* The variable part says which of the loops is explored.                  *)
EXTENDS CredentialRotation, NotificationDelivery, ProjectLifecycle, SnapshotVault, UebaStream, TLC

CONSTANTS u1, u2, g1, e1, p1, d1, m1

VARIABLE part

vars == <<rotationVars, noticeVars, governanceVars, vaultVars, uebaVars, part>>

MCChannels == <<"feishu", "email">>

MCApplicant == g1 :> e1
MCProjectOf == g1 :> p1
MCRule == [requireActive |-> TRUE, users |-> {}, departments |-> {}, roles |-> TRUE]

Here == [status |-> "Active", department |-> d1, manager |-> m1]

MCTenantOf == u1 :> "t1" @@ u2 :> "t2"

Event(u, kind, p) == [user |-> u, kind |-> kind, project |-> p]

\* A user who was denied a query once before.
MCEarlier == {<<Event(u1, "denied", "p1"), Event(u2, "control", "p2")>>}

NewEvents == {Event(u1, "denied", "p1"), Event(u1, "denied", "p2"), Event(u2, "dns", "p1")}

MCInit ==
  /\ part \in {"credentials", "notices", "projects", "keys", "behaviour"}
  /\ RotationInit /\ NoticesInit
  /\ GrantsInit(e1 :> Here, {g1}, p1 :> "Active") /\ ProjectsInit
  /\ VaultInit /\ (part # "keys" => activeKms = "vault")
  /\ UebaInit /\ uebaMode = "stream"

CredentialsPart ==
  /\ part = "credentials"
  /\ RotationNext
  /\ UNCHANGED <<noticeVars, governanceVars, vaultVars, uebaVars>>

NoticesPart ==
  /\ part = "notices"
  /\ NoticesNext
  /\ UNCHANGED <<rotationVars, governanceVars, vaultVars, uebaVars>>

ProjectsPart ==
  /\ part = "projects"
  /\ ProjectNext
  /\ UNCHANGED <<rotationVars, noticeVars, vaultVars, uebaVars>>

\* A failure or a restart, and no requests.
KeysPart ==
  /\ part = "keys"
  /\ VaultNext
  /\ vaultFaults' + vaultRestarts' <= 1
  /\ UNCHANGED <<rotationVars, noticeVars, governanceVars, uebaVars>>

BehaviourPart ==
  /\ part = "behaviour"
  /\ UebaNext
  /\ uebaFaults' + uebaRestarts' <= 1
  /\ Len(uebaEvents') > Len(uebaEvents) => uebaEvents'[Len(uebaEvents')] \in NewEvents
  /\ UNCHANGED <<rotationVars, noticeVars, governanceVars, vaultVars>>

MCNext ==
  /\ CredentialsPart \/ NoticesPart \/ ProjectsPart \/ KeysPart \/ BehaviourPart
  /\ part' = part

MCFairness ==
  \/ <>[](part = "credentials") /\ RotationFairness
  \/ <>[](part = "notices") /\ NoticeFairness
  \/ <>[](part = "projects") /\ ProjectFairness
  \/ <>[](part = "keys") /\ VaultFairness
  \/ <>[](part = "behaviour") /\ UebaFairness

MCSpec == MCInit /\ [][MCNext]_vars /\ MCFairness
=============================================================================
