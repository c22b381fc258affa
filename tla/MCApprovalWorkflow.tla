------------------------- MODULE MCApprovalWorkflow -------------------------
(* Small instances of the approval workflow. *)
EXTENDS ApprovalWorkflow, TLC

CONSTANTS analyst, lead, officer, sysadmin

User(u) == [kind |-> "User", user |-> u]
ApplicantsManager == [kind |-> "Manager"]
None == [kind |-> "None"]

\* The lead manages the analyst and reports to the officer, who deputises.
MCUsers == {analyst, lead, officer, sysadmin}
MCManager == analyst :> lead @@ lead :> officer @@ officer :> Nobody
               @@ sysadmin :> Nobody
MCDelegate == [u \in MCUsers |-> IF u = lead THEN officer ELSE Nobody]
NoTargets == <<>>
SysadminTarget == <<sysadmin>>

\* Lead and officer countersign, then the officer approves.
Countersigned ==
  <<[mode |-> "ParallelAll", approvers |-> <<ApplicantsManager, User(officer)>>,
     escalation |-> None],
    [mode |-> "Serial", approvers |-> <<User(officer)>>,
     escalation |-> User(sysadmin)]>>

\* The applicant's manager or the officer approves.
EitherOne ==
  <<[mode |-> "AnyOne", approvers |-> <<ApplicantsManager, User(officer)>>,
     escalation |-> None]>>

\* Every request asks for the same.
OneKey == [r \in Requests |-> "fields"]

CallSymmetry == Permutations(Calls)
=============================================================================
