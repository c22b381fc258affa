\* One application under concurrent callbacks.
CONSTANTS
  analyst = analyst
  lead = lead
  officer = officer
  sysadmin = sysadmin
  Nobody = Nobody
  Users <- MCUsers
  Manager <- MCManager
  Delegate <- MCDelegate
  EscalationUsers <- NoTargets
  Fallback = sysadmin
  MaxManagerHops = 2
  AllowDelegation = TRUE
  Requests = {r1}
  MergeKey <- OneKey
  Applicant = analyst
  Callers = {lead, officer}
  Deputies = {officer}
  Calls = {c1, c2}
  Flow <- Countersigned
  Absentees = {}
  MaxCallbacks = 3
  MaxFaults = 1
SPECIFICATION Spec
INVARIANTS
  GrantsEarned
  ClosedMeansDecided
SYMMETRY CallSymmetry
CHECK_DEADLOCK FALSE
