\* Two submissions for the same fields, while approvers come and go.
CONSTANTS
  analyst = analyst
  lead = lead
  officer = officer
  sysadmin = sysadmin
  Nobody = Nobody
  Users <- MCUsers
  Manager <- MCManager
  Delegate <- MCDelegate
  EscalationUsers <- SysadminTarget
  Fallback = sysadmin
  MaxManagerHops = 2
  AllowDelegation = TRUE
  Requests = {r1, r2}
  MergeKey <- OneKey
  Applicant = analyst
  Callers = {lead}
  Deputies = {officer}
  Calls = {c1}
  Flow <- EitherOne
  Absentees = {lead}
  MaxCallbacks = 1
  MaxFaults = 1
SPECIFICATION FairSpec
INVARIANT OnePendingApplication
PROPERTY OverdueIsEscalated
CHECK_DEADLOCK FALSE
