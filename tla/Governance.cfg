\* Grants under projects, signals and time; grants under HR synchronisation.
CONSTANTS
  e1 = e1
  g1 = g1
  p1 = p1
  d1 = d1
  d2 = d2
  m1 = m1
  Grants = {g1}
  Employees = {e1}
  Projects = {p1}
  Applicant <- MCApplicant
  ProjectOf <- MCProjectOf
  Departments = {d1, d2}
  DefaultDepartment = d1
  Managers = {m1}
  NoOne = NoOne
  EligibilityRule <- MCRule
  LifecycleJobs = {tick, h1, h2}
  GovernanceJob = tick
  Triggers = {"AuditAnomaly", "AuditCleared"}
  MaxSignals = 1
  MaxWorldChanges = 1
  MaxLifecycleFaults = 1
  Admins = {a1}
  MaxProjectChanges = 2
  MaxGovernanceRestarts = 1
  HrNews <- MCNews
  HrProfiles <- MCProfiles
  MaxHrEvents = 2
  MaxHrCalls = 2
SPECIFICATION MCSpec
INVARIANTS
  RegistryMatchesTable
  EventsAppliedOnce
  GrantsFollowHr
PROPERTY
  EndedStaysEnded
SYMMETRY Symmetry
CHECK_DEADLOCK FALSE
