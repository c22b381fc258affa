\* What the background loops get done in the end.
CONSTANTS
  u1 = u1
  u2 = u2
  g1 = g1
  e1 = e1
  p1 = p1
  d1 = d1
  m1 = m1
  Keys = {k1}
  Runners = {job, admin}
  RetryLimit = 2
  MaxVersions = 3
  MaxCycles = 2
  MaxRotationFaults = 1
  MaxRotationRestarts = 1
  Notices = {n1}
  NoticeChannels <- MCChannels
  ConfiguredChannels = {"feishu"}
  NoticeAttempts = 3
  MaxNoticeFaults = 1
  MaxNoticeRestarts = 1
  Grants = {g1}
  Employees = {e1}
  Projects = {p1}
  Applicant <- MCApplicant
  ProjectOf <- MCProjectOf
  Departments = {d1}
  DefaultDepartment = d1
  Managers = {m1}
  NoOne = NoOne
  EligibilityRule <- MCRule
  LifecycleJobs = {tick}
  GovernanceJob = tick
  Triggers = {}
  MaxSignals = 0
  MaxWorldChanges = 1
  MaxLifecycleFaults = 1
  Admins = {a1}
  MaxProjectChanges = 2
  MaxGovernanceRestarts = 0
  Snaps = {1, 2}
  Deks = {1, 2, 3, 4, 5, 6, 7, 8}
  KmsProviders = {"vault", "aws"}
  VaultUsers = {u1}
  RotationCycles = {job, admin}
  RuntimeCycle = job
  BatchLimit = 2
  DekDays = 1
  KekDays = 2
  MaxDays = 2
  MaxVaultCalls = 0
  MaxVaultFaults = 1
  MaxVaultRestarts = 1
  UebaUsers = {u1, u2}
  UebaProjects = {"p1", "p2"}
  TenantOf <- MCTenantOf
  SignalKinds = {"denied", "dns"}
  EarlierSignals <- MCEarlier
  MaxUebaEvents = 4
  MaxUebaFaults = 1
  MaxUebaRestarts = 1
SPECIFICATION MCSpec
PROPERTIES
  RotationSettles
  DeliveriesSettle
  ClosedProjectHasNoGrants
  DueKeysRotated
  BurstsMitigated
CHECK_DEADLOCK FALSE
