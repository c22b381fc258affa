\* Sessions, logins under a change of the account, synchronisation, and the
\* rotation of credentials.
CONSTANTS
  alice = alice
  bob = bob
  l1 = l1
  l2 = l2
  Users = {alice, bob}
  Owner <- MCOwner
  SsoLogins = {l2}
  Verifies = {v1, v2}
  Refreshes = {f1, f2}
  Signals <- MCSignals
  MaxLogins = 1
  MaxTokens = 3
  MaxRestarts = 1
  MaxSaves = 2
  MaxSaveFaults = 1
  Groups = {g1}
  Jobs = {j1, j2}
  Policies <- MCPolicies
  MaxJobs = 2
  MaxProviderSteps = 1
  Keys = {k1, k2}
  Runners = {job, admin}
  RetryLimit = 2
  MaxVersions = 3
  MaxCycles = 2
  MaxRotationFaults = 2
  MaxRotationRestarts = 1
SPECIFICATION MCSpec
INVARIANTS
  DirectoryFollowed
  SecretsInStep
PROPERTY
  SessionsSound
SYMMETRY Symmetry
CHECK_DEADLOCK FALSE
