\* Encrypted snapshots, the audit trail and evidence packages.
CONSTANTS
  Snaps = {1, 2}
  Deks = {1, 2, 3, 4, 5, 6, 7, 8}
  KmsProviders = {"vault", "aws"}
  VaultUsers = {u1}
  RotationCycles = {job, adm}
  RuntimeCycle = job
  BatchLimit = 1
  DekDays = 1
  KekDays = 2
  MaxDays = 1
  MaxVaultCalls = 2
  MaxVaultFaults = 1
  MaxVaultRestarts = 1
  Writers = {w1, w2}
  AuditKinds = {"query", "deletion"}
  RetentionDays <- MCRetention
  ArchiveAfter = 1
  Forwarders = {"disabled", "webhook", "kafka", "syslog"}
  MaxEvents = 3
  MaxAuditDays = 2
  MaxAuditFaults = 1
  MaxAuditRestarts = 1
  ExportCalls = {c1, c2}
  ExportUsers = {u1}
  ExportProjects = {"p1", "p2"}
  NoProject = "none"
  NoExport = nil
  ExportTaskIds = {t1}
  DownloadTokens = {k1}
  TsaProvider = "rfc3161"
  AnchorProvider = "ethereum"
  MaxLedger = 4
  MaxExportFaults = 1
  MaxExportRestarts = 1
SPECIFICATION MCSpec
INVARIANTS
  SnapshotsReadable
  PurgedIsGone
  ChainIntact
  KeptUntilDeadline
  ExportsSound
SYMMETRY Symmetry
CHECK_DEADLOCK FALSE
