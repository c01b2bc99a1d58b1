SPECIFICATION MCSpec
CONSTANTS
  Scale = 2
  Tenants = {t1}
  QuotaPerDay = 2
  CostBudget = 7
  EstCost = 1
  YearLength = 3
  MaxDay = 4
  SLATarget = 80
  CriticalThreshold = 50
  WarningThreshold = 70
  HealthyThreshold = 80
  MinReplicas = 1
  MaxReplicas = 3
  Cooldown = 2
  MaxOutcomes = 7
  Recorders = {r1, r2}
  Payloads = {a}
  Altered = x
  KIDs = {k1, k2}
  MaxEntries = 3
  MaxLedgerEvents = 2
  Posters = {p1, p2}
  Actions = {s}
  Sensitive = {s}
  CaptureModes = {"redacted"}
  HumanLabels = {"approve", "edit"}
  MaxReceipts = 3
  MaxPosts = 2
  MaxDatasetFaults = 2
  McpCallers = {c1, c2}
  MaxToolRetries = 1
  MaxMcpCalls = 3
  CostModels = {1, 2}
  CostNamespaces = {n1}
  NoNamespace = n0
  MaxSpend = 2
  ViewTTL = 2
  Pinned = TRUE
  MaxViewTime = 4
  MaxViewed = 2
  Requests = {r1, r2}
  WebUsers = {alice, bob}
  MaxWebEvents = 3
  SnapRuns = {r1, r2}
  MaxSnapEvents = 2
  Admissions = {p1, p2}
  EnforcementMode = "best-effort"
  ReadinessTTL = 2
  WebhookTimeout = 1
  MaxSandboxTime = 3
  MaxSandboxEvents = 2
  SandboxPods = {p1, p2}
  MaxStatusFaults = 2
  MaxProbeFaults = 2
INVARIANTS
  DecisionIsSound LedgerIsSound DatasetIsSound VerdictMeansWhole
  CreateIsRetrySafe VerifiedIsCurrent DecidedByItsUser SnapshotIsSound
  EnforcedWasSeen EnforcingWasSeen
PROPERTIES
  LayersOnlyTighten QuotaIsExact SLAIsSound CostAnswerIsHonest ReadinessIsRecent
CHECK_DEADLOCK FALSE
