\* Queries, classification, views, templates, behaviour, rules and agents.
CONSTANTS
  e1 = e1
  e2 = e2
  r1 = r1
  r2 = r2
  c1 = c1
  c2 = c2
  h1 = h1
  h2 = h2
  u1 = u1
  u2 = u2
  Tasks = {1, 2}
  Granted <- MCGranted
  Requests <- MCRequests
  Sockets = {s1}
  MaxGrantChanges = 1
  MaxQueryFaults = 1
  MaxQueryRestarts = 1
  PolicyFields = {"mail", "staff"}
  RuleBooks <- MCBooks
  FoundIn <- MCFound
  Detections = {1, 2}
  Reviewers = {r1, r2}
  MaxBooks = 3
  MaxReviews = 3
  MaxPolicyFaults = 1
  ViewFields <- MCFields
  ViewRows <- MCRows
  FallbackMask <- MCFallback
  StoredMasks <- MCStored
  FieldGrants <- MCGrants
  PageSize = 2
  Viewers = {v1}
  MaxViewChanges = 2
  MaxViewFaults = 1
  Templates = {t1, t2}
  Authors = {a1, a2}
  TemplateFields = {"c"}
  TemplateRequests = {h1, h2}
  MaxTemplateCalls = 4
  MaxTemplateFaults = 1
  MaxTemplateRestarts = 1
  MaxTemplateGrants = 1
  UebaUsers = {u1, u2}
  UebaProjects = {"p1", "p2"}
  TenantOf <- MCTenantOf
  SignalKinds = {"query", "denied", "export", "late", "dns", "http"}
  EarlierSignals <- MCEarlier
  MaxUebaEvents = 6
  MaxUebaFaults = 1
  MaxUebaRestarts = 1
  Editors = {e1, e2}
  RuleNames <- MCNames
  Activities <- MCActivities
  DefaultThreshold <- MCDefault
  Thresholds = {2}
  Targets = {0, 1}
  MaxRuleVersions = 2
  MaxRuleRequests = 3
  MaxRuleFaults = 1
  Agents = {g1}
  McpUsers = {u1}
  Registrations <- MCRegistrations
  MinuteTicks = 2
  HourTicks = 4
  McpCalls = {c1, c2}
  MaxMcpCalls = 4
  MaxMcpTicks = 5
  MaxRegistrations = 1
SPECIFICATION MCSpec
INVARIANTS
  ResultsGenuine
  ViewsHonest
  TemplatesHold
  DetectionsHold
  RulesSound
  RateHolds
PROPERTY
  PoliciesHold
CHECK_DEADLOCK FALSE
