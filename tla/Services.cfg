SPECIFICATION Spec
CONSTANTS
  Askers = {1, 2, 3}
  MaxAttempts = 2
  Lockout = 2
  SlowestHash = 1
  Turns = {1, 2, 3}
  CaseIds = {"a", "b"}
  MaxSteps = 1
  NoCase = NoCase
  Asks <- MCAsks
  TrailStores = {"memory", "mongodb"}
  Correlations = {"a", "b"}
  Limits = {2}
  MaxRecords = 3
  MaxTampering = 1
  Refs = {"a", "b"}
  Pairs = {"p"}
  KeyNames = {"k"}
  Hashes = {"x", "y"}
  Nothing = Nothing
  MaxCalls = 4
  Ttl = 2
  Verifiers = {1, 2}
  CacheTtl = 1
  Stale = 2
  SlowestFetch = 1
  MaxRotations = 1
  Senders = {1, 2, 3}
  Margin = 2
  Shortest = 2
  Lifetimes = {1, 2, 5}
  SlowestGrant = 1
  Identities = {1, 2}
  Burst = 2
  Parts = 2
  MaxTracked = 1
  Subjects = {1, 2}
  Actions = {1, 2, 3}
  Allowance = 2
  BudgetWindow = 2
  SlowestWrite = 1
  MaxSubjects = 1
  ClientCalls = {1}
  ClientKeys = {"k"}
  MaxRetries = 3
  Accounts = {"cx1", "cx2"}
  Asked = "cx1"
  Agent = "agent"
  Machine = "robot"
  Tenants = {"t1", "t2"}
  Missing = "missing"
  Tools = {"t", "u"}
  MadeUp = {"x"}
  Codes = {"a", "b"}
  Edges <- MCEdges
  Times = {0, 2, 4}
  MaxSeries = 3
  MinSample = 2
  AtLeastPart <- MCAtLeastPart
  AtMostTime = 2
  Phi <- MCPhi
  MaxReported = 3
  MaxDepth = 2
  MaxItems = 2
  MaxArgumentDepth = 2
  MaxArgumentWidth = 2
  Horizon = 1
  Ceiling = 1
  Policies <- MCPolicies
  Calls <- MCCalls
  Refused <- MCRefused
  Rows <- MCRows
  NoPayload = NoPayload
  MaxDays = 1
  Ledgers <- MCLedgers
  Requests <- MCRequests
  AnyInvoice = AnyInvoice
  NoRecord = NoRecord
  Repeats = 1
  MaxAsked = 2
  ToolsSettings <- MCToolsSettings
  ApiSettings <- MCApiSettings
INVARIANTS
  TypesOK
  LockoutHolds
  TurnsAddUp
  VerdictIsExact
  StoresAgree
  CredentialsHold
  GuardsHold
  OutcomesAreTrue
  GatesHold
  ReportIsTrue
  ScreensHold
  AnswersMeanWhatTheySay
PROPERTY DeploymentHolds
CHECK_DEADLOCK FALSE
