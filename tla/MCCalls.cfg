\* Each component on its own small instance; see Init.
CONSTANTS
  Policy <- MCPolicy
  TokenBands = {600, 601, 2251}
  NoTask = NoTask
  Samples <- MCSamples
  Expected = {"PATCH", "ASK", ""}
  States <- MCStates
  Writings <- MCWritings
  Executions <- MCExecutions
  Thresholds = {0, 30, 60}
  Rivals <- MCRivals
  MaxItems = 2
  NoRun = NoRun
  NoReport = NoReport
  Names = {1, 2, 3}
  NoName = 0
  Order <- MCOrder
  MaxRules = 2
  Chain <- MCChain
  Rank <- MCRank
  Costs = {0, 2, 3}
  MaxCost = 2
  Latencies = {0}
  Failures = {0, 5}
  Pressures = {0, 10}
  Weights = {5, 15}
  Alpha = 2
  Beta = 1
  Callers = {k1, k2}
  Arms = {a1, a2}
  NoArm = NoArm
  MaxCalls = 2
  MaxStarts = 1
  Profiles = {n1, n2}
  Limit = 2
  Hints = {0, 1}
  NoHint = 99
  Keys = {"sk"}
  Values = {"pw"}
  Addresses = {"10.0.0.1", "127.0.0.1"}
  Benign = {"127.0.0.1"}
  Words = {"k1"}
  Placeholders <- MCPlaceholders
  MaxTokens = 4
  Documents <- MCDocuments
  Leads = {0, 1}
  MaxDepth = 2
  Atoms = {"(", ")", "x"}
  Literals <- MCLiterals
  MaxPieces = 3
  MaxHashes = 2
  CheckedRoutes = {"PATCH", "IMPLEMENT"}
  Facts <- MCFacts
  TestCommand = "test"
  RouteCommands <- MCRouteCommands
  Scores = {110}
  NoCommand = NoCommand
  NaN = NaN
  Alphabet = {"a", "b"}
  Width = 2
  MaxPattern = 5
  MaxText = 5
  MaxSymbols = 6
  Budget = 2
  MaxCount = 4
  BraceLines <- MCBraceLines
  IndentLines <- MCIndentLines
  MaxLines = 4
  Window = 3
  Lookahead = 1
  Requests = {q1, q2}
  Blank = Blank
  NoRequest = NoRequest
  MaxRuns = 3
  MayPanic = TRUE
SPECIFICATION Spec
INVARIANTS ChainIsComplete  BudgetHolds EvidenceHolds SameVerdict HiddenAndRestorable
           CountsCodeOnly WordsAgreeWithTable FindsLargest OneRunAtATime PanelsAgree DeclarationsCovered
PROPERTIES BadNewsIsFree WalkEnds ClosesWhatWasOpened
CHECK_DEADLOCK FALSE
