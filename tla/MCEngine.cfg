\* Two concurrent runs of one goal under the same constraints.
CONSTANTS
  Runs = {r1, r2}
  Keys = {k1}
  Outputs = {a, b}
  NoOutput = NoOutput
  Similar <- Exact
  Rungs = 2
  Chains = {0, 2}
  ReAskLimit = 0
  CascadeLimit = 0
  LoopWindow = 2
  MaxFailures = 1
  StoreMayFail = FALSE
SPECIFICATION Spec
SYMMETRY Symmetry
INVARIANTS TypeOK
PROPERTIES LoopLocksGoal FollowsLifecycle
