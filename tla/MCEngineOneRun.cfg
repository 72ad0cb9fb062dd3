\* One run at a time, with restarts between any two steps.
CONSTANTS
  Runs = {r1}
  Keys = {k1, k2}
  Outputs = {a, b, c, d}
  NoOutput = NoOutput
  Similar <- Exact
  Rungs = 3
  Chains = {0, 3}
  ReAskLimit = 1
  CascadeLimit = 1
  LoopWindow = 3
  MaxFailures = 2
  StoreMayFail = FALSE
SPECIFICATION Spec
SYMMETRY Symmetry
INVARIANTS AttemptLedger DetectorAgrees NoPaidRepeat
PROPERTIES LoopAbortKept SuccessForgives
