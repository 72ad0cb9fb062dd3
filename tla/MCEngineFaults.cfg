\* One run at a time over a store that may refuse any write, with restarts.
CONSTANTS
  Runs = {r1}
  Keys = {k1}
  Outputs = {a, b}
  NoOutput = NoOutput
  Similar <- Exact
  Rungs = 2
  Chains = {0, 2}
  ReAskLimit = 1
  CascadeLimit = 1
  LoopWindow = 2
  MaxFailures = 2
  StoreMayFail = TRUE
SPECIFICATION FairSpec
PROPERTY EveryRunReturns
