\* Termination of concurrent runs: no symmetry, since liveness is checked.
CONSTANTS
  Runs = {r1, r2}
  Providers = {p1, p2}
  Unusable = {}
  NoProvider = NoProvider
  RetryTokenCap = 2
  RetryCost = 2
  ReAskLimit = 1
SPECIFICATION FairSpec
PROPERTIES EveryRunSettles ProbeResolves
