\* One run, two providers, a retry budget for one failover.
CONSTANTS
  Runs = {r1}
  Providers = {p1, p2}
  Unusable = {}
  NoProvider = NoProvider
  RetryTokenCap = 2
  RetryCost = 2
  ReAskLimit = 0
SPECIFICATION Spec
INVARIANT ProbeInProgress
