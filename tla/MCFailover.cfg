\* Two concurrent runs, two usable providers and one that does not resolve.
CONSTANTS
  Runs = {r1, r2}
  Providers = {p1, p2, p3}
  Unusable = {p3}
  NoProvider = NoProvider
  RetryTokenCap = 3
  RetryCost = 2
  ReAskLimit = 1
SPECIFICATION Spec
SYMMETRY Symmetry
INVARIANTS TypeOK BreakerShape StreakBound CallBound
PROPERTIES OrphanOnlyByAbort OrphanForever
