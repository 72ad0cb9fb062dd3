\* The goal fails under one set of constraints, and is asked under the other.
CONSTANTS
  Asks = {r1}
  Goals <- MCGoals
  Constraints = {c1, c2}
  Solutions = {a}
  Placeholders = {}
  NoSolution = NoSolution
  Threshold = 0
  CacheTtl = 1
  MaxEntries = 2
  Retention = 2
  StoreMayFail = FALSE
  MaxNow = 0
SPECIFICATION HistorySpec
PROPERTIES FailedGoalNeverServed
