\* Each component on its own small instance; r1 and r2 act in all of them.
CONSTANTS
  Asks = {r1, r2}
  Goals <- MCGoals
  Constraints = {c1}
  Solutions = {a, m}
  Placeholders = {m}
  NoSolution = NoSolution
  Threshold = 50
  CacheTtl = 0
  MaxEntries = 2
  Retention = 1
  StoreMayFail = TRUE
  MaxNow = 1
  Spenders = {r1, r2}
  Routes = {a, b}
  MaxPrice = 1
  DailyLimit = 1
  MonthlyLimit = 2
  DayLength = 1
  MonthLength = 2
  RetentionTime = 2
  DaysShown = 2
  MaxClock = 3
  MaxRows = 3
  MaxLegs = 1
  Openers = {r1, r2}
  Layouts <- MCLayouts
  OldTasks = {t1}
  Writers = {r1, r2}
  Payloads = {p}
  NoFile = NoFile
  TraceRetention = 1
  LastDay = 2
  Indexers = {r1, r2}
  Files = {f}
  Texts = {a, b, bin}
  Short = {a, b}
  Binary = {bin}
  NoText = NoText
  NoStamp = NoStamp
  LastSecond = 2
SPECIFICATION Spec
SYMMETRY Symmetry
INVARIANTS StorageTypeOK HoldsTrusted SpendGuardHolds ReportsAgree LayoutIsHonest
           JournalBacked IndexIsSound
PROPERTIES ServedBest
CHECK_DEADLOCK FALSE
