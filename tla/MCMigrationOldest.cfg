\* One process opens a file that has failure_memory without goal_hash.
CONSTANTS
  Openers = {p1}
  Layouts <- MCLayouts
  OldTasks = {t1}
SPECIFICATION MigrationSpec
INVARIANT EveryLayoutOpens
