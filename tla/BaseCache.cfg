SPECIFICATION CacheSpec
CONSTANTS
  Procs = {p1, p2}
  Builds = {a, b}
  MaxRuns = 3
INVARIANT CachedIsItsContent
CHECK_DEADLOCK FALSE
