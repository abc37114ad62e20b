\* A config stored with interval_seconds = 0.
SPECIFICATION Spec
CONSTANTS
  Null = Null
  c1 = c1
  c2 = c2
  t1 = t1
  t2 = t2
  t3 = t3
  Configs = {c1}
  Ticks = {t1, t2}
  InitRows <- AnyRows
  MaxNow = 2
  MaxDispatchLimit = 2
  RetryMax = 2
  LocksOuterJoin = TRUE
  MayRollback = FALSE
SYMMETRY TickSymmetry
INVARIANTS SentinelRuns
