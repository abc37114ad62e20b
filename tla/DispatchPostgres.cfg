\* PostgreSQL rejects the retry query.
SPECIFICATION Spec
CONSTANTS
  Null = Null
  c1 = c1
  c2 = c2
  t1 = t1
  t2 = t2
  t3 = t3
  Configs = {c1}
  Ticks = {t1, t2}
  InitRows <- GoodRows
  MaxNow = 2
  MaxDispatchLimit = 2
  RetryMax = 2
  LocksOuterJoin = FALSE
  MayRollback = FALSE
SYMMETRY TickSymmetry
INVARIANTS RetryQueryRuns
