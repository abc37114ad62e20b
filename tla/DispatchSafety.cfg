\* Two configs, three runs that overlap, three instants.
SPECIFICATION Spec
CONSTANTS
  Null = Null
  c1 = c1
  c2 = c2
  t1 = t1
  t2 = t2
  t3 = t3
  Configs = {c1, c2}
  Ticks = {t1, t2, t3}
  InitRows <- AnyRows
  MaxNow = 2
  MaxDispatchLimit = 2
  RetryMax = 2
  LocksOuterJoin = TRUE
  MayRollback = TRUE
SYMMETRY Symmetry
INVARIANTS TypeOK OneExecution AttemptsBounded FreshOrRetry NoLockWaits
PROPERTIES DispatchedWhenDue RunsAdvance JobLifeSpec
