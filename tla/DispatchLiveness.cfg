\* Locks are released and owed retries are served.
SPECIFICATION FairSpec
CONSTANTS
  Null = Null
  c1 = c1
  c2 = c2
  t1 = t1
  t2 = t2
  t3 = t3
  Configs = {c1, c2}
  Ticks = {t1, t2, t3}
  InitRows <- SmallRows
  MaxNow = 1
  MaxDispatchLimit = 2
  RetryMax = 2
  LocksOuterJoin = TRUE
  MayRollback = FALSE
PROPERTIES TickEnds RetryServed
