\* A config is switched off while a retry of it is owed.
SPECIFICATION SystemSpec
CONSTANTS
  Null = Null
  c1 = c1
  c2 = c2
  t1 = t1
  t2 = t2
  t3 = t3
  Configs = {c1}
  Ticks = {t1, t2}
  InitRows <- OneRow
  MaxNow = 2
  MaxDispatchLimit = 2
  RetryMax = 2
  LocksOuterJoin = TRUE
  MayRollback = FALSE
  Bodies <- CarefulBodies
  JobBodies <- AllJobBodies
  Clients <- OneUpdate
SYMMETRY TickSymmetry
PROPERTIES OnlyEnabledLaunched
