\* One config, three runs; clients change configs and delete, or edit jobs.
SPECIFICATION SystemSpec
CONSTANTS
  Null = Null
  c1 = c1
  c2 = c2
  t1 = t1
  t2 = t2
  t3 = t3
  Configs = {c1}
  Ticks = {t1, t2, t3}
  InitRows <- OneRow
  MaxNow = 2
  MaxDispatchLimit = 2
  RetryMax = 2
  LocksOuterJoin = TRUE
  MayRollback = FALSE
  Bodies <- AllBodies
  JobBodies <- AllJobBodies
  Clients <- Worlds
SYMMETRY TickSymmetry
INVARIANTS OneExecutionUnlessEdited AttemptsBoundedUnlessEdited PostedNeverRun NullMeansNoTrigger NoLockWaitsUnlessEdited
PROPERTIES StartedWhenDue RelaunchReadable JobLifeUnlessEdited
