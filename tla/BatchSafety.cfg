\* Two requests in one process, two jobs on one permit beside a third job.
SPECIFICATION FairSpec
CONSTANTS
  j1 = j1
  j2 = j2
  j3 = j3
  r1 = r1
  r2 = r2
  Jobs = {j1, j2, j3}
  Requests = {r1, r2}
  Owner <- TwoRequests
  MaxConcurrent = 1
  FaultSets <- Worlds
INVARIANTS TypeOK CompletedMeansRecorded NobodyStranded
PROPERTIES ExecutionsSpec NoStartAfterTimeout RequestAnswers RecordedUnlessOwnWriteFails OthersDoNotStarve
