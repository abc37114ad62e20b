\* The timer fires while a job waits for its permit.
SPECIFICATION FairSpec
CONSTANTS
  j1 = j1
  j2 = j2
  j3 = j3
  r1 = r1
  r2 = r2
  Jobs = {j1, j2}
  Requests = {r1}
  Owner <- OneRequest
  MaxConcurrent = 1
  FaultSets = {{"timeout"}}
PROPERTIES EveryAttemptRecorded
