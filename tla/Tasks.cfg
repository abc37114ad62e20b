\* Three jobs on two permits, everything that may go wrong, and five deployments.
SPECIFICATION Spec
CONSTANTS
  j1 = j1
  j2 = j2
  j3 = j3
  r1 = r1
  NoMeta = NoMeta
  Jobs = {j1, j2, j3}
  Requests = {r1}
  Owner <- OneRequest
  MaxConcurrent = 2
  FaultSets = {{"timeout", "abort", "writeError", "hang", "swallow", "selfCancel", "delete"}}
  TaskNames <- Keys
  Layouts <- Deployments
  Assignments <- Asked
SYMMETRY JobSymmetry
INVARIANTS TypeOK UpMeansComplete RestartFails SpecsMatchDeclarations SuccessMeansRan HopelessNotRetried OwnLabel
