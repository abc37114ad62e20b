\* Two tables, three requests on three rows, two names and the empty one.
SPECIFICATION Spec
CONSTANTS
  i1 = i1
  i2 = i2
  i3 = i3
  a = a
  b = b
  q1 = q1
  q2 = q2
  q3 = q3
  Empty = Empty
  NoRow = NoRow
  Tables = {"schedule_configs", "system_configs"}
  Ids = {i1, i2, i3}
  NameSet = {a, b, Empty}
  Requests = {q1, q2, q3}
SYMMETRY Symmetry
INVARIANTS TypeOK UniqueNames SerialNamesUnique ConflictNeedsOverlap
