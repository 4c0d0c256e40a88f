SPECIFICATION Spec
CONSTANTS
  Profiles = {1, 2, 3}
  Graphs <- MCGraphs
  MaxDepth = 2
  MaxVisits = 2
  MaxEdits = 1
  MaxRuns = 2
  Absent = Absent
  Prohibited = Prohibited
INVARIANTS ResolvedExactly ConvertedAtOnce SnapshotCoversCbor
PROPERTY CleansUp
CHECK_DEADLOCK FALSE
