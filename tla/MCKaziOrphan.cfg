\* The instance of MCKazi.cfg.
CONSTANTS
  Bridges = {b1, b2}
  Limits = {1, 2}
  TotalTurns = 5
  TotalRequests = 3
  Artifacts = {none, generated}
  NoArtifacts = none
  NoOne = NoOne
  Torn = Torn
  Absent = Absent
SPECIFICATION Spec
INVARIANT NoWorkerOutlivesParent
CHECK_DEADLOCK FALSE
