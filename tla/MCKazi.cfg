\* Two bridges for one slot or for two, every loss and failing write.
CONSTANTS
  Bridges = {b1, b2}
  Limits = {1, 2}
  TotalTurns = 5
  TotalRequests = 3
  Artifacts = {none, generated}
  NoArtifacts = none
  NoOne = NoOne
  Torn = Torn
  Absent = Absent
SPECIFICATION LiveSpec
INVARIANT TypeOK
INVARIANT OneWorker
INVARIANT AllowanceKept
INVARIANT ReservedBeforeLaunch
INVARIANT GradedIsSettled
PROPERTY AuthorityEnds
PROPERTY GradedArtifacts
PROPERTY Returns
\* When everything has ended nothing is left to do.
CHECK_DEADLOCK FALSE
