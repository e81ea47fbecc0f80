\* Two requests, with and without an allowance, every write failing.
CONSTANTS
  Handlers = {h1, h2}
  Generations = {g1, g2}
  Allowances = {1, 2}
  MaxIds = 2
  Unbounded = Unbounded
  Absent = Absent
SPECIFICATION Spec
INVARIANT TypeOK
INVARIANT AllowanceRespected
INVARIANT ForwardedIsRecorded
INVARIANT CoverageSound
PROPERTY RecordsOnlyGrow
SYMMETRY RelaySymmetry
\* Once the process has exited nothing may be left to do.
CHECK_DEADLOCK FALSE
