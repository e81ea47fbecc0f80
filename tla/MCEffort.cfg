\* Two importers of one session's windows.
CONSTANTS
  None = None
  Torn = Torn
  Importers = {i1, i2}
  Sources = {s1}
  IDs = {e1, e2, e3}
  MaxTime = 4
  MaxTotal = 2
  MaxObservations = 4
  ClockSteps = FALSE
SPECIFICATION Spec
INVARIANT NoDoubleAttribution
SYMMETRY Symmetries
\* Transcripts and clocks are bounded.
CHECK_DEADLOCK FALSE
