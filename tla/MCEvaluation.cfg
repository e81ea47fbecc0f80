\* An attempt and its repair.
CONSTANTS
  None = None
  Torn = Torn
  Attempts = {1, 2}
  Parent <- MCParent
  Contents = {c0, c1, c2}
  Base = c0
  MaxFaults = 1
  MaxMeddling = 1
  Reviewers = {v1}
  Importers = {i1}
  LandingIDs = {l1, l2}
  MaxReviews = 2
  MaxMoves = 1
SPECIFICATION MCSpec
INVARIANT TypeOK
INVARIANT EvidenceSound
INVARIANT CountedIsCurrent
INVARIANT DeliverySound
PROPERTY LedgerAppendOnly
SYMMETRY Symmetries
CHECK_DEADLOCK FALSE
