\* Two attempts to their review and every fault: a crash, failing writes, lock
\* timeouts, tampering children, an editor while the evidence is compared.
CONSTANTS
  None = None
  r1 = r1  r2 = r2  r3 = r3  r4 = r4
  a1 = a1  a2 = a2  p1 = p1  p2 = p2  k1 = k1  k2 = k2  w1 = w1
  Requests <- Pair
  Attempts = {a1, a2}
  Parents = {p1, p2}
  Keys = {k1, k2}
  Workspaces = {w1}
  AttemptOf <- MCAttemptOf
  ParentOf <- MCParentOf
  KeyOf <- MCKeyOf
  WorkspaceOf <- MCWorkspaceOf
  USDOf <- MCUSDOf
  BudgetOf <- MCBudgetOf
  Dispatchers = {d1}
  Processes = {d1, v1}
  Reviewers = {v1}
  Contents = {committed, edited}
  Base = committed
  Crashes = 1
  IOFailures = TRUE
  LockTimeouts = TRUE
  Tampering = TRUE
  MaxEdits = 1
SPECIFICATION System
INVARIANT ReviewSound
INVARIANT VerdictIntact
INVARIANT EventChain
PROPERTY VerifierInputsIntact
PROPERTY RefinesLifecycle
ACTION_CONSTRAINT EditsMeetReviews
\* The only dispatcher may have been killed.
CHECK_DEADLOCK FALSE
