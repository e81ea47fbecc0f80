\* A wait for the journal lock that exhausts its budget.
CONSTANTS
  None = None
  r1 = r1  r2 = r2  r3 = r3  r4 = r4
  a1 = a1  a2 = a2  p1 = p1  p2 = p2  k1 = k1  k2 = k2  w1 = w1
  Requests <- Pair
  Attempts = {a1, a2}
  Parents = {p1, p2}
  Keys = {k1, k2}
  Workspaces = {w1}
  AttemptOf <- MCAttemptOf
  ParentOf <- MCParentOf
  KeyOf <- MCKeyOf
  WorkspaceOf <- MCWorkspaceOf
  USDOf <- MCUSDOf
  BudgetOf <- MCBudgetOf
  Dispatchers = {d1, d2}
  Processes = {d1, d2}
  Contents = {committed, edited}
  Base = committed
  Crashes = 0
  IOFailures = FALSE
  LockTimeouts = TRUE
  Tampering = FALSE
  MaxEdits = 0
SPECIFICATION Spec
INVARIANT NoAbandonedRunning
