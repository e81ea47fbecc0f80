\* Two calls; the token budget ends some runs before the call budget.
CONSTANTS
  None = None
  Contents = {c0, c1}
  MaxCalls = 2
  MaxTokens = 10
  MaxOutputTokens = 2
  MaxContext = 6
  MaxBatch = 2
  MaxOverrun = 1
  MaxStrays = 1
SPECIFICATION Spec
INVARIANT TypeOK
INVARIANT AcceptedIsJudged
INVARIANT BilledWithinBudget
INVARIANT UsageAccounted
PROPERTY Returns
