CONSTANTS
  c1 = c1
  c2 = c2
  Callers <- MCCallers
  MaxAttempts = 5
  IdWidth = 3
  MaxCalls = 4
SYMMETRY MCSymmetry
SPECIFICATION Spec
INVARIANT RetryPolicy
PROPERTY ContractRefinement
CHECK_DEADLOCK FALSE
