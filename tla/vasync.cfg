CONSTANTS
  Inputs = {a, b}
  Slots = {s1, s2, s3}
  MaxTurns = 3
  Paid = FALSE
  AsyncLaunch = TRUE
  Budgets <- CancelBudgets
SPECIFICATION Spec
CHECK_DEADLOCK FALSE
INVARIANTS OneExecution
SYMMETRY Symmetry
