CONSTANTS
  Inputs = {a, b, c}
  Slots = {s1, s2, s3}
  MaxTurns = 3
  Paid = FALSE
  AsyncLaunch = FALSE
  Budgets <- QueueBudgets
SPECIFICATION Spec
CHECK_DEADLOCK FALSE
INVARIANTS NothingDropped
SYMMETRY Symmetry
