CONSTANTS
  Inputs = {a, b}
  Slots = {s1, s2, s3}
  MaxTurns = 3
  Paid = FALSE
  AsyncLaunch = TRUE
  Budgets <- StopBudgets
SPECIFICATION Spec
CHECK_DEADLOCK FALSE
INVARIANTS SlotInv InputsStoredOnce QueueMatchesMessages OneReply ToolsReleased
PROPERTIES SlotSpec
SYMMETRY Symmetry
