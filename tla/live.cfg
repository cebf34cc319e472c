CONSTANTS
  Inputs = {a, b}
  Slots = {s1, s2, s3}
  MaxTurns = 3
  Paid = FALSE
  AsyncLaunch = FALSE
  Budgets <- LiveBudgets
SPECIFICATION FairSpec
CHECK_DEADLOCK FALSE
PROPERTIES QueueDrains SlotReleased ReplySaved
