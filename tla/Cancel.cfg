CONSTANTS
  Utuns = {u1, u2}
  None = None
  OriginalForwarding = FALSE
  Slots = {1, 2, 3}
  DhcpEnabled = TRUE
  NatPmpEnabled = FALSE
  DropStrategy = "WaitWithTimeout"
  Budgets <- CancelBudgets
SPECIFICATION Spec
SYMMETRY Symmetry
INVARIANTS TypeOK RulesHaveOwner PendingHasTask
CHECK_DEADLOCK FALSE
