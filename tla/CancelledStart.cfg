CONSTANTS
  Utuns = {u1, u2}
  None = None
  OriginalForwarding = FALSE
  Slots = {1, 2, 3}
  DhcpEnabled = FALSE
  NatPmpEnabled = FALSE
  DropStrategy = "WaitWithTimeout"
  Budgets <- CancelledBudgets
SPECIFICATION Spec
SYMMETRY Symmetry
INVARIANTS ForwardingRestored
CHECK_DEADLOCK FALSE
