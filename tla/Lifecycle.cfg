CONSTANTS
  Utuns = {u1, u2}
  None = None
  OriginalForwarding = FALSE
  Slots = {1, 2}
  DhcpEnabled = TRUE
  NatPmpEnabled = TRUE
  DropStrategy = "WaitWithTimeout"
  Budgets <- LifecycleBudgets
SPECIFICATION Spec
SYMMETRY Symmetry
INVARIANTS OriginalRemembered ActiveIsServed ForwardingRestored
PROPERTIES ImplementsLease RulesStayLoaded
CHECK_DEADLOCK FALSE
