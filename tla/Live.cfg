CONSTANTS
  Utuns = {u1, u2}
  None = None
  OriginalForwarding = FALSE
  Slots = {1, 2}
  DhcpEnabled = FALSE
  NatPmpEnabled = TRUE
  DropStrategy = "AutoStop"
  Budgets <- LiveBudgets
SPECIFICATION FairSpec
INVARIANTS RulesFollowUpstream
PROPERTIES SwapConverges DownStops PendingEnds StartSettles
CHECK_DEADLOCK FALSE
