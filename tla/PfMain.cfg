CONSTANTS
  utun1 = utun1
  utun2 = utun2
  en0 = en0
  en5 = en5
  None = None
  Interfaces = {utun1, utun2, en0, en5}
  Settings <- MCSettings
  Foreign <- MCForeign
  ForeignLines <- MCForeignLines
  DefaultConf <- Apple
  Budgets <- MCBudgets
SPECIFICATION Spec
INVARIANTS OthersAreKept MergeStands ResultIsSeen
CHECK_DEADLOCK FALSE
