CONSTANTS
  hosts = hosts
  more = more
  direct = direct
  custom = custom
  ads = ads
  wwwads = wwwads
  shop = shop
  other = other
  None = None
  Customs <- MCCustoms
  Builtins <- MCBuiltins
  DefaultOn <- MCDefaultOn
  Versions <- MCVersions
  Body <- MCBody
  Parents <- MCParents
  Edits <- MCEdits
  Budgets <- SwitchBudgets
SPECIFICATION Spec
INVARIANTS SwitchedOnIsServed
CHECK_DEADLOCK FALSE
