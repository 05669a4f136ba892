CONSTANTS
  hosts = hosts
  more = more
  direct = direct
  custom = custom
  ads = ads
  wwwads = wwwads
  shop = shop
  other = other
  None = None
  Customs <- MCCustoms
  Builtins <- MCBuiltins
  DefaultOn <- MCDefaultOn
  Versions <- MCVersions
  Body <- MCBody
  Parents <- MCParents
  Edits <- MCEdits
  Budgets <- MCBudgets
SPECIFICATION FairSpec
INVARIANTS TypeOK BuiltinsFirst SurvivesCrash StatusAgrees
PROPERTIES CacheOnlyAdvances Settles
CHECK_DEADLOCK FALSE
