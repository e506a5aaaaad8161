SPECIFICATION Spec
CONSTANTS
  Dialable <- MCDialable
  KEY_ROTATION_INTERVAL = 2
  Limit <- MCLimit
  MaxDamage = 1
CHECK_DEADLOCK FALSE
INVARIANTS
  StreamIsAuthentic
  NoncesAreFresh
  NothingIsStuck
