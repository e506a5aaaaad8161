SPECIFICATION FairSpec
CONSTANTS
  a = a
  b = b
  Node = {a, b}
  Conn = {1, 2}
  MaxUpdates = 1
  Ignores = FALSE
CHECK_DEADLOCK FALSE
INVARIANTS
  SendingIsSound
PROPERTIES
  ConnectionBecomesReady
