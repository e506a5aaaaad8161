SPECIFICATION Spec
SYMMETRY Symmetry
CONSTANTS
  Payer = 0
  Payee = 3
  Problems <- MCProblems
  Million = 1000
  BasePenalty = 5
  CltvPenalty = 1
  Bits = 4
  Seeds = {"kept", "other"}
  Honest = "kept"
  Inputs <- MCInputs
  Node = {n1, n2, n3, n4}
  MaxHops = 4
  PayloadLens = {2, 3}
  PAYLOADS_LEN = 25
  WideLen = 3
CHECK_DEADLOCK FALSE
INVARIANTS
  RouteIsPayable
  RouteIsBest
  SecretsAreKept
  CommitmentsFit
  OnionIsRead
