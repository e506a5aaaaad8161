SPECIFICATION ReestablishFairSpec
CONSTANTS
  p1 = p1
  p2 = p2
  p3 = p3
  Payment = {p1, p2}
  Payer <- MCPayer
  Amount <- MCAmount
  Balance <- MCBalance
  Reserve <- MCReserve
  HtlcMinimum <- MCHtlcMinimum
  MaxAccepted <- MCMaxAccepted
  MaxInFlight <- MCMaxInFlight
  BaseWeight = 1
  HtlcWeight = 1
  Feerate = {2}
  FeerateFloor = 1
  FeerateCeiling = 3
  InitialFeerate = 1
  MaxFeeUpdates = 1
  Resolutions = {"Fulfill", "Fail"}
  MaxDisconnects = 2
  CallsIn = {"synced"}
CHECK_DEADLOCK FALSE
INVARIANTS
  ReestablishAccepted
  RollbackIsSafe
PROPERTIES
  ImplementsLedger
  LonePaymentSettles
