SPECIFICATION FairSpec
CONSTANTS
  p1 = p1
  p2 = p2
  p3 = p3
  Payment = {p1, p2}
  Payer <- MCPayer
  Amount <- MCAmount
  Balance <- MCTightBalance
  Reserve <- MCReserve
  HtlcMinimum <- MCHtlcMinimum
  MaxAccepted <- MCMaxAccepted
  MaxInFlight <- MCMaxInFlight
  BaseWeight = 1
  HtlcWeight = 1
  Feerate = {1, 2}
  FeerateFloor = 1
  FeerateCeiling = 3
  InitialFeerate = 1
  MaxFeeUpdates = 2
  Resolutions = {"Fulfill", "FailMalformed"}
CHECK_DEADLOCK FALSE
INVARIANTS
  FeeChangesAreSafe
PROPERTIES
  ImplementsLiveLedger
