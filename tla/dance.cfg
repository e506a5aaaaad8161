SPECIFICATION FairSpec
CONSTANTS
  p1 = p1
  p2 = p2
  p3 = p3
  Payment = {p1, p2, p3}
  Payer <- MCPayer
  Amount <- MCAmount
  Balance <- MCBalance
  Reserve <- MCReserve
  HtlcMinimum <- MCHtlcMinimum
  MaxAccepted <- MCMaxAccepted
  MaxInFlight <- MCMaxInFlight
  BaseWeight = 1
  HtlcWeight = 1
  Feerate = {1}
  FeerateFloor = 1
  FeerateCeiling = 3
  InitialFeerate = 1
  MaxFeeUpdates = 0
  Resolutions = {"Fulfill", "Fail"}
CHECK_DEADLOCK FALSE
INVARIANTS
  NoFailure
  RevocationInv
  PublishableIsOnRecord
  FundsAreConserved
  ForwardableIsIrrevocable
  CleanMeansSigned
PROPERTIES
  ImplementsLedger
  Converges
