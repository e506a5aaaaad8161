SPECIFICATION ClosingFairSpec
CONSTANTS
  p1 = p1
  p2 = p2
  p3 = p3
  Payment = {p1, p2}
  Payer <- MCPayer
  Amount <- MCClosingAmount
  Balance <- MCClosingBalance
  Reserve <- MCReserve
  HtlcMinimum <- MCHtlcMinimum
  MaxAccepted <- MCMaxAccepted
  MaxInFlight <- MCMaxInFlight
  BaseWeight = 1
  HtlcWeight = 1
  Feerate = {2}
  FeerateFloor = 1
  FeerateCeiling = 3
  InitialFeerate = 1
  MaxFeeUpdates = 1
  Resolutions = {"Fulfill"}
  MsatPerSat = 2
  TargetFee <- MCTargetFee
  MinFee = 6
  DustLimit <- MCDustLimit
  LegacyChoices = {{}, {"accepter"}, {"opener", "accepter"}}
CHECK_DEADLOCK FALSE
INVARIANTS
  FailuresHaveCauses
  ClosingTransactionIsRight
PROPERTIES
  ShutdownCompletes
