SPECIFICATION MonitorSpec
CONSTANTS
  p1 = p1
  p2 = p2
  p3 = p3
  Payment = {p1, p2}
  Watchers = {"accepter"}
  Closers = {"opener"}
  Backups = TRUE
  Payer <- MCPayer
  Amount <- MCAmount
  Balance <- MCBalance
  Reserve <- MCReserve
  HtlcMinimum <- MCHtlcMinimum
  MaxAccepted <- MCMaxAccepted
  MaxInFlight <- MCMaxInFlight
  BaseWeight = 1
  HtlcWeight = 1
  Feerate = {1}
  FeerateFloor = 1
  FeerateCeiling = 3
  InitialFeerate = 1
  MaxFeeUpdates = 0
  Resolutions = {"Fulfill", "Fail"}
INVARIANTS
  RevokedIsPunished
  NeverPunishesUnrevoked
  WhatIsOursIsClaimed
CHECK_DEADLOCK FALSE
