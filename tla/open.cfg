SPECIFICATION FairSpec
CONSTANTS
  Configs <- Variants
  Terms <- MCTerms
  FeeratePerKw = 253
  Million = 10
  MsatPerSat = 10
  CommitmentWeight = 0
  MaxDisconnects = 2
  MayClose = {"opener", "accepter"}
CHECK_DEADLOCK FALSE
INVARIANTS
  FundingIsRefundable
  OpensSoundly
PROPERTIES
  ConfirmedChannelsOpen
