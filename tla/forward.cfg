SPECIFICATION FairSpec
CONSTANTS
  a = a b = b c = c d = d p1 = p1 p2 = p2 p3 = p3
  Node = {a, b, c, d}
  Payment = {p1, p2, p3}
  Path <- MCPath
  Hash <- MCHash
  Onions <- MCOnions
  InvoiceAmount <- MCInvoices
  Balance <- MCBalance
  FeeBase = 0
  FeeProportional = 500000
  CltvExpiryDelta = 2
  MinFinalCltv = 1
  MaxHeight = 1
  MaxAttempts = 2
  MaxDisconnects = 1
CHECK_DEADLOCK FALSE
INVARIANTS
  PaymentIsAtomic
PROPERTIES
  ForwardingEarnsFee
  EveryPaymentEnds
  HopsKeepLedger
