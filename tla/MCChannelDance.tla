--------------------------- MODULE MCChannelDance ---------------------------
(* Instances of ChannelDance for TLC.  Amounts, reserves and weights are       *)
(* small numbers in one unit.                                                  *)
EXTENDS ChannelDance

CONSTANTS p1, p2, p3

\* p2 is a payment of the accepter.  The opener can afford both of its own,
\* but not while it also carries the fee of p2: the holding cell refuses one.
MCPayer == [p \in Payment |-> IF p = p2 THEN "accepter" ELSE "opener"]
MCAmount == [p \in Payment |-> IF p = p1 THEN 4 ELSE 3]
MCBalance == [n \in Party |-> IF n = "opener" THEN 12 ELSE 5]

\* All payments go to an opener that has little more than its reserve.
MCAccepterPays == [p \in Payment |-> "accepter"]
MCLowBalance == [n \in Party |-> IF n = "opener" THEN 4 ELSE 12]

\* The accepter can pay p2 only with what p1 brings it.
MCTightBalance == [n \in Party |-> IF n = "opener" THEN 13 ELSE 1]

MCReserve == [n \in Party |-> 1]
MCHtlcMinimum == [n \in Party |-> 1]
MCOneAccepted == [n \in Party |-> 1]
MCMaxAccepted == [n \in Party |-> 3]
MCMaxInFlight == [n \in Party |-> 10]
=============================================================================
