--------------------------- MODULE MCChannelClose ---------------------------
(* Instances of ChannelClose for TLC.  Two units of a balance make a satoshi,  *)
(* so that balances round down.                                                *)
EXTENDS MCChannelDance, ChannelClose

\* The opener can pay the lowest fee at first and with p2, but not after p1 alone.
MCClosingAmount == [p \in Payment |-> IF p = p1 THEN 6 ELSE 3]
MCClosingBalance == [n \in Party |-> IF n = "opener" THEN 16 ELSE 5]

\* The opener's balance limits its range; the accepter aims higher.
MCTargetFee == [n \in Party |-> IF n = "opener" THEN 6 ELSE 9]

\* An output of one satoshi is dust to the accepter only.
MCDustLimit == [n \in Party |-> IF n = "opener" THEN 1 ELSE 2]
=============================================================================
