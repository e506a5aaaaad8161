------------------------------ MODULE MCGossip ------------------------------
EXTENDS Gossip

MCChannel == {<<1, 2>>}

\* The third node hears of the channel from one end, or from both.
MCTopologies == {{{1, 2}, {2, 3}}, {{1, 2}, {2, 3}, {1, 3}}}
=============================================================================
