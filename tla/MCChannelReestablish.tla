------------------------ MODULE MCChannelReestablish ------------------------
(* Instances of ChannelReestablish for TLC. *)
EXTENDS MCChannelDance, ChannelReestablish, ChannelLedger
=============================================================================
