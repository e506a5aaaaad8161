-------------------------- MODULE MCChannelLedger --------------------------
(* Instances of ChannelLedger: those of ChannelDance. *)
EXTENDS MCChannelDance, ChannelLedger
=============================================================================
