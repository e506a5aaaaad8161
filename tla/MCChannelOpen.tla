---------------------------- MODULE MCChannelOpen ----------------------------
(***************************************************************************)
(* Instances of ChannelOpen.  With Million = 10 and MsatPerSat = 10 the    *)
(* default configuration of the code keeps its proportions: a reserve of a *)
(* tenth of the capacity here, all of the capacity in flight.              *)
(***************************************************************************)
EXTENDS ChannelOpen

Default ==
  [network |-> "regtest", accept_inbound |-> TRUE, dust_limit_sat |-> 3, reserve_ppm |-> 1,
   htlc_minimum_msat |-> 1, to_self_delay |-> 144, max_accepted_htlcs |-> 50,
   max_htlc_value_in_flight_ppm |-> 10, minimum_depth |-> 3]

\* The default, and one value at a time moved to or over a limit of the code.
Variants ==
  {Default,
   [Default EXCEPT !.network = "testnet"],
   [Default EXCEPT !.accept_inbound = FALSE],
   [Default EXCEPT !.dust_limit_sat = 5],
   [Default EXCEPT !.dust_limit_sat = 1],
   [Default EXCEPT !.reserve_ppm = 4],
   [Default EXCEPT !.to_self_delay = 2017],
   [Default EXCEPT !.max_accepted_htlcs = 484],
   [Default EXCEPT !.minimum_depth = 145]}

\* All, some or none of the capacity is left to the opener, or it pushes too much; a
\* capacity that is no multiple of the million.
MCTerms ==
  {[funding_satoshis |-> 20, push_msat |-> p] : p \in {0, 70, 200, 201}}
    \cup {[funding_satoshis |-> 25, push_msat |-> 70]}
=============================================================================
