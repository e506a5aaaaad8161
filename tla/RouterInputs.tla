---------------------------- MODULE RouterInputs ----------------------------
(***************************************************************************)
(* Inputs for Router.  Node 0 pays node 3.  1 and 2 are its peers; 3 has   *)
(* channels with both, they have one with each other, and 4 is known only  *)
(* from a hint.                                                            *)
(***************************************************************************)
EXTENDS Integers, Sequences

Policy(base, millionths, delta, min, max) ==
  [enabled |-> TRUE, cltv_expiry_delta |-> delta, htlc_minimum_msat |-> min,
   htlc_maximum_msat |-> max, fee_base_msat |-> base, fee_proportional_millionths |-> millionths]

Open(base, millionths, delta) == Policy(base, millionths, delta, 0, 1000000)
Disabled == [Open(0, 0, 1) EXCEPT !.enabled = FALSE]

\* A channel between m < n with the policy of each.
Chan(scid, m, n, capacity, ofM, ofN) ==
  [scid |-> scid, node_1 |-> m, node_2 |-> n, capacity |-> capacity,
   one_to_two |-> ofM, two_to_one |-> ofN]

First(peer, scid, available) == [peer |-> peer, scid |-> scid, available_msat |-> available]
Hint(node, scid, policy) == [src_node_id |-> node, scid |-> scid, policy |-> policy]

Task(channels, first_hops, hints, max_hops) ==
  [channels |-> channels, first_hops |-> first_hops, hints |-> hints,
   amount_msat |-> 100, final_cltv_expiry |-> 18, max_hops |-> max_hops]

\* The policies towards the payee and between the peers vary; our own channel is in the
\* graph too, and the payee has policies.
Diamond(p, capacity) ==
  {<<Chan(1, 0, 1, {1000}, {Open(0, 0, 1)}, {Open(0, 0, 1)}),
     Chan(2, 1, 3, {}, a, {Open(0, 0, 1)}),
     Chan(3, 2, 3, capacity, b, {Open(0, 0, 1)}),
     Chan(4, 1, 2, {}, c, d)>> : a \in p, b \in p, c \in p, d \in p}

BothPeers == <<First(1, 1, 1000), First(2, 5, 1000)>>
FirstHopLists == {BothPeers, <<First(1, 1, 1000)>>, <<First(1, 1, 10), First(2, 5, 1000)>>, <<>>}

\* Fees that do not depend on the amount, and nothing in the way.
Fixed == {{}, {Open(0, 0, 1)}, {Open(12, 0, 1)}, {Open(3, 0, 4)}, {Disabled}}
FixedHints ==
  {<<>>, << <<Hint(2, 9, Open(2, 0, 2))>> >>,
   << <<Hint(1, 7, Open(1, 0, 2)), Hint(4, 8, Open(2, 0, 1))>> >>}
FixedProblems ==
  {Task(g, f, h, 20) : g \in Diamond(Fixed, {}), f \in FirstHopLists, h \in FixedHints}

\* Fees in proportion, limits, capacities, and routes of few hops.
Mixed == {{}, {Open(2, 100, 1)}, {Open(10, 300, 5)}, {Policy(1, 50, 2, 100, 104)}}
MixedProblems ==
  {Task(g, f, h, m) : g \in Diamond(Mixed, {130}), f \in FirstHopLists, h \in FixedHints,
                      m \in 1..3}

\* A minimum above what is sent, and a fee above the difference.
MinimumProblems ==
  {Task(g, BothPeers, <<>>, 20) : g \in Diamond({{}, {Policy(10, 0, 1, 105, 1000)}}, {})}

MCProblems == FixedProblems \cup MixedProblems \cup MinimumProblems
=============================================================================
