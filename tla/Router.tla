------------------------------- MODULE Router -------------------------------
(***************************************************************************)
(* The search for a route (router/mod.rs), over the edges of the graph     *)
(* (graph/mod.rs) and of an invoice's hints, and the payloads that         *)
(* pay_invoice (node/mod.rs) makes of the route.                           *)
(*                                                                         *)
(* One call of find_route is one behaviour: Init chooses its input, each   *)
(* step is an iteration of its loop, and the last one the walk from payer  *)
(* to payee.  Capacities are in millisatoshi.  Amounts are far below 2^64, *)
(* so that nothing saturates.                                              *)
(***************************************************************************)
EXTENDS Integers, Sequences, FiniteSets, SequencesExt

CONSTANTS
  Payer, Payee,      \* nodes, which are numbers
  Problems,          \* the inputs: graph, first hops, hints and limits
  Million,           \* 1_000_000 in the code; less where TLC's integers are too small
  BasePenalty, CltvPenalty   \* the DefaultScorer

VARIABLES
  problem,   \* the input
  best,      \* the best NodeState of each node that has one
  heap,      \* the costs and nodes to visit
  result     \* what find_route returned, or that it has not yet

vars == <<problem, best, heap, result>>

-----------------------------------------------------------------------------
(* Edges. *)

fee_for(policy, amount) ==
  policy.fee_base_msat + ((amount * policy.fee_proportional_millionths) \div Million)

edge(scid, from, to, policy, capacity) ==
  [scid |-> scid, from |-> from, to |-> to, policy |-> policy, capacity |-> capacity]

\* The channels of a node in the order in which they were announced; the policy is the
\* one of the node that the HTLC comes from.
edges_into(to) ==
  LET from(c) == IF c.node_1 = to THEN c.node_2 ELSE c.node_1
      slot(c) == IF c.node_1 = to THEN c.two_to_one ELSE c.one_to_two
      used == SelectSeq(problem.channels,
                LAMBDA c : to \in {c.node_1, c.node_2} /\ \E p \in slot(c) : p.enabled)
  IN  [i \in DOMAIN used |-> LET c == used[i] IN
         edge(c.scid, from(c), to, CHOOSE p \in slot(c) : TRUE, c.capacity)]

\* A hint is a path into the payee: each entry forwards to the node of the next one.
\* It has no limits of its own.
hint_edges(to) ==
  LET of(path) == [i \in DOMAIN path |->
        edge(path[i].scid, path[i].src_node_id,
             IF i < Len(path) THEN path[i + 1].src_node_id ELSE Payee,
             path[i].policy, {})]
      all == FlattenSeq([i \in DOMAIN problem.hints |-> of(problem.hints[i])])
  IN  SelectSeq(all, LAMBDA e : e.to = to)

\* The channel with each peer: of several, the last one counts.
first_hop_by_peer(peer) ==
  LET with == SelectSeq(problem.first_hops, LAMBDA fh : fh.peer = peer)
  IN  IF with = <<>> THEN {} ELSE {Last(with)}

penalty_msat(e, amount) ==
  BasePenalty + (CltvPenalty * e.policy.cltv_expiry_delta)
    + (IF e.capacity = {} THEN 0
       ELSE LET used == (amount * Million) \div (CHOOSE c \in e.capacity : TRUE)
            IN  (used * used) \div 1000)

-----------------------------------------------------------------------------
(* The search.  w is the pair of best and heap. *)

hop(node, scid, amount, cltv) ==
  [node_id |-> node, short_channel_id |-> scid, amount_msat |-> amount, cltv_expiry |-> cltv]

improves(w, node, cost) == node \in DOMAIN w.best => cost < w.best[node].cost

label(w, node, state) ==
  [w EXCEPT !.best = [n \in DOMAIN @ \cup {node} |-> IF n = node THEN state ELSE @[n]]]

start_here(w, node) ==
  LET state == w.best[node]
      usable == {fh \in first_hop_by_peer(node) : fh.available_msat >= state.amount}
      payer_state(fh) ==
        [state EXCEPT !.next = {hop(node, fh.scid, state.amount, state.cltv)},
                      !.hops_to_payee = @ + 1]
  IN  IF usable # {} /\ improves(w, Payer, state.cost)
      THEN label(w, Payer, payer_state(CHOOSE fh \in usable : TRUE)) ELSE w

\* Mutant of relax: the fee is on what the payee receives.
relax_flat(w, e) ==
  LET state == w.best[e.to]
      fee == fee_for(e.policy, problem.amount_msat)
      amount_in == state.amount + fee
      new_cost == state.cost + fee + penalty_msat(e, amount_in)
      from_state == [amount |-> amount_in, cltv |-> state.cltv + e.policy.cltv_expiry_delta,
                     cost |-> new_cost, next |-> {hop(e.to, e.scid, state.amount, state.cltv)},
                     hops_to_payee |-> state.hops_to_payee + 1]
  IN  IF e.from \in {Payee, Payer} \/ ~improves(w, e.from, new_cost) THEN w
      ELSE [label(w, e.from, from_state) EXCEPT !.heap = @ \cup {<<new_cost, e.from>>}]

\* Mutant of relax: the first path to a node stays.
relax_first(w, e) ==
  LET state == w.best[e.to]
      fee == fee_for(e.policy, state.amount)
      amount_in == state.amount + fee
      new_cost == state.cost + fee + penalty_msat(e, amount_in)
      from_state == [amount |-> amount_in, cltv |-> state.cltv + e.policy.cltv_expiry_delta,
                     cost |-> new_cost, next |-> {hop(e.to, e.scid, state.amount, state.cltv)},
                     hops_to_payee |-> state.hops_to_payee + 1]
  IN  IF e.from \in {Payee, Payer} \/ e.from \in DOMAIN w.best THEN w
      ELSE [label(w, e.from, from_state) EXCEPT !.heap = @ \cup {<<new_cost, e.from>>}]

relax(w, e) ==
  LET state == w.best[e.to]
      fee == fee_for(e.policy, state.amount)
      amount_in == state.amount + fee
      new_cost == state.cost + fee + penalty_msat(e, amount_in)
      from_state == [amount |-> amount_in, cltv |-> state.cltv + e.policy.cltv_expiry_delta,
                     cost |-> new_cost, next |-> {hop(e.to, e.scid, state.amount, state.cltv)},
                     hops_to_payee |-> state.hops_to_payee + 1]
      fits == /\ amount_in \in e.policy.htlc_minimum_msat .. e.policy.htlc_maximum_msat
              /\ \A c \in e.capacity : amount_in <= c
  IN  IF e.from \in {Payee, Payer} \/ ~fits \/ ~improves(w, e.from, new_cost) THEN w
      ELSE [label(w, e.from, from_state) EXCEPT !.heap = @ \cup {<<new_cost, e.from>>}]

visit(w, cost, node) ==
  IF w.best[node].cost < cost \/ w.best[node].hops_to_payee >= problem.max_hops THEN w
  ELSE FoldLeft(relax, start_here(w, node), edges_into(node) \o hint_edges(node))

outcome(status, hops) == [status |-> status, hops |-> hops]
no_result == outcome("searching", <<>>)

\* From the payer along the labels.
RECURSIVE walk(_, _)
walk(hops, cursor) ==
  IF cursor = {} THEN outcome("NoPath", <<>>)
  ELSE LET h == CHOOSE x \in cursor : TRUE
           taken == Append(hops, h)
       IN  IF h.node_id = Payee THEN outcome("Ok", taken)
           ELSE IF Len(taken) > problem.max_hops THEN outcome("LimitExceeded", <<>>)
           ELSE walk(taken, best[h.node_id].next)

\* What pay_invoice tells each node of the route: to a forwarding node, what leaves it.
payload(route, i) ==
  LET h == IF i < Len(route) THEN route[i + 1] ELSE route[i]
  IN  [amt_to_forward |-> h.amount_msat, outgoing_cltv_value |-> h.cltv_expiry,
       short_channel_id |-> IF i < Len(route) THEN {h.short_channel_id} ELSE {}]

-----------------------------------------------------------------------------
Init ==
  /\ problem \in Problems
  /\ best = [n \in {Payee} |->
       [amount |-> problem.amount_msat, cltv |-> problem.final_cltv_expiry,
        cost |-> problem.amount_msat, next |-> {}, hops_to_payee |-> 0]]
  /\ heap = {<<problem.amount_msat, Payee>>}
  /\ result = no_result

\* The least cost first; among equals the greatest node.
Visit ==
  /\ result = no_result
  /\ \E top \in heap :
       /\ \A h \in heap : h[1] > top[1] \/ (h[1] = top[1] /\ h[2] <= top[2])
       /\ LET w == visit([best |-> best, heap |-> heap \ {top}], top[1], top[2])
          IN  best' = w.best /\ heap' = w.heap
  /\ UNCHANGED <<problem, result>>

Walk ==
  /\ result = no_result /\ heap = {}
  /\ result' = IF Payer \in DOMAIN best THEN walk(<<>>, best[Payer].next)
               ELSE outcome("NoPath", <<>>)
  /\ UNCHANGED <<problem, best, heap>>

Next == Visit \/ Walk
Spec == Init /\ [][Next]_vars
=============================================================================
