--------------------------- MODULE RouterReference ---------------------------
(***************************************************************************)
(* What a route should be, by enumeration of all loop-free paths.          *)
(***************************************************************************)
EXTENDS Router

\* The edges that exist: a policy that is enabled, for the direction it was made for.
Edges ==
  LET announced(c, from, to, slot) ==
        {edge(c.scid, from, to, p, c.capacity) : p \in {q \in slot : q.enabled}}
      hinted(path) ==
        {edge(path[i].scid, path[i].src_node_id,
              IF i = Len(path) THEN Payee ELSE path[i + 1].src_node_id, path[i].policy, {}) :
           i \in DOMAIN path}
  IN  UNION {announced(c, c.node_1, c.node_2, c.one_to_two)
               \cup announced(c, c.node_2, c.node_1, c.two_to_one) : c \in Range(problem.channels)}
        \cup UNION {hinted(path) : path \in Range(problem.hints)}

\* Loop-free sequences of edges that end at the payee and do not touch the payer.
RECURSIVE PathsInto(_, _)
PathsInto(node, avoid) ==
  {<<>>} \cup
  UNION {{Append(path, e) : path \in PathsInto(e.from, avoid \cup {e.from})} :
           e \in {x \in Edges : x.to = node /\ x.from \notin avoid}}
Paths == PathsInto(Payee, {Payee, Payer})

\* What has to enter edge i of a path so that what is after it is paid for.
RECURSIVE AmountAt(_, _)
AmountAt(path, i) ==
  IF i > Len(path) THEN problem.amount_msat
  ELSE LET out == AmountAt(path, i + 1) IN out + fee_for(path[i].policy, out)

\* Each edge carries what comes after it, within its limits.
Carries(path) ==
  \A i \in DOMAIN path :
    /\ AmountAt(path, i + 1) \in path[i].policy.htlc_minimum_msat .. path[i].policy.htlc_maximum_msat
    /\ \A c \in path[i].capacity : AmountAt(path, i + 1) <= c

Usable(path) ==
  /\ Carries(path) /\ Len(path) < problem.max_hops
  /\ \E fh \in Range(problem.first_hops) :
       /\ fh.peer = IF path = <<>> THEN Payee ELSE path[1].from
       /\ fh.available_msat >= AmountAt(path, 1)

RECURSIVE CostFrom(_, _)
CostFrom(path, i) ==
  IF i > Len(path) THEN problem.amount_msat
  ELSE CostFrom(path, i + 1) + (AmountAt(path, i) - AmountAt(path, i + 1))
         + penalty_msat(path[i], AmountAt(path, i))

PathOf(route) ==
  [i \in 1..(Len(route) - 1) |->
     CHOOSE e \in Edges : /\ e.scid = route[i + 1].short_channel_id
                          /\ e.from = route[i].node_id /\ e.to = route[i + 1].node_id]

-----------------------------------------------------------------------------
route == result.hops

\* Every node of the route accepts what it is given, by the checks that forward_htlc and
\* receive make in node/mod.rs: the fee of its own policy on what it forwards, its time
\* lock delta, and at the end the amount and the expiry that were asked for.
EveryHopAccepts ==
  result.status = "Ok" =>
    /\ \A i \in 1..(Len(route) - 1) :
         LET p == payload(route, i)
             policy == PathOf(route)[i].policy
         IN  /\ route[i].amount_msat >= p.amt_to_forward + fee_for(policy, p.amt_to_forward)
             /\ route[i].cltv_expiry >= p.outgoing_cltv_value + policy.cltv_expiry_delta
    /\ Last(route).amount_msat = problem.amount_msat
    /\ Last(route).cltv_expiry = problem.final_cltv_expiry
    /\ \E fh \in Range(problem.first_hops) :
         /\ fh.scid = route[1].short_channel_id /\ fh.peer = route[1].node_id
         /\ fh.available_msat >= route[1].amount_msat

\* The route is a loop-free path over channels that exist, within the limit of hops.
RouteIsAPath ==
  result.status = "Ok" =>
    /\ Len(route) <= problem.max_hops /\ Last(route).node_id = Payee
    /\ \A i \in 1..(Len(route) - 1) :
         \E e \in Edges : /\ e.scid = route[i + 1].short_channel_id
                          /\ e.from = route[i].node_id /\ e.to = route[i + 1].node_id
    /\ \A i, j \in DOMAIN route : route[i].node_id = route[j].node_id => i = j

\* Nothing depends on the amount: no fee is in proportion to it, every path can carry
\* it, none has too many hops, and there is one channel with each peer.
Plain ==
  /\ \A e \in Edges : e.policy.fee_proportional_millionths = 0
  /\ \A path \in Paths : Carries(path) /\ Len(path) < problem.max_hops
  /\ \A i, j \in DOMAIN problem.first_hops :
       problem.first_hops[i].peer = problem.first_hops[j].peer => i = j

cheapest ==
  result.status = "Ok" =>
    \A path \in Paths : Usable(path) => CostFrom(PathOf(route), 1) <= CostFrom(path, 1)

finds ==
  result.status \in {"NoPath", "LimitExceeded"} => ~\E path \in Paths : Usable(path)

\* "Find the cheapest route.": no usable path costs less, where what one edge carries
\* does not change what another one costs or allows.
CheapestRoute == result # no_result /\ Plain => cheapest

\* There the search gives up only when there is no usable path.
FindsARoute == result # no_result /\ Plain => finds

\* The same for every graph.  The label of a node is one path, the cheapest for the
\* amount that reaches it; another one may be needed for the amount, the hops or the
\* channel that the rest of the route asks for.
AlwaysCheapest == cheapest
AlwaysFinds == finds

\* Each channel carries an HTLC within the limits of its policy.
HtlcsWithinLimits == result.status = "Ok" => Carries(PathOf(route))
=============================================================================
