------------------------------- MODULE Gossip -------------------------------
(***************************************************************************)
(* Gossip among nodes (graph/mod.rs, and the gossip parts of node/mod.rs): *)
(* the two ends of a channel exchange signatures and announce it, and the  *)
(* announcement and the updates flood the network.                         *)
(*                                                                         *)
(* A channel is the pair of its nodes, the lesser first; its update for    *)
(* the direction from n is signed by n.  Every node runs this code, so     *)
(* signatures verify and the chain is the same.  Of a policy the timestamp *)
(* is kept.  A link delivers in order while it lasts; when it is lost and  *)
(* made again, what was on it is gone.                                     *)
(***************************************************************************)
EXTENDS Integers, Sequences

CONSTANTS
  Node,          \* numbers, compared as the code compares public keys
  Channel,       \* the channels, pairs of nodes
  Topologies,    \* the networks: sets of connections, which are sets of two nodes
  MaxRefreshes,  \* bound: how often nodes change a policy or describe themselves
  MaxCuts        \* bound: how often a link is lost

ASSUME GossipAssumption ==
  /\ Node \subseteq Nat
  /\ Channel \subseteq {c \in Node \X Node : c[1] < c[2]}
  /\ \A links \in Topologies : links \subseteq {{m, n} : m, n \in Node}
  /\ MaxRefreshes \in Nat /\ MaxCuts \in Nat

VARIABLES
  graph,   \* graph[n]: the NetworkGraph of n
  entry,   \* entry[n][c]: what n keeps of the announcement of its channel c
  net,     \* net[m][n]: sent by m to n and not yet read
  now,     \* now[n]: the latest timestamp n has used
  link,    \* the connections that are kept up
  up,      \* the links in place
  refreshes, cuts     \* how many policies were changed, how many links lost

vars == <<graph, entry, net, now, link, up, refreshes, cuts>>

ends(c) == {c[1], c[2]}
peers(n) == {m \in Node : {m, n} \in up}

announcement_signatures(c) == [type |-> "announcement_signatures", channel |-> c]
channel_announcement(c) == [type |-> "channel_announcement", channel |-> c]
channel_update(c, n, t) == [type |-> "channel_update", channel |-> c, from |-> n, timestamp |-> t]
node_announcement(n, t) == [type |-> "node_announcement", node |-> n, timestamp |-> t]

-----------------------------------------------------------------------------
(* The graph.  Each operation has a guard, whether the message is news,    *)
(* and a result.                                                           *)

accepts_announcement(g, c) == c \notin g.channels
apply_channel_announcement(g, c) == [g EXCEPT !.channels = @ \cup {c}]

\* Mutant of accepts_update: a policy is never replaced.
accepts_update_once(g, m) ==
  m.channel \in g.channels /\ g.policy[m.channel][m.from] = 0

accepts_update(g, m) ==
  m.channel \in g.channels /\ g.policy[m.channel][m.from] < m.timestamp
apply_channel_update(g, m) == [g EXCEPT !.policy[m.channel][m.from] = m.timestamp]

\* A node is known by its channels.
accepts_node(g, m) ==
  (\E c \in g.channels : m.node \in ends(c)) /\ g.last_timestamp[m.node] < m.timestamp
apply_node_announcement(g, m) == [g EXCEPT !.last_timestamp[m.node] = m.timestamp]

-----------------------------------------------------------------------------
(* Handlers of node n take and return w: its graph, its entries, its clock *)
(* and what it sends, in order; a message goes to one peer or to all.      *)

sends(w, to, m) == [w EXCEPT !.out = [p \in Node |-> IF p \in to THEN Append(@[p], m) ELSE @[p]]]

\* broadcast_to_ready_peers: to all, the peer that sent the message included.
broadcast(w, n, m) == sends(w, peers(n), m)

\* Our announcement and then our policy for our direction.  An announcement that is
\* already in the graph counts as failed validation, and ends the call.
finish_announcement(w, n, c) ==
  LET v == [w EXCEPT !.entry[c].announced = TRUE]
      t == v.now + 1
      update == channel_update(c, n, t)
      u == broadcast([v EXCEPT !.graph = apply_channel_announcement(@, c)], n,
                     channel_announcement(c))
  IN  IF ~accepts_announcement(v.graph, c) THEN v
      ELSE broadcast([u EXCEPT !.graph = apply_channel_update(@, update), !.now = t], n, update)

\* Our half of the signatures, once.  It counts as sent also when the peer is not there.
send_signatures(w, n, c) ==
  IF w.entry[c].sent_announcement_sigs THEN w
  ELSE sends([w EXCEPT !.entry[c].sent_announcement_sigs = TRUE], (ends(c) \ {n}) \cap peers(n),
             announcement_signatures(c))

\* Mutant of maybe_announce_channel: the peer's signatures are not waited for.
announce_at_once(w, n, c) ==
  LET v == send_signatures(w, n, c)
  IN  IF ~w.entry[c].usable THEN w
      ELSE IF w.entry[c].announced THEN v ELSE finish_announcement(v, n, c)

\* Mutant of maybe_announce_channel: ours are sent only in answer to theirs.
announce_in_answer(w, n, c) ==
  IF ~w.entry[c].usable \/ ~w.entry[c].their_announcement_sigs \/ w.entry[c].announced THEN w
  ELSE finish_announcement(send_signatures(w, n, c), n, c)

\* Sending to a peer that is not there is an error, which ends the call.
maybe_announce_channel(w, n, c) ==
  LET v == send_signatures(w, n, c)
      failed == ~w.entry[c].sent_announcement_sigs /\ ends(c) \cap peers(n) = {}
  IN  IF ~w.entry[c].usable THEN w
      ELSE IF failed \/ w.entry[c].announced \/ ~w.entry[c].their_announcement_sigs THEN v
      ELSE finish_announcement(v, n, c)

on_announcement_signatures(w, n, c) ==
  maybe_announce_channel([w EXCEPT !.entry[c].their_announcement_sigs = TRUE], n, c)

after_channel_ready_change(w, n, c) ==
  maybe_announce_channel([w EXCEPT !.entry[c].usable = TRUE], n, c)

\* The gossip arms of Node::handle_message: news is stored and passed on.
handle_message(w, n, m) ==
  CASE m.type = "announcement_signatures" -> on_announcement_signatures(w, n, m.channel)
    [] m.type = "channel_announcement" ->
         IF accepts_announcement(w.graph, m.channel)
         THEN broadcast([w EXCEPT !.graph = apply_channel_announcement(@, m.channel)], n, m)
         ELSE w
    [] m.type = "channel_update" ->
         IF accepts_update(w.graph, m)
         THEN broadcast([w EXCEPT !.graph = apply_channel_update(@, m)], n, m) ELSE w
    [] m.type = "node_announcement" ->
         IF accepts_node(w.graph, m)
         THEN broadcast([w EXCEPT !.graph = apply_node_announcement(@, m)], n, m) ELSE w

-----------------------------------------------------------------------------
world(n) ==
  [graph |-> graph[n], entry |-> entry[n], now |-> now[n], out |-> [p \in Node |-> <<>>]]

\* n becomes w, with `wire` as what is on the links before it sends.
becomes(n, w, wire) ==
  /\ graph' = [graph EXCEPT ![n] = w.graph]
  /\ entry' = [entry EXCEPT ![n] = w.entry]
  /\ now' = [now EXCEPT ![n] = w.now]
  /\ net' = [wire EXCEPT ![n] = [p \in Node |-> @[p] \o w.out[p]]]

Init ==
  \* Zero stands for no policy, and is the last_timestamp of a NodeInfo before any
  \* node_announcement.
  /\ graph = [n \in Node |-> [channels |-> {}, policy |-> [c \in Channel |-> [p \in Node |-> 0]],
                              last_timestamp |-> [p \in Node |-> 0]]]
  /\ entry = [n \in Node |-> [c \in {x \in Channel : n \in ends(x)} |->
       [usable |-> FALSE, sent_announcement_sigs |-> FALSE, their_announcement_sigs |-> FALSE,
        announced |-> FALSE]]]
  /\ net = [m \in Node |-> [n \in Node |-> <<>>]]
  /\ now = [n \in Node |-> 0] /\ refreshes = 0 /\ cuts = 0
  /\ link \in Topologies /\ up = link

\* channel_ready has been exchanged and the funding transaction confirmed, seen from n.
ChannelReady(n) ==
  /\ \E c \in DOMAIN entry[n] :
       ~entry[n][c].usable /\ becomes(n, after_channel_ready_change(world(n), n, c), net)
  /\ UNCHANGED <<link, up, refreshes, cuts>>

Receive(m, n) ==
  /\ net[m][n] # <<>>
  /\ becomes(n, handle_message(world(n), n, Head(net[m][n])), [net EXCEPT ![m][n] = Tail(@)])
  /\ UNCHANGED <<link, up, refreshes, cuts>>

\* A node whose policy is out changes it, or describes itself.  This code never does;
\* the nodes it is connected to do.
Refresh(n) ==
  /\ refreshes < MaxRefreshes /\ refreshes' = refreshes + 1
  /\ LET t == now[n] + 1
         w == [world(n) EXCEPT !.now = t]
     IN  \/ \E c \in DOMAIN entry[n] :
              LET m == channel_update(c, n, t) IN
              /\ graph[n].policy[c][n] > 0
              /\ becomes(n, broadcast([w EXCEPT !.graph = apply_channel_update(@, m)], n, m), net)
         \/ LET m == node_announcement(n, t) IN
            /\ \E c \in DOMAIN entry[n] : c \in graph[n].channels
            /\ becomes(n, broadcast([w EXCEPT !.graph = apply_node_announcement(@, m)], n, m), net)
  /\ UNCHANGED <<link, up, cuts>>

\* The link is lost with what is on it.
Cut(l) ==
  /\ cuts < MaxCuts /\ l \in up
  /\ up' = up \ {l} /\ cuts' = cuts + 1
  /\ net' = [m \in Node |-> [n \in Node |-> IF {m, n} = l THEN <<>> ELSE net[m][n]]]
  /\ UNCHANGED <<graph, entry, now, link, refreshes>>

\* A new connection sends no gossip again: gossip_timestamp_filter is ignored.
Reconnect(l) ==
  l \notin up /\ up' = up \cup {l} /\ UNCHANGED <<graph, entry, net, now, link, refreshes, cuts>>

Next ==
  \/ \E n \in Node : ChannelReady(n) \/ Refresh(n)
  \/ \E m, n \in Node : Receive(m, n)
  \/ \E l \in link : Cut(l) \/ Reconnect(l)

Spec == Init /\ [][Next]_vars

\* Peers read what they are sent, channels become ready and lost links are made again.
FairSpec ==
  /\ Spec
  /\ \A m, n \in Node : []<>(net[m][n] = <<>>)
  /\ \A n \in Node : []<>(\A c \in DOMAIN entry[n] : entry[n][c].usable)
  /\ []<>(up = link)

-----------------------------------------------------------------------------
(* Properties. *)

quiet == \A m, n \in Node : net[m][n] = <<>>

\* Once nothing is on its way, and as long as no link was lost (what was on it is not sent
\* again), all nodes have the same graph, with the last policy that each origin made: updates that overtake each other on different paths, or come before
\* the announcement by one path and after it by another, are not lost.
GraphsAgree ==
  quiet /\ cuts = 0 => \A m, n \in Node :
    /\ graph[m].channels = graph[n].channels /\ graph[m].policy = graph[n].policy
    /\ graph[m].last_timestamp = graph[n].last_timestamp

\* A node never goes back to an older policy or forgets a channel.
GraphOnlyGrows ==
  [][\A n \in Node :
       /\ graph[n].channels \subseteq graph'[n].channels
       /\ \A c \in Channel, p \in Node : graph[n].policy[c][p] <= graph'[n].policy[c][p]]_vars

\* A policy is known only of announced channels, and a channel is announced only with
\* the signatures of both ends.
AnnouncedByBoth ==
  \A n \in Node, c \in Channel :
    /\ c \in graph[n].channels => \A p \in ends(c) : entry[p][c].sent_announcement_sigs
    /\ \A p \in Node : graph[n].policy[c][p] > 0 => c \in graph[n].channels

published == \A n \in Node, c \in Channel : \A p \in ends(c) : graph[n].policy[c][p] > 0
exchanged == \A c \in Channel : \A p \in ends(c) : entry[p][c].their_announcement_sigs

\* A node that is connected to both ends of a channel.
detour == \E c \in Channel, n \in Node : \A p \in ends(c) : {n, p} \in link /\ n # p

\* While no link is lost, each end comes to have the signatures of both.
SignaturesAreExchanged == <>(exchanged \/ cuts > 0)

\* Both ends' policies become known everywhere, while no link is lost and no announcement
\* can come back before the peer's signatures: without a policy of each end no payment
\* can be routed over the channel.
PoliciesArePublished == <>(published \/ cuts > 0 \/ detour)

\* A channel that is ready comes to be announced and usable by everyone.
ChannelsAreAnnounced == SignaturesAreExchanged /\ PoliciesArePublished

\* Where there is a detour too.  An announcement that comes back before the peer's
\* signatures have arrived keeps a node from ever publishing its own policy.
RelayedIsPublished == <>(published \/ cuts > 0)

\* BOLT 7: a node that has not received the peer's signatures sends its own when they
\* connect again and is answered, so each end comes to have both halves.
SignaturesAreRepeated == <>exchanged
=============================================================================
