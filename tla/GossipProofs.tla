---------------------------- MODULE GossipProofs ----------------------------
(* Whatever the network, the number of channels and the order of messages: a   *)
(* channel is announced only by both of its ends, and a graph only grows.      *)
EXTENDS Gossip, SequenceTheorems, TLAPS

-----------------------------------------------------------------------------
(* The inductive invariant.  E stands for the entries and N for the clocks of  *)
(* all nodes, as they are or as one of them is about to make them.             *)

Entry == [usable : BOOLEAN, sent_announcement_sigs : BOOLEAN,
          their_announcement_sigs : BOOLEAN, announced : BOOLEAN]
Graph == [channels : SUBSET Channel, policy : [Channel -> [Node -> Nat]],
          last_timestamp : [Node -> Nat]]
Message ==
  [type : {"announcement_signatures", "channel_announcement"}, channel : Channel]
    \cup [type : {"channel_update"}, channel : Channel, from : Node, timestamp : Nat]
    \cup [type : {"node_announcement"}, node : Node, timestamp : Nat]

own(n) == {c \in Channel : n \in ends(c)}

typed(E, N) ==
  /\ E = [p \in Node |-> E[p]] /\ \A p \in Node : E[p] \in [own(p) -> Entry]
  /\ N \in [Node -> Nat]

both_signed(E, c) == \A p \in ends(c) : E[p][c].sent_announcement_sigs

\* What m may have sent to n: its own signatures for a channel of the two, announcements
\* of channels that both ends signed, and policies their origin has made.
justified(m, n, E, N) ==
  {x \in Message :
     /\ x.type = "announcement_signatures" =>
          /\ m # n /\ m \in ends(x.channel) /\ n \in ends(x.channel)
          /\ E[m][x.channel].sent_announcement_sigs
     /\ x.type = "channel_announcement" => both_signed(E, x.channel)
     /\ x.type = "channel_update" => x.timestamp <= N[x.from]}

sound(g, E, N) ==
  \A c \in Channel :
    /\ c \in g.channels => both_signed(E, c)
    /\ \A p \in Node : (g.policy[c][p] > 0 => c \in g.channels) /\ g.policy[c][p] <= N[p]

heard(n, E) ==
  \A c \in own(n) : E[n][c].their_announcement_sigs =>
    \A p \in ends(c) \ {n} : E[p][c].sent_announcement_sigs

GossipInv ==
  /\ graph \in [Node -> Graph] /\ typed(entry, now)
  /\ net \in [Node -> [Node -> Seq(Message)]]
  /\ \A n \in Node : sound(graph[n], entry, now) /\ heard(n, entry)
  /\ \A m, n \in Node : net[m][n] \in Seq(justified(m, n, entry, now))

\* A later state of entries and clocks.
later(E, N, F, M) ==
  \A p \in Node : /\ N[p] <= M[p]
                  /\ \A c \in own(p) : E[p][c].sent_announcement_sigs => F[p][c].sent_announcement_sigs

graph_grows(g, h) ==
  /\ g.channels \subseteq h.channels
  /\ \A c \in Channel, p \in Node : g.policy[c][p] <= h.policy[c][p]

entries(n, w) == [entry EXCEPT ![n] = w.entry]
clocks(n, w) == [now EXCEPT ![n] = w.now]

World(n) == [graph : Graph, entry : [own(n) -> Entry], now : Nat, out : [Node -> Seq(Message)]]

\* A world that n may go on to from its state.
good(n, w) ==
  /\ w \in World(n)
  /\ sound(w.graph, entries(n, w), clocks(n, w)) /\ heard(n, entries(n, w))
  /\ \A p \in Node : w.out[p] \in Seq(justified(n, p, entries(n, w), clocks(n, w)))
  /\ later(entry, now, entries(n, w), clocks(n, w))
  /\ graph_grows(graph[n], w.graph)

-----------------------------------------------------------------------------
(* Facts about channels, and about later states. *)

\* A channel has two ends, both of them nodes.
LEMMA ChannelEnds ==
  ASSUME NEW c \in Channel
  PROVE  /\ c[1] \in Node /\ c[2] \in Node /\ c[1] # c[2] /\ ends(c) \subseteq Node
         /\ \A p \in ends(c) : p \in Node /\ c \in own(p)
         /\ \A m, n \in ends(c) : m # n => ends(c) = {m, n}
<1>1. Node \subseteq Nat /\ Channel \subseteq {x \in Node \X Node : x[1] < x[2]}
  BY GossipAssumption DEF GossipAssumption
<1>2. c[1] \in Node /\ c[2] \in Node /\ c[1] < c[2] /\ c[1] \in Nat /\ c[2] \in Nat
  BY <1>1
<1> QED
  BY <1>2 DEF ends, own

\* What is justified stays so.
LEMMA LaterJustified ==
  ASSUME NEW E, NEW N, NEW F, NEW M, typed(E, N), typed(F, M), later(E, N, F, M),
         NEW m \in Node, NEW n \in Node
  PROVE  justified(m, n, E, N) \subseteq justified(m, n, F, M)
<1> SUFFICES ASSUME NEW x \in justified(m, n, E, N) PROVE x \in justified(m, n, F, M)
  OBVIOUS
<1>1. x \in Message
  BY DEF justified
<1>2. x.type = "announcement_signatures" => x.channel \in Channel
  BY <1>1 DEF Message
<1>3. x.type = "channel_announcement" => x.channel \in Channel
  BY <1>1 DEF Message
<1>4. x.type = "channel_update" => x.timestamp \in Nat /\ x.from \in Node
  BY <1>1 DEF Message
<1> HIDE DEF Message
<1>5. x.type = "announcement_signatures" =>
        /\ m # n /\ m \in ends(x.channel) /\ n \in ends(x.channel)
        /\ F[m][x.channel].sent_announcement_sigs
  BY <1>2, ChannelEnds DEF justified, later
<1>6. x.type = "channel_announcement" => both_signed(F, x.channel)
  BY <1>3, ChannelEnds DEF justified, later, both_signed
<1>7. x.type = "channel_update" => x.timestamp <= M[x.from]
  BY <1>4 DEF justified, later, typed
<1> QED
  BY <1>1, <1>5, <1>6, <1>7 DEF justified

\* So does what a graph holds.
LEMMA LaterSound ==
  ASSUME NEW E, NEW N, NEW F, NEW M, typed(E, N), typed(F, M), later(E, N, F, M),
         NEW g \in Graph, sound(g, E, N)
  PROVE  sound(g, F, M)
<1>1. \A c \in Channel : both_signed(E, c) => both_signed(F, c)
  BY ChannelEnds DEF both_signed, later
<1>2. \A c \in Channel, p \in Node : g.policy[c][p] \in Nat
  BY DEF Graph
<1>3. \A c \in Channel, p \in Node : g.policy[c][p] <= N[p] => g.policy[c][p] <= M[p]
  BY <1>2 DEF typed, later
<1> QED
  BY <1>1, <1>3 DEF sound

\* A set that grows has more sequences over it.
LEMMA LaterStreams ==
  ASSUME NEW E, NEW N, NEW F, NEW M, typed(E, N), typed(F, M), later(E, N, F, M),
         NEW m \in Node, NEW n \in Node, NEW q \in Seq(justified(m, n, E, N))
  PROVE  q \in Seq(justified(m, n, F, M))
  BY LaterJustified, SeqMonotonic

-----------------------------------------------------------------------------
(* What the handlers do to the world of a node. *)

\* The entries and clocks of a good world are typed.
LEMMA GoodTyped ==
  ASSUME GossipInv, NEW n \in Node, NEW w \in World(n)
  PROVE  /\ typed(entries(n, w), clocks(n, w))
         /\ entries(n, w)[n] = w.entry /\ clocks(n, w)[n] = w.now
         /\ \A p \in Node \ {n} : entries(n, w)[p] = entry[p] /\ clocks(n, w)[p] = now[p]
<1>1. w.entry \in [own(n) -> Entry] /\ w.now \in Nat
  BY DEF World
<1> HIDE DEF Entry
<1>2. entry = [p \in Node |-> entry[p]] /\ \A p \in Node : entry[p] \in [own(p) -> Entry]
  BY DEF GossipInv, typed
<1>3. now \in [Node -> Nat]
  BY DEF GossipInv, typed
<1>4. /\ entries(n, w)[n] = w.entry /\ \A p \in Node \ {n} : entries(n, w)[p] = entry[p]
      /\ entries(n, w) = [p \in Node |-> entries(n, w)[p]]
  BY <1>1, <1>2 DEF entries
<1>5. /\ clocks(n, w)[n] = w.now /\ \A p \in Node \ {n} : clocks(n, w)[p] = now[p]
      /\ clocks(n, w) \in [Node -> Nat]
  BY <1>1, <1>3 DEF clocks
<1> QED
  BY <1>1, <1>2, <1>4, <1>5 DEF typed

\* Sending what is justified.
LEMMA GoodSends ==
  ASSUME GossipInv, NEW n \in Node, NEW w, good(n, w), NEW to, NEW m \in Message,
         \A p \in Node : p \in to => m \in justified(n, p, entries(n, w), clocks(n, w))
  PROVE  /\ good(n, sends(w, to, m))
         /\ sends(w, to, m).graph = w.graph /\ sends(w, to, m).entry = w.entry
         /\ sends(w, to, m).now = w.now
<1> DEFINE f == [p \in Node |-> IF p \in to THEN Append(w.out[p], m) ELSE w.out[p]]
           v == [w EXCEPT !.out = f]
<1>1. w \in World(n) /\ sends(w, to, m) = v
  BY DEF good, sends
<1>2. \A p \in Node : w.out[p] \in Seq(Message)
  BY <1>1 DEF World
<1>3. f \in [Node -> Seq(Message)]
  BY <1>2, AppendProperties
<1> HIDE DEF f
<1>4. v.graph = w.graph /\ v.entry = w.entry /\ v.now = w.now /\ v.out = f
  BY <1>1 DEF World
<1>5. v \in World(n)
  BY <1>1, <1>3 DEF World
<1> HIDE DEF v
<1>6. entries(n, v) = entries(n, w) /\ clocks(n, v) = clocks(n, w)
  BY <1>4 DEF entries, clocks
<1>7. \A p \in Node : v.out[p] \in Seq(justified(n, p, entries(n, w), clocks(n, w)))
  <2> SUFFICES ASSUME NEW p \in Node
               PROVE  v.out[p] \in Seq(justified(n, p, entries(n, w), clocks(n, w)))
    OBVIOUS
  <2> DEFINE J == justified(n, p, entries(n, w), clocks(n, w))
  <2>1. w.out[p] \in Seq(J) /\ (p \in to => m \in J)
    BY DEF good
  <2> HIDE DEF J
  <2>2. p \in to => Append(w.out[p], m) \in Seq(J)
    BY <2>1, AppendProperties
  <2>3. v.out[p] \in Seq(J)
    BY <1>4, <2>1, <2>2 DEF f
  <2> QED
    BY <2>3 DEF J
<1>8. good(n, v)
  BY <1>4, <1>6, <1>5, <1>7 DEF good
<1> QED
  BY <1>1, <1>4, <1>8

\* A change that keeps what was sent, and takes back nothing.
LEMMA GoodChange ==
  ASSUME GossipInv, NEW n \in Node, NEW w, good(n, w), NEW v \in World(n), v.out = w.out,
         later(entries(n, w), clocks(n, w), entries(n, v), clocks(n, v)),
         sound(v.graph, entries(n, v), clocks(n, v)), heard(n, entries(n, v)),
         graph_grows(w.graph, v.graph)
  PROVE  good(n, v)
<1>1. w \in World(n) /\ typed(entries(n, w), clocks(n, w)) /\ typed(entries(n, v), clocks(n, v))
  BY GoodTyped DEF good
<1>2. \A p \in Node : v.out[p] \in Seq(justified(n, p, entries(n, v), clocks(n, v)))
  <2> SUFFICES ASSUME NEW p \in Node
               PROVE  v.out[p] \in Seq(justified(n, p, entries(n, v), clocks(n, v)))
    OBVIOUS
  <2>1. w.out[p] \in Seq(justified(n, p, entries(n, w), clocks(n, w)))
    BY DEF good
  <2> DEFINE E == entries(n, w) N == clocks(n, w) F == entries(n, v) M == clocks(n, v)
             q == v.out[p]
  <2>2. typed(E, N) /\ typed(F, M) /\ later(E, N, F, M) /\ q \in Seq(justified(n, p, E, N))
    BY <1>1, <2>1
  <2> HIDE DEF E, N, F, M, q
  <2>3. q \in Seq(justified(n, p, F, M))
    BY <2>2, LaterStreams
  <2> QED
    BY <2>3 DEF F, M, q
<1>3. later(entry, now, entries(n, v), clocks(n, v))
  <2>1. later(entry, now, entries(n, w), clocks(n, w))
    BY DEF good
  <2>2. /\ now \in [Node -> Nat] /\ clocks(n, w) \in [Node -> Nat]
        /\ clocks(n, v) \in [Node -> Nat]
    BY <1>1 DEF GossipInv, typed
  <2>3. \A p \in Node : now[p] <= clocks(n, w)[p] /\ clocks(n, w)[p] <= clocks(n, v)[p]
    BY <2>1, Zenon DEF later
  <2>4. \A p \in Node : now[p] <= clocks(n, v)[p]
    <3> SUFFICES ASSUME NEW p \in Node PROVE now[p] <= clocks(n, v)[p]
      OBVIOUS
    <3>1. now[p] \in Nat /\ clocks(n, w)[p] \in Nat /\ clocks(n, v)[p] \in Nat
      BY <2>2
    <3> QED
      BY <2>3, <3>1
  <2> QED
    BY <2>1, <2>4, Zenon DEF later
<1>4. graph_grows(graph[n], v.graph)
  <2>1. graph_grows(graph[n], w.graph) /\ graph[n] \in Graph /\ w.graph \in Graph /\ v.graph \in Graph
    BY <1>1 DEF good, GossipInv, World
  <2>2. \A c \in Channel, p \in Node :
          graph[n].policy[c][p] \in Nat /\ w.graph.policy[c][p] \in Nat /\ v.graph.policy[c][p] \in Nat
    BY <2>1 DEF Graph
  <2>3. \A c \in Channel, p \in Node : graph[n].policy[c][p] <= v.graph.policy[c][p]
    BY <2>1, <2>2 DEF graph_grows
  <2> QED
    BY <2>1, <2>3 DEF graph_grows
<1> QED
  BY <1>2, <1>3, <1>4 DEF good

\* An entry changes: signatures stay sent, and the peer's are there only if it sent them.
LEMMA GoodEntry ==
  ASSUME GossipInv, NEW n \in Node, NEW w, good(n, w), NEW c \in own(n), NEW e \in Entry,
         w.entry[c].sent_announcement_sigs => e.sent_announcement_sigs,
         e.their_announcement_sigs => \A p \in ends(c) \ {n} : entry[p][c].sent_announcement_sigs,
         NEW v \in World(n), v.entry = [w.entry EXCEPT ![c] = e],
         v.graph = w.graph /\ v.now = w.now /\ v.out = w.out
  PROVE  good(n, v)
<1>1. w \in World(n) /\ w.graph \in Graph /\ w.entry \in [own(n) -> Entry] /\ w.now \in Nat
  BY DEF good, World
<1>2. v.entry[c] = e /\ \A d \in own(n) \ {c} : v.entry[d] = w.entry[d]
  BY <1>1
<1>3. /\ entries(n, w)[n] = w.entry /\ entries(n, v)[n] = v.entry
      /\ \A p \in Node \ {n} : entries(n, v)[p] = entry[p] /\ entries(n, w)[p] = entry[p]
      /\ clocks(n, v) = clocks(n, w) /\ typed(entries(n, w), clocks(n, w))
      /\ typed(entries(n, v), clocks(n, v))
  BY <1>1, GoodTyped DEF clocks
<1>4. later(entries(n, w), clocks(n, w), entries(n, v), clocks(n, v))
  <2>1. clocks(n, w) \in [Node -> Nat]
    BY <1>3, Zenon DEF typed
  <2>2. \A p \in Node : clocks(n, w)[p] <= clocks(n, w)[p]
    BY <2>1, SMT
  <2>3. \A p \in Node : \A d \in own(p) :
          entries(n, w)[p][d].sent_announcement_sigs => entries(n, v)[p][d].sent_announcement_sigs
    <3> TAKE p \in Node
    <3> TAKE d \in own(p)
    <3>1. CASE p # n
      BY <1>3, <3>1, Zenon
    <3>2. CASE p = n /\ d # c
      BY <1>2, <1>3, <3>2, Zenon
    <3>3. CASE p = n /\ d = c
      BY <1>2, <1>3, <3>3, Zenon
    <3> QED
      BY <3>1, <3>2, <3>3
  <2> QED
    BY <1>3, <2>2, <2>3 DEF later
<1>5. sound(v.graph, entries(n, v), clocks(n, v))
  BY <1>1, <1>3, <1>4, LaterSound DEF good
<1>6. heard(n, entries(n, v))
  <2>1. \A d \in own(n) : \A p \in ends(d) \ {n} : p \in Node \ {n}
    BY ChannelEnds DEF own
  <2>2. heard(n, entries(n, w))
    BY DEF good
  <2> SUFFICES ASSUME NEW d \in own(n), entries(n, v)[n][d].their_announcement_sigs,
                      NEW p \in ends(d) \ {n}
               PROVE  entries(n, v)[p][d].sent_announcement_sigs
    BY Zenon DEF heard
  <2>3. entries(n, v)[p] = entry[p] /\ entries(n, w)[p] = entry[p]
    BY <1>3, <2>1, Zenon
  <2>4. CASE d = c
    BY <1>2, <1>3, <2>3, <2>4, Zenon
  <2>5. CASE d # c
    <3>1. entries(n, w)[n][d].their_announcement_sigs
      BY <1>2, <1>3, <2>5, Zenon
    <3> QED
      BY <2>2, <2>3, <3>1, Zenon DEF heard
  <2> QED
    BY <2>4, <2>5
<1>7. graph_grows(w.graph, v.graph)
  BY <1>1 DEF graph_grows, Graph
<1> QED
  BY <1>4, <1>5, <1>6, <1>7, GoodChange

\* A graph changes, and maybe the clock.
LEMMA GoodGraph ==
  ASSUME GossipInv, NEW n \in Node, NEW w, good(n, w), NEW g \in Graph, NEW t \in Nat,
         w.now <= t, graph_grows(w.graph, g),
         sound(g, entries(n, w), [now EXCEPT ![n] = t]),
         NEW v \in World(n),
         v.graph = g /\ v.now = t /\ v.entry = w.entry /\ v.out = w.out
  PROVE  good(n, v)
<1>1. w \in World(n) /\ w.now \in Nat
  BY DEF good, World
<1>2. entries(n, v) = entries(n, w) /\ clocks(n, v) = [now EXCEPT ![n] = t]
  BY DEF entries, clocks
<1>3. later(entries(n, w), clocks(n, w), entries(n, v), clocks(n, v))
  <2>1. \A p \in Node : clocks(n, w)[p] \in Nat /\ clocks(n, w)[p] <= clocks(n, v)[p]
    <3> SUFFICES ASSUME NEW p \in Node
                 PROVE  clocks(n, w)[p] \in Nat /\ clocks(n, w)[p] <= clocks(n, v)[p]
      OBVIOUS
    <3>1. clocks(n, w)[n] = w.now /\ \A q \in Node \ {n} : clocks(n, w)[q] = now[q]
      BY <1>1, GoodTyped
    <3>2. clocks(n, v)[n] = v.now /\ \A q \in Node \ {n} : clocks(n, v)[q] = now[q]
      BY GoodTyped
    <3>3. now[p] \in Nat
      BY DEF GossipInv, typed
    <3> QED
      BY <1>1, <3>1, <3>2, <3>3
  <2> QED
    BY <1>2, <2>1 DEF later
<1>4. heard(n, entries(n, v))
  BY <1>2 DEF good
<1> QED
  BY <1>2, <1>3, <1>4, GoodChange

\* A message that is justified whoever reads it can be broadcast.
LEMMA GoodBroadcast ==
  ASSUME GossipInv, NEW n \in Node, NEW w, good(n, w), NEW m \in Message,
         \A p \in Node : m \in justified(n, p, entries(n, w), clocks(n, w))
  PROVE  /\ good(n, broadcast(w, n, m))
         /\ broadcast(w, n, m).graph = w.graph /\ broadcast(w, n, m).entry = w.entry
         /\ broadcast(w, n, m).now = w.now
  BY GoodSends DEF broadcast

\* A channel that both ends signed goes into the graph.
LEMMA GoodAnnouncement ==
  ASSUME GossipInv, NEW n \in Node, NEW w, good(n, w), NEW c \in Channel,
         both_signed(entries(n, w), c)
  PROVE  LET v == broadcast([w EXCEPT !.graph = apply_channel_announcement(@, c)], n,
                            channel_announcement(c))
         IN  /\ good(n, v) /\ v.graph = apply_channel_announcement(w.graph, c)
             /\ v.entry = w.entry /\ v.now = w.now
<1> DEFINE g == apply_channel_announcement(w.graph, c)
           u == [w EXCEPT !.graph = g]
<1>1. w \in World(n) /\ w.graph \in Graph /\ w.now \in Nat
  BY DEF good, World
<1>2. g \in Graph /\ g.channels = w.graph.channels \cup {c} /\ g.policy = w.graph.policy
  BY <1>1 DEF apply_channel_announcement, Graph
<1> HIDE DEF g
<1>3. u \in World(n) /\ u.graph = g /\ u.entry = w.entry /\ u.now = w.now /\ u.out = w.out
  BY <1>1, <1>2 DEF World
<1> HIDE DEF u
<1>4. sound(g, entries(n, w), clocks(n, w))
  BY <1>2 DEF good, sound
<1>5. graph_grows(w.graph, g)
  <2>1. \A d \in Channel, p \in Node : w.graph.policy[d][p] \in Nat
    BY <1>1 DEF Graph
  <2> QED
    BY <1>2, <2>1 DEF graph_grows
<1>6. good(n, u) /\ u.entry = w.entry /\ u.graph = g /\ u.now = w.now
  <2>1. w.now <= w.now
    BY <1>1
  <2>2. sound(g, entries(n, w), [now EXCEPT ![n] = w.now])
    BY <1>4 DEF clocks
  <2> QED
    BY <1>1, <1>2, <1>3, <1>5, <2>1, <2>2, GoodGraph
<1>7. entries(n, u) = entries(n, w) /\ clocks(n, u) = clocks(n, w)
  BY <1>6 DEF entries, clocks
<1>8. \A p \in Node : channel_announcement(c) \in justified(n, p, entries(n, u), clocks(n, u))
  BY <1>7 DEF justified, Message, channel_announcement
<1>9. channel_announcement(c) \in Message
  BY DEF Message, channel_announcement
<1> HIDE DEF Message
<1>10. /\ good(n, broadcast(u, n, channel_announcement(c)))
       /\ broadcast(u, n, channel_announcement(c)).graph = g
       /\ broadcast(u, n, channel_announcement(c)).entry = w.entry
       /\ broadcast(u, n, channel_announcement(c)).now = w.now
  BY <1>6, <1>8, <1>9, GoodBroadcast
<1> QED
  BY <1>10 DEF u, g

\* A policy of a known channel is replaced by one that its origin made later.
LEMMA GoodUpdate ==
  ASSUME GossipInv, NEW n \in Node, NEW w, good(n, w), NEW t \in Nat, w.now <= t,
         NEW c \in Channel, NEW p \in Node, NEW s \in Nat,
         c \in w.graph.channels, w.graph.policy[c][p] <= s, s <= [now EXCEPT ![n] = t][p]
  PROVE  LET x == channel_update(c, p, s)
             v == broadcast([w EXCEPT !.graph = apply_channel_update(@, x), !.now = t], n, x)
         IN  good(n, v) /\ v.entry = w.entry
<1> DEFINE x == channel_update(c, p, s)
           g == apply_channel_update(w.graph, x)
           u == [w EXCEPT !.graph = g, !.now = t]
<1>1. w \in World(n) /\ w.graph \in Graph /\ w.now \in Nat
  BY DEF good, World
<1>2. x.type = "channel_update" /\ x.channel = c /\ x.from = p /\ x.timestamp = s /\ x \in Message
  BY DEF channel_update, Message
<1> HIDE DEF x
<1>3. /\ g \in Graph /\ g.channels = w.graph.channels
      /\ g.policy[c][p] = s
      /\ \A d \in Channel, q \in Node : d # c \/ q # p => g.policy[d][q] = w.graph.policy[d][q]
  BY <1>1, <1>2 DEF apply_channel_update, Graph
<1> HIDE DEF g
<1>4. \A d \in Channel, q \in Node : w.graph.policy[d][q] \in Nat
  BY <1>1 DEF Graph
<1>5. graph_grows(w.graph, g)
  BY <1>3, <1>4 DEF graph_grows
<1>6. /\ now \in [Node -> Nat] /\ typed(entries(n, w), clocks(n, w))
      /\ typed(entries(n, w), [now EXCEPT ![n] = t])
  <2>1. now \in [Node -> Nat] /\ typed(entries(n, w), clocks(n, w))
    BY <1>1, GoodTyped DEF GossipInv, typed
  <2>2. [now EXCEPT ![n] = t] \in [Node -> Nat]
    BY <2>1
  <2> QED
    BY <2>1, <2>2 DEF typed
<1>7. later(entries(n, w), clocks(n, w), entries(n, w), [now EXCEPT ![n] = t])
  <2>1. \A q \in Node : clocks(n, w)[q] <= [now EXCEPT ![n] = t][q]
    BY <1>1, <1>6 DEF clocks
  <2> QED
    BY <2>1, Zenon DEF later
<1>8. sound(w.graph, entries(n, w), [now EXCEPT ![n] = t])
  BY <1>1, <1>6, <1>7, LaterSound DEF good
<1>9. sound(g, entries(n, w), [now EXCEPT ![n] = t])
  BY <1>3, <1>8 DEF sound
<1>10. u \in World(n) /\ u.graph = g /\ u.entry = w.entry /\ u.now = t /\ u.out = w.out
  BY <1>1, <1>3 DEF World
<1> HIDE DEF u
<1>11. good(n, u)
  BY <1>3, <1>5, <1>9, <1>10, GoodGraph
<1>12. clocks(n, u) = [now EXCEPT ![n] = t]
  BY <1>10 DEF clocks
<1>13. \A q \in Node : x \in justified(n, q, entries(n, u), clocks(n, u))
  BY <1>2, <1>12 DEF justified
<1>14. good(n, broadcast(u, n, x)) /\ broadcast(u, n, x).entry = w.entry
  BY <1>2, <1>10, <1>13, <1>11, GoodBroadcast
<1> QED
  BY <1>14 DEF u, g, x

\* send_signatures marks the signatures as sent and sends them to the other end.
LEMMA GoodSignatures ==
  ASSUME GossipInv, NEW n \in Node, NEW w, good(n, w), NEW c \in own(n)
  PROVE  LET v == send_signatures(w, n, c) IN
         /\ good(n, v) /\ v.graph = w.graph /\ v.now = w.now
         /\ v.entry[c].sent_announcement_sigs
         /\ v.entry[c].their_announcement_sigs = w.entry[c].their_announcement_sigs
<1>1. /\ w \in World(n) /\ w.entry \in [own(n) -> Entry] /\ c \in Channel /\ n \in ends(c)
      /\ w.entry[c] \in Entry
  BY DEF good, World, own
<1>2. CASE w.entry[c].sent_announcement_sigs
  BY <1>2 DEF send_signatures
<1>3. CASE ~w.entry[c].sent_announcement_sigs
  <2> DEFINE e == [w.entry[c] EXCEPT !.sent_announcement_sigs = TRUE]
             u == [w EXCEPT !.entry[c].sent_announcement_sigs = TRUE]
             to == (ends(c) \ {n}) \cap peers(n)
             x == announcement_signatures(c)
  <2>1. /\ e \in Entry /\ e.sent_announcement_sigs
        /\ e.their_announcement_sigs = w.entry[c].their_announcement_sigs
    BY <1>1 DEF Entry
  <2>2. u.graph = w.graph /\ u.now = w.now /\ u.out = w.out
    BY <1>1 DEF World
  <2>3. u.entry = [w.entry EXCEPT ![c] = e]
    BY <1>1 DEF World
  <2>4. u = [w EXCEPT !.entry = [w.entry EXCEPT ![c] = e]]
    BY <1>1 DEF World
  <2> HIDE DEF e
  <2>5. u \in World(n) /\ u.entry[c] = e
    BY <1>1, <2>1, <2>3, <2>4 DEF World
  <2> HIDE DEF u
  <2>6. e.their_announcement_sigs => \A p \in ends(c) \ {n} : entry[p][c].sent_announcement_sigs
    <3>1. /\ entries(n, w)[n] = w.entry
          /\ \A p \in ends(c) \ {n} : entries(n, w)[p] = entry[p]
      BY <1>1, GoodTyped, ChannelEnds
    <3>2. heard(n, entries(n, w))
      BY DEF good
    <3> QED
      BY <2>1, <3>1, <3>2, Zenon DEF heard
  <2>7. good(n, u)
    <3>1. w.entry[c].sent_announcement_sigs => e.sent_announcement_sigs
      BY <2>1, Zenon
    <3> QED
      BY <2>1, <2>2, <2>5, <2>6, <2>3, <3>1, GoodEntry
  <2>8. x \in Message /\ x.type = "announcement_signatures" /\ x.channel = c
    BY <1>1 DEF announcement_signatures, Message
  <2>9. entries(n, u)[n][c].sent_announcement_sigs
    BY <2>1, <2>5, GoodTyped
  <2> HIDE DEF x
  <2>10. \A p \in Node : p \in to => x \in justified(n, p, entries(n, u), clocks(n, u))
    BY <1>1, <2>8, <2>9 DEF justified
  <2>11. /\ good(n, sends(u, to, x)) /\ sends(u, to, x).graph = u.graph
        /\ sends(u, to, x).entry = u.entry /\ sends(u, to, x).now = u.now
    <3> HIDE DEF to
    <3> QED
      BY <2>7, <2>8, <2>10, GoodSends
  <2>12. send_signatures(w, n, c) = sends(u, to, x)
    BY <1>3 DEF send_signatures, u, x
  <2>13. sends(u, to, x).entry[c] = e
    BY <2>5, <2>11
  <2> QED
    BY <2>1, <2>2, <2>11, <2>12, <2>13, Zenon
<1> QED
  BY <1>2, <1>3

\* finish_announcement, once both ends have signed.
LEMMA GoodFinish ==
  ASSUME GossipInv, NEW n \in Node, NEW w, good(n, w), NEW c \in own(n),
         both_signed(entries(n, w), c)
  PROVE  good(n, finish_announcement(w, n, c))
<1> DEFINE e == [w.entry[c] EXCEPT !.announced = TRUE]
           v == [w EXCEPT !.entry[c].announced = TRUE]
           t == v.now + 1
           u == broadcast([v EXCEPT !.graph = apply_channel_announcement(@, c)], n,
                          channel_announcement(c))
<1>1. /\ w \in World(n) /\ w.entry \in [own(n) -> Entry] /\ c \in Channel /\ n \in ends(c)
      /\ w.entry[c] \in Entry /\ w.now \in Nat /\ w.graph \in Graph
  BY DEF good, World, own
<1>2. /\ e \in Entry /\ e.sent_announcement_sigs = w.entry[c].sent_announcement_sigs
      /\ e.their_announcement_sigs = w.entry[c].their_announcement_sigs
  BY <1>1 DEF Entry
<1>3. v.graph = w.graph /\ v.now = w.now /\ v.out = w.out
  BY <1>1 DEF World
<1>4. v.entry = [w.entry EXCEPT ![c] = e]
  BY <1>1 DEF World
<1>5. v = [w EXCEPT !.entry = [w.entry EXCEPT ![c] = e]]
  BY <1>1 DEF World
<1> HIDE DEF e
<1>6. v \in World(n) /\ v.entry[c] = e
  BY <1>1, <1>2, <1>4, <1>5 DEF World
<1> HIDE DEF v
<1>7. t \in Nat /\ v.now <= t
  BY <1>1, <1>3
<1>8. /\ entries(n, w)[n] = w.entry /\ entries(n, v)[n] = v.entry
      /\ \A p \in ends(c) \ {n} : entries(n, w)[p] = entry[p] /\ entries(n, v)[p] = entry[p]
  BY <1>1, <1>6, GoodTyped, ChannelEnds
<1>9. good(n, v)
  <2>1. e.their_announcement_sigs => \A p \in ends(c) \ {n} : entry[p][c].sent_announcement_sigs
    <3>1. heard(n, entries(n, w))
      BY DEF good
    <3> QED
      BY <1>2, <1>8, <3>1, Zenon DEF heard
  <2>2. w.entry[c].sent_announcement_sigs => e.sent_announcement_sigs
    BY <1>2, Zenon
  <2> QED
    BY <1>2, <1>3, <1>6, <1>4, <2>1, <2>2, GoodEntry
<1>10. both_signed(entries(n, v), c)
  <2> SUFFICES ASSUME NEW p \in ends(c) PROVE entries(n, v)[p][c].sent_announcement_sigs
    BY Zenon DEF both_signed
  <2>1. entries(n, w)[p][c].sent_announcement_sigs
    BY Zenon DEF both_signed
  <2>2. CASE p = n
    BY <1>2, <1>6, <1>8, <2>1, <2>2, Zenon
  <2>3. CASE p # n
    BY <1>8, <2>1, <2>3, Zenon
  <2> QED
    BY <2>2, <2>3
<1>11. /\ good(n, u) /\ u.graph = apply_channel_announcement(v.graph, c)
      /\ u.entry = v.entry /\ u.now = v.now
  BY <1>1, <1>9, <1>10, GoodAnnouncement
<1> HIDE DEF u
<1>12. c \in u.graph.channels /\ u.graph.policy = w.graph.policy
  BY <1>1, <1>3, <1>11 DEF apply_channel_announcement, Graph
<1>13. u.graph.policy[c][n] <= t
  <2>1. w.graph.policy[c][n] <= clocks(n, w)[n] /\ clocks(n, w)[n] = w.now
    BY <1>1, GoodTyped DEF good, sound
  <2>2. w.graph.policy[c][n] \in Nat
    BY <1>1 DEF Graph
  <2> QED
    BY <1>1, <1>3, <1>12, <2>1, <2>2
<1>14. t <= [now EXCEPT ![n] = t][n]
  <2>1. now \in [Node -> Nat]
    BY DEF GossipInv, typed
  <2>2. [now EXCEPT ![n] = t][n] = t
    BY <2>1
  <2> QED
    BY <1>7, <2>2
<1>15. good(n, broadcast([u EXCEPT !.graph = apply_channel_update(@, channel_update(c, n, t)),
                                   !.now = t], n, channel_update(c, n, t)))
  <2> HIDE DEF t
  <2> QED
    BY <1>1, <1>11, <1>12, <1>13, <1>14, <1>7, GoodUpdate
<1> QED
  BY <1>9, <1>15 DEF finish_announcement, v, u, t

\* maybe_announce_channel announces only what both ends signed.
LEMMA GoodMaybe ==
  ASSUME GossipInv, NEW n \in Node, NEW w, good(n, w), NEW c \in own(n)
  PROVE  good(n, maybe_announce_channel(w, n, c))
<1> DEFINE v == send_signatures(w, n, c)
<1>1. /\ good(n, v) /\ v.entry[c].sent_announcement_sigs
      /\ v.entry[c].their_announcement_sigs = w.entry[c].their_announcement_sigs
  BY GoodSignatures
<1> HIDE DEF v
<1>2. ASSUME w.entry[c].their_announcement_sigs PROVE good(n, finish_announcement(v, n, c))
  <2>1. v \in World(n) /\ heard(n, entries(n, v))
    BY <1>1 DEF good
  <2>2. entries(n, v)[n] = v.entry
    BY <2>1, GoodTyped
  <2>3. both_signed(entries(n, v), c)
    BY <1>1, <1>2, <2>1, <2>2, Zenon DEF both_signed, heard
  <2> QED
    BY <1>1, <2>3, GoodFinish
<1> QED
  BY <1>1, <1>2 DEF maybe_announce_channel, v

\* A channel that n holds to be usable, or of which the peer's signatures have come.
LEMMA GoodMarks ==
  ASSUME GossipInv, NEW n \in Node, NEW w, good(n, w), NEW c \in own(n)
  PROVE  /\ good(n, after_channel_ready_change(w, n, c))
         /\ (\A p \in ends(c) \ {n} : entry[p][c].sent_announcement_sigs) =>
              good(n, on_announcement_signatures(w, n, c))
<1>1. /\ w \in World(n) /\ w.entry \in [own(n) -> Entry] /\ c \in Channel
      /\ w.entry[c] \in Entry
  BY DEF good, World, own
<1>2. ASSUME NEW e \in Entry,
             e.sent_announcement_sigs = w.entry[c].sent_announcement_sigs,
             e.their_announcement_sigs =>
               \A p \in ends(c) \ {n} : entry[p][c].sent_announcement_sigs
      PROVE  good(n, [w EXCEPT !.entry = [w.entry EXCEPT ![c] = e]])
  <2> DEFINE v == [w EXCEPT !.entry = [w.entry EXCEPT ![c] = e]]
  <2>1. v.graph = w.graph /\ v.now = w.now /\ v.out = w.out
    BY <1>1 DEF World
  <2>2. v.entry = [w.entry EXCEPT ![c] = e]
    BY <1>1 DEF World
  <2>3. v \in World(n)
    BY <1>1 DEF World
  <2> HIDE DEF v
  <2>4. w.entry[c].sent_announcement_sigs => e.sent_announcement_sigs
    BY <1>2, Zenon
  <2>5. good(n, v)
    BY <1>2, <2>1, <2>2, <2>3, <2>4, GoodEntry
  <2> QED
    BY <2>5 DEF v
<1>3. good(n, after_channel_ready_change(w, n, c))
  <2> DEFINE e == [w.entry[c] EXCEPT !.usable = TRUE]
  <2>1. /\ e \in Entry /\ e.sent_announcement_sigs = w.entry[c].sent_announcement_sigs
        /\ e.their_announcement_sigs = w.entry[c].their_announcement_sigs
    BY <1>1 DEF Entry
  <2>2. [w EXCEPT !.entry[c].usable = TRUE] = [w EXCEPT !.entry = [w.entry EXCEPT ![c] = e]]
    BY <1>1 DEF World
  <2> HIDE DEF e
  <2>3. e.their_announcement_sigs => \A p \in ends(c) \ {n} : entry[p][c].sent_announcement_sigs
    <3>1. /\ entries(n, w)[n] = w.entry
          /\ \A p \in ends(c) \ {n} : entries(n, w)[p] = entry[p]
      BY <1>1, GoodTyped, ChannelEnds
    <3>2. heard(n, entries(n, w))
      BY DEF good
    <3> QED
      BY <2>1, <3>1, <3>2, Zenon DEF heard
  <2>4. good(n, [w EXCEPT !.entry[c].usable = TRUE])
    BY <1>2, <2>1, <2>2, <2>3
  <2> QED
    BY <2>4, GoodMaybe DEF after_channel_ready_change
<1>4. ASSUME \A p \in ends(c) \ {n} : entry[p][c].sent_announcement_sigs
      PROVE  good(n, on_announcement_signatures(w, n, c))
  <2> DEFINE e == [w.entry[c] EXCEPT !.their_announcement_sigs = TRUE]
  <2>1. e \in Entry /\ e.sent_announcement_sigs = w.entry[c].sent_announcement_sigs
    BY <1>1 DEF Entry
  <2>2. [w EXCEPT !.entry[c].their_announcement_sigs = TRUE]
          = [w EXCEPT !.entry = [w.entry EXCEPT ![c] = e]]
    BY <1>1 DEF World
  <2> HIDE DEF e
  <2>3. good(n, [w EXCEPT !.entry[c].their_announcement_sigs = TRUE])
    BY <1>2, <1>4, <2>1, <2>2
  <2> QED
    BY <2>3, GoodMaybe DEF on_announcement_signatures
<1> QED
  BY <1>3, <1>4

\* A node announcement changes no channel and no policy.
LEMMA GoodNode ==
  ASSUME GossipInv, NEW n \in Node, NEW w, good(n, w), NEW t \in Nat, w.now <= t,
         NEW p \in Node, NEW s \in Nat
  PROVE  LET x == node_announcement(p, s) IN
         good(n, broadcast([w EXCEPT !.graph = apply_node_announcement(@, x), !.now = t], n, x))
<1> DEFINE x == node_announcement(p, s)
           g == apply_node_announcement(w.graph, x)
           u == [w EXCEPT !.graph = g, !.now = t]
<1>1. w \in World(n) /\ w.graph \in Graph /\ w.now \in Nat
  BY DEF good, World
<1>2. x.type = "node_announcement" /\ x.node = p /\ x.timestamp = s /\ x \in Message
  BY DEF node_announcement, Message
<1> HIDE DEF x
<1>3. g \in Graph /\ g.channels = w.graph.channels /\ g.policy = w.graph.policy
  BY <1>1, <1>2 DEF apply_node_announcement, Graph
<1> HIDE DEF g
<1>4. \A d \in Channel, q \in Node : w.graph.policy[d][q] \in Nat
  BY <1>1 DEF Graph
<1>5. graph_grows(w.graph, g)
  BY <1>3, <1>4 DEF graph_grows
<1>6. /\ now \in [Node -> Nat] /\ typed(entries(n, w), clocks(n, w))
      /\ typed(entries(n, w), [now EXCEPT ![n] = t])
  <2>1. now \in [Node -> Nat] /\ typed(entries(n, w), clocks(n, w))
    BY <1>1, GoodTyped DEF GossipInv, typed
  <2>2. [now EXCEPT ![n] = t] \in [Node -> Nat]
    BY <2>1
  <2> QED
    BY <2>1, <2>2 DEF typed
<1>7. later(entries(n, w), clocks(n, w), entries(n, w), [now EXCEPT ![n] = t])
  <2>1. \A q \in Node : clocks(n, w)[q] <= [now EXCEPT ![n] = t][q]
    BY <1>1, <1>6 DEF clocks
  <2> QED
    BY <2>1, Zenon DEF later
<1>8. sound(w.graph, entries(n, w), [now EXCEPT ![n] = t])
  BY <1>1, <1>6, <1>7, LaterSound DEF good
<1>9. sound(g, entries(n, w), [now EXCEPT ![n] = t])
  BY <1>3, <1>8 DEF sound
<1>10. u \in World(n) /\ u.graph = g /\ u.entry = w.entry /\ u.now = t /\ u.out = w.out
  BY <1>1, <1>3 DEF World
<1> HIDE DEF u
<1>11. good(n, u)
  BY <1>3, <1>5, <1>9, <1>10, GoodGraph
<1>12. \A q \in Node : x \in justified(n, q, entries(n, u), clocks(n, u))
  BY <1>2 DEF justified
<1>13. good(n, broadcast(u, n, x))
  BY <1>2, <1>11, <1>12, GoodBroadcast
<1> QED
  BY <1>13 DEF u, g, x

\* A handler starts from the state of its node.
LEMMA GoodStart ==
  ASSUME GossipInv, NEW n \in Node
  PROVE  /\ good(n, world(n)) /\ entries(n, world(n)) = entry /\ clocks(n, world(n)) = now
         /\ world(n).graph = graph[n] /\ world(n).entry = entry[n] /\ world(n).now = now[n]
<1> DEFINE w == world(n)
<1>1. /\ w.graph = graph[n] /\ w.entry = entry[n] /\ w.now = now[n]
      /\ w.out = [p \in Node |-> <<>>]
  BY DEF world
<1>2. /\ graph[n] \in Graph /\ entry[n] \in [own(n) -> Entry] /\ now[n] \in Nat
      /\ now \in [Node -> Nat] /\ entry = [p \in Node |-> entry[p]]
  BY DEF GossipInv, typed
<1>3. [p \in Node |-> <<>>] \in [Node -> Seq(Message)]
  BY EmptySeq
<1>4. w \in World(n)
  BY <1>2, <1>3 DEF World, world
<1> HIDE DEF w
<1>5. entries(n, w) = entry
  <2>1. [entry EXCEPT ![n] = entry[n]] = entry
    BY <1>2
  <2> QED
    BY <1>1, <2>1 DEF entries
<1>6. clocks(n, w) = now
  BY <1>1, <1>2 DEF clocks
<1>7. sound(w.graph, entry, now) /\ heard(n, entry)
  BY <1>1 DEF GossipInv
<1>8. \A p \in Node : w.out[p] \in Seq(justified(n, p, entry, now))
  BY <1>1, EmptySeq
<1>9. \A p \in Node : now[p] <= now[p]
  <2> TAKE p \in Node
  <2>1. now[p] \in Nat
    BY <1>2
  <2> QED
    BY <2>1
<1>10. later(entry, now, entry, now)
  BY <1>9, Zenon DEF later
<1>11. graph_grows(graph[n], w.graph)
  <2>1. \A c \in Channel, p \in Node : graph[n].policy[c][p] \in Nat
    BY <1>2 DEF Graph
  <2> QED
    BY <1>1, <2>1 DEF graph_grows
<1>12. good(n, w)
  BY <1>4, <1>5, <1>6, <1>7, <1>8, <1>10, <1>11 DEF good
<1> QED
  BY <1>1, <1>5, <1>6, <1>12 DEF w

\* A message that m may have sent leaves n in a good world.
LEMMA GoodHandling ==
  ASSUME GossipInv, NEW m \in Node, NEW n \in Node, NEW x \in justified(m, n, entry, now)
  PROVE  good(n, handle_message(world(n), n, x))
<1> DEFINE w == world(n)
<1>1. /\ good(n, w) /\ entries(n, w) = entry /\ clocks(n, w) = now
      /\ w.graph = graph[n] /\ w.entry = entry[n] /\ w.now = now[n]
  BY GoodStart
<1>2. w \in World(n) /\ now \in [Node -> Nat] /\ now[n] \in Nat /\ now[n] <= now[n]
  <2>1. w \in World(n) /\ now \in [Node -> Nat]
    BY <1>1 DEF good, GossipInv, typed
  <2>2. now[n] \in Nat
    BY <2>1
  <2> QED
    BY <2>1, <2>2
<1> HIDE DEF w
<1>3. x \in Message
  BY DEF justified
<1>4. /\ x.type = "announcement_signatures" => x.channel \in Channel
      /\ x.type = "channel_announcement" => x.channel \in Channel /\ x = channel_announcement(x.channel)
      /\ x.type = "channel_update" =>
           /\ x.channel \in Channel /\ x.from \in Node /\ x.timestamp \in Nat
           /\ x = channel_update(x.channel, x.from, x.timestamp)
      /\ x.type = "node_announcement" =>
           x.node \in Node /\ x.timestamp \in Nat /\ x = node_announcement(x.node, x.timestamp)
      /\ x.type \in {"announcement_signatures", "channel_announcement", "channel_update",
                     "node_announcement"}
  BY <1>3 DEF Message, channel_announcement, channel_update, node_announcement
<1>5. CASE x.type = "announcement_signatures"
  <2>1. /\ x.channel \in own(n) /\ ends(x.channel) \ {n} = {m}
        /\ entry[m][x.channel].sent_announcement_sigs
    BY <1>4, <1>5, ChannelEnds DEF justified, own
  <2>2. good(n, on_announcement_signatures(w, n, x.channel))
    BY <1>1, <2>1, GoodMarks
  <2> QED
    BY <1>5, <2>2 DEF handle_message, w
<1>6. CASE x.type = "channel_announcement"
  <2>1. both_signed(entries(n, w), x.channel)
    BY <1>1, <1>6 DEF justified
  <2>2. good(n, broadcast([w EXCEPT !.graph = apply_channel_announcement(@, x.channel)], n,
                          channel_announcement(x.channel)))
    BY <1>1, <1>4, <1>6, <2>1, GoodAnnouncement
  <2>3. good(n, broadcast([w EXCEPT !.graph = apply_channel_announcement(@, x.channel)], n, x))
    BY <1>4, <1>6, <2>2
  <2> QED
    BY <1>1, <1>6, <2>3 DEF handle_message, w
<1>7. CASE x.type = "channel_update"
  <2>1. ASSUME accepts_update(w.graph, x)
        PROVE  good(n, broadcast([w EXCEPT !.graph = apply_channel_update(@, x)], n, x))
    <3> DEFINE c == x.channel p == x.from s == x.timestamp t == now[n]
    <3>1. c \in Channel /\ p \in Node /\ s \in Nat /\ x = channel_update(c, p, s) /\ t \in Nat
      BY <1>2, <1>4, <1>7
    <3>2. c \in w.graph.channels /\ w.graph.policy[c][p] < s /\ w.graph.policy[c][p] \in Nat
      BY <1>2, <2>1, <3>1 DEF accepts_update, World, Graph
    <3>3. w.graph.policy[c][p] <= s
      BY <3>1, <3>2
    <3>4. s <= [now EXCEPT ![n] = t][p]
      BY <1>2, <1>7 DEF justified
    <3>5. [w EXCEPT !.graph = apply_channel_update(@, x)]
            = [w EXCEPT !.graph = apply_channel_update(@, x), !.now = t]
      BY <1>1, <1>2 DEF World
    <3> HIDE DEF c, p, s, t
    <3>6. w.now <= t
      BY <1>1, <1>2 DEF t
    <3>7. good(n, broadcast([w EXCEPT !.graph = apply_channel_update(@, channel_update(c, p, s)),
                                      !.now = t], n, channel_update(c, p, s)))
      BY <1>1, <3>1, <3>2, <3>3, <3>4, <3>6, GoodUpdate
    <3> QED
      BY <3>1, <3>5, <3>7
  <2> QED
    BY <1>1, <1>7, <2>1 DEF handle_message, w
<1>8. CASE x.type = "node_announcement"
  <2> DEFINE p == x.node s == x.timestamp t == now[n]
  <2>1. /\ p \in Node /\ s \in Nat /\ x = node_announcement(p, s) /\ t \in Nat /\ w.now <= t
    BY <1>1, <1>2, <1>4, <1>8
  <2>2. [w EXCEPT !.graph = apply_node_announcement(@, x)]
          = [w EXCEPT !.graph = apply_node_announcement(@, x), !.now = t]
    BY <1>1, <1>2 DEF World
  <2> HIDE DEF p, s, t
  <2>3. good(n, broadcast([w EXCEPT !.graph = apply_node_announcement(@, node_announcement(p, s)),
                                    !.now = t], n, node_announcement(p, s)))
    BY <1>1, <2>1, GoodNode
  <2>4. good(n, broadcast([w EXCEPT !.graph = apply_node_announcement(@, x)], n, x))
    BY <2>1, <2>2, <2>3
  <2> QED
    BY <1>1, <1>8, <2>4 DEF handle_message, w
<1> QED
  BY <1>4, <1>5, <1>6, <1>7, <1>8

\* Once n is in a good world the invariant holds again.
LEMMA GoodStep ==
  ASSUME GossipInv, NEW n \in Node, NEW w, good(n, w), NEW wire,
         wire \in [Node -> [Node -> Seq(Message)]],
         \A p, q \in Node : wire[p][q] \in Seq(justified(p, q, entry, now)),
         becomes(n, w, wire)
  PROVE  /\ GossipInv'
         /\ \A p \in Node : graph_grows(graph[p], graph'[p])
<1> DEFINE E == entries(n, w) N == clocks(n, w)
<1>1. /\ w \in World(n) /\ w.graph \in Graph /\ sound(w.graph, E, N) /\ heard(n, E)
      /\ later(entry, now, E, N) /\ graph_grows(graph[n], w.graph)
      /\ \A p \in Node : w.out[p] \in Seq(justified(n, p, E, N)) /\ w.out[p] \in Seq(Message)
  BY DEF good, World
<1>2. typed(E, N) /\ typed(entry, now) /\ E[n] = w.entry /\ \A p \in Node \ {n} : E[p] = entry[p]
  BY <1>1, GoodTyped DEF GossipInv
<1>3. entry' = E /\ now' = N
  BY DEF becomes, entries, clocks
<1> HIDE DEF E, N
<1>4. graph \in [Node -> Graph] /\ graph' = [graph EXCEPT ![n] = w.graph]
  BY DEF GossipInv, becomes
<1>5. graph' \in [Node -> Graph] /\ graph'[n] = w.graph /\ \A p \in Node \ {n} : graph'[p] = graph[p]
  BY <1>1, <1>4
<1>6. \A p \in Node : sound(graph'[p], E, N)
  <2> SUFFICES ASSUME NEW p \in Node PROVE sound(graph'[p], E, N)
    OBVIOUS
  <2>1. CASE p = n
    BY <1>1, <1>5, <2>1
  <2>2. CASE p # n
    <3>1. sound(graph[p], entry, now) /\ graph[p] \in Graph
      BY <1>4 DEF GossipInv
    <3> DEFINE g == graph[p] F == entry M == now
    <3>2. typed(F, M) /\ typed(E, N) /\ later(F, M, E, N) /\ g \in Graph /\ sound(g, F, M)
      BY <1>1, <1>2, <3>1
    <3> HIDE DEF g, F, M
    <3>3. sound(g, E, N)
      BY <3>2, LaterSound
    <3> QED
      BY <1>5, <2>2, <3>3 DEF g
  <2> QED
    BY <2>1, <2>2
<1>7. \A p \in Node : heard(p, E)
  <2> SUFFICES ASSUME NEW p \in Node, p # n PROVE heard(p, E)
    BY <1>1
  <2>1. heard(p, entry)
    BY DEF GossipInv
  <2> SUFFICES ASSUME NEW c \in own(p), E[p][c].their_announcement_sigs, NEW q \in ends(c) \ {p}
               PROVE  E[q][c].sent_announcement_sigs
    BY Zenon DEF heard
  <2>2. q \in Node /\ c \in own(q)
    BY ChannelEnds DEF own
  <2>3. entry[q][c].sent_announcement_sigs
    BY <1>2, <2>1, Zenon DEF heard
  <2> QED
    BY <1>1, <2>2, <2>3, Zenon DEF later
<1>8. /\ net' \in [Node -> [Node -> Seq(Message)]]
      /\ \A p \in Node \ {n} : net'[p] = wire[p]
      /\ \A q \in Node : net'[n][q] = wire[n][q] \o w.out[q]
  <2> DEFINE f == [q \in Node |-> wire[n][q] \o w.out[q]]
  <2>1. net' = [wire EXCEPT ![n] = f]
    BY DEF becomes
  <2>2. \A q \in Node : wire[n][q] \o w.out[q] \in Seq(Message)
    BY <1>1, ConcatProperties
  <2>3. f \in [Node -> Seq(Message)] /\ \A q \in Node : f[q] = wire[n][q] \o w.out[q]
    BY <2>2
  <2> HIDE DEF f
  <2> QED
    BY <2>1, <2>3
<1>9. \A p, q \in Node : net'[p][q] \in Seq(justified(p, q, E, N))
  <2> SUFFICES ASSUME NEW p \in Node, NEW q \in Node
               PROVE  net'[p][q] \in Seq(justified(p, q, E, N))
    OBVIOUS
  <2> DEFINE s == wire[p][q] F == entry M == now
  <2>1. typed(F, M) /\ typed(E, N) /\ later(F, M, E, N) /\ s \in Seq(justified(p, q, F, M))
    BY <1>1, <1>2
  <2> HIDE DEF s, F, M
  <2>2. s \in Seq(justified(p, q, E, N))
    BY <2>1, LaterStreams
  <2>3. CASE p # n
    BY <1>8, <2>2, <2>3 DEF s
  <2>4. CASE p = n
    <3> DEFINE J == justified(n, q, E, N)
    <3>1. s \in Seq(J) /\ w.out[q] \in Seq(J) /\ net'[p][q] = s \o w.out[q]
      BY <1>1, <1>8, <2>2, <2>4 DEF s
    <3> HIDE DEF J
    <3>2. net'[p][q] \in Seq(J)
      BY <3>1, ConcatProperties
    <3> QED
      BY <2>4, <3>2 DEF J
  <2> QED
    BY <2>3, <2>4
<1>10. GossipInv'
  BY <1>2, <1>3, <1>5, <1>6, <1>7, <1>8, <1>9 DEF GossipInv
<1>11. \A p \in Node : graph_grows(graph[p], graph'[p])
  <2> SUFFICES ASSUME NEW p \in Node, p # n PROVE graph_grows(graph[p], graph'[p])
    BY <1>1, <1>5
  <2>1. \A c \in Channel, q \in Node : graph[p].policy[c][q] \in Nat
    BY <1>4 DEF Graph
  <2> QED
    BY <1>5, <2>1 DEF graph_grows
<1> QED
  BY <1>10, <1>11

-----------------------------------------------------------------------------
(* The theorems. *)

\* At the start nothing is announced and nothing on its way.
LEMMA InvInit ==
  Init => GossipInv
<1> SUFFICES ASSUME Init PROVE GossipInv
  OBVIOUS
<1> DEFINE e == [usable |-> FALSE, sent_announcement_sigs |-> FALSE,
                 their_announcement_sigs |-> FALSE, announced |-> FALSE]
           g == [channels |-> {}, policy |-> [c \in Channel |-> [p \in Node |-> 0]],
                 last_timestamp |-> [p \in Node |-> 0]]
<1>1. /\ e \in Entry /\ ~e.their_announcement_sigs
      /\ g \in Graph /\ g.channels = {} /\ \A c \in Channel, p \in Node : g.policy[c][p] = 0
  BY DEF Entry, Graph
<1>2. /\ graph = [n \in Node |-> g] /\ entry = [n \in Node |-> [c \in own(n) |-> e]]
      /\ net = [m \in Node |-> [n \in Node |-> <<>>]] /\ now = [n \in Node |-> 0]
  BY DEF Init, own
<1> HIDE DEF e, g
<1>3. graph \in [Node -> Graph] /\ \A n \in Node : graph[n] = g
  BY <1>1, <1>2
<1>4. /\ entry = [p \in Node |-> entry[p]] /\ \A p \in Node : entry[p] \in [own(p) -> Entry]
      /\ \A p \in Node : \A c \in own(p) : entry[p][c] = e
  BY <1>1, <1>2
<1>5. now \in [Node -> Nat] /\ \A p \in Node : now[p] = 0
  BY <1>2
<1>6. /\ net \in [Node -> [Node -> Seq(Message)]]
      /\ \A m, n \in Node : net[m][n] \in Seq(justified(m, n, entry, now))
  BY <1>2, EmptySeq
<1>7. sound(g, entry, now)
  BY <1>1, <1>5 DEF sound
<1>8. \A n \in Node : heard(n, entry)
  BY <1>1, <1>4, Zenon DEF heard
<1> QED
  BY <1>3, <1>4, <1>5, <1>6, <1>7, <1>8 DEF GossipInv, typed

\* Every step keeps the invariant, and lets the graphs only grow.
LEMMA InvNext ==
  GossipInv /\ [Next]_vars => GossipInv' /\ \A p \in Node : graph_grows(graph[p], graph'[p])
<1> DEFINE Goal == GossipInv' /\ \A p \in Node : graph_grows(graph[p], graph'[p])
<1> SUFFICES ASSUME GossipInv, [Next]_vars PROVE Goal
  OBVIOUS
<1>1. /\ net \in [Node -> [Node -> Seq(Message)]]
      /\ \A p, q \in Node : net[p][q] \in Seq(justified(p, q, entry, now))
      /\ \A n \in Node : entry[n] \in [own(n) -> Entry] /\ graph[n] \in Graph
      /\ now \in [Node -> Nat]
  BY DEF GossipInv, typed
<1>2. ASSUME UNCHANGED <<graph, entry, now>>, net' \in [Node -> [Node -> Seq(Message)]],
             \A p, q \in Node : net'[p][q] = net[p][q] \/ net'[p][q] = <<>>
      PROVE  Goal
  <2>1. \A p, q \in Node : net'[p][q] \in Seq(justified(p, q, entry, now))
    BY <1>1, <1>2, EmptySeq
  <2>2. GossipInv'
    BY <1>2, <2>1 DEF GossipInv
  <2>3. \A p \in Node : \A c \in Channel, q \in Node : graph[p].policy[c][q] \in Nat
    BY <1>1 DEF Graph
  <2>4. \A p \in Node : graph_grows(graph[p], graph[p])
    BY <2>3 DEF graph_grows
  <2> QED
    BY <1>2, <2>2, <2>4
<1>3. ASSUME NEW n \in Node, NEW w, good(n, w), becomes(n, w, net) PROVE Goal
  BY <1>1, <1>3, GoodStep
<1>4. ASSUME NEW n \in Node, ChannelReady(n) PROVE Goal
  <2>1. PICK c \in DOMAIN entry[n] : becomes(n, after_channel_ready_change(world(n), n, c), net)
    BY <1>4 DEF ChannelReady
  <2>2. c \in own(n)
    BY <1>1
  <2>3. good(n, after_channel_ready_change(world(n), n, c))
    BY <2>2, GoodStart, GoodMarks
  <2> QED
    BY <1>3, <2>1, <2>3
<1>5. ASSUME NEW n \in Node, Refresh(n) PROVE Goal
  <2> DEFINE t == now[n] + 1
             w == world(n)
  <2>1. /\ good(n, w) /\ w.graph = graph[n] /\ w.now = now[n] /\ entries(n, w) = entry
        /\ t \in Nat /\ w.now <= t /\ [now EXCEPT ![n] = t][n] = t
    <3>1. now[n] \in Nat
      BY <1>1
    <3> QED
      BY <1>1, <3>1, GoodStart
  <2>2. w \in World(n)
    BY <2>1 DEF good
  <2>3. ASSUME NEW c \in DOMAIN entry[n], graph[n].policy[c][n] > 0,
               becomes(n, broadcast([[w EXCEPT !.now = t] EXCEPT
                            !.graph = apply_channel_update(@, channel_update(c, n, t))], n,
                          channel_update(c, n, t)), net)
        PROVE  Goal
    <3>1. c \in Channel /\ c \in graph[n].channels /\ graph[n].policy[c][n] <= now[n]
      <4>1. c \in Channel
        BY <1>1 DEF own
      <4>2. sound(graph[n], entry, now)
        BY DEF GossipInv
      <4> QED
        BY <2>3, <4>1, <4>2 DEF sound
    <3>2. graph[n].policy[c][n] \in Nat /\ now[n] \in Nat
      BY <1>1, <3>1 DEF Graph
    <3>3. w.graph.policy[c][n] <= t /\ t <= t
      BY <2>1, <3>1, <3>2
    <3>4. [[w EXCEPT !.now = t] EXCEPT !.graph = apply_channel_update(@, channel_update(c, n, t))]
            = [w EXCEPT !.graph = apply_channel_update(@, channel_update(c, n, t)), !.now = t]
      BY <2>2 DEF World
    <3> HIDE DEF t, w
    <3>5. good(n, broadcast([w EXCEPT !.graph = apply_channel_update(@, channel_update(c, n, t)),
                                      !.now = t], n, channel_update(c, n, t)))
      BY <2>1, <3>1, <3>3, GoodUpdate
    <3> QED
      BY <1>3, <2>3, <3>4, <3>5
  <2>4. ASSUME becomes(n, broadcast([[w EXCEPT !.now = t] EXCEPT
                            !.graph = apply_node_announcement(@, node_announcement(n, t))], n,
                          node_announcement(n, t)), net)
        PROVE  Goal
    <3>1. [[w EXCEPT !.now = t] EXCEPT !.graph = apply_node_announcement(@, node_announcement(n, t))]
            = [w EXCEPT !.graph = apply_node_announcement(@, node_announcement(n, t)), !.now = t]
      BY <2>2 DEF World
    <3> HIDE DEF t, w
    <3>2. good(n, broadcast([w EXCEPT !.graph = apply_node_announcement(@, node_announcement(n, t)),
                                      !.now = t], n, node_announcement(n, t)))
      BY <2>1, GoodNode
    <3> QED
      BY <1>3, <2>4, <3>1, <3>2
  <2> QED
    BY <1>5, <2>3, <2>4 DEF Refresh
<1>6. ASSUME NEW m \in Node, NEW n \in Node, Receive(m, n) PROVE Goal
  <2> DEFINE s == net[m][n]
             J == justified(m, n, entry, now)
             wire == [net EXCEPT ![m][n] = Tail(@)]
  <2>1. s \in Seq(J) /\ s # <<>> /\ s \in Seq(Message)
    BY <1>1, <1>6 DEF Receive
  <2>2. becomes(n, handle_message(world(n), n, Head(s)), wire)
    BY <1>6 DEF Receive
  <2> HIDE DEF J, s
  <2>3. Head(s) \in J /\ Tail(s) \in Seq(J) /\ Tail(s) \in Seq(Message)
    BY <2>1, HeadTailProperties
  <2>4. good(n, handle_message(world(n), n, Head(s)))
    BY <2>3, GoodHandling DEF J
  <2>5. /\ wire \in [Node -> [Node -> Seq(Message)]]
        /\ \A p, q \in Node : wire[p][q] = IF p = m /\ q = n THEN Tail(s) ELSE net[p][q]
    BY <1>1, <2>3 DEF s
  <2>6. \A p, q \in Node : wire[p][q] \in Seq(justified(p, q, entry, now))
    BY <1>1, <2>3, <2>5 DEF J
  <2> HIDE DEF wire
  <2> QED
    BY <2>2, <2>4, <2>5, <2>6, GoodStep
<1>7. ASSUME NEW l, Cut(l) PROVE Goal
  <2>1. /\ net' = [m \in Node |-> [n \in Node |-> IF {m, n} = l THEN <<>> ELSE net[m][n]]]
        /\ UNCHANGED <<graph, entry, now>>
    BY <1>7 DEF Cut
  <2>2. net' \in [Node -> [Node -> Seq(Message)]]
    BY <1>1, <2>1, EmptySeq
  <2>3. \A p, q \in Node : net'[p][q] = net[p][q] \/ net'[p][q] = <<>>
    BY <2>1
  <2> QED
    BY <1>2, <2>1, <2>2, <2>3
<1>8. ASSUME NEW l, Reconnect(l) PROVE Goal
  BY <1>1, <1>2, <1>8 DEF Reconnect
<1>9. CASE UNCHANGED vars
  BY <1>1, <1>2, <1>9 DEF vars
<1> QED
  BY <1>4, <1>5, <1>6, <1>7, <1>8, <1>9 DEF Next

\* In every network, a channel is in a graph only when both ends sent their signatures,

\* and a policy only for such a channel (maybe_announce_channel, finish_announcement and
\* the gossip arms of handle_message).
THEOREM AnnouncedByBothEnds ==
  Spec => []AnnouncedByBoth
<1>1. GossipInv => AnnouncedByBoth
  BY DEF GossipInv, sound, both_signed, AnnouncedByBoth
<1>2. Init => GossipInv
  BY InvInit
<1>3. GossipInv /\ [Next]_vars => GossipInv'
  BY InvNext
<1> QED
  BY <1>1, <1>2, <1>3, PTL DEF Spec

\* In every network, no graph forgets a channel or goes back to an older policy
\* (apply_channel_announcement and apply_channel_update, from whoever the message came).
THEOREM GraphsGrow ==
  Spec => GraphOnlyGrows
<1> DEFINE Growing == \A n \in Node :
             /\ graph[n].channels \subseteq graph'[n].channels
             /\ \A c \in Channel, p \in Node : graph[n].policy[c][p] <= graph'[n].policy[c][p]
<1>1. GossipInv /\ [Next]_vars => GossipInv' /\ [Growing]_vars
  BY InvNext DEF graph_grows
<1> QED
  BY <1>1, InvInit, PTL DEF Spec, GraphOnlyGrows
=============================================================================
