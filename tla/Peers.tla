-------------------------------- MODULE Peers --------------------------------
(***************************************************************************)
(* The connections between two nodes that have a channel (node/mod.rs):    *)
(* the table of peers, the index by node id, init, reestablishment, pings, *)
(* and what a read does with the messages in it.                           *)
(*                                                                         *)
(* A connection is dialed by either node and may be cut at any time; each  *)
(* node learns of that on its own, when its embedder calls                 *)
(* peer_disconnected.  The transport itself is the module Noise; here its  *)
(* acts are messages.  A "closing" message is one whose handler ignores it *)
(* with an error (ChannelError::Ignore), an "update" any other of the      *)
(* channel.                                                                *)
(***************************************************************************)
EXTENDS Integers, Sequences, FiniteSets, SequencesExt, Functions

CONSTANTS
  Node,         \* the two nodes
  Conn,         \* bound: the connections, 1..k, used in order
  MaxUpdates,   \* bound: channel messages that the nodes send
  Ignores       \* whether channel messages may be ignored with an error

ASSUME PeersAssumption ==
  /\ Cardinality(Node) = 2
  /\ Ignores \in BOOLEAN /\ MaxUpdates \in Nat

Remote(n) == CHOOSE m \in Node : m # n

VARIABLES
  peers,        \* peers[n]: the Peer records of n, by connection
  by_node_id,   \* by_node_id[n]: the connection under which n has its peer, if any
  wire,         \* wire[n][c]: sent by n on c and not yet read
  open,         \* the connections that carry data
  dialed,       \* how many connections have been used
  connected,    \* connected[n]: those announced by PeerConnected, not PeerDisconnected
  reestablished,\* reestablished[n]: those on which n has sent channel_reestablish
  updates,      \* how many channel messages were sent
  dropped,      \* dropped[n]: messages of an open connection that n read and never handled
  compatible,   \* compatible[n]: n supports the features and chain of its peer
  overlapped    \* history: a node dialed before both had noticed the end of a connection

vars == <<peers, by_node_id, wire, open, dialed, connected, reestablished, updates, dropped,
          compatible, overlapped>>

None == {}
Some(x) == {x}

new_peer(state) ==
  [transport |-> state, init_sent |-> FALSE, init_received |-> FALSE, awaiting_pong |-> FALSE,
   pinged |-> FALSE]

is_ready(p) == p.transport = "Ready" /\ p.init_sent /\ p.init_received

\* An inbound connection has a node id once the handshake is over.
identified(p) == p.transport # "InboundHandshake"

-----------------------------------------------------------------------------
(* Handlers take and return w: the tables of one node, what it writes on   *)
(* the connection, and whether it goes on.                                 *)

\* Mutant of peer_disconnected: the index keeps the connection.
peer_disconnected_indexed(w, c) ==
  IF c \notin DOMAIN w.peers THEN w
  ELSE [w EXCEPT !.peers = Restrict(@, DOMAIN @ \ {c}), !.connected = @ \ {c}]

peer_disconnected(w, c) ==
  IF c \notin DOMAIN w.peers THEN w
  ELSE [w EXCEPT !.peers = Restrict(@, DOMAIN @ \ {c}),
                 !.by_node_id = IF identified(w.peers[c]) THEN None ELSE @,
                 !.connected = @ \ {c}]

send_to_peer(w, msg) == [w EXCEPT !.out = Append(@, msg)]
fails(w) == [w EXCEPT !.ok = FALSE]

\* Mutant of become_ready: init is left to a later call.
become_ready_silent(w, c) ==
  [w EXCEPT !.peers[c].transport = "Ready", !.by_node_id = Some(c)]

\* Node::peer_input when the transport has become ready, with send_init.
become_ready(w, c) ==
  send_to_peer([w EXCEPT !.peers[c].transport = "Ready", !.peers[c].init_sent = TRUE,
                         !.by_node_id = Some(c)], "init")

on_init(n, w, c) ==
  IF ~compatible[n] THEN peer_disconnected(send_to_peer(w, "warning"), c)
  ELSE LET v == [w EXCEPT !.peers[c].init_received = TRUE]
       IN  IF is_ready(v.peers[c])
           THEN send_to_peer([v EXCEPT !.connected = @ \cup {c},
                                       !.reestablished = @ \cup {c}], "reestablish")
           ELSE v

\* Node::with_channel: the channel is found only on the indexed connection.
with_channel(w, c, ignored) ==
  IF w.by_node_id # Some(c) \/ ignored THEN fails(w) ELSE w

handle_message(n, w, c, msg) ==
  CASE msg = "act1" -> send_to_peer(w, "act2")
    [] msg = "act2" -> become_ready(send_to_peer(w, "act3"), c)
    [] msg = "act3" -> become_ready(w, c)
    [] msg = "init" -> IF c \in DOMAIN w.peers THEN on_init(n, w, c) ELSE fails(w)
    [] msg = "ping" -> IF c \in DOMAIN w.peers THEN send_to_peer(w, "pong") ELSE fails(w)
    [] msg = "pong" -> IF c \in DOMAIN w.peers
                       THEN [w EXCEPT !.peers[c].awaiting_pong = FALSE] ELSE w
    [] msg = "warning" -> w
    [] msg \in {"reestablish", "update"} -> with_channel(w, c, FALSE)
    [] msg = "closing" -> with_channel(w, c, TRUE)

\* The loop of Node::peer_input: an error ends it, and the rest of the read is gone.
peer_input(n, w, c, messages) ==
  FoldLeft(LAMBDA v, msg : IF v.ok THEN handle_message(n, v, c, msg)
                           ELSE [v EXCEPT !.skipped = Append(@, msg)],
           w, messages)

tables(n) ==
  [peers |-> peers[n], by_node_id |-> by_node_id[n], connected |-> connected[n],
   reestablished |-> reestablished[n], out |-> <<>>, ok |-> TRUE, skipped |-> <<>>]

\* The tables of n become those of w, without what goes on the wire.
becomes(n, w) ==
  /\ peers' = [peers EXCEPT ![n] = w.peers]
  /\ by_node_id' = [by_node_id EXCEPT ![n] = w.by_node_id]
  /\ connected' = [connected EXCEPT ![n] = w.connected]
  /\ reestablished' = [reestablished EXCEPT ![n] = w.reestablished]

-----------------------------------------------------------------------------
Init ==
  /\ peers = [n \in Node |-> <<>>] /\ by_node_id = [n \in Node |-> None]
  /\ wire = [n \in Node |-> [c \in Conn |-> <<>>]]
  /\ open = {} /\ dialed = 0
  /\ connected = [n \in Node |-> {}] /\ reestablished = [n \in Node |-> {}]
  /\ updates = 0 /\ dropped = [n \in Node |-> <<>>]
  /\ compatible \in [Node -> BOOLEAN] /\ overlapped = FALSE

\* n calls connect_outbound, and the other node accept_inbound.
connect_outbound(n) ==
  /\ dialed + 1 \in Conn
  /\ LET c == dialed + 1 IN
     /\ dialed' = c /\ open' = open \cup {c}
     /\ peers' = [peers EXCEPT
          ![n] = [d \in DOMAIN @ \cup {c} |->
                    IF d = c THEN new_peer("OutboundHandshake") ELSE @[d]],
          ![Remote(n)] = [d \in DOMAIN @ \cup {c} |->
                    IF d = c THEN new_peer("InboundHandshake") ELSE @[d]]]
     /\ by_node_id' = [by_node_id EXCEPT ![n] = Some(c)]
     /\ wire' = [wire EXCEPT ![n][c] = <<"act1">>]
  /\ overlapped' = (overlapped \/ \E m \in Node : DOMAIN peers[m] # {})
  /\ UNCHANGED <<connected, reestablished, updates, dropped, compatible>>

Read(n, c) ==
  /\ c \in open /\ c \in DOMAIN peers[n]
  /\ \E k \in 1..Len(wire[Remote(n)][c]) :
       LET w == peer_input(n, tables(n), c, SubSeq(wire[Remote(n)][c], 1, k))
       IN  /\ becomes(n, w)
           /\ wire' = [wire EXCEPT ![Remote(n)][c] = SubSeq(@, k + 1, Len(@)),
                                   ![n][c] = @ \o w.out]
           /\ dropped' = [dropped EXCEPT ![n] = @ \o w.skipped]
  /\ UNCHANGED <<open, dialed, updates, compatible, overlapped>>

\* The embedder closes the connection that n has given up, or the network does.
Cut(c) ==
  /\ c \in open
  /\ open' = open \ {c}
  /\ wire' = [n \in Node |-> [wire[n] EXCEPT ![c] = <<>>]]
  /\ UNCHANGED <<peers, by_node_id, dialed, connected, reestablished, updates, dropped,
                 compatible, overlapped>>

Disconnected(n, c) ==
  /\ c \notin open /\ c \in DOMAIN peers[n]
  /\ becomes(n, peer_disconnected(tables(n), c))
  /\ UNCHANGED <<wire, open, dialed, updates, dropped, compatible, overlapped>>

\* Any call that ends in Node::send_to_node; without an index entry it is an error.
SendToNode(n) ==
  /\ updates < MaxUpdates
  /\ \E c \in by_node_id[n] : peers[n][c].transport = "Ready" /\
       \E msg \in IF Ignores THEN {"update", "closing"} ELSE {"update"} :
         wire' = [wire EXCEPT ![n][c] = IF c \in open THEN Append(@, msg) ELSE @]
  /\ updates' = updates + 1
  /\ UNCHANGED <<peers, by_node_id, open, dialed, connected, reestablished, dropped,
                 compatible, overlapped>>

\* Node::tick; bound: once per connection.
tick(n) ==
  LET ready == {c \in DOMAIN peers[n] : is_ready(peers[n][c]) /\ ~peers[n][c].pinged} IN
  /\ ready # {}
  /\ peers' = [peers EXCEPT ![n] = [c \in DOMAIN @ |->
       IF c \in ready THEN [@[c] EXCEPT !.awaiting_pong = TRUE, !.pinged = TRUE] ELSE @[c]]]
  /\ wire' = [wire EXCEPT ![n] = [c \in Conn |->
       IF c \in ready \cap open THEN Append(@[c], "ping") ELSE @[c]]]
  /\ UNCHANGED <<by_node_id, open, dialed, connected, reestablished, updates, dropped,
                 compatible, overlapped>>

Next ==
  \/ \E n \in Node : connect_outbound(n) \/ SendToNode(n) \/ tick(n)
  \/ \E n \in Node, c \in Conn : Read(n, c) \/ Disconnected(n, c)
  \/ \E c \in Conn : Cut(c)

Spec == Init /\ [][Next]_vars

\* Embedders read their sockets and report the ones that are gone: neither a message on
\* an open connection nor the end of a connection goes unnoticed for ever.
FairSpec ==
  /\ Spec
  /\ \A n \in Node, c \in Conn :
       /\ []<>(c \notin open \/ c \notin DOMAIN peers[n] \/ wire[Remote(n)][c] = <<>>)
       /\ []<>(c \in open \/ c \notin DOMAIN peers[n])

-----------------------------------------------------------------------------
(* Properties. *)

\* The index never names a connection that is gone: however connections overlap, every
\* call that sends finds a peer or is refused.
IndexIsLive == \A n \in Node : by_node_id[n] \subseteq DOMAIN peers[n]

reachable == \A n \in Node : connected[n] # {} => by_node_id[n] # None

\* A peer that was announced as connected, and not as disconnected, has an index
\* entry, without which nothing can be sent to it, as long as no connection is made
\* before the end of the last one was noticed.
ConnectedIsReachable == ~overlapped => reachable

\* However connections overlap.  The end of one connection removes the entry of
\* another that was made before the end was noticed.
OverlapIsReachable == reachable

\* BOLT 1: init is the first message on a connection, before anything that the channel
\* or a timer sends.
InitComesFirst ==
  \A n \in Node, c \in open :
    LET m == Remote(n)
        begun == c \notin DOMAIN peers[m] \/ peers[m][c].init_received
    IN  \A i \in DOMAIN wire[n][c] :
          wire[n][c][i] \in {"act1", "act2", "act3", "init"} \/ begun
            \/ \E j \in 1..(i - 1) : wire[n][c][j] = "init"

\* What the node sends goes to a peer that is there, and init before the rest.
SendingIsSound == IndexIsLive /\ ConnectedIsReachable /\ InitComesFirst

sound == ~overlapped /\ \A n \in Node : compatible[n]

\* What is read is handled, one message after the other, while no handler fails.
EveryMessageIsHandled == sound => \A n \in Node : dropped[n] = <<>>

\* The connection that is not cut any more comes to be ready on both sides, with the
\* channel reestablished and no ping left unanswered.
ConnectionBecomesReady ==
  <>[](sound => \A c \in open : \A n \in Node :
         /\ c \in connected[n] /\ c \in reestablished[n] /\ by_node_id[n] = Some(c)
         /\ ~peers[n][c].awaiting_pong)

\* BOLT 1: nothing but init is sent before the peer's init has been received.  The
\* index names a connection from the end of the handshake on.
WaitsForInit ==
  \A n \in Node, c \in open :
    c \in DOMAIN peers[n] /\ (\E i \in DOMAIN wire[n][c] : wire[n][c][i] = "update") =>
      peers[n][c].init_received
=============================================================================
