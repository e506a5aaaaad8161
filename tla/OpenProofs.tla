----------------------------- MODULE OpenProofs -----------------------------
(***************************************************************************)
(* Proofs about ChannelOpen, for every configuration of the two nodes, all *)
(* terms and any loss of connections: the funding transaction goes out     *)
(* only when both parties can take the money out again, no open fails that *)
(* was not declined or closed, and the channel opens into the dance of     *)
(* ChannelDance.                                                           *)
(***************************************************************************)
EXTENDS OpenStages, TLAPS

-----------------------------------------------------------------------------
(* Steps before the first signatures. *)

\* The streams after n has sent its first x.
LEMMA FirstSent ==
  ASSUME NEW g, NEW t, NEW tx, NEW o, NEW a, NEW ty, NEW p, NEW b, NEW w,
         streams(g, t, tx, o, a, w), later(tx, o, a, ty, p, b), kept(o, a, p, b), stays(o, p),
         NEW n \in Party, NEW x,
         (n = "opener" /\ x = proposal(g, t)) \/ (n = "accepter" /\ x = signing(t)),
         x \notin may(g, t, tx, o, a, n), x \in may(g, t, ty, p, b, n),
         NEW v, v = grown(w, n, <<x>>)
  PROVE  streams(g, t, ty, p, b, v)
<1> DEFINE S(m) == may(g, t, tx, o, a, m)
           T(m) == may(g, t, ty, p, b, m)
<1>1. streams(g, t, ty, p, b, w)
  BY LaterStreams
<1>2. /\ w = [m \in Party |-> w[m]] /\ w[n] \in Seq(S(n)) /\ \A m \in Party : w[m] \in Seq(T(m))
      /\ single(w["opener"], proposal(g, t)) /\ single(w["accepter"], signing(t))
  BY <1>1 DEF streams
<1>3. S(n) \cup {x} \subseteq T(n) /\ x \notin S(n)
  BY MayGrow, Zenon
<1>4. v[n] = w[n] \o <<x>> /\ (\A m \in Party : m # n => v[m] = w[m]) /\ v = [m \in Party |-> v[m]]
  BY <1>2, Zenon DEF grown
<1> HIDE DEF S, T
<1>5. v[n] \in Seq(S(n) \cup {x}) /\ single(v[n], x)
  <2> DEFINE q == w[n]
             R == S(n)
  <2>1. q \in Seq(R) /\ x \notin R /\ v[n] = q \o <<x>>
    BY <1>2, <1>3, <1>4, Zenon
  <2> HIDE DEF q, R
  <2>2. q \o <<x>> \in Seq(R \cup {x}) /\ single(q \o <<x>>, x)
    BY <2>1, SendFirst, Zenon
  <2> QED
    BY <2>1, <2>2, Zenon DEF R
<1>6. v[n] \in Seq(T(n))
  BY <1>3, <1>5, SeqMonotone
<1>7. \A m \in Party : v[m] \in Seq(T(m))
  BY <1>2, <1>4, <1>6, Zenon
<1>8. single(v["opener"], proposal(g, t)) /\ single(v["accepter"], signing(t))
  BY <1>2, <1>4, <1>5, PartyFacts, Zenon
<1> QED
  BY <1>4, <1>7, <1>8, Zenon DEF streams, T

\* x is the one message whose reader takes back what it says.
only(g, t, o, a, p, b, n, x) ==
  \/ n = "accepter" /\ x = proposal(g, t) /\ stays(o, p)
  \/ n = "opener" /\ x = signing(t) /\ kept(o, a, p, b)

\* The streams after n has read the only x of its peer.
LEMMA OnlyRead ==
  ASSUME NEW g, NEW t, NEW tx, NEW o, NEW a, NEW ty, NEW p, NEW b, NEW w,
         streams(g, t, tx, o, a, w), later(tx, o, a, ty, p, b), NEW n \in Party, NEW x,
         only(g, t, o, a, p, b, n, x),
         w[Peer(n)] # <<>>, Head(w[Peer(n)]) = x, NEW v, v = taken(w, n)
  PROVE  streams(g, t, ty, p, b, v)
<1> DEFINE S(m) == may(g, t, tx, o, a, m)
           T(m) == may(g, t, ty, p, b, m)
           k == Peer(n)
<1>1. /\ w = [m \in Party |-> w[m]] /\ \A m \in Party : w[m] \in Seq(S(m))
      /\ single(w["opener"], proposal(g, t)) /\ single(w["accepter"], signing(t))
  BY DEF streams
<1>2. k \in Party /\ k # n /\ single(w[k], x)
  BY <1>1, PartyFacts DEF only
<1>3. \A m : S(m) \ {x} \subseteq T(m)
  BY MayGrow, Zenon DEF only
<1>4. x \notin S(n)
  BY MessageSays, Kinds DEF only
<1>5. v[k] = Tail(w[k]) /\ v[n] = w[n] /\ v = [m \in Party |-> v[m]]
  BY <1>1, <1>2, Zenon DEF taken
<1>6. Party = {n, k}
  BY PartyFacts
<1> HIDE DEF S, T, k
<1>7. /\ v[k] \in Seq(S(k) \ {x}) /\ \A y : single(w[k], y) => single(v[k], y)
  <2> DEFINE q == w[k]
             R == S(k)
  <2>1. q \in Seq(R) /\ q # <<>> /\ v[k] = Tail(q) /\ Head(q) = x /\ single(q, x)
    BY <1>1, <1>2, <1>5 DEF k
  <2> HIDE DEF q, R
  <2>2. Tail(q) \in Seq(R \ {x}) /\ \A y : single(q, y) => single(Tail(q), y)
    BY <2>1, ReadOne, Zenon
  <2> QED
    BY <2>1, <2>2, Zenon DEF q, R
<1>8. v[k] \in Seq(T(k))
  BY <1>3, <1>7, SeqMonotone
<1>9. v[n] \in Seq(T(n))
  <2>1. S(n) \subseteq T(n)
    BY <1>3, <1>4
  <2> QED
    BY <1>1, <1>5, <2>1, SeqMonotone
<1>10. single(v["opener"], proposal(g, t)) /\ single(v["accepter"], signing(t))
  BY <1>1, <1>5, <1>6, <1>7, PartyFacts, Zenon
<1> QED
  BY <1>5, <1>6, <1>8, <1>9, <1>10, SMTT(20) DEF streams, T

\* The channel a party starts with.
LEMMA NewFormed ==
  ASSUME OpenInv, NEW n \in Party, NEW s, NEW l, NEW p, NEW c,
         \/ n = "opener" /\ s = "OpenSent" /\ l = NoLimits /\ p = {}
         \/ n = "accepter" /\ s = "AcceptSent" /\ l = imposed(config, terms, "opener") /\ p = {0},
         c = new_channel(n, s, imposed(config, terms, n), l, p)
  PROVE  /\ formed(config, terms, n, c) /\ c.state = s /\ c.counterparty_current_point = p
         /\ ~c.channel_ready_sent /\ ~ends(c) /\ c # NoChannel
<1>1. config \in [Party -> Configs] /\ terms \in Terms
  BY DEF OpenInv
<1>2. imposed(config, terms, n) \in Limits /\ imposed(config, terms, "opener") \in Limits
  BY <1>1, ImposedType, PartyFacts
<1>3. NoLimits \in Limits
  BY DEF NoLimits, Limits
<1>4. share(terms, n) \in Int /\ share(terms, Peer(n)) \in Int
  BY <1>1, FirstType, PartyFacts
<1>5. /\ c.state = s /\ c.channel_id = "temporary" /\ c.holder = imposed(config, terms, n)
      /\ c.counterparty = l /\ c.counterparty_current_point = p
      /\ c.current_holder_commitment = {} /\ c.current_counterparty_commitment = {}
      /\ ~c.channel_ready_sent /\ ~c.channel_ready_received
      /\ ~c.shutdown_sent /\ ~c.shutdown_received
  BY DEF new_channel, None
<1>6. c.to_holder_msat = share(terms, n) /\ c.to_counterparty_msat = share(terms, Peer(n))
  BY PartyFacts DEF new_channel, share
<1>7. c \in Channel
  <2>1. /\ c = [state |-> s, channel_id |-> "temporary", holder |-> imposed(config, terms, n),
                counterparty |-> l, to_holder_msat |-> share(terms, n),
                to_counterparty_msat |-> share(terms, Peer(n)), funding_outpoint |-> {},
                counterparty_current_point |-> p, counterparty_next_point |-> {},
                current_holder_commitment |-> {}, current_counterparty_commitment |-> {},
                funding_confirmed |-> FALSE, channel_ready_sent |-> FALSE,
                channel_ready_received |-> FALSE, shutdown_sent |-> FALSE,
                shutdown_received |-> FALSE]
    BY PartyFacts, Zenon DEF new_channel, share, None
  <2>2. s \in State /\ l \in Limits /\ p \in SUBSET Nat
    BY <1>2, <1>3 DEF State
  <2>3. {} \in SUBSET {"funding"} /\ {} \in SUBSET Nat /\ {} \in SUBSET Commitment
    OBVIOUS
  <2> QED
    BY <1>2, <1>4, <2>1, <2>2, <2>3 DEF Channel
<1>8. c # NoChannel
  BY <1>7, Exists
<1>9. formed(config, terms, n, c)
  BY <1>5, <1>6, <1>7, PartyFacts DEF formed, signed, Funded
<1> QED
  BY <1>5, <1>8, <1>9 DEF ends

\* open_channel.
LEMMA OpenKeeps == ASSUME OpenInv, open_channel PROVE OpenInv'
<1> DEFINE g == config
           t == terms
           a == ch["accepter"]
           d == new_channel("opener", "OpenSent", imposed(g, t, "opener"), NoLimits, {})
           x == proposal(g, t)
<1>1. /\ ch["opener"] = NoChannel /\ ch' = [ch EXCEPT !["opener"] = d]
      /\ net' = grown(net, "opener", <<x>>)
      /\ t.push_msat <= t.funding_satoshis * MsatPerSat
      /\ UNCHANGED <<config, terms, funding_tx, connected, error>>
  BY DEF open_channel, sent, grown, proposal, imposed, None
<1>2. /\ formed(g, t, "opener", d) /\ d.state = "OpenSent" /\ d.counterparty_current_point = {}
      /\ ~d.channel_ready_sent /\ ~ends(d) /\ d # NoChannel
  BY NewFormed, PartyFacts
<1> HIDE DEF d
<1>3. /\ ch'["opener"] = d /\ ch'["accepter"] = a /\ ch' = [m \in Party |-> ch'[m]]
  BY <1>1, Parts, PartyFacts, Zenon
<1>4. channels(g, t, ch')
  BY <1>2, <1>3, Parts, PartyFacts DEF channels
<1>5. /\ ch["opener"].state = "None" /\ ~ends(ch["opener"]) /\ a = NoChannel /\ funding_tx = "none"
  BY <1>1, Parts DEF joined, stage, NoChannel, ends
<1>6. joined(g, t, funding_tx, d, a)
  BY <1>1, <1>2, <1>5 DEF joined, stage, Funded, NoChannel
<1>7. /\ later(funding_tx, ch["opener"], a, funding_tx, d, a) /\ kept(ch["opener"], a, d, a)
      /\ stays(ch["opener"], d)
  BY <1>5 DEF later, kept, stays, Funded
<1>8. x \notin may(g, t, funding_tx, ch["opener"], a, "opener")
  BY <1>5, MessageSays, Kinds
<1>9. x \in may(g, t, funding_tx, d, a, "opener")
  BY <1>2, <1>5, MayBe
<1>10. streams(g, t, funding_tx, ch["opener"], a, net) /\ excused(g, t, ch["opener"], a, error)
  BY DEF OpenInv, sound
<1> DEFINE o == ch["opener"]
<1> HIDE DEF a, o, x
<1>11. streams(g, t, funding_tx, d, a, net')
  <2>1. /\ streams(g, t, funding_tx, o, a, net) /\ later(funding_tx, o, a, funding_tx, d, a)
        /\ kept(o, a, d, a) /\ stays(o, d)
    BY <1>7, <1>10 DEF o
  <2>2. net' = grown(net, "opener", <<x>>)
    BY <1>1 DEF x
  <2>3. /\ x \notin may(g, t, funding_tx, o, a, "opener") /\ x = proposal(g, t)
        /\ x \in may(g, t, funding_tx, d, a, "opener")
    BY <1>8, <1>9 DEF o, x
  <2> QED
    BY <2>1, <2>2, <2>3, FirstSent, PartyFacts
<1>12. excused(g, t, d, a, error)
  BY <1>5, <1>10, Zenon DEF excused
<1> QED
  BY <1>1, <1>3, <1>4, <1>6, <1>11, <1>12 DEF OpenInv, sound

\* on_open_channel, declined.
LEMMA DeclineKeeps ==
  ASSUME OpenInv, NEW n \in Party, net[Peer(n)] # <<>>,
         net' = answered(n, <<failure("temporary")>>),
         UNCHANGED <<config, terms, ch, funding_tx, connected, error>>
  PROVE  OpenInv'
<1> DEFINE q == <<failure("temporary")>>
           u == IF connected THEN q ELSE <<>>
<1>1. q \in Seq(sends(config, terms, funding_tx, ch, n))
  BY Failures
<1> HIDE DEF q
<1>2. u \in Seq(sends(config, terms, funding_tx, ch, n)) /\ moves(funding_tx, ch, funding_tx, ch)
  BY <1>1, WhenConnected, Standing
<1>3. net' = exchanged(net, n, u)
  BY DEF answered, exchanged, q
<1>4. /\ sound(config, terms, funding_tx, ch, net, error) /\ channels(config, terms, ch)
      /\ joined(config, terms, funding_tx, ch["opener"], ch["accepter"])
      /\ excused(config, terms, ch["opener"], ch["accepter"], error)
  BY Parts
<1> HIDE DEF u
<1>5. sound(config, terms, funding_tx, ch, net', error)
  BY <1>2, <1>3, <1>4, Answers
<1> QED
  BY <1>5 DEF OpenInv

\* The streams after n has read the only x of its peer and answered u.
LEMMA OnlyAnswered ==
  ASSUME NEW g, NEW t, NEW tx, NEW o, NEW a, NEW ty, NEW p, NEW b, NEW w,
         streams(g, t, tx, o, a, w), later(tx, o, a, ty, p, b), NEW n \in Party, NEW x,
         only(g, t, o, a, p, b, n, x),
         w[Peer(n)] # <<>>, Head(w[Peer(n)]) = x,
         NEW u \in Seq(repeatable(g, t, ty, p, b, n)), NEW v,
         v = exchanged(w, n, u)
  PROVE  streams(g, t, ty, p, b, v)
<1> DEFINE r == taken(w, n)
<1>1. streams(g, t, ty, p, b, r)
  <2>1. r = taken(w, n)
    OBVIOUS
  <2> HIDE DEF r
  <2> QED
    BY <2>1, OnlyRead
<1>2. r[n] = w[n]
  <2>1. w = [m \in Party |-> w[m]]
    BY DEF streams
  <2> QED
    BY <2>1, PartyFacts DEF taken
<1>3. v = grown(r, n, u)
  BY <1>2, Zenon DEF grown, taken, exchanged
<1> HIDE DEF r
<1> QED
  BY <1>1, <1>3, SentStreams, Zenon

\* on_open_channel, accepted.
LEMMA AcceptKeeps ==
  ASSUME OpenInv, net["opener"] # <<>>, message("accepter") = proposal(config, terms),
         ch["opener"].state = "OpenSent", ch["accepter"] = NoChannel, NEW d,
         d = new_channel("accepter", "AcceptSent", imposed(config, terms, "accepter"),
                         imposed(config, terms, "opener"), {0}),
         ch' = [ch EXCEPT !["accepter"] = d],
         net' = answered("accepter", <<acceptance(config, terms)>>),
         UNCHANGED <<config, terms, funding_tx, connected, error>>
  PROVE  OpenInv'
<1> DEFINE g == config
           t == terms
           o == ch["opener"]
           a == ch["accepter"]
           q == <<acceptance(g, t)>>
           u == IF connected THEN q ELSE <<>>
<1>1. /\ formed(g, t, "accepter", d) /\ d.state = "AcceptSent" /\ d # NoChannel
      /\ ~d.channel_ready_sent /\ ~ends(d)
  BY NewFormed, PartyFacts
<1>2. /\ ch'["opener"] = o /\ ch'["accepter"] = d /\ ch' = [m \in Party |-> ch'[m]]
  BY Parts, PartyFacts, Zenon
<1>3. channels(g, t, ch')
  BY <1>1, <1>2, Parts, PartyFacts DEF channels
<1>4. o # NoChannel
  BY Exists DEF State
<1>5. joined(g, t, funding_tx, o, d)
  BY <1>1, <1>4, Parts DEF joined, Funded
<1>6. later(funding_tx, o, a, funding_tx, o, d) /\ stays(o, o)
  BY DEF later, stays, Funded, NoChannel, ends
<1>7. acceptance(g, t) \in repeatable(g, t, funding_tx, o, d, "accepter")
  BY <1>1, MayBe, Kinds DEF repeatable
<1>8. q \in Seq(repeatable(g, t, funding_tx, o, d, "accepter"))
  BY <1>7
<1> HIDE DEF q
<1>9. u \in Seq(repeatable(g, t, funding_tx, o, d, "accepter"))
  BY <1>8, WhenConnected, Zenon
<1>10. /\ net' = exchanged(net, "accepter", u)
       /\ net[Peer("accepter")] # <<>> /\ Head(net[Peer("accepter")]) = proposal(g, t)
  BY PartyFacts DEF answered, exchanged, q, message
<1>11. streams(g, t, funding_tx, o, a, net) /\ excused(g, t, o, a, error)
  BY DEF OpenInv, sound
<1>12. excused(g, t, o, d, error)
  BY <1>11, Zenon DEF excused, ends
<1> HIDE DEF o, a, u
<1>13. only(g, t, o, a, o, d, "accepter", proposal(g, t)) /\ "accepter" \in Party
  BY <1>6, PartyFacts DEF only
<1>14. streams(g, t, funding_tx, o, d, net')
  BY <1>6, <1>9, <1>10, <1>11, <1>13, OnlyAnswered
<1> QED
  BY <1>2, <1>3, <1>5, <1>12, <1>14 DEF OpenInv, sound

\* on_open_channel.
LEMMA OpenChannelKeeps == ASSUME OpenInv, on_open_channel PROVE OpenInv'
<1> DEFINE n == "accepter"
           m == message(n)
           l == limits(config[n], m.terms.funding_satoshis)
<1>1. /\ net[Peer(n)] # <<>> /\ m.type = "open_channel" /\ UNCHANGED <<config, terms, connected>>
  BY DEF on_open_channel, receives
<1>2. /\ m = proposal(config, terms) /\ ch["opener"].state = "OpenSent" /\ ch[n] = NoChannel
      /\ n \in Party /\ Peer(n) = "opener"
  BY <1>1, ReadSays, MessageSays, PartyFacts
<1>3. CASE dropped(n)
  BY <1>1, <1>2, <1>3, DroppedKeeps
<1>4. CASE /\ net' = answered(n, <<[type |-> "error", channel_id |-> "temporary"]>>)
           /\ UNCHANGED <<ch, funding_tx, reported, error>>
  BY <1>1, <1>2, <1>4, DeclineKeeps DEF failure
<1>5. CASE /\ ch' = [ch EXCEPT ![n] = new_channel(n, "AcceptSent", l, m.limits, Some(m.point))]
           /\ net' = answered(n, <<[type |-> "accept_channel", channel_id |-> "temporary",
                                    limits |-> l, minimum_depth |-> config[n].minimum_depth,
                                    point |-> 0]>>)
           /\ UNCHANGED <<funding_tx, reported, error>>
  <2>1. m.terms = terms /\ m.limits = imposed(config, terms, "opener") /\ m.point = 0
    BY <1>2 DEF proposal
  <2>2. l = imposed(config, terms, n) /\ Some(m.point) = {0}
    BY <2>1 DEF imposed, Some
  <2>3. net' = answered(n, <<acceptance(config, terms)>>)
    BY <1>5, <2>2 DEF acceptance
  <2>4. ch' = [ch EXCEPT ![n] = new_channel(n, "AcceptSent", imposed(config, terms, n),
                                            imposed(config, terms, "opener"), {0})]
    BY <1>5, <2>1, <2>2, Zenon
  <2> QED
    BY <1>1, <1>2, <1>5, <2>3, <2>4, AcceptKeeps, Zenon
<1> QED
  BY <1>3, <1>4, <1>5 DEF on_open_channel, accept_limits

\* on_accept_channel on the opener's channel.
LEMMA AcceptedFormed ==
  ASSUME OpenInv, NEW c, formed(config, terms, "opener", c), c.state = "OpenSent", NEW d,
         d = [c EXCEPT !.counterparty = imposed(config, terms, "accepter"),
                       !.counterparty_current_point = {0}]
  PROVE  /\ formed(config, terms, "opener", d) /\ d.state = "OpenSent" /\ d # NoChannel
         /\ d.channel_ready_sent = c.channel_ready_sent /\ (ends(c) => ends(d))
<1>1. c \in Channel /\ imposed(config, terms, "accepter") \in Limits
  BY ImposedType, PartyFacts DEF formed, OpenInv
<1> DEFINE x == {0}
<1>2. x \in SUBSET Nat /\ d = [c EXCEPT !.counterparty = imposed(config, terms, "accepter"),
                                        !.counterparty_current_point = x]
  OBVIOUS
<1> HIDE DEF x
<1>3. /\ d \in Channel /\ d.state = c.state /\ d.channel_id = c.channel_id /\ d.holder = c.holder
      /\ d.counterparty = imposed(config, terms, "accepter")
      /\ d.to_holder_msat = c.to_holder_msat
      /\ d.to_counterparty_msat = c.to_counterparty_msat
      /\ d.counterparty_current_point = x
      /\ d.current_holder_commitment = c.current_holder_commitment
      /\ d.current_counterparty_commitment = c.current_counterparty_commitment
      /\ d.shutdown_sent = c.shutdown_sent /\ d.shutdown_received = c.shutdown_received
      /\ d.channel_ready_received = c.channel_ready_received
      /\ d.channel_ready_sent = c.channel_ready_sent
      /\ d.counterparty_next_point = c.counterparty_next_point
  BY <1>1, <1>2, Zenon DEF Channel
<1>4. d # NoChannel
  BY <1>3, Exists
<1>5. formed(config, terms, "opener", d)
  BY <1>3, PartyFacts DEF formed, signed, x
<1> QED
  BY <1>3, <1>4, <1>5 DEF ends

\* on_accept_channel: the opener takes it, or declines what the two would not agree on.
LEMMA AcceptChannelKeeps == ASSUME OpenInv, on_accept_channel PROVE OpenInv'
<1> DEFINE n == "opener"
           m == message(n)
           g == config
           t == terms
           c == ch[n]
           a == ch["accepter"]
<1>1. net[Peer(n)] # <<>> /\ m.type = "accept_channel" /\ UNCHANGED <<config, terms, connected>>
  BY Zenon DEF on_accept_channel, receives
<1>2. m = acceptance(g, t) /\ a # NoChannel /\ n \in Party
  BY <1>1, ReadSays, MessageSays, PartyFacts
<1>3. m.channel_id = "temporary" /\ m.limits = imposed(g, t, "accepter") /\ m.point = 0
  BY <1>2 DEF acceptance
<1>4. CASE ~known(n)
  <2>1. dropped(n)
    BY <1>4 DEF on_accept_channel
  <2> QED
    BY <1>1, <1>2, <2>1, DroppedKeeps
<1>5. CASE known(n)
  <2>1. formed(g, t, n, c) /\ c.channel_id = "temporary" /\ c # NoChannel
    BY <1>2, <1>3, <1>5, Parts DEF known
  <2>2. c.state = "OpenSent"
    BY <2>1 DEF formed, signed, Channel, State
  <2>3. c.holder = imposed(g, t, n)
    BY <2>1 DEF formed
  <2>4. refuses_accept(c, m) <=> declined(g, t)
    BY <1>2, <2>2, <2>3 DEF refuses_accept, declined
  <2>5. CASE refuses_accept(c, m)
    <3>1. fail(n, "accept refused")
      BY <1>5, <2>5, Zenon DEF on_accept_channel
    <3> QED
      BY <1>1, <1>2, <1>3, <2>4, <2>5, <3>1, FailKeeps, Zenon DEF Why
  <2>6. CASE ~refuses_accept(c, m)
    <3> DEFINE d == [c EXCEPT !.counterparty = imposed(g, t, "accepter"),
                              !.counterparty_current_point = {0}]
               u == IF connected THEN <<>> ELSE <<>>
    <3>1. /\ ch' = [ch EXCEPT ![n] = d] /\ net' = answered(n, <<>>)
          /\ UNCHANGED <<funding_tx, error>>
      <4>1. /\ ch' = [ch EXCEPT ![n].counterparty = m.limits,
                                ![n].counterparty_current_point = Some(m.point)]
            /\ net' = answered(n, <<>>) /\ UNCHANGED <<funding_tx, error>>
        BY <1>5, <2>6 DEF on_accept_channel
      <4> QED
        BY <1>2, <1>3, <4>1, Parts, Zenon DEF Some
    <3>2. /\ formed(g, t, n, d) /\ d.state = "OpenSent" /\ d # NoChannel
          /\ d.channel_ready_sent = c.channel_ready_sent /\ (ends(c) => ends(d))
      <4> HIDE DEF c, m
      <4> QED
        BY <2>1, <2>2, AcceptedFormed, Zenon
    <3> HIDE DEF d
    <3>3. /\ ch'["opener"] = d /\ ch'["accepter"] = a /\ ch' = [k \in Party |-> ch'[k]]
      BY <3>1, Parts, PartyFacts, Zenon
    <3>4. channels(g, t, ch')
      BY <3>2, <3>3, Parts, PartyFacts DEF channels
    <3>5. joined(g, t, funding_tx, c, a)
      BY Parts
    <3>6. joined(g, t, funding_tx, d, a)
      BY <1>2, <2>1, <2>2, <2>4, <2>6, <3>2, <3>5 DEF joined, stage
    <3>7. moves(funding_tx, ch, funding_tx, ch')
      BY <1>2, <2>2, <3>2, <3>3 DEF moves, later, kept, stays, Funded
    <3>8. excused(g, t, ch'["opener"], ch'["accepter"], error)
      BY <3>7, Parts, ExcuseLasts
    <3>9. /\ net' = exchanged(net, n, u) /\ u \in Seq(sends(g, t, funding_tx, ch', n))
      BY <3>1 DEF answered, exchanged
    <3>10. joined(g, t, funding_tx, ch'["opener"], ch'["accepter"])
      BY <3>3, <3>6
    <3>11. sound(g, t, funding_tx, ch, net, error)
      BY Parts
    <3> DEFINE k == ch'
    <3> HIDE DEF u, c, m, a, k
    <3>12. sound(g, t, funding_tx, k, net', error)
      BY <1>1, <1>2, <3>4, <3>7, <3>8, <3>9, <3>10, <3>11, Answers DEF k
    <3> QED
      BY <1>1, <3>1, <3>12 DEF OpenInv, k
  <2> QED
    BY <2>5, <2>6
<1> QED
  BY <1>4, <1>5

\* The commitments a formed channel builds are the first ones.
LEMMA BuildsFirst ==
  ASSUME NEW g, NEW t, NEW n \in Party, NEW c, formed(g, t, n, c)
  PROVE  /\ build_holder_commitment_at(c, 0) = first(t, n)
         /\ c.counterparty_current_point = {0} =>
              build_counterparty_commitment_at(c, 0, point_of(c)) = first(t, Peer(n))
<1>1. c.to_holder_msat = share(t, n) /\ c.to_counterparty_msat = share(t, Peer(n))
  BY DEF formed
<1>2. Peer(Peer(n)) = n
  BY PartyFacts
<1>3. c.counterparty_current_point = {0} => point_of(c) = 0
  BY DEF point_of
<1> QED
  BY <1>1, <1>2, <1>3 DEF build_holder_commitment_at, build_counterparty_commitment_at, first

\* The channel after a step that takes or makes a first signature.
signs(c, s, f, x, y) ==
  [c EXCEPT !.state = s, !.channel_id = "final", !.funding_outpoint = f,
            !.current_holder_commitment = x, !.current_counterparty_commitment = y]

\* Which signatures a party has then.
signing_step(t, n, s, x) ==
  \/ s = "FundingCreatedSent" /\ n = "opener" /\ x = {}
  \/ s = "AwaitingChannelReady" /\ x = {first(t, n)}

LEMMA SignsType ==
  ASSUME NEW c \in Channel, NEW s \in State, NEW f \in SUBSET {"funding"},
         NEW x \in SUBSET Commitment, NEW y \in SUBSET Commitment
  PROVE  LET d == signs(c, s, f, x, y)
         IN  /\ d \in Channel /\ d.state = s /\ d.channel_id = "final" /\ d.holder = c.holder
             /\ d.counterparty = c.counterparty /\ d.to_holder_msat = c.to_holder_msat
             /\ d.to_counterparty_msat = c.to_counterparty_msat
             /\ d.counterparty_current_point = c.counterparty_current_point
             /\ d.current_holder_commitment = x /\ d.current_counterparty_commitment = y
             /\ d.shutdown_sent = c.shutdown_sent /\ d.shutdown_received = c.shutdown_received
             /\ d.channel_ready_received = c.channel_ready_received
             /\ d.channel_ready_sent = c.channel_ready_sent
             /\ d.counterparty_next_point = c.counterparty_next_point
  BY Zenon DEF Channel, signs

LEMMA SignedFormed ==
  ASSUME NEW g, NEW t, t \in Terms, NEW n \in Party, NEW c, formed(g, t, n, c),
         c.counterparty_current_point = {0},
         c.state \in {"OpenSent", "AcceptSent", "FundingCreatedSent"},
         NEW s, NEW f \in SUBSET {"funding"}, NEW x, signing_step(t, n, s, x)
  PROVE  LET d == signs(c, s, f, x, {first(t, Peer(n))})
         IN  /\ formed(g, t, n, d) /\ d.state = s /\ d # NoChannel
             /\ d.counterparty_current_point = {0}
             /\ d.channel_ready_sent = c.channel_ready_sent /\ (ends(c) => ends(d))
<1> DEFINE y == {first(t, Peer(n))}
           d == signs(c, s, f, x, y)
<1>1. c \in Channel
  BY DEF formed
<1>2. x \in SUBSET Commitment /\ y \in SUBSET Commitment
  <2>1. first(t, n) \in Commitment /\ first(t, Peer(n)) \in Commitment
    BY FirstType, PartyFacts
  <2> QED
    BY <2>1 DEF signing_step
<1>3. s \in State /\ s \notin {"Normal", "ShuttingDown"}
  BY DEF State, Funded, signing_step
<1> HIDE DEF y
<1>5. /\ d.state = s /\ d.channel_id = "final" /\ d.holder = c.holder
      /\ d.counterparty = c.counterparty /\ d.to_holder_msat = c.to_holder_msat
      /\ d.to_counterparty_msat = c.to_counterparty_msat
      /\ d.counterparty_current_point = c.counterparty_current_point
      /\ d.current_holder_commitment = x /\ d.current_counterparty_commitment = y
      /\ d.shutdown_sent = c.shutdown_sent /\ d.shutdown_received = c.shutdown_received
      /\ d.channel_ready_received = c.channel_ready_received
      /\ d.channel_ready_sent = c.channel_ready_sent
      /\ d.counterparty_next_point = c.counterparty_next_point
  BY <1>1, <1>2, <1>3, SignsType
<1>6. d \in Channel
  BY <1>1, <1>2, <1>3, SignsType
<1> HIDE DEF d
<1>7. d # NoChannel
  BY <1>6, Exists
<1>8. ~c.shutdown_received
  BY DEF formed
<1>9. signed(t, n, d)
  BY <1>3, <1>5 DEF signed, y, Funded, signing_step
<1>10. formed(g, t, n, d)
  BY <1>3, <1>5, <1>6, <1>8, <1>9 DEF formed, signing_step
<1> QED
  BY <1>5, <1>7, <1>10, SMTT(20) DEF ends, d, y

\* provide_funding_transaction.
LEMMA ProvideKeeps == ASSUME OpenInv, provide_funding_transaction PROVE OpenInv'
<1> DEFINE n == "opener"
           g == config
           t == terms
           c == ch[n]
           a == ch["accepter"]
           q == <<creation(t)>>
           u == IF connected THEN q ELSE <<>>
           d == signs(c, "FundingCreatedSent", {"funding"}, {}, {first(t, Peer(n))})
<1>1. c.state = "OpenSent" /\ c.counterparty_current_point # {} /\ n \in Party
  BY PartyFacts DEF provide_funding_transaction, None
<1>2. c # NoChannel
  BY <1>1, Exists DEF State
<1>3. formed(g, t, n, c) /\ joined(g, t, funding_tx, c, a)
  BY <1>1, <1>2, Parts, SMTT(20)
<1>4. c.counterparty_current_point = {0} /\ c.current_holder_commitment = {} /\ c \in Channel
  BY <1>1, <1>3 DEF formed, signed
<1>5. build_counterparty_commitment_at(c, 0, point_of(c)) = first(t, Peer(n))
  BY <1>1, <1>3, <1>4, BuildsFirst
<1>6. /\ ch' = [ch EXCEPT ![n] = d] /\ net' = sent(n, q) /\ funding_tx' = "held"
      /\ UNCHANGED <<config, terms, connected, error>>
  <2> DEFINE x == first(t, Peer(n))
  <2>1. /\ ch' = [ch EXCEPT ![n] = [c EXCEPT !.state = "FundingCreatedSent", !.channel_id = "final",
                                             !.funding_outpoint = {"funding"},
                                             !.current_counterparty_commitment = {x}]]
        /\ net' = sent(n, <<[type |-> "funding_created", channel_id |-> "temporary",
                             signature |-> x]>>)
        /\ funding_tx' = "held" /\ UNCHANGED <<config, terms, connected, error>>
    BY <1>5, Zenon DEF provide_funding_transaction, held_tx, Some
  <2>2. <<[type |-> "funding_created", channel_id |-> "temporary", signature |-> x]>> = q
    BY PartyFacts DEF creation
  <2> HIDE DEF x, q
  <2>3. signs(c, "FundingCreatedSent", {"funding"}, {}, {x})
        = [c EXCEPT !.state = "FundingCreatedSent", !.channel_id = "final",
                    !.funding_outpoint = {"funding"}, !.current_counterparty_commitment = {x}]
    <3> HIDE DEF c
    <3> QED
      BY <1>4, Zenon DEF Channel, signs
  <2>4. d = [c EXCEPT !.state = "FundingCreatedSent", !.channel_id = "final",
                      !.funding_outpoint = {"funding"}, !.current_counterparty_commitment = {x}]
    BY <2>3 DEF x
  <2> HIDE DEF d
  <2> QED
    BY <2>1, <2>2, <2>4
<1>7. /\ formed(g, t, n, d) /\ d.state = "FundingCreatedSent" /\ d # NoChannel
      /\ d.counterparty_current_point = {0}
      /\ d.channel_ready_sent = c.channel_ready_sent /\ (ends(c) => ends(d))
  <2>1. t \in Terms /\ {"funding"} \in SUBSET {"funding"}
    BY DEF OpenInv
  <2> HIDE DEF c
  <2>3. /\ c.state \in {"OpenSent", "AcceptSent", "FundingCreatedSent"}
        /\ signing_step(t, n, "FundingCreatedSent", {})
    BY <1>1 DEF signing_step
  <2> QED
    BY <1>1, <1>3, <1>4, <2>1, <2>3, SignedFormed, Zenon
<1> HIDE DEF d
<1>8. ch'["opener"] = d /\ ch'["accepter"] = a /\ ch' = [k \in Party |-> ch'[k]]
  BY <1>6, Parts, PartyFacts, Zenon
<1>9. channels(g, t, ch')
  BY <1>7, <1>8, Parts, PartyFacts DEF channels
<1>10. a # NoChannel /\ funding_tx = "none" /\ ~c.channel_ready_sent
  BY <1>1, <1>2, <1>3, <1>4 DEF joined, stage
<1>11. joined(g, t, "held", d, a)
  BY <1>1, <1>2, <1>3, <1>4, <1>7, <1>10 DEF joined, stage, Funded
<1>12. moves(funding_tx, ch, "held", ch')
  BY <1>1, <1>7, <1>8, <1>10 DEF moves, later, kept, stays, Funded
<1>13. creation(t) \in sends(g, t, "held", ch', n)
  BY <1>7, <1>8, MayBe, Kinds DEF sends, repeatable
<1>14. q \in Seq(sends(g, t, "held", ch', n))
  BY <1>13
<1> HIDE DEF q
<1>15. u \in Seq(sends(g, t, "held", ch', n)) /\ net' = grown(net, n, u)
  BY <1>6, <1>14, WhenConnected DEF sent, grown
<1>16. sound(g, t, funding_tx, ch, net, error) /\ joined(g, t, "held", ch'["opener"], ch'["accepter"])
  BY <1>8, <1>11, Parts
<1> DEFINE k == ch'
<1> HIDE DEF c, a, u, k
<1>17. sound(g, t, "held", k, net', error)
  BY <1>1, <1>9, <1>12, <1>15, <1>16, Sends DEF k
<1> QED
  BY <1>6, <1>17 DEF OpenInv, k

\* on_funding_created: the accepter always finds the signature it wants.
LEMMA FundingCreatedKeeps == ASSUME OpenInv, on_funding_created PROVE OpenInv'
<1> DEFINE n == "accepter"
           m == message(n)
           g == config
           t == terms
           c == ch[n]
           o == ch["opener"]
           x == {first(t, n)}
           y == {first(t, Peer(n))}
           d == signs(c, "AwaitingChannelReady", {"funding"}, x, y)
<1>1. net[Peer(n)] # <<>> /\ m.type = "funding_created" /\ UNCHANGED <<config, terms, connected>>
  BY Zenon DEF on_funding_created, receives
<1>2. m = creation(t) /\ o.state \in {"FundingCreatedSent"} \cup Funded /\ n \in Party
  BY <1>1, ReadSays, MessageSays, PartyFacts
<1>3. m.channel_id = "temporary" /\ m.signature = first(t, n)
  BY <1>2, Kinds
<1>4. CASE ~known(n)
  <2>1. dropped(n)
    BY <1>4 DEF on_funding_created
  <2> QED
    BY <1>1, <1>2, <2>1, DroppedKeeps
<1>5. CASE known(n)
  <2>1. formed(g, t, n, c) /\ c.channel_id = "temporary" /\ c # NoChannel
    BY <1>2, <1>3, <1>5, Parts, SMTT(20) DEF known
  <2>2. c.state = "AcceptSent" /\ c.counterparty_current_point = {0} /\ c \in Channel
    BY <2>1 DEF formed, signed, Channel, State
  <2>3. /\ build_holder_commitment_at(c, 0) = first(t, n)
        /\ build_counterparty_commitment_at(c, 0, point_of(c)) = first(t, Peer(n))
    BY <1>2, <2>1, <2>2, BuildsFirst
  <2>4. initial_holder_commitment(c, m) = x /\ x # {}
    BY <1>3, <2>3 DEF initial_holder_commitment, Some
  <2>5. /\ ch' = [ch EXCEPT ![n] = d] /\ net' = answered(n, <<signing(t)>>)
        /\ UNCHANGED <<funding_tx, error>>
    <3>1. /\ ch' = [ch EXCEPT ![n] =
               [c EXCEPT !.state = "AwaitingChannelReady", !.channel_id = "final",
                         !.funding_outpoint = Some("funding"),
                         !.current_holder_commitment = initial_holder_commitment(c, m),
                         !.current_counterparty_commitment =
                           Some(build_counterparty_commitment_at(c, 0, point_of(c)))]]
          /\ net' = answered(n, <<[type |-> "funding_signed", channel_id |-> "final",
                     signature |-> build_counterparty_commitment_at(c, 0, point_of(c))]>>)
          /\ UNCHANGED <<funding_tx, error>>
      BY <1>5, <2>2, <2>4, Zenon DEF on_funding_created, None
    <3>2. <<[type |-> "funding_signed", channel_id |-> "final",
             signature |-> build_counterparty_commitment_at(c, 0, point_of(c))]>> = <<signing(t)>>
      BY <2>3, PartyFacts DEF signing
    <3>3. Some("funding") = {"funding"}
          /\ Some(build_counterparty_commitment_at(c, 0, point_of(c))) = y
      BY <2>3 DEF Some
    <3> HIDE DEF c, m, x, y
    <3> QED
      BY <2>4, <3>1, <3>2, <3>3, Zenon DEF signs
  <2>6. /\ formed(g, t, n, d) /\ d.state = "AwaitingChannelReady" /\ d # NoChannel
        /\ d.channel_ready_sent = c.channel_ready_sent /\ (ends(c) => ends(d))
    <3>1. t \in Terms /\ {"funding"} \in SUBSET {"funding"}
      BY DEF OpenInv
    <3>2. /\ c.state \in {"OpenSent", "AcceptSent", "FundingCreatedSent"}
          /\ signing_step(t, n, "AwaitingChannelReady", x)
          /\ n \in Party /\ formed(g, t, n, c) /\ c.counterparty_current_point = {0}
      BY <1>2, <2>1, <2>2 DEF signing_step
    <3> DEFINE f == {"funding"}
               z == first(t, Peer(n))
    <3>3. f \in SUBSET {"funding"} /\ d = signs(c, "AwaitingChannelReady", f, x, {z})
      OBVIOUS
    <3> DEFINE e == signs(c, "AwaitingChannelReady", f, x, {z})
    <3> HIDE DEF c, x, d, f
    <3>4. /\ formed(g, t, n, e) /\ e.state = "AwaitingChannelReady" /\ e # NoChannel
          /\ e.counterparty_current_point = {0}
          /\ e.channel_ready_sent = c.channel_ready_sent /\ (ends(c) => ends(e))
      BY <3>1, <3>2, <3>3, SignedFormed, Zenon
    <3> QED
      BY <3>3, <3>4
  <2> HIDE DEF d
  <2>7. /\ ch'["opener"] = o /\ ch'["accepter"] = d /\ ch' = [k \in Party |-> ch'[k]]
    BY <2>5, Parts, PartyFacts, Zenon
  <2>8. channels(g, t, ch')
    BY <2>6, <2>7, Parts, PartyFacts DEF channels
  <2>9. joined(g, t, funding_tx, o, c) /\ streams(g, t, funding_tx, o, c, net)
        /\ excused(g, t, o, c, error)
    BY DEF OpenInv, sound
  <2>10. o.state = "FundingCreatedSent"
    BY <1>2, <2>2, <2>9, SMTT(20) DEF joined, Funded
  <2>11. joined(g, t, funding_tx, o, d)
    BY <2>1, <2>6, <2>9, <2>10, SMTT(20) DEF joined, Funded
  <2>12. /\ later(funding_tx, o, c, funding_tx, o, d) /\ kept(o, c, o, d) /\ stays(o, o)
         /\ excused(g, t, o, d, error)
    BY <2>1, <2>2, <2>6, <2>9, Zenon DEF later, kept, stays, Funded, excused
  <2>13. /\ signing(t) \notin may(g, t, funding_tx, o, c, n)
         /\ signing(t) \in may(g, t, funding_tx, o, d, n)
    <3>1. signing(t) \in may(g, t, funding_tx, o, c, n) => c.state \in Funded
      BY MessageSays, Kinds
    <3> QED
      BY <2>2, <2>6, <2>10, <3>1, MayBe, SMTT(20) DEF Funded
  <2> DEFINE r == taken(net, n)
  <2> HIDE DEF c, o, r, m, x, y
  <2>14. streams(g, t, funding_tx, o, c, r)
    BY <1>1, <1>2, <2>9, ReadStreams DEF r
  <2>15. streams(g, t, funding_tx, o, d, net')
    <3>1. net = [k \in Party |-> net[k]]
      BY <2>9 DEF streams
    <3>2. CASE connected
      <4>1. net' = grown(r, n, <<signing(t)>>)
        BY <1>2, <2>5, <3>1, <3>2, PartyFacts, Zenon DEF answered, grown, taken, r
      <4> QED
        BY <1>2, <2>12, <2>13, <2>14, <4>1, FirstSent
    <3>3. CASE ~connected
      <4>1. net' = grown(r, n, <<>>)
        BY <1>2, <2>5, <3>1, <3>3, PartyFacts, Zenon DEF answered, grown, taken, r
      <4>2. streams(g, t, funding_tx, o, d, r) /\ <<>> \in Seq(repeatable(g, t, funding_tx, o, d, n))
        BY <2>12, <2>14, LaterStreams
      <4> QED
        BY <1>2, <4>1, <4>2, SentStreams, Zenon
    <3> QED
      BY <3>2, <3>3
  <2> QED
    BY <1>1, <2>5, <2>7, <2>8, <2>11, <2>12, <2>15 DEF OpenInv, sound
<1> QED
  BY <1>4, <1>5

\* on_funding_signed: the opener always finds the signature it wants.
LEMMA FundingSignedKeeps == ASSUME OpenInv, on_funding_signed PROVE OpenInv'
<1> DEFINE n == "opener"
           m == message(n)
           g == config
           t == terms
           c == ch[n]
           a == ch["accepter"]
           x == {first(t, n)}
           d == signs(c, "AwaitingChannelReady", c.funding_outpoint, x, {first(t, Peer(n))})
           u == IF connected THEN <<>> ELSE <<>>
<1>1. net[Peer(n)] # <<>> /\ m.type = "funding_signed" /\ UNCHANGED <<config, terms, connected>>
  BY Zenon DEF on_funding_signed, receives
<1>2. /\ m = signing(t) /\ c.state = "FundingCreatedSent" /\ a.state \in Funded
      /\ n \in Party /\ Peer(n) = "accepter"
  BY <1>1, ReadSays, MessageSays, PartyFacts
<1>3. m.channel_id = "final" /\ m.signature = first(t, n)
  BY <1>2, Kinds
<1>4. c # NoChannel
  BY <1>2, Exists DEF State
<1>5. /\ formed(g, t, n, c) /\ joined(g, t, funding_tx, c, a)
      /\ streams(g, t, funding_tx, c, a, net) /\ excused(g, t, c, a, error)
  BY <1>2, <1>4, Parts, SMTT(20) DEF OpenInv, sound
<1>6. /\ c \in Channel /\ c.channel_id = "final" /\ c.counterparty_current_point = {0}
      /\ c.current_counterparty_commitment = {first(t, Peer(n))} /\ known(n)
  BY <1>2, <1>3, <1>4, <1>5, Zenon DEF formed, signed, known
<1>7. initial_holder_commitment(c, m) = x /\ x # {}
  <2> HIDE DEF c, m
  <2>1. build_holder_commitment_at(c, 0) = first(t, n)
    BY <1>2, <1>5, BuildsFirst, ZenonT(40)
  <2> QED
    BY <1>3, <2>1, Zenon DEF initial_holder_commitment, Some
<1>8. /\ ch' = [ch EXCEPT ![n] = d] /\ net' = exchanged(net, n, u)
      /\ funding_tx' = "broadcast" /\ UNCHANGED error
  <2>1. /\ ch' = [ch EXCEPT ![n].state = "AwaitingChannelReady",
                            ![n].current_holder_commitment = initial_holder_commitment(c, m)]
        /\ net' = answered(n, <<>>) /\ funding_tx' = "broadcast" /\ UNCHANGED error
    BY <1>2, <1>6, <1>7, Zenon DEF on_funding_signed, None
  <2>2. ch = [k \in Party |-> ch[k]]
    BY Parts
  <2>3. ch' = [ch EXCEPT ![n] = [c EXCEPT !.state = "AwaitingChannelReady",
                                          !.current_holder_commitment = x]]
    <3> HIDE DEF m, x
    <3> QED
      BY <1>2, <1>7, <2>1, <2>2, Zenon
  <2>4. [c EXCEPT !.state = "AwaitingChannelReady", !.current_holder_commitment = x] = d
    <3> HIDE DEF c, x, m
    <3> QED
      BY <1>6, Zenon DEF signs, Channel
  <2> QED
    BY <2>1, <2>3, <2>4, Zenon DEF answered, exchanged
<1>9. /\ formed(g, t, n, d) /\ d.state = "AwaitingChannelReady" /\ d # NoChannel
      /\ d.counterparty_current_point = {0}
      /\ d.channel_ready_sent = c.channel_ready_sent /\ (ends(c) => ends(d))
  <2>1. t \in Terms /\ c.funding_outpoint \in SUBSET {"funding"}
    BY <1>6, Zenon DEF OpenInv, Channel
  <2>2. /\ c.state \in {"OpenSent", "AcceptSent", "FundingCreatedSent"}
        /\ signing_step(t, n, "AwaitingChannelReady", x)
    BY <1>2 DEF signing_step
  <2> HIDE DEF c, x
  <2> QED
    BY <1>2, <1>5, <1>6, <2>1, <2>2, SignedFormed, Zenon
<1> HIDE DEF d
<1>10. ch'["opener"] = d /\ ch'["accepter"] = a /\ ch' = [k \in Party |-> ch'[k]]
  BY <1>8, Parts, PartyFacts, Zenon
<1>11. channels(g, t, ch')
  BY <1>9, <1>10, Parts, PartyFacts DEF channels
<1>12. funding_tx = "held"
  BY <1>2, <1>5 DEF joined, stage
<1>13. a # NoChannel
  BY <1>2, Exists, SMTT(20) DEF State
<1>14. joined(g, t, "broadcast", d, a)
  BY <1>2, <1>4, <1>5, <1>6, <1>9, <1>12, <1>13 DEF joined, stage, Funded
<1>15. /\ later(funding_tx, c, a, "broadcast", d, a) /\ only(g, t, c, a, d, a, n, signing(t))
       /\ excused(g, t, d, a, error)
  BY <1>2, <1>5, <1>9, <1>12, Zenon DEF later, only, kept, Funded, excused
<1>16. u \in Seq(repeatable(g, t, "broadcast", d, a, n)) /\ Head(net[Peer(n)]) = signing(t)
  BY <1>2, SMTT(20) DEF message
<1> HIDE DEF c, a, u, m, x
<1>17. streams(g, t, "broadcast", d, a, net')
  BY <1>1, <1>2, <1>5, <1>8, <1>15, <1>16, OnlyAnswered, Zenon
<1> QED
  BY <1>1, <1>8, <1>10, <1>11, <1>14, <1>15, <1>17 DEF OpenInv, sound

-----------------------------------------------------------------------------
(* The invariant, and what follows from it. *)

\* The start.
LEMMA OpenInit == Init => OpenInv
<1> SUFFICES ASSUME Init PROVE OpenInv
  OBVIOUS
<1>1. \A n \in Party : ch[n] = NoChannel /\ net[n] = <<>> /\ error[n] = "none"
  BY DEF Init
<1>2. channels(config, terms, ch)
  BY DEF Init, channels
<1>3. ch["opener"] = NoChannel /\ ch["accepter"] = NoChannel /\ funding_tx = "none"
  BY <1>1, PartyFacts DEF Init
<1>4. joined(config, terms, funding_tx, ch["opener"], ch["accepter"])
  BY <1>3 DEF joined, stage, NoChannel, Funded
<1>5. net = [n \in Party |-> net[n]] /\ \A n \in Party : net[n] \in Seq({reestablishment})
  BY <1>1 DEF Init
<1>6. streams(config, terms, funding_tx, ch["opener"], ch["accepter"], net)
  BY <1>5, FreshStreams
<1>7. excused(config, terms, ch["opener"], ch["accepter"], error)
  BY <1>1 DEF Init, excused, Why
<1> QED
  BY <1>2, <1>4, <1>6, <1>7 DEF OpenInv, sound, Init

\* The steps, one lemma for each.
LEMMA OpenStep == OpenInv /\ [Next]_vars => OpenInv'
<1> SUFFICES ASSUME OpenInv, [Next]_vars PROVE OpenInv'
  OBVIOUS
<1>1. CASE open_channel
  BY <1>1, OpenKeeps
<1>2. CASE provide_funding_transaction
  BY <1>2, ProvideKeeps
<1>3. CASE confirm
  BY <1>3, ConfirmKeeps
<1>4. CASE handle_opening
  BY <1>4, OpenChannelKeeps, AcceptChannelKeeps, FundingCreatedKeeps, FundingSignedKeeps
     DEF handle_opening
<1>5. CASE peer_disconnected
  BY <1>5, DisconnectKeeps
<1>6. CASE on_init
  BY <1>6, ConnectKeeps
<1>7. ASSUME NEW n \in Party, funding_confirmed(n) \/ close_channel(n) \/ handle_message(n)
      PROVE  OpenInv'
  BY <1>7, FundingConfirmedKeeps, CloseKeeps, ChannelReadyKeeps, ReestablishKeeps, ErrorKeeps,
     ShutdownKeeps DEF handle_message
<1>8. CASE UNCHANGED vars
  BY <1>8 DEF OpenInv, vars
<1> QED
  BY <1>1, <1>2, <1>3, <1>4, <1>5, <1>6, <1>7, <1>8 DEF Next

-----------------------------------------------------------------------------
(* The dance the channel opens into. *)

\* What the dance starts with, given t.
LEMMA DanceBalances ==
  ASSUME NEW t \in Terms, NEW n \in Party, t.push_msat <= t.funding_satoshis * MsatPerSat
  PROVE  LET c == Dance(t)!new_channel(n)
         IN  /\ share(t, n) \in Nat /\ c.to_holder_msat = share(t, n)
             /\ c.to_counterparty_msat = share(t, Peer(n)) /\ c.htlcs = {}
             /\ c.feerate_holder = FeeratePerKw /\ c.feerate_counterparty = FeeratePerKw
             /\ c = [state |-> "Normal", shutdown_sent |-> FALSE, shutdown_received |-> FALSE,
                     htlcs |-> {}, to_holder_msat |-> share(t, n),
                     to_counterparty_msat |-> share(t, Peer(n)),
                     feerate_holder |-> FeeratePerKw, feerate_counterparty |-> FeeratePerKw,
                     pending_fee_ack |-> None, counterparty_dirty |-> FALSE,
                     next_holder_htlc_id |-> 0, next_counterparty_htlc_id |-> 0,
                     holding_cell |-> <<>>]
<1> DEFINE B == [m \in Party |-> IF m = "accepter" THEN t.push_msat
                                 ELSE t.funding_satoshis * MsatPerSat - t.push_msat]
<1>1. \A m \in Party : share(t, m) \in Nat /\ B[m] = share(t, m)
  BY OpenAssumption DEF share, Party
<1>2. Dance(t)!Peer(n) = Peer(n) /\ Peer(n) \in Party
  BY PartyFacts DEF Dance!Peer, Peer
<1>3. B[n] = share(t, n) /\ B[Peer(n)] = share(t, Peer(n))
  BY <1>1, <1>2
<1>4. Dance(t)!new_channel(n) =
        [state |-> "Normal", shutdown_sent |-> FALSE, shutdown_received |-> FALSE,
         htlcs |-> {}, to_holder_msat |-> B[n],
         to_counterparty_msat |-> B[Peer(n)],
         feerate_holder |-> FeeratePerKw, feerate_counterparty |-> FeeratePerKw,
         pending_fee_ack |-> None, counterparty_dirty |-> FALSE,
         next_holder_htlc_id |-> 0, next_counterparty_htlc_id |-> 0,
         holding_cell |-> <<>>]
  BY <1>2 DEF Dance!new_channel, None, Dance!None
<1> HIDE DEF B
<1> QED
  BY <1>1, <1>3, <1>4

\* A sum over no HTLC.
LEMMA DanceTotal == ASSUME NEW t PROVE Dance(t)!total({}) = 0
<1> DEFINE iter[s \in SUBSET {}] ==
             IF s = {} THEN 0
             ELSE LET x == CHOOSE x \in s : TRUE IN <<>>[x.payment] + iter[s \ {x}]
<1>1. Dance(t)!total({}) = iter[{}]
  BY DEF Dance!total, Dance!MapThenSumSet, Dance!MapThenFoldSet
<1> QED
  BY <1>1, Zenon

\* The first commitments are the ones the dance starts with.
LEMMA DanceFirst ==
  ASSUME NEW t \in Terms, NEW n \in Party, t.push_msat <= t.funding_satoshis * MsatPerSat
  PROVE  /\ Dance(t)!build_holder_commitment_at(Dance(t)!new_channel(n), 0) = first(t, n)
         /\ Dance(t)!build_counterparty_commitment_at(Dance(t)!new_channel(n), 0, 0)
              = first(t, Peer(n))
<1> DEFINE c == Dance(t)!new_channel(n)
           b(s) == Dance(t)!balances_for(c, s)
<1>1. /\ share(t, n) \in Nat /\ share(t, Peer(n)) \in Nat /\ c.htlcs = {}
      /\ c.to_holder_msat = share(t, n) /\ c.to_counterparty_msat = share(t, Peer(n))
      /\ c.feerate_holder = FeeratePerKw /\ c.feerate_counterparty = FeeratePerKw
  BY DanceBalances, PartyFacts, SMTT(20)
<1> HIDE DEF c
<1>2. \A s : Dance(t)!fulfilled(c, s) = {} /\ Dance(t)!escrowed(c, s) = {}
  BY <1>1 DEF Dance!fulfilled, Dance!escrowed
<1>3. \A x \in Nat : Dance(t)!saturating_sub(x + 0, 0) = x
  BY DEF Dance!saturating_sub
<1>4. ASSUME NEW s
      PROVE  b(s).to_holder = share(t, n) /\ b(s).to_counterparty = share(t, Peer(n))
  <2>1. /\ {h \in Dance(t)!fulfilled(c, s) : h.outbound} = {}
        /\ {h \in Dance(t)!fulfilled(c, s) : ~h.outbound} = {}
        /\ {h \in Dance(t)!fulfilled(c, s) \cup Dance(t)!escrowed(c, s) : h.outbound} = {}
        /\ {h \in Dance(t)!fulfilled(c, s) \cup Dance(t)!escrowed(c, s) : ~h.outbound} = {}
    BY <1>2
  <2>2. b(s) = [to_holder |-> Dance(t)!saturating_sub(c.to_holder_msat + 0, 0),
                to_counterparty |-> Dance(t)!saturating_sub(c.to_counterparty_msat + 0, 0)]
    BY <2>1, DanceTotal DEF Dance!balances_for
  <2> QED
    BY <1>1, <1>3, <2>2
<1>5. Peer(Peer(n)) = n
  BY PartyFacts
<1> HIDE DEF b
<1>6. Dance(t)!build_holder_commitment_at(c, 0) = first(t, n)
  <2>1. {Dance(t)!htlc_in_commitment(h, TRUE) : h \in Dance(t)!escrowed(c, TRUE)} = {}
    BY <1>2, Zenon
  <2>2. b(TRUE).to_holder = share(t, n) /\ b(TRUE).to_counterparty = share(t, Peer(n))
    BY <1>4, Zenon
  <2> QED
    BY <1>1, <2>1, <2>2, Zenon DEF Dance!build_holder_commitment_at, first, b
<1>7. Dance(t)!build_counterparty_commitment_at(c, 0, 0) = first(t, Peer(n))
  <2>1. {Dance(t)!htlc_in_commitment(h, FALSE) : h \in Dance(t)!escrowed(c, FALSE)} = {}
    BY <1>2, Zenon
  <2>2. b(FALSE).to_holder = share(t, n) /\ b(FALSE).to_counterparty = share(t, Peer(n))
    BY <1>4, Zenon
  <2> QED
    BY <1>1, <1>5, <2>1, <2>2, Zenon DEF Dance!build_counterparty_commitment_at, first, b
<1> QED
  BY <1>6, <1>7 DEF c

LEMMA OnlyChoice == ASSUME NEW x PROVE (CHOOSE y \in {x} : TRUE) = x
  OBVIOUS

\* What an open channel is.
LEMMA OpenParts ==
  ASSUME OpenInv, \A n \in Party : open(n)
  PROVE  /\ terms \in Terms /\ terms.push_msat <= terms.funding_satoshis * MsatPerSat
         /\ error = [n \in Party |-> "none"]
         /\ \A n \in Party :
              /\ ch[n] # NoChannel /\ ch[n].state = "Normal"
              /\ ch[n].shutdown_sent = FALSE /\ ch[n].shutdown_received = FALSE
              /\ ch[n].to_holder_msat = share(terms, n)
              /\ ch[n].to_counterparty_msat = share(terms, Peer(n))
              /\ ch[n].holder = imposed(config, terms, n)
              /\ ch[n].counterparty = imposed(config, terms, Peer(n))
              /\ point_of(ch[n]) = 0 /\ ch[n].counterparty_next_point = {1}
              /\ holds(n) = {first(terms, n)} /\ records(n) = {first(terms, Peer(n))}
<1>1. \A n \in Party : ch[n].state = "Normal" /\ ~ch[n].shutdown_sent /\ ch[n].state \in Funded
  BY DEF open, Funded
<1>2. \A n \in Party : ch[n] # NoChannel
  BY <1>1, Exists DEF State, Funded
<1>3. \A n \in Party : formed(config, terms, n, ch[n])
  BY <1>2, Parts, SMTT(20)
<1>4. \A n \in Party : /\ ch[n] \in Channel /\ ch[n].counterparty_current_point = {0}
                       /\ ~ch[n].shutdown_received /\ ch[n].counterparty_next_point = {1}
                       /\ ch[n].current_holder_commitment = {first(terms, n)}
                       /\ ch[n].current_counterparty_commitment = {first(terms, Peer(n))}
  BY <1>1, <1>3, Zenon DEF formed, signed
<1>5. \A n \in Party : /\ ch[n].to_holder_msat = share(terms, n)
                       /\ ch[n].to_counterparty_msat = share(terms, Peer(n))
                       /\ ch[n].holder = imposed(config, terms, n)
                       /\ ch[n].counterparty = imposed(config, terms, Peer(n))
  BY <1>3, <1>4, SMTT(20) DEF formed
<1>6. \A n \in Party : ch[n].shutdown_sent = FALSE /\ ch[n].shutdown_received = FALSE
  BY <1>1, <1>4 DEF Channel
<1>7. \A n \in Party : point_of(ch[n]) = 0
  BY <1>4 DEF point_of
<1>8. \A n \in Party : holds(n) = {first(terms, n)} /\ records(n) = {first(terms, Peer(n))}
  BY <1>2, <1>4 DEF holds, records
<1>9. terms.push_msat <= terms.funding_satoshis * MsatPerSat /\ ~declined(config, terms)
  BY <1>2, <1>4, Parts, PartyFacts DEF joined
<1>10. ~ends(ch["opener"]) /\ ~ends(ch["accepter"])
  BY <1>6, PartyFacts DEF ends
<1>11. error = [n \in Party |-> "none"]
  <2>1. error \in [Party -> Why] /\ \A n \in Party : error[n] = "none"
    BY <1>9, <1>10, Parts, Zenon DEF excused
  <2> QED
    BY <2>1
<1> QED
  BY <1>1, <1>2, <1>4, <1>5, <1>6, <1>7, <1>8, <1>9, <1>11, Zenon DEF OpenInv

\* An open channel is where the dance starts.
LEMMA DanceStarts == OpenInv => OpensIntoDance
<1> SUFFICES ASSUME OpenInv, \A n \in Party : open(n)
             PROVE  /\ \A n \in Party : ch[n].counterparty = ch[Peer(n)].holder
                    /\ \E t \in Terms : t = terms /\ Dance(t)!Init
  BY DEF OpensIntoDance
<1>1. \A n \in Party : ch[n].counterparty = ch[Peer(n)].holder
  <2> TAKE n \in Party
  <2>1. ch[n].counterparty = imposed(config, terms, Peer(n))
    BY OpenParts, Zenon
  <2>2. \A m \in Party : ch[m].holder = imposed(config, terms, m)
    BY OpenParts, Zenon
  <2> QED
    BY <2>1, <2>2, PartyFacts
<1>2. PICK t \in Terms : t = terms
  BY OpenParts, Zenon
<1>3. t.push_msat <= t.funding_satoshis * MsatPerSat
  BY <1>2, OpenParts, Zenon
<1>4. \A n \in Party : Dance(t)!new_channel(n) =
        [state |-> "Normal", shutdown_sent |-> FALSE, shutdown_received |-> FALSE,
         htlcs |-> {}, to_holder_msat |-> share(t, n),
         to_counterparty_msat |-> share(t, Peer(n)),
         feerate_holder |-> FeeratePerKw, feerate_counterparty |-> FeeratePerKw,
         pending_fee_ack |-> None, counterparty_dirty |-> FALSE,
         next_holder_htlc_id |-> 0, next_counterparty_htlc_id |-> 0,
         holding_cell |-> <<>>]
  BY <1>3, DanceBalances, Zenon
<1>5. [n \in Party |->
         [state |-> ch[n].state, shutdown_sent |-> ch[n].shutdown_sent,
          shutdown_received |-> ch[n].shutdown_received, htlcs |-> {},
          to_holder_msat |-> ch[n].to_holder_msat,
          to_counterparty_msat |-> ch[n].to_counterparty_msat,
          feerate_holder |-> FeeratePerKw, feerate_counterparty |-> FeeratePerKw,
          pending_fee_ack |-> None, counterparty_dirty |-> FALSE,
          next_holder_htlc_id |-> 0, next_counterparty_htlc_id |-> 0, holding_cell |-> <<>>]]
        = [n \in Party |-> Dance(t)!new_channel(n)]
  BY <1>2, <1>4, OpenParts, Zenon
<1>6. /\ [n \in Party |-> point_of(ch[n])] = [n \in Party |-> 0]
      /\ [n \in Party |-> CHOOSE p \in ch[n].counterparty_next_point : TRUE] = [n \in Party |-> 1]
  <2>1. \A n \in Party : (CHOOSE p \in ch[n].counterparty_next_point : TRUE) = 1
    BY OpenParts, Zenon
  <2> QED
    BY <2>1, OpenParts, Zenon
<1>7. /\ [n \in Party |-> CHOOSE x \in holds(n) : TRUE] =
           [n \in Party |-> Dance(t)!build_holder_commitment_at(Dance(t)!new_channel(n), 0)]
      /\ [n \in Party |-> CHOOSE x \in records(n) : TRUE] =
           [n \in Party |->
              Dance(t)!build_counterparty_commitment_at(Dance(t)!new_channel(n), 0, 0)]
  <2>1. \A n \in Party : /\ (CHOOSE x \in holds(n) : TRUE) = first(t, n)
                         /\ (CHOOSE x \in records(n) : TRUE) = first(t, Peer(n))
    <3> TAKE n \in Party
    <3>1. holds(n) = {first(t, n)} /\ records(n) = {first(t, Peer(n))}
      BY <1>2, OpenParts, Zenon
    <3> QED
      BY <3>1, OnlyChoice, Zenon
  <2>2. \A n \in Party :
          /\ Dance(t)!build_holder_commitment_at(Dance(t)!new_channel(n), 0) = first(t, n)
          /\ Dance(t)!build_counterparty_commitment_at(Dance(t)!new_channel(n), 0, 0)
               = first(t, Peer(n))
    BY <1>3, DanceFirst
  <2> QED
    BY <2>1, <2>2
<1>8. <<>> = [p \in {} |-> "new"]
  OBVIOUS
<1>9. error = [n \in Party |-> "none"]
  BY OpenParts, Zenon
<1>10. Dance(t)!Party = Party
  BY DEF Dance!Party, Party
<1>11. Dance(t)!Init
  BY <1>5, <1>6, <1>7, <1>8, <1>9, <1>10, Zenon DEF Dance!Init, Dance!None, None
<1> QED
  BY <1>2, <1>1, <1>11

-----------------------------------------------------------------------------
(* The theorems. *)

\* The inductive invariant of an open: what each party has in each state, what the two
\* have in common, what may be under way, and why a channel may have been failed.
THEOREM OpenInvariant == Spec => []OpenInv
  BY OpenInit, OpenStep, PTL DEF Spec

\* Once on_funding_signed has broadcast the funding transaction, each party holds the
\* commitment 0 that its peer signed and has on record, for all configurations and terms
\* and whatever connections are lost.
THEOREM FundingIsAlwaysRefundable == Spec => []FundingIsRefundable
<1>1. OpenInv => FundingIsRefundable
  <2> SUFFICES ASSUME OpenInv, funding_tx \in {"broadcast", "confirmed"}, NEW n \in Party
               PROVE  holds(n) # None /\ holds(n) = records(Peer(n))
    BY DEF FundingIsRefundable
  <2>1. ch["opener"].state \in Funded /\ ch["accepter"].state \in Funded
    BY Parts DEF joined, stage
  <2>2. \A m \in Party : ch[m].state \in Funded /\ ch[m] # NoChannel
    BY <2>1, PartyFacts, Exists, SMTT(20) DEF State
  <2>3. \A m \in Party : /\ ch[m].current_holder_commitment = {first(terms, m)}
                         /\ ch[m].current_counterparty_commitment = {first(terms, Peer(m))}
    BY <2>2, Parts DEF formed, signed
  <2>4. Peer(n) \in Party /\ Peer(Peer(n)) = n
    BY PartyFacts
  <2> QED
    BY <2>2, <2>3, <2>4, Zenon DEF holds, records, None
<1> QED
  BY <1>1, OpenInvariant, PTL

\* An open that is not declined succeeds, with limits that fit together.  Nobody fails
\* the channel, unless the opener declines on_accept_channel or a party closes it; once the
\* transaction is funded no reserve is below a dust limit, although each party makes the
\* checks of new_inbound and on_accept_channel with what it knows; and the two sides of an
\* open channel are an initial state of the specification of ChannelDance.
THEOREM OpensAreSound == Spec => []OpensSoundly
<1>1. OpenInv => OpensWithoutFailure
  BY Parts, PartyFacts, Zenon DEF OpensWithoutFailure, excused, ends, closing
<1>2. OpenInv => ReservesAboveDust
  <2> SUFFICES ASSUME OpenInv, funding_tx # "none", NEW n \in Party, NEW m \in Party
               PROVE  ch[n].holder.reserve >= ch[m].holder.dust_limit
    BY DEF ReservesAboveDust
  <2> DEFINE o == imposed(config, terms, "opener")
             a == imposed(config, terms, "accepter")
  <2>1. config \in [Party -> Configs] /\ terms \in Terms
    BY DEF OpenInv
  <2>2. ch["opener"].state \notin {"None", "OpenSent"}
    BY Parts DEF joined, stage
  <2>3. ch["opener"] # NoChannel
    BY <2>2 DEF NoChannel
  <2>4. ch["opener"].counterparty_current_point = {0}
    BY <2>2, <2>3, Parts, PartyFacts DEF formed
  <2>5. ch["accepter"] # NoChannel /\ ~declined(config, terms)
    BY <2>3, <2>4, Parts DEF joined
  <2>6. ch["opener"].holder = o /\ ch["accepter"].holder = a
    BY <2>3, <2>5, Parts, PartyFacts, SMTT(20) DEF formed
  <2>7. o \in Limits /\ a \in Limits /\ o.reserve >= o.dust_limit /\ a.reserve >= a.dust_limit
    BY <2>1, ImposedType, PartyFacts, SMTT(20)
  <2>8. ~(a.dust_limit > o.reserve) /\ ~(a.reserve < o.dust_limit)
    BY <2>5 DEF declined, refuses_accept, acceptance
  <2> HIDE DEF o, a
  <2>9. o.reserve >= a.dust_limit /\ a.reserve >= o.dust_limit
    BY <2>7, <2>8 DEF Limits
  <2> QED
    BY <2>6, <2>7, <2>9, PartyFacts
<1>3. OpenInv => OpensSoundly
  BY <1>1, <1>2, DanceStarts DEF OpensSoundly
<1> QED
  BY <1>3, OpenInvariant, PTL

=============================================================================
