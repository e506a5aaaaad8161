----------------------------- MODULE OpenStages -----------------------------
(***************************************************************************)
(* The inductive invariant of ChannelOpen: what configurations and terms   *)
(* make of the two channels and of the messages under way at each stage of *)
(* an open.  The lemmas show that the steps keep it which do not belong to *)
(* the exchange of the first signatures: connections, errors, the          *)
(* confirmation and channel_ready, and closing.                            *)
(***************************************************************************)
EXTENDS ChannelOpen, TLAPS

-----------------------------------------------------------------------------
(* What configurations and terms determine: g is config, t is terms. *)

\* What n has in the channel at first.
share(t, n) ==
  IF n = "opener" THEN t.funding_satoshis * MsatPerSat - t.push_msat ELSE t.push_msat

\* What n asks of its peer.
imposed(g, t, n) == limits(g[n], t.funding_satoshis)

\* Commitment 0 of n.
first(t, n) ==
  [number |-> 0, point |-> 0, feerate |-> FeeratePerKw, htlcs |-> {},
   to_broadcaster |-> share(t, n), to_countersignatory |-> share(t, Peer(n))]

\* What the accepter answers, and whether the opener declines it.
acceptance(g, t) ==
  [type |-> "accept_channel", channel_id |-> "temporary", limits |-> imposed(g, t, "accepter"),
   minimum_depth |-> g["accepter"].minimum_depth, point |-> 0]

declined(g, t) ==
  refuses_accept([state |-> "OpenSent", holder |-> imposed(g, t, "opener")], acceptance(g, t))

\* The other messages that are sent before the channel is funded.
proposal(g, t) ==
  [type |-> "open_channel", channel_id |-> "temporary", chain_hash |-> g["opener"].network,
   terms |-> t, limits |-> imposed(g, t, "opener"), feerate_per_kw |-> FeeratePerKw, point |-> 0]

creation(t) ==
  [type |-> "funding_created", channel_id |-> "temporary", signature |-> first(t, "accepter")]

signing(t) == [type |-> "funding_signed", channel_id |-> "final", signature |-> first(t, "opener")]

reestablishment == [type |-> "channel_reestablish", channel_id |-> "final"]

failure(id) == [type |-> "error", channel_id |-> id]

-----------------------------------------------------------------------------
(* The channel of one party. *)

Funded == {"AwaitingChannelReady", "Normal", "ShuttingDown"}
State == {"OpenSent", "AcceptSent", "FundingCreatedSent"} \cup Funded

Limits ==
  [dust_limit : Nat, reserve : Nat, max_in_flight : Nat, htlc_minimum : Nat,
   to_self_delay : Nat, max_accepted : Nat]

Commitment ==
  [number : Nat, point : Nat, feerate : Nat, htlcs : {{}},
   to_broadcaster : Int, to_countersignatory : Int]

Channel ==
  [state : State, channel_id : {"temporary", "final"}, holder : Limits, counterparty : Limits,
   to_holder_msat : Int, to_counterparty_msat : Int, funding_outpoint : SUBSET {"funding"},
   counterparty_current_point : SUBSET Nat, counterparty_next_point : SUBSET Nat,
   current_holder_commitment : SUBSET Commitment,
   current_counterparty_commitment : SUBSET Commitment,
   funding_confirmed : BOOLEAN, channel_ready_sent : BOOLEAN, channel_ready_received : BOOLEAN,
   shutdown_sent : BOOLEAN, shutdown_received : BOOLEAN]

\* The first commitments that n has in each state.
signed(t, n, c) ==
  /\ c.state \in {"OpenSent", "AcceptSent"} =>
       /\ c.channel_id = "temporary"
       /\ c.current_holder_commitment = {} /\ c.current_counterparty_commitment = {}
  /\ c.state = "FundingCreatedSent" =>
       /\ c.channel_id = "final" /\ n = "opener"
       /\ c.current_holder_commitment = {}
       /\ c.current_counterparty_commitment = {first(t, Peer(n))}
  /\ c.state \in Funded =>
       /\ c.channel_id = "final"
       /\ c.current_holder_commitment = {first(t, n)}
       /\ c.current_counterparty_commitment = {first(t, Peer(n))}

\* What holds of the channel c of n.
formed(g, t, n, c) ==
  /\ c \in Channel
  /\ c.holder = imposed(g, t, n)
  /\ c.to_holder_msat = share(t, n) /\ c.to_counterparty_msat = share(t, Peer(n))
  /\ c.counterparty_current_point \in {{}, {0}}
  /\ c.state = "OpenSent" => n = "opener"
  /\ c.state = "AcceptSent" => n = "accepter"
  /\ c.state # "OpenSent" => c.counterparty_current_point = {0}
  /\ c.counterparty_current_point = {0} => c.counterparty = imposed(g, t, Peer(n))
  /\ signed(t, n, c)
  /\ c.channel_ready_received => c.counterparty_next_point = {1}
  /\ c.state = "Normal" => c.channel_ready_received
  /\ c.shutdown_received => c.state = "ShuttingDown"
  /\ c.state = "ShuttingDown" => c.shutdown_sent \/ c.shutdown_received

\* A channel of n that is being closed.
ends(c) == c # NoChannel /\ (c.shutdown_sent \/ c.shutdown_received)

-----------------------------------------------------------------------------
(* The two parties together. *)

\* How far the opener is, as the funding transaction shows.
stage(tx, c) ==
  /\ c.state \in {"None", "OpenSent"} <=> tx = "none"
  /\ c.state = "FundingCreatedSent" <=> tx = "held"
  /\ c.state \in Funded <=> tx \in {"broadcast", "confirmed"}

\* The channels o of the opener and a of the accepter.
joined(g, t, tx, o, a) ==
  /\ stage(tx, o)
  /\ o # NoChannel => t.push_msat <= t.funding_satoshis * MsatPerSat
  /\ o # NoChannel /\ o.counterparty_current_point = {0} => a # NoChannel /\ ~declined(g, t)
  /\ a # NoChannel => o # NoChannel
  /\ o.state \in Funded => a.state \in Funded
  /\ \A c \in {o, a} : c # NoChannel /\ c.channel_ready_sent => tx = "confirmed"

\* The messages that n may have under way.
may(g, t, tx, o, a, n) ==
  UNION {{m \in {proposal(g, t)} : n = "opener" /\ o.state = "OpenSent" /\ a = NoChannel},
         {m \in {acceptance(g, t)} : n = "accepter" /\ a # NoChannel},
         {m \in {creation(t)} : n = "opener" /\ o.state \in {"FundingCreatedSent"} \cup Funded},
         {m \in {signing(t)} :
            n = "accepter" /\ a.state \in Funded /\ o.state = "FundingCreatedSent"},
         {m \in {channel_ready} : tx = "confirmed"},
         {m \in {shutdown} : ends(IF n = "opener" THEN o ELSE a)},
         {m \in {failure("final")} : ends(o) \/ ends(a)},
         {reestablishment, failure("temporary")}}

\* q holds x at most once.
single(q, x) == \A i, j \in 1..Len(q) : q[i] = x /\ q[j] = x => i = j

Why == {"none", "accept refused", "funding refused", "channel_ready refused",
        "shutdown refused", "peer error"}

\* The streams w of both parties.
streams(g, t, tx, o, a, w) ==
  /\ w = [n \in Party |-> w[n]]
  /\ \A n \in Party : w[n] \in Seq(may(g, t, tx, o, a, n))
  /\ single(w["opener"], proposal(g, t)) /\ single(w["accepter"], signing(t))

\* Why the parties may have failed the channel.
excused(g, t, o, a, e) ==
  /\ e \in [Party -> Why]
  /\ \A n \in Party : /\ e[n] \notin {"none", "accept refused"} => ends(o) \/ ends(a)
                      /\ e[n] = "accept refused" => declined(g, t)

\* The channels h of both parties.
channels(g, t, h) ==
  /\ h = [n \in Party |-> h[n]]
  /\ \A n \in Party : h[n] # NoChannel => formed(g, t, n, h[n])

\* The inductive invariant, for channels h, streams w and errors e.
sound(g, t, tx, h, w, e) ==
  /\ channels(g, t, h)
  /\ joined(g, t, tx, h["opener"], h["accepter"])
  /\ streams(g, t, tx, h["opener"], h["accepter"], w)
  /\ excused(g, t, h["opener"], h["accepter"], e)

OpenInv ==
  /\ config \in [Party -> Configs] /\ terms \in Terms /\ connected \in BOOLEAN
  /\ sound(config, terms, funding_tx, ch, net, error)

-----------------------------------------------------------------------------
(* Streams. *)

\* A stream whose messages are in T.
LEMMA SeqRange ==
  ASSUME NEW S, NEW T, NEW q \in Seq(S), \A i \in 1..Len(q) : q[i] \in T PROVE q \in Seq(T)
  OBVIOUS

\* A stream of messages in S is one of messages in a larger set.
LEMMA SeqMonotone == ASSUME NEW S, NEW T, S \subseteq T, NEW q \in Seq(S) PROVE q \in Seq(T)
<1>1. \A i \in 1..Len(q) : q[i] \in T
  OBVIOUS
<1> QED
  BY <1>1

\* What is read and what is left.
LEMMA ReadOne ==
  ASSUME NEW S, NEW q \in Seq(S), q # <<>>
  PROVE  /\ Head(q) \in S /\ Tail(q) \in Seq(S)
         /\ \A x : single(q, x) => single(Tail(q), x)
         /\ \A x : single(q, x) /\ Head(q) = x => Tail(q) \in Seq(S \ {x})
<1>1. /\ Len(q) \in Nat \ {0} /\ Len(Tail(q)) = Len(q) - 1 /\ Head(q) = q[1]
      /\ \A i \in 1..Len(Tail(q)) : Tail(q)[i] = q[i + 1] /\ i + 1 \in 1..Len(q)
      /\ Head(q) \in S /\ Tail(q) \in Seq(S)
  OBVIOUS
<1>2. ASSUME NEW x, single(q, x) PROVE single(Tail(q), x)
  BY <1>1, <1>2 DEF single
<1>3. ASSUME NEW x, single(q, x), Head(q) = x PROVE Tail(q) \in Seq(S \ {x})
  <2>1. \A i \in 1..Len(Tail(q)) : Tail(q)[i] \in S \ {x}
    <3> SUFFICES ASSUME NEW i \in 1..Len(Tail(q)), Tail(q)[i] = x PROVE FALSE
      BY <1>1
    <3>1. 1 \in 1..Len(q) /\ i + 1 \in 1..Len(q) /\ q[1] = x /\ q[i + 1] = x /\ i + 1 # 1
      BY <1>1, <1>3
    <3> QED
      BY <1>3, <3>1 DEF single
  <2> DEFINE r == Tail(q)
  <2>2. r \in Seq(S)
    BY <1>1
  <2> HIDE DEF r
  <2> QED
    BY <2>1, <2>2, SeqRange, Zenon DEF r
<1> QED
  BY <1>1, <1>2, <1>3

\* A stream that grows by other messages.
LEMMA SendOthers ==
  ASSUME NEW S, NEW q \in Seq(S), NEW u \in Seq(S), NEW x, u \in Seq(S \ {x}), single(q, x)
  PROVE  q \o u \in Seq(S) /\ single(q \o u, x)
<1>1. /\ Len(q) \in Nat /\ Len(u) \in Nat /\ Len(q \o u) = Len(q) + Len(u)
      /\ \A i \in 1..(Len(q) + Len(u)) :
           (q \o u)[i] = IF i <= Len(q) THEN q[i] ELSE u[i - Len(q)]
      /\ \A i \in 1..Len(u) : u[i] # x
  OBVIOUS
<1>2. q \o u \in Seq(S)
  OBVIOUS
<1> QED
  BY <1>1, <1>2 DEF single

\* A stream that grows by the first message of a kind.
LEMMA SendFirst ==
  ASSUME NEW S, NEW q \in Seq(S), NEW x, x \notin S
  PROVE  q \o <<x>> \in Seq(S \cup {x}) /\ single(q \o <<x>>, x)
<1>1. /\ Len(q) \in Nat /\ Len(q \o <<x>>) = Len(q) + 1
      /\ \A i \in 1..Len(q) : (q \o <<x>>)[i] = q[i] /\ q[i] # x
      /\ (q \o <<x>>)[Len(q) + 1] = x
  OBVIOUS
<1>2. q \o <<x>> \in Seq(S \cup {x})
  OBVIOUS
<1> QED
  BY <1>1, <1>2 DEF single

-----------------------------------------------------------------------------
(* What configurations and terms determine. *)

\* The parties.
LEMMA PartyFacts ==
  /\ "opener" \in Party /\ "accepter" \in Party
  /\ Peer("opener") = "accepter" /\ Peer("accepter") = "opener"
  /\ \A n \in Party : /\ Peer(n) \in Party /\ Peer(n) # n /\ Peer(Peer(n)) = n
                      /\ Party = {n, Peer(n)}
                      /\ n = "opener" \/ n = "accepter"
  BY DEF Party, Peer

\* The larger of two numbers.
LEMMA MaxOfTwo ==
  ASSUME NEW a \in Nat, NEW b \in Nat
  PROVE  Max({a, b}) \in Nat /\ Max({a, b}) >= a /\ Max({a, b}) >= b
<1>1. \E x \in {a, b} : \A y \in {a, b} : x >= y
  OBVIOUS
<1>2. Max({a, b}) \in {a, b} /\ \A y \in {a, b} : Max({a, b}) >= y
  BY <1>1 DEF Max
<1> QED
  BY <1>2

\* What a party asks for is made of natural numbers, and its reserve is no dust.
LEMMA ImposedType ==
  ASSUME NEW g \in [Party -> Configs], NEW t \in Terms, NEW n \in Party
  PROVE  /\ imposed(g, t, n) \in Limits
         /\ imposed(g, t, n).reserve >= imposed(g, t, n).dust_limit
<1> DEFINE c == g[n]
           f == t.funding_satoshis
<1>1. /\ c.dust_limit_sat \in Nat /\ c.reserve_ppm \in Nat /\ c.htlc_minimum_msat \in Nat
      /\ c.to_self_delay \in Nat /\ c.max_accepted_htlcs \in Nat
      /\ c.max_htlc_value_in_flight_ppm \in Nat /\ f \in Nat
      /\ Million \in Nat \ {0} /\ MsatPerSat \in Nat
  BY OpenAssumption
<1> HIDE DEF c, f
<1>2. f * c.reserve_ppm \in Nat /\ (f * c.reserve_ppm) \div Million \in Nat
  BY <1>1
<1>3. reserve_for(c, f) \in Nat /\ reserve_for(c, f) >= c.dust_limit_sat
  BY <1>1, <1>2, MaxOfTwo DEF reserve_for
<1>4. max_in_flight(c, f) \in Nat
  <2>1. f \div Million \in Nat
    BY <1>1
  <2>2. (f \div Million) * c.max_htlc_value_in_flight_ppm \in Nat
    BY <1>1, <2>1
  <2> QED
    BY <1>1, <2>2 DEF max_in_flight
<1> QED
  BY <1>1, <1>3, <1>4 DEF imposed, limits, Limits, c, f

\* The shares of the parties, and commitment 0 of each.
LEMMA FirstType ==
  ASSUME NEW t \in Terms, NEW n \in Party
  PROVE  share(t, n) \in Int /\ first(t, n) \in Commitment
<1>1. \A m \in Party : share(t, m) \in Int
  BY OpenAssumption DEF share
<1>2. Peer(n) \in Party
  BY PartyFacts
<1> QED
  BY <1>1, <1>2, OpenAssumption DEF first, Commitment

-----------------------------------------------------------------------------
(* Messages. *)

\* The kinds of messages.
LEMMA Kinds ==
  /\ \A g, t : /\ proposal(g, t).type = "open_channel" /\ proposal(g, t).channel_id = "temporary"
               /\ acceptance(g, t).type = "accept_channel"
               /\ acceptance(g, t).channel_id = "temporary"
  /\ \A t : /\ creation(t).type = "funding_created" /\ creation(t).channel_id = "temporary"
            /\ signing(t).type = "funding_signed" /\ signing(t).channel_id = "final"
            /\ creation(t).signature = first(t, "accepter")
            /\ signing(t).signature = first(t, "opener")
  /\ channel_ready.type = "channel_ready" /\ channel_ready.channel_id = "final"
  /\ channel_ready.second_per_commitment_point = 1
  /\ shutdown.type = "shutdown" /\ shutdown.channel_id = "final"
  /\ reestablishment.type = "channel_reestablish" /\ reestablishment.channel_id = "final"
  /\ \A x : failure(x).type = "error" /\ failure(x).channel_id = x
  BY DEF proposal, acceptance, creation, signing, channel_ready, shutdown, reestablishment, failure

\* The messages under way, one by one.
LEMMA MayBe ==
  ASSUME NEW g, NEW t, NEW tx, NEW o, NEW a, NEW n, NEW m
  PROVE  m \in may(g, t, tx, o, a, n) <=>
           \/ m = proposal(g, t) /\ n = "opener" /\ o.state = "OpenSent" /\ a = NoChannel
           \/ m = acceptance(g, t) /\ n = "accepter" /\ a # NoChannel
           \/ m = creation(t) /\ n = "opener" /\ o.state \in {"FundingCreatedSent"} \cup Funded
           \/ /\ m = signing(t)
              /\ n = "accepter" /\ a.state \in Funded /\ o.state = "FundingCreatedSent"
           \/ m = channel_ready /\ tx = "confirmed"
           \/ m = shutdown /\ ends(IF n = "opener" THEN o ELSE a)
           \/ m = failure("final") /\ (ends(o) \/ ends(a))
           \/ m = reestablishment \/ m = failure("temporary")
  BY Zenon DEF may

\* What a message of each type says of the parties.
LEMMA MessageSays ==
  ASSUME NEW g, NEW t, NEW tx, NEW o, NEW a, NEW n, NEW m \in may(g, t, tx, o, a, n)
  PROVE  /\ m.type = "open_channel" =>
              m = proposal(g, t) /\ n = "opener" /\ o.state = "OpenSent" /\ a = NoChannel
         /\ m.type = "accept_channel" =>
              m = acceptance(g, t) /\ n = "accepter" /\ a # NoChannel
         /\ m.type = "funding_created" =>
              m = creation(t) /\ n = "opener" /\ o.state \in {"FundingCreatedSent"} \cup Funded
         /\ m.type = "funding_signed" =>
              /\ m = signing(t)
              /\ n = "accepter" /\ a.state \in Funded /\ o.state = "FundingCreatedSent"
         /\ m.type = "channel_ready" => m = channel_ready /\ tx = "confirmed"
         /\ m.type = "shutdown" => m = shutdown /\ ends(IF n = "opener" THEN o ELSE a)
         /\ m.type = "error" =>
              m = failure("temporary") \/ (m = failure("final") /\ (ends(o) \/ ends(a)))
         /\ m.type = "channel_reestablish" => m = reestablishment
  BY MayBe, Kinds

\* The parties go from o, a to p, b, and what was said stays so.
later(tx, o, a, ty, p, b) ==
  /\ a # NoChannel => b # NoChannel
  /\ o.state \in {"FundingCreatedSent"} \cup Funded => p.state \in {"FundingCreatedSent"} \cup Funded
  /\ a.state \in Funded => b.state \in Funded
  /\ tx = "confirmed" => ty = "confirmed"
  /\ (ends(o) => ends(p)) /\ (ends(a) => ends(b))

\* Nothing of what was said is taken back but by the one who reads it.
kept(o, a, p, b) == o.state = "OpenSent" /\ a = NoChannel => p.state = "OpenSent" /\ b = NoChannel
stays(o, p) == o.state = "FundingCreatedSent" => p.state = "FundingCreatedSent"

\* What may be under way then.
LEMMA MayGrow ==
  ASSUME NEW g, NEW t, NEW tx, NEW o, NEW a, NEW ty, NEW p, NEW b, later(tx, o, a, ty, p, b),
         NEW n
  PROVE  LET S == may(g, t, tx, o, a, n)
             T == may(g, t, ty, p, b, n)
         IN  /\ stays(o, p) => S \ {proposal(g, t)} \subseteq T
             /\ kept(o, a, p, b) => S \ {signing(t)} \subseteq T
             /\ kept(o, a, p, b) /\ stays(o, p) => S \subseteq T
<1> SUFFICES ASSUME NEW m \in may(g, t, tx, o, a, n),
                    m = proposal(g, t) =>
                      p.state = "OpenSent" /\ b = NoChannel,
                    m = signing(t) => p.state = "FundingCreatedSent"
             PROVE  m \in may(g, t, ty, p, b, n)
  <2> DEFINE S == may(g, t, tx, o, a, n)
             T == may(g, t, ty, p, b, n)
  <2>1. ASSUME NEW m \in S PROVE m = proposal(g, t) => o.state = "OpenSent" /\ a = NoChannel
    BY <2>1, MessageSays, Kinds
  <2>2. ASSUME NEW m \in S PROVE m = signing(t) => o.state = "FundingCreatedSent"
    BY <2>2, MessageSays, Kinds
  <2>3. \A m \in S : /\ m = proposal(g, t) => m # signing(t)
                     /\ (m = proposal(g, t) => p.state = "OpenSent" /\ b = NoChannel)
                        /\ (m = signing(t) => p.state = "FundingCreatedSent") => m \in T
    BY Kinds
  <2> HIDE DEF S, T
  <2> QED
    BY <2>1, <2>2, <2>3 DEF S, T, kept, stays
<1> QED
  BY MayBe DEF later

\* The messages that may be sent more than once.
repeatable(g, t, tx, o, a, n) == may(g, t, tx, o, a, n) \ {proposal(g, t), signing(t)}

\* A stream that grows by such messages.
LEMMA GrowStream ==
  ASSUME NEW S, NEW T, S \subseteq T, NEW q \in Seq(S), NEW x, NEW y, NEW u \in Seq(T \ {x, y})
  PROVE  /\ q \o u \in Seq(T)
         /\ single(q, x) => single(q \o u, x)
         /\ single(q, y) => single(q \o u, y)
<1>1. q \in Seq(T)
  BY SeqMonotone
<1>2. u \in Seq(T) /\ u \in Seq(T \ {x}) /\ u \in Seq(T \ {y})
  <2>1. T \ {x, y} \subseteq T /\ T \ {x, y} \subseteq T \ {x} /\ T \ {x, y} \subseteq T \ {y}
    OBVIOUS
  <2> QED
    BY <2>1, SeqMonotone
<1>3. q \o u \in Seq(T)
  BY <1>1, <1>2
<1> QED
  BY <1>1, <1>2, <1>3, SendOthers

\* w after n has sent u, after it has read a message, and after both.
grown(w, n, u) == [w EXCEPT ![n] = @ \o u]
taken(w, n) == [w EXCEPT ![Peer(n)] = Tail(@)]
exchanged(w, n, u) == [w EXCEPT ![Peer(n)] = Tail(@), ![n] = @ \o u]

\* The streams when nothing is sent or read.
LEMMA LaterStreams ==
  ASSUME NEW g, NEW t, NEW tx, NEW o, NEW a, NEW ty, NEW p, NEW b, NEW w,
         streams(g, t, tx, o, a, w), later(tx, o, a, ty, p, b), kept(o, a, p, b), stays(o, p)
  PROVE  streams(g, t, ty, p, b, w)
<1>1. \A m \in Party : may(g, t, tx, o, a, m) \subseteq may(g, t, ty, p, b, m)
  BY MayGrow, Zenon
<1>2. \A m \in Party : w[m] \in Seq(may(g, t, tx, o, a, m))
  BY DEF streams
<1>3. \A m \in Party : w[m] \in Seq(may(g, t, ty, p, b, m))
  BY <1>1, <1>2, SeqMonotone
<1> QED
  BY <1>3 DEF streams

\* The streams after n has sent u.
LEMMA SentStreams ==
  ASSUME NEW g, NEW t, NEW tx, NEW o, NEW a, NEW w, streams(g, t, tx, o, a, w),
         NEW n \in Party, NEW u \in Seq(repeatable(g, t, tx, o, a, n)), NEW v,
         v = grown(w, n, u)
  PROVE  streams(g, t, tx, o, a, v)
<1> DEFINE x == proposal(g, t)
           y == signing(t)
           S(m) == may(g, t, tx, o, a, m)
<1>2. /\ w = [m \in Party |-> w[m]] /\ \A m \in Party : w[m] \in Seq(S(m))
      /\ single(w["opener"], x) /\ single(w["accepter"], y)
  BY DEF streams
<1>3. u \in Seq(S(n) \ {x, y})
  BY DEF repeatable
<1>4. v[n] = w[n] \o u /\ (\A m \in Party : m # n => v[m] = w[m]) /\ v = [m \in Party |-> v[m]]
  BY <1>2, Zenon DEF grown
<1> HIDE DEF x, y, S
<1>5. /\ v[n] \in Seq(S(n)) /\ (single(w[n], x) => single(v[n], x))
      /\ (single(w[n], y) => single(v[n], y))
  <2>1. w[n] \in Seq(S(n)) /\ S(n) \subseteq S(n) /\ v[n] = w[n] \o u
    BY <1>2, <1>4
  <2> DEFINE q == w[n]
             R == S(n)
  <2>2. q \in Seq(R) /\ R \subseteq R /\ u \in Seq(R \ {x, y}) /\ v[n] = q \o u
    BY <1>3, <2>1
  <2> HIDE DEF q, R
  <2>3. /\ q \o u \in Seq(R) /\ (single(q, x) => single(q \o u, x))
        /\ (single(q, y) => single(q \o u, y))
    BY <2>2, GrowStream, Zenon
  <2> QED
    BY <2>2, <2>3, Zenon DEF q, R
<1>6. \A m \in Party : v[m] \in Seq(S(m))
  BY <1>2, <1>4, <1>5, Zenon
<1>7. single(v["opener"], x) /\ single(v["accepter"], y)
  BY <1>2, <1>4, <1>5, PartyFacts, Zenon
<1> QED
  BY <1>4, <1>6, <1>7 DEF streams, x, y, S

\* The streams after n has read a message of its peer.
LEMMA ReadStreams ==
  ASSUME NEW g, NEW t, NEW tx, NEW o, NEW a, NEW w, streams(g, t, tx, o, a, w),
         NEW n \in Party, w[Peer(n)] # <<>>, NEW v, v = taken(w, n)
  PROVE  streams(g, t, tx, o, a, v) /\ Head(w[Peer(n)]) \in may(g, t, tx, o, a, Peer(n))
<1> DEFINE x == proposal(g, t)
           y == signing(t)
           S(m) == may(g, t, tx, o, a, m)
           k == Peer(n)
<1>1. k \in Party
  BY PartyFacts
<1>2. /\ w = [m \in Party |-> w[m]] /\ \A m \in Party : w[m] \in Seq(S(m))
      /\ single(w["opener"], x) /\ single(w["accepter"], y)
  BY DEF streams
<1>3. v[k] = Tail(w[k]) /\ (\A m \in Party : m # k => v[m] = w[m]) /\ v = [m \in Party |-> v[m]]
  BY <1>1, <1>2, Zenon DEF taken
<1> HIDE DEF x, y, S, k
<1>4. /\ v[k] \in Seq(S(k)) /\ (single(w[k], x) => single(v[k], x))
      /\ (single(w[k], y) => single(v[k], y)) /\ Head(w[k]) \in S(k)
  <2> DEFINE q == w[k]
             R == S(k)
  <2>1. q \in Seq(R) /\ q # <<>> /\ v[k] = Tail(q)
    BY <1>1, <1>2, <1>3 DEF k
  <2> HIDE DEF q, R
  <2>2. Head(q) \in R /\ Tail(q) \in Seq(R) /\ \A z : single(q, z) => single(Tail(q), z)
    BY <2>1, ReadOne, Zenon
  <2> QED
    BY <2>1, <2>2, Zenon DEF q, R
<1>5. \A m \in Party : v[m] \in Seq(S(m))
  BY <1>2, <1>3, <1>4, Zenon
<1>6. single(v["opener"], x) /\ single(v["accepter"], y)
  BY <1>2, <1>3, <1>4, PartyFacts
<1> QED
  BY <1>3, <1>4, <1>5, <1>6 DEF streams, x, y, S, k

\* The streams after n has read a message and answered u.
LEMMA AnsweredStreams ==
  ASSUME NEW g, NEW t, NEW tx, NEW o, NEW a, NEW ty, NEW p, NEW b, NEW w,
         streams(g, t, tx, o, a, w), later(tx, o, a, ty, p, b), kept(o, a, p, b), stays(o, p),
         NEW n \in Party, w[Peer(n)] # <<>>,
         NEW u \in Seq(repeatable(g, t, ty, p, b, n)), NEW v,
         v = exchanged(w, n, u)
  PROVE  streams(g, t, ty, p, b, v)
<1> DEFINE r == taken(w, n)
<1>1. streams(g, t, tx, o, a, r)
  BY ReadStreams
<1>2. r[n] = w[n]
  <2>1. w = [m \in Party |-> w[m]]
    BY DEF streams
  <2> QED
    BY <2>1, PartyFacts DEF taken
<1>3. v = grown(r, n, u)
  BY <1>2, Zenon DEF grown, taken, exchanged
<1> HIDE DEF r
<1>4. streams(g, t, ty, p, b, r)
  BY <1>1, LaterStreams, Zenon
<1> QED
  BY <1>3, <1>4, SentStreams, Zenon

-----------------------------------------------------------------------------
(* Steps of the parties. *)

\* What was said under h stays so under k.
moves(tx, h, ty, k) ==
  /\ later(tx, h["opener"], h["accepter"], ty, k["opener"], k["accepter"])
  /\ kept(h["opener"], h["accepter"], k["opener"], k["accepter"])
  /\ stays(h["opener"], k["opener"])

\* What n may send under h.
sends(g, t, tx, h, n) == repeatable(g, t, tx, h["opener"], h["accepter"], n)

\* An excuse lasts.
LEMMA ExcuseLasts ==
  ASSUME NEW g, NEW t, NEW tx, NEW h, NEW ty, NEW k, NEW e, moves(tx, h, ty, k),
         excused(g, t, h["opener"], h["accepter"], e)
  PROVE  excused(g, t, k["opener"], k["accepter"], e)
  BY Zenon DEF moves, later, excused

\* A party sends u.
LEMMA Sends ==
  ASSUME NEW g, NEW t, NEW tx, NEW h, NEW w, NEW e, sound(g, t, tx, h, w, e),
         NEW ty, NEW k, channels(g, t, k), joined(g, t, ty, k["opener"], k["accepter"]),
         moves(tx, h, ty, k),
         NEW n \in Party, NEW u \in Seq(sends(g, t, ty, k, n)), NEW v,
         v = grown(w, n, u)
  PROVE  sound(g, t, ty, k, v, e)
<1>1. streams(g, t, ty, k["opener"], k["accepter"], w)
  BY LaterStreams, Zenon DEF sound, moves
<1>2. streams(g, t, ty, k["opener"], k["accepter"], v)
  BY <1>1, SentStreams, Zenon DEF sends
<1>3. excused(g, t, k["opener"], k["accepter"], e)
  BY ExcuseLasts, Zenon DEF sound
<1> QED
  BY <1>2, <1>3, Zenon DEF sound

\* A party reads a message, answers u, and may have failed the channel.
LEMMA Answers ==
  ASSUME NEW g, NEW t, NEW tx, NEW h, NEW w, NEW e, sound(g, t, tx, h, w, e),
         NEW ty, NEW k, channels(g, t, k), joined(g, t, ty, k["opener"], k["accepter"]),
         moves(tx, h, ty, k),
         NEW n \in Party, w[Peer(n)] # <<>>, NEW u \in Seq(sends(g, t, ty, k, n)), NEW v,
         v = exchanged(w, n, u),
         NEW f, excused(g, t, k["opener"], k["accepter"], f)
  PROVE  sound(g, t, ty, k, v, f)
<1> DEFINE o == h["opener"]
           a == h["accepter"]
           p == k["opener"]
           b == k["accepter"]
<1>1. /\ streams(g, t, tx, o, a, w) /\ later(tx, o, a, ty, p, b) /\ kept(o, a, p, b) /\ stays(o, p)
      /\ u \in Seq(repeatable(g, t, ty, p, b, n))
  BY DEF sound, moves, sends
<1> HIDE DEF o, a, p, b
<1>2. streams(g, t, ty, p, b, v)
  BY <1>1, AnsweredStreams
<1> QED
  BY <1>2, Zenon DEF sound, p, b

\* Nothing changes but what is under way.
LEMMA Standing ==
  ASSUME NEW tx, NEW h PROVE moves(tx, h, tx, h)
  BY DEF moves, later, kept, stays

\* An error that is told to the peer.
LEMMA Failures ==
  ASSUME NEW g, NEW t, NEW tx, NEW h, NEW n \in Party, NEW x \in {"temporary", "final"},
         x = "final" => ends(h["opener"]) \/ ends(h["accepter"])
  PROVE  <<failure(x)>> \in Seq(sends(g, t, tx, h, n))
<1>1. failure(x) \in may(g, t, tx, h["opener"], h["accepter"], n)
  BY MayBe
<1>2. failure(x) \in sends(g, t, tx, h, n)
  BY <1>1, Kinds DEF sends, repeatable
<1> QED
  BY <1>2

\* What is sent if there is a connection.
LEMMA WhenConnected ==
  ASSUME NEW S, NEW q \in Seq(S) PROVE (IF connected THEN q ELSE <<>>) \in Seq(S)
<1>1. CASE connected
  BY <1>1
<1>2. CASE ~connected
  BY <1>2
<1> QED
  BY <1>1, <1>2

\* Dropping a message.
LEMMA DroppedKeeps ==
  ASSUME OpenInv, NEW n \in Party, net[Peer(n)] # <<>>, dropped(n),
         UNCHANGED <<config, terms, connected>>
  PROVE  OpenInv'
<1> DEFINE g == config
           t == terms
           u == IF connected THEN <<>> ELSE <<>>
<1>1. moves(funding_tx, ch, funding_tx, ch) /\ u \in Seq(sends(g, t, funding_tx, ch, n))
  BY Standing
<1>2. /\ sound(g, t, funding_tx, ch, net, error)
      /\ channels(g, t, ch) /\ joined(g, t, funding_tx, ch["opener"], ch["accepter"])
      /\ excused(g, t, ch["opener"], ch["accepter"], error)
  BY DEF OpenInv, sound
<1>3. net' = exchanged(net, n, u)
  BY DEF dropped, answered, exchanged
<1> HIDE DEF u
<1>4. sound(g, t, funding_tx, ch, net', error)
  BY <1>1, <1>2, <1>3, Answers
<1> QED
  BY <1>4 DEF OpenInv, dropped

\* Failing the channel over a message, for a reason there is.
LEMMA FailKeeps ==
  ASSUME OpenInv, NEW n \in Party, net[Peer(n)] # <<>>, UNCHANGED <<config, terms, connected>>,
         NEW why \in Why, fail(n, why), message(n).channel_id \in {"temporary", "final"},
         \/ why = "accept refused" /\ declined(config, terms) /\ message(n).channel_id = "temporary"
         \/ why # "accept refused" /\ (ends(ch["opener"]) \/ ends(ch["accepter"]))
  PROVE  OpenInv'
<1> DEFINE g == config
           t == terms
           x == message(n).channel_id
           u == IF connected THEN <<failure(x)>> ELSE <<>>
<1>1. moves(funding_tx, ch, funding_tx, ch) /\ u \in Seq(sends(g, t, funding_tx, ch, n))
  <2>1. x \in {"temporary", "final"} /\ (x = "final" => ends(ch["opener"]) \/ ends(ch["accepter"]))
    BY Zenon
  <2> HIDE DEF x
  <2>2. <<failure(x)>> \in Seq(sends(g, t, funding_tx, ch, n))
    BY <2>1, Failures, Zenon
  <2>3. u \in Seq(sends(g, t, funding_tx, ch, n))
    BY <2>2, WhenConnected, Zenon
  <2> QED
    BY <2>3, Standing, Zenon
<1>2. /\ sound(g, t, funding_tx, ch, net, error)
      /\ channels(g, t, ch) /\ joined(g, t, funding_tx, ch["opener"], ch["accepter"])
      /\ excused(g, t, ch["opener"], ch["accepter"], error)
  BY Zenon DEF OpenInv, sound
<1>3. net' = exchanged(net, n, u)
  BY Zenon DEF fail, report_failure, answered, failure, exchanged
<1>4. excused(g, t, ch["opener"], ch["accepter"], error')
  BY <1>2, Zenon DEF fail, report_failure, excused
<1> HIDE DEF u
<1>5. sound(g, t, funding_tx, ch, net', error')
  BY <1>1, <1>2, <1>3, <1>4, Answers, Zenon
<1> QED
  BY <1>5, Zenon DEF OpenInv, fail

\* What n reads is what its peer may have sent.
LEMMA ReadSays ==
  ASSUME OpenInv, NEW n \in Party, net[Peer(n)] # <<>>
  PROVE  message(n) \in may(config, terms, funding_tx, ch["opener"], ch["accepter"], Peer(n))
<1>1. net[Peer(n)] \in Seq(may(config, terms, funding_tx, ch["opener"], ch["accepter"], Peer(n)))
  BY PartyFacts DEF OpenInv, sound, streams
<1> QED
  BY <1>1, ReadOne DEF message

\* on_error: only a channel that is being closed is failed after its signatures.
LEMMA ErrorKeeps ==
  ASSUME OpenInv, NEW n \in Party, on_error(n) PROVE OpenInv'
<1> DEFINE g == config
           t == terms
           u == IF connected THEN <<>> ELSE <<>>
<1>1. moves(funding_tx, ch, funding_tx, ch) /\ u \in Seq(sends(g, t, funding_tx, ch, n))
  BY Standing
<1>2. /\ sound(g, t, funding_tx, ch, net, error)
      /\ channels(g, t, ch) /\ joined(g, t, funding_tx, ch["opener"], ch["accepter"])
      /\ excused(g, t, ch["opener"], ch["accepter"], error)
  BY DEF OpenInv, sound
<1>3. net' = exchanged(net, n, u) /\ net[Peer(n)] # <<>>
  BY Zenon DEF on_error, receives, answered, exchanged
<1>4. known(n) /\ ch[n].current_holder_commitment # None => ends(ch["opener"]) \/ ends(ch["accepter"])
  <2> SUFFICES ASSUME known(n), ch[n].current_holder_commitment # None
               PROVE  ends(ch["opener"]) \/ ends(ch["accepter"])
    OBVIOUS
  <2>1. formed(g, t, n, ch[n])
    BY <1>2 DEF known, channels
  <2>2. ch[n].channel_id = "final"
    BY <2>1 DEF formed, signed, Channel, State, None
  <2>3. message(n).type = "error" /\ message(n).channel_id = "final"
    BY <2>2, Zenon DEF known, on_error, receives
  <2> QED
    BY <1>3, <2>3, ReadSays, MessageSays, Kinds
<1>5. excused(g, t, ch["opener"], ch["accepter"], error')
  BY <1>2, <1>4, Zenon DEF on_error, excused, Why
<1> HIDE DEF u
<1>6. sound(g, t, funding_tx, ch, net', error')
  BY <1>1, <1>2, <1>3, <1>5, Answers
<1> QED
  BY <1>6, Zenon DEF OpenInv, on_error

\* on_channel_reestablish: channel_ready is sent again when it was sent.
LEMMA ReestablishKeeps ==
  ASSUME OpenInv, NEW n \in Party, on_channel_reestablish(n) PROVE OpenInv'
<1> DEFINE g == config
           t == terms
           q == retransmitted(ch[n])
           u == IF connected THEN q ELSE <<>>
<1>1. net[Peer(n)] # <<>> /\ UNCHANGED <<config, terms, connected>>
  BY DEF on_channel_reestablish, receives
<1>2. CASE ~known(n)
  BY <1>1, <1>2, DroppedKeeps DEF on_channel_reestablish
<1>3. CASE known(n)
  <2>1. /\ sound(g, t, funding_tx, ch, net, error)
        /\ channels(g, t, ch) /\ joined(g, t, funding_tx, ch["opener"], ch["accepter"])
        /\ excused(g, t, ch["opener"], ch["accepter"], error)
    BY DEF OpenInv, sound
  <2>2. ch[n].channel_ready_sent => funding_tx = "confirmed"
    BY <1>3, <2>1, PartyFacts DEF known, joined
  <2>3. funding_tx = "confirmed" => channel_ready \in sends(g, t, funding_tx, ch, n)
    BY MayBe, Kinds DEF sends, repeatable
  <2>4. q \in Seq(sends(g, t, funding_tx, ch, n))
    BY <2>2, <2>3 DEF retransmitted
  <2> HIDE DEF q
  <2>5. u \in Seq(sends(g, t, funding_tx, ch, n)) /\ moves(funding_tx, ch, funding_tx, ch)
    BY <2>4, WhenConnected, Standing
  <2>6. net' = exchanged(net, n, u)
    BY <1>3, Zenon DEF on_channel_reestablish, answered, q, exchanged
  <2> HIDE DEF u
  <2>7. sound(g, t, funding_tx, ch, net', error)
    BY <1>1, <2>1, <2>5, <2>6, Answers
  <2> QED
    BY <1>1, <1>3, <2>7 DEF OpenInv, on_channel_reestablish
<1> QED
  BY <1>2, <1>3

\* A connection that starts or ends leaves at most a channel_reestablish under way.
LEMMA FreshStreams ==
  ASSUME NEW g, NEW t, NEW tx, NEW o, NEW a, NEW w, w = [n \in Party |-> w[n]],
         \A n \in Party : w[n] \in Seq({reestablishment})
  PROVE  streams(g, t, tx, o, a, w)
<1>1. \A n \in Party : {reestablishment} \subseteq may(g, t, tx, o, a, n)
  BY MayBe
<1>2. \A n \in Party : w[n] \in Seq(may(g, t, tx, o, a, n))
  BY <1>1, SeqMonotone
<1>3. \A n \in Party : \A i \in 1..Len(w[n]) : w[n][i] # proposal(g, t) /\ w[n][i] # signing(t)
  <2> SUFFICES ASSUME NEW n \in Party, NEW i \in 1..Len(w[n])
               PROVE  w[n][i] # proposal(g, t) /\ w[n][i] # signing(t)
    OBVIOUS
  <2>1. w[n][i] = reestablishment
    OBVIOUS
  <2> QED
    BY <2>1, Kinds
<1>4. single(w["opener"], proposal(g, t)) /\ single(w["accepter"], signing(t))
  BY <1>3, PartyFacts DEF single
<1> QED
  BY <1>2, <1>4 DEF streams

\* Losing the connection.
LEMMA DisconnectKeeps == ASSUME OpenInv, peer_disconnected PROVE OpenInv'
<1>1. net' = [n \in Party |-> net'[n]] /\ \A n \in Party : net'[n] \in Seq({reestablishment})
  BY DEF peer_disconnected
<1>2. streams(config, terms, funding_tx, ch["opener"], ch["accepter"], net')
  BY <1>1, FreshStreams
<1> QED
  BY <1>2, Zenon DEF OpenInv, sound, peer_disconnected

\* Making it again.
LEMMA ConnectKeeps == ASSUME OpenInv, on_init PROVE OpenInv'
<1>1. net' = [n \in Party |-> net'[n]] /\ \A n \in Party : net'[n] \in Seq({reestablishment})
  <2>1. net' = [n \in Party |-> IF reestablishes(ch[n]) THEN <<reestablishment>> ELSE <<>>]
    BY DEF on_init, reestablishment
  <2>2. \A n \in Party : net'[n] = <<reestablishment>> \/ net'[n] = <<>>
    BY <2>1
  <2>3. <<reestablishment>> \in Seq({reestablishment}) /\ <<>> \in Seq({reestablishment})
    OBVIOUS
  <2>4. \A n \in Party : net'[n] \in Seq({reestablishment})
    BY <2>2, <2>3, Zenon
  <2>5. net' = [n \in Party |-> net'[n]]
    BY <2>1
  <2> QED
    BY <2>4, <2>5
<1>2. streams(config, terms, funding_tx, ch["opener"], ch["accepter"], net')
  BY <1>1, FreshStreams
<1> QED
  BY <1>2 DEF OpenInv, sound, on_init

\* The block with the funding transaction.
LEMMA ConfirmKeeps == ASSUME OpenInv, confirm PROVE OpenInv'
<1> DEFINE o == ch["opener"]
           a == ch["accepter"]
<1>1. /\ channels(config, terms, ch) /\ joined(config, terms, "broadcast", o, a)
      /\ streams(config, terms, "broadcast", o, a, net) /\ excused(config, terms, o, a, error)
  BY DEF OpenInv, sound, confirm
<1>2. later("broadcast", o, a, "confirmed", o, a) /\ kept(o, a, o, a) /\ stays(o, o)
  BY DEF later, kept, stays
<1>3. joined(config, terms, "confirmed", o, a)
  BY <1>1 DEF joined, stage
<1> HIDE DEF o, a
<1>4. streams(config, terms, "confirmed", o, a, net)
  BY <1>1, <1>2, LaterStreams
<1> QED
  BY <1>1, <1>3, <1>4 DEF OpenInv, sound, confirm, o, a

-----------------------------------------------------------------------------
(* Steps of a party whose channel has its first signatures. *)

\* A channel whose state is one of a channel's.
LEMMA Exists ==
  ASSUME NEW c, c.state \in State \/ c \in Channel PROVE c # NoChannel /\ c.state # "None"
  BY DEF Channel, State, Funded, NoChannel

\* Such a step keeps the channels in step with each other.
LEMMA FundedStep ==
  ASSUME NEW g, NEW t, NEW tx, NEW h, channels(g, t, h), joined(g, t, tx, h["opener"], h["accepter"]),
         NEW n \in Party, h[n].state \in Funded,
         NEW d, formed(g, t, n, d), d.state \in Funded, d.channel_ready_sent => tx = "confirmed",
         ends(h[n]) => ends(d), NEW k, k = [h EXCEPT ![n] = d]
  PROVE  /\ channels(g, t, k) /\ joined(g, t, tx, k["opener"], k["accepter"])
         /\ moves(tx, h, tx, k)
<1>1. h = [m \in Party |-> h[m]] /\ \A m \in Party : h[m] # NoChannel => formed(g, t, m, h[m])
  BY DEF channels
<1>2. k[n] = d /\ k[Peer(n)] = h[Peer(n)] /\ k = [m \in Party |-> k[m]]
  BY <1>1, PartyFacts
<1>3. h[n] # NoChannel /\ d # NoChannel
  BY Exists DEF State
<1>4. channels(g, t, k)
  BY <1>1, <1>2, PartyFacts DEF channels
<1>5. h[n].counterparty_current_point = {0} /\ d.counterparty_current_point = {0}
  BY <1>1, <1>3 DEF formed, Funded
<1>6. CASE n = "opener"
  <2>1. /\ k["opener"] = d /\ k["accepter"] = h["accepter"] /\ h["opener"].state \in Funded
        /\ h["opener"] # NoChannel /\ h["opener"].counterparty_current_point = {0}
        /\ ends(h["opener"]) => ends(d)
    BY <1>2, <1>3, <1>5, <1>6, PartyFacts
  <2>2. joined(g, t, tx, d, h["accepter"])
    BY <1>3, <1>5, <2>1 DEF joined, stage, Funded
  <2>3. moves(tx, h, tx, k)
    BY <2>1 DEF moves, later, kept, stays, Funded
  <2> QED
    BY <1>4, <2>1, <2>2, <2>3
<1>7. CASE n = "accepter"
  <2>1. /\ k["accepter"] = d /\ k["opener"] = h["opener"] /\ h["accepter"].state \in Funded
        /\ h["accepter"] # NoChannel /\ h["accepter"].counterparty_current_point = {0}
        /\ ends(h["accepter"]) => ends(d)
    BY <1>2, <1>3, <1>5, <1>7, PartyFacts
  <2>2. joined(g, t, tx, h["opener"], d)
    BY <1>3, <2>1 DEF joined
  <2>3. moves(tx, h, tx, k)
    BY <1>3, <2>1 DEF moves, later, kept, stays
  <2> QED
    BY <1>4, <2>1, <2>2, <2>3
<1> QED
  BY <1>6, <1>7, PartyFacts

\* funding_confirmed and on_channel_ready on one channel.
sees(c) == [c EXCEPT !.funding_confirmed = TRUE, !.channel_ready_sent = TRUE]
hears(c) == [c EXCEPT !.counterparty_next_point = {1}, !.channel_ready_received = TRUE]

LEMMA ReadyFormed ==
  ASSUME NEW g, NEW t, NEW n, NEW c, formed(g, t, n, c),
         c.state \in {"AwaitingChannelReady", "Normal"},
         NEW d, d = sees(c) \/ d = hears(c)
  PROVE  /\ formed(g, t, n, d) /\ d.state = c.state
         /\ formed(g, t, n, maybe_become_normal(d))
         /\ maybe_become_normal(d).state \in Funded
         /\ maybe_become_normal(d).channel_ready_sent = d.channel_ready_sent
         /\ (ends(c) => ends(d)) /\ (ends(d) => ends(maybe_become_normal(d)))
<1>1. c \in Channel
  BY DEF formed
<1>2. /\ d \in Channel /\ d.state = c.state /\ d.channel_id = c.channel_id /\ d.holder = c.holder
      /\ d.counterparty = c.counterparty /\ d.to_holder_msat = c.to_holder_msat
      /\ d.to_counterparty_msat = c.to_counterparty_msat
      /\ d.counterparty_current_point = c.counterparty_current_point
      /\ d.current_holder_commitment = c.current_holder_commitment
      /\ d.current_counterparty_commitment = c.current_counterparty_commitment
      /\ d.shutdown_sent = c.shutdown_sent /\ d.shutdown_received = c.shutdown_received
      /\ d.channel_ready_received => d.counterparty_next_point = {1}
      /\ c.channel_ready_received => d.channel_ready_received
  <2>1. c.channel_ready_received => c.counterparty_next_point = {1}
    BY DEF formed
  <2>2. CASE d = sees(c)
    BY <1>1, <2>1, <2>2, Zenon DEF Channel, sees
  <2>3. CASE d = hears(c)
    <3> DEFINE x == {1}
    <3>1. x \in SUBSET Nat
      OBVIOUS
    <3>2. d = [c EXCEPT !.counterparty_next_point = x, !.channel_ready_received = TRUE]
      BY <2>3 DEF hears
    <3> HIDE DEF x
    <3>3. d.counterparty_next_point = x
      BY <1>1, <3>2 DEF Channel
    <3>4. d.channel_ready_received => d.counterparty_next_point = {1}
      BY <3>3 DEF x
    <3> QED
      BY <1>1, <3>1, <3>2, <3>4, Zenon DEF Channel
  <2> QED
    BY <2>2, <2>3
<1>3. formed(g, t, n, d)
  BY <1>2 DEF formed, signed
<1> DEFINE f == [d EXCEPT !.state = "Normal"]
<1>4. /\ f \in Channel /\ f.state = "Normal" /\ f.channel_id = d.channel_id /\ f.holder = d.holder
      /\ f.counterparty = d.counterparty /\ f.to_holder_msat = d.to_holder_msat
      /\ f.to_counterparty_msat = d.to_counterparty_msat
      /\ f.counterparty_current_point = d.counterparty_current_point
      /\ f.current_holder_commitment = d.current_holder_commitment
      /\ f.current_counterparty_commitment = d.current_counterparty_commitment
      /\ f.shutdown_sent = d.shutdown_sent /\ f.shutdown_received = d.shutdown_received
      /\ f.channel_ready_received = d.channel_ready_received
      /\ f.counterparty_next_point = d.counterparty_next_point
      /\ f.channel_ready_sent = d.channel_ready_sent
  BY <1>2 DEF Channel, State, Funded
<1>5. d.state = "AwaitingChannelReady" /\ d.channel_ready_received => formed(g, t, n, f)
  BY <1>3, <1>4 DEF formed, signed, Funded
<1>6. maybe_become_normal(d) = IF d.state = "AwaitingChannelReady" /\ d.channel_ready_sent
                                  /\ d.channel_ready_received THEN f ELSE d
  BY DEF maybe_become_normal
<1>7. d # NoChannel /\ f # NoChannel
  BY <1>2, <1>4, Exists
<1> HIDE DEF f
<1> QED
  BY <1>2, <1>3, <1>4, <1>5, <1>6, <1>7, SMTT(20) DEF ends, Funded

\* What the parties of a sound state have.
LEMMA Parts ==
  ASSUME OpenInv
  PROVE  /\ sound(config, terms, funding_tx, ch, net, error) /\ channels(config, terms, ch)
         /\ joined(config, terms, funding_tx, ch["opener"], ch["accepter"])
         /\ excused(config, terms, ch["opener"], ch["accepter"], error)
         /\ ch = [n \in Party |-> ch[n]]
         /\ \A n \in Party : ch[n] # NoChannel => formed(config, terms, n, ch[n])
  BY Zenon DEF OpenInv, sound, channels

\* A party with its first signatures goes to d and sends q.
LEMMA FundedSends ==
  ASSUME OpenInv, NEW n \in Party, ch[n].state \in Funded, NEW d, formed(config, terms, n, d),
         d.state \in Funded, d.channel_ready_sent => funding_tx = "confirmed",
         ends(ch[n]) => ends(d), ch' = [ch EXCEPT ![n] = d],
         NEW q, q \in Seq(sends(config, terms, funding_tx, ch', n)), net' = sent(n, q),
         UNCHANGED <<config, terms, funding_tx, connected, error>>
  PROVE  OpenInv'
<1> DEFINE g == config
           t == terms
           u == IF connected THEN q ELSE <<>>
           k == ch'
<1>1. u \in Seq(sends(g, t, funding_tx, k, n))
  BY WhenConnected
<1>2. net' = grown(net, n, u)
  BY DEF sent, grown
<1>3. /\ channels(g, t, k) /\ joined(g, t, funding_tx, k["opener"], k["accepter"])
      /\ moves(funding_tx, ch, funding_tx, k)
  BY Parts, FundedStep, Zenon
<1> HIDE DEF u, k
<1>4. sound(g, t, funding_tx, k, net', error)
  BY <1>1, <1>2, <1>3, Parts, Sends
<1> QED
  BY <1>4 DEF OpenInv, k

\* It reads a message, goes to d and answers q.
LEMMA FundedAnswers ==
  ASSUME OpenInv, NEW n \in Party, ch[n].state \in Funded, NEW d, formed(config, terms, n, d),
         d.state \in Funded, d.channel_ready_sent => funding_tx = "confirmed",
         ends(ch[n]) => ends(d), ch' = [ch EXCEPT ![n] = d], net[Peer(n)] # <<>>,
         NEW q, q \in Seq(sends(config, terms, funding_tx, ch', n)), net' = answered(n, q),
         UNCHANGED <<config, terms, funding_tx, connected, error>>
  PROVE  OpenInv'
<1> DEFINE g == config
           t == terms
           u == IF connected THEN q ELSE <<>>
           k == ch'
<1>1. u \in Seq(sends(g, t, funding_tx, k, n))
  BY WhenConnected
<1>2. net' = exchanged(net, n, u)
  BY DEF answered, exchanged
<1>3. /\ channels(g, t, k) /\ joined(g, t, funding_tx, k["opener"], k["accepter"])
      /\ moves(funding_tx, ch, funding_tx, k)
  BY Parts, FundedStep, Zenon
<1> HIDE DEF u, k
<1>4. excused(g, t, k["opener"], k["accepter"], error)
  BY <1>3, Parts, ExcuseLasts, Zenon
<1>5. sound(g, t, funding_tx, ch, net, error)
  BY Parts
<1>6. sound(g, t, funding_tx, k, net', error)
  BY <1>1, <1>2, <1>3, <1>4, <1>5, Answers
<1> QED
  BY <1>6 DEF OpenInv, k

\* funding_confirmed.
LEMMA FundingConfirmedKeeps ==
  ASSUME OpenInv, NEW n \in Party, funding_confirmed(n) PROVE OpenInv'
<1> DEFINE c == ch[n]
           first_time == ~c.channel_ready_sent
           d == sees(c)
           e == IF first_time THEN maybe_become_normal(d) ELSE d
           q == IF first_time THEN <<channel_ready>> ELSE <<>>
<1>1. /\ funding_tx = "confirmed" /\ c.state \in {"AwaitingChannelReady", "Normal"}
      /\ ch' = [ch EXCEPT ![n] = e] /\ net' = sent(n, q)
      /\ UNCHANGED <<config, terms, funding_tx, connected, error>>
  BY DEF funding_confirmed, sees
<1>2. c # NoChannel /\ c.state \in Funded
  BY <1>1, Exists DEF State, Funded
<1>3. formed(config, terms, n, c)
  BY <1>2, Parts
<1>4. /\ formed(config, terms, n, d) /\ d.state = c.state
      /\ formed(config, terms, n, maybe_become_normal(d))
      /\ maybe_become_normal(d).state \in Funded
      /\ (ends(c) => ends(d)) /\ (ends(d) => ends(maybe_become_normal(d)))
  <2>1. c.state \in {"AwaitingChannelReady", "Normal"}
    BY <1>1
  <2> HIDE DEF c
  <2> QED
    BY <1>3, <2>1, ReadyFormed
<1>5. channel_ready \in sends(config, terms, funding_tx, ch', n)
  BY <1>1, MayBe, Kinds DEF sends, repeatable
<1>6. q \in Seq(sends(config, terms, funding_tx, ch', n))
  <2> DEFINE S == sends(config, terms, funding_tx, ch', n)
  <2> HIDE DEF S
  <2>1. channel_ready \in S
    BY <1>5 DEF S
  <2>2. q \in Seq(S)
    BY <2>1
  <2> QED
    BY <2>2 DEF S
<1> HIDE DEF q, d
<1>7. formed(config, terms, n, e) /\ e.state \in Funded /\ (ends(c) => ends(e))
  BY <1>2, <1>4
<1> HIDE DEF e, c
<1> QED
  BY <1>1, <1>2, <1>6, <1>7, FundedSends, Zenon DEF c

\* on_channel_ready: only a channel that is being closed refuses it.
LEMMA ChannelReadyKeeps ==
  ASSUME OpenInv, NEW n \in Party, on_channel_ready(n) PROVE OpenInv'
<1> DEFINE c == ch[n]
           m == message(n)
           e == maybe_become_normal(hears(c))
<1>1. net[Peer(n)] # <<>> /\ m.type = "channel_ready" /\ UNCHANGED <<config, terms, connected>>
  BY Zenon DEF on_channel_ready, receives
<1>2. m = channel_ready /\ funding_tx = "confirmed"
  BY <1>1, ReadSays, MessageSays
<1>3. m.channel_id = "final" /\ m.second_per_commitment_point = 1
  BY <1>2, Kinds
<1>4. CASE ~known(n)
  <2>1. dropped(n)
    BY <1>4 DEF on_channel_ready
  <2> QED
    BY <1>1, <2>1, DroppedKeeps
<1>5. CASE known(n)
  <2>1. formed(config, terms, n, c) /\ c.channel_id = "final"
    BY <1>3, <1>5, Parts, SMTT(20) DEF known
  <2>2. c.state # "FundingCreatedSent"
    BY <1>2, <2>1, Parts, PartyFacts, SMTT(20) DEF formed, signed, joined, stage
  <2>3. c.state \in Funded
    BY <2>1, <2>2, SMTT(20) DEF formed, signed, Channel, State
  <2>4. c # NoChannel /\ (c.state = "ShuttingDown" => ends(c))
    BY <1>5, <2>1, SMTT(20) DEF known, formed, ends
  <2>5. CASE c.state \notin {"AwaitingChannelReady", "Normal"}
    <3>1. fail(n, "channel_ready refused")
      BY <1>5, <2>5, Zenon DEF on_channel_ready
    <3>2. c.state = "ShuttingDown"
      BY <2>3, <2>5 DEF Funded
    <3>3. ends(ch["opener"]) \/ ends(ch["accepter"])
      BY <2>4, <3>2, PartyFacts
    <3> QED
      BY <1>1, <1>3, <3>1, <3>3, FailKeeps, Zenon DEF Why
  <2>6. CASE c.state \in {"AwaitingChannelReady", "Normal"}
    <3>1. /\ ch' = [ch EXCEPT ![n] = e] /\ net' = answered(n, <<>>)
          /\ UNCHANGED <<funding_tx, error>>
      BY <1>3, <1>5, <2>6, Zenon DEF on_channel_ready, hears, Some
    <3>2. formed(config, terms, n, e) /\ e.state \in Funded /\ (ends(c) => ends(e))
      <4> HIDE DEF c
      <4> QED
        BY <2>1, <2>6, ReadyFormed
    <3>3. <<>> \in Seq(sends(config, terms, funding_tx, ch', n))
      OBVIOUS
    <3> HIDE DEF e, c, m
    <3> QED
      BY <1>1, <1>2, <2>3, <3>1, <3>2, <3>3, FundedAnswers, Zenon DEF c
  <2> QED
    BY <2>5, <2>6
<1> QED
  BY <1>4, <1>5

\* close_channel and on_shutdown on one channel.
LEMMA ShutdownFormed ==
  ASSUME NEW g, NEW t, NEW n, NEW c, formed(g, t, n, c), c.state \in Funded
  PROVE  LET d == [c EXCEPT !.shutdown_received = TRUE, !.state = "ShuttingDown"]
         IN  /\ formed(g, t, n, send_shutdown(c)) /\ send_shutdown(c).state \in Funded
             /\ send_shutdown(c).channel_ready_sent = c.channel_ready_sent
             /\ ends(send_shutdown(c))
             /\ formed(g, t, n, reciprocal(d)) /\ reciprocal(d).state \in Funded
             /\ reciprocal(d).channel_ready_sent = c.channel_ready_sent
             /\ ends(reciprocal(d))
<1>1. c \in Channel
  BY DEF formed
<1>2. ASSUME NEW d \in Channel, NEW s \in Funded, NEW x \in BOOLEAN, NEW y \in BOOLEAN,
             d = [c EXCEPT !.shutdown_sent = x, !.shutdown_received = y, !.state = s],
             s = c.state \/ s = "ShuttingDown", y => s = "ShuttingDown",
             x \/ y
      PROVE  /\ formed(g, t, n, d) /\ d.state \in Funded /\ ends(d)
             /\ d.channel_ready_sent = c.channel_ready_sent
  <2>1. /\ d.state = s /\ d.channel_id = c.channel_id /\ d.holder = c.holder
        /\ d.counterparty = c.counterparty /\ d.to_holder_msat = c.to_holder_msat
        /\ d.to_counterparty_msat = c.to_counterparty_msat
        /\ d.counterparty_current_point = c.counterparty_current_point
        /\ d.current_holder_commitment = c.current_holder_commitment
        /\ d.current_counterparty_commitment = c.current_counterparty_commitment
        /\ d.shutdown_sent = x /\ d.shutdown_received = y
        /\ d.channel_ready_received = c.channel_ready_received
        /\ d.counterparty_next_point = c.counterparty_next_point
        /\ d.channel_ready_sent = c.channel_ready_sent
    BY <1>1, <1>2 DEF Channel
  <2>2. d # NoChannel
    BY <1>2, Exists
  <2>3. formed(g, t, n, d)
    BY <1>2, <2>1 DEF formed, signed, Funded
  <2> QED
    BY <1>2, <2>1, <2>2, <2>3 DEF ends
<1> DEFINE s == IF c.state = "Normal" THEN "ShuttingDown" ELSE c.state
           x == [c EXCEPT !.shutdown_sent = TRUE, !.shutdown_received = c.shutdown_received,
                          !.state = s]
           z == [c EXCEPT !.shutdown_sent = TRUE, !.shutdown_received = TRUE,
                          !.state = "ShuttingDown"]
           d == [c EXCEPT !.shutdown_received = TRUE, !.state = "ShuttingDown"]
<1>3. send_shutdown(c) = x /\ x \in Channel
  BY <1>1, Zenon DEF send_shutdown, Channel, Funded, State
<1>4. reciprocal(d) = z /\ z \in Channel
  BY <1>1, Zenon DEF reciprocal, send_shutdown, Channel, Funded, State
<1>5. /\ s \in Funded /\ c.shutdown_received \in BOOLEAN /\ (s = c.state \/ s = "ShuttingDown")
      /\ c.shutdown_received => s = "ShuttingDown"
  BY <1>1, SMTT(20) DEF Channel, Funded, formed
<1>6. /\ formed(g, t, n, x) /\ x.state \in Funded /\ ends(x)
      /\ x.channel_ready_sent = c.channel_ready_sent
  <2> HIDE DEF s
  <2>1. x = [c EXCEPT !.shutdown_sent = TRUE, !.shutdown_received = c.shutdown_received, !.state = s]
    BY SMTT(20)
  <2> HIDE DEF x
  <2> QED
    BY <1>2, <1>3, <1>5, <2>1, Zenon
<1>7. /\ formed(g, t, n, z) /\ z.state \in Funded /\ ends(z)
      /\ z.channel_ready_sent = c.channel_ready_sent
  <2>1. "ShuttingDown" \in Funded
    BY DEF Funded
  <2>2. z = [c EXCEPT !.shutdown_sent = TRUE, !.shutdown_received = TRUE, !.state = "ShuttingDown"]
    OBVIOUS
  <2> HIDE DEF z
  <2> QED
    BY <1>2, <1>4, <2>1, <2>2, Zenon
<1> HIDE DEF x, z
<1> QED
  BY <1>3, <1>4, <1>6, <1>7, SMTT(20)

\* n may send shutdown when it is closing.
LEMMA SaysShutdown ==
  ASSUME NEW g, NEW t, NEW tx, NEW k, NEW n \in Party, ends(k[n])
  PROVE  <<shutdown>> \in Seq(sends(g, t, tx, k, n)) /\ <<>> \in Seq(sends(g, t, tx, k, n))
<1>1. ends(IF n = "opener" THEN k["opener"] ELSE k["accepter"])
  BY PartyFacts
<1>2. shutdown \in sends(g, t, tx, k, n)
  BY <1>1, MayBe, Kinds DEF sends, repeatable
<1> QED
  BY <1>2

\* close_channel.
LEMMA CloseKeeps == ASSUME OpenInv, NEW n \in Party, close_channel(n) PROVE OpenInv'
<1> DEFINE c == ch[n]
           d == send_shutdown(c)
<1>1. /\ c.state \in Funded /\ ch' = [ch EXCEPT ![n] = d] /\ net' = sent(n, <<shutdown>>)
      /\ UNCHANGED <<config, terms, funding_tx, connected, error>>
  BY Parts DEF close_channel, closable, Funded
<1>2. c # NoChannel
  BY <1>1, Exists DEF State
<1>3. formed(config, terms, n, c) /\ (c.channel_ready_sent => funding_tx = "confirmed")
  BY <1>2, Parts, PartyFacts, SMTT(20) DEF joined
<1>4. /\ formed(config, terms, n, d) /\ d.state \in Funded /\ ends(d)
      /\ d.channel_ready_sent = c.channel_ready_sent
  <2> HIDE DEF c
  <2> QED
    BY <1>1, <1>3, ShutdownFormed, Zenon
<1>5. ch'[n] = d
  BY <1>1, Parts, SMTT(20)
<1>6. <<shutdown>> \in Seq(sends(config, terms, funding_tx, ch', n))
  BY <1>4, <1>5, SaysShutdown
<1> HIDE DEF d, c
<1> QED
  BY <1>1, <1>3, <1>4, <1>6, FundedSends, Zenon DEF c

\* on_shutdown: it is refused only while the peer is closing.
LEMMA ShutdownKeeps == ASSUME OpenInv, NEW n \in Party, on_shutdown(n) PROVE OpenInv'
<1> DEFINE c == ch[n]
           m == message(n)
           x == [c EXCEPT !.shutdown_received = TRUE, !.state = "ShuttingDown"]
           d == reciprocal(x)
           q == IF d.shutdown_sent /\ ~x.shutdown_sent THEN <<shutdown>> ELSE <<>>
<1>1. net[Peer(n)] # <<>> /\ m.type = "shutdown" /\ UNCHANGED <<config, terms, connected>>
  BY Zenon DEF on_shutdown, receives
<1>2. m = shutdown /\ (ends(ch["opener"]) \/ ends(ch["accepter"]))
  BY <1>1, ReadSays, MessageSays
<1>3. m.channel_id = "final"
  BY <1>2, Kinds
<1>4. CASE ~known(n)
  <2>1. dropped(n)
    BY <1>4 DEF on_shutdown
  <2> QED
    BY <1>1, <2>1, DroppedKeeps
<1>5. CASE known(n) /\ ~closable(c)
  <2>1. fail(n, "shutdown refused")
    BY <1>5, Zenon DEF on_shutdown
  <2> QED
    BY <1>1, <1>2, <1>3, <2>1, FailKeeps, Zenon DEF Why
<1>6. CASE known(n) /\ closable(c)
  <2>1. /\ c.state \in Funded /\ ch' = [ch EXCEPT ![n] = d] /\ net' = answered(n, q)
        /\ UNCHANGED <<funding_tx, error>>
    BY <1>6 DEF on_shutdown, closable, Funded
  <2>2. formed(config, terms, n, c) /\ (c.channel_ready_sent => funding_tx = "confirmed")
    BY <1>6, Parts, PartyFacts DEF joined, known
  <2>3. /\ formed(config, terms, n, d) /\ d.state \in Funded /\ ends(d)
        /\ d.channel_ready_sent = c.channel_ready_sent
    <3> HIDE DEF c
    <3> QED
      BY <2>1, <2>2, ShutdownFormed, Zenon
  <2> HIDE DEF d
  <2>4. ch'[n] = d
    BY <2>1, Parts
  <2>5. <<shutdown>> \in Seq(sends(config, terms, funding_tx, ch', n))
        /\ <<>> \in Seq(sends(config, terms, funding_tx, ch', n))
    BY <2>3, <2>4, SaysShutdown
  <2>6. q = <<shutdown>> \/ q = <<>>
    OBVIOUS
  <2> HIDE DEF q, c, m
  <2>7. q \in Seq(sends(config, terms, funding_tx, ch', n))
    BY <2>5, <2>6, Zenon
  <2> QED
    BY <1>1, <2>1, <2>2, <2>3, <2>7, FundedAnswers, Zenon DEF c
<1> QED
  BY <1>4, <1>5, <1>6

=============================================================================
