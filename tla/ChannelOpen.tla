---------------------------- MODULE ChannelOpen ----------------------------
(***************************************************************************)
(* Opening a channel (channel/mod.rs and the handlers of node/mod.rs): from *)
(* open_channel over the exchange of signatures for the first commitments  *)
(* to channel_ready on both sides, with lost connections at any point, and *)
(* a shutdown that may come before the channel is ready.                   *)
(*                                                                         *)
(* The two nodes run this code with any of the configurations of Configs;  *)
(* channel_type is the one value the code sends and accepts.  Keys are     *)
(* left out; a commitment is its number, feerate and balances, a signature *)
(* the commitment it signs, a per-commitment point its number, as in       *)
(* ChannelDance.  Amounts are scaled by the two units declared below.      *)
(***************************************************************************)
EXTENDS Integers, Sequences, FiniteSets, FiniteSetsExt

CONSTANTS
  Configs,           \* the configurations a node may run with
  Terms,             \* [funding_satoshis, push_msat] a channel may be opened with
  FeeratePerKw,      \* commitment_feerate of the opener
  Million,           \* what 1_000_000 is scaled to
  MsatPerSat,        \* what 1000 is scaled to
  CommitmentWeight,  \* COMMITMENT_TX_BASE_WEIGHT, scaled so that feerate * weight is in msat
  MaxDisconnects,    \* bound: how often the connection is lost
  MayClose           \* the parties that may call close_channel

Party == {"opener", "accepter"}
Peer(n) == IF n = "opener" THEN "accepter" ELSE "opener"

\* Limits of the code (not scaled: configurations are chosen around them).
MaxToSelfDelay == 2016
MaxMinimumDepth == 144
MAX_HTLCS_PER_SIDE == 483
MinFeerate == 253

ASSUME OpenAssumption ==
  /\ Million \in Nat \ {0} /\ MsatPerSat \in Nat \ {0} /\ CommitmentWeight \in Nat
  /\ FeeratePerKw \in Nat /\ MaxDisconnects \in Nat /\ MayClose \subseteq Party
  /\ \A c \in Configs :
       /\ c.accept_inbound \in BOOLEAN
       /\ c.dust_limit_sat \in Nat /\ c.reserve_ppm \in Nat /\ c.htlc_minimum_msat \in Nat
       /\ c.to_self_delay \in Nat /\ c.max_accepted_htlcs \in Nat
       /\ c.max_htlc_value_in_flight_ppm \in Nat /\ c.minimum_depth \in Nat
  /\ \A t \in Terms : t.funding_satoshis \in Nat /\ t.push_msat \in Nat

None == {}
Some(x) == {x}

VARIABLES
  config,       \* config[n]: the configuration of n, fixed
  terms,        \* what the opener asks for, fixed
  ch,           \* ch[n]: the channel at n
  funding_tx,   \* the funding transaction: none, held, broadcast, confirmed
  connected,    \* whether the nodes have exchanged init on a live connection
  disconnects,  \* how often the connection was lost
  net,          \* net[n]: sent by n, not yet read by its peer
  reported,     \* reported[n]: Event::ChannelReady was emitted
  error         \* error[n]: why n failed the channel, or "none"

vars == <<config, terms, ch, funding_tx, connected, disconnects, net, reported, error>>

-----------------------------------------------------------------------------
(* What the parties ask of each other. *)

reserve_for(c, funding_sat) ==
  Max({(funding_sat * c.reserve_ppm) \div Million, c.dust_limit_sat})

max_in_flight(c, funding_sat) ==
  (funding_sat \div Million) * c.max_htlc_value_in_flight_ppm * MsatPerSat

\* What a party imposes on its peer.
limits(c, funding_sat) ==
  [dust_limit |-> c.dust_limit_sat,
   reserve |-> reserve_for(c, funding_sat),
   max_in_flight |-> max_in_flight(c, funding_sat),
   htlc_minimum |-> c.htlc_minimum_msat,
   to_self_delay |-> c.to_self_delay,
   max_accepted |-> c.max_accepted_htlcs]

NoLimits == [dust_limit |-> 0, reserve |-> 0, max_in_flight |-> 0, htlc_minimum |-> 0,
             to_self_delay |-> 0, max_accepted |-> 0]

NoChannel == [state |-> "None"]

new_channel(n, state, channel_limits, their_limits, point) ==
  LET push == terms.push_msat
      rest == terms.funding_satoshis * MsatPerSat - push
  IN  [state |-> state, channel_id |-> "temporary",
       holder |-> channel_limits, counterparty |-> their_limits,
       to_holder_msat |-> IF n = "opener" THEN rest ELSE push,
       to_counterparty_msat |-> IF n = "opener" THEN push ELSE rest,
       funding_outpoint |-> None,
       counterparty_current_point |-> point, counterparty_next_point |-> None,
       current_holder_commitment |-> None, current_counterparty_commitment |-> None,
       funding_confirmed |-> FALSE,
       channel_ready_sent |-> FALSE, channel_ready_received |-> FALSE,
       shutdown_sent |-> FALSE, shutdown_received |-> FALSE]

build_holder_commitment_at(c, number) ==
  [number |-> number, point |-> number, feerate |-> FeeratePerKw, htlcs |-> {},
   to_broadcaster |-> c.to_holder_msat, to_countersignatory |-> c.to_counterparty_msat]

build_counterparty_commitment_at(c, number, point) ==
  [number |-> number, point |-> point, feerate |-> FeeratePerKw, htlcs |-> {},
   to_broadcaster |-> c.to_counterparty_msat, to_countersignatory |-> c.to_holder_msat]

point_of(c) == CHOOSE p \in c.counterparty_current_point : TRUE

-----------------------------------------------------------------------------
(* Sending, receiving, failing. *)

message(n) == Head(net[Peer(n)])
receives(n, type) == net[Peer(n)] # <<>> /\ message(n).type = type

\* net once n has read its message and sent msgs.
answered(n, msgs) ==
  [net EXCEPT ![Peer(n)] = Tail(@), ![n] = @ \o (IF connected THEN msgs ELSE <<>>)]

\* net once n has sent msgs; without a connection they are lost.
sent(n, msgs) == [net EXCEPT ![n] = @ \o (IF connected THEN msgs ELSE <<>>)]

\* The channel a message names is one of n's.
known(n) == ch[n] # NoChannel /\ message(n).channel_id = ch[n].channel_id

\* with_channel after ChannelError::Close: the peer is told; the channel stays, and
\* with it what the handler changed before it failed.
report_failure(n, why) ==
  /\ error' = [error EXCEPT ![n] = why]
  /\ net' = answered(n, <<[type |-> "error", channel_id |-> message(n).channel_id]>>)

fail(n, why) == report_failure(n, why) /\ UNCHANGED <<ch, funding_tx, reported>>

\* A message for no channel of ours: ChannelNotFound.
dropped(n) ==
  /\ net' = answered(n, <<>>)
  /\ UNCHANGED <<ch, funding_tx, reported, error>>

-----------------------------------------------------------------------------
(* From open_channel to the signatures. *)

open_channel ==
  /\ connected /\ ch["opener"] = NoChannel
  /\ terms.push_msat <= terms.funding_satoshis * MsatPerSat
  /\ LET l == limits(config["opener"], terms.funding_satoshis)
     IN  /\ ch' = [ch EXCEPT !["opener"] = new_channel("opener", "OpenSent", l, NoLimits, None)]
         /\ net' = sent("opener",
              <<[type |-> "open_channel", channel_id |-> "temporary",
                 chain_hash |-> config["opener"].network, terms |-> terms,
                 limits |-> l, feerate_per_kw |-> FeeratePerKw, point |-> 0]>>)
  /\ UNCHANGED <<config, terms, funding_tx, connected, disconnects, reported, error>>

refuses_open(c, m) ==
  \/ m.chain_hash # c.network
  \/ m.terms.push_msat > m.terms.funding_satoshis * MsatPerSat
  \/ m.limits.dust_limit > m.limits.reserve
  \/ m.limits.to_self_delay > MaxToSelfDelay
  \/ m.limits.max_accepted > MAX_HTLCS_PER_SIDE
  \/ m.feerate_per_kw < MinFeerate
  \/ reserve_for(c, m.terms.funding_satoshis) < m.limits.dust_limit

\* Mutant of accept_limits: the accepter sends the opener's limits back.
accept_limits_echoed(c, m) == m.limits

accept_limits(c, m) == limits(c, m.terms.funding_satoshis)

on_open_channel ==
  LET n == "accepter" IN
  /\ receives(n, "open_channel")
  /\ LET m == message(n)
         c == config[n]
         l == accept_limits(c, m)
     IN  CASE ~c.accept_inbound -> dropped(n)
           [] c.accept_inbound /\ refuses_open(c, m) ->
                /\ net' = answered(n, <<[type |-> "error", channel_id |-> "temporary"]>>)
                /\ UNCHANGED <<ch, funding_tx, reported, error>>
           [] OTHER ->
                /\ ch' = [ch EXCEPT ![n] =
                            new_channel(n, "AcceptSent", limits(c, m.terms.funding_satoshis),
                                        m.limits, Some(m.point))]
                /\ net' = answered(n, <<[type |-> "accept_channel", channel_id |-> "temporary",
                                         limits |-> l, minimum_depth |-> c.minimum_depth,
                                         point |-> 0]>>)
                /\ UNCHANGED <<funding_tx, reported, error>>
  /\ UNCHANGED <<config, terms, connected, disconnects>>

refuses_accept(c, m) ==
  \/ c.state # "OpenSent"
  \/ m.limits.dust_limit > c.holder.reserve
  \/ m.limits.reserve < c.holder.dust_limit
  \/ m.limits.to_self_delay > MaxToSelfDelay
  \/ m.minimum_depth > MaxMinimumDepth
  \/ m.limits.max_accepted > MAX_HTLCS_PER_SIDE

on_accept_channel ==
  LET n == "opener" IN
  /\ receives(n, "accept_channel")
  /\ LET m == message(n)
     IN  CASE ~known(n) -> dropped(n)
           [] known(n) /\ refuses_accept(ch[n], m) -> fail(n, "accept refused")
           [] OTHER ->
                /\ ch' = [ch EXCEPT ![n].counterparty = m.limits,
                                    ![n].counterparty_current_point = Some(m.point)]
                /\ net' = answered(n, <<>>)
                /\ UNCHANGED <<funding_tx, reported, error>>
  /\ UNCHANGED <<config, terms, connected, disconnects>>

\* Mutant of held_tx: the transaction goes out at once.
held_tx_broadcast == "broadcast"

\* The funding transaction is kept until funding_signed.
held_tx == "held"

\* The application pays the funding script; a transaction without an output of the
\* capacity on that script is refused and changes nothing.
provide_funding_transaction ==
  LET c == ch["opener"] IN
  /\ c.state = "OpenSent" /\ c.counterparty_current_point # None
  /\ LET theirs == build_counterparty_commitment_at(c, 0, point_of(c))
     IN  /\ ch' = [ch EXCEPT !["opener"] =
                     [c EXCEPT !.state = "FundingCreatedSent", !.channel_id = "final",
                               !.funding_outpoint = Some("funding"),
                               !.current_counterparty_commitment = Some(theirs)]]
         /\ net' = sent("opener", <<[type |-> "funding_created", channel_id |-> "temporary",
                                     signature |-> theirs]>>)
  /\ funding_tx' = held_tx
  /\ UNCHANGED <<config, terms, connected, disconnects, reported, error>>

\* Our commitment #0, if the peer's signature is one for it.
initial_holder_commitment(c, m) ==
  LET ours == build_holder_commitment_at(c, 0)
  IN  IF m.signature = ours THEN Some(ours) ELSE None

on_funding_created ==
  LET n == "accepter" IN
  /\ receives(n, "funding_created")
  /\ LET m == message(n)
         c == ch[n]
         ours == initial_holder_commitment(c, m)
         theirs == build_counterparty_commitment_at(c, 0, point_of(c))
     IN  CASE ~known(n) -> dropped(n)
           [] known(n) /\ c.state # "AcceptSent" -> fail(n, "funding refused")
           [] known(n) /\ c.state = "AcceptSent" /\ ours = None ->
                /\ ch' = [ch EXCEPT ![n].funding_outpoint = Some("funding")]
                /\ report_failure(n, "funding refused")
                /\ UNCHANGED <<funding_tx, reported>>
           [] OTHER ->
                /\ ch' = [ch EXCEPT ![n] =
                     [c EXCEPT !.state = "AwaitingChannelReady", !.channel_id = "final",
                               !.funding_outpoint = Some("funding"),
                               !.current_holder_commitment = ours,
                               !.current_counterparty_commitment = Some(theirs)]]
                /\ net' = answered(n, <<[type |-> "funding_signed", channel_id |-> "final",
                                         signature |-> theirs]>>)
                /\ UNCHANGED <<funding_tx, reported, error>>
  /\ UNCHANGED <<config, terms, connected, disconnects>>

on_funding_signed ==
  LET n == "opener" IN
  /\ receives(n, "funding_signed")
  /\ LET ours == initial_holder_commitment(ch[n], message(n))
     IN  CASE ~known(n) -> dropped(n)
           [] known(n) /\ (ch[n].state # "FundingCreatedSent" \/ ours = None) ->
                fail(n, "funding refused")
           [] OTHER ->
                /\ ch' = [ch EXCEPT ![n].state = "AwaitingChannelReady",
                                    ![n].current_holder_commitment = ours]
                /\ funding_tx' = "broadcast"
                /\ net' = answered(n, <<>>)
                /\ UNCHANGED <<reported, error>>
  /\ UNCHANGED <<config, terms, connected, disconnects>>

-----------------------------------------------------------------------------
(* Becoming ready. *)

\* A block confirms the funding transaction.
confirm ==
  /\ funding_tx = "broadcast"
  /\ funding_tx' = "confirmed"
  /\ UNCHANGED <<config, terms, ch, connected, disconnects, net, reported, error>>

maybe_become_normal(c) ==
  IF c.state = "AwaitingChannelReady" /\ c.channel_ready_sent /\ c.channel_ready_received
  THEN [c EXCEPT !.state = "Normal"] ELSE c

channel_ready == [type |-> "channel_ready", channel_id |-> "final",
                  second_per_commitment_point |-> 1]

\* The application saw the funding transaction at the depth it waits for, for the
\* first time or again.  In another state the call fails and changes nothing.
\* Without a connection channel_ready is not sent, and the call ends there.
funding_confirmed(n) ==
  /\ funding_tx = "confirmed"
  /\ ch[n].state \in {"AwaitingChannelReady", "Normal"}
  /\ LET first == ~ch[n].channel_ready_sent
         c == [ch[n] EXCEPT !.funding_confirmed = TRUE, !.channel_ready_sent = TRUE]
         after == IF first THEN maybe_become_normal(c) ELSE c
     IN  /\ ch' = [ch EXCEPT ![n] = after]
         /\ net' = sent(n, IF first THEN <<channel_ready>> ELSE <<>>)
         /\ reported' = [reported EXCEPT ![n] =
              @ \/ (after.state = "Normal" /\ (first => connected))]
  /\ UNCHANGED <<config, terms, funding_tx, connected, disconnects, error>>

on_channel_ready(n) ==
  /\ receives(n, "channel_ready")
  /\ LET c == maybe_become_normal(
                [ch[n] EXCEPT
                   !.counterparty_next_point = Some(message(n).second_per_commitment_point),
                   !.channel_ready_received = TRUE])
     IN  CASE ~known(n) -> dropped(n)
           [] known(n) /\ ch[n].state \notin {"AwaitingChannelReady", "Normal"} ->
                fail(n, "channel_ready refused")
           [] OTHER ->
                /\ ch' = [ch EXCEPT ![n] = c]
                /\ net' = answered(n, <<>>)
                /\ reported' = [reported EXCEPT ![n] = @ \/ c.state = "Normal"]
                /\ UNCHANGED <<funding_tx, error>>
  /\ UNCHANGED <<config, terms, connected, disconnects>>

-----------------------------------------------------------------------------
(* Losing the connection, and the peer's errors. *)

\* The rollback of on_disconnect finds no update on a channel that is opening.
peer_disconnected ==
  /\ connected /\ disconnects < MaxDisconnects
  /\ connected' = FALSE
  /\ disconnects' = disconnects + 1
  /\ net' = [n \in Party |-> <<>>]
  /\ UNCHANGED <<config, terms, ch, funding_tx, reported, error>>

\* The channels that are taken up again with a peer.
reestablishes(c) == c.state \notin {"None", "OpenSent", "AcceptSent"}

on_init ==
  /\ ~connected
  /\ connected' = TRUE
  /\ net' = [n \in Party |->
               IF reestablishes(ch[n])
               THEN <<[type |-> "channel_reestablish", channel_id |-> "final"]>> ELSE <<>>]
  /\ UNCHANGED <<config, terms, ch, funding_tx, disconnects, reported, error>>

\* Mutant of retransmitted: channel_ready is not sent again.
retransmitted_nothing(c) == <<>>

\* No commitment was exchanged yet: both are in sync, and only channel_ready may
\* have been lost.
retransmitted(c) == IF c.channel_ready_sent THEN <<channel_ready>> ELSE <<>>

on_channel_reestablish(n) ==
  /\ receives(n, "channel_reestablish")
  /\ IF ~known(n) THEN dropped(n)
     ELSE /\ net' = answered(n, retransmitted(ch[n]))
          /\ UNCHANGED <<ch, funding_tx, reported, error>>
  /\ UNCHANGED <<config, terms, connected, disconnects>>

\* The peer's error makes us broadcast our commitment, if we have one.
on_error(n) ==
  /\ receives(n, "error")
  /\ error' = [error EXCEPT ![n] = IF known(n) /\ ch[n].current_holder_commitment # None
                                   THEN "peer error" ELSE @]
  /\ net' = answered(n, <<>>)
  /\ UNCHANGED <<config, terms, ch, funding_tx, connected, disconnects, reported>>

-----------------------------------------------------------------------------
(* Shutting down early (channel/close.rs).  The negotiation that follows is *)
(* modelled in ChannelClose.                                                *)

shutdown == [type |-> "shutdown", channel_id |-> "final"]

closable(c) == c.state \in {"Normal", "AwaitingChannelReady", "ShuttingDown"}

send_shutdown(c) ==
  [c EXCEPT !.shutdown_sent = TRUE,
            !.state = IF @ = "Normal" THEN "ShuttingDown" ELSE @]

close_channel(n) ==
  /\ n \in MayClose
  /\ closable(ch[n]) /\ ~ch[n].shutdown_sent
  /\ ch' = [ch EXCEPT ![n] = send_shutdown(@)]
  /\ net' = sent(n, <<shutdown>>)
  /\ UNCHANGED <<config, terms, funding_tx, connected, disconnects, reported, error>>

\* The channel after a reply to shutdown, if one is due.
reciprocal(c) == IF c.shutdown_sent THEN c ELSE send_shutdown(c)

on_shutdown(n) ==
  /\ receives(n, "shutdown")
  /\ LET c == [ch[n] EXCEPT !.shutdown_received = TRUE, !.state = "ShuttingDown"]
     IN  CASE ~known(n) -> dropped(n)
           [] known(n) /\ ~closable(ch[n]) -> fail(n, "shutdown refused")
           [] OTHER ->
                /\ ch' = [ch EXCEPT ![n] = reciprocal(c)]
                /\ net' = answered(n, IF reciprocal(c).shutdown_sent /\ ~c.shutdown_sent
                                      THEN <<shutdown>> ELSE <<>>)
                /\ UNCHANGED <<funding_tx, reported, error>>
  /\ UNCHANGED <<config, terms, connected, disconnects>>

-----------------------------------------------------------------------------
Init ==
  /\ config \in [Party -> Configs]
  /\ terms \in Terms
  /\ ch = [n \in Party |-> NoChannel]
  /\ funding_tx = "none"
  /\ connected = TRUE
  /\ disconnects = 0
  /\ net = [n \in Party |-> <<>>]
  /\ reported = [n \in Party |-> FALSE]
  /\ error = [n \in Party |-> "none"]

handle_message(n) ==
  \/ on_channel_ready(n)
  \/ on_channel_reestablish(n)
  \/ on_error(n)
  \/ on_shutdown(n)

handle_opening == on_open_channel \/ on_accept_channel \/ on_funding_created \/ on_funding_signed

Next ==
  \/ open_channel
  \/ provide_funding_transaction
  \/ confirm
  \/ handle_opening
  \/ peer_disconnected
  \/ on_init
  \/ \E n \in Party : \/ funding_confirmed(n)
                      \/ close_channel(n)
                      \/ handle_message(n)

Spec == Init /\ [][Next]_vars

\* What is sent is read, a lost connection is made again, and the application
\* reports the confirmation it sees.
Fairness ==
  /\ WF_vars(handle_opening)
  /\ WF_vars(on_init)
  /\ \A n \in Party : /\ WF_vars(handle_message(n))
                      /\ WF_vars(funding_confirmed(n) /\ ~ch[n].funding_confirmed)

FairSpec == Spec /\ Fairness

-----------------------------------------------------------------------------
(* Properties. *)

holds(n) == IF ch[n] = NoChannel THEN None ELSE ch[n].current_holder_commitment
records(n) == IF ch[n] = NoChannel THEN None ELSE ch[n].current_counterparty_commitment

\* Money goes into the funding output only when it can come out again: once the
\* funding transaction is broadcast (on_funding_signed), each party holds a
\* commitment that its peer signed and has on record.
FundingIsRefundable ==
  funding_tx \in {"broadcast", "confirmed"} =>
    \A n \in Party : holds(n) # None /\ holds(n) = records(Peer(n))

closing(n) == ch[n] # NoChannel /\ (ch[n].shutdown_sent \/ ch[n].shutdown_received)

\* No channel between two nodes that run this code fails while it opens, unless one of
\* them closes it before it is ready.
OpensWithoutFailure ==
  \A n \in Party : error[n] \in {"none", "accept refused"} \/ \E m \in Party : closing(m)

\* The reserve a party must keep is no dust on either commitment: the checks of
\* new_inbound and of on_accept_channel, each made by one party with what it
\* knows, and reserve_for together exclude it.
ReservesAboveDust ==
  funding_tx # "none" =>
    \A n, m \in Party : ch[n].holder.reserve >= ch[m].holder.dust_limit

open(n) == ch[n].state = "Normal" /\ ~ch[n].shutdown_sent

\* The state ChannelDance starts from, for the channel opened on terms t.
Dance(t) == INSTANCE ChannelDance WITH
  Payment <- {}, Payer <- <<>>, Amount <- <<>>,
  Balance <- [n \in Party |-> IF n = "accepter" THEN t.push_msat
                              ELSE t.funding_satoshis * MsatPerSat - t.push_msat],
  Reserve <- [n \in Party |-> 0], HtlcMinimum <- [n \in Party |-> 0],
  MaxAccepted <- [n \in Party |-> 0], MaxInFlight <- [n \in Party |-> 0],
  BaseWeight <- CommitmentWeight, HtlcWeight <- 0, Feerate <- {}, FeerateFloor <- MinFeerate,
  FeerateCeiling <- FeeratePerKw, InitialFeerate <- FeeratePerKw, MaxFeeUpdates <- 0,
  Resolutions <- {},
  chan <- [n \in Party |->
    [state |-> ch[n].state, shutdown_sent |-> ch[n].shutdown_sent,
     shutdown_received |-> ch[n].shutdown_received, htlcs |-> {},
     to_holder_msat |-> ch[n].to_holder_msat,
     to_counterparty_msat |-> ch[n].to_counterparty_msat,
     feerate_holder |-> FeeratePerKw, feerate_counterparty |-> FeeratePerKw,
     pending_fee_ack |-> None, counterparty_dirty |-> FALSE,
     next_holder_htlc_id |-> 0, next_counterparty_htlc_id |-> 0, holding_cell |-> <<>>]],
  holder_commitment_number <- [n \in Party |-> 0],
  counterparty_commitment_number <- [n \in Party |-> 0],
  counterparty_current_point <- [n \in Party |-> point_of(ch[n])],
  counterparty_next_point <-
    [n \in Party |-> CHOOSE p \in ch[n].counterparty_next_point : TRUE],
  current_holder_commitment <- [n \in Party |-> CHOOSE x \in holds(n) : TRUE],
  current_counterparty_commitment <- [n \in Party |-> CHOOSE x \in records(n) : TRUE],
  pending_counterparty_commitment <- [n \in Party |-> None],
  awaiting_raa <- [n \in Party |-> FALSE],
  net <- [n \in Party |-> <<>>], outcome <- <<>>, fee_updates <- 0, error <- error

\* Two parties whose channel is open hold what the dance of ChannelDance starts
\* from: mirrored balances, each other's first two points, and the first
\* commitment of each on record at the other.  The limits a party observes are
\* the ones its peer chose.
OpensIntoDance ==
  (\A n \in Party : open(n)) =>
    /\ \A n \in Party : ch[n].counterparty = ch[Peer(n)].holder
    /\ \E t \in Terms : t = terms /\ Dance(t)!Init

\* An open that is not declined succeeds, with limits that fit together.
OpensSoundly == OpensWithoutFailure /\ ReservesAboveDust /\ OpensIntoDance

\* Once the funding transaction is confirmed, both nodes report the channel ready,
\* whatever connections are lost in between, unless one of them closes it before:
\* channel_ready is sent again.
ConfirmedChannelsOpen ==
  funding_tx = "confirmed" ~>
    (\A n \in Party : open(n) /\ reported[n]) \/ (\E n \in Party : closing(n))

unanswered(n) ==
  /\ ch[n] # NoChannel /\ error[n] = "none"
  /\ ch[n].shutdown_sent /\ ~ch[n].shutdown_received

-----------------------------------------------------------------------------
(* What BOLT 2 and the comments of the code say of an open. *)

\* A shutdown may be sent before channel_ready.
EarlyShutdownTolerated == \A n \in Party : error[n] # "channel_ready refused"

\* It is answered over a new connection if need be.
ShutdownComesAgain == \A n \in Party : unanswered(n) ~> ~unanswered(n)

\* The opener of an accepted channel can pay for the first commitment.
OpenerPaysFirstFee ==
  \A n \in Party : holds(n) # None =>
    FeeratePerKw * CommitmentWeight <= (IF n = "opener" THEN ch[n].to_holder_msat ELSE ch[n].to_counterparty_msat)

\* A party allows the share of the capacity it is configured with in flight.
InFlightIsShareOfCapacity ==
  \A n \in Party : ch[n] # NoChannel =>
    ch[n].holder.max_in_flight =
      (terms.funding_satoshis * MsatPerSat * config[n].max_htlc_value_in_flight_ppm) \div Million
=============================================================================
