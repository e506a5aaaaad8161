------------------------- MODULE ChannelReestablish -------------------------
(***************************************************************************)
(* Disconnection and reconnection (channel/reestablish.rs) of a channel    *)
(* whose commitment dance goes on: the rollback of what no signature       *)
(* covers, channel_reestablish, and the retransmission of a lost           *)
(* revoke_and_ack, of the updates under a lost commitment_signed and of    *)
(* that signature.                                                         *)
(*                                                                         *)
(* Losing the connection loses what is under way in both directions.  Both *)
(* parties notice in one step: whatever one of them still reads or sends   *)
(* between the other's notice and its own could as well have come before.  *)
(***************************************************************************)
EXTENDS ChannelDance

CONSTANTS
  MaxDisconnects,  \* bound: how often the connection is lost
  CallsIn          \* the states of the link in which the application makes calls

\* down: no connection; up: channel_reestablish sent; synced: the peer's handled.
Link == {"down", "up", "synced"}

ASSUME ReestablishAssumption == MaxDisconnects \in Nat /\ CallsIn \subseteq Link

VARIABLES
  link,         \* link[n]: where n's connection to its peer stands
  disconnects,  \* how often the connection was lost
  data_loss     \* data_loss[n]: n was told that it lost state

linkVars == <<link, disconnects, data_loss>>
reestablishVars == <<vars, linkVars>>

-----------------------------------------------------------------------------
(* Rolling back. *)

included_in(h, pending) == \E x \in pending : htlc_ref(h) \in x.included
removed_in(h, pending) == \E x \in pending : htlc_ref(h) \in x.removed

\* An HTLC that is dropped: an add of ours that we did not sign for (it is queued
\* again), or one of the peer's that our commitment does not carry.
unsigned_add(h, pending) ==
  h.outbound /\ h.phase_counterparty = "Pending" /\ ~included_in(h, pending)

\* Mutant of never_signed: the commitment is not looked at.
never_signed_by_phase(h, current) == ~h.outbound /\ h.phase_holder \in {"Pending", "Committed"}

never_signed(h, current) ==
  /\ ~h.outbound /\ h.phase_holder = "Pending"
  /\ [offered |-> FALSE, payment |-> h.payment] \notin current.htlcs

regress_add(h, pending) ==
  IF ~h.outbound /\ h.phase_counterparty = "Pending" /\ ~included_in(h, pending)
  THEN [h EXCEPT !.phase_counterparty = "NotYet"] ELSE h

unsigned_removal(h, pending) == h.phase_counterparty = "Removing" /\ ~removed_in(h, pending)

regress_removal(h, pending) ==
  IF unsigned_removal(h, pending)
  THEN [h EXCEPT !.resolution = None, !.phase_counterparty = "Committed",
                 !.phase_holder = IF h.outbound THEN "Committed" ELSE @]
  ELSE h

forget_removal(h) ==
  IF h.outbound /\ h.phase_holder = "Removing"
  THEN [h EXCEPT !.resolution = None, !.phase_holder = "Committed"] ELSE h

\* The HTLCs of S, all offered by the same party, in the order of their ids.
by_id(S) ==
  CHOOSE s \in [1..Cardinality(S) -> S] : \A i, j \in DOMAIN s : i < j => s[i].id < s[j].id

\* What goes back to the holding cell.  A malformed failure does not.  An HTLC we
\* resolve was received before any add that is still unsigned was sent.
requeue(c, pending) ==
  LET resolved == by_id({h \in c.htlcs : /\ ~h.outbound /\ unsigned_removal(h, pending)
                                         /\ h.resolution \cap {"Fulfill", "Fail"} # {}})
      added == by_id({h \in c.htlcs : unsigned_add(h, pending)})
  IN  [i \in DOMAIN resolved |->
         Resolve(resolved[i].id, CHOOSE r \in resolved[i].resolution : TRUE)]
        \o [i \in DOMAIN added |-> Add(added[i].payment)]

on_disconnect(c, pending, current) ==
  LET kept == {h \in c.htlcs : ~unsigned_add(h, pending) /\ ~never_signed(h, current)}
      dropped == {h \in c.htlcs : never_signed(h, current)}
  IN  [c EXCEPT
        !.htlcs = {forget_removal(regress_removal(regress_add(h, pending), pending)) : h \in kept},
        !.next_counterparty_htlc_id = Min({@} \cup {h.id : h \in dropped}),
        !.holding_cell = requeue(c, pending) \o @,
        !.feerate_holder = IF c.pending_fee_ack # None THEN c.feerate_counterparty ELSE @,
        !.pending_fee_ack = None]

\* The node signs before a call returns, so that a lost connection finds nothing
\* that could be signed.
signed_up(n) == ~can_send_commitment(chan[n], awaiting_raa[n])

peer_disconnected ==
  /\ \A n \in Party : running(n) /\ link[n] # "down" /\ signed_up(n)
  /\ disconnects < MaxDisconnects
  /\ disconnects' = disconnects + 1
  /\ link' = [n \in Party |-> "down"]
  /\ chan' = [n \in Party |-> on_disconnect(chan[n], pending_counterparty_commitment[n],
                                            current_holder_commitment[n])]
  /\ net' = [n \in Party |-> <<>>]
  /\ UNCHANGED <<commitmentVars, outcome, fee_updates, error, data_loss>>

-----------------------------------------------------------------------------
(* Reestablishing. *)

\* No secret: the zeros of the code.
ZeroSecret == -1

make_channel_reestablish(n) ==
  LET next == counterparty_commitment_number[n]
  IN  [type |-> "channel_reestablish",
       next_commitment_number |-> holder_commitment_number[n] + 1,
       next_revocation_number |-> next,
       your_last_per_commitment_secret |-> IF next = 0 THEN ZeroSecret ELSE next - 1]

\* Both have exchanged init.  What was sent without a connection is lost.
on_init ==
  /\ \A n \in Party : running(n) /\ link[n] = "down"
  /\ link' = [n \in Party |-> "up"]
  /\ net' = [n \in Party |-> <<make_channel_reestablish(n)>>]
  /\ UNCHANGED <<chan, commitmentVars, outcome, fee_updates, error, disconnects, data_loss>>

\* Mutant of our_last_sent: a signature under way is not counted.
our_last_acknowledged(n) == counterparty_commitment_number[n]

our_last_sent(n) == counterparty_commitment_number[n] + (IF awaiting_raa[n] THEN 1 ELSE 0)

lost_revocation(n, m) ==
  /\ holder_commitment_number[n] > 0
  /\ m.next_revocation_number = holder_commitment_number[n] - 1

\* Mutant of lost_signature: only what was lost before the first revocation.
lost_first_signature(n, m) ==
  awaiting_raa[n] /\ m.next_commitment_number = our_last_sent(n) /\ our_last_sent(n) = 1

lost_signature(n, m) == awaiting_raa[n] /\ m.next_commitment_number = our_last_sent(n)

verdict(n, m) ==
  LET ours == holder_commitment_number[n]
      secret == IF m.next_revocation_number = 0 THEN ZeroSecret ELSE m.next_revocation_number - 1
  IN  CASE m.next_revocation_number > ours -> "data loss"
        [] m.next_revocation_number < ours /\ ~lost_revocation(n, m) -> "refused"
        [] m.your_last_per_commitment_secret # secret -> "refused"
        [] lost_signature(n, m) \/ m.next_commitment_number = our_last_sent(n) + 1 -> "in sync"
        [] m.next_commitment_number > our_last_sent(n) + 1 -> "data loss"
        [] OTHER -> "refused"

\* Mutant of covered_updates: every removal goes again as a failure.
covered_updates_failed(c, pending) ==
  LET adds == by_id({h \in c.htlcs : h.outbound /\ htlc_ref(h) \in pending.included})
      removals == by_id({h \in c.htlcs : ~h.outbound /\ htlc_ref(h) \in pending.removed
                                           /\ h.resolution # None})
  IN  [i \in DOMAIN adds |->
         [type |-> "update_add_htlc", id |-> adds[i].id, payment |-> adds[i].payment]]
        \o [i \in DOMAIN removals |->
              [type |-> "update_remove_htlc", id |-> removals[i].id, resolution |-> "Fail"]]

\* The updates under the signature the peer never received, in their order.
covered_updates(c, pending) ==
  LET adds == by_id({h \in c.htlcs : h.outbound /\ htlc_ref(h) \in pending.included})
      removals == by_id({h \in c.htlcs : ~h.outbound /\ htlc_ref(h) \in pending.removed
                                           /\ h.resolution # None})
      fee == pending.fee_update
  IN  [i \in DOMAIN adds |->
         [type |-> "update_add_htlc", id |-> adds[i].id, payment |-> adds[i].payment]]
        \o [i \in DOMAIN removals |->
              [type |-> "update_remove_htlc", id |-> removals[i].id,
               resolution |-> CHOOSE r \in removals[i].resolution : TRUE]]
        \o (IF fee = None THEN <<>>
            ELSE <<[type |-> "update_fee", feerate |-> CHOOSE f \in fee : TRUE]>>)

\* The signature is made again, from the channel as it is now.
signed_again(n, c) ==
  [type |-> "commitment_signed",
   signature |-> build_counterparty_commitment_at(c, counterparty_commitment_number[n] + 1,
                                                  counterparty_next_point[n])]

channel_ready == [type |-> "channel_ready", second_per_commitment_point |-> 1]

retransmitted(n, m) ==
  (IF m.next_commitment_number = 1 /\ holder_commitment_number[n] = 0
   THEN <<channel_ready>> ELSE <<>>)
    \o (IF lost_revocation(n, m)
        THEN <<revoke_and_ack(holder_commitment_number[n])>> ELSE <<>>)
    \o (IF lost_signature(n, m)
        THEN covered_updates(chan[n], CHOOSE x \in pending_counterparty_commitment[n] : TRUE)
               \o <<signed_again(n, chan[n])>>
        ELSE <<>>)

on_channel_reestablish(n) ==
  /\ receives(n, "channel_reestablish")
  /\ LET m == message(n)
         v == verdict(n, m)
     IN  /\ IF v = "refused"
            THEN close(n, "reestablish refused")
            ELSE /\ net' = [read(n) EXCEPT ![n] =
                              @ \o IF v = "in sync" THEN retransmitted(n, m) ELSE <<>>]
                 /\ UNCHANGED <<chan, commitmentVars, outcome, fee_updates, error>>
         /\ data_loss' = [data_loss EXCEPT ![n] = @ \/ v = "data loss"]
  /\ link' = [link EXCEPT ![n] = "synced"]
  /\ UNCHANGED disconnects

\* A channel_ready that comes again changes nothing once the dance has begun.
on_channel_ready(n) ==
  /\ receives(n, "channel_ready")
  /\ IF chan[n].state # "Normal"
     THEN close(n, "channel_ready refused")
     ELSE /\ counterparty_next_point' =
               IF counterparty_commitment_number[n] > 0 \/ awaiting_raa[n]
               THEN counterparty_next_point
               ELSE [counterparty_next_point EXCEPT
                       ![n] = message(n).second_per_commitment_point]
          /\ net' = read(n)
          /\ UNCHANGED <<chan, holder_commitment_number, counterparty_commitment_number,
                         counterparty_current_point, current_holder_commitment,
                         current_counterparty_commitment, pending_counterparty_commitment,
                         awaiting_raa, outcome, fee_updates, error>>
  /\ UNCHANGED linkVars

-----------------------------------------------------------------------------
ReestablishInit ==
  /\ Init
  /\ link = [n \in Party |-> "synced"]
  /\ disconnects = 0
  /\ data_loss = [n \in Party |-> FALSE]

\* Calls go to the channel first and to the peer then: without a connection only
\* the message is lost, and the call ends before anything is signed.
application_call(n) ==
  /\ link[n] \in CallsIn
  /\ \/ \E p \in Payment : send_add_htlc(n, p)
     \/ \E h \in chan[n].htlcs, r \in Resolutions : send_resolve_htlc(n, h, r)

fee_or_signature(n) ==
  /\ link[n] \in (CallsIn \cup {"synced"}) \ {"down"}
  /\ \/ \E f \in Feerate : send_update_fee(n, f)
     \/ send_commitment_signed(n)

handler(n) ==
  /\ link[n] # "down"
  /\ \/ on_update_add_htlc(n)
     \/ on_update_remove_htlc(n)
     \/ on_update_fee(n)
     \/ on_commitment_signed(n)
     \/ on_revoke_and_ack(n)

ReestablishNext ==
  \/ \E n \in Party :
       \/ application_call(n) /\ UNCHANGED linkVars
       \/ fee_or_signature(n) /\ UNCHANGED linkVars
       \/ handler(n) /\ UNCHANGED linkVars
       \/ on_channel_reestablish(n)
       \/ on_channel_ready(n)
  \/ peer_disconnected
  \/ on_init

ReestablishSpec == ReestablishInit /\ [][ReestablishNext]_reestablishVars

\* Connections are lost finitely often (MaxDisconnects) and made again; what is
\* sent is read; the node signs what is unsigned.
ReestablishFairness ==
  /\ []<>(\E n \in Party : ~running(n) \/ link[n] # "down")
  /\ \A n \in Party :
       /\ \/ []<>(~can_send_commitment(chan[n], awaiting_raa[n]) \/ ~running(n) \/ link[n] # "synced")
          \/ []<><<~awaiting_raa[n] /\ awaiting_raa'[n]>>_reestablishVars
       /\ \/ []<>(net[Peer(n)] = <<>> \/ ~running(n) \/ link[n] = "down")
          \/ []<><<Len(net'[Peer(n)]) < Len(net[Peer(n)])>>_reestablishVars

ReestablishFairSpec == ReestablishSpec /\ ReestablishFairness

-----------------------------------------------------------------------------
(* Properties. *)

\* The channel survives reconnections: no update, signature or revocation that is
\* sent again, and none that comes after it, is refused.
ReconnectsSurvive == NoFailure

\* Nothing but p has ever been asked of the channel.
alone(p) == fee_updates = 0 /\ \A q \in Payment \ {p} : outcome[q] = "new"

\* A payment that has the channel to itself survives any reconnections; with others
\* around, what is retransmitted may be refused (README, "Departures").
LonePaymentSurvives == (\E p \in Payment : alone(p)) => NoFailure

\* Such a payment survives, is delivered and, once fulfilled, forgotten by both parties, on
\* mirrored commitments with nothing parked, unsigned or awaited, whatever was lost on
\* the way.
LonePaymentSettles == <>[]((\E p \in Payment : alone(p)) => NoFailure /\ settled)

\* The record a party keeps of its peer's commitment stays the one the peer can publish,
\* as long as no fee update is rolled back.
RecordSurvives == fee_updates = 0 => PublishableIsOnRecord

\* What a lost connection must leave alone, however on_disconnect rolls the updates back:
\* the funds, what was handed to the node as irrevocable and, when no fee was changed, the
\* record.
RollbackIsSafe == RecordSurvives /\ FundsAreConserved /\ ForwardableIsIrrevocable

\* No channel_reestablish is refused, and none makes a party believe it lost
\* state: the numbers on_channel_reestablish compares are never further apart
\* than the one signature and the one revocation that may have been lost.
ReestablishAccepted ==
  \A n \in Party : error[n] # "reestablish refused" /\ ~data_loss[n]

-----------------------------------------------------------------------------
(* What BOLT 2 and the comments of reestablish.rs say of a reconnection. *)

\* on_disconnect reverses only updates that no commitment_signed covered: an add
\* of the peer that our commitment carries stays on its way into theirs.
LockedAddsGoOn ==
  \A n \in Party : \A h \in chan[n].htlcs :
    (~h.outbound /\ h.phase_holder = "Committed") => h.phase_counterparty # "NotYet"

\* A commitment_signed that is sent again is the one that was lost.
ResignsTheSame ==
  \A n \in Party : \A i \in DOMAIN net[n] :
    net[n][i].type = "commitment_signed" =>
      \A x \in pending_counterparty_commitment[n] : net[n][i].signature = x.info
=============================================================================
