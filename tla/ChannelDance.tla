---------------------------- MODULE ChannelDance ----------------------------
(***************************************************************************)
(* The commitment dance of one channel between its two parties             *)
(* (channel/dance.rs, with the commitment building of channel/mod.rs):     *)
(* update_add_htlc, update_fulfill_htlc, update_fail_htlc,                 *)
(* update_fail_malformed_htlc and update_fee, commitment_signed,           *)
(* revoke_and_ack and the holding cell.  Each party is one `Channel` of    *)
(* the code; the parties talk over two FIFO streams (a BOLT 8 connection   *)
(* delivers in order), and either may act at any moment, so that updates   *)
(* and signatures cross.  What the messages and calls do to one `Channel`  *)
(* is in ChannelOps.                                                       *)
(***************************************************************************)
EXTENDS ChannelOps

CloseReason == {"none", "add refused", "removal refused", "update_fee refused",
                "bad signature", "bad revocation"}

VARIABLES
  chan,                             \* chan[n]: balances, HTLCs, feerates, holding cell
  holder_commitment_number,
  counterparty_commitment_number,
  counterparty_current_point,
  counterparty_next_point,
  current_holder_commitment,        \* the commitment n could broadcast
  current_counterparty_commitment,  \* the last one of the peer that n knows locked
  pending_counterparty_commitment,  \* the one signed and not yet acknowledged, if any
  awaiting_raa,
  net,                              \* net[n]: sent by n, not yet read by its peer
  outcome,                          \* outcome[p]: what the payer's node was told of p
  fee_updates,                      \* how many update_fee were sent
  error                             \* error[n]: why n failed the channel, or "none"

commitmentVars == <<holder_commitment_number, counterparty_commitment_number,
                    counterparty_current_point, counterparty_next_point,
                    current_holder_commitment, current_counterparty_commitment,
                    pending_counterparty_commitment, awaiting_raa>>
vars == <<chan, commitmentVars, net, outcome, fee_updates, error>>

-----------------------------------------------------------------------------
(* The initial state: an open channel, nothing in flight, commitments 0     *)
(* signed on both sides and the points of commitments 0 and 1 exchanged.    *)

Init ==
  /\ chan = [n \in Party |-> new_channel(n)]
  /\ holder_commitment_number = [n \in Party |-> 0]
  /\ counterparty_commitment_number = [n \in Party |-> 0]
  /\ counterparty_current_point = [n \in Party |-> 0]
  /\ counterparty_next_point = [n \in Party |-> 1]
  /\ current_holder_commitment =
       [n \in Party |-> build_holder_commitment_at(new_channel(n), 0)]
  /\ current_counterparty_commitment =
       [n \in Party |-> build_counterparty_commitment_at(new_channel(n), 0, 0)]
  /\ pending_counterparty_commitment = [n \in Party |-> None]
  /\ awaiting_raa = [n \in Party |-> FALSE]
  /\ net = [n \in Party |-> <<>>]
  /\ outcome = [p \in Payment |-> "new"]
  /\ fee_updates = 0
  /\ error = [n \in Party |-> "none"]

-----------------------------------------------------------------------------
(* Calls of the node layer. *)

\* A party that failed the channel has left the dance.
running(n) == error[n] = "none"

\* Either parks the op, unvalidated, or performs it and sends its message.
park_or_send(n, op) ==
  /\ IF awaiting_raa[n]
     THEN /\ chan' = [chan EXCEPT ![n].holding_cell = Append(@, op)]
          /\ UNCHANGED net
     ELSE /\ permits(n, chan[n], op)
          /\ chan' = [chan EXCEPT ![n] = apply_ops(@, <<op>>, {1})]
          /\ net' = [net EXCEPT ![n] = Append(@, update_message(chan[n], <<op>>, {1}, 1))]
  /\ UNCHANGED <<commitmentVars, fee_updates, error>>

\* A payment the channel refuses stays "new": the caller gets an error.
send_add_htlc(n, p) ==
  /\ running(n)
  /\ Payer[p] = n /\ outcome[p] = "new"
  /\ accepting_adds(chan[n])
  /\ park_or_send(n, Add(p))
  /\ outcome' = [outcome EXCEPT ![p] = "pending"]

\* send_fulfill_htlc, send_fail_htlc and send_fail_malformed_htlc.  The node
\* resolves an HTLC once, and only one it was handed as forwardable.
send_resolve_htlc(n, h, r) ==
  /\ running(n)
  /\ ~h.outbound /\ h.processed /\ h.resolution = None
  /\ \A i \in DOMAIN chan[n].holding_cell :
        LET op == chan[n].holding_cell[i] IN op.op # "Add" => op.id # h.id
  /\ park_or_send(n, Resolve(h.id, r))
  /\ UNCHANGED outcome

send_update_fee(n, feerate) ==
  /\ running(n)
  /\ n = "opener" /\ chan[n].state = "Normal" /\ ~awaiting_raa[n]
  /\ feerate >= FeerateFloor
  /\ fee_updates < MaxFeeUpdates
  /\ fee_updates' = fee_updates + 1
  /\ chan' = [chan EXCEPT ![n].feerate_counterparty = feerate,
                          ![n].counterparty_dirty = TRUE]
  /\ net' = [net EXCEPT ![n] = Append(@, [type |-> "update_fee", feerate |-> feerate])]
  /\ UNCHANGED <<commitmentVars, outcome, error>>

send_commitment_signed(n) ==
  /\ running(n)
  /\ can_send_commitment(chan[n], awaiting_raa[n])
  /\ LET pending == pending_commitment(n, chan[n], counterparty_commitment_number[n] + 1,
                                       counterparty_next_point[n])
     IN  /\ pending_counterparty_commitment' =
              [pending_counterparty_commitment EXCEPT ![n] = Some(pending)]
         /\ net' = [net EXCEPT ![n] = Append(@, commitment_signed(pending))]
  /\ awaiting_raa' = [awaiting_raa EXCEPT ![n] = TRUE]
  /\ chan' = [chan EXCEPT ![n].counterparty_dirty = FALSE]
  /\ UNCHANGED <<holder_commitment_number, counterparty_commitment_number,
                 counterparty_current_point, counterparty_next_point,
                 current_holder_commitment, current_counterparty_commitment,
                 outcome, fee_updates, error>>

-----------------------------------------------------------------------------
(* Messages from the peer. *)

receives(n, type) ==
  running(n) /\ net[Peer(n)] # <<>> /\ Head(net[Peer(n)]).type = type

message(n) == Head(net[Peer(n)])
read(n) == [net EXCEPT ![Peer(n)] = Tail(@)]

\* ChannelError::Close: the handler returns before it changes the channel.
close(n, reason) ==
  /\ error' = [error EXCEPT ![n] = reason]
  /\ net' = read(n)
  /\ UNCHANGED <<chan, commitmentVars, outcome, fee_updates>>

on_update_add_htlc(n) ==
  /\ receives(n, "update_add_htlc")
  /\ IF accepts_add(n, chan[n], message(n))
     THEN /\ chan' = [chan EXCEPT ![n].htlcs = @ \cup {received_htlc(message(n))},
                                  ![n].next_counterparty_htlc_id = @ + 1]
          /\ net' = read(n)
          /\ UNCHANGED <<commitmentVars, outcome, fee_updates, error>>
     ELSE close(n, "add refused")

\* on_update_fulfill_htlc, on_update_fail_htlc and on_update_fail_malformed_htlc.
on_update_remove_htlc(n) ==
  /\ receives(n, "update_remove_htlc")
  /\ LET m == message(n)
         removed == {h \in chan[n].htlcs : outbound_committed(h, m.id)}
     IN  IF removed # {}
         THEN /\ chan' = [chan EXCEPT ![n].htlcs = (@ \ removed) \cup
                   {[h EXCEPT !.resolution = Some(m.resolution), !.phase_holder = "Removing"]
                      : h \in removed}]
              /\ outcome' = [p \in Payment |->
                   IF \E h \in removed : h.payment = p
                   THEN (IF m.resolution = "Fulfill" THEN "fulfilled" ELSE "failed")
                   ELSE outcome[p]]
              /\ net' = read(n)
              /\ UNCHANGED <<commitmentVars, fee_updates, error>>
         ELSE close(n, "removal refused")

on_update_fee(n) ==
  /\ receives(n, "update_fee")
  /\ IF accepts_feerate(n, message(n).feerate)
     THEN /\ chan' = [chan EXCEPT ![n].feerate_holder = message(n).feerate,
                                  ![n].pending_fee_ack = Some(message(n).feerate)]
          /\ net' = read(n)
          /\ UNCHANGED <<commitmentVars, outcome, fee_updates, error>>
     ELSE close(n, "update_fee refused")

\* The new commitment is locked before the old one is revoked.
on_commitment_signed(n) ==
  /\ receives(n, "commitment_signed")
  /\ LET number == holder_commitment_number[n] + 1
         built == build_holder_commitment_at(chan[n], number)
     IN  IF /\ chan[n].state \in {"Normal", "ShuttingDown"}
            /\ message(n).signature = built
         THEN /\ current_holder_commitment' = [current_holder_commitment EXCEPT ![n] = built]
              /\ holder_commitment_number' = [holder_commitment_number EXCEPT ![n] = number]
              /\ chan' = [chan EXCEPT ![n] = lock_holder_side(@)]
              /\ net' = [read(n) EXCEPT ![n] = Append(@, revoke_and_ack(number))]
              /\ UNCHANGED <<counterparty_commitment_number, counterparty_current_point,
                             counterparty_next_point, current_counterparty_commitment,
                             pending_counterparty_commitment, awaiting_raa,
                             outcome, fee_updates, error>>
         ELSE close(n, "bad signature")

\* Locks the peer's new commitment, hands over what became irrevocable, flushes
\* the holding cell and signs at once whatever is then unsigned.
on_revoke_and_ack(n) ==
  /\ receives(n, "revoke_and_ack")
  /\ IF /\ awaiting_raa[n]
        /\ message(n).secret = counterparty_current_point[n]
        /\ message(n).secret = counterparty_commitment_number[n]
     THEN LET number == counterparty_commitment_number[n] + 1
              next == message(n).next_point
              acked == CHOOSE x \in pending_counterparty_commitment[n] : TRUE
              c == collect_forwardable(lock_counterparty_side(chan[n], acked))
              ops == c.holding_cell
          IN  \E S \in SUBSET DOMAIN ops : \E order \in ascending(S) :
                /\ flushes(n, c, S)
                /\ LET d == flushed(c, S)
                       updates == [k \in DOMAIN order |-> update_message(c, ops, S, order[k])]
                       signs == can_send_commitment(d, FALSE)
                       pending == pending_commitment(n, d, number + 1, next)
                   IN  /\ chan' = [chan EXCEPT ![n] =
                                     [d EXCEPT !.counterparty_dirty = @ /\ ~signs]]
                       /\ pending_counterparty_commitment' =
                            [pending_counterparty_commitment EXCEPT ![n] =
                               still_pending(signs, pending)]
                       /\ awaiting_raa' = [awaiting_raa EXCEPT ![n] = signs]
                       /\ net' = [read(n) EXCEPT ![n] = @ \o updates \o
                            (IF signs THEN <<commitment_signed(pending)>> ELSE <<>>)]
                /\ outcome' = [p \in Payment |->
                     IF \E i \in DOMAIN ops \ S : ops[i] = Add(p) THEN "failed" ELSE outcome[p]]
                /\ counterparty_commitment_number' =
                     [counterparty_commitment_number EXCEPT ![n] = number]
                /\ counterparty_current_point' =
                     [counterparty_current_point EXCEPT ![n] = counterparty_next_point[n]]
                /\ counterparty_next_point' = [counterparty_next_point EXCEPT ![n] = next]
                /\ current_counterparty_commitment' =
                     [current_counterparty_commitment EXCEPT ![n] = acked.info]
                /\ UNCHANGED <<holder_commitment_number, current_holder_commitment,
                               fee_updates, error>>
     ELSE close(n, "bad revocation")

-----------------------------------------------------------------------------
Next ==
  \E n \in Party :
    \/ \E p \in Payment : send_add_htlc(n, p)
    \/ \E h \in chan[n].htlcs, r \in Resolutions : send_resolve_htlc(n, h, r)
    \/ \E f \in Feerate : send_update_fee(n, f)
    \/ send_commitment_signed(n)
    \/ on_update_add_htlc(n)
    \/ on_update_remove_htlc(n)
    \/ on_update_fee(n)
    \/ on_commitment_signed(n)
    \/ on_revoke_and_ack(n)

Spec == Init /\ [][Next]_vars

\* The node signs after every call and every message that left something to sign.
\* The transport delivers what was sent and the node reads it: weak fairness of
\* the five handlers together, which are enabled while there is a message.
Fairness ==
  \A n \in Party :
    /\ WF_vars(send_commitment_signed(n))
    /\ \/ []<>(net[Peer(n)] = <<>> \/ ~running(n))
       \/ []<><<Len(net'[Peer(n)]) < Len(net[Peer(n)])>>_vars

FairSpec == Spec /\ Fairness

-----------------------------------------------------------------------------
(* Properties. *)

\* The type of every field of the two `Channel`s and of the messages between them.
TypeOK ==
  /\ chan \in [Party -> Channel]
  /\ holder_commitment_number \in [Party -> Nat]
  /\ counterparty_commitment_number \in [Party -> Nat]
  /\ counterparty_current_point \in [Party -> Nat]
  /\ counterparty_next_point \in [Party -> Nat]
  /\ current_holder_commitment \in [Party -> Commitment]
  /\ current_counterparty_commitment \in [Party -> Commitment]
  /\ pending_counterparty_commitment \in [Party -> SUBSET PendingCommitment]
  /\ awaiting_raa \in [Party -> BOOLEAN]
  /\ net \in [Party -> Seq(Message)]
  /\ outcome \in [Payment -> {"new", "pending", "fulfilled", "failed"}]
  /\ fee_updates \in Nat
  /\ error \in [Party -> CloseReason]

\* Two parties running this code never fail their channel: every update one of
\* them sends is accepted by the other, every commitment_signed verifies
\* against the commitment its receiver builds, and every revoke_and_ack is
\* awaited, however updates, signatures and revocations cross (the crossing
\* that HtlcPhase's two sides exist for).
NoFailure == \A n \in Party : error[n] = "none"

\* The commitment numbers move in lockstep: a party's count of its peer's
\* commitments lags the peer's own by at most the one commitment_signed whose
\* revoke_and_ack it awaits, and the points it keeps are those of the two
\* commitments that follow.
Lockstep ==
  \A n \in Party :
    LET theirs == holder_commitment_number[Peer(n)]
        ours == counterparty_commitment_number[n]
    IN  /\ theirs = ours \/ (awaiting_raa[n] /\ theirs = ours + 1)
        /\ counterparty_current_point[n] = ours
        /\ counterparty_next_point[n] = ours + 1
        /\ current_holder_commitment[n].number = holder_commitment_number[n]

\* A revoke_and_ack from a party running this code is never refused: it is
\* awaited, and the secret in it is the one of the commitment on record.
RevocationsAccepted == \A n \in Party : error[n] # "bad revocation"

absent(q, type) == \A i \in 1..Len(q) : q[i].type # type
once(q, type) ==
  \E i \in 1..Len(q) : q[i].type = type /\ \A j \in 1..Len(q) : q[j].type = type => j = i

\* Where the exchange that n started with its last commitment_signed stands:
\* done; signature under way; revocation under way; or its peer left.
exchange(n) ==
  LET theirs == holder_commitment_number[Peer(n)]
      ours == counterparty_commitment_number[n]
      no_signature == absent(net[n], "commitment_signed")
      no_revocation == absent(net[Peer(n)], "revoke_and_ack")
  IN  \/ ~awaiting_raa[n] /\ no_signature /\ no_revocation /\ theirs = ours
      \/ /\ awaiting_raa[n] /\ theirs = ours
         /\ once(net[n], "commitment_signed") /\ no_revocation
      \/ /\ awaiting_raa[n] /\ theirs = ours + 1
         /\ no_signature /\ once(net[Peer(n)], "revoke_and_ack")
      \/ /\ awaiting_raa[n] /\ theirs = ours
         /\ no_signature /\ no_revocation /\ ~running(Peer(n))

\* A revoke_and_ack under way to n carries the secret n waits for and the point
\* after the next one.
carries(q, number) ==
  \A i \in 1..Len(q) : q[i].type = "revoke_and_ack" =>
    q[i].secret = number /\ q[i].next_point = number + 2

revocation_fits(n) == carries(net[Peer(n)], counterparty_commitment_number[n])

points_fit(n) ==
  /\ counterparty_current_point[n] = counterparty_commitment_number[n]
  /\ counterparty_next_point[n] = counterparty_commitment_number[n] + 1

\* awaiting_raa implies a pending commitment: on_revoke_and_ack expects one and
\* panics otherwise.
PendingKnown ==
  \A n \in Party : awaiting_raa[n] => pending_counterparty_commitment[n] # None

\* The revocation machinery, as an inductive invariant: in each direction there
\* is at most one commitment_signed or one revoke_and_ack under way, never
\* both, and exactly while the signer waits for it.
RevocationInv ==
  /\ \A n \in Party :
       /\ exchange(n) /\ revocation_fits(n) /\ points_fit(n)
       /\ current_holder_commitment[n].number = holder_commitment_number[n]
  /\ RevocationsAccepted

\* The commitments of its peer that n holds no revocation secret for.
unrevoked(n) ==
  {current_counterparty_commitment[n]} \cup {x.info : x \in pending_counterparty_commitment[n]}

\* Whatever commitment a party can broadcast, its peer has it on record and
\* unrevoked (current_counterparty_commitment or the pending one): the
\* monitor's premise for classifying a confirmed commitment.
PublishableIsOnRecord ==
  \A n \in Party : current_holder_commitment[n] \in unrevoked(Peer(n))

\* No commitment creates or destroys funds: balances and HTLC outputs add up to
\* the funding output on every commitment a party holds or has signed, so
\* the saturating subtractions of apply_balance never saturate.
CommitmentsConserveFunds ==
  \A n \in Party : \A k \in {current_holder_commitment[n]} \cup unrevoked(n) :
    k.to_broadcaster + k.to_countersignatory + total(k.htlcs) = Funding

\* An HTLC handed to the node as forwardable is irrevocably committed until the
\* node resolves it: it is on our commitment, on the peer's, and on every
\* commitment of the peer that is not revoked.
ForwardableIsIrrevocable ==
  \A n \in Party : \A h \in chan[n].htlcs :
    (~h.outbound /\ h.processed /\ h.resolution = None) =>
      /\ [offered |-> FALSE, payment |-> h.payment] \in current_holder_commitment[n].htlcs
      /\ \A k \in unrevoked(n) \cup {current_holder_commitment[Peer(n)]} :
           [offered |-> TRUE, payment |-> h.payment] \in k.htlcs

\* counterparty_dirty misses nothing: when it is false, the last commitment
\* signed for the peer is the one that would be built now.
CleanMeansSigned ==
  \A n \in Party : ~chan[n].counterparty_dirty =>
    \E k \in unrevoked(n) :
      /\ \A x \in pending_counterparty_commitment[n] : k = x.info
      /\ k = build_counterparty_commitment_at(chan[n], k.number, k.point)

\* The payments p with an HTLC at n.
tracked(n) == {h.payment : h \in chan[n].htlcs}

\* A party's settled balance is exactly what the fulfilled payments it has
\* forgotten moved, whichever phase the others are in.
BalancesMatchOutcomes ==
  \A n \in Party :
    LET settled == {p \in Payment : outcome[p] = "fulfilled"} \ tracked(n)
        paid == {p \in settled : Payer[p] = n}
    IN  /\ chan[n].to_holder_msat = Balance[n] - amounts(paid) + amounts(settled \ paid)
        /\ chan[n].to_holder_msat + chan[n].to_counterparty_msat = Funding

\* Funds are where the payments put them, on the commitments and off them.
FundsAreConserved == CommitmentsConserveFunds /\ BalancesMatchOutcomes

\* A fee change is not lost between the two signatures it takes: while the opener's own
\* commitment is not at the feerate it asked for last, the opener has to sign for it or
\* awaits the revocation, or the accepter has to sign it back or has done so.
FeeIsOnItsWay ==
  current_holder_commitment["opener"].feerate # chan["opener"].feerate_counterparty =>
    \/ chan["opener"].counterparty_dirty \/ awaiting_raa["opener"]
    \/ chan["accepter"].counterparty_dirty \/ ~absent(net["accepter"], "commitment_signed")

\* Fee changes among the payments break nothing: no signature is refused over them, each is
\* signed for and signed back, and the outputs before fees still add up.  Whether the opener
\* can pay the fee is OpenerAffordsFee: neither send_update_fee nor on_update_fee asks.
FeeChangesAreSafe == NoFailure /\ CleanMeansSigned /\ FundsAreConserved /\ FeeIsOnItsWay

\* The commitments of the two parties are mirror images.
mirrored ==
  LET a == current_holder_commitment["opener"]
      b == current_holder_commitment["accepter"]
  IN  /\ a.feerate = b.feerate
      /\ a.to_broadcaster = b.to_countersignatory
      /\ a.to_countersignatory = b.to_broadcaster
      /\ a.htlcs = {[k EXCEPT !.offered = ~@] : k \in b.htlcs}

\* Once the nodes stop asking for updates the parties stop on mirrored commitments with
\* nothing parked, unsigned or awaited; a payment that is still pending has reached the
\* payee's node, and one that was fulfilled is forgotten by both parties.
settled ==
  /\ mirrored
  /\ \A n \in Party :
       chan[n].holding_cell = <<>> /\ ~chan[n].counterparty_dirty /\ ~awaiting_raa[n]
  /\ \A p \in Payment :
       /\ outcome[p] = "pending" =>
            \E h \in chan[Peer(Payer[p])].htlcs : h.payment = p /\ h.processed
       /\ outcome[p] = "fulfilled" => \A n \in Party : p \notin tracked(n)

Converges == <>[]settled

-----------------------------------------------------------------------------
(* What BOLT 2 asks of a node that offers HTLCs. *)

\* An offerer never puts more than max_accepted_htlcs HTLCs on its peer's
\* commitment (validate_outbound_add counts the unresolved ones).
AcceptedLimitHolds ==
  \A n \in Party : \A k \in unrevoked(n) :
    Cardinality({o \in k.htlcs : ~o.offered}) <= MaxAccepted[Peer(n)]

\* On every commitment the opener can pay the fee and keep its reserve, HTLCs
\* offered by the accepter and a new feerate included (validate_outbound_add looks
\* at the fee only when the opener offers, send_update_fee and on_update_fee never).
OpenerAffordsFee ==
  \A n \in Party : \A k \in unrevoked(n) :
    (IF n = "opener" THEN k.to_countersignatory ELSE k.to_broadcaster)
      >= Reserve["opener"] + fee_for(k.feerate, Cardinality(k.htlcs))

=============================================================================
