-------------------------- MODULE DanceInvariants --------------------------
(***************************************************************************)
(* The inductive invariants of ChannelDance beyond RevocationInv, and the  *)
(* notions they are stated in: what a party has on record of its peer's    *)
(* commitments, and the effect of a revocation.                            *)
(***************************************************************************)
EXTENDS ChannelDance, ChannelInvariants

-----------------------------------------------------------------------------
(* The commitments of its peer that a party has on record. *)

\* The signatures in a stream are for the commitments on record in K.
signed_as(q, K) ==
  \A i \in 1..Len(q) : q[i].type = "commitment_signed" => \A x \in K : q[i].signature = x.info

\* One commitment is on record as signed while its revocation is awaited, none otherwise.
record_single(n) ==
  IF awaiting_raa[n] THEN \E x : pending_counterparty_commitment[n] = {x}
                     ELSE pending_counterparty_commitment[n] = {}

\* A commitment_signed under way is for the commitment on record.
signature_fits(n) == signed_as(net[n], pending_counterparty_commitment[n])

\* The commitments on record are the peer's next ones.
record_numbers(n) ==
  /\ current_counterparty_commitment[n].number = counterparty_commitment_number[n]
  /\ \A x \in pending_counterparty_commitment[n] :
       x.info.number = counterparty_commitment_number[n] + 1

\* The peer holds the commitment on record as current until it has locked the
\* pending one.
record_held(n) ==
  IF holder_commitment_number[Peer(n)] = counterparty_commitment_number[n]
  THEN current_holder_commitment[Peer(n)] = current_counterparty_commitment[n]
  ELSE \A x \in pending_counterparty_commitment[n] :
         current_holder_commitment[Peer(n)] = x.info

\* Each party's record of its peer, as an inductive invariant.
RecordInv ==
  \A n \in Party :
    record_single(n) /\ signature_fits(n) /\ record_numbers(n) /\ record_held(n)

-----------------------------------------------------------------------------
(* The HTLCs of the two parties. *)

\* The HTLCs of n are well formed and on the commitments they are committed to.
htlcs_hold(n) ==
  /\ sound(n, chan[n])
  /\ on_holder(chan[n], current_holder_commitment[n])
  /\ \A k \in unrevoked(n) : on_counterparty(chan[n], k)
  /\ \A x \in pending_counterparty_commitment[n] : recorded(chan[n], x)

\* The messages that offer p.
adding(p) == {m \in Message : m.type = "update_add_htlc" /\ m.payment = p}

\* p is parked at most once, sent at most once, and only by its payer; while it is
\* parked it is nowhere else, and while its message is under way the payee does not
\* have it.  A payment that is new is nowhere.
offered_once(p) ==
  LET o == Payer[p]
      r == Peer(o)
      parked == ~clear(chan[o].holding_cell, {Add(p)})
      sent == ~clear(net[o], adding(p))
  IN  /\ clear(net[r], adding(p)) /\ clear(chan[r].holding_cell, {Add(p)})
      /\ lone(net[o], adding(p)) /\ lone(chan[o].holding_cell, {Add(p)})
      /\ sent => ~has(chan[r], p)
      /\ parked => ~has(chan[o], p) /\ ~has(chan[r], p) /\ ~sent
      /\ outcome[p] = "new" => ~has(chan[o], p) /\ ~has(chan[r], p) /\ ~sent /\ ~parked

\* The HTLCs of the two parties, as an inductive invariant.
HtlcInv == (\A n \in Party : htlcs_hold(n)) /\ (\A p \in Payment : offered_once(p))

-----------------------------------------------------------------------------
(* What on_revoke_and_ack does. *)

\* The channel once the peer's commitment is locked, before the holding cell is flushed.
acked_channel(n, acked) == collect_forwardable(lock_counterparty_side(chan[n], acked))

\* What flushing the holding cell ops and signing at once make of the channel c.
flush_effect(n, c, ops, d, updates, signs) ==
  \E S \in SUBSET DOMAIN ops : \E order \in ascending(S) :
    /\ flushes(n, c, S)
    /\ d = [flushed(c, S) EXCEPT !.counterparty_dirty = @ /\ ~signs]
    /\ signs = can_send_commitment(flushed(c, S), FALSE)
    /\ updates = [k \in DOMAIN order |-> update_message(c, ops, S, order[k])]
    /\ outcome' = [p \in Payment |->
         IF \E i \in DOMAIN ops \ S : ops[i] = Add(p) THEN "failed" ELSE outcome[p]]

\* What on_revoke_and_ack does when it accepts the secret.
raa_effect(n, d, updates, signs, acked, pending) ==
  /\ acked \in pending_counterparty_commitment[n]
  /\ acked_channel(n, acked) \in Channel
  /\ acked_channel(n, acked).holding_cell = chan[n].holding_cell
  /\ flush_effect(n, acked_channel(n, acked), chan[n].holding_cell, d, updates, signs)
  /\ pending = pending_commitment(n, d, counterparty_commitment_number[n] + 2,
                                  message(n).next_point)
  /\ absent(updates, "commitment_signed") /\ absent(updates, "revoke_and_ack")
  /\ commitment_signed(pending) \in Message
  /\ chan' = [chan EXCEPT ![n] = d]
  /\ pending_counterparty_commitment' =
       [pending_counterparty_commitment EXCEPT ![n] = IF signs THEN Some(pending) ELSE None]
  /\ awaiting_raa' = [awaiting_raa EXCEPT ![n] = signs]
  /\ net' = [read(n) EXCEPT ![n] = net[n] \o updates \o
               (IF signs THEN <<commitment_signed(pending)>> ELSE <<>>)]
  /\ outcome' \in [Payment -> {"new", "pending", "fulfilled", "failed"}]
  /\ counterparty_commitment_number' =
       [counterparty_commitment_number EXCEPT ![n] = counterparty_commitment_number[n] + 1]
  /\ counterparty_current_point' =
       [counterparty_current_point EXCEPT ![n] = counterparty_next_point[n]]
  /\ counterparty_next_point' =
       [counterparty_next_point EXCEPT ![n] = message(n).next_point]
  /\ current_counterparty_commitment' =
       [current_counterparty_commitment EXCEPT ![n] = acked.info]
  /\ UNCHANGED <<holder_commitment_number, current_holder_commitment, fee_updates, error>>

\* A revocation with the secret that n waits for has that effect.
acknowledges(n) ==
  /\ awaiting_raa[n]
  /\ message(n).secret = counterparty_current_point[n]
  /\ message(n).secret = counterparty_commitment_number[n]
  => \E d \in Channel, updates \in Seq(Message), signs \in BOOLEAN,
        acked \in PendingCommitment, pending \in PendingCommitment :
       raa_effect(n, d, updates, signs, acked, pending)

=============================================================================
