----------------------------- MODULE ChannelOps -----------------------------
(***************************************************************************)
(* One party's `Channel` (channel/mod.rs) and what the commitment dance    *)
(* (channel/dance.rs) does to it: the HTLCs and their phases on the two    *)
(* commitments, the balances, building a commitment, offering and          *)
(* resolving HTLCs, signing, locking a commitment in, and the holding      *)
(* cell.  All of it is operators on the record; ChannelDance has the       *)
(* parties, the messages and the steps.                                    *)
(*                                                                         *)
(* Data is abstracted to what two commitments can differ in.  A payment    *)
(* stands for the amount, payment hash, expiry and onion of an HTLC; a     *)
(* per-commitment point, and the secret behind it, is the number of its    *)
(* commitment; a signature is the commitment it signs, so verifying one is *)
(* comparing that commitment with the one the verifier builds.             *)
(***************************************************************************)
EXTENDS Integers, Sequences, FiniteSets, FiniteSetsExt

CONSTANTS
  Payment,         \* the payments either party may try to make
  Payer,           \* Payer[p]: the party that offers p
  Amount,          \* Amount[p]: what p moves, fees of other hops included
  Balance,         \* Balance[n]: what the open left to party n
  Reserve,         \* Reserve[n]: what n must keep (chosen by its peer)
  HtlcMinimum,     \* HtlcMinimum[n]: the smallest HTLC n accepts
  MaxAccepted,     \* MaxAccepted[n]: max_accepted_htlcs of n
  MaxInFlight,     \* MaxInFlight[n]: max_htlc_value_in_flight of n
  BaseWeight,      \* weight of a commitment without HTLCs
  HtlcWeight,      \* weight one HTLC adds
  Feerate,         \* the feerates the opener may choose
  FeerateFloor,    \* the lowest feerate sent or accepted
  FeerateCeiling,  \* the highest feerate accepted
  InitialFeerate,  \* the feerate the channel opened with
  MaxFeeUpdates,   \* bound: how often the opener changes the feerate
  Resolutions      \* the ways an inbound HTLC may be resolved

Party == {"opener", "accepter"}
Peer(n) == IF n = "opener" THEN "accepter" ELSE "opener"

Phase == {"NotYet", "Pending", "Committed", "Removing", "Gone"}
HtlcResolution == {"Fulfill", "Fail", "FailMalformed"}
ChannelState == {"Normal", "ShuttingDown", "NegotiatingClose", "Closed"}

ASSUME ConstantsAssumption ==
  /\ Payer \in [Payment -> Party]
  /\ Amount \in [Payment -> Nat]
  /\ Balance \in [Party -> Nat]
  /\ Reserve \in [Party -> Nat]
  /\ HtlcMinimum \in [Party -> Nat]
  /\ MaxAccepted \in [Party -> Nat]
  /\ MaxInFlight \in [Party -> Nat]
  /\ BaseWeight \in Nat /\ HtlcWeight \in Nat
  /\ Feerate \subseteq Nat /\ InitialFeerate \in Nat
  /\ FeerateFloor \in Nat /\ FeerateCeiling \in Nat
  /\ MaxFeeUpdates \in Nat
  /\ Resolutions \subseteq HtlcResolution

\* What the funding output holds.
Funding == Balance["opener"] + Balance["accepter"]

-----------------------------------------------------------------------------
(* The records, and the messages between the parties. *)

Htlc == [outbound : BOOLEAN, id : Nat, payment : Payment,
         resolution : SUBSET HtlcResolution,
         phase_holder : Phase, phase_counterparty : Phase, processed : BOOLEAN]

Op == [op : {"Add"}, payment : Payment] \cup [op : HtlcResolution, id : Nat]

Channel ==
  [state : ChannelState, shutdown_sent : BOOLEAN, shutdown_received : BOOLEAN,
   htlcs : SUBSET Htlc, to_holder_msat : Nat, to_counterparty_msat : Nat,
   feerate_holder : Nat, feerate_counterparty : Nat, pending_fee_ack : SUBSET Nat,
   counterparty_dirty : BOOLEAN, next_holder_htlc_id : Nat,
   next_counterparty_htlc_id : Nat, holding_cell : Seq(Op)]

Commitment ==
  [number : Nat, point : Nat, feerate : Nat,
   htlcs : SUBSET [offered : BOOLEAN, payment : Payment],
   to_broadcaster : Nat, to_countersignatory : Nat]

PendingCommitment ==
  [info : Commitment, included : SUBSET (BOOLEAN \X Nat), removed : SUBSET (BOOLEAN \X Nat),
   fee_update : SUBSET Nat]

Message ==
  [type : {"update_add_htlc"}, id : Nat, payment : Payment]
    \cup [type : {"update_remove_htlc"}, id : Nat, resolution : HtlcResolution]
    \cup [type : {"update_fee"}, feerate : Nat]
    \cup [type : {"commitment_signed"}, signature : Commitment]
    \cup [type : {"revoke_and_ack"}, secret : Nat, next_point : Nat]


-----------------------------------------------------------------------------
(* An Option of the code is a set with at most one element. *)
None == {}
Some(x) == {x}
unwrap_or(opt, default) == IF opt = None THEN default ELSE CHOOSE x \in opt : TRUE

included(phase) == phase \in {"Pending", "Committed"}
credited(phase) == phase \in {"Removing", "Gone"}

saturating_sub(a, b) == IF a - b \in Nat THEN a - b ELSE 0
total(S) == MapThenSumSet(LAMBDA h : Amount[h.payment], S)
amounts(P) == MapThenSumSet(LAMBDA p : Amount[p], P)
fee_for(feerate, count) == feerate * (BaseWeight + HtlcWeight * count)

phase_on(h, holder_side) == IF holder_side THEN h.phase_holder ELSE h.phase_counterparty

\* HTLCs whose amount has moved to the recipient on a commitment.
fulfilled(c, holder_side) ==
  {h \in c.htlcs : credited(phase_on(h, holder_side)) /\ h.resolution = Some("Fulfill")}

\* HTLCs with an output of their own on a commitment.
escrowed(c, holder_side) == {h \in c.htlcs : included(phase_on(h, holder_side))}

\* The balances of the holder's (or else the counterparty's) next commitment:
\* an HTLC leaves its offerer while in escrow and once fulfilled.
balances_for(c, holder_side) ==
  LET out(S) == total({h \in S : h.outbound})
      in(S)  == total({h \in S : ~h.outbound})
      f == fulfilled(c, holder_side)
      e == escrowed(c, holder_side)
  IN  [to_holder       |-> saturating_sub(c.to_holder_msat + in(f), out(f \cup e)),
       to_counterparty |-> saturating_sub(c.to_counterparty_msat + out(f), in(f \cup e))]

both_gone(h) == h.phase_holder = "Gone" /\ h.phase_counterparty = "Gone"

\* Mutant of gc_htlcs: the balances are not updated.
gc_htlcs_unbaked(c) == [c EXCEPT !.htlcs = {h \in @ : ~both_gone(h)}]

gc_htlcs(c) ==
  LET dead == {h \in c.htlcs : both_gone(h)}
      b == balances_for([c EXCEPT !.htlcs = dead], TRUE)
  IN  [c EXCEPT !.htlcs = @ \ dead,
                !.to_holder_msat = b.to_holder,
                !.to_counterparty_msat = b.to_counterparty]

htlc_in_commitment(h, holder_side) ==
  [offered |-> h.outbound = holder_side, payment |-> h.payment]

build_holder_commitment_at(c, number) ==
  LET b == balances_for(c, TRUE)
  IN  [number |-> number, point |-> number, feerate |-> c.feerate_holder,
       htlcs |-> {htlc_in_commitment(h, TRUE) : h \in escrowed(c, TRUE)},
       to_broadcaster |-> b.to_holder, to_countersignatory |-> b.to_counterparty]

build_counterparty_commitment_at(c, number, point) ==
  LET b == balances_for(c, FALSE)
  IN  [number |-> number, point |-> point, feerate |-> c.feerate_counterparty,
       htlcs |-> {htlc_in_commitment(h, FALSE) : h \in escrowed(c, FALSE)},
       to_broadcaster |-> b.to_counterparty, to_countersignatory |-> b.to_holder]

-----------------------------------------------------------------------------
(* Offering and resolving HTLCs.  An op is what a caller asks for and what  *)
(* the holding cell keeps.                                                  *)

Add(p) == [op |-> "Add", payment |-> p]
Resolve(id, r) == [op |-> r, id |-> id]

committed(h) == h.phase_holder = "Committed" /\ h.phase_counterparty = "Committed"

inbound_committed(h, id) ==
  ~h.outbound /\ h.id = id /\ h.resolution = None /\ committed(h)

live(c, outbound) == {h \in c.htlcs : h.outbound = outbound /\ h.resolution = None}

\* n may offer p: the limits of its peer, and what n can afford on the peer's
\* commitment, with room for two more HTLCs when n pays the fee.
validate_outbound_add(n, c, p) ==
  LET peer == Peer(n)
      fee == IF n = "opener"
             THEN fee_for(c.feerate_counterparty, Cardinality(escrowed(c, FALSE)) + 2)
             ELSE 0
  IN  /\ Amount[p] # 0
      /\ Amount[p] >= HtlcMinimum[peer]
      /\ Cardinality(live(c, TRUE)) < MaxAccepted[peer]
      /\ total(live(c, TRUE)) + Amount[p] <= MaxInFlight[peer]
      /\ balances_for(c, FALSE).to_holder >= Amount[p] + Reserve[n] + fee

accepting_adds(c) == c.state = "Normal" /\ ~c.shutdown_sent /\ ~c.shutdown_received

\* The call succeeds when no commitment_signed of n is in flight.
permits(n, c, op) ==
  IF op.op = "Add"
  THEN accepting_adds(c) /\ validate_outbound_add(n, c, op.payment)
  ELSE \E h \in c.htlcs : inbound_committed(h, op.id)

\* Mutant of offered_htlc: our add is on our own commitment before the peer has it.
offered_on_both(id, p) ==
  [outbound |-> TRUE, id |-> id, payment |-> p, resolution |-> None,
   phase_holder |-> "Pending", phase_counterparty |-> "Pending", processed |-> FALSE]

offered_htlc(id, p) ==
  [outbound |-> TRUE, id |-> id, payment |-> p, resolution |-> None,
   phase_holder |-> "NotYet", phase_counterparty |-> "Pending", processed |-> FALSE]

\* The ids of the adds among ops[i], i \in S, are handed out in order.
add_id(c, ops, S, i) ==
  c.next_holder_htlc_id + Cardinality({j \in S : j < i /\ ops[j].op = "Add"})

resolve_htlc(h, ops, S) ==
  IF \E j \in S : ops[j].op # "Add" /\ inbound_committed(h, ops[j].id)
  THEN LET j == CHOOSE j \in S : ops[j].op # "Add" /\ inbound_committed(h, ops[j].id)
       IN  [h EXCEPT !.resolution = Some(ops[j].op), !.phase_counterparty = "Removing"]
  ELSE h

\* The channel after the calls ops[i], i \in S, all of which succeed.
apply_ops(c, ops, S) ==
  LET adds == {i \in S : ops[i].op = "Add"}
  IN  [c EXCEPT !.htlcs = {resolve_htlc(h, ops, S) : h \in @}
                            \cup {offered_htlc(add_id(c, ops, S, i), ops[i].payment) : i \in adds},
                !.next_holder_htlc_id = @ + Cardinality(adds),
                !.counterparty_dirty = @ \/ S # {}]

update_message(c, ops, S, i) ==
  IF ops[i].op = "Add"
  THEN [type |-> "update_add_htlc", id |-> add_id(c, ops, S, i), payment |-> ops[i].payment]
  ELSE [type |-> "update_remove_htlc", id |-> ops[i].id, resolution |-> ops[i].op]

-----------------------------------------------------------------------------
(* Signing the peer's next commitment. *)

\* Mutant of can_send_commitment: a second signature while one is unanswered.
can_send_unacknowledged(c, awaiting) ==
  c.counterparty_dirty /\ c.state \in {"Normal", "ShuttingDown"}

can_send_commitment(c, awaiting) ==
  c.counterparty_dirty /\ ~awaiting /\ c.state \in {"Normal", "ShuttingDown"}

htlc_ref(h) == <<h.outbound, h.id>>

\* Mutant of fee_in_flight: the opener forgets what it signed.
fee_not_recorded(n, c) == None

\* The feerate the signature commits the peer to, when it is a new one.
fee_in_flight(n, c) ==
  IF n = "opener" /\ c.feerate_holder # c.feerate_counterparty
  THEN Some(c.feerate_counterparty) ELSE None

pending_commitment(n, c, number, point) ==
  [info |-> build_counterparty_commitment_at(c, number, point),
   included |-> {htlc_ref(h) : h \in {x \in c.htlcs : x.phase_counterparty = "Pending"}},
   removed  |-> {htlc_ref(h) : h \in {x \in c.htlcs : x.phase_counterparty = "Removing"}},
   fee_update |-> fee_in_flight(n, c)]

commitment_signed(pending) == [type |-> "commitment_signed", signature |-> pending.info]

-----------------------------------------------------------------------------
(* Locking in a commitment. *)

locked_by_signature(h) ==
  [h EXCEPT !.phase_holder = CASE @ = "Pending"  -> "Committed"
                               [] @ = "Removing" -> "Gone"
                               [] OTHER          -> @]

\* The peer's add, or the peer's removal, is on our commitment: it may go on theirs.
admits(h)   == ~h.outbound /\ h.phase_counterparty = "NotYet" /\ h.phase_holder = "Committed"
releases(h) == /\ h.outbound /\ h.resolution # None
               /\ h.phase_holder = "Gone" /\ h.phase_counterparty = "Committed"

acknowledged(h) ==
  [h EXCEPT !.phase_counterparty = CASE admits(h)   -> "Pending"
                                     [] releases(h) -> "Removing"
                                     [] OTHER       -> @]

\* Mutants of newly_unsigned: one kind of update is not signed back.
unsigned_but_adds(c, L) == c.pending_fee_ack # None \/ \E h \in L : releases(h)
unsigned_but_removals(c, L) == c.pending_fee_ack # None \/ \E h \in L : admits(h)
newly_unsigned(c, L) ==
  c.pending_fee_ack # None \/ \E h \in L : admits(h) \/ releases(h)

\* A commitment_signed locks our next commitment and lets the peer's updates in
\* it into the peer's next one.
lock_holder_side(c) ==
  LET L == {locked_by_signature(h) : h \in c.htlcs}
  IN  gc_htlcs([c EXCEPT
        !.htlcs = {acknowledged(h) : h \in L},
        !.feerate_counterparty = unwrap_or(c.pending_fee_ack, @),
        !.pending_fee_ack = None,
        !.counterparty_dirty = @ \/ newly_unsigned(c, L)])

\* Mutant of locked_by_revocation: the phases of the moment instead of the snapshot.
locked_by_live_phase(h, pending) ==
  [h EXCEPT !.phase_counterparty = CASE @ = "Pending"  -> "Committed"
                                     [] @ = "Removing" -> "Gone"
                                     [] OTHER -> @,
            !.phase_holder =
              CASE h.outbound /\ @ = "NotYet" -> "Pending"
                [] ~h.outbound /\ @ = "Committed" /\ h.phase_counterparty = "Removing" -> "Removing"
                [] OTHER -> @]

locked_by_revocation(h, pending) ==
  LET in_included == htlc_ref(h) \in pending.included
      in_removed  == htlc_ref(h) \in pending.removed
  IN  [h EXCEPT !.phase_counterparty = CASE in_included /\ @ = "Pending"  -> "Committed"
                                         [] in_removed  /\ @ = "Removing" -> "Gone"
                                         [] OTHER -> @,
                !.phase_holder = CASE in_included /\ h.outbound /\ @ = "NotYet"    -> "Pending"
                                   [] in_removed /\ ~h.outbound /\ @ = "Committed" -> "Removing"
                                   [] OTHER -> @]

\* A revoke_and_ack locks the peer's commitment that `pending` describes and
\* lets our updates in it into our own next one.
lock_counterparty_side(c, pending) ==
  gc_htlcs([c EXCEPT !.htlcs = {locked_by_revocation(h, pending) : h \in @},
                     !.feerate_holder = unwrap_or(pending.fee_update, @)])

forwardable(h) == ~h.outbound /\ ~h.processed /\ h.resolution = None /\ committed(h)

\* Hands the inbound HTLCs that are now on both commitments to the node.
collect_forwardable(c) ==
  [c EXCEPT !.htlcs = {[h EXCEPT !.processed = @ \/ forwardable(h)] : h \in @}]

new_channel(n) ==
  [state |-> "Normal", shutdown_sent |-> FALSE, shutdown_received |-> FALSE,
   htlcs |-> {}, to_holder_msat |-> Balance[n], to_counterparty_msat |-> Balance[Peer(n)],
   feerate_holder |-> InitialFeerate, feerate_counterparty |-> InitialFeerate,
   pending_fee_ack |-> None, counterparty_dirty |-> FALSE,
   next_holder_htlc_id |-> 0, next_counterparty_htlc_id |-> 0, holding_cell |-> <<>>]

-----------------------------------------------------------------------------
(* The peer's updates. *)

accepts_add(n, c, m) ==
  LET fee == IF n = "accepter"
             THEN fee_for(c.feerate_holder, Cardinality(escrowed(c, TRUE)) + 1)
             ELSE 0
  IN  /\ accepting_adds(c)
      /\ m.id = c.next_counterparty_htlc_id
      /\ Amount[m.payment] > 0
      /\ Amount[m.payment] >= HtlcMinimum[n]
      /\ Cardinality(live(c, FALSE)) < MaxAccepted[n]
      /\ total(live(c, FALSE)) + Amount[m.payment] <= MaxInFlight[n]
      /\ balances_for(c, TRUE).to_counterparty >= Amount[m.payment] + Reserve[Peer(n)] + fee

received_htlc(m) ==
  [outbound |-> FALSE, id |-> m.id, payment |-> m.payment, resolution |-> None,
   phase_holder |-> "Pending", phase_counterparty |-> "NotYet", processed |-> FALSE]

outbound_committed(h, id) ==
  h.outbound /\ h.id = id /\ h.resolution = None /\ committed(h)

accepts_feerate(n, feerate) ==
  n = "accepter" /\ feerate >= FeerateFloor /\ feerate <= FeerateCeiling

-----------------------------------------------------------------------------
(* Revoking, and flushing the holding cell. *)

\* Commitment `number` is locked: the one before is revoked, the next one has its point.
revoke_and_ack(number) ==
  [type |-> "revoke_and_ack", secret |-> number - 1, next_point |-> number + 1]

\* The ops of the holding cell that succeed when it is flushed in order.
flushes(n, c, S) ==
  LET ops == c.holding_cell
  IN  \A i \in DOMAIN ops :
        i \in S <=> permits(n, apply_ops(c, ops, {j \in S : j < i}), ops[i])

\* Mutant of flushed: refused ops stay parked.
flushed_but_refused(c, S) ==
  [apply_ops(c, c.holding_cell, S) EXCEPT !.holding_cell = IF S = DOMAIN @ THEN <<>> ELSE @]

\* The channel after the flush: what was refused is reported, not kept.
flushed(c, S) == [apply_ops(c, c.holding_cell, S) EXCEPT !.holding_cell = <<>>]

\* The ways to list S in ascending order (there is one).
ascending(S) ==
  {f \in [1..Cardinality(S) -> S] : \A i, j \in DOMAIN f : i < j => f[i] < f[j]}

\* What is signed and unacknowledged once the acknowledged record is taken.
still_pending(signs, pending) == IF signs THEN Some(pending) ELSE None

=============================================================================
