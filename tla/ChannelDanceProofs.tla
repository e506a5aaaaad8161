------------------------- MODULE ChannelDanceProofs -------------------------
(* Proofs about ChannelDance, for every value of its constants. *)
EXTENDS DanceInvariants, TLAPS, FiniteSetTheorems, SequenceTheorems

-----------------------------------------------------------------------------
(* The operators the actions are built from return values of the right type. *)

\* Each party has one peer, the other party.
LEMMA PeerType == \A n \in Party : Peer(n) \in Party /\ Peer(n) # n /\ Peer(Peer(n)) = n
  BY DEF Peer, Party

\* saturating_sub returns a natural number whatever it is given.
LEMMA SaturatingSubType == ASSUME NEW a, NEW b PROVE saturating_sub(a, b) \in Nat
  BY DEF saturating_sub

\* balances_for never goes below zero: apply_balance saturates.
LEMMA BalancesType ==
  ASSUME NEW c, NEW s
  PROVE  balances_for(c, s).to_holder \in Nat /\ balances_for(c, s).to_counterparty \in Nat
  BY SaturatingSubType DEF balances_for

\* unwrap_or of an optional feerate is a feerate.
LEMMA UnwrapType ==
  ASSUME NEW opt \in SUBSET Nat, NEW d \in Nat PROVE unwrap_or(opt, d) \in Nat
  BY Zenon DEF unwrap_or, None

\* Folding the settled HTLCs into the balances leaves a well-formed channel.
LEMMA GcType == ASSUME NEW c \in Channel PROVE gc_htlcs(c) \in Channel
<1> DEFINE dead == {h \in c.htlcs : both_gone(h)}
           d == [c EXCEPT !.htlcs = dead]
<1>1. c.htlcs \ dead \in SUBSET Htlc
  BY DEF Channel
<1>2. balances_for(d, TRUE).to_holder \in Nat /\ balances_for(d, TRUE).to_counterparty \in Nat
  BY BalancesType, Zenon
<1> QED
  BY <1>1, <1>2, Zenon DEF gc_htlcs, Channel

\* The HTLC outputs of a commitment are well formed.
LEMMA OutputsType ==
  ASSUME NEW c \in Channel, NEW s \in BOOLEAN
  PROVE  {htlc_in_commitment(h, s) : h \in escrowed(c, s)}
           \in SUBSET [offered : BOOLEAN, payment : Payment]
<1>1. escrowed(c, s) \in SUBSET Htlc
  BY DEF escrowed, Channel
<1>2. ASSUME NEW h \in Htlc
      PROVE  htlc_in_commitment(h, s) \in [offered : BOOLEAN, payment : Payment]
  BY DEF htlc_in_commitment, Htlc
<1> QED
  BY <1>1, <1>2

\* Our next commitment is well formed.
LEMMA BuildHolderType ==
  ASSUME NEW c \in Channel, NEW k \in Nat
  PROVE  build_holder_commitment_at(c, k) \in Commitment
<1>1. {htlc_in_commitment(h, TRUE) : h \in escrowed(c, TRUE)}
        \in SUBSET [offered : BOOLEAN, payment : Payment]
  BY OutputsType, Zenon
<1>2. c.feerate_holder \in Nat
  BY DEF Channel
<1> QED
  BY <1>1, <1>2, BalancesType, Zenon DEF build_holder_commitment_at, Commitment

\* The peer's next commitment, as we build it, is well formed.
LEMMA BuildCounterpartyType ==
  ASSUME NEW c \in Channel, NEW k \in Nat, NEW p \in Nat
  PROVE  build_counterparty_commitment_at(c, k, p) \in Commitment
<1>1. {htlc_in_commitment(h, FALSE) : h \in escrowed(c, FALSE)}
        \in SUBSET [offered : BOOLEAN, payment : Payment]
  BY OutputsType, Zenon
<1>2. c.feerate_counterparty \in Nat
  BY DEF Channel
<1> QED
  BY <1>1, <1>2, BalancesType, Zenon DEF build_counterparty_commitment_at, Commitment

\* What send_commitment_signed records and sends, and for which commitment.
LEMMA PendingType ==
  ASSUME NEW n \in Party, NEW c \in Channel, NEW k \in Nat, NEW p \in Nat
  PROVE  /\ pending_commitment(n, c, k, p) \in PendingCommitment
         /\ commitment_signed(pending_commitment(n, c, k, p)) \in Message
         /\ pending_commitment(n, c, k, p).info.number = k
<1>1. build_counterparty_commitment_at(c, k, p) \in Commitment
  BY BuildCounterpartyType
<1>2. /\ {htlc_ref(h) : h \in {x \in c.htlcs : x.phase_counterparty = "Pending"}}
           \in SUBSET (BOOLEAN \X Nat)
      /\ {htlc_ref(h) : h \in {x \in c.htlcs : x.phase_counterparty = "Removing"}}
           \in SUBSET (BOOLEAN \X Nat)
  BY DEF htlc_ref, Channel, Htlc
<1>3. fee_in_flight(n, c) \in SUBSET Nat
  BY DEF fee_in_flight, None, Some, Channel
<1>4. pending_commitment(n, c, k, p) \in PendingCommitment
  BY <1>1, <1>2, <1>3 DEF pending_commitment, PendingCommitment
<1>5. pending_commitment(n, c, k, p).info = build_counterparty_commitment_at(c, k, p)
  BY DEF pending_commitment
<1>6. build_counterparty_commitment_at(c, k, p).number = k
  BY DEF build_counterparty_commitment_at
<1>7. commitment_signed(pending_commitment(n, c, k, p)) \in Message
  BY <1>1, <1>5 DEF commitment_signed, Message
<1> QED
  BY <1>4, <1>5, <1>6, <1>7

\* The channel after a commitment_signed is well formed.
LEMMA LockHolderType == ASSUME NEW c \in Channel PROVE lock_holder_side(c) \in Channel
<1> DEFINE L == {locked_by_signature(h) : h \in c.htlcs}
           A == {acknowledged(h) : h \in L}
<1>1. ASSUME NEW h \in Htlc PROVE locked_by_signature(h) \in Htlc
  BY DEF locked_by_signature, Htlc, Phase
<1>2. ASSUME NEW h \in Htlc PROVE acknowledged(h) \in Htlc
  BY DEF acknowledged, Htlc, Phase
<1>3. A \in SUBSET Htlc
  BY <1>1, <1>2 DEF Channel
<1>4. unwrap_or(c.pending_fee_ack, c.feerate_counterparty) \in Nat
  BY UnwrapType DEF Channel
<1>5. newly_unsigned(c, L) \in BOOLEAN
  BY DEF newly_unsigned
<1> HIDE DEF A, L
<1>6. [c EXCEPT !.htlcs = A,
               !.feerate_counterparty = unwrap_or(c.pending_fee_ack, @),
               !.pending_fee_ack = None,
               !.counterparty_dirty = @ \/ newly_unsigned(c, L)] \in Channel
  BY <1>3, <1>4, <1>5, Zenon DEF Channel, None
<1> USE DEF A, L
<1> QED
  BY <1>6, GcType DEF lock_holder_side

\* The channel after a revoke_and_ack, before the flush, is well formed.
LEMMA LockCounterpartyType ==
  ASSUME NEW c \in Channel, NEW p \in PendingCommitment
  PROVE  lock_counterparty_side(c, p) \in Channel
<1> DEFINE A == {locked_by_revocation(h, p) : h \in c.htlcs}
<1>1. ASSUME NEW h \in Htlc PROVE locked_by_revocation(h, p) \in Htlc
  BY Zenon DEF locked_by_revocation, Htlc, Phase
<1>2. A \in SUBSET Htlc
  BY <1>1 DEF Channel
<1>3. unwrap_or(p.fee_update, c.feerate_holder) \in Nat
  BY UnwrapType DEF Channel, PendingCommitment
<1> HIDE DEF A
<1>4. [c EXCEPT !.htlcs = A, !.feerate_holder = unwrap_or(p.fee_update, @)] \in Channel
  BY <1>2, <1>3, Zenon DEF Channel
<1> USE DEF A
<1> QED
  BY <1>4, GcType DEF lock_counterparty_side

\* Handing HTLCs to the node leaves a well-formed channel.
LEMMA CollectType == ASSUME NEW c \in Channel PROVE collect_forwardable(c) \in Channel
<1> DEFINE A == {[h EXCEPT !.processed = @ \/ forwardable(h)] : h \in c.htlcs}
<1>1. ASSUME NEW h \in Htlc PROVE [h EXCEPT !.processed = @ \/ forwardable(h)] \in Htlc
  BY Zenon DEF Htlc
<1>2. A \in SUBSET Htlc
  BY <1>1 DEF Channel
<1> HIDE DEF A
<1>3. [c EXCEPT !.htlcs = A] \in Channel
  BY <1>2 DEF Channel
<1> USE DEF A
<1> QED
  BY <1>3 DEF collect_forwardable

\* The ids handed out to adds are natural numbers.
LEMMA AddIdType ==
  ASSUME NEW c \in Channel, NEW ops \in Seq(Op), NEW S \in SUBSET DOMAIN ops, NEW i
  PROVE  add_id(c, ops, S, i) \in Nat
<1> DEFINE before == {j \in S : j < i /\ ops[j].op = "Add"}
<1>1. IsFiniteSet(1..Len(ops))
  BY FS_Interval, LenProperties
<1>2. before \subseteq 1..Len(ops)
  BY LenProperties
<1>3. Cardinality(before) \in Nat
  BY <1>1, <1>2, FS_Subset, FS_CardinalityType
<1>4. c.next_holder_htlc_id \in Nat
  BY DEF Channel
<1> HIDE DEF before
<1>5. c.next_holder_htlc_id + Cardinality(before) \in Nat
  BY <1>3, <1>4
<1> USE DEF before
<1> QED
  BY <1>5 DEF add_id

\* Performing calls leaves a well-formed channel and sends well-formed updates.
LEMMA ApplyOpsType ==
  ASSUME NEW c \in Channel, NEW ops \in Seq(Op), NEW S \in SUBSET DOMAIN ops
  PROVE  /\ apply_ops(c, ops, S) \in Channel
         /\ \A i \in S : update_message(c, ops, S, i) \in Message
<1> DEFINE adds == {i \in S : ops[i].op = "Add"}
           old == {resolve_htlc(h, ops, S) : h \in c.htlcs}
           new == {offered_htlc(add_id(c, ops, S, i), ops[i].payment) : i \in adds}
<1>1. \A i \in S : ops[i] \in Op
  BY ElementOfSeq, LenProperties
<1>2. \A i \in S : IF ops[i].op = "Add" THEN ops[i].payment \in Payment
                   ELSE ops[i].op \in HtlcResolution /\ ops[i].id \in Nat
  BY <1>1 DEF Op, HtlcResolution
<1>3. ASSUME NEW h \in Htlc PROVE resolve_htlc(h, ops, S) \in Htlc
  <2>1. CASE \E j \in S : ops[j].op # "Add" /\ inbound_committed(h, ops[j].id)
    <3> DEFINE j == CHOOSE j \in S : ops[j].op # "Add" /\ inbound_committed(h, ops[j].id)
    <3>1. j \in S /\ ops[j].op # "Add"
      BY <2>1
    <3>2. Some(ops[j].op) \in SUBSET HtlcResolution
      BY <3>1, <1>2 DEF Some
    <3>3. resolve_htlc(h, ops, S)
            = [h EXCEPT !.resolution = Some(ops[j].op), !.phase_counterparty = "Removing"]
      BY <2>1 DEF resolve_htlc
    <3> HIDE DEF j
    <3> QED
      BY <3>2, <3>3, Zenon DEF Htlc, Phase
  <2>2. CASE ~ \E j \in S : ops[j].op # "Add" /\ inbound_committed(h, ops[j].id)
    BY <2>2 DEF resolve_htlc
  <2> QED
    BY <2>1, <2>2
<1>4. old \in SUBSET Htlc
  BY <1>3 DEF Channel
<1>5. ASSUME NEW i \in adds
      PROVE  offered_htlc(add_id(c, ops, S, i), ops[i].payment) \in Htlc
  BY <1>2, AddIdType DEF offered_htlc, Htlc, Phase, None
<1>6. new \in SUBSET Htlc
  BY <1>5
<1>7. Cardinality(adds) \in Nat
  <2>1. IsFiniteSet(1..Len(ops))
    BY FS_Interval, LenProperties
  <2>2. adds \subseteq 1..Len(ops)
    BY LenProperties
  <2> QED
    BY <2>1, <2>2, FS_Subset, FS_CardinalityType
<1> DEFINE id == c.next_holder_htlc_id + Cardinality(adds)
           dirty == c.counterparty_dirty \/ S # {}
           htlcs == old \cup new
<1>8. id \in Nat /\ dirty \in BOOLEAN /\ htlcs \in SUBSET Htlc
  BY <1>4, <1>6, <1>7 DEF Channel
<1> HIDE DEF id, dirty, htlcs
<1>9. [c EXCEPT !.htlcs = htlcs, !.next_holder_htlc_id = id, !.counterparty_dirty = dirty]
         \in Channel
  BY <1>8, Zenon DEF Channel
<1> USE DEF id, dirty, htlcs
<1>10. apply_ops(c, ops, S) \in Channel
  BY <1>9 DEF apply_ops
<1>11. ASSUME NEW i \in S PROVE update_message(c, ops, S, i) \in Message
  <2>1. add_id(c, ops, S, i) \in Nat
    BY AddIdType
  <2> QED
    BY <2>1, <1>2 DEF update_message, Message
<1> QED
  BY <1>10, <1>11

\* The channel after the flush of the holding cell is well formed.
LEMMA FlushedType ==
  ASSUME NEW c \in Channel, NEW S \in SUBSET DOMAIN c.holding_cell
  PROVE  flushed(c, S) \in Channel
<1>1. c.holding_cell \in Seq(Op)
  BY DEF Channel
<1>2. apply_ops(c, c.holding_cell, S) \in Channel
  BY <1>1, ApplyOpsType
<1>3. <<>> \in Seq(Op)
  BY EmptySeq
<1> QED
  BY <1>2, <1>3, Zenon DEF flushed, Channel

-----------------------------------------------------------------------------
(* Type correctness.  TypeOK is inductive together with PendingKnown: without *)
(* a pending commitment on_revoke_and_ack has nothing to make current.        *)

\* A channel that has just opened is well formed.
LEMMA NewChannelType == ASSUME NEW n \in Party PROVE new_channel(n) \in Channel
<1>1. <<>> \in Seq(Op)
  BY EmptySeq
<1>2. Balance[n] \in Nat /\ Balance[Peer(n)] \in Nat /\ InitialFeerate \in Nat
  BY PeerType, ConstantsAssumption
<1> QED
  BY <1>1, <1>2 DEF new_channel, Channel, ChannelState, None

\* The initial states are well typed, and nobody waits for a revocation.
LEMMA InitType == Init => TypeOK /\ PendingKnown
<1> SUFFICES ASSUME Init PROVE TypeOK /\ PendingKnown
  OBVIOUS
<1>1. \A n \in Party : new_channel(n) \in Channel
  BY NewChannelType
<1>2. chan \in [Party -> Channel]
  BY <1>1 DEF Init
<1>3. current_holder_commitment \in [Party -> Commitment]
  BY <1>1, BuildHolderType DEF Init
<1>4. current_counterparty_commitment \in [Party -> Commitment]
  BY <1>1, BuildCounterpartyType DEF Init
<1>5. net \in [Party -> Seq(Message)]
  BY EmptySeq DEF Init
<1>6. /\ pending_counterparty_commitment \in [Party -> SUBSET PendingCommitment]
      /\ PendingKnown
  BY DEF Init, None, PendingKnown
<1>7. /\ holder_commitment_number \in [Party -> Nat]
      /\ counterparty_commitment_number \in [Party -> Nat]
      /\ counterparty_current_point \in [Party -> Nat]
      /\ counterparty_next_point \in [Party -> Nat]
  BY DEF Init
<1>8. /\ awaiting_raa \in [Party -> BOOLEAN]
      /\ fee_updates \in Nat
  BY DEF Init
<1>9. /\ outcome \in [Payment -> {"new", "pending", "fulfilled", "failed"}]
      /\ error \in [Party -> CloseReason]
  BY DEF Init, CloseReason
<1> QED
  BY <1>2, <1>3, <1>4, <1>5, <1>6, <1>7, <1>8, <1>9 DEF TypeOK

\* What a handler finds when it reads a message.
LEMMA ReadType ==
  ASSUME TypeOK, NEW n \in Party, NEW t, receives(n, t)
  PROVE  /\ message(n) \in Message /\ message(n).type = t
         /\ read(n) \in [Party -> Seq(Message)]
         /\ read(n)[n] = net[n] /\ read(n)[Peer(n)] = Tail(net[Peer(n)])
<1>1. net[Peer(n)] \in Seq(Message) /\ net[Peer(n)] # <<>>
  BY PeerType DEF TypeOK, receives
<1>2. Head(net[Peer(n)]) \in Message /\ Tail(net[Peer(n)]) \in Seq(Message)
  BY <1>1, HeadTailProperties
<1> QED
  BY <1>2, PeerType DEF TypeOK, receives, message, read

\* Failing the channel in a handler preserves the types.
LEMMA CloseType ==
  ASSUME TypeOK, PendingKnown, NEW n \in Party, NEW t, receives(n, t),
         NEW reason \in CloseReason, close(n, reason)
  PROVE  TypeOK' /\ PendingKnown'
<1>1. net' \in [Party -> Seq(Message)]
  BY ReadType DEF close
<1>2. error' \in [Party -> CloseReason]
  BY DEF close, TypeOK
<1> QED
  BY <1>1, <1>2 DEF close, TypeOK, PendingKnown, commitmentVars

\* A call that is parked, or performed and sent, preserves the types.
LEMMA ParkOrSendType ==
  ASSUME TypeOK, PendingKnown, NEW n \in Party, NEW op \in Op, park_or_send(n, op)
  PROVE  /\ chan' \in [Party -> Channel]
         /\ net' \in [Party -> Seq(Message)]
         /\ UNCHANGED <<commitmentVars, fee_updates, error>>
<1>1. chan[n] \in Channel /\ net[n] \in Seq(Message)
  BY DEF TypeOK
<1>2. CASE awaiting_raa[n]
  <2>1. Append(chan[n].holding_cell, op) \in Seq(Op)
    BY <1>1, AppendProperties DEF Channel
  <2>2. [chan[n] EXCEPT !.holding_cell = Append(@, op)] \in Channel
    BY <1>1, <2>1, Zenon DEF Channel
  <2> QED
    BY <1>2, <2>2, Zenon DEF park_or_send, TypeOK
<1>3. CASE ~awaiting_raa[n]
  <2>1. <<op>> \in Seq(Op) /\ {1} \in SUBSET DOMAIN <<op>>
    OBVIOUS
  <2>2. apply_ops(chan[n], <<op>>, {1}) \in Channel
    BY <1>1, <2>1, ApplyOpsType, Zenon
  <2>3. update_message(chan[n], <<op>>, {1}, 1) \in Message
    BY <1>1, <2>1, ApplyOpsType, Zenon
  <2>4. Append(net[n], update_message(chan[n], <<op>>, {1}, 1)) \in Seq(Message)
    BY <1>1, <2>3, AppendProperties
  <2>5. /\ chan \in [Party -> Channel] /\ net \in [Party -> Seq(Message)]
    BY DEF TypeOK
  <2> HIDE DEF Channel, Message
  <2> QED
    BY <1>3, <2>2, <2>4, <2>5, Zenon DEF park_or_send
<1> QED
  BY <1>2, <1>3 DEF park_or_send

\* The calls of the node layer preserve the types.
LEMMA SendTypes ==
  ASSUME TypeOK, PendingKnown, NEW n \in Party
  PROVE  /\ \A p \in Payment : send_add_htlc(n, p) => TypeOK' /\ PendingKnown'
         /\ \A h \in chan[n].htlcs, r \in Resolutions :
              send_resolve_htlc(n, h, r) => TypeOK' /\ PendingKnown'
         /\ \A f \in Feerate : send_update_fee(n, f) => TypeOK' /\ PendingKnown'
         /\ send_commitment_signed(n) => TypeOK' /\ PendingKnown'
<1>1. chan[n] \in Channel /\ net[n] \in Seq(Message)
  BY DEF TypeOK
<1>2. ASSUME NEW p \in Payment, send_add_htlc(n, p) PROVE TypeOK' /\ PendingKnown'
  <2>1. Add(p) \in Op
    BY DEF Add, Op
  <2>2. /\ chan' \in [Party -> Channel] /\ net' \in [Party -> Seq(Message)]
        /\ UNCHANGED <<commitmentVars, fee_updates, error>>
    BY <1>2, <2>1, ParkOrSendType DEF send_add_htlc
  <2>3. outcome' \in [Payment -> {"new", "pending", "fulfilled", "failed"}]
    BY <1>2 DEF send_add_htlc, TypeOK
  <2> QED
    BY <2>2, <2>3 DEF TypeOK, PendingKnown, commitmentVars
<1>3. ASSUME NEW h \in chan[n].htlcs, NEW r \in Resolutions, send_resolve_htlc(n, h, r)
      PROVE  TypeOK' /\ PendingKnown'
  <2>1. h.id \in Nat /\ r \in HtlcResolution
    BY <1>1, ConstantsAssumption, Zenon DEF Channel, Htlc
  <2>2. Resolve(h.id, r) \in Op
    BY <2>1 DEF Resolve, Op
  <2>3. /\ chan' \in [Party -> Channel] /\ net' \in [Party -> Seq(Message)]
        /\ UNCHANGED <<commitmentVars, fee_updates, error>>
    BY <1>3, <2>2, ParkOrSendType DEF send_resolve_htlc
  <2> QED
    BY <1>3, <2>3 DEF TypeOK, PendingKnown, commitmentVars, send_resolve_htlc
<1>4. ASSUME NEW f \in Feerate, send_update_fee(n, f) PROVE TypeOK' /\ PendingKnown'
  <2>1. f \in Nat
    BY ConstantsAssumption
  <2>2. [chan[n] EXCEPT !.feerate_counterparty = f, !.counterparty_dirty = TRUE] \in Channel
    BY <1>1, <2>1, Zenon DEF Channel
  <2>3. chan' \in [Party -> Channel]
    BY <1>4, <2>2 DEF send_update_fee, TypeOK
  <2>4. [type |-> "update_fee", feerate |-> f] \in Message
    BY <2>1 DEF Message
  <2>5. Append(net[n], [type |-> "update_fee", feerate |-> f]) \in Seq(Message)
    BY <1>1, <2>4, AppendProperties
  <2>6. net' \in [Party -> Seq(Message)]
    BY <1>4, <2>5 DEF send_update_fee, TypeOK
  <2>7. fee_updates' \in Nat
    BY <1>4 DEF send_update_fee, TypeOK
  <2> QED
    BY <1>4, <2>3, <2>6, <2>7 DEF send_update_fee, TypeOK, PendingKnown, commitmentVars
<1>5. ASSUME send_commitment_signed(n) PROVE TypeOK' /\ PendingKnown'
  <2> DEFINE pending == pending_commitment(n, chan[n], counterparty_commitment_number[n] + 1,
                                           counterparty_next_point[n])
  <2>1. counterparty_commitment_number[n] + 1 \in Nat /\ counterparty_next_point[n] \in Nat
    BY DEF TypeOK
  <2>2. pending \in PendingCommitment /\ commitment_signed(pending) \in Message
    BY <1>1, <2>1, PendingType
  <2>3. Append(net[n], commitment_signed(pending)) \in Seq(Message)
    BY <1>1, <2>2, AppendProperties
  <2> HIDE DEF pending
  <2>4. net' \in [Party -> Seq(Message)]
    BY <1>5, <2>3 DEF send_commitment_signed, TypeOK, pending
  <2>5. Some(pending) \in SUBSET PendingCommitment /\ Some(pending) # None
    BY <2>2 DEF Some, None
  <2>6. pending_counterparty_commitment'
          = [pending_counterparty_commitment EXCEPT ![n] = Some(pending)]
    BY <1>5 DEF send_commitment_signed, pending
  <2>7. pending_counterparty_commitment' \in [Party -> SUBSET PendingCommitment]
    BY <2>5, <2>6 DEF TypeOK
  <2>8. awaiting_raa' \in [Party -> BOOLEAN]
    BY <1>5 DEF send_commitment_signed, TypeOK
  <2>9. [chan[n] EXCEPT !.counterparty_dirty = FALSE] \in Channel
    BY <1>1, Zenon DEF Channel
  <2>10. chan' \in [Party -> Channel]
    BY <1>5, <2>9 DEF send_commitment_signed, TypeOK
  <2>11. PendingKnown'
    BY <1>5, <2>5, <2>6 DEF send_commitment_signed, TypeOK, PendingKnown
  <2> QED
    BY <1>5, <2>4, <2>7, <2>8, <2>10, <2>11 DEF send_commitment_signed, TypeOK
<1> QED
  BY <1>2, <1>3, <1>4, <1>5

\* The handlers of updates preserve the types.
LEMMA UpdateTypes ==
  ASSUME TypeOK, PendingKnown, NEW n \in Party
  PROVE  /\ on_update_add_htlc(n) => TypeOK' /\ PendingKnown'
         /\ on_update_remove_htlc(n) => TypeOK' /\ PendingKnown'
         /\ on_update_fee(n) => TypeOK' /\ PendingKnown'
<1>1. chan[n] \in Channel
  BY DEF TypeOK
<1>2. ASSUME on_update_add_htlc(n) PROVE TypeOK' /\ PendingKnown'
  <2>1. message(n) \in Message /\ message(n).type = "update_add_htlc"
        /\ read(n) \in [Party -> Seq(Message)]
    BY <1>2, ReadType, Zenon DEF on_update_add_htlc
  <2>2. message(n).id \in Nat /\ message(n).payment \in Payment
    BY <2>1 DEF Message
  <2>3. received_htlc(message(n)) \in Htlc
    BY <2>2 DEF received_htlc, Htlc, Phase, None
  <2>4. CASE accepts_add(n, chan[n], message(n))
    <3> DEFINE htlcs == chan[n].htlcs \cup {received_htlc(message(n))}
               id == chan[n].next_counterparty_htlc_id + 1
    <3>1. htlcs \in SUBSET Htlc /\ id \in Nat
      BY <1>1, <2>3 DEF Channel
    <3> HIDE DEF htlcs, id
    <3>2. [chan[n] EXCEPT !.htlcs = htlcs, !.next_counterparty_htlc_id = id] \in Channel
      BY <1>1, <3>1, Zenon DEF Channel
    <3> USE DEF htlcs, id
    <3>3. [chan[n] EXCEPT !.htlcs = @ \cup {received_htlc(message(n))},
                          !.next_counterparty_htlc_id = @ + 1] \in Channel
      BY <3>2
    <3>4. chan' \in [Party -> Channel] /\ net' \in [Party -> Seq(Message)]
      BY <1>2, <2>1, <2>4, <3>3 DEF on_update_add_htlc, TypeOK
    <3> QED
      BY <1>2, <2>4, <3>4 DEF on_update_add_htlc, TypeOK, PendingKnown, commitmentVars
  <2>5. CASE ~accepts_add(n, chan[n], message(n))
    BY <1>2, <2>5, CloseType, Zenon DEF on_update_add_htlc, CloseReason
  <2> QED
    BY <2>4, <2>5
<1>3. ASSUME on_update_remove_htlc(n) PROVE TypeOK' /\ PendingKnown'
  <2> DEFINE m == message(n)
             removed == {h \in chan[n].htlcs : outbound_committed(h, m.id)}
             new == {[h EXCEPT !.resolution = Some(m.resolution), !.phase_holder = "Removing"]
                       : h \in removed}
  <2>1. m \in Message /\ m.type = "update_remove_htlc" /\ read(n) \in [Party -> Seq(Message)]
    BY <1>3, ReadType, Zenon DEF on_update_remove_htlc
  <2>2. m.resolution \in HtlcResolution
    BY <2>1 DEF Message
  <2>3. CASE removed # {}
    <3>1. ASSUME NEW h \in Htlc
          PROVE  [h EXCEPT !.resolution = Some(m.resolution), !.phase_holder = "Removing"] \in Htlc
      BY <2>2, Zenon DEF Htlc, Some, Phase
    <3>2. (chan[n].htlcs \ removed) \cup new \in SUBSET Htlc
      BY <1>1, <3>1 DEF Channel
    <3>3. [chan[n] EXCEPT !.htlcs = (@ \ removed) \cup new] \in Channel
      BY <1>1, <3>2 DEF Channel
    <3>4. chan' = [chan EXCEPT ![n].htlcs = (@ \ removed) \cup new]
      BY <1>3, <2>3, Zenon DEF on_update_remove_htlc
    <3> HIDE DEF new, removed
    <3>5. chan' \in [Party -> Channel]
      BY <3>3, <3>4 DEF TypeOK
    <3> USE DEF new, removed
    <3>6. outcome' \in [Payment -> {"new", "pending", "fulfilled", "failed"}]
      BY <1>3, <2>3 DEF on_update_remove_htlc, TypeOK
    <3>7. net' \in [Party -> Seq(Message)]
      BY <1>3, <2>1, <2>3 DEF on_update_remove_htlc
    <3>8. UNCHANGED <<commitmentVars, fee_updates, error>>
      BY <1>3, <2>3 DEF on_update_remove_htlc
    <3> QED
      BY <3>5, <3>6, <3>7, <3>8 DEF TypeOK, PendingKnown, commitmentVars
  <2>4. CASE removed = {}
    BY <1>3, <2>4, CloseType, Zenon DEF on_update_remove_htlc, CloseReason
  <2> QED
    BY <2>3, <2>4
<1>4. ASSUME on_update_fee(n) PROVE TypeOK' /\ PendingKnown'
  <2>1. message(n) \in Message /\ message(n).type = "update_fee"
        /\ read(n) \in [Party -> Seq(Message)]
    BY <1>4, ReadType, Zenon DEF on_update_fee
  <2>2. message(n).feerate \in Nat
    BY <2>1 DEF Message
  <2>3. CASE accepts_feerate(n, message(n).feerate)
    <3>1. [chan[n] EXCEPT !.feerate_holder = message(n).feerate,
                          !.pending_fee_ack = Some(message(n).feerate)] \in Channel
      BY <1>1, <2>2, Zenon DEF Channel, Some
    <3> DEFINE c == [chan[n] EXCEPT !.feerate_holder = message(n).feerate,
                                     !.pending_fee_ack = Some(message(n).feerate)]
    <3>2. chan' = [chan EXCEPT ![n] = c]
      BY <1>4, <2>3, Zenon DEF on_update_fee, TypeOK
    <3> HIDE DEF c
    <3>3. chan' \in [Party -> Channel]
      BY <3>1, <3>2 DEF TypeOK, c
    <3>4. chan' \in [Party -> Channel] /\ net' \in [Party -> Seq(Message)]
      BY <1>4, <2>1, <2>3, <3>3 DEF on_update_fee
    <3> QED
      BY <1>4, <2>3, <3>4 DEF on_update_fee, TypeOK, PendingKnown, commitmentVars
  <2>4. CASE ~accepts_feerate(n, message(n).feerate)
    BY <1>4, <2>4, CloseType, Zenon DEF on_update_fee, CloseReason
  <2> QED
    BY <2>3, <2>4
<1> QED
  BY <1>2, <1>3, <1>4

\* on_commitment_signed preserves the types.
LEMMA CommitmentSignedType ==
  ASSUME TypeOK, PendingKnown, NEW n \in Party, on_commitment_signed(n)
  PROVE  TypeOK' /\ PendingKnown'
<1> DEFINE number == holder_commitment_number[n] + 1
           built == build_holder_commitment_at(chan[n], number)
           raa == [type |-> "revoke_and_ack", secret |-> number - 1, next_point |-> number + 1]
           ok == chan[n].state \in {"Normal", "ShuttingDown"} /\ message(n).signature = built
<1>1. chan[n] \in Channel /\ net[n] \in Seq(Message) /\ number \in Nat /\ number - 1 \in Nat
  BY DEF TypeOK
<1>2. read(n) \in [Party -> Seq(Message)] /\ read(n)[n] = net[n]
  BY ReadType, Zenon DEF on_commitment_signed
<1>3. CASE ok
  <2>1. built \in Commitment /\ lock_holder_side(chan[n]) \in Channel
    BY <1>1, BuildHolderType, LockHolderType
  <2>2. raa \in Message
    BY <1>1 DEF Message
  <2>3. Append(net[n], raa) \in Seq(Message)
    BY <1>1, <2>2, AppendProperties
  <2>4. /\ current_holder_commitment' = [current_holder_commitment EXCEPT ![n] = built]
        /\ holder_commitment_number' = [holder_commitment_number EXCEPT ![n] = number]
        /\ chan' = [chan EXCEPT ![n] = lock_holder_side(chan[n])]
        /\ net' = [read(n) EXCEPT ![n] = Append(read(n)[n], raa)]
    BY <1>3 DEF on_commitment_signed, revoke_and_ack
  <2>5. UNCHANGED <<counterparty_commitment_number, counterparty_current_point,
                    counterparty_next_point, current_counterparty_commitment,
                    pending_counterparty_commitment, awaiting_raa,
                    outcome, fee_updates, error>>
    BY <1>3 DEF on_commitment_signed
  <2> HIDE DEF number, built, raa, ok
  <2>6. net' \in [Party -> Seq(Message)]
    BY <1>2, <2>3, <2>4
  <2>7. /\ current_holder_commitment' \in [Party -> Commitment]
        /\ holder_commitment_number' \in [Party -> Nat]
        /\ chan' \in [Party -> Channel]
    BY <1>1, <2>1, <2>4 DEF TypeOK
  <2> QED
    BY <2>5, <2>6, <2>7 DEF TypeOK, PendingKnown
<1>4. CASE ~ok
  BY <1>4, CloseType DEF on_commitment_signed, CloseReason
<1> QED
  BY <1>3, <1>4

\* on_revoke_and_ack, when it accepts the secret, has the effect raa_effect.
LEMMA RevokeAndAckStep ==
  ASSUME TypeOK, PendingKnown, NEW n \in Party, on_revoke_and_ack(n),
         awaiting_raa[n],
         message(n).secret = counterparty_current_point[n],
         message(n).secret = counterparty_commitment_number[n]
  PROVE  \E d \in Channel, updates \in Seq(Message), signs \in BOOLEAN,
            acked \in PendingCommitment, pending \in PendingCommitment :
           raa_effect(n, d, updates, signs, acked, pending)
<1> DEFINE number == counterparty_commitment_number[n] + 1
           next == message(n).next_point
           acked == CHOOSE x \in pending_counterparty_commitment[n] : TRUE
           c == collect_forwardable(lock_counterparty_side(chan[n], acked))
           ops == c.holding_cell
<1>1. message(n) \in Message /\ message(n).type = "revoke_and_ack" /\ read(n)[n] = net[n]
  BY ReadType, Zenon DEF on_revoke_and_ack
<1>2. next \in Nat /\ number \in Nat /\ number + 1 \in Nat
  BY <1>1 DEF Message, TypeOK
<1>3. acked \in PendingCommitment /\ acked \in pending_counterparty_commitment[n]
  <2>1. pending_counterparty_commitment[n] # {}
        /\ pending_counterparty_commitment[n] \subseteq PendingCommitment
    BY DEF PendingKnown, TypeOK, None
  <2> QED
    BY <2>1
<1>4. c \in Channel /\ ops = chan[n].holding_cell
  <2>1. c \in Channel
    BY <1>3, LockCounterpartyType, CollectType DEF TypeOK
  <2>2. ops = chan[n].holding_cell
    <3>1. chan[n] \in Channel /\ lock_counterparty_side(chan[n], acked) \in Channel
      BY <1>3, LockCounterpartyType DEF TypeOK
    <3> HIDE DEF acked
    <3>2. lock_counterparty_side(chan[n], acked).holding_cell = chan[n].holding_cell
      BY <3>1, Zenon DEF lock_counterparty_side, gc_htlcs, Channel
    <3> QED
      BY <3>1, <3>2 DEF collect_forwardable, Channel
  <2> QED
    BY <2>1, <2>2
<1>5. ops \in Seq(Op)
  BY <1>4 DEF Channel
<1>6. PICK S \in SUBSET DOMAIN ops : \E order \in ascending(S) :
        /\ flushes(n, c, S)
        /\ LET d == flushed(c, S)
               updates == [k \in DOMAIN order |-> update_message(c, ops, S, order[k])]
               signs == can_send_commitment(d, FALSE)
               pending == pending_commitment(n, d, number + 1, next)
           IN  /\ chan' = [chan EXCEPT ![n] = [d EXCEPT !.counterparty_dirty = @ /\ ~signs]]
               /\ pending_counterparty_commitment' =
                    [pending_counterparty_commitment EXCEPT ![n] =
                       IF signs THEN Some(pending) ELSE None]
               /\ awaiting_raa' = [awaiting_raa EXCEPT ![n] = signs]
               /\ net' = [read(n) EXCEPT ![n] = @ \o updates \o
                    (IF signs THEN <<commitment_signed(pending)>> ELSE <<>>)]
        /\ outcome' = [p \in Payment |->
             IF \E i \in DOMAIN ops \ S : ops[i] = Add(p) THEN "failed" ELSE outcome[p]]
        /\ counterparty_commitment_number' =
             [counterparty_commitment_number EXCEPT ![n] = number]
        /\ counterparty_current_point' =
             [counterparty_current_point EXCEPT ![n] = counterparty_next_point[n]]
        /\ counterparty_next_point' = [counterparty_next_point EXCEPT ![n] = next]
        /\ current_counterparty_commitment' =
             [current_counterparty_commitment EXCEPT ![n] = acked.info]
        /\ UNCHANGED <<holder_commitment_number, current_holder_commitment, fee_updates, error>>
  BY Zenon DEF on_revoke_and_ack, still_pending
<1> HIDE DEF number, next, acked, c, ops
<1>7. PICK order \in ascending(S) :
        /\ flushes(n, c, S)
        /\ LET d == flushed(c, S)
               updates == [k \in DOMAIN order |-> update_message(c, ops, S, order[k])]
               signs == can_send_commitment(d, FALSE)
               pending == pending_commitment(n, d, number + 1, next)
           IN  /\ chan' = [chan EXCEPT ![n] = [d EXCEPT !.counterparty_dirty = @ /\ ~signs]]
               /\ pending_counterparty_commitment' =
                    [pending_counterparty_commitment EXCEPT ![n] =
                       IF signs THEN Some(pending) ELSE None]
               /\ awaiting_raa' = [awaiting_raa EXCEPT ![n] = signs]
               /\ net' = [read(n) EXCEPT ![n] = @ \o updates \o
                    (IF signs THEN <<commitment_signed(pending)>> ELSE <<>>)]
  BY <1>6, Zenon
<1> DEFINE d == flushed(c, S)
           updates == [k \in DOMAIN order |-> update_message(c, ops, S, order[k])]
           signs == can_send_commitment(d, FALSE)
           pending == pending_commitment(n, d, number + 1, next)
           e == [d EXCEPT !.counterparty_dirty = @ /\ ~signs]
<1>8. d \in Channel
  BY <1>4, FlushedType DEF ops
<1>9. pending \in PendingCommitment /\ commitment_signed(pending) \in Message
  BY <1>2, <1>8, PendingType
<1>10. updates \in Seq(Message)
       /\ absent(updates, "commitment_signed") /\ absent(updates, "revoke_and_ack")
  <2>1. order \in [1..Cardinality(S) -> S]
    BY DEF ascending
  <2>2. Cardinality(S) \in Nat
    <3>1. S \in SUBSET (1..Len(ops)) /\ Len(ops) \in Nat
      BY <1>5, LenProperties
    <3>2. IsFiniteSet(1..Len(ops))
      BY <3>1, FS_Interval
    <3> QED
      BY <3>1, <3>2, FS_Subset, FS_CardinalityType
  <2>3. \A i \in S : update_message(c, ops, S, i) \in Message
    BY <1>4, <1>5, ApplyOpsType, Zenon
  <2>4. \A i \in S : /\ update_message(c, ops, S, i).type # "commitment_signed"
                     /\ update_message(c, ops, S, i).type # "revoke_and_ack"
    BY DEF update_message
  <2>5. updates \in [1..Cardinality(S) -> Message]
    BY <2>1, <2>3
  <2>6. updates \in Seq(Message) /\ Len(updates) = Cardinality(S)
    BY <2>2, <2>5
  <2>7. \A i \in 1..Len(updates) : /\ updates[i].type # "commitment_signed"
                                   /\ updates[i].type # "revoke_and_ack"
    BY <2>1, <2>4, <2>6
  <2> QED
    BY <2>6, <2>7 DEF absent
<1>11. signs \in BOOLEAN
  BY DEF can_send_commitment
<1>12. e \in Channel
  <2> HIDE DEF signs, d
  <2> QED
    BY <1>8, <1>11, Zenon DEF Channel
<1>13. outcome' \in [Payment -> {"new", "pending", "fulfilled", "failed"}]
  BY <1>6 DEF TypeOK
<1>14. /\ chan' = [chan EXCEPT ![n] = e]
       /\ pending_counterparty_commitment' =
            [pending_counterparty_commitment EXCEPT ![n] = IF signs THEN Some(pending) ELSE None]
       /\ awaiting_raa' = [awaiting_raa EXCEPT ![n] = signs]
       /\ net' = [read(n) EXCEPT ![n] = net[n] \o updates \o
                    (IF signs THEN <<commitment_signed(pending)>> ELSE <<>>)]
  BY <1>1, <1>7
<1>15. flush_effect(n, c, ops, e, updates, signs)
  <2>1. e = [flushed(c, S) EXCEPT !.counterparty_dirty = @ /\ ~signs]
    OBVIOUS
  <2>2. signs = can_send_commitment(flushed(c, S), FALSE)
    OBVIOUS
  <2>3. updates = [k \in DOMAIN order |-> update_message(c, ops, S, order[k])]
    OBVIOUS
  <2>4. /\ flushes(n, c, S)
        /\ outcome' = [p \in Payment |->
             IF \E i \in DOMAIN ops \ S : ops[i] = Add(p) THEN "failed" ELSE outcome[p]]
    BY <1>6
  <2> HIDE DEF d, e, signs, updates
  <2> QED
    BY <2>1, <2>2, <2>3, <2>4, Zenon DEF flush_effect
<1>16. pending = pending_commitment(n, e, number + 1, next)
  <2> HIDE DEF signs, d
  <2>1. /\ e.htlcs = d.htlcs /\ e.to_holder_msat = d.to_holder_msat
        /\ e.to_counterparty_msat = d.to_counterparty_msat
        /\ e.feerate_counterparty = d.feerate_counterparty /\ e.feerate_holder = d.feerate_holder
    BY <1>8, <1>11 DEF Channel
  <2> HIDE DEF e
  <2> QED
    BY <2>1, Zenon DEF pending_commitment, build_counterparty_commitment_at, fee_in_flight, balances_for,
                fulfilled, escrowed
<1>17. number + 1 = counterparty_commitment_number[n] + 2
  BY DEF number, TypeOK
<1> HIDE DEF d, updates, signs, pending, e
<1>18. acked_channel(n, acked) = c /\ chan[n].holding_cell = ops /\ c.holding_cell = ops
  BY <1>4 DEF acked_channel, c, ops
<1>19. raa_effect(n, e, updates, signs, acked, pending)
  BY <1>3, <1>4, <1>6, <1>9, <1>10, <1>13, <1>14, <1>15, <1>16, <1>17, <1>18, Zenon
     DEF number, next, raa_effect
<1> QED
  BY <1>3, <1>9, <1>10, <1>11, <1>12, <1>19

\* on_revoke_and_ack preserves the types, and a record goes with every signature.
LEMMA RevokeAndAckType ==
  ASSUME TypeOK, PendingKnown, NEW n \in Party, on_revoke_and_ack(n)
  PROVE  TypeOK' /\ PendingKnown'
<1> DEFINE ok == /\ awaiting_raa[n]
                 /\ message(n).secret = counterparty_current_point[n]
                 /\ message(n).secret = counterparty_commitment_number[n]
<1>1. CASE ok
  <2>1. PICK d \in Channel, updates \in Seq(Message), signs \in BOOLEAN,
             acked \in PendingCommitment, pending \in PendingCommitment :
           raa_effect(n, d, updates, signs, acked, pending)
    BY <1>1, RevokeAndAckStep
  <2> USE DEF raa_effect
  <2>2. message(n) \in Message /\ message(n).type = "revoke_and_ack"
        /\ read(n) \in [Party -> Seq(Message)]
    BY ReadType, Zenon DEF on_revoke_and_ack
  <2>3. message(n).next_point \in Nat
    BY <2>2 DEF Message
  <2>4. /\ counterparty_commitment_number' \in [Party -> Nat]
        /\ counterparty_current_point' \in [Party -> Nat]
        /\ counterparty_next_point' \in [Party -> Nat]
    BY <2>1, <2>3 DEF TypeOK
  <2>5. current_counterparty_commitment' \in [Party -> Commitment]
    BY <2>1 DEF TypeOK, PendingCommitment
  <2>6. /\ pending_counterparty_commitment' \in [Party -> SUBSET PendingCommitment]
        /\ PendingKnown'
    BY <2>1 DEF TypeOK, PendingKnown, Some, None
  <2>7. awaiting_raa' \in [Party -> BOOLEAN] /\ chan' \in [Party -> Channel]
    BY <2>1 DEF TypeOK
  <2>8. net' \in [Party -> Seq(Message)]
    <3> DEFINE tail == IF signs THEN <<commitment_signed(pending)>> ELSE <<>>
    <3>1. tail \in Seq(Message)
      BY <2>1
    <3> HIDE DEF tail
    <3>2. net[n] \o updates \o tail \in Seq(Message)
      BY <3>1, ConcatProperties DEF TypeOK
    <3> QED
      BY <2>1, <2>2, <3>2, Zenon DEF tail
  <2> QED
    BY <2>1, <2>4, <2>5, <2>6, <2>7, <2>8 DEF TypeOK
<1>2. CASE ~ok
  BY <1>2, CloseType DEF on_revoke_and_ack, CloseReason
<1> QED
  BY <1>1, <1>2

\* TypeOK and PendingKnown are inductive together.
LEMMA NextType == TypeOK /\ PendingKnown /\ [Next]_vars => TypeOK' /\ PendingKnown'
<1> SUFFICES ASSUME TypeOK, PendingKnown, [Next]_vars PROVE TypeOK' /\ PendingKnown'
  OBVIOUS
<1>1. CASE UNCHANGED vars
  BY <1>1 DEF vars, commitmentVars, TypeOK, PendingKnown
<1>2. ASSUME NEW n \in Party,
             \/ \E p \in Payment : send_add_htlc(n, p)
             \/ \E h \in chan[n].htlcs, r \in Resolutions : send_resolve_htlc(n, h, r)
             \/ \E f \in Feerate : send_update_fee(n, f)
             \/ send_commitment_signed(n)
      PROVE  TypeOK' /\ PendingKnown'
  BY <1>2, SendTypes
<1>3. ASSUME NEW n \in Party,
             on_update_add_htlc(n) \/ on_update_remove_htlc(n) \/ on_update_fee(n)
      PROVE  TypeOK' /\ PendingKnown'
  BY <1>3, UpdateTypes
<1>4. ASSUME NEW n \in Party, on_commitment_signed(n) PROVE TypeOK' /\ PendingKnown'
  BY <1>4, CommitmentSignedType
<1>5. ASSUME NEW n \in Party, on_revoke_and_ack(n) PROVE TypeOK' /\ PendingKnown'
  BY <1>5, RevokeAndAckType
<1> QED
  BY <1>1, <1>2, <1>3, <1>4, <1>5, Zenon DEF Next

\* Every reachable state of the two channels and their streams is well typed.
THEOREM TypeCorrect == Spec => []TypeOK
<1>1. Spec => [](TypeOK /\ PendingKnown)
  BY InitType, NextType, PTL DEF Spec
<1> QED
  BY <1>1, PTL

\* on_revoke_and_ack never panics on its `expect`: a party that awaits a
\* revocation has recorded what it signed.
THEOREM PendingIsKnown == Spec => []PendingKnown
<1>1. Spec => [](TypeOK /\ PendingKnown)
  BY InitType, NextType, PTL DEF Spec
<1> QED
  BY <1>1, PTL

-----------------------------------------------------------------------------
(* What the proofs about HTLCs and balances take from this module. *)

\* Adds are given different ids, in order, none of them used before.
LEMMA AddIds ==
  ASSUME NEW c \in Channel, NEW ops \in Seq(Op), NEW S \in SUBSET DOMAIN ops
  PROVE  ids_ascend(c, ops, S)
<1> DEFINE before(k) == {j \in S : j < k /\ ops[j].op = "Add"}
           adds == {j \in S : ops[j].op = "Add"}
<1>1. Len(ops) \in Nat /\ DOMAIN ops = 1..Len(ops) /\ S \subseteq 1..Len(ops)
  BY LenProperties
<1>2. IsFiniteSet(1..Len(ops))
  BY <1>1, FS_Interval
<1>3. c.next_holder_htlc_id \in Nat
  BY DEF Channel
<1>4. ASSUME NEW A \in SUBSET S
      PROVE  /\ Cardinality(A) \in Nat
             /\ \A B \in SUBSET A, k \in A :
                  k \notin B => Cardinality(B) \in Nat /\ Cardinality(B) < Cardinality(A)
  <2>1. IsFiniteSet(A)
    BY <1>1, <1>2, FS_Subset
  <2>2. \A B \in SUBSET A : IsFiniteSet(B) /\ Cardinality(B) <= Cardinality(A)
          /\ (Cardinality(A) = Cardinality(B) => A = B)
    BY <2>1, FS_Subset
  <2>3. Cardinality(A) \in Nat /\ \A B \in SUBSET A : Cardinality(B) \in Nat
    BY <2>1, <2>2, FS_CardinalityType
  <2> QED
    BY <2>2, <2>3
<1>5. apply_ops(c, ops, S).next_holder_htlc_id = c.next_holder_htlc_id + Cardinality(adds)
  BY DEF apply_ops, Channel
<1>6. Cardinality(adds) \in Nat
  <2>1. adds \in SUBSET S
    OBVIOUS
  <2> HIDE DEF adds
  <2> QED
    BY <1>4, <2>1
<1>7. ASSUME NEW i \in S, ops[i].op = "Add"
      PROVE  /\ add_id(c, ops, S, i) \in Nat
             /\ c.next_holder_htlc_id <= add_id(c, ops, S, i)
             /\ add_id(c, ops, S, i) < apply_ops(c, ops, S).next_holder_htlc_id
             /\ \A j \in S : ops[j].op = "Add" /\ i < j =>
                  add_id(c, ops, S, i) < add_id(c, ops, S, j)
  <2>1. add_id(c, ops, S, i) = c.next_holder_htlc_id + Cardinality(before(i))
    BY DEF add_id
  <2>2. adds \in SUBSET S /\ before(i) \in SUBSET adds /\ i \in adds /\ i \notin before(i)
    BY <1>1, <1>7
  <2>3. Cardinality(before(i)) \in Nat /\ Cardinality(before(i)) < Cardinality(adds)
    <3> HIDE DEF adds, before
    <3> QED
      BY <1>4, <2>2
  <2>4. ASSUME NEW j \in S, ops[j].op = "Add", i < j
        PROVE  add_id(c, ops, S, i) < add_id(c, ops, S, j)
    <3>1. before(j) \in SUBSET S /\ before(i) \in SUBSET before(j) /\ i \in before(j)
          /\ i \notin before(i)
      BY <1>1, <1>7, <2>4
    <3>2. add_id(c, ops, S, j) = c.next_holder_htlc_id + Cardinality(before(j))
      BY DEF add_id
    <3> HIDE DEF before
    <3>3. Cardinality(before(j)) \in Nat /\ Cardinality(before(i)) < Cardinality(before(j))
      BY <1>4, <3>1
    <3> QED
      BY <1>3, <2>1, <2>3, <3>2, <3>3
  <2> HIDE DEF before, adds
  <2> QED
    BY <1>3, <1>5, <1>6, <2>1, <2>3, <2>4
<1>8. c.next_holder_htlc_id <= apply_ops(c, ops, S).next_holder_htlc_id
  <2> HIDE DEF adds
  <2> QED
    BY <1>3, <1>5, <1>6
<1> HIDE DEF before, adds
<1> QED
  BY <1>7, <1>8 DEF ids_ascend

\* The channel keeps its type through a revoke_and_ack.
LEMMA RevocationTypes ==
  ASSUME NEW c \in Channel, NEW x \in PendingCommitment
  PROVE  lock_counterparty_side(c, x) \in Channel /\ after_revocation(c, x) \in Channel
  BY LockCounterpartyType, CollectType DEF after_revocation

\* The messages of a flush.
LEMMA FlushMessages ==
  ASSUME NEW c \in Channel, NEW ops \in Seq(Op), NEW S \in SUBSET DOMAIN ops,
         NEW order \in ascending(S)
  PROVE  in_order(c, ops, S, order)
<1> DEFINE u == messages(c, ops, S, order)
<1>1. Len(ops) \in Nat /\ DOMAIN ops = 1..Len(ops) /\ S \subseteq 1..Len(ops)
  BY LenProperties
<1>2. IsFiniteSet(1..Len(ops))
  BY <1>1, FS_Interval
<1>3. IsFiniteSet(S)
  BY <1>1, <1>2, FS_Subset
<1>4. Cardinality(S) \in Nat
  BY <1>3, FS_CardinalityType
<1>5. /\ order \in [1..Cardinality(S) -> S]
      /\ \A i, j \in 1..Cardinality(S) : i < j => order[i] < order[j]
  BY DEF ascending
<1>6. \A i \in S : update_message(c, ops, S, i) \in Message
  BY ApplyOpsType
<1>7. u \in [1..Cardinality(S) -> Message]
  BY <1>5, <1>6 DEF messages
<1>8. u \in Seq(Message) /\ Len(u) = Cardinality(S)
  BY <1>4, <1>7
<1>9. \A k \in 1..Len(u) : order[k] \in S /\ u[k] = update_message(c, ops, S, order[k])
  BY <1>5, <1>8 DEF messages
<1>10. order \in Injection(1..Cardinality(S), S)
  <2> SUFFICES ASSUME NEW i \in 1..Cardinality(S), NEW j \in 1..Cardinality(S), order[i] = order[j]
               PROVE  i = j
    BY <1>5 DEF Injection, IsInjective
  <2>1. i \in Nat /\ j \in Nat /\ order[i] \in Nat /\ order[j] \in Nat
    BY <1>1, <1>4, <1>5
  <2> QED
    BY <1>5, <2>1
<1>11. IsFiniteSet(1..Cardinality(S)) /\ Cardinality(1..Cardinality(S)) = Cardinality(S)
  BY <1>4, FS_Interval
<1>12. order \in Surjection(1..Cardinality(S), S)
  BY <1>3, <1>10, <1>11, FS_Injection
<1>13. \A i \in S : \E k \in 1..Len(u) : order[k] = i
  BY <1>8, <1>12 DEF Surjection
<1> HIDE DEF u
<1> QED
  BY <1>4, <1>5, <1>8, <1>9, <1>13 DEF u, in_order

LEMMA OperatorsTyped == OperatorTypes
<1>1. \A c \in Channel, ops \in Seq(Op) : \A S \in SUBSET DOMAIN ops :
        /\ apply_ops(c, ops, S) \in Channel
        /\ \A i \in S : update_message(c, ops, S, i) \in Message
  BY ApplyOpsType
<1>2. \A c \in Channel, ops \in Seq(Op) : \A S \in SUBSET DOMAIN ops : ids_ascend(c, ops, S)
  BY AddIds
<1>3. \A c \in Channel, ops \in Seq(Op) : \A S \in SUBSET DOMAIN ops :
        \A order \in ascending(S) : in_order(c, ops, S, order)
  BY FlushMessages
<1>4. \A c \in Channel : lock_holder_side(c) \in Channel
  BY LockHolderType
<1>5. \A c \in Channel, x \in PendingCommitment :
        lock_counterparty_side(c, x) \in Channel /\ after_revocation(c, x) \in Channel
  BY RevocationTypes
<1>6. \A c \in Channel, n \in Party, k \in Nat, pt \in Nat :
        /\ pending_commitment(n, c, k, pt) \in PendingCommitment
        /\ commitment_signed(pending_commitment(n, c, k, pt)) \in Message
        /\ pending_commitment(n, c, k, pt).info.number = k
  BY PendingType
<1> QED
  BY <1>1, <1>2, <1>3, <1>4, <1>5, <1>6 DEF OperatorTypes

=============================================================================
