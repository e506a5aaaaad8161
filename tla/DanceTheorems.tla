--------------------------- MODULE DanceTheorems ---------------------------
(***************************************************************************)
(* The theorems about the commitment dance of ChannelDance, and about the  *)
(* monitors of ChannelMonitor that watch it, for every value of the        *)
(* constants: the inductive steps of the other proof modules put together. *)
(***************************************************************************)
EXTENDS ChannelMonitor, ChannelDanceProofs, RevocationProofs, HtlcProofs

-----------------------------------------------------------------------------
(* The exchange of signatures and revocations. *)

\* What a revoke_and_ack with the secret that is waited for does.
LEMMA Acknowledges ==
  TypeOK /\ PendingKnown => \A n \in Party : on_revoke_and_ack(n) => acknowledges(n)
<1> SUFFICES ASSUME TypeOK, PendingKnown, NEW n \in Party, on_revoke_and_ack(n),
                    awaiting_raa[n], message(n).secret = counterparty_current_point[n],
                    message(n).secret = counterparty_commitment_number[n]
             PROVE  \E d \in Channel, updates \in Seq(Message), signs \in BOOLEAN,
                       acked \in PendingCommitment, pending \in PendingCommitment :
                      raa_effect(n, d, updates, signs, acked, pending)
  BY Zenon DEF acknowledges
<1> QED
  BY RevokeAndAckStep, Zenon

\* Every step keeps the revocations and the records in order.
LEMMA NextDance ==
  TypeOK /\ PendingKnown /\ RevocationInv /\ [Next]_vars
    => RevocationInv' /\ (RecordInv => RecordInv')
<1> SUFFICES ASSUME TypeOK, PendingKnown, RevocationInv, [Next]_vars
             PROVE  RevocationInv' /\ (RecordInv => RecordInv')
  OBVIOUS
<1>1. OperatorTypes /\ \A n \in Party : on_revoke_and_ack(n) => acknowledges(n)
  BY OperatorsTyped, Acknowledges, Zenon
<1>2. RevocationInv'
  BY <1>1, NextRevocation, Zenon
<1>3. ASSUME RecordInv PROVE RecordInv'
  BY <1>1, <1>3, NextRecord, Zenon
<1> QED
  BY <1>2, <1>3, Zenon

\* In each direction there is at most one commitment_signed or revoke_and_ack
\* under way, and exactly while the signer waits (awaiting_raa), for any number
\* of payments, any limits and any interleaving.
THEOREM RevocationInvariant == Spec => []RevocationInv
<1>1. Spec => [](TypeOK /\ PendingKnown)
  BY InitType, NextType, PTL DEF Spec
<1> QED
  BY <1>1, InitRevocation, NextDance, PTL DEF Spec

\* The commitment numbers and points of the two parties move in lockstep.
THEOREM CommitmentsInLockstep == Spec => []Lockstep
<1>1. RevocationInv => Lockstep
  BY PeerOf DEF RevocationInv, Lockstep, exchange, points_fit
<1> QED
  BY <1>1, RevocationInvariant, PTL

\* on_revoke_and_ack never refuses the revocation of a party running this code.
THEOREM RevocationsAreAccepted == Spec => []RevocationsAccepted
<1>1. RevocationInv => RevocationsAccepted
  BY DEF RevocationInv
<1> QED
  BY <1>1, RevocationInvariant, PTL

\* The records follow the exchange.
LEMMA RecordInvariant == Spec => [](TypeOK /\ PendingKnown /\ RevocationInv /\ RecordInv)
<1>1. Init => TypeOK /\ PendingKnown /\ RevocationInv /\ RecordInv
  BY InitType, InitRevocation, InitRecord, Zenon
<1>2. TypeOK /\ PendingKnown /\ RevocationInv /\ RecordInv /\ [Next]_vars
        => (TypeOK /\ PendingKnown /\ RevocationInv /\ RecordInv)'
  BY NextType, NextDance, Zenon
<1> QED
  BY <1>1, <1>2, PTL DEF Spec

\* Whatever commitment a party can broadcast, its peer has on record and unrevoked, for
\* any payments, limits and fees and any crossing of updates, signatures and revocations.
THEOREM CommitmentsAreOnRecord == Spec => []PublishableIsOnRecord
  BY RecordInvariant, RecordPublishable, PTL

-----------------------------------------------------------------------------
(* HTLCs. *)

\* Every step keeps the HTLCs sound.
LEMMA NextHtlcs ==
  TypeOK /\ TypeOK' /\ PendingKnown /\ RecordInv /\ HtlcInv /\ [Next]_vars => HtlcInv'
<1> SUFFICES ASSUME TypeOK, TypeOK', PendingKnown, RecordInv, HtlcInv, [Next]_vars PROVE HtlcInv'
  OBVIOUS
<1>0. OperatorTypes
  BY OperatorsTyped
<1>1. CASE UNCHANGED vars
  <2>1. /\ UNCHANGED <<chan, current_holder_commitment, current_counterparty_commitment>>
        /\ UNCHANGED <<pending_counterparty_commitment, net, outcome>>
    BY <1>1 DEF vars, commitmentVars
  <2>2. \A n \in Party : htlcs_hold(n)'
    BY <2>1, IdleParty, Zenon DEF HtlcInv
  <2>3. \A p \in Payment : net_quiet(p) /\ chan_quiet(p)
    BY <2>1 DEF net_quiet, chan_quiet
  <2> QED
    BY <2>2, <2>3, QuietOffer DEF HtlcInv
<1>2. ASSUME NEW n \in Party, NEW p \in Payment, send_add_htlc(n, p) PROVE HtlcInv'
  BY <1>0, <1>2, SendAddHtlcs
<1>3. ASSUME NEW n \in Party, NEW h \in chan[n].htlcs, NEW r \in Resolutions,
             send_resolve_htlc(n, h, r)
      PROVE  HtlcInv'
  BY <1>0, <1>3, SendResolveHtlcs
<1>4. ASSUME NEW n \in Party, NEW f \in Feerate, send_update_fee(n, f) PROVE HtlcInv'
  BY <1>4, SendFeeHtlcs, Zenon
<1>5. ASSUME NEW n \in Party,
             \/ send_commitment_signed(n) \/ on_update_add_htlc(n) \/ on_update_remove_htlc(n)
             \/ on_update_fee(n) \/ on_commitment_signed(n) \/ on_revoke_and_ack(n)
      PROVE  HtlcInv'
  <2>1. CASE on_revoke_and_ack(n)
    BY <1>0, <2>1, Acknowledges, ReadRevocationHtlcs, Zenon
  <2> QED
    BY <1>0, <1>5, <2>1, SignHtlcs, ReadAddHtlcs, ReadRemoveHtlcs, ReadFeeHtlcs,
       ReadSignatureHtlcs, Zenon
<1> QED
  BY <1>1, <1>2, <1>3, <1>4, <1>5 DEF Next

\* The HTLCs of both parties stay well formed and on the commitments they are committed to.
LEMMA HtlcInvariant ==
  Spec => [](TypeOK /\ PendingKnown /\ RevocationInv /\ RecordInv /\ HtlcInv)
<1>1. Init => HtlcInv
  BY InitHtlcs
<1>2. TypeOK /\ TypeOK' /\ PendingKnown /\ RecordInv /\ HtlcInv /\ [Next]_vars => HtlcInv'
  BY NextHtlcs
<1> QED
  BY <1>1, <1>2, RecordInvariant, PTL DEF Spec

\* A processed payment that is not resolved is on every commitment in force.
LEMMA HtlcIrrevocable ==
  TypeOK /\ PublishableIsOnRecord /\ HtlcInv => ForwardableIsIrrevocable
<1> SUFFICES ASSUME TypeOK, PublishableIsOnRecord, HtlcInv,
                    NEW n \in Party, NEW h \in chan[n].htlcs,
                    ~h.outbound, h.processed, h.resolution = None
             PROVE  /\ [offered |-> FALSE, payment |-> h.payment]
                         \in current_holder_commitment[n].htlcs
                    /\ \A k \in unrevoked(n) \cup {current_holder_commitment[Peer(n)]} :
                         [offered |-> TRUE, payment |-> h.payment] \in k.htlcs
  BY DEF ForwardableIsIrrevocable
<1>1. htlcs_hold(n) /\ sound(n, chan[n]) /\ h \in Htlc /\ well_phased(n, h)
  BY DEF HtlcInv, htlcs_hold, sound, TypeOK, Channel
<1>2. h.phase_holder = "Committed" /\ h.phase_counterparty = "Committed"
  <2>1. near(h) = h.phase_counterparty /\ far(h) = h.phase_holder
    BY <1>1 DEF near, far, phase_on, Htlc
  <2>2. h.phase_holder \in Phase /\ h.phase_counterparty \in Phase
    BY <1>1 DEF Htlc
  <2>3. ~\E r \in HtlcResolution : h.resolution = Some(r)
    BY DEF Some, None
  <2> QED
    BY <1>1, <2>1, <2>2, <2>3 DEF well_phased, Phase
<1>3. /\ htlc_in_commitment(h, TRUE) = [offered |-> FALSE, payment |-> h.payment]
      /\ htlc_in_commitment(h, FALSE) = [offered |-> TRUE, payment |-> h.payment]
  BY <1>1, Zenon DEF htlc_in_commitment, Htlc
<1>4. current_holder_commitment[Peer(n)] \in unrevoked(n)
  BY PeerType DEF PublishableIsOnRecord
<1> QED
  BY <1>1, <1>2, <1>3, <1>4, Zenon DEF htlcs_hold, on_holder, on_counterparty

\* A payment that the payee forwards or fulfils is on both parties' commitments, on every
\* one that could be broadcast, until the payee resolves it: for any payments, limits and
\* fees and any crossing of updates, signatures and revocations.
THEOREM ForwardedIsIrrevocable == Spec => []ForwardableIsIrrevocable
<1>1. TypeOK /\ PendingKnown /\ RevocationInv /\ RecordInv => PublishableIsOnRecord
  BY RecordPublishable, Zenon
<1>2. TypeOK /\ PublishableIsOnRecord /\ HtlcInv => ForwardableIsIrrevocable
  BY HtlcIrrevocable, Zenon
<1> QED
  BY <1>1, <1>2, HtlcInvariant, PTL

-----------------------------------------------------------------------------
(* The monitors. *)

\* Numbers are ordered.
LEMMA InOrder ==
  \A a, b, c \in Nat : /\ a <= a /\ a <= a + 1 /\ a + 1 \in Nat
                       /\ a <= b /\ b <= c => a <= c
  OBVIOUS

\* What the monitors rely on in the channels they watch.
DanceInv == TypeOK /\ PendingKnown /\ RevocationInv /\ RecordInv

\* A stored monitor has no more secrets than the channel has received since, and the
\* spend, once there, is a party's.
MonitorInv ==
  /\ disk = [n \in Party |-> disk[n]]
  /\ \A n \in Party : disk[n][2] \in Nat /\ disk[n][2] <= counterparty_commitment_number[n]
  /\ \A s \in spend : s.owner \in Party

\* A channel never loses a secret it has received.
LEMMA SecretsAreKept ==
  ASSUME TypeOK, PendingKnown, RevocationInv, [Next]_vars, NEW n \in Party
  PROVE  /\ counterparty_commitment_number[n] \in Nat
         /\ counterparty_commitment_number'[n] \in Nat
         /\ counterparty_commitment_number[n] <= counterparty_commitment_number'[n]
<1>1. counterparty_commitment_number[n] \in Nat
  BY DEF TypeOK
<1>2. CASE UNCHANGED counterparty_commitment_number
  BY <1>1, <1>2, InOrder, Zenon
<1>3. CASE UNCHANGED vars
  BY <1>2, <1>3 DEF vars, commitmentVars
<1>4. ASSUME NEW m \in Party,
             \/ \E p \in Payment : send_add_htlc(m, p)
             \/ \E h \in chan[m].htlcs, r \in Resolutions : send_resolve_htlc(m, h, r)
             \/ \E f \in Feerate : send_update_fee(m, f)
             \/ on_update_add_htlc(m) \/ on_update_remove_htlc(m) \/ on_update_fee(m)
      PROVE  UNCHANGED counterparty_commitment_number
  BY <1>4, OperatorsTyped, UpdateActions, Zenon DEF update_only, commitmentVars
<1>5. ASSUME NEW m \in Party, send_commitment_signed(m)
      PROVE  UNCHANGED counterparty_commitment_number
  BY <1>5, Zenon DEF send_commitment_signed
<1>6. ASSUME NEW m \in Party, on_commitment_signed(m)
      PROVE  UNCHANGED counterparty_commitment_number
  BY <1>6, Zenon DEF on_commitment_signed, close, commitmentVars
<1>7. ASSUME NEW m \in Party, on_revoke_and_ack(m)
      PROVE  counterparty_commitment_number' =
               [counterparty_commitment_number EXCEPT ![m] = counterparty_commitment_number[m] + 1]
  <2>1. /\ awaiting_raa[m]
        /\ message(m).secret = counterparty_current_point[m]
        /\ message(m).secret = counterparty_commitment_number[m]
    BY <1>7, RevocationAwaited, Zenon DEF on_revoke_and_ack
  <2>2. PICK d \in Channel, updates \in Seq(Message), signs \in BOOLEAN,
             acked \in PendingCommitment, pending \in PendingCommitment :
           raa_effect(m, d, updates, signs, acked, pending)
    BY <1>7, <2>1, RevokeAndAckStep, Zenon
  <2> QED
    BY <2>2, Zenon DEF raa_effect
<1>8. CASE \E m \in Party : on_revoke_and_ack(m)
  <2>1. PICK m \in Party : on_revoke_and_ack(m)
    BY <1>8
  <2>2. counterparty_commitment_number' =
          [counterparty_commitment_number EXCEPT ![m] = counterparty_commitment_number[m] + 1]
    BY <1>7, <2>1
  <2>3. counterparty_commitment_number \in [Party -> Nat]
    BY DEF TypeOK
  <2> QED
    BY <2>2, <2>3, InOrder, Zenon
<1> QED
  BY <1>2, <1>3, <1>4, <1>5, <1>6, <1>8, Zenon DEF Next

\* What the stored form of a snapshot holds.
LEMMA SnapshotContent ==
  ASSUME NEW n
  PROVE  /\ snapshot(n)[2] = counterparty_commitment_number[n]
         /\ deserialize(snapshot(n)).revoked = counterparty_commitment_number[n]
         /\ deserialize(snapshot(n)).counterparty_current = {current_counterparty_commitment[n]}
<1> DEFINE P == learned(n)
           m == add_preimages(from_channel(n), P)
<1>1. /\ m.revoked = counterparty_commitment_number[n]
      /\ m.counterparty_current = {current_counterparty_commitment[n]}
  BY DEF add_preimages, from_channel, Some
<1>2. snapshot(n) = <<Version, m.revoked, m.counterparty_current, m.holder_commitment,
                      SetToSeq(m.preimages)>>
  BY DEF snapshot, serialize
<1> HIDE DEF m
<1> QED
  BY <1>1, <1>2 DEF deserialize

\* The monitors start with a snapshot of the open channel.
LEMMA InitMonitor == MonitorInit => MonitorInv
<1> SUFFICES ASSUME MonitorInit PROVE MonitorInv
  OBVIOUS
<1>1. TypeOK
  BY InitType DEF MonitorInit
<1>2. disk = [n \in Party |-> snapshot(n)] /\ spend = {}
  BY DEF MonitorInit, None
<1>3. \A n \in Party : disk[n][2] = counterparty_commitment_number[n]
  BY <1>2, SnapshotContent
<1>4. \A n \in Party : counterparty_commitment_number[n] \in Nat
  BY <1>1, Zenon DEF TypeOK
<1>5. \A n \in Party : disk[n][2] \in Nat /\ disk[n][2] <= counterparty_commitment_number[n]
  BY <1>3, <1>4, InOrder, Zenon
<1>6. disk = [n \in Party |-> disk[n]]
  BY <1>2
<1> QED
  BY <1>2, <1>5, <1>6 DEF MonitorInv

\* Every step of the channel, of the store and of the chain keeps MonitorInv.
LEMMA NextMonitor ==
  DanceInv /\ MonitorInv /\ [MonitorNext]_allVars => MonitorInv'
<1> SUFFICES ASSUME DanceInv, MonitorInv, [MonitorNext]_allVars PROVE MonitorInv'
  OBVIOUS
<1>1. CASE UNCHANGED allVars
  BY <1>1 DEF allVars, monitorVars, vars, commitmentVars, MonitorInv
<1>2. CASE Dance
  <2>1. UNCHANGED <<disk, spend>> /\ [Next]_vars
    BY <1>2 DEF Dance
  <2>2. ASSUME NEW n \in Party
        PROVE  disk[n][2] <= counterparty_commitment_number'[n]
    <3>1. /\ counterparty_commitment_number[n] \in Nat /\ counterparty_commitment_number'[n] \in Nat
          /\ counterparty_commitment_number[n] <= counterparty_commitment_number'[n]
      BY <2>1, SecretsAreKept, Zenon DEF DanceInv
    <3>2. disk[n][2] \in Nat /\ disk[n][2] <= counterparty_commitment_number[n]
      BY DEF MonitorInv
    <3> QED
      BY <3>1, <3>2, InOrder, Zenon
  <2> QED
    BY <2>1, <2>2, Zenon DEF MonitorInv
<1>3. ASSUME NEW m \in Party, Store(m) PROVE MonitorInv'
  <2>1. disk' = [disk EXCEPT ![m] = snapshot(m)] /\ UNCHANGED <<vars, spend>>
    BY <1>3 DEF Store
  <2>2. disk = [n \in Party |-> disk[n]]
    BY DEF MonitorInv
  <2>3. disk'[m] = snapshot(m) /\ \A n \in Party : n # m => disk'[n] = disk[n]
    BY <2>1, <2>2, Zenon
  <2>4. disk' = [n \in Party |-> disk'[n]]
    BY <2>1, <2>2
  <2>5. counterparty_commitment_number[m] \in Nat
    BY DEF DanceInv, TypeOK
  <2>6. disk'[m][2] \in Nat /\ disk'[m][2] <= counterparty_commitment_number[m]
    BY <2>3, <2>5, SnapshotContent, InOrder, Zenon
  <2>7. \A n \in Party : disk'[n][2] \in Nat /\ disk'[n][2] <= counterparty_commitment_number[n]
    BY <2>3, <2>6, Zenon DEF MonitorInv
  <2> QED
    BY <2>1, <2>4, <2>7, Zenon DEF MonitorInv, vars, commitmentVars
<1>4. ASSUME NEW m \in Party, force_close(m) PROVE MonitorInv'
  BY <1>4 DEF force_close, MonitorInv, vars, commitmentVars
<1>5. ASSUME NEW m \in Party, Confirm(m) PROVE MonitorInv'
  <2>1. PICK tx : spend' = {[owner |-> m, tx |-> tx, commitment |-> TRUE]}
    BY <1>5 DEF Confirm, Some
  <2>2. \A s \in spend' : s.owner \in Party
    BY <2>1
  <2> QED
    BY <1>5, <2>2, Zenon DEF Confirm, MonitorInv, vars, commitmentVars
<1>6. CASE ConfirmClosing
  <2>1. spend' = {[owner |-> "opener", tx |-> current_holder_commitment["opener"],
                   commitment |-> FALSE]}
    BY <1>6 DEF ConfirmClosing, Some
  <2>2. \A s \in spend' : s.owner \in Party
    BY <2>1 DEF Party
  <2> QED
    BY <1>6, <2>2, Zenon DEF ConfirmClosing, MonitorInv, vars, commitmentVars
<1> QED
  BY <1>1, <1>2, <1>3, <1>4, <1>5, <1>6, Zenon DEF MonitorNext

\* The channels behave as the dance allows, watched or not.
LEMMA MonitorInvariant == MonitorSpec => [](DanceInv /\ MonitorInv)
<1>1. MonitorInit => DanceInv /\ MonitorInv
  BY InitType, InitRevocation, InitRecord, InitMonitor, Zenon DEF MonitorInit, DanceInv
<1>2. [MonitorNext]_allVars => [Next]_vars
  BY DEF MonitorNext, allVars, Dance, Store, force_close, Confirm, ConfirmClosing
<1>3. DanceInv /\ [Next]_vars => DanceInv'
  BY NextType, NextDance, Zenon DEF DanceInv
<1> QED
  BY <1>1, <1>2, <1>3, NextMonitor, PTL DEF MonitorSpec

\* A commitment in force has a number for which no monitor holds the secret.
LEMMA InForceIsNotRevealed ==
  ASSUME DanceInv, MonitorInv, NEW n \in Party
  PROVE  ~revealed(monitor(n), current_holder_commitment[Peer(n)].number)
<1>1. /\ disk[n][2] \in Nat /\ counterparty_commitment_number[n] \in Nat
      /\ disk[n][2] <= counterparty_commitment_number[n]
  BY DEF DanceInv, TypeOK, MonitorInv
<1>2. /\ holder_commitment_number[Peer(n)] \in Nat
      /\ counterparty_commitment_number[n] <= holder_commitment_number[Peer(n)]
  <2>1. holder_commitment_number[Peer(n)] \in Nat
    BY PeerType, Zenon DEF DanceInv, TypeOK
  <2>2. exchange(n)
    BY DEF DanceInv, RevocationInv
  <2> QED
    BY <1>1, <2>1, <2>2, InOrder, Zenon DEF exchange
<1>3. current_holder_commitment[Peer(n)].number = holder_commitment_number[Peer(n)]
  BY PeerType, Zenon DEF DanceInv, RevocationInv
<1>4. monitor(n).revoked = disk[n][2]
  BY DEF monitor, deserialize
<1> QED
  BY <1>1, <1>2, <1>3, <1>4 DEF revealed

\* No monitor, however old, takes a commitment that is still in force for a revoked
\* one: the secrets it stored are of commitments before the one the peer holds.
THEOREM InForceIsNeverPunished == MonitorSpec => []NeverPunishesUnrevoked
<1>1. DanceInv /\ MonitorInv => NeverPunishesUnrevoked
  <2> SUFFICES ASSUME DanceInv, MonitorInv, NEW s \in spend,
                      classify(Peer(s.owner), monitor(Peer(s.owner)), s) = "CounterpartyRevoked",
                      s.tx = current_holder_commitment[s.owner]
               PROVE  FALSE
    BY DEF NeverPunishesUnrevoked
  <2> DEFINE n == Peer(s.owner)
  <2>1. n \in Party /\ Peer(n) = s.owner
    BY PeerType, Zenon DEF MonitorInv
  <2>2. ~revealed(monitor(n), s.tx.number)
    BY <2>1, InForceIsNotRevealed
  <2> HIDE DEF n
  <2> QED
    BY <2>2 DEF classify, n
<1> QED
  BY <1>1, MonitorInvariant, PTL

\* With an up-to-date monitor every commitment that the peer has revoked, however old,
\* is recognised, and its balance and the HTLCs still in force are claimed.
THEOREM RevokedIsAlwaysPunished == MonitorSpec => []RevokedIsPunished
<1>1. DanceInv /\ MonitorInv => RevokedIsPunished
  <2> SUFFICES ASSUME DanceInv, MonitorInv, NEW s \in spend,
                      s.commitment, fresh(Peer(s.owner)),
                      s.tx.number < counterparty_commitment_number[Peer(s.owner)]
               PROVE  LET n == Peer(s.owner) IN
                      /\ classify(n, monitor(n), s) = "CounterpartyRevoked"
                      /\ to_broadcaster(s.tx)
                           \cup (s.tx.htlcs \cap current_counterparty_commitment[n].htlcs)
                           \subseteq handle_funding_spend(n, s)
    BY DEF RevokedIsPunished
  <2> DEFINE n == Peer(s.owner)
             m == monitor(n)
             current == current_counterparty_commitment[n]
  <2>1. s.owner \in Party /\ n \in Party /\ n # s.owner /\ Peer(n) = s.owner
    BY PeerType, Zenon DEF MonitorInv
  <2>2. m.revoked = counterparty_commitment_number[n] /\ m.counterparty_current = {current}
    BY SnapshotContent, Zenon DEF fresh, monitor
  <2>3. current.number = counterparty_commitment_number[n]
        /\ counterparty_commitment_number[n] \in Nat
    BY <2>1, Zenon DEF DanceInv, RecordInv, record_numbers, TypeOK
  <2>4. s.tx.number < counterparty_commitment_number[n]
    OBVIOUS
  <2> HIDE DEF n, m, current
  <2>5. s.tx \notin m.counterparty_current /\ revealed(m, s.tx.number)
    BY <2>2, <2>3, <2>4 DEF revealed
  <2>6. classify(n, m, s) = "CounterpartyRevoked"
    BY <2>1, <2>5 DEF classify
  <2>7. handle_funding_spend(n, s) = punish_revoked(n, m, s)
    BY <2>6, Zenon DEF handle_funding_spend, m
  <2>8. to_broadcaster(s.tx) \cup (s.tx.htlcs \cap current.htlcs) \subseteq punish_revoked(n, m, s)
    BY <2>1, <2>2 DEF punish_revoked
  <2> QED
    BY <2>6, <2>7, <2>8 DEF n, m, current
<1> QED
  BY <1>1, MonitorInvariant, PTL
=============================================================================
