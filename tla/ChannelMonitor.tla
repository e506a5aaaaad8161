--------------------------- MODULE ChannelMonitor ---------------------------
(***************************************************************************)
(* On-chain enforcement (chain/monitor.rs, chain/persist.rs) composed with *)
(* the commitment dance: a snapshot of the channel is stored at some       *)
(* moments, and a spend of the funding output is confirmed at any other.   *)
(* Each party watches the channel with what it stored last.                *)
(*                                                                         *)
(* The embedder, outside the repository, decides when to store and hands   *)
(* the spend over; a party may publish any commitment it ever held a       *)
(* signature for, an old one from an outdated backup for example.          *)
(* Transactions are commitments of the dance, a script is the output it    *)
(* guards, and fees and dust are left out.                                 *)
(***************************************************************************)
EXTENDS ChannelDance, SequencesExt

CONSTANTS
  Watchers,   \* the parties whose monitors are followed
  Closers,    \* the parties that may call force_close
  Backups     \* whether a party may publish any commitment it ever held

ASSUME MonitorAssumption ==
  Watchers \subseteq Party /\ Closers \subseteq Party /\ Backups \in BOOLEAN

VARIABLES
  disk,      \* disk[n]: the monitor that n stored last, serialized
  history,   \* history[n]: every commitment of its own that n had signed by its peer
  forced,    \* forced[n]: the commitment n handed over for broadcast, if any
  spend      \* the confirmed spend of the funding output, if any

monitorVars == <<disk, history, forced, spend>>
allVars == <<vars, monitorVars>>

-----------------------------------------------------------------------------
(* The snapshot and its stored form. *)

\* counterparty_secrets are those of the peer's commitments before `revoked`.
from_channel(n) ==
  [revoked |-> counterparty_commitment_number[n],
   counterparty_current |-> Some(current_counterparty_commitment[n]),
   holder_commitment |-> Some(current_holder_commitment[n]),
   preimages |-> {}]

\* Preimages that n has used to fulfil an inbound HTLC it still has.
learned(n) ==
  {h.payment : h \in {x \in chan[n].htlcs :
     /\ ~x.outbound
     /\ \/ x.resolution = Some("Fulfill")
        \/ \E i \in DOMAIN chan[n].holding_cell :
             chan[n].holding_cell[i] = Resolve(x.id, "Fulfill")}}

add_preimages(m, P) == [m EXCEPT !.preimages = @ \cup P]

Version == 1

\* Mutant of serialize: the preimages are left out.
serialize_no_preimages(m) ==
  <<Version, m.revoked, m.counterparty_current, m.holder_commitment, <<>>>>

serialize(m) ==
  <<Version, m.revoked, m.counterparty_current, m.holder_commitment, SetToSeq(m.preimages)>>

deserialize(blob) ==
  [revoked |-> blob[2], counterparty_current |-> blob[3], holder_commitment |-> blob[4],
   preimages |-> ToSet(blob[5])]

monitor(n) == deserialize(disk[n])

-----------------------------------------------------------------------------
(* What a confirmed spend is, and what to do about it. *)

\* Mutant of revealed: any stored secret is taken to derive the one looked up.
revealed_unchecked(m, number) == m.revoked > 0

\* counterparty_secrets has the secret of the peer's commitment `number`.
revealed(m, number) == number < m.revoked

\* Our own commitments and the peer's are told apart by their txids; an old one only
\* by its number, in which the two parties' commitments look alike.
classify(n, m, s) ==
  CASE s.commitment /\ s.owner = n /\ s.tx \in m.holder_commitment -> "HolderCommitment"
    [] s.commitment /\ s.owner = Peer(n) /\ s.tx \in m.counterparty_current -> "CounterpartyCurrent"
    [] OTHER -> CASE ~s.commitment -> "CooperativeClose"
                  [] s.commitment /\ revealed(m, s.tx.number) -> "CounterpartyRevoked"
                  [] OTHER -> "UnknownCommitment"

\* The outputs of a commitment: its balances, where there are any, and its HTLCs.
to_broadcaster(tx) == IF tx.to_broadcaster > 0 THEN {[pays |-> "broadcaster"]} ELSE {}
to_countersignatory(tx) == IF tx.to_countersignatory > 0 THEN {[pays |-> "countersignatory"]} ELSE {}

\* Mutant of punish_revoked: the balance is left to the peer.
punish_htlcs_only(n, m, s) ==
  {h \in s.tx.htlcs : \E cp \in m.counterparty_current : h \in cp.htlcs}

\* The revocable outputs whose scripts can be rebuilt: the balance, and the HTLCs, in
\* either direction, that the current commitment still has.
punish_revoked(n, m, s) ==
  IF s.owner = n THEN {}
  ELSE to_broadcaster(s.tx) \cup
       {h \in s.tx.htlcs : \E cp \in m.counterparty_current : \E k \in cp.htlcs :
                             k.payment = h.payment}

claim_counterparty_outputs(n, m, s) ==
  to_countersignatory(s.tx) \cup {h \in s.tx.htlcs : h.offered /\ h.payment \in m.preimages}

\* Offered HTLCs time out; received ones need the preimage.
claim_holder_outputs(n, m, s) ==
  to_broadcaster(s.tx) \cup {h \in s.tx.htlcs : h.offered \/ h.payment \in m.preimages}

\* The outputs of the spend that n's responses claim.
handle_funding_spend(n, s) ==
  LET m == monitor(n)
      class == classify(n, m, s)
  IN  CASE class = "CounterpartyRevoked" -> punish_revoked(n, m, s)
        [] class = "CounterpartyCurrent" -> claim_counterparty_outputs(n, m, s)
        [] class = "HolderCommitment" -> claim_holder_outputs(n, m, s)
        [] class \in {"CooperativeClose", "UnknownCommitment"} -> {}

-----------------------------------------------------------------------------
\* The channel goes on until a spend is confirmed, after force_close too.
Dance ==
  /\ spend = None
  /\ Next
  /\ history' = [n \in Party |-> history[n] \cup {current_holder_commitment'[n]}]
  /\ UNCHANGED <<disk, forced, spend>>

snapshot(n) == serialize(add_preimages(from_channel(n), learned(n)))

Store(n) ==
  /\ n \in Watchers /\ spend = None
  /\ disk' = [disk EXCEPT ![n] = snapshot(n)]
  /\ UNCHANGED <<vars, history, forced, spend>>

\* Called by the application, or on an error message of the peer.
force_close(n) ==
  /\ n \in Closers /\ spend = None /\ forced[n] = None
  /\ forced' = [forced EXCEPT ![n] = Some(current_holder_commitment[n])]
  /\ UNCHANGED <<vars, disk, history, spend>>

\* A commitment of n that n handed over, or an old one, is confirmed.
Confirm(n) ==
  /\ spend = None
  /\ \E tx \in forced[n] \cup (IF Backups THEN history[n] ELSE {}) :
       spend' = Some([owner |-> n, tx |-> tx, commitment |-> TRUE])
  /\ UNCHANGED <<vars, disk, history, forced>>

\* The closing transaction of a channel without HTLCs pays the balances in force.
ConfirmClosing ==
  /\ spend = None
  /\ \A n \in Party : chan[n].htlcs = {} /\ net[n] = <<>>
  /\ spend' = Some([owner |-> "opener", tx |-> current_holder_commitment["opener"],
                    commitment |-> FALSE])
  /\ UNCHANGED <<vars, disk, history, forced>>

MonitorInit ==
  /\ Init
  /\ disk = [n \in Party |-> snapshot(n)]
  /\ history = [n \in Party |-> {current_holder_commitment[n]}]
  /\ forced = [n \in Party |-> None]
  /\ spend = None

MonitorNext ==
  \/ Dance
  \/ \E n \in Party : Store(n) \/ force_close(n) \/ Confirm(n)
  \/ ConfirmClosing

MonitorSpec == MonitorInit /\ [][MonitorNext]_allVars

-----------------------------------------------------------------------------
(* Properties. *)

fresh(n) == disk[n] = snapshot(n)

value(tx, claims) ==
  (IF to_broadcaster(tx) \subseteq claims THEN tx.to_broadcaster ELSE 0)
    + (IF to_countersignatory(tx) \subseteq claims THEN tx.to_countersignatory ELSE 0)
    + total(claims \cap tx.htlcs)

\* With an up-to-date monitor, a commitment that the peer has revoked is recognised,
\* however old, and its balance and every HTLC that is still in force are taken.
RevokedIsPunished ==
  \A s \in spend :
    LET n == Peer(s.owner) IN
    s.commitment /\ fresh(n) /\ s.tx.number < counterparty_commitment_number[n] =>
      /\ classify(n, monitor(n), s) = "CounterpartyRevoked"
      /\ to_broadcaster(s.tx) \cup (s.tx.htlcs \cap current_counterparty_commitment[n].htlcs)
           \subseteq handle_funding_spend(n, s)

\* With a monitor of any age, no commitment that is still in force is punished: it
\* would cost the claims that the peer's legitimate close calls for.
NeverPunishesUnrevoked ==
  \A s \in spend :
    classify(Peer(s.owner), monitor(Peer(s.owner)), s) = "CounterpartyRevoked" =>
      s.tx # current_holder_commitment[s.owner]

\* When either party's commitment in force is confirmed and recognised, the claims are
\* worth what the channel says is ours: the settled balance and what we fulfilled,
\* less what we offered, whatever phases its HTLCs are in on the two sides.
WhatIsOursIsClaimed ==
  \A s \in spend : \A n \in Party :
    fresh(n) /\ classify(n, monitor(n), s) \in {"HolderCommitment", "CounterpartyCurrent"} =>
      value(s.tx, handle_funding_spend(n, s)) >=
        chan[n].to_holder_msat
          + total({h \in chan[n].htlcs : ~h.outbound /\ h.payment \in learned(n)})
          - total({h \in chan[n].htlcs : h.outbound})

\* An up-to-date monitor knows the peer's latest commitment, the one the peer would
\* publish.  from_channel leaves the commitment out that the peer has signed in but
\* not yet answered with its revocation.
LatestIsRecognised ==
  \A s \in spend :
    s.commitment /\ fresh(Peer(s.owner)) /\ s.tx = current_holder_commitment[s.owner] =>
      classify(Peer(s.owner), monitor(Peer(s.owner)), s) = "CounterpartyCurrent"

\* The justice transaction for the commitment before the current one takes all its
\* HTLC outputs.  Their scripts are rebuilt from the current HTLCs, and those that the
\* current commitment no longer has stay with the peer.
JusticeTakesEveryHtlc ==
  \A s \in spend :
    LET n == Peer(s.owner) IN
    s.commitment /\ fresh(n) /\ s.tx.number = counterparty_commitment_number[n] - 1 =>
      s.tx.htlcs \subseteq handle_funding_spend(n, s)

\* BOLT 5: HTLCs that we offered are taken back from the peer's commitment when they
\* time out.  claim_counterparty_outputs skips them.
OfferedHtlcsTimeOut ==
  \A s \in spend :
    LET n == Peer(s.owner) IN
    s.commitment /\ fresh(n) /\ s.tx = current_counterparty_commitment[n] =>
      \A h \in s.tx.htlcs : ~h.offered => h \in handle_funding_spend(n, s)

\* A commitment that was handed over for broadcast is not revoked afterwards.
\* force_close leaves the channel in operation.
BroadcastIsNotRevoked ==
  \A n \in Party : \A tx \in forced[n] : tx.number = holder_commitment_number[n]
=============================================================================
