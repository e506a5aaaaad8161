---------------------------- MODULE CommitmentTx ----------------------------
(***************************************************************************)
(* The construction of a commitment transaction and of the second-stage    *)
(* transactions that spend its HTLC outputs (commitment/mod.rs), by the    *)
(* two parties: the broadcaster and the one that signs for it.  They list  *)
(* the HTLCs in orders of their own, and the signatures of the one have to *)
(* fit what the other builds.                                              *)
(*                                                                         *)
(* One behaviour is one commitment.  A script is what it is made of; a     *)
(* hash stands for its place in the order of script_pubkeys, so the order  *)
(* is a parameter of the input.  A txid is the sequence of outputs.        *)
(***************************************************************************)
EXTENDS Integers, Sequences, FiniteSets, FiniteSetsExt, SequencesExt

COMMITMENT_TX_BASE_WEIGHT == 724
COMMITMENT_TX_WEIGHT_PER_HTLC == 172
HTLC_TIMEOUT_TX_WEIGHT == 663
HTLC_SUCCESS_TX_WEIGHT == 703

CONSTANT Inputs   \* what both parties agree on, and how the signer lists the HTLCs

VARIABLES
  input,    \* the commitment to build
  holder,   \* what the broadcaster built, if it has
  signer    \* what the other party built, if it has

vars == <<input, holder, signer>>

to_sat_floor(msat) == msat \div 1000
fee_for_weight(feerate, weight) == (feerate * weight) \div 1000
saturating_sub(x, y) == IF x >= y THEN x - y ELSE 0

-----------------------------------------------------------------------------
second_stage_fee(htlc, feerate) ==
  fee_for_weight(feerate, IF htlc.offered THEN HTLC_TIMEOUT_TX_WEIGHT ELSE HTLC_SUCCESS_TX_WEIGHT)

htlc_is_trimmed(htlc, feerate, dust_limit) ==
  to_sat_floor(htlc.amount_msat) < dust_limit + second_stage_fee(htlc, feerate)

\* The script of an offered HTLC does not hold its expiry, that of a received one does.
htlc_witness_script(htlc) ==
  [kind |-> IF htlc.offered THEN "offered" ELSE "received", payment_hash |-> htlc.payment_hash,
   cltv_expiry |-> IF htlc.offered THEN 0 ELSE htlc.cltv_expiry]
revocable_delayed == [kind |-> "to_local", payment_hash |-> 0, cltv_expiry |-> 0]
to_remote == [kind |-> "to_remote", payment_hash |-> 0, cltv_expiry |-> 0]

txout(value, script, cltv, origin) ==
  [value |-> value, script |-> script, cltv |-> cltv, origin |-> origin]

untrimmed(p, htlcs) ==
  {i \in DOMAIN htlcs : ~htlc_is_trimmed(htlcs[i], p.feerate, p.broadcaster_dust_limit_sat)}

base_fee(p, htlcs) ==
  fee_for_weight(p.feerate, COMMITMENT_TX_BASE_WEIGHT
                   + (COMMITMENT_TX_WEIGHT_PER_HTLC * Cardinality(untrimmed(p, htlcs))))

\* The party that opened the channel pays, as far as it can.
to_broadcaster_sat(p, htlcs) ==
  saturating_sub(to_sat_floor(p.to_broadcaster_msat),
                 IF p.broadcaster_pays_fee THEN base_fee(p, htlcs) ELSE 0)
to_countersignatory_sat(p, htlcs) ==
  saturating_sub(to_sat_floor(p.to_countersignatory_msat),
                 IF p.broadcaster_pays_fee THEN 0 ELSE base_fee(p, htlcs))

\* The outputs before they are sorted; an origin above zero is the place of an HTLC in
\* the list.
staged(p, htlcs) ==
  LET balance(value, script, origin) ==
        IF value >= p.broadcaster_dust_limit_sat THEN <<txout(value, script, 0, origin)>>
        ELSE <<>>
      kept == SetToSortSeq(untrimmed(p, htlcs), <)
  IN  balance(to_broadcaster_sat(p, htlcs), revocable_delayed, 0)
        \o balance(to_countersignatory_sat(p, htlcs), to_remote, -1)
        \o [k \in DOMAIN kept |-> LET h == htlcs[kept[k]] IN
              txout(to_sat_floor(h.amount_msat), htlc_witness_script(h), h.cltv_expiry, kept[k])]

\* Mutant of before: the expiry does not count.
before_without_cltv(p, s, j, i) ==
  LET a == s[j]
      b == s[i]
      rank(o) == p.script_order[o.script]
  IN  \/ a.value < b.value
      \/ a.value = b.value /\ rank(a) < rank(b)
      \/ a.value = b.value /\ rank(a) = rank(b) /\ j < i

\* By value, then by script, then by expiry; the sort is stable.
before(p, s, j, i) ==
  LET a == s[j]
      b == s[i]
      rank(o) == p.script_order[o.script]
      equal == a.value = b.value /\ rank(a) = rank(b)
  IN  \/ a.value < b.value
      \/ a.value = b.value /\ rank(a) < rank(b)
      \/ equal /\ a.cltv < b.cltv
      \/ equal /\ a.cltv = b.cltv /\ j < i

sorted(p, s) ==
  [k \in DOMAIN s |->
     s[CHOOSE i \in DOMAIN s : Cardinality({j \in DOMAIN s : before(p, s, j, i)}) = k - 1]]

index_of(p, s, i) == {k \in DOMAIN s : sorted(p, s)[k].origin = i}

build_commitment_tx(p, htlcs) ==
  LET s == staged(p, htlcs)
      out == sorted(p, s)
      ofHtlcs == SelectSeq(out, LAMBDA o : o.origin > 0)
  IN  [outputs |-> [k \in DOMAIN out |-> [value |-> out[k].value, script |-> out[k].script]],
       fee_sat |-> base_fee(p, htlcs),
       htlc_output_indices |-> [i \in DOMAIN htlcs |-> index_of(p, s, i)],
       htlcs_in_output_order |-> [k \in DOMAIN ofHtlcs |-> ofHtlcs[k].origin],
       to_broadcaster_index |-> index_of(p, s, 0),
       to_countersignatory_index |-> index_of(p, s, -1)]

build_htlc_tx(txid, vout, htlc, feerate) ==
  [previous_output |-> <<txid, vout>>, lock_time |-> IF htlc.offered THEN htlc.cltv_expiry ELSE 0,
   value |-> saturating_sub(to_sat_floor(htlc.amount_msat), second_stage_fee(htlc, feerate))]

\* What is signed, or verified, for the HTLCs, in the order of htlc_signatures: the
\* second-stage transaction with the script and the value it spends.
htlc_signatures(p, htlcs, built) ==
  [k \in DOMAIN built.htlcs_in_output_order |->
     LET i == built.htlcs_in_output_order[k]
         vout == CHOOSE v \in built.htlc_output_indices[i] : TRUE
     IN  [tx |-> build_htlc_tx(built.outputs, vout, htlcs[i], p.feerate),
          script |-> htlc_witness_script(htlcs[i]), value |-> to_sat_floor(htlcs[i].amount_msat)]]

-----------------------------------------------------------------------------
\* Each party appends its own HTLCs and the peer's as they come.
signer_htlcs(p) ==
  CASE p.listing = "same" -> p.htlcs
    [] p.listing = "reversed" -> Reverse(p.htlcs)
    [] p.listing = "rotated" -> IF p.htlcs = <<>> THEN <<>> ELSE Tail(p.htlcs) \o <<Head(p.htlcs)>>

signed(p, htlcs) ==
  LET built == build_commitment_tx(p, htlcs)
  IN  [built |-> built, htlc_signatures |-> htlc_signatures(p, htlcs, built)]

Init == input \in Inputs /\ holder = {} /\ signer = {}

Sign ==
  /\ signer = {} /\ signer' = {signed(input, signer_htlcs(input))}
  /\ UNCHANGED <<input, holder>>

Verify ==
  /\ signer # {} /\ holder = {} /\ holder' = {signed(input, input.htlcs)}
  /\ UNCHANGED <<input, signer>>

Next == Sign \/ Verify
Spec == Init /\ [][Next]_vars

-----------------------------------------------------------------------------
\* Both parties build the same transaction, and the signatures for the HTLCs come in the
\* order in which they are verified: also for HTLCs with the same amount and hash, which
\* only their expiry tells apart.
SignaturesVerify ==
  \A h \in holder, s \in signer :
    h.built.outputs = s.built.outputs /\ h.htlc_signatures = s.htlc_signatures

\* What the transaction leaves to the miners is the fee at the agreed feerate, unless the
\* one who pays it has less; it is more only by outputs that are dust and by fractions of
\* a satoshi.
FeeIsTheFeerate ==
  \A h \in holder :
    LET p == input
        value == MapThenSumSet(LAMBDA k : h.built.outputs[k].value, DOMAIN h.built.outputs)
        total == p.to_broadcaster_msat + p.to_countersignatory_msat
                   + MapThenSumSet(LAMBDA i : p.htlcs[i].amount_msat, DOMAIN p.htlcs)
        fee == to_sat_floor(total) - value
        due == fee_for_weight(p.feerate, COMMITMENT_TX_BASE_WEIGHT
                 + (COMMITMENT_TX_WEIGHT_PER_HTLC * Len(h.built.htlcs_in_output_order)))
        payer == to_sat_floor(IF p.broadcaster_pays_fee THEN p.to_broadcaster_msat
                              ELSE p.to_countersignatory_msat)
        trimmed == {i \in DOMAIN p.htlcs : h.built.htlc_output_indices[i] = {}}
        dust(index) == IF index = {} THEN p.broadcaster_dust_limit_sat ELSE 0
    IN  /\ payer >= due => fee >= due
        /\ fee <= due + MapThenSumSet(LAMBDA i : to_sat_floor(p.htlcs[i].amount_msat), trimmed)
                    + dust(h.built.to_broadcaster_index) + dust(h.built.to_countersignatory_index)
                    + Len(p.htlcs) + 2

\* An HTLC that has an output leaves more than dust after its second stage, whichever way
\* it ends, at the feerate of the commitment.
SecondStageIsNotDust ==
  \A h \in holder : \A k \in DOMAIN h.htlc_signatures :
    h.htlc_signatures[k].tx.value >= input.broadcaster_dust_limit_sat

\* The indices that go with the HTLCs lead to their outputs: the monitor and the
\* second-stage transactions spend by them.
IndicesLeadToTheirOutputs ==
  \A h \in holder : \A i \in DOMAIN input.htlcs :
    \A k \in h.built.htlc_output_indices[i] :
      h.built.outputs[k] = [value |-> to_sat_floor(input.htlcs[i].amount_msat),
                            script |-> htlc_witness_script(input.htlcs[i])]
=============================================================================
