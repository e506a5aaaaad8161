-------------------------- MODULE CommitmentInputs --------------------------
(* Inputs for CommitmentTx. *)
EXTENDS Integers

\* Amounts around the limits of trimming at feerate 253 and dust limit 354: 521 for an
\* offered and 531 for a received HTLC.
Amounts == {520999, 521000, 530999, 531000}
Htlcs ==
  [offered : BOOLEAN, amount_msat : Amounts, payment_hash : {1}, cltv_expiry : {1}]
    \cup [offered : BOOLEAN, amount_msat : {531000}, payment_hash : {1, 2}, cltv_expiry : {1, 2}]

Lists == UNION {[1..n -> Htlcs] : n \in 0..2}
           \cup [1..3 -> [offered : BOOLEAN, amount_msat : {531000, 531999},
                          payment_hash : {1}, cltv_expiry : {1, 2}]]
\* Script hashes in one order and in the reverse of it.
Scripts ==
  [kind : {"to_local", "to_remote", "offered", "received"},
   payment_hash : 0..2, cltv_expiry : 0..2]
Place(s) ==
  (3 * (s.payment_hash + (3 * s.cltv_expiry)))
    + (CASE s.kind = "to_local" -> 1 [] s.kind = "to_remote" -> 2 [] s.kind = "offered" -> 0
         [] s.kind = "received" -> 0)
Orders == {[s \in Scripts |-> Place(s)], [s \in Scripts |-> 100 - Place(s)]}

\* The balances are just enough for the fee, or not, or of the size of an HTLC.
MCInputs ==
  [htlcs : Lists, listing : {"same", "reversed", "rotated"}, feerate : {253, 600},
   broadcaster_dust_limit_sat : {354}, broadcaster_pays_fee : BOOLEAN,
   to_broadcaster_msat : {100000, 531000, 900000}, to_countersignatory_msat : {714999},
   script_order : Orders]
=============================================================================
