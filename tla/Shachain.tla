------------------------------ MODULE Shachain ------------------------------
(***************************************************************************)
(* The per-commitment secrets of BOLT 3 (shachain.rs): the generator, and  *)
(* the compact store of the secrets the peer has revealed, one per number  *)
(* of trailing zeros of the index, with its stored form.                   *)
(*                                                                         *)
(* Bits stands for the 48 of the code.  The hash is free of collisions: a  *)
(* secret is the seed it comes from and the bits flipped on the way, the   *)
(* first one first.  Commitments are revoked one after the other, but a    *)
(* peer may reveal the secret of another index, or one of another seed.    *)
(***************************************************************************)
EXTENDS Integers, Sequences, FiniteSets, SequencesExt

CONSTANTS
  Bits,     \* the width of an index
  Seeds,    \* the seeds the peer may use
  Honest    \* the seed of a peer that keeps to the protocol

VARIABLES
  known,      \* known[b]: the stored pair of index and secret of bucket b, if any
  accepted,   \* accepted[i]: the secret that was accepted for commitment i - 1
  rejected    \* whether a secret was refused, which fails the channel

vars == <<known, accepted, rejected>>

MAX_INDEX == 2^Bits - 1
Index == 0..MAX_INDEX
Bucket == 0..Bits

index_for_commitment(number) == MAX_INDEX - number

bit(index, b) == (index \div 2^b) % 2 = 1

seed(s) == [seed |-> s, flips |-> <<>>]

\* Flips and hashes for each bit below `bits` that the index has, from the highest.
derive_secret(base, bits, index) ==
  [base EXCEPT !.flips = @ \o SelectSeq([i \in 1..bits |-> bits - i], LAMBDA b : bit(index, b))]

generate_from_seed(s, index) == derive_secret(seed(s), Bits, index)

bucket(index) ==
  CHOOSE b \in Bucket : index % 2^b = 0 /\ \A c \in Bucket : index % 2^c = 0 => c <= b

\* Mutant of consistent: the bucket just below is left out.
consistent_below(store, index, secret) ==
  \A lower \in 0..(bucket(index) - 2) : \A k \in store[lower] :
    derive_secret(secret, bucket(index), k.index) = k.secret

\* The new secret derives every secret in the lower buckets.
consistent(store, index, secret) ==
  \A lower \in 0..(bucket(index) - 1) : \A k \in store[lower] :
    derive_secret(secret, bucket(index), k.index) = k.secret

\* The index agrees with the stored one above the lowest b bits.
covers(b, k, index) == index \div 2^b = k.index \div 2^b /\ index >= k.index

\* The first bucket that covers the index, as an option.
secret_for(store, index) ==
  LET found == {b \in Bucket : \E k \in store[b] : covers(b, k, index)}
  IN  UNION {{derive_secret(k.secret, b, index) : k \in store[b]} :
               b \in {x \in found : \A y \in found : x <= y}}

empty == [b \in Bucket |-> {}]

insert(store, index, secret) ==
  [store EXCEPT ![bucket(index)] = {[index |-> index, secret |-> secret]}]

entries(store) == FlattenSeq([i \in 1..(Bits + 1) |-> SetToSeq(store[i - 1])])

from_entries(list) ==
  FoldLeft(LAMBDA store, k : insert(store, k.index, k.secret), empty, list)

-----------------------------------------------------------------------------
Init == known = empty /\ accepted = <<>> /\ rejected = FALSE

next_index == index_for_commitment(Len(accepted))

\* The peer reveals a secret for its next commitment: that one, or any other it has.
Reveal ==
  /\ ~rejected /\ Len(accepted) <= MAX_INDEX
  /\ \E s \in Seeds, i \in Index :
       LET secret == generate_from_seed(s, i) IN
       IF consistent(known, next_index, secret)
       THEN /\ known' = insert(known, next_index, secret)
            /\ accepted' = Append(accepted, secret)
            /\ UNCHANGED rejected
       ELSE rejected' = TRUE /\ UNCHANGED <<known, accepted>>

\* The store is written out and read back.
Restart == known' = from_entries(entries(known)) /\ UNCHANGED <<accepted, rejected>>

Next == Reveal \/ Restart

Spec == Init /\ [][Next]_vars

-----------------------------------------------------------------------------
(* Properties. *)

\* Whatever the peer reveals, the store gives back each secret it accepted, and knows
\* no secret of a commitment that has not been revoked: what a justice transaction for
\* any old commitment needs, kept in one slot per bucket.
AcceptedIsRecovered ==
  \A number \in 0..MAX_INDEX :
    secret_for(known, index_for_commitment(number)) =
      IF number < Len(accepted) THEN {accepted[number + 1]} ELSE {}

\* A peer that keeps to its seed is never refused.
HonestIsAccepted ==
  /\ Len(accepted) <= MAX_INDEX
  /\ \A i \in DOMAIN accepted :
       accepted[i] = generate_from_seed(Honest, index_for_commitment(i - 1))
  =>
    consistent(known, next_index, generate_from_seed(Honest, next_index))
=============================================================================
