-------------------------------- MODULE Onion --------------------------------
(***************************************************************************)
(* The onion of a payment (onion/mod.rs): the sender wraps a payload for   *)
(* each hop, each hop peels one layer, and a failure is wrapped on its way *)
(* back (with the calls of node/mod.rs).                                   *)
(*                                                                         *)
(* Cryptography is symbolic.  A cell, in place of a byte, is the set of    *)
(* the atoms that are XORed in it, so that XOR is the symmetric difference *)
(* and zero the empty set; an HMAC takes one cell.  A key stream is an     *)
(* atom for each position.  The shared secret of a hop is the pair of the  *)
(* node and the ephemeral key, and the ephemeral key, blinded at each hop, *)
(* is the sequence of the nodes it went through: both ends derive it.      *)
(***************************************************************************)
EXTENDS Integers, Sequences, FiniteSets, SequencesExt

CONSTANTS
  Node,           \* the nodes of the network
  MaxHops,        \* bound: the longest route
  PayloadLens,    \* the lengths of payloads
  PAYLOADS_LEN,   \* 1300 in the code
  WideLen         \* from this length on the length prefix takes three cells (253)

VARIABLES
  path,      \* the route
  lens,      \* the length of the payload of each hop
  packet,    \* the packet on its way, if one is: the hop before `at' has it until `at' reads it
  at,        \* the hop it goes to, 0 before it is sent
  damaged,   \* ghost: the hop that a changed packet goes to, if one was changed
  read,      \* read[i]: what hop i found, if it has peeled
  failure,   \* the failure packet on its way, if one is
  verdict    \* what the sender concludes from a failure, if it has one

vars == <<path, lens, packet, at, damaged, read, failure, verdict>>

xor(x, y) == (x \ y) \cup (y \ x)
generate_key(type, secret) == <<type, secret>>
cipher_stream(key, k) == {<<"stream", key, k>>}
hmac(key, message, assoc_data) == {<<"hmac", key, message, assoc_data>>}
payment_hash == "payment hash"

\* The secret of hop i of a path, as the sender derives it.
shared_secret(nodes, i) == <<nodes[i], SubSeq(nodes, 1, i - 1)>>

prefix_len(len) == IF len < WideLen THEN 1 ELSE 3
shift_size(len) == prefix_len(len) + len + 1
total_shift(sizes, n) == FoldLeft(LAMBDA x, len : x + shift_size(len), 0, SubSeq(sizes, 1, n))

-----------------------------------------------------------------------------
(* The sender. *)

prefix(len) == [k \in 1..prefix_len(len) |-> {<<"length", len, k>>}]
payload(i, len) == [k \in 1..len |-> {<<"data", i, k>>}]

\* Mutant of filler: each stream is taken from the end of the packet.
filler_from_end(nodes, sizes) ==
  LET fill[i \in 0..(Len(nodes) - 1)] ==
        [k \in 1..total_shift(sizes, i) |->
           IF i = 0 THEN {}
           ELSE xor(IF k <= total_shift(sizes, i - 1) THEN fill[i - 1][k] ELSE {},
                    cipher_stream(generate_key("rho", shared_secret(nodes, i)), PAYLOADS_LEN + k))]
  IN  fill[Len(nodes) - 1]

\* What the streams of all hops but the last leave beyond the end of the packet.
filler(nodes, sizes) ==
  LET fill[i \in 0..(Len(nodes) - 1)] ==
        [k \in 1..total_shift(sizes, i) |->
           IF i = 0 THEN {}
           ELSE xor(IF k <= total_shift(sizes, i - 1) THEN fill[i - 1][k] ELSE {},
                    cipher_stream(generate_key("rho", shared_secret(nodes, i)),
                                  PAYLOADS_LEN - total_shift(sizes, i - 1) + k))]
  IN  fill[Len(nodes) - 1]

starting_mix(k) == cipher_stream(generate_key("pad", <<"session key", <<>>>>), k)

\* The layers from the last hop to the first; the last one ends in the filler.
construct(nodes, sizes) ==
  LET n == Len(nodes)
      fill == filler(nodes, sizes)
      layer[i \in 1..(n + 1)] ==
        IF i = n + 1 THEN [mix |-> [k \in 1..PAYLOADS_LEN |-> starting_mix(k)], hmac |-> {}]
        ELSE
        LET ss == shared_secret(nodes, i)
            frame == prefix(sizes[i]) \o payload(i, sizes[i]) \o <<layer[i + 1].hmac>>
            shifted == SubSeq(frame \o layer[i + 1].mix, 1, PAYLOADS_LEN)
            mix == [k \in 1..PAYLOADS_LEN |->
                      IF i = n /\ k > PAYLOADS_LEN - Len(fill)
                      THEN fill[k - (PAYLOADS_LEN - Len(fill))]
                      ELSE xor(shifted[k], cipher_stream(generate_key("rho", ss), k))]
        IN  [mix |-> mix, hmac |-> hmac(generate_key("mu", ss), mix, payment_hash)]
  IN  [ephemeral_key |-> <<>>, payloads |-> layer[1].mix, hmac |-> layer[1].hmac]

-----------------------------------------------------------------------------
(* A hop. *)

decrypted(ss, p) ==
  [k \in 1..(2 * PAYLOADS_LEN) |->
     xor(IF k <= PAYLOADS_LEN THEN p.payloads[k] ELSE {},
         cipher_stream(generate_key("rho", ss), k))]

\* The length that the first cell holds.
length_of(buf) == {len \in 2..(PAYLOADS_LEN - 1) : buf[1] = {<<"length", len, 1>>}}

unreadable(kind) == [kind |-> kind, secret |-> <<>>, payload |-> <<>>, rest |-> <<>>, next |-> {}]

\* What a node finds in a packet: nothing it can read, its payload as the last hop, or
\* its payload and the packet to pass on.
peel_with_secret(node, p) ==
  LET ss == <<node, p.ephemeral_key>>
      buf == decrypted(ss, p)
      len == CHOOSE l \in length_of(buf) : TRUE
      start == prefix_len(len)
      consumed == start + len + 1
      next_hmac == buf[consumed]
      found(kind, next) ==
        [kind |-> kind, secret |-> ss, payload |-> SubSeq(buf, start + 1, start + len),
         rest |-> SubSeq(buf, consumed + 1, PAYLOADS_LEN), next |-> next]
  IN  IF p.hmac # hmac(generate_key("mu", ss), p.payloads, payment_hash) THEN unreadable("InvalidHmac")
      ELSE IF length_of(buf) = {} THEN unreadable("BadPayload")
      ELSE IF next_hmac = {} THEN found("Final", {})
      ELSE found("Forward", {[ephemeral_key |-> Append(p.ephemeral_key, node),
                              payloads |-> SubSeq(buf, consumed + 1, consumed + PAYLOADS_LEN),
                              hmac |-> next_hmac]})

-----------------------------------------------------------------------------
(* Failures. *)

wrap(ss, cells) ==
  [k \in DOMAIN cells |-> xor(cells[k], cipher_stream(generate_key("ammag", ss), k))]

\* An HMAC, the length, the message and a pad.
build(ss, message) ==
  LET body == <<{<<"length", 1, 1>>}, {<<"failure", message, 1>>}, {}>>
  IN  wrap(ss, <<hmac(generate_key("um", ss), body, "")>> \o body)

\* The first hop whose HMAC verifies after the layers up to it are taken off.
decrypt(nodes, cells) ==
  LET data[i \in 0..Len(nodes)] ==
        IF i = 0 THEN cells ELSE wrap(shared_secret(nodes, i), data[i - 1])
      verifies(i) ==
        data[i][1] = hmac(generate_key("um", shared_secret(nodes, i)), Tail(data[i]), "")
      hits == {i \in 1..Len(nodes) : verifies(i)}
  IN  IF hits = {} THEN {}
      ELSE LET i == CHOOSE x \in hits : \A y \in hits : x <= y
           IN  {[hop |-> i, message |-> data[i][3]]}

-----------------------------------------------------------------------------
unread == unreadable("unread")

Routes == {r \in UNION {[1..n -> Node] : n \in 1..MaxHops} : IsInjective(r)}

Init ==
  /\ path \in Routes
  /\ lens \in [1..Len(path) -> PayloadLens]
  /\ total_shift(lens, Len(path)) <= PAYLOADS_LEN
  /\ packet = {} /\ at = 0 /\ damaged = {}
  /\ read = [i \in DOMAIN path |-> unread]
  /\ failure = {} /\ verdict = {}

Send ==
  /\ at = 0 /\ at' = 1 /\ packet' = {construct(path, lens)}
  /\ UNCHANGED <<path, lens, damaged, read, failure, verdict>>

\* A hop of another implementation passes on a packet that differs in one place.
Damage ==
  /\ damaged = {} /\ damaged' = {at}
  /\ \E p \in packet :
       \/ \E k \in {1, PAYLOADS_LEN} :
            packet' = {[p EXCEPT !.payloads[k] = xor(@, {<<"damage", "", 1>>})]}
       \/ packet' = {[p EXCEPT !.hmac = xor(@, {<<"damage", "", 1>>})]}
       \/ packet' = {[p EXCEPT !.ephemeral_key = Append(@, "damage")]}
  /\ UNCHANGED <<path, lens, at, read, failure, verdict>>

\* The failure that hop i returns, made with the secret it kept when it peeled.
failed_by(i, message) ==
  [by |-> i, told |-> {<<"failure", message, 1>>}, at |-> i,
   cells |-> build(read[i].secret, message)]

\* on_htlc_failed with a malformed code: the hop before the one that could not read the
\* packet makes a failure of it; the sender takes the code and knows no hop.
report_malformed(i) ==
  IF i = 0 THEN /\ verdict' = {[by |-> 0, told |-> {}, found |-> {}]}
                /\ UNCHANGED failure
           ELSE /\ failure' = {failed_by(i, "malformed")}
                /\ UNCHANGED verdict

\* process_committed_htlc: the next hop has the HTLC and peels its packet.
Peel ==
  /\ \E p \in packet :
       LET found == peel_with_secret(path[at], p)
       IN  /\ read' = [read EXCEPT ![at] = found]
           /\ packet' = found.next
           /\ IF found.kind \in {"Forward", "Final"} THEN UNCHANGED <<failure, verdict>>
              ELSE report_malformed(at - 1)
           /\ at' = IF found.kind = "Forward" /\ at < Len(path) THEN at + 1 ELSE at
  /\ UNCHANGED <<path, lens, damaged>>

has_peeled(i) == read[i].kind \in {"Final", "Forward"}

\* fail_inbound, or a forward that is dropped: a hop that has peeled fails the HTLC
\* before the next one has it.
Fail(i) ==
  /\ failure = {} /\ verdict = {} /\ has_peeled(i)
  /\ \A j \in DOMAIN path : j > i => read[j] = unread
  /\ packet' = {}
  /\ failure' = {failed_by(i, "own reason")}
  /\ UNCHANGED <<path, lens, at, damaged, read, verdict>>

\* on_htlc_failed: a forwarding hop wraps the failure again, the sender decrypts it.
Return ==
  /\ \E f \in failure :
       IF f.at = 1
       THEN /\ verdict' = {[by |-> f.by, told |-> f.told, found |-> decrypt(path, f.cells)]}
            /\ failure' = {}
       ELSE /\ failure' = {[f EXCEPT !.at = @ - 1, !.cells = wrap(read[f.at - 1].secret, @)]}
            /\ UNCHANGED verdict
  /\ UNCHANGED <<path, lens, packet, at, damaged, read>>

Next == Send \/ Damage \/ Peel \/ (\E i \in DOMAIN path : Fail(i)) \/ Return
Spec == Init /\ [][Next]_vars

-----------------------------------------------------------------------------
\* Every hop verifies the packet and finds its own payload, whatever the lengths of the
\* payloads before and after it, and only the last one takes itself for the last; a hop
\* refuses a packet that was changed before it got there, wherever it was, and no other.
EveryHopReadsItsPayload ==
  \A i \in DOMAIN path : read[i] # unread =>
    IF i \in damaged THEN ~has_peeled(i)
    ELSE /\ read[i].kind = IF i = Len(path) THEN "Final" ELSE "Forward"
         /\ read[i].payload = payload(i, lens[i])

\* What a hop sees after its payload tells it nothing: each cell holds a stream that the
\* hop cannot take off, the padding at the end of the route included.
RestIsOpaque ==
  \A i \in DOMAIN path : \A k \in DOMAIN read[i].rest :
    \E atom \in read[i].rest[k] :
      atom[1] = "stream" /\ atom[2][2] # shared_secret(path, i)

\* The sender finds the hop that failed, and its message, in what the hops before it have
\* wrapped; no hop, when it was itself told that the packet is malformed.
FailureIsAttributed ==
  \A v \in verdict :
    v.found = IF v.by = 0 THEN {} ELSE {[hop |-> v.by, message |-> v.told]}
=============================================================================
