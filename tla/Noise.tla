-------------------------------- MODULE Noise --------------------------------
(***************************************************************************)
(* One connection: the BOLT 8 handshake and transport (noise/mod.rs) as    *)
(* the node drives them from its reads (node/peer.rs, Node::peer_input).   *)
(*                                                                         *)
(* The two ends exchange a stream that a read cuts anywhere: an act is two *)
(* or three pieces, a message an encrypted length and a body.  Hashes and  *)
(* keys are terms, so that two of them are equal only when they were made  *)
(* from the same things.  A piece may be damaged on the way.               *)
(***************************************************************************)
EXTENDS Integers, Sequences, FiniteSets, SequencesExt

CONSTANTS
  Dialable,                \* the node ids the initiator may expect to meet
  KEY_ROTATION_INTERVAL,
  Limit,                   \* bound: Limit[e] messages are sent by e, init included
  MaxDamage                \* bound: how many pieces are damaged

End == {"initiator", "responder"}
Other(e) == IF e = "initiator" THEN "responder" ELSE "initiator"

ASSUME NoiseAssumption ==
  /\ KEY_ROTATION_INTERVAL \in Nat \ {0}
  /\ Limit \in [End -> Nat]
  /\ MaxDamage \in Nat

VARIABLES
  Dialed,   \* the node id the initiator dialed
  peer,     \* peer[e]: the Peer record of end e
  wire,     \* wire[e]: pieces written by e and not yet read
  sent,     \* sent[e]: messages that e encrypted
  got,      \* got[e]: messages that e decrypted
  used,     \* the pairs of key and nonce that encrypted in transport, in order
  damaged   \* how many pieces were damaged

vars == <<Dialed, peer, wire, sent, got, used, damaged>>

None == {}
Some(x) == {x}

ACT_ONE_LEN == 2
ACT_TWO_LEN == 2
ACT_THREE_LEN == 3
HEADER_LEN == 1

-----------------------------------------------------------------------------
(* Hashes, keys and ciphertexts. *)

\* The key pairs of an end are named for it; its static public key is its node id.
static(e) == <<"static", e>>
ephemeral(e) == <<"ephemeral", e>>
ecdh(pubkey, privkey) == <<"ecdh", {pubkey, privkey}>>

hkdf(ck, input) == [ck |-> <<"ck", ck, input>>, k |-> <<"k", ck, input>>]

encrypt(k, n, ad, plain) == [k |-> k, n |-> n, ad |-> ad, plain |-> plain]

\* Mutant of decrypts: the tag is not compared.
decrypts_any(k, n, ad, c) == TRUE

decrypts(k, n, ad, c) == c.k = k /\ c.n = n /\ c.ad = ad
Garbage == [k |-> <<>>, n |-> 0, ad |-> <<>>, plain |-> <<>>]

symmetric_state(responder_static) == [h |-> <<responder_static>>, ck |-> <<"proto">>]
mix_hash(st, data) == [st EXCEPT !.h = Append(@, data)]
mix_key(st, input) == [st EXCEPT !.ck = hkdf(st.ck, input).ck]
key_of(st, input) == hkdf(st.ck, input).k

-----------------------------------------------------------------------------
(* Pieces of the stream. *)

pieces(frame, n) == [i \in 1..n |-> [frame |-> frame, part |-> i, parts |-> n]]
Damaged == <<"damaged">>

\* What the first n pieces of a buffer are taken for.
frame_of(buffer, n) ==
  IF \A i \in 1..n : buffer[i] = [frame |-> buffer[1].frame, part |-> i, parts |-> n]
  THEN buffer[1].frame ELSE Damaged
rest_of(buffer, n) == SubSeq(buffer, n + 1, Len(buffer))

\* An act is its public key, if it carries one, and its ciphertexts.
act(key, c, t) == <<"act", key, c, t>>
is_act(f) == f[1] = "act"

-----------------------------------------------------------------------------
(* The acts.  Each is a result: the peer afterwards, the act to send, and  *)
(* whether it succeeded.                                                   *)

new_outbound ==
  LET st1 == mix_hash(symmetric_state(Dialed), ephemeral("initiator"))
      ss  == ecdh(Dialed, ephemeral("initiator"))
      c   == encrypt(key_of(st1, ss), 0, st1.h, <<>>)
  IN  [state |-> "OutboundHandshake", st |-> mix_hash(mix_key(st1, ss), c),
       act1 |-> act(ephemeral("initiator"), c, Garbage)]

split(st) == [first |-> hkdf(st.ck, <<>>).ck, second |-> hkdf(st.ck, <<>>).k]
cipher(key, ck) == [key |-> key, ck |-> ck, nonce |-> 0]

\* Initiator::act_two and into_transport.
act_two(p, act2) ==
  LET re  == act2[2]
      st1 == mix_hash(p.st, re)
      ss  == ecdh(re, ephemeral("initiator"))
      k2  == key_of(st1, ss)
      st2 == mix_hash(mix_key(st1, ss), act2[3])
      c3  == encrypt(k2, 1, st2.h, static("initiator"))
      st3 == mix_hash(st2, c3)
      ss3 == ecdh(re, static("initiator"))
      t   == encrypt(key_of(st3, ss3), 0, st3.h, <<>>)
      st4 == mix_key(st3, ss3)
  IN  IF is_act(act2) /\ decrypts(k2, 0, st1.h, act2[3])
      THEN [ok |-> TRUE, act3 |-> act(<<>>, c3, t),
            send |-> cipher(split(st4).first, st4.ck), recv |-> cipher(split(st4).second, st4.ck)]
      ELSE [ok |-> FALSE]

\* Responder::act_one.
act_one(p, act1) ==
  LET re  == act1[2]
      st1 == mix_hash(p.st, re)
      ss  == ecdh(re, static("responder"))
      st2 == mix_hash(mix_key(st1, ss), act1[3])
      st3 == mix_hash(st2, ephemeral("responder"))
      ss2 == ecdh(re, ephemeral("responder"))
      k2  == key_of(st3, ss2)
      c2  == encrypt(k2, 0, st3.h, <<>>)
  IN  IF is_act(act1) /\ decrypts(key_of(st1, ss), 0, st1.h, act1[3])
      THEN [ok |-> TRUE, act2 |-> act(ephemeral("responder"), c2, Garbage),
            st |-> mix_hash(mix_key(st3, ss2), c2), temp_k2 |-> k2]
      ELSE [ok |-> FALSE]

\* Mutant of act_three: the keys of the two directions are taken as by the initiator.
act_three_unswapped(p, act3) ==
  LET st1 == mix_hash(p.st, act3[3])
      ss  == ecdh(act3[3].plain, ephemeral("responder"))
      st2 == mix_key(st1, ss)
  IN  IF is_act(act3) /\ decrypts(p.temp_k2, 1, p.st.h, act3[3])
                      /\ decrypts(key_of(st1, ss), 0, st1.h, act3[4])
      THEN [ok |-> TRUE, node_id |-> act3[3].plain,
            send |-> cipher(split(st2).first, st2.ck), recv |-> cipher(split(st2).second, st2.ck)]
      ELSE [ok |-> FALSE]

\* Responder::act_three.
act_three(p, act3) ==
  LET st1 == mix_hash(p.st, act3[3])
      ss  == ecdh(act3[3].plain, ephemeral("responder"))
      st2 == mix_key(st1, ss)
  IN  IF is_act(act3) /\ decrypts(p.temp_k2, 1, p.st.h, act3[3])
                      /\ decrypts(key_of(st1, ss), 0, st1.h, act3[4])
      THEN [ok |-> TRUE, node_id |-> act3[3].plain,
            send |-> cipher(split(st2).second, st2.ck), recv |-> cipher(split(st2).first, st2.ck)]
      ELSE [ok |-> FALSE]

-----------------------------------------------------------------------------
(* The transport. *)

\* Mutant of process: the nonce starts again and the key stays.
process_same_key(cs) ==
  LET r == IF cs.nonce = KEY_ROTATION_INTERVAL THEN [cs EXCEPT !.nonce = 0] ELSE cs
  IN  [cs |-> [r EXCEPT !.nonce = @ + 1], k |-> r.key, n |-> r.nonce]

\* CipherState::process: the key and nonce to use, and the state afterwards.
process(cs) ==
  LET r == IF cs.nonce = KEY_ROTATION_INTERVAL
           THEN cipher(hkdf(cs.ck, cs.key).k, hkdf(cs.ck, cs.key).ck) ELSE cs
  IN  [cs |-> [r EXCEPT !.nonce = @ + 1], k |-> r.key, n |-> r.nonce]

\* A body of one or two pieces, so that reads cut it too.
size(msg) == 1 + (msg % 2)

encrypt_message(cs, msg) ==
  LET a == process(cs)
      b == process(a.cs)
  IN  [cs |-> b.cs, used |-> <<<<a.k, a.n>>, <<b.k, b.n>>>>,
       out |-> pieces(<<"sealed", encrypt(a.k, a.n, <<>>, size(msg))>>, HEADER_LEN)
                 \o pieces(<<"sealed", encrypt(b.k, b.n, <<>>, msg)>>, size(msg))]

opens(r, f) == f[1] = "sealed" /\ decrypts(r.k, r.n, <<>>, f[2])

\* One round of the loop over next_message: w has the peer, the messages so far, and
\* whether to go on.
next_message(w) ==
  LET r == process(w.p.recv)
      body == w.p.pending_len # None
      need == IF body THEN CHOOSE len \in w.p.pending_len : TRUE ELSE HEADER_LEN
      f == frame_of(w.p.buffer, need)
  IN  IF Len(w.p.buffer) < need THEN [w EXCEPT !.more = FALSE]
      ELSE IF ~opens(r, f) THEN [w EXCEPT !.more = FALSE, !.ok = FALSE, !.p.recv = r.cs]
      ELSE LET p == [w.p EXCEPT !.recv = r.cs, !.buffer = rest_of(@, need),
                                !.pending_len = IF body THEN None ELSE Some(f[2].plain)]
           IN  [w EXCEPT !.p = p,
                         !.messages = IF body THEN Append(@, f[2].plain) ELSE @]

-----------------------------------------------------------------------------
(* Peer::input.  w: the peer, the pieces to send, the messages, and        *)
(* whether the call goes on and returns Ok.                                *)

poisoned(w) == [w EXCEPT !.p.state = "Poisoned", !.ok = FALSE, !.more = FALSE]

become_ready(w, r, n) ==
  [w EXCEPT !.p = [state |-> "Ready", send |-> r.send, recv |-> r.recv, pending_len |-> None,
                   node_id |-> IF w.p.state = "OutboundHandshake" THEN Some(Dialed)
                               ELSE Some(r.node_id),
                   buffer |-> rest_of(w.p.buffer, n), init_sent |-> FALSE]]

outbound_step(w) ==
  LET r == act_two(w.p, frame_of(w.p.buffer, ACT_TWO_LEN))
  IN  IF Len(w.p.buffer) < ACT_TWO_LEN THEN [w EXCEPT !.more = FALSE]
      ELSE IF ~r.ok THEN poisoned(w)
      ELSE [become_ready(w, r, ACT_TWO_LEN) EXCEPT !.out = pieces(r.act3, ACT_THREE_LEN)]

inbound_first(w) ==
  LET r == act_one(w.p, frame_of(w.p.buffer, ACT_ONE_LEN))
  IN  IF Len(w.p.buffer) < ACT_ONE_LEN THEN [w EXCEPT !.more = FALSE]
      ELSE IF ~r.ok THEN poisoned(w)
      ELSE [w EXCEPT !.p.acted_one = TRUE, !.p.st = r.st, !.p.temp_k2 = r.temp_k2,
                     !.p.buffer = rest_of(@, ACT_ONE_LEN),
                     !.out = pieces(r.act2, ACT_TWO_LEN)]

inbound_third(w) ==
  LET r == act_three(w.p, frame_of(w.p.buffer, ACT_THREE_LEN))
  IN  IF Len(w.p.buffer) < ACT_THREE_LEN THEN [w EXCEPT !.more = FALSE]
      ELSE IF ~r.ok THEN poisoned(w)
      ELSE become_ready(w, r, ACT_THREE_LEN)

input_step(w) ==
  CASE ~w.more -> w
    [] w.more /\ w.p.state = "OutboundHandshake" -> outbound_step(w)
    [] w.more /\ w.p.state = "InboundHandshake" ->
         IF w.p.acted_one THEN inbound_third(w) ELSE inbound_first(w)
    [] w.more /\ w.p.state = "Ready" -> next_message(w)
    [] w.more /\ w.p.state = "Poisoned" -> [w EXCEPT !.p.state = "panicked", !.more = FALSE]

\* Each round consumes a piece or ends the call.
input(p, data) ==
  FoldLeft(LAMBDA w, i : input_step(w),
           [p |-> [p EXCEPT !.buffer = @ \o data], out |-> <<>>, messages |-> <<>>,
            ok |-> TRUE, more |-> TRUE],
           [i \in 1..(Len(p.buffer) + Len(data) + 1) |-> i])

-----------------------------------------------------------------------------
Init ==
  /\ Dialed \in Dialable
  /\ peer = [e \in End |->
       IF e = "initiator"
       THEN [state |-> "OutboundHandshake", st |-> new_outbound.st, buffer |-> <<>>]
       ELSE [state |-> "InboundHandshake", st |-> symmetric_state(static("responder")),
             buffer |-> <<>>, acted_one |-> FALSE, temp_k2 |-> <<>>]]
  /\ wire = [e \in End |-> IF e = "initiator" THEN pieces(new_outbound.act1, ACT_ONE_LEN)
                           ELSE <<>>]
  /\ sent = [e \in End |-> <<>>] /\ got = [e \in End |-> <<>>]
  /\ used = <<>> /\ damaged = 0

\* The messages of e are numbered; the first is init.
next_of(e) == Len(sent[e]) + 1

\* Node::peer_input: a read of any size; the end that becomes ready sends init at once.
Read(e) ==
  /\ peer[e].state # "panicked"
  /\ \E n \in 1..Len(wire[Other(e)]) :
       LET w == input(peer[e], SubSeq(wire[Other(e)], 1, n))
           fresh == w.ok /\ peer[e].state # "Ready" /\ w.p.state = "Ready"
           m == encrypt_message(w.p.send, next_of(e))
       IN  /\ peer' = [peer EXCEPT ![e] =
                         IF fresh THEN [w.p EXCEPT !.send = m.cs, !.init_sent = TRUE] ELSE w.p]
           /\ wire' = [wire EXCEPT ![Other(e)] = rest_of(@, n),
                         ![e] = @ \o (IF w.ok THEN w.out ELSE <<>>)
                                  \o (IF fresh THEN m.out ELSE <<>>)]
           /\ got' = [got EXCEPT ![e] = @ \o (IF w.ok THEN w.messages ELSE <<>>)]
           /\ sent' = IF fresh THEN [sent EXCEPT ![e] = Append(@, next_of(e))] ELSE sent
           /\ used' = IF fresh THEN used \o m.used ELSE used
  /\ UNCHANGED <<Dialed, damaged>>

\* Node::send_to_peer.
Send(e) ==
  /\ peer[e].state = "Ready" /\ Len(sent[e]) < Limit[e]
  /\ LET m == encrypt_message(peer[e].send, next_of(e))
     IN  /\ peer' = [peer EXCEPT ![e].send = m.cs]
         /\ wire' = [wire EXCEPT ![e] = @ \o m.out]
         /\ used' = used \o m.used
  /\ sent' = [sent EXCEPT ![e] = Append(@, next_of(e))]
  /\ UNCHANGED <<Dialed, got, damaged>>

\* A piece on its way is damaged.
Damage(e) ==
  /\ damaged < MaxDamage
  /\ \E i \in DOMAIN wire[e] : wire' = [wire EXCEPT ![e][i].frame = Damaged]
  /\ damaged' = damaged + 1
  /\ UNCHANGED <<Dialed, peer, sent, got, used>>

Next == \E e \in End : Read(e) \/ Send(e) \/ Damage(e)

Spec == Init /\ [][Next]_vars

-----------------------------------------------------------------------------
(* Properties. *)

\* A handshake completes on both sides only between the two nodes that meant each
\* other: each knows the other's static key.
HandshakeAuthenticates ==
  /\ peer["initiator"].state = "Ready" => Dialed = static("responder")
  /\ peer["responder"].state = "Ready" => peer["responder"].node_id = Some(static("initiator"))

\* However the stream is cut and whatever is damaged, an end gets the messages of the
\* other in order, from the first, none twice and none changed.
DeliversPrefix == \A e \in End : IsPrefix(got[e], sent[Other(e)])

\* What an end delivers comes from the node it meant to talk to.
StreamIsAuthentic == HandshakeAuthenticates /\ DeliversPrefix

\* No pair of key and nonce encrypts twice, in either direction and across rotations.
NoncesAreFresh == \A i, j \in DOMAIN used : used[i] = used[j] => i = j

\* On a sound connection to the dialed node nothing is left waiting once the stream is
\* read, wherever the reads cut it: the handshake is over, both ends have changed keys
\* at the same message, and every message has arrived.
NothingIsStuck ==
  Dialed = static("responder") /\ damaged = 0 /\ (\A e \in End : wire[e] = <<>>) =>
    \A e \in End : peer[e].state = "Ready" /\ got[Other(e)] = sent[e]

\* The placeholder that an act leaves in the peer while it runs is never met by a read.
\* An act that fails leaves it there.
NeverPoisoned == \A e \in End : peer[e].state # "panicked"
=============================================================================
