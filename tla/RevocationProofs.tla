-------------------------- MODULE RevocationProofs --------------------------
(* The commitment numbers of the two parties move in lockstep, and no          *)
(* revoke_and_ack is refused: RevocationInv is an invariant of ChannelDance.   *)
(* The commitment a party can broadcast is one its peer has on record and      *)
(* holds no revocation secret for: so is RecordInv.                            *)
EXTENDS DanceInvariants, TLAPS

-----------------------------------------------------------------------------
(* The two parties and their streams. *)

\* The other party.
LEMMA PeerOf ==
  \A n \in Party : Peer(n) \in Party /\ Peer(n) # n /\ Peer(Peer(n)) = n
  BY DEF Peer, Party

\* A message read.
LEMMA HeadRead ==
  ASSUME TypeOK, NEW n \in Party, NEW t, receives(n, t)
  PROVE  /\ message(n) \in Message /\ message(n).type = t
         /\ read(n) \in [Party -> Seq(Message)]
         /\ read(n)[n] = net[n] /\ read(n)[Peer(n)] = Tail(net[Peer(n)])
<1>1. net[Peer(n)] \in Seq(Message) /\ net[Peer(n)] # <<>>
  BY PeerOf DEF TypeOK, receives
<1>2. Head(net[Peer(n)]) \in Message /\ Tail(net[Peer(n)]) \in Seq(Message)
  BY <1>1
<1> QED
  BY <1>2, PeerOf DEF TypeOK, receives, message, read

\* The numbers that follow a commitment number.
LEMMA Following == \A x \in Nat : x + 1 \in Nat /\ x + 2 \in Nat /\ x + 1 # x /\ (x + 1) + 1 = x + 2
  OBVIOUS

-----------------------------------------------------------------------------
(* How many messages of a type a stream holds, as it grows and is read. *)

\* A message of another type leaves the count of a type as it was.
LEMMA AppendOther ==
  ASSUME NEW q \in Seq(Message), NEW m \in Message, NEW t, m.type # t
  PROVE  /\ absent(q, t) => absent(Append(q, m), t)
         /\ once(q, t) => once(Append(q, m), t)
<1>1. /\ Len(Append(q, m)) = Len(q) + 1 /\ Len(q) \in Nat
      /\ \A i \in 1..Len(q) : Append(q, m)[i] = q[i]
      /\ Append(q, m)[Len(q) + 1] = m
  OBVIOUS
<1> HIDE DEF Message
<1>2. absent(q, t) => absent(Append(q, m), t)
  BY <1>1 DEF absent
<1>3. ASSUME once(q, t) PROVE once(Append(q, m), t)
  <2>1. PICK i \in 1..Len(q) :
          q[i].type = t /\ \A j \in 1..Len(q) : q[j].type = t => j = i
    BY <1>3 DEF once
  <2>2. i \in 1..Len(Append(q, m)) /\ Append(q, m)[i].type = t
    BY <1>1, <2>1
  <2>3. \A j \in 1..Len(Append(q, m)) : Append(q, m)[j].type = t => j = i
    BY <1>1, <2>1
  <2> QED
    BY <2>2, <2>3 DEF once
<1> QED
  BY <1>2, <1>3

\* The first message of a type is the only one.
LEMMA AppendSame ==
  ASSUME NEW q \in Seq(Message), NEW m \in Message, absent(q, m.type)
  PROVE  once(Append(q, m), m.type)
<1>1. /\ Len(Append(q, m)) = Len(q) + 1 /\ Len(q) \in Nat
      /\ \A i \in 1..Len(q) : Append(q, m)[i] = q[i]
      /\ Append(q, m)[Len(q) + 1] = m
  OBVIOUS
<1> HIDE DEF Message
<1>2. \A j \in 1..Len(Append(q, m)) : Append(q, m)[j].type = m.type => j = Len(q) + 1
  BY <1>1 DEF absent
<1>3. Len(q) + 1 \in 1..Len(Append(q, m))
  BY <1>1
<1> QED
  BY <1>1, <1>2, <1>3 DEF once

\* Reading the head of a stream takes away what the head was.
LEMMA TailMessages ==
  ASSUME NEW q \in Seq(Message), q # <<>>, NEW t
  PROVE  /\ absent(q, t) => absent(Tail(q), t)
         /\ Head(q).type # t /\ once(q, t) => once(Tail(q), t)
         /\ Head(q).type = t /\ once(q, t) => absent(Tail(q), t)
         /\ Head(q).type = t => ~absent(q, t)
<1>1. /\ Len(q) \in Nat \ {0} /\ Len(Tail(q)) = Len(q) - 1
      /\ \A i \in 1..Len(Tail(q)) : Tail(q)[i] = q[i + 1]
      /\ Head(q) = q[1]
  OBVIOUS
<1>2. absent(q, t) => absent(Tail(q), t)
  BY <1>1 DEF absent
<1>3. ASSUME Head(q).type # t, once(q, t) PROVE once(Tail(q), t)
  <2>1. PICK i \in 1..Len(q) :
          q[i].type = t /\ \A j \in 1..Len(q) : q[j].type = t => j = i
    BY <1>3 DEF once
  <2>2. i # 1
    BY <1>1, <1>3, <2>1
  <2>3. i - 1 \in 1..Len(Tail(q)) /\ Tail(q)[i - 1].type = t
    BY <1>1, <2>1, <2>2
  <2>4. \A j \in 1..Len(Tail(q)) : Tail(q)[j].type = t => j = i - 1
    BY <1>1, <2>1
  <2> QED
    BY <2>3, <2>4, Zenon DEF once
<1>4. ASSUME Head(q).type = t, once(q, t) PROVE absent(Tail(q), t)
  <2>1. PICK i \in 1..Len(q) :
          q[i].type = t /\ \A j \in 1..Len(q) : q[j].type = t => j = i
    BY <1>4 DEF once
  <2>2. i = 1
    BY <1>1, <1>4, <2>1
  <2> QED
    BY <1>1, <2>1, <2>2 DEF absent
<1>5. Head(q).type = t => ~absent(q, t)
  BY <1>1 DEF absent
<1> QED
  BY <1>2, <1>3, <1>4, <1>5

\* Messages of other types leave the count of a type as it was.
LEMMA ConcatOther ==
  ASSUME NEW q \in Seq(Message), NEW u \in Seq(Message), NEW t, absent(u, t)
  PROVE  /\ absent(q, t) => absent(q \o u, t)
         /\ once(q, t) => once(q \o u, t)
<1>1. /\ Len(q) \in Nat /\ Len(u) \in Nat /\ Len(q \o u) = Len(q) + Len(u)
      /\ \A i \in 1..Len(q) + Len(u) :
           (q \o u)[i] = IF i <= Len(q) THEN q[i] ELSE u[i - Len(q)]
  OBVIOUS
<1>2. absent(q, t) => absent(q \o u, t)
  BY <1>1 DEF absent
<1>3. ASSUME once(q, t) PROVE once(q \o u, t)
  <2>1. PICK i \in 1..Len(q) :
          q[i].type = t /\ \A j \in 1..Len(q) : q[j].type = t => j = i
    BY <1>3 DEF once
  <2>2. i \in 1..Len(q \o u) /\ (q \o u)[i].type = t
    BY <1>1, <2>1
  <2>3. \A j \in 1..Len(q \o u) : (q \o u)[j].type = t => j = i
    BY <1>1, <2>1 DEF absent
  <2> QED
    BY <2>2, <2>3, Zenon DEF once
<1> QED
  BY <1>2, <1>3

\* What the revocations in a stream carry.
LEMMA CarriesAbsent ==
  ASSUME NEW q, NEW k, absent(q, "revoke_and_ack") PROVE carries(q, k)
  BY DEF absent, carries

\* Reading a stream leaves the revocations behind as they were.
LEMMA CarriesTail ==
  ASSUME NEW q \in Seq(Message), q # <<>>, NEW k, carries(q, k) PROVE carries(Tail(q), k)
<1>1. /\ Len(q) \in Nat \ {0} /\ Len(Tail(q)) = Len(q) - 1
      /\ \A i \in 1..Len(Tail(q)) : Tail(q)[i] = q[i + 1]
  OBVIOUS
<1> QED
  BY <1>1 DEF carries

\* A revocation appended carries what is expected if its fields do.
LEMMA CarriesAppend ==
  ASSUME NEW q \in Seq(Message), NEW m \in Message, NEW k, carries(q, k),
         m.type = "revoke_and_ack" => m.secret = k /\ m.next_point = k + 2
  PROVE  carries(Append(q, m), k)
<1>1. /\ Len(Append(q, m)) = Len(q) + 1 /\ Len(q) \in Nat
      /\ \A i \in 1..Len(q) : Append(q, m)[i] = q[i]
      /\ Append(q, m)[Len(q) + 1] = m
  OBVIOUS
<1> HIDE DEF Message
<1> QED
  BY <1>1 DEF carries

\* Messages that are no revocations change nothing about those in a stream.
LEMMA CarriesConcat ==
  ASSUME NEW q \in Seq(Message), NEW u \in Seq(Message), NEW k,
         carries(q, k), absent(u, "revoke_and_ack")
  PROVE  carries(q \o u, k)
<1>1. /\ Len(q) \in Nat /\ Len(u) \in Nat /\ Len(q \o u) = Len(q) + Len(u)
      /\ \A i \in 1..Len(q) + Len(u) :
           (q \o u)[i] = IF i <= Len(q) THEN q[i] ELSE u[i - Len(q)]
  OBVIOUS
<1> QED
  BY <1>1 DEF carries, absent

\* Without a signature there is nothing to compare.
LEMMA SignedAbsent ==
  ASSUME NEW q, NEW K, absent(q, "commitment_signed") PROVE signed_as(q, K)
  BY DEF absent, signed_as

\* Reading a stream leaves the signatures behind as they were.
LEMMA SignedTail ==
  ASSUME NEW q \in Seq(Message), q # <<>>, NEW K, signed_as(q, K) PROVE signed_as(Tail(q), K)
<1>1. /\ Len(q) \in Nat \ {0} /\ Len(Tail(q)) = Len(q) - 1
      /\ \A i \in 1..Len(Tail(q)) : Tail(q)[i] = q[i + 1]
  OBVIOUS
<1> QED
  BY <1>1 DEF signed_as

\* A signature appended is for the commitments on record if it equals them.
LEMMA SignedAppend ==
  ASSUME NEW q \in Seq(Message), NEW m \in Message, NEW K, signed_as(q, K),
         m.type = "commitment_signed" => \A x \in K : m.signature = x.info
  PROVE  signed_as(Append(q, m), K)
<1>1. /\ Len(Append(q, m)) = Len(q) + 1 /\ Len(q) \in Nat
      /\ \A i \in 1..Len(q) : Append(q, m)[i] = q[i]
      /\ Append(q, m)[Len(q) + 1] = m
  OBVIOUS
<1> HIDE DEF Message
<1> QED
  BY <1>1 DEF signed_as

-----------------------------------------------------------------------------
(* Steps that neither sign nor revoke. *)

\* Neither stream gains or loses a signature or a revocation.
streams_keep ==
  \A m \in Party :
    /\ \A t \in {"commitment_signed", "revoke_and_ack"} :
         /\ absent(net[m], t) => absent(net'[m], t)
         /\ once(net[m], t) => once(net'[m], t)
    /\ \A k \in Nat : carries(net[m], k) => carries(net'[m], k)
    /\ \A K : signed_as(net[m], K) => signed_as(net'[m], K)

\* A step that only sends, reads or refuses an update.
update_only ==
  /\ streams_keep
  /\ UNCHANGED commitmentVars
  /\ \A m \in Party :
       \/ error'[m] = error[m]
       \/ error[m] = "none" /\ error'[m] # "bad revocation"

\* Sending an update keeps the streams.
LEMMA UpdateAppended ==
  ASSUME TypeOK, NEW n \in Party, NEW m \in Message,
         m.type \notin {"commitment_signed", "revoke_and_ack"},
         net' = [net EXCEPT ![n] = Append(net[n], m)]
  PROVE  streams_keep
<1>1. net[n] \in Seq(Message) /\ net'[n] = Append(net[n], m)
  BY DEF TypeOK
<1>2. \A p \in Party : p # n => net'[p] = net[p]
  BY DEF TypeOK
<1>3. \A t \in {"commitment_signed", "revoke_and_ack"} :
        /\ absent(net[n], t) => absent(Append(net[n], m), t)
        /\ once(net[n], t) => once(Append(net[n], m), t)
  BY <1>1, AppendOther
<1>4. \A k \in Nat : carries(net[n], k) => carries(Append(net[n], m), k)
  BY <1>1, CarriesAppend
<1>5. \A K : signed_as(net[n], K) => signed_as(Append(net[n], m), K)
  BY <1>1, SignedAppend
<1> QED
  BY <1>1, <1>2, <1>3, <1>4, <1>5 DEF streams_keep

\* Reading an update keeps the streams.
LEMMA UpdateRead ==
  ASSUME TypeOK, NEW n \in Party, NEW t, t \notin {"commitment_signed", "revoke_and_ack"},
         receives(n, t), net' = read(n)
  PROVE  streams_keep
<1> DEFINE q == net[Peer(n)]
<1>1. q \in Seq(Message) /\ q # <<>> /\ Head(q).type = t
  BY PeerOf DEF TypeOK, receives
<1>2. net'[Peer(n)] = Tail(q) /\ net'[n] = net[n]
  BY HeadRead
<1> HIDE DEF q
<1>3. \A s \in {"commitment_signed", "revoke_and_ack"} :
        /\ absent(q, s) => absent(Tail(q), s)
        /\ once(q, s) => once(Tail(q), s)
  BY <1>1, TailMessages
<1>4. \A k \in Nat : carries(q, k) => carries(Tail(q), k)
  BY <1>1, CarriesTail
<1>5. \A K : signed_as(q, K) => signed_as(Tail(q), K)
  BY <1>1, SignedTail
<1>6. \A m \in Party : m = n \/ m = Peer(n)
  BY DEF Party, Peer
<1> QED
  BY <1>2, <1>3, <1>4, <1>5, <1>6 DEF streams_keep, q

\* A step that keeps the streams and the commitments keeps the invariant.
LEMMA UpdateStep ==
  ASSUME TypeOK, RevocationInv, update_only
  PROVE  RevocationInv'
<1> USE DEF update_only
<1>1. ASSUME NEW n \in Party
      PROVE  /\ exchange(n)' /\ revocation_fits(n)' /\ points_fit(n)'
             /\ (current_holder_commitment[n].number = holder_commitment_number[n])'
  <2>1. Peer(n) \in Party
    BY PeerOf, Zenon
  <2>2. exchange(n)'
    BY <2>1, Zenon DEF RevocationInv, exchange, streams_keep, running, commitmentVars
  <2>3. revocation_fits(n)'
    BY <2>1, Zenon DEF RevocationInv, revocation_fits, streams_keep, commitmentVars, TypeOK
  <2> QED
    BY <2>2, <2>3, Zenon DEF RevocationInv, points_fit, commitmentVars
<1>2. RevocationsAccepted'
  BY Zenon DEF RevocationInv, RevocationsAccepted
<1> QED
  BY <1>1, <1>2, Zenon DEF RevocationInv

\* A party that refuses an update changes nothing else.
LEMMA CloseStep ==
  ASSUME TypeOK, NEW n \in Party,
         NEW t, t \notin {"commitment_signed", "revoke_and_ack"}, receives(n, t),
         NEW reason, reason # "bad revocation", close(n, reason)
  PROVE  update_only
<1>1. streams_keep
  BY UpdateRead, Zenon DEF close
<1>2. error[n] = "none" /\ error' = [error EXCEPT ![n] = reason]
  BY Zenon DEF receives, running, close
<1>3. \A m \in Party : \/ error'[m] = error[m]
                       \/ error[m] = "none" /\ error'[m] # "bad revocation"
  BY <1>2, Zenon DEF TypeOK
<1> QED
  BY <1>1, <1>3, Zenon DEF close, update_only

\* The calls that send an update, or park one, do nothing else.
LEMMA SendUpdateSteps ==
  ASSUME OperatorTypes, TypeOK, NEW n \in Party
  PROVE  /\ \A p \in Payment : send_add_htlc(n, p) => update_only
         /\ \A h \in chan[n].htlcs, r \in Resolutions : send_resolve_htlc(n, h, r) => update_only
         /\ \A f \in Feerate : send_update_fee(n, f) => update_only
<1>1. chan[n] \in Channel
  BY DEF TypeOK
<1>2. ASSUME NEW op \in Op, park_or_send(n, op) PROVE update_only
  <2>1. CASE awaiting_raa[n]
    <3>1. streams_keep
      BY <1>2, <2>1 DEF park_or_send, streams_keep
    <3> QED
      BY <1>2, <3>1 DEF park_or_send, update_only
  <2>2. CASE ~awaiting_raa[n]
    <3> DEFINE m == update_message(chan[n], <<op>>, {1}, 1)
    <3>1. <<op>> \in Seq(Op) /\ {1} \in SUBSET DOMAIN <<op>>
      OBVIOUS
    <3>2. m \in Message
      BY <1>1, <3>1, Zenon DEF OperatorTypes
    <3>3. m.type \notin {"commitment_signed", "revoke_and_ack"}
      BY DEF update_message
    <3>4. net' = [net EXCEPT ![n] = Append(net[n], m)]
      BY <1>2, <2>2 DEF park_or_send
    <3> HIDE DEF m
    <3>5. streams_keep
      BY <3>2, <3>3, <3>4, UpdateAppended, Zenon
    <3> QED
      BY <1>2, <3>5 DEF park_or_send, update_only
  <2> QED
    BY <2>1, <2>2
<1>3. ASSUME NEW p \in Payment, send_add_htlc(n, p) PROVE update_only
  <2>1. Add(p) \in Op
    BY DEF Add, Op
  <2> QED
    BY <1>2, <1>3, <2>1 DEF send_add_htlc
<1>4. ASSUME NEW h \in chan[n].htlcs, NEW r \in Resolutions, send_resolve_htlc(n, h, r)
      PROVE  update_only
  <2>1. h.id \in Nat /\ r \in HtlcResolution
    BY <1>1, ConstantsAssumption DEF Channel, Htlc
  <2>2. Resolve(h.id, r) \in Op
    BY <2>1 DEF Resolve, Op
  <2> QED
    BY <1>2, <1>4, <2>2 DEF send_resolve_htlc
<1>5. ASSUME NEW f \in Feerate, send_update_fee(n, f) PROVE update_only
  <2> DEFINE m == [type |-> "update_fee", feerate |-> f]
  <2>1. f \in Nat
    BY ConstantsAssumption
  <2>2. m \in Message /\ m.type \notin {"commitment_signed", "revoke_and_ack"}
    BY <2>1 DEF Message
  <2>3. net' = [net EXCEPT ![n] = Append(net[n], m)]
    BY <1>5 DEF send_update_fee
  <2> HIDE DEF m
  <2>4. streams_keep
    BY <2>2, <2>3, UpdateAppended, Zenon
  <2> QED
    BY <1>5, <2>4 DEF send_update_fee, update_only
<1> QED
  BY <1>3, <1>4, <1>5

\* The handlers of updates only read or refuse them.
LEMMA ReadUpdateSteps ==
  ASSUME TypeOK, NEW n \in Party
  PROVE  /\ on_update_add_htlc(n) => update_only
         /\ on_update_remove_htlc(n) => update_only
         /\ on_update_fee(n) => update_only
<1>1. ASSUME on_update_add_htlc(n) PROVE update_only
  <2>1. receives(n, "update_add_htlc")
    BY <1>1, Zenon DEF on_update_add_htlc
  <2>2. CASE accepts_add(n, chan[n], message(n))
    BY <1>1, <2>1, <2>2, UpdateRead DEF on_update_add_htlc, update_only
  <2>3. CASE ~accepts_add(n, chan[n], message(n))
    BY <1>1, <2>1, <2>3, CloseStep, Zenon DEF on_update_add_htlc
  <2> QED
    BY <2>2, <2>3
<1>2. ASSUME on_update_remove_htlc(n) PROVE update_only
  <2>1. receives(n, "update_remove_htlc")
    BY <1>2, Zenon DEF on_update_remove_htlc
  <2>2. CASE {h \in chan[n].htlcs : outbound_committed(h, message(n).id)} # {}
    BY <1>2, <2>1, <2>2, UpdateRead, Zenon DEF on_update_remove_htlc, update_only
  <2>3. CASE {h \in chan[n].htlcs : outbound_committed(h, message(n).id)} = {}
    BY <1>2, <2>1, <2>3, CloseStep, Zenon DEF on_update_remove_htlc
  <2> QED
    BY <2>2, <2>3
<1>3. ASSUME on_update_fee(n) PROVE update_only
  <2>1. receives(n, "update_fee")
    BY <1>3, Zenon DEF on_update_fee
  <2>2. CASE accepts_feerate(n, message(n).feerate)
    BY <1>3, <2>1, <2>2, UpdateRead DEF on_update_fee, update_only
  <2>3. CASE ~accepts_feerate(n, message(n).feerate)
    BY <1>3, <2>1, <2>3, CloseStep, Zenon DEF on_update_fee
  <2> QED
    BY <2>2, <2>3
<1> QED
  BY <1>1, <1>2, <1>3

\* Whatever neither signs nor revokes is an update.
LEMMA UpdateActions ==
  ASSUME OperatorTypes, TypeOK, NEW n \in Party,
         \/ \E p \in Payment : send_add_htlc(n, p)
         \/ \E h \in chan[n].htlcs, r \in Resolutions : send_resolve_htlc(n, h, r)
         \/ \E f \in Feerate : send_update_fee(n, f)
         \/ on_update_add_htlc(n) \/ on_update_remove_htlc(n) \/ on_update_fee(n)
  PROVE  update_only
  BY SendUpdateSteps, ReadUpdateSteps

-----------------------------------------------------------------------------
(* Steps that sign or revoke. *)

\* A fact about both parties is a fact about n and about its peer.
LEMMA BothParties ==
  ASSUME NEW n \in Party,
         \A m \in {n, Peer(n)} :
           /\ exchange(m)' /\ revocation_fits(m)' /\ points_fit(m)'
           /\ (current_holder_commitment[m].number = holder_commitment_number[m])',
         RevocationsAccepted'
  PROVE  RevocationInv'
<1>1. \A m \in Party : m \in {n, Peer(n)}
  BY DEF Party, Peer
<1> QED
  BY <1>1 DEF RevocationInv

\* A first signature: the exchange of n goes from done to signature under way.
LEMMA SignStep ==
  ASSUME OperatorTypes, TypeOK, RevocationInv, NEW n \in Party, send_commitment_signed(n)
  PROVE  RevocationInv'
<1> DEFINE p == Peer(n)
           k == pending_commitment(n, chan[n], counterparty_commitment_number[n] + 1,
                                   counterparty_next_point[n])
           m == commitment_signed(k)
<1>1. p \in Party /\ p # n /\ Peer(p) = n
  BY PeerOf
<1>2. chan[n] \in Channel /\ net[n] \in Seq(Message) /\ counterparty_next_point[n] \in Nat
      /\ counterparty_commitment_number[n] + 1 \in Nat
  BY DEF TypeOK
<1>3. m \in Message /\ m.type = "commitment_signed"
  BY <1>2, Zenon DEF OperatorTypes, commitment_signed
<1>4. ~awaiting_raa[n]
  BY DEF send_commitment_signed, can_send_commitment
<1>5. /\ net' = [net EXCEPT ![n] = Append(net[n], m)]
      /\ awaiting_raa' = [awaiting_raa EXCEPT ![n] = TRUE]
      /\ UNCHANGED <<holder_commitment_number, counterparty_commitment_number,
                     counterparty_current_point, counterparty_next_point,
                     current_holder_commitment, error>>
  BY DEF send_commitment_signed
<1> HIDE DEF p, k, m
<1>6. net'[n] = Append(net[n], m) /\ net'[p] = net[p] /\ awaiting_raa'[n]
      /\ awaiting_raa'[p] = awaiting_raa[p]
  BY <1>1, <1>5 DEF TypeOK
<1>7. /\ absent(net[n], "commitment_signed") /\ absent(net[p], "revoke_and_ack")
      /\ holder_commitment_number[p] = counterparty_commitment_number[n]
  BY <1>1, <1>4 DEF RevocationInv, exchange, p
<1>8. once(net'[n], "commitment_signed")
  BY <1>2, <1>3, <1>6, <1>7, AppendSame
<1>9. /\ absent(net[n], "revoke_and_ack") => absent(net'[n], "revoke_and_ack")
      /\ once(net[n], "revoke_and_ack") => once(net'[n], "revoke_and_ack")
  BY <1>2, <1>3, <1>6, AppendOther
<1>10. exchange(n)'
  BY <1>5, <1>6, <1>7, <1>8 DEF exchange, p
<1>11. exchange(p)'
  BY <1>1, <1>5, <1>6, <1>9 DEF RevocationInv, exchange, running
<1>12. revocation_fits(n)' /\ revocation_fits(p)'
  <2>1. carries(net[n], counterparty_commitment_number[p])
    BY <1>1 DEF RevocationInv, revocation_fits
  <2>2. carries(net'[n], counterparty_commitment_number[p])
    BY <1>2, <1>3, <1>6, <2>1, CarriesAppend
  <2> QED
    BY <1>1, <1>5, <1>6, <2>2 DEF RevocationInv, revocation_fits, p
<1> QED
  BY <1>1, <1>5, <1>10, <1>11, <1>12, BothParties, Zenon
     DEF RevocationInv, points_fit, RevocationsAccepted, p

\* A commitment_signed answered: the exchange of the peer goes from signature to
\* revocation under way, or stops because n failed the channel.
LEMMA RevokeStep ==
  ASSUME TypeOK, RevocationInv, NEW n \in Party, on_commitment_signed(n)
  PROVE  RevocationInv'
<1> DEFINE p == Peer(n)
           number == holder_commitment_number[n] + 1
           built == build_holder_commitment_at(chan[n], number)
           raa == [type |-> "revoke_and_ack", secret |-> number - 1, next_point |-> number + 1]
           ok == chan[n].state \in {"Normal", "ShuttingDown"} /\ message(n).signature = built
<1>1. p \in Party /\ p # n /\ Peer(p) = n
  BY PeerOf
<1>2. /\ net[n] \in Seq(Message) /\ net[p] \in Seq(Message) /\ net[p] # <<>>
      /\ Head(net[p]).type = "commitment_signed"
      /\ read(n)[n] = net[n] /\ read(n)[p] = Tail(net[p])
      /\ read(n) \in [Party -> Seq(Message)]
  <2>1. receives(n, "commitment_signed")
    BY Zenon DEF on_commitment_signed
  <2> QED
    BY <1>1, <2>1, HeadRead, Zenon DEF TypeOK, receives
<1>3. holder_commitment_number[n] \in Nat /\ counterparty_commitment_number[p] \in Nat
  BY <1>1 DEF TypeOK
<1>4. /\ awaiting_raa[p] /\ once(net[p], "commitment_signed")
      /\ absent(net[n], "revoke_and_ack")
      /\ holder_commitment_number[n] = counterparty_commitment_number[p]
  <2>1. ~absent(net[p], "commitment_signed")
    BY <1>2, TailMessages
  <2>2. exchange(p)
    BY <1>1 DEF RevocationInv
  <2> QED
    BY <1>1, <2>1, <2>2 DEF exchange
<1>5. /\ absent(Tail(net[p]), "commitment_signed")
      /\ absent(net[p], "revoke_and_ack") => absent(Tail(net[p]), "revoke_and_ack")
      /\ once(net[p], "revoke_and_ack") => once(Tail(net[p]), "revoke_and_ack")
      /\ carries(Tail(net[p]), counterparty_commitment_number[n])
  <2>1. carries(net[p], counterparty_commitment_number[n])
    BY DEF RevocationInv, revocation_fits
  <2> QED
    BY <1>2, <1>4, <2>1, TailMessages, CarriesTail
<1>6. CASE ok
  <2>1. raa \in Message /\ raa.type = "revoke_and_ack"
        /\ raa.secret = holder_commitment_number[n]
        /\ raa.next_point = holder_commitment_number[n] + 2
    BY <1>3 DEF Message
  <2>2. /\ net' = [read(n) EXCEPT ![n] = Append(read(n)[n], raa)]
        /\ holder_commitment_number' = [holder_commitment_number EXCEPT ![n] = number]
        /\ current_holder_commitment' = [current_holder_commitment EXCEPT ![n] = built]
        /\ UNCHANGED <<counterparty_commitment_number, counterparty_current_point,
                       counterparty_next_point, awaiting_raa, error>>
    BY <1>6 DEF on_commitment_signed, revoke_and_ack
  <2>3. built.number = number
    BY DEF build_holder_commitment_at
  <2> HIDE DEF p, raa, built, ok
  <2>4. /\ net'[n] = Append(net[n], raa) /\ net'[p] = Tail(net[p])
        /\ holder_commitment_number'[n] = holder_commitment_number[n] + 1
        /\ holder_commitment_number'[p] = holder_commitment_number[p]
        /\ current_holder_commitment'[n] = built
        /\ current_holder_commitment'[p] = current_holder_commitment[p]
    BY <1>1, <1>2, <2>2 DEF TypeOK
  <2>5. once(net'[n], "revoke_and_ack")
    BY <1>2, <1>4, <2>1, <2>4, AppendSame
  <2>6. /\ absent(net[n], "commitment_signed") => absent(net'[n], "commitment_signed")
        /\ once(net[n], "commitment_signed") => once(net'[n], "commitment_signed")
    BY <1>2, <2>1, <2>4, AppendOther
  <2>7. exchange(p)'
    BY <1>1, <1>4, <1>5, <2>2, <2>4, <2>5 DEF exchange
  <2>8. exchange(n)'
    BY <1>1, <1>5, <2>2, <2>4, <2>6, Zenon DEF RevocationInv, exchange, running, p
  <2>9. revocation_fits(n)' /\ revocation_fits(p)'
    <3>1. carries(net[n], counterparty_commitment_number[p])
      BY <1>4, CarriesAbsent
    <3>2. carries(net'[n], counterparty_commitment_number[p])
      BY <1>2, <1>4, <2>1, <2>4, <3>1, CarriesAppend
    <3> QED
      BY <1>1, <1>5, <2>2, <2>4, <3>2 DEF revocation_fits, p
  <2>10. points_fit(n)' /\ points_fit(p)' /\ RevocationsAccepted'
    BY <1>1, <2>2, Zenon DEF RevocationInv, points_fit, RevocationsAccepted
  <2>11. \A m \in {n, p} :
           (current_holder_commitment[m].number = holder_commitment_number[m])'
    BY <1>1, <2>3, <2>4 DEF RevocationInv
  <2> QED
    BY <2>7, <2>8, <2>9, <2>10, <2>11, BothParties DEF p
<1>7. CASE ~ok
  <2>1. close(n, "bad signature")
    BY <1>7, Zenon DEF on_commitment_signed
  <2>2. /\ net' = read(n) /\ error' = [error EXCEPT ![n] = "bad signature"]
        /\ UNCHANGED commitmentVars
    BY <2>1, Zenon DEF close
  <2> HIDE DEF p, ok
  <2>3. net'[n] = net[n] /\ net'[p] = Tail(net[p]) /\ error'[n] = "bad signature"
        /\ error'[p] = error[p]
    BY <1>1, <1>2, <2>2, Zenon DEF TypeOK
  <2>4. exchange(p)'
    BY <1>1, <1>4, <1>5, <2>2, <2>3, Zenon DEF exchange, running, commitmentVars
  <2>5. exchange(n)'
    BY <1>1, <1>5, <2>2, <2>3, Zenon DEF RevocationInv, exchange, running, commitmentVars, p
  <2>6. revocation_fits(n)' /\ revocation_fits(p)'
    BY <1>1, <1>5, <2>2, <2>3, Zenon DEF RevocationInv, revocation_fits, commitmentVars, p
  <2>7. RevocationsAccepted'
    BY <1>1, <2>3, Zenon DEF RevocationInv, RevocationsAccepted, Party, Peer, p
  <2> QED
    BY <1>1, <2>2, <2>4, <2>5, <2>6, <2>7, BothParties, Zenon
       DEF RevocationInv, points_fit, commitmentVars, p
<1> QED
  BY <1>6, <1>7

\* A revoke_and_ack read is the one awaited and carries the expected secret.
LEMMA RevocationAwaited ==
  ASSUME TypeOK, RevocationInv, NEW n \in Party, receives(n, "revoke_and_ack")
  PROVE  /\ awaiting_raa[n]
         /\ absent(net[n], "commitment_signed") /\ once(net[Peer(n)], "revoke_and_ack")
         /\ holder_commitment_number[Peer(n)] = counterparty_commitment_number[n] + 1
         /\ message(n).secret = counterparty_current_point[n]
         /\ message(n).secret = counterparty_commitment_number[n]
         /\ message(n).next_point = counterparty_commitment_number[n] + 2
<1> DEFINE q == net[Peer(n)]
<1>1. /\ q \in Seq(Message) /\ q # <<>> /\ Head(q).type = "revoke_and_ack"
      /\ message(n) = Head(q)
  BY PeerOf DEF TypeOK, receives, message
<1>2. ~absent(q, "revoke_and_ack")
  BY <1>1, TailMessages
<1>3. exchange(n) /\ carries(q, counterparty_commitment_number[n]) /\ points_fit(n)
  BY DEF RevocationInv, revocation_fits
<1>4. Len(q) \in Nat /\ 1 \in 1..Len(q) /\ Head(q) = q[1]
  BY <1>1
<1>5. /\ message(n).secret = counterparty_commitment_number[n]
      /\ message(n).next_point = counterparty_commitment_number[n] + 2
  <2> HIDE DEF q
  <2> QED
    BY <1>1, <1>3, <1>4 DEF carries
<1> QED
  BY <1>2, <1>3, <1>5 DEF exchange, points_fit

\* A revoke_and_ack read: the exchange of n is done, or starts again at once with
\* the signature that the handler sends.
LEMMA AcknowledgeStep ==
  ASSUME OperatorTypes, TypeOK, RevocationInv, NEW n \in Party,
         on_revoke_and_ack(n), acknowledges(n)
  PROVE  RevocationInv'
<1> DEFINE p == Peer(n)
           ours == counterparty_commitment_number[n]
<1>1. p \in Party /\ p # n /\ Peer(p) = n
  BY PeerOf
<1>2. receives(n, "revoke_and_ack")
  BY Zenon DEF on_revoke_and_ack
<1>3. /\ net[n] \in Seq(Message) /\ net[p] \in Seq(Message) /\ net[p] # <<>>
      /\ Head(net[p]).type = "revoke_and_ack"
      /\ read(n)[p] = Tail(net[p]) /\ read(n) \in [Party -> Seq(Message)]
      /\ ours \in Nat
  BY <1>1, <1>2, HeadRead, Zenon DEF TypeOK, receives
<1>4. /\ awaiting_raa[n]
      /\ absent(net[n], "commitment_signed") /\ once(net[p], "revoke_and_ack")
      /\ holder_commitment_number[p] = ours + 1
      /\ message(n).secret = counterparty_current_point[n]
      /\ message(n).secret = ours
      /\ message(n).next_point = ours + 2
  BY <1>2, RevocationAwaited
<1>5. PICK d \in Channel, updates \in Seq(Message), signs \in BOOLEAN,
           acked \in PendingCommitment, pending \in PendingCommitment :
         raa_effect(n, d, updates, signs, acked, pending)
  BY <1>4 DEF acknowledges
<1> DEFINE cs == commitment_signed(pending)
           sent == net[n] \o updates
           tail == IF signs THEN <<cs>> ELSE <<>>
<1>6. /\ absent(updates, "commitment_signed") /\ absent(updates, "revoke_and_ack")
      /\ cs \in Message /\ cs.type = "commitment_signed"
      /\ awaiting_raa' = [awaiting_raa EXCEPT ![n] = signs]
      /\ net' = [read(n) EXCEPT ![n] = sent \o tail]
      /\ counterparty_commitment_number' =
           [counterparty_commitment_number EXCEPT ![n] = ours + 1]
      /\ counterparty_current_point' =
           [counterparty_current_point EXCEPT ![n] = counterparty_next_point[n]]
      /\ counterparty_next_point' =
           [counterparty_next_point EXCEPT ![n] = message(n).next_point]
      /\ UNCHANGED <<holder_commitment_number, current_holder_commitment, error>>
  BY <1>5 DEF raa_effect, commitment_signed
<1> HIDE DEF p, cs, sent, tail, ours
<1>7. /\ net'[n] = sent \o tail /\ net'[p] = Tail(net[p])
      /\ awaiting_raa'[n] = signs /\ awaiting_raa'[p] = awaiting_raa[p]
      /\ counterparty_commitment_number'[n] = ours + 1
      /\ counterparty_commitment_number'[p] = counterparty_commitment_number[p]
      /\ counterparty_current_point'[n] = counterparty_next_point[n]
      /\ counterparty_next_point'[n] = ours + 2
      /\ counterparty_current_point'[p] = counterparty_current_point[p]
      /\ counterparty_next_point'[p] = counterparty_next_point[p]
  BY <1>1, <1>3, <1>4, <1>6 DEF TypeOK
<1>8. /\ sent \in Seq(Message) /\ absent(sent, "commitment_signed")
      /\ absent(net[n], "revoke_and_ack") => absent(sent, "revoke_and_ack")
      /\ once(net[n], "revoke_and_ack") => once(sent, "revoke_and_ack")
      /\ carries(sent, counterparty_commitment_number[p])
  <2>1. carries(net[n], counterparty_commitment_number[p])
    BY <1>1 DEF RevocationInv, revocation_fits
  <2> QED
    BY <1>3, <1>4, <1>6, <2>1, ConcatOther, CarriesConcat DEF sent
<1>9. /\ signs => once(net'[n], "commitment_signed")
      /\ ~signs => absent(net'[n], "commitment_signed")
      /\ absent(net[n], "revoke_and_ack") => absent(net'[n], "revoke_and_ack")
      /\ once(net[n], "revoke_and_ack") => once(net'[n], "revoke_and_ack")
      /\ carries(net'[n], counterparty_commitment_number[p])
  <2>1. CASE signs
    <3>1. net'[n] = Append(sent, cs)
      BY <1>6, <1>7, <1>8, <2>1 DEF tail
    <3> QED
      BY <1>6, <1>8, <2>1, <3>1, AppendSame, AppendOther, CarriesAppend, Zenon
  <2>2. CASE ~signs
    <3>1. net'[n] = sent
      BY <1>7, <1>8, <2>2 DEF tail
    <3> QED
      BY <1>8, <2>2, <3>1
  <2> QED
    BY <2>1, <2>2
<1>10. /\ absent(net'[p], "revoke_and_ack")
       /\ absent(net[p], "commitment_signed") => absent(net'[p], "commitment_signed")
       /\ once(net[p], "commitment_signed") => once(net'[p], "commitment_signed")
  <2> DEFINE q == net[p]
  <2>1. /\ q \in Seq(Message) /\ q # <<>> /\ Head(q).type = "revoke_and_ack"
        /\ once(q, "revoke_and_ack") /\ net'[p] = Tail(q)
    BY <1>3, <1>4, <1>7
  <2> HIDE DEF q
  <2>2. absent(Tail(q), "revoke_and_ack")
    BY <2>1, TailMessages
  <2>3. absent(q, "commitment_signed") => absent(Tail(q), "commitment_signed")
    BY <2>1, TailMessages
  <2>4. Head(q).type # "commitment_signed"
    BY <2>1
  <2>5. once(q, "commitment_signed") => once(Tail(q), "commitment_signed")
    BY <2>1, <2>4, TailMessages
  <2> QED
    BY <2>1, <2>2, <2>3, <2>5 DEF q
<1>11. exchange(n)'
  BY <1>1, <1>4, <1>6, <1>7, <1>9, <1>10, Zenon DEF exchange, p
<1>12. exchange(p)'
  <2>1. exchange(p)
    BY <1>1 DEF RevocationInv
  <2> QED
    BY <1>1, <1>6, <1>7, <1>9, <1>10, <2>1, Zenon DEF exchange, running
<1>13. revocation_fits(n)' /\ revocation_fits(p)'
  BY <1>1, <1>7, <1>9, <1>10, CarriesAbsent, Zenon DEF revocation_fits, p
<1>14. points_fit(n)' /\ points_fit(p)'
  <2>1. points_fit(n) /\ points_fit(p)
    BY <1>1 DEF RevocationInv
  <2> QED
    BY <1>3, <1>7, <2>1 DEF points_fit, ours
<1>15. RevocationsAccepted' /\ \A m \in {n, p} :
         (current_holder_commitment[m].number = holder_commitment_number[m])'
  BY <1>1, <1>6, Zenon DEF RevocationInv, RevocationsAccepted
<1> QED
  BY <1>11, <1>12, <1>13, <1>14, <1>15, BothParties DEF p

-----------------------------------------------------------------------------
(* RevocationInv is inductive. *)

\* Initially both exchanges are done.
LEMMA InitRevocation == Init => RevocationInv
<1> SUFFICES ASSUME Init PROVE RevocationInv
  OBVIOUS
<1>1. \A n \in Party : net[n] = <<>> /\ Peer(n) \in Party
  BY PeerOf DEF Init
<1>2. \A t : absent(<<>>, t)
  BY DEF absent
<1>3. ASSUME NEW n \in Party
      PROVE  /\ exchange(n) /\ revocation_fits(n) /\ points_fit(n)
             /\ current_holder_commitment[n].number = holder_commitment_number[n]
  <2>1. exchange(n)
    BY <1>1, <1>2 DEF Init, exchange
  <2>2. revocation_fits(n)
    BY <1>1, <1>2, CarriesAbsent DEF revocation_fits
  <2>3. points_fit(n)
    BY DEF Init, points_fit
  <2>4. current_holder_commitment[n].number = holder_commitment_number[n]
    BY DEF Init, build_holder_commitment_at
  <2> QED
    BY <2>1, <2>2, <2>3, <2>4
<1>4. RevocationsAccepted
  BY DEF Init, RevocationsAccepted
<1> QED
  BY <1>3, <1>4 DEF RevocationInv

\* RevocationInv is inductive relative to the types and PendingKnown.
LEMMA NextRevocation ==
  ASSUME OperatorTypes, \A n \in Party : on_revoke_and_ack(n) => acknowledges(n),
         TypeOK, RevocationInv, [Next]_vars
  PROVE  RevocationInv'
<1>1. CASE UNCHANGED vars
  BY <1>1, Zenon DEF vars, commitmentVars, RevocationInv, exchange, revocation_fits, points_fit,
              RevocationsAccepted, running
<1>2. ASSUME NEW n \in Party,
             \/ \E p \in Payment : send_add_htlc(n, p)
             \/ \E h \in chan[n].htlcs, r \in Resolutions : send_resolve_htlc(n, h, r)
             \/ \E f \in Feerate : send_update_fee(n, f)
             \/ on_update_add_htlc(n) \/ on_update_remove_htlc(n) \/ on_update_fee(n)
      PROVE  RevocationInv'
  BY <1>2, UpdateActions, UpdateStep
<1>3. ASSUME NEW n \in Party, send_commitment_signed(n) PROVE RevocationInv'
  BY <1>3, SignStep
<1>4. ASSUME NEW n \in Party, on_commitment_signed(n) PROVE RevocationInv'
  BY <1>4, RevokeStep
<1>5. ASSUME NEW n \in Party, on_revoke_and_ack(n) PROVE RevocationInv'
  BY <1>5, AcknowledgeStep
<1> QED
  BY <1>1, <1>2, <1>3, <1>4, <1>5 DEF Next

-----------------------------------------------------------------------------
(* What each party has on record of its peer's commitments. *)

\* A fact about n and about its peer is a fact about both parties.
LEMMA BothRecords ==
  ASSUME NEW n \in Party,
         \A m \in {n, Peer(n)} :
           record_single(m)' /\ signature_fits(m)' /\ record_numbers(m)' /\ record_held(m)'
  PROVE  RecordInv'
<1>1. \A m \in Party : m \in {n, Peer(n)}
  BY DEF Party, Peer
<1> QED
  BY <1>1 DEF RecordInv

\* A channel that has just opened gives both parties the same commitments 0.
LEMMA NewChannelCommitment ==
  ASSUME NEW n \in Party
  PROVE  build_holder_commitment_at(new_channel(Peer(n)), 0)
           = build_counterparty_commitment_at(new_channel(n), 0, 0)
<1> DEFINE p == Peer(n)
           vp == saturating_sub(Balance[p] + total({}), total({}))
           vn == saturating_sub(Balance[n] + total({}), total({}))
           bp == balances_for(new_channel(p), TRUE)
           bn == balances_for(new_channel(n), FALSE)
<1>1. p \in Party /\ Peer(p) = n
  BY PeerOf
<1>2. new_channel(n).htlcs = {} /\ new_channel(p).htlcs = {}
  BY DEF new_channel
<1>3. /\ fulfilled(new_channel(p), TRUE) = {} /\ escrowed(new_channel(p), TRUE) = {}
      /\ fulfilled(new_channel(n), FALSE) = {} /\ escrowed(new_channel(n), FALSE) = {}
  BY <1>2 DEF fulfilled, escrowed
<1>4. /\ {h \in {} : h.outbound} = {} /\ {h \in {} : ~h.outbound} = {}
      /\ {} \cup {} = {}
  OBVIOUS
<1>5. bp = [to_holder |-> vp, to_counterparty |-> vn]
  <2>1. new_channel(p).to_holder_msat = Balance[p] /\ new_channel(p).to_counterparty_msat = Balance[n]
    BY <1>1 DEF new_channel
  <2> HIDE DEF p
  <2> QED
    BY <1>3, <1>4, <2>1, Zenon DEF balances_for
<1>6. bn = [to_holder |-> vn, to_counterparty |-> vp]
  <2>1. new_channel(n).to_holder_msat = Balance[n] /\ new_channel(n).to_counterparty_msat = Balance[p]
    BY DEF new_channel
  <2> HIDE DEF p
  <2> QED
    BY <1>3, <1>4, <2>1, Zenon DEF balances_for
<1>7. /\ {htlc_in_commitment(h, TRUE) : h \in escrowed(new_channel(p), TRUE)} = {}
      /\ {htlc_in_commitment(h, FALSE) : h \in escrowed(new_channel(n), FALSE)} = {}
  BY <1>3, Zenon
<1>8. new_channel(p).feerate_holder = InitialFeerate /\ new_channel(n).feerate_counterparty = InitialFeerate
  BY DEF new_channel
<1> HIDE DEF p, bp, bn, vp, vn
<1>9. bp.to_holder = bn.to_counterparty /\ bp.to_counterparty = bn.to_holder
  BY <1>5, <1>6
<1>10. build_holder_commitment_at(new_channel(p), 0) =
         [number |-> 0, point |-> 0, feerate |-> InitialFeerate, htlcs |-> {},
          to_broadcaster |-> bp.to_holder, to_countersignatory |-> bp.to_counterparty]
  BY <1>7, <1>8, Zenon DEF build_holder_commitment_at, bp
<1>11. build_counterparty_commitment_at(new_channel(n), 0, 0) =
         [number |-> 0, point |-> 0, feerate |-> InitialFeerate, htlcs |-> {},
          to_broadcaster |-> bn.to_counterparty, to_countersignatory |-> bn.to_holder]
  BY <1>7, <1>8, Zenon DEF build_counterparty_commitment_at, bn
<1> QED
  BY <1>9, <1>10, <1>11 DEF p

\* Initially both parties have commitment 0 of their peer on record.
LEMMA InitRecord == Init => RecordInv
<1> SUFFICES ASSUME Init, NEW n \in Party
             PROVE  record_single(n) /\ signature_fits(n) /\ record_numbers(n) /\ record_held(n)
  BY DEF RecordInv
<1>1. Peer(n) \in Party
  BY PeerOf
<1>2. record_single(n)
  BY DEF Init, record_single, None
<1>3. signature_fits(n)
  BY SignedAbsent DEF Init, signature_fits, absent
<1>4. record_numbers(n)
  BY DEF Init, record_numbers, None, build_counterparty_commitment_at
<1>5. record_held(n)
  BY <1>1, NewChannelCommitment DEF Init, record_held
<1> QED
  BY <1>2, <1>3, <1>4, <1>5

\* Updates touch no record.
LEMMA UpdateRecord == ASSUME RecordInv, update_only PROVE RecordInv'
<1> SUFFICES ASSUME NEW n \in Party
             PROVE  record_single(n)' /\ signature_fits(n)' /\ record_numbers(n)' /\ record_held(n)'
  BY DEF RecordInv
<1>1. record_single(n) /\ signature_fits(n) /\ record_numbers(n) /\ record_held(n)
  BY DEF RecordInv
<1>2. signature_fits(n)'
  BY <1>1, Zenon DEF update_only, streams_keep, commitmentVars, signature_fits
<1> QED
  BY <1>1, <1>2, Zenon DEF update_only, commitmentVars, record_single, record_numbers, record_held

\* send_commitment_signed puts what it signs on record.
LEMMA SignRecord ==
  ASSUME OperatorTypes, TypeOK, RevocationInv, RecordInv, NEW n \in Party, send_commitment_signed(n)
  PROVE  RecordInv'
<1> DEFINE p == Peer(n)
           number == counterparty_commitment_number[n] + 1
           k == pending_commitment(n, chan[n], number, counterparty_next_point[n])
           m == commitment_signed(k)
<1>1. p \in Party /\ p # n /\ Peer(p) = n
  BY PeerOf
<1>2. chan[n] \in Channel /\ net[n] \in Seq(Message) /\ counterparty_next_point[n] \in Nat
      /\ number \in Nat
  BY DEF TypeOK
<1>3. m \in Message /\ m.type = "commitment_signed" /\ m.signature = k.info
      /\ k.info.number = number
  <2>1. m \in Message /\ k.info.number = number
    BY <1>2, ZenonT(40) DEF OperatorTypes
  <2> HIDE DEF k
  <2>2. m.type = "commitment_signed" /\ m.signature = k.info
    BY DEF commitment_signed
  <2> QED
    BY <2>1, <2>2
<1>4. ~awaiting_raa[n]
  BY DEF send_commitment_signed, can_send_commitment
<1>5. /\ net' = [net EXCEPT ![n] = Append(net[n], m)]
      /\ pending_counterparty_commitment' =
           [pending_counterparty_commitment EXCEPT ![n] = Some(k)]
      /\ awaiting_raa' = [awaiting_raa EXCEPT ![n] = TRUE]
      /\ UNCHANGED <<holder_commitment_number, counterparty_commitment_number,
                     current_holder_commitment, current_counterparty_commitment>>
  BY DEF send_commitment_signed
<1> HIDE DEF p, k, m
<1>6. /\ net'[n] = Append(net[n], m) /\ net'[p] = net[p]
      /\ awaiting_raa'[n] /\ awaiting_raa'[p] = awaiting_raa[p]
      /\ pending_counterparty_commitment'[n] = {k}
      /\ pending_counterparty_commitment'[p] = pending_counterparty_commitment[p]
  BY <1>1, <1>5 DEF TypeOK, Some
<1>7. /\ absent(net[n], "commitment_signed")
      /\ holder_commitment_number[p] = counterparty_commitment_number[n]
  BY <1>1, <1>4, Zenon DEF RevocationInv, exchange, p
<1>8. signature_fits(n)'
  <2>1. signed_as(net[n], {k})
    BY <1>7, SignedAbsent, Zenon
  <2>2. signed_as(Append(net[n], m), {k})
    BY <1>2, <1>3, <2>1, SignedAppend
  <2> QED
    BY <1>6, <2>2 DEF signature_fits
<1>9. record_single(n)' /\ record_numbers(n)' /\ record_held(n)'
  <2>1. record_numbers(n) /\ record_held(n)
    BY DEF RecordInv
  <2> QED
    BY <1>3, <1>5, <1>6, <1>7, <2>1, Zenon DEF record_single, record_numbers, record_held, p
<1>10. record_single(p)' /\ signature_fits(p)' /\ record_numbers(p)' /\ record_held(p)'
  <2>1. record_single(p) /\ signature_fits(p) /\ record_numbers(p) /\ record_held(p)
    BY <1>1 DEF RecordInv
  <2> QED
    BY <1>1, <1>5, <1>6, <2>1, Zenon DEF record_single, signature_fits, record_numbers, record_held
<1> QED
  BY <1>8, <1>9, <1>10, BothRecords DEF p

\* on_commitment_signed locks the commitment that the signature is for, which is the
\* one the peer has on record.
LEMMA RevokeRecord ==
  ASSUME TypeOK, RevocationInv, RecordInv, NEW n \in Party, on_commitment_signed(n)
  PROVE  RecordInv'
<1> DEFINE p == Peer(n)
           number == holder_commitment_number[n] + 1
           built == build_holder_commitment_at(chan[n], number)
           raa == revoke_and_ack(number)
           ok == chan[n].state \in {"Normal", "ShuttingDown"} /\ message(n).signature = built
<1>1. p \in Party /\ p # n /\ Peer(p) = n
  BY PeerOf
<1>2. /\ net[n] \in Seq(Message) /\ net[p] \in Seq(Message) /\ net[p] # <<>>
      /\ message(n) = Head(net[p]) /\ Head(net[p]).type = "commitment_signed"
      /\ read(n)[n] = net[n] /\ read(n)[p] = Tail(net[p])
      /\ read(n) \in [Party -> Seq(Message)]
  <2>1. receives(n, "commitment_signed")
    BY Zenon DEF on_commitment_signed
  <2> QED
    BY <1>1, <2>1, HeadRead, Zenon DEF TypeOK, receives, message
<1>3. holder_commitment_number[n] \in Nat /\ counterparty_commitment_number[p] \in Nat
  BY <1>1 DEF TypeOK
<1>4. /\ awaiting_raa[p] /\ once(net[p], "commitment_signed")
      /\ holder_commitment_number[n] = counterparty_commitment_number[p]
  <2>1. ~absent(net[p], "commitment_signed")
    BY <1>2, TailMessages, Zenon
  <2>2. exchange(p)
    BY <1>1, Zenon DEF RevocationInv
  <2> QED
    BY <1>1, <2>1, <2>2, Zenon DEF exchange
<1>5. /\ record_single(n) /\ signature_fits(n) /\ record_numbers(n) /\ record_held(n)
      /\ record_single(p) /\ signature_fits(p) /\ record_numbers(p) /\ record_held(p)
  BY <1>1 DEF RecordInv
<1>6. \A x \in pending_counterparty_commitment[p] : message(n).signature = x.info
  <2> DEFINE q == net[p]
  <2>1. signed_as(q, pending_counterparty_commitment[p])
    BY <1>5 DEF signature_fits
  <2>2. q \in Seq(Message) /\ q # <<>> /\ Head(q).type = "commitment_signed"
    BY <1>2
  <2> HIDE DEF q
  <2>3. Len(q) \in Nat /\ 1 \in 1..Len(q) /\ Head(q) = q[1]
    BY <2>2
  <2> QED
    BY <1>2, <2>1, <2>2, <2>3 DEF signed_as, q
<1>7. /\ signed_as(Tail(net[p]), pending_counterparty_commitment[p])
  BY <1>2, <1>5, SignedTail DEF signature_fits
<1>8. CASE ok
  <2>1. raa \in Message /\ raa.type = "revoke_and_ack"
    BY <1>3 DEF Message, revoke_and_ack
  <2>2. /\ net' = [read(n) EXCEPT ![n] = Append(read(n)[n], raa)]
        /\ holder_commitment_number' = [holder_commitment_number EXCEPT ![n] = number]
        /\ current_holder_commitment' = [current_holder_commitment EXCEPT ![n] = built]
        /\ UNCHANGED <<counterparty_commitment_number, current_counterparty_commitment,
                       pending_counterparty_commitment, awaiting_raa>>
    BY <1>8 DEF on_commitment_signed
  <2>3. \A x \in pending_counterparty_commitment[p] : built = x.info
    BY <1>6, <1>8
  <2> HIDE DEF p, raa, built, ok
  <2>4. /\ net'[n] = Append(net[n], raa) /\ net'[p] = Tail(net[p])
        /\ holder_commitment_number'[n] = holder_commitment_number[n] + 1
        /\ holder_commitment_number'[p] = holder_commitment_number[p]
        /\ current_holder_commitment'[n] = built
        /\ current_holder_commitment'[p] = current_holder_commitment[p]
    BY <1>1, <1>2, <2>2, Zenon DEF TypeOK
  <2>5. signature_fits(n)' /\ signature_fits(p)'
    <3> DEFINE K == pending_counterparty_commitment[n]
               q == net[n]
    <3>1. /\ q \in Seq(Message) /\ signed_as(q, K)
          /\ raa.type = "commitment_signed" => \A x \in K : raa.signature = x.info
      BY <1>2, <1>5, <2>1, Zenon DEF signature_fits
    <3> HIDE DEF K, q
    <3>2. signed_as(Append(q, raa), K)
      BY <2>1, <3>1, SignedAppend, Zenon
    <3> QED
      BY <1>7, <2>2, <2>4, <3>2, Zenon DEF signature_fits, K, q
  <2>6. record_held(n)'
    BY <1>5, <2>2, <2>4, Zenon DEF record_held, p
  <2>8. record_held(p)'
    <3>1. holder_commitment_number'[n] # counterparty_commitment_number'[p]
      BY <1>3, <1>4, <2>2, <2>4, Following, Zenon
    <3> QED
      BY <1>1, <2>2, <2>3, <2>4, <3>1, Zenon DEF record_held
  <2>7. record_single(n)' /\ record_numbers(n)' /\ record_single(p)' /\ record_numbers(p)'
    BY <1>5, <2>2, Zenon DEF record_single, record_numbers
  <2> QED
    BY <2>5, <2>6, <2>7, <2>8, BothRecords, Zenon DEF p
<1>9. CASE ~ok
  <2>1. close(n, "bad signature")
    BY <1>9, Zenon DEF on_commitment_signed
  <2>2. net' = read(n) /\ UNCHANGED commitmentVars
    BY <2>1, Zenon DEF close
  <2> HIDE DEF p, ok
  <2>3. signature_fits(n)' /\ signature_fits(p)'
    BY <1>2, <1>5, <1>7, <2>2 DEF signature_fits, commitmentVars
  <2>4. /\ record_single(n)' /\ record_numbers(n)' /\ record_held(n)'
        /\ record_single(p)' /\ record_numbers(p)' /\ record_held(p)'
    BY <1>5, <2>2, Zenon DEF record_single, record_numbers, record_held, commitmentVars
  <2> QED
    BY <2>3, <2>4, BothRecords DEF p
<1> QED
  BY <1>8, <1>9

\* on_revoke_and_ack makes the commitment on record the current one, and records
\* what it signs at once.
LEMMA AcknowledgeRecord ==
  ASSUME OperatorTypes, TypeOK, RevocationInv, RecordInv, NEW n \in Party,
         on_revoke_and_ack(n), acknowledges(n)
  PROVE  RecordInv'
<1> DEFINE p == Peer(n)
           ours == counterparty_commitment_number[n]
<1>1. p \in Party /\ p # n /\ Peer(p) = n
  BY PeerOf
<1>2. receives(n, "revoke_and_ack")
  BY Zenon DEF on_revoke_and_ack
<1>3. /\ net[n] \in Seq(Message) /\ net[p] \in Seq(Message) /\ net[p] # <<>>
      /\ read(n)[p] = Tail(net[p]) /\ read(n) \in [Party -> Seq(Message)]
      /\ ours \in Nat /\ message(n) \in Message
  BY <1>1, <1>2, HeadRead, Zenon DEF TypeOK, receives
<1>4. /\ awaiting_raa[n] /\ absent(net[n], "commitment_signed")
      /\ holder_commitment_number[p] = ours + 1
      /\ message(n).secret = counterparty_current_point[n]
      /\ message(n).secret = ours
      /\ message(n).next_point = ours + 2
  BY <1>2, RevocationAwaited, Zenon
<1>5. PICK d \in Channel, updates \in Seq(Message), signs \in BOOLEAN,
           acked \in PendingCommitment, pending \in PendingCommitment :
         raa_effect(n, d, updates, signs, acked, pending)
  BY <1>4 DEF acknowledges
<1> DEFINE cs == commitment_signed(pending)
           sent == net[n] \o updates
           tail == IF signs THEN <<cs>> ELSE <<>>
<1>6. /\ acked \in pending_counterparty_commitment[n]
      /\ absent(updates, "commitment_signed")
      /\ cs \in Message /\ cs.signature = pending.info
      /\ pending_counterparty_commitment' =
           [pending_counterparty_commitment EXCEPT ![n] = IF signs THEN Some(pending) ELSE None]
      /\ awaiting_raa' = [awaiting_raa EXCEPT ![n] = signs]
      /\ net' = [read(n) EXCEPT ![n] = sent \o tail]
      /\ counterparty_commitment_number' =
           [counterparty_commitment_number EXCEPT ![n] = ours + 1]
      /\ current_counterparty_commitment' =
           [current_counterparty_commitment EXCEPT ![n] = acked.info]
      /\ UNCHANGED <<holder_commitment_number, current_holder_commitment>>
  BY <1>5 DEF raa_effect, commitment_signed
<1>7. pending.info.number = ours + 2
  <2>1. pending = pending_commitment(n, d, ours + 2, message(n).next_point)
    BY <1>5 DEF raa_effect
  <2>2. ours + 2 \in Nat /\ message(n).next_point \in Nat
    BY <1>3, <1>4, Following, Zenon
  <2> QED
    BY <2>1, <2>2, Zenon DEF OperatorTypes
<1> HIDE DEF p, cs, sent, tail, ours
<1>8. /\ net'[n] = sent \o tail /\ net'[p] = Tail(net[p])
      /\ awaiting_raa'[n] = signs /\ awaiting_raa'[p] = awaiting_raa[p]
      /\ counterparty_commitment_number'[n] = ours + 1
      /\ counterparty_commitment_number'[p] = counterparty_commitment_number[p]
      /\ pending_counterparty_commitment'[n] = (IF signs THEN {pending} ELSE {})
      /\ pending_counterparty_commitment'[p] = pending_counterparty_commitment[p]
      /\ current_counterparty_commitment'[n] = acked.info
      /\ current_counterparty_commitment'[p] = current_counterparty_commitment[p]
  BY <1>1, <1>3, <1>6, Zenon DEF TypeOK, Some, None
<1>9. /\ record_single(n) /\ record_numbers(n) /\ record_held(n)
      /\ record_single(p) /\ signature_fits(p) /\ record_numbers(p) /\ record_held(p)
  BY <1>1, Zenon DEF RecordInv
<1>10. pending_counterparty_commitment[n] = {acked}
  BY <1>4, <1>6, <1>9, Zenon DEF record_single
<1>11. signature_fits(n)'
  <2>1. sent \in Seq(Message) /\ absent(sent, "commitment_signed")
    <3>1. /\ net[n] \in Seq(Message) /\ updates \in Seq(Message)
          /\ absent(net[n], "commitment_signed") /\ absent(updates, "commitment_signed")
      BY <1>3, <1>4, <1>6, Zenon
    <3> DEFINE q == net[n]
    <3> HIDE DEF q
    <3>2. q \o updates \in Seq(Message) /\ absent(q \o updates, "commitment_signed")
      BY <3>1, ConcatOther DEF q
    <3> QED
      BY <3>2, Zenon DEF sent, q
  <2>2. CASE signs
    <3>1. net'[n] = Append(sent, cs)
      BY <1>6, <1>8, <2>1, <2>2 DEF tail
    <3>2. signed_as(sent, {pending})
      BY <2>1, SignedAbsent
    <3>3. signed_as(Append(sent, cs), {pending})
      BY <1>6, <2>1, <3>2, SignedAppend
    <3> QED
      BY <1>8, <2>2, <3>1, <3>3, Zenon DEF signature_fits
  <2>3. CASE ~signs
    BY <1>8, <2>3 DEF signature_fits, signed_as
  <2> QED
    BY <2>2, <2>3, Zenon
<1>12. record_single(n)' /\ record_single(p)'
  BY <1>8, <1>9, Zenon DEF record_single
<1>13. record_numbers(n)' /\ record_numbers(p)'
  <2>1. acked.info.number = ours + 1
    BY <1>9, <1>10 DEF record_numbers, ours
  <2> QED
    BY <1>3, <1>7, <1>8, <1>9, <2>1, Following, Zenon DEF record_numbers
<1>14. record_held(n)' /\ record_held(p)'
  <2>1. current_holder_commitment[p] = acked.info
    BY <1>3, <1>4, <1>9, <1>10, Following, Zenon DEF record_held, p, ours
  <2> QED
    BY <1>1, <1>4, <1>6, <1>8, <1>9, <2>1, Zenon DEF record_held, p
<1>15. signature_fits(p)'
  BY <1>3, <1>8, <1>9, SignedTail DEF signature_fits
<1> QED
  BY <1>11, <1>12, <1>13, <1>14, <1>15, BothRecords DEF p

\* RecordInv is inductive relative to the types and the revocation machinery.
LEMMA NextRecord ==
  ASSUME OperatorTypes, \A n \in Party : on_revoke_and_ack(n) => acknowledges(n),
         TypeOK, RevocationInv, RecordInv, [Next]_vars
  PROVE  RecordInv'
<1>1. CASE UNCHANGED vars
  BY <1>1, Zenon DEF vars, commitmentVars, RecordInv, record_single, signature_fits, record_numbers,
              record_held
<1>2. ASSUME NEW n \in Party,
             \/ \E p \in Payment : send_add_htlc(n, p)
             \/ \E h \in chan[n].htlcs, r \in Resolutions : send_resolve_htlc(n, h, r)
             \/ \E f \in Feerate : send_update_fee(n, f)
             \/ on_update_add_htlc(n) \/ on_update_remove_htlc(n) \/ on_update_fee(n)
      PROVE  RecordInv'
  BY <1>2, UpdateActions, UpdateRecord, Zenon
<1>3. ASSUME NEW n \in Party, send_commitment_signed(n) PROVE RecordInv'
  BY <1>3, SignRecord
<1>4. ASSUME NEW n \in Party, on_commitment_signed(n) PROVE RecordInv'
  BY <1>4, RevokeRecord
<1>5. ASSUME NEW n \in Party, on_revoke_and_ack(n) PROVE RecordInv'
  BY <1>5, AcknowledgeRecord
<1> QED
  BY <1>1, <1>2, <1>3, <1>4, <1>5, Zenon DEF Next

\* What a party could broadcast is on record with its peer.
LEMMA RecordPublishable ==
  TypeOK /\ PendingKnown /\ RevocationInv /\ RecordInv => PublishableIsOnRecord
<1> SUFFICES ASSUME TypeOK, PendingKnown, RevocationInv, RecordInv, NEW m \in Party
             PROVE  current_holder_commitment[m] \in unrevoked(Peer(m))
  BY DEF PublishableIsOnRecord
<1> DEFINE n == Peer(m)
<1>1. n \in Party /\ Peer(n) = m
  BY PeerOf
<1>2. record_held(n) /\ record_single(n) /\ exchange(n)
  BY <1>1 DEF RecordInv, RevocationInv
<1>3. CASE holder_commitment_number[m] = counterparty_commitment_number[n]
  BY <1>1, <1>2, <1>3 DEF record_held, unrevoked
<1>4. CASE holder_commitment_number[m] # counterparty_commitment_number[n]
  <2>1. awaiting_raa[n]
    BY <1>1, <1>2, <1>4 DEF exchange
  <2>2. PICK x : pending_counterparty_commitment[n] = {x}
    BY <1>2, <2>1, Zenon DEF record_single
  <2>3. current_holder_commitment[m] = x.info
    BY <1>1, <1>2, <1>4, <2>2, Zenon DEF record_held
  <2> QED
    BY <2>2, <2>3 DEF unrevoked
<1> QED
  BY <1>3, <1>4

=============================================================================
