----------------------------- MODULE HtlcProofs -----------------------------
(* HtlcInv is inductive: what each party knows of a payment fits the           *)
(* commitments it is on, and no payment is offered twice.  The steps take the  *)
(* types of the operators (OperatorTypes) and the effect of an accepted        *)
(* revocation (acknowledges) as hypotheses; DanceTheorems discharges them.     *)
EXTENDS DanceInvariants, HtlcStages

-----------------------------------------------------------------------------
(* Each payment is offered at most once. *)

\* There are two parties.
LEMMA Parties ==
  \A n \in Party : /\ Party = {n, Peer(n)} /\ n # Peer(n)
                   /\ Peer(n) \in Party /\ Peer(Peer(n)) = n
  BY DEF Party, Peer

\* The message a party reads.
LEMMA MessageRead ==
  ASSUME TypeOK, NEW n \in Party, NEW t, receives(n, t)
  PROVE  message(n) \in Message /\ message(n).type = t
<1>1. net[Peer(n)] \in Seq(Message) /\ net[Peer(n)] # <<>>
  BY Parties DEF TypeOK, receives
<1>2. Head(net[Peer(n)]) \in Message
  BY <1>1
<1> QED
  BY <1>2 DEF receives, message

\* A sequence without an element of M has no second one.
LEMMA ClearLone ==
  \A M : /\ clear(<<>>, M) /\ lone(<<>>, M)
         /\ \A q : clear(q, M) => lone(q, M)
  BY DEF clear, lone

\* Signatures are messages that offer nothing.
LEMMA SignatureOffers ==
  /\ \A x : commitment_signed(x) \in Message => <<commitment_signed(x)>> \in Seq(Message)
  /\ <<>> \in Seq(Message)
  /\ \A x, p : clear(<<commitment_signed(x)>>, adding(p)) /\ clear(<<>>, adding(p))
<1>1. \A x : commitment_signed(x).type # "update_add_htlc"
  BY DEF commitment_signed
<1>2. \A x, p : clear(<<commitment_signed(x)>>, adding(p)) /\ clear(<<>>, adding(p))
  BY <1>1 DEF clear, adding
<1>3. \A m \in Message : <<m>> \in Seq(Message)
  OBVIOUS
<1>4. <<>> \in Seq(Message)
  OBVIOUS
<1> QED
  BY <1>2, <1>3, <1>4, Zenon

\* The message of a call that offers p is the one that does.
LEMMA AddMessage ==
  ASSUME OperatorTypes, NEW c \in Channel, NEW ops \in Seq(Op), NEW S \in SUBSET DOMAIN ops, NEW i \in S, NEW p
  PROVE  update_message(c, ops, S, i) \in adding(p) <=> ops[i] = Add(p)
<1>1. update_message(c, ops, S, i) \in Message
  BY Zenon DEF OperatorTypes
<1>2. CASE ops[i].op = "Add"
  <2>1. ops[i] = Add(ops[i].payment)
    BY <1>2, AddInCell, Zenon
  <2>2. /\ update_message(c, ops, S, i).type = "update_add_htlc"
        /\ update_message(c, ops, S, i).payment = ops[i].payment
    BY <1>2 DEF update_message
  <2>3. Add(p).payment = p
    BY DEF Add
  <2> HIDE DEF Add
  <2> QED
    BY <1>1, <2>1, <2>2, <2>3 DEF adding
<1>3. CASE ops[i].op # "Add"
  <2>1. ops[i] # Add(p)
    BY <1>3 DEF Add
  <2>2. update_message(c, ops, S, i).type = "update_remove_htlc"
    BY <1>3 DEF update_message
  <2> QED
    BY <2>1, <2>2 DEF adding
<1> QED
  BY <1>2, <1>3

\* Which payments a flush offers.
LEMMA FlushOffers ==
  ASSUME OperatorTypes, NEW c \in Channel, NEW ops \in Seq(Op), NEW S \in SUBSET DOMAIN ops,
         NEW order \in ascending(S), NEW p
  PROVE  /\ (\A i \in S : ops[i] # Add(p)) => clear(messages(c, ops, S, order), adding(p))
         /\ lone(ops, {Add(p)}) => lone(messages(c, ops, S, order), adding(p))
<1> DEFINE u == messages(c, ops, S, order)
<1>1. /\ Len(u) \in Nat
      /\ \A k \in 1..Len(u) : order[k] \in S /\ u[k] = update_message(c, ops, S, order[k])
      /\ \A j, k \in 1..Len(u) : j < k => order[j] < order[k]
  BY Zenon DEF OperatorTypes, in_order
<1>2. DOMAIN ops = 1..Len(ops) /\ Len(ops) \in Nat
  OBVIOUS
<1> HIDE DEF u
<1>3. \A k \in 1..Len(u) : u[k] \in adding(p) => ops[order[k]] = Add(p) /\ order[k] \in S
  BY <1>1, AddMessage
<1>4. (\A i \in S : ops[i] # Add(p)) => clear(u, adding(p))
  BY <1>3 DEF clear
<1>5. ASSUME lone(ops, {Add(p)}) PROVE lone(u, adding(p))
  <2> SUFFICES ASSUME NEW j \in 1..Len(u), NEW k \in 1..Len(u), u[j] \in adding(p), u[k] \in adding(p)
               PROVE  j = k
    BY DEF lone
  <2>1. order[j] = order[k] /\ order[j] \in Nat
    BY <1>2, <1>3, <1>5 DEF lone
  <2>2. ~(order[j] < order[k]) /\ ~(order[k] < order[j])
    BY <2>1
  <2>3. ~(j < k) /\ ~(k < j)
    BY <1>1, <2>2
  <2> QED
    BY <1>1, <2>3
<1> QED
  BY <1>4, <1>5 DEF u

\* Nothing of p is sent.
net_quiet(p) ==
  \A m \in Party : /\ clear(net[m], adding(p)) => clear(net'[m], adding(p))
                   /\ lone(net[m], adding(p)) => lone(net'[m], adding(p))

\* Nothing of p is offered or parked.
chan_quiet(p) ==
  /\ \A m \in Party :
       /\ has(chan'[m], p) => has(chan[m], p)
       /\ clear(chan[m].holding_cell, {Add(p)}) => clear(chan'[m].holding_cell, {Add(p)})
       /\ lone(chan[m].holding_cell, {Add(p)}) => lone(chan'[m].holding_cell, {Add(p)})
  /\ outcome'[p] = "new" => outcome[p] = "new"

\* A step that is quiet about p.
LEMMA QuietOffer ==
  ASSUME NEW p \in Payment, offered_once(p), net_quiet(p), chan_quiet(p)
  PROVE  offered_once(p)'
<1> DEFINE o == Payer[p]
           r == Peer(o)
<1>1. o \in Party /\ r \in Party
  BY ConstantsAssumption, Parties
<1> HIDE DEF o, r
<1>2. /\ clear(net[r], adding(p)) /\ clear(chan[r].holding_cell, {Add(p)})
      /\ lone(net[o], adding(p)) /\ lone(chan[o].holding_cell, {Add(p)})
      /\ ~clear(net[o], adding(p)) => ~has(chan[r], p)
      /\ ~clear(chan[o].holding_cell, {Add(p)}) =>
           ~has(chan[o], p) /\ ~has(chan[r], p) /\ clear(net[o], adding(p))
      /\ outcome[p] = "new" =>
           /\ ~has(chan[o], p) /\ ~has(chan[r], p)
           /\ clear(net[o], adding(p)) /\ clear(chan[o].holding_cell, {Add(p)})
  BY DEF offered_once, o, r
<1>3. /\ clear(net'[r], adding(p)) /\ clear(chan'[r].holding_cell, {Add(p)})
      /\ lone(net'[o], adding(p)) /\ lone(chan'[o].holding_cell, {Add(p)})
      /\ ~clear(net'[o], adding(p)) => ~has(chan'[r], p)
      /\ ~clear(chan'[o].holding_cell, {Add(p)}) =>
           ~has(chan'[o], p) /\ ~has(chan'[r], p) /\ clear(net'[o], adding(p))
      /\ outcome'[p] = "new" =>
           /\ ~has(chan'[o], p) /\ ~has(chan'[r], p)
           /\ clear(net'[o], adding(p)) /\ clear(chan'[o].holding_cell, {Add(p)})
  BY <1>1, <1>2 DEF net_quiet, chan_quiet
<1> QED
  BY <1>3 DEF offered_once, o, r

\* Sending something that does not offer p.
LEMMA SendQuiet ==
  ASSUME TypeOK, NEW n \in Party, NEW m \in Message, NEW p, m \notin adding(p),
         net' = [net EXCEPT ![n] = Append(net[n], m)]
  PROVE  net_quiet(p)
<1>1. net'[n] = Append(net[n], m) /\ \A q \in Party : q # n => net'[q] = net[q]
  BY DEF TypeOK
<1>2. net[n] \in Seq(Message)
  BY DEF TypeOK
<1>3. /\ clear(net[n], adding(p)) => clear(Append(net[n], m), adding(p))
      /\ lone(net[n], adding(p)) => lone(Append(net[n], m), adding(p))
  BY <1>2, AppendOf
<1> QED
  BY <1>1, <1>3 DEF net_quiet

\* Reading a message sends nothing.
LEMMA ReadQuiet ==
  ASSUME TypeOK, NEW n \in Party, NEW t, receives(n, t), NEW p, net' = read(n)
  PROVE  net_quiet(p)
<1> DEFINE q == net[Peer(n)]
<1>1. Peer(n) \in Party /\ q \in Seq(Message) /\ q # <<>>
  BY Parties DEF TypeOK, receives
<1>2. net'[Peer(n)] = Tail(q) /\ \A m \in Party : m # Peer(n) => net'[m] = net[m]
  BY <1>1 DEF TypeOK, read
<1> HIDE DEF q
<1>3. /\ clear(q, adding(p)) => clear(Tail(q), adding(p))
      /\ lone(q, adding(p)) => lone(Tail(q), adding(p))
  BY <1>1, TailOf
<1> QED
  BY <1>2, <1>3 DEF net_quiet, q

\* A channel that commits nothing keeps to the commitments it has.
LEMMA HoldsKept ==
  ASSUME TypeOK, NEW m \in Party, htlcs_hold(m), chan'[m] \in Channel,
         sound(m, chan'[m]), holder_keeps(chan[m], chan'[m]),
         counterparty_keeps(chan[m], chan'[m]), UNCHANGED commitmentVars
  PROVE  htlcs_hold(m)'
<1> DEFINE c == chan[m]
           d == chan'[m]
<1>1. c \in Channel /\ d \in Channel
  BY DEF TypeOK
<1>2. pending_counterparty_commitment[m] \subseteq PendingCommitment
  BY DEF TypeOK
<1>3. unrevoked(m)' = unrevoked(m)
  BY DEF unrevoked, commitmentVars
<1> HIDE DEF c, d
<1>4. on_holder(d, current_holder_commitment[m])
  BY HolderKept DEF htlcs_hold, c, d
<1>5. /\ \A k : on_counterparty(c, k) => on_counterparty(d, k)
      /\ \A x \in PendingCommitment : recorded(c, x) => recorded(d, x)
  BY <1>1, CounterpartyKept DEF c, d
<1> QED
  BY <1>2, <1>3, <1>4, <1>5 DEF htlcs_hold, commitmentVars, c, d

\* A channel with the HTLCs it had.
LEMMA SameKeeps ==
  ASSUME NEW m \in Party, NEW c \in Channel, NEW d \in Channel, sound(m, c),
         d.htlcs = c.htlcs, d.next_holder_htlc_id = c.next_holder_htlc_id,
         d.next_counterparty_htlc_id = c.next_counterparty_htlc_id
  PROVE  /\ sound(m, d) /\ holder_keeps(c, d) /\ counterparty_keeps(c, d)
         /\ \A p : /\ has(d, p) <=> has(c, p)
                   /\ rec(d, p) = rec(c, p) /\ stage(d, p) = stage(c, p)
<1>1. sound(m, d)
  BY DEF sound, unique, ids_fresh
<1>2. \A h : continues(h, h)
  BY DEF continues
<1>3. holder_keeps(c, d)
  BY <1>2 DEF holder_keeps
<1>4. c.next_holder_htlc_id \in Nat /\ c.next_counterparty_htlc_id \in Nat
  BY DEF Channel
<1>5. counterparty_keeps(c, d)
  BY <1>2, <1>4 DEF counterparty_keeps
<1>6. ASSUME NEW p
      PROVE  /\ has(d, p) <=> has(c, p)
             /\ rec(d, p) = rec(c, p) /\ stage(d, p) = stage(c, p)
  <2>1. (has(d, p) <=> has(c, p)) /\ rec(d, p) = rec(c, p)
    BY DEF has, rec
  <2> QED
    BY <2>1 DEF stage
<1> QED
  BY <1>1, <1>3, <1>5, <1>6

\* A call that is parked.
LEMMA ParkHtlc ==
  ASSUME TypeOK, HtlcInv, NEW n \in Party, NEW op \in Op, park_or_send(n, op), awaiting_raa[n]
  PROVE  /\ \A m \in Party : htlcs_hold(m)' /\ \A p : has(chan'[m], p) <=> has(chan[m], p)
         /\ chan'[n].holding_cell = Append(chan[n].holding_cell, op)
         /\ chan'[Peer(n)] = chan[Peer(n)] /\ UNCHANGED net
<1> DEFINE c == chan[n]
           d == [c EXCEPT !.holding_cell = Append(c.holding_cell, op)]
<1>1. chan' = [chan EXCEPT ![n] = d] /\ UNCHANGED <<net, commitmentVars>>
  BY DEF park_or_send
<1>2. c \in Channel
  BY DEF TypeOK
<1>3. Append(c.holding_cell, op) \in Seq(Op)
  BY <1>2 DEF Channel
<1>4. /\ d \in Channel /\ d.htlcs = c.htlcs /\ d.next_holder_htlc_id = c.next_holder_htlc_id
      /\ d.next_counterparty_htlc_id = c.next_counterparty_htlc_id
      /\ d.holding_cell = Append(c.holding_cell, op)
  BY <1>2, <1>3, Zenon DEF Channel
<1> HIDE DEF c, d
<1>5. chan'[n] = d /\ \A m \in Party : m # n => chan'[m] = chan[m]
  BY <1>1 DEF TypeOK
<1>6. ASSUME NEW m \in Party PROVE htlcs_hold(m)' /\ \A p : has(chan'[m], p) <=> has(chan[m], p)
  <2>1. htlcs_hold(m) /\ sound(m, chan[m]) /\ chan[m] \in Channel
    BY DEF HtlcInv, htlcs_hold, TypeOK
  <2>2. /\ chan'[m] \in Channel /\ chan'[m].htlcs = chan[m].htlcs
        /\ chan'[m].next_holder_htlc_id = chan[m].next_holder_htlc_id
        /\ chan'[m].next_counterparty_htlc_id = chan[m].next_counterparty_htlc_id
    BY <1>4, <1>5, <2>1 DEF c
  <2>3. /\ sound(m, chan'[m]) /\ holder_keeps(chan[m], chan'[m])
        /\ counterparty_keeps(chan[m], chan'[m])
        /\ \A p : has(chan'[m], p) <=> has(chan[m], p)
    BY <2>1, <2>2, SameKeeps
  <2> QED
    BY <1>1, <2>1, <2>2, <2>3, HoldsKept
<1>7. Peer(n) \in Party /\ Peer(n) # n
  BY Parties
<1> QED
  BY <1>1, <1>4, <1>5, <1>6, <1>7 DEF c

\* A step that leaves the channel of m as it is.
LEMMA IdleHolds ==
  ASSUME TypeOK, HtlcInv, NEW m \in Party, UNCHANGED commitmentVars, chan'[m] = chan[m]
  PROVE  htlcs_hold(m)' /\ \A p : has(chan'[m], p) <=> has(chan[m], p)
<1>1. htlcs_hold(m) /\ sound(m, chan[m]) /\ chan[m] \in Channel
  BY DEF HtlcInv, htlcs_hold, TypeOK
<1>2. /\ sound(m, chan'[m]) /\ holder_keeps(chan[m], chan'[m])
      /\ counterparty_keeps(chan[m], chan'[m])
      /\ \A p : has(chan'[m], p) <=> has(chan[m], p)
  BY <1>1, SameKeeps
<1> QED
  BY <1>1, <1>2, HoldsKept

\* A call that is performed.
LEMMA SendHtlc ==
  ASSUME OperatorTypes, TypeOK, HtlcInv, NEW n \in Party, NEW op \in Op, park_or_send(n, op), ~awaiting_raa[n],
         op.op = "Add" => Payer[op.payment] = n /\ ~has(chan[n], op.payment)
  PROVE  /\ \A m \in Party : htlcs_hold(m)'
         /\ \A p \in Payment : op # Add(p) => (has(chan'[n], p) <=> has(chan[n], p))
         /\ chan'[n].holding_cell = chan[n].holding_cell
         /\ chan'[Peer(n)] = chan[Peer(n)]
         /\ \E msg \in Message : /\ net' = [net EXCEPT ![n] = Append(net[n], msg)]
                                 /\ \A p : msg \in adding(p) <=> op = Add(p)
<1> DEFINE c == chan[n]
           ops == <<op>>
           d == apply_ops(c, ops, {1})
           msg == update_message(c, ops, {1}, 1)
<1>1. /\ permits(n, c, op) /\ chan' = [chan EXCEPT ![n] = d]
      /\ net' = [net EXCEPT ![n] = Append(net[n], msg)] /\ UNCHANGED commitmentVars
  BY DEF park_or_send
<1>2. c \in Channel /\ sound(n, c) /\ htlcs_hold(n)
  BY DEF TypeOK, HtlcInv, htlcs_hold
<1>3. /\ ops \in Seq(Op) /\ {1} \in SUBSET DOMAIN ops /\ ops[1] = op
      /\ callable(n, c, ops, {1})
  BY <1>1, <1>2, SendCallable
<1> HIDE DEF c, ops
<1>4. d \in Channel /\ msg \in Message /\ ids_ascend(c, ops, {1})
  BY <1>2, <1>3, Zenon DEF OperatorTypes
<1>5. d.holding_cell = c.holding_cell
  BY <1>2 DEF apply_ops, Channel
<1>6. \A p : msg \in adding(p) <=> op = Add(p)
  BY <1>2, <1>3, AddMessage
<1>7. /\ sound(n, d)
      /\ \A p \in Payment :
           /\ \A j : offers(ops, {1}, j, p) => stage(d, p) = "NotYet"
           /\ \A j : resolves(c, ops, {1}, j, p) =>
                stage(c, p) = "Committed" /\ stage(d, p) = "Removing"
           /\ (\A j : ~offers(ops, {1}, j, p) /\ ~resolves(c, ops, {1}, j, p)) =>
                stage(d, p) = stage(c, p)
  <2>1. applied(n, c, ops, {1}, d)
    BY <1>2, <1>3, <1>4, ApplyStages, Zenon
  <2> HIDE DEF d
  <2> QED
    BY <2>1, Zenon DEF applied
<1>8. holder_keeps(c, d) /\ counterparty_keeps(c, d)
  BY <1>2, <1>3, <1>4, ApplyKeeps, Zenon
<1> HIDE DEF d, msg
<1>9. chan'[n] = d /\ \A m \in Party : m # n => chan'[m] = chan[m]
  BY <1>1 DEF TypeOK
<1>10. htlcs_hold(n)'
  BY <1>1, <1>2, <1>4, <1>7, <1>8, <1>9, HoldsKept DEF c
<1>11. ASSUME NEW m \in Party PROVE htlcs_hold(m)'
  BY <1>1, <1>9, <1>10, IdleHolds
<1>12. ASSUME NEW p \in Payment, op # Add(p) PROVE has(d, p) <=> has(c, p)
  <2>1. \A j : ~offers(ops, {1}, j, p)
    <3> SUFFICES ASSUME offers(ops, {1}, 1, p) PROVE FALSE
      BY DEF offers
    <3>1. op.op = "Add" /\ op.payment = p
      BY <1>3 DEF offers
    <3>2. op = Add(op.payment)
      BY <1>3, <3>1, AddInCell, Zenon
    <3> QED
      BY <1>12, <3>1, <3>2
  <2>2. (stage(d, p) = "none" <=> stage(c, p) = "none")
    BY <1>7, <2>1
  <2>3. \A e \in {c, d} : has(e, p) <=> stage(e, p) # "none"
    <3> SUFFICES ASSUME NEW e \in {c, d} PROVE has(e, p) <=> stage(e, p) # "none"
      OBVIOUS
    <3>1. e \in Channel /\ sound(n, e)
      BY <1>2, <1>4, <1>7
    <3>2. has(e, p) => rec(e, p) \in Htlc
      BY <3>1, RecordOf DEF sound, Channel
    <3>3. has(e, p) => near(rec(e, p)) \in Phase
      BY <3>2 DEF near, phase_on, Htlc
    <3> QED
      BY <3>3 DEF stage, Phase
  <2> QED
    BY <2>2, <2>3
<1>13. Peer(n) \in Party /\ Peer(n) # n
  BY Parties
<1> QED
  BY <1>1, <1>4, <1>5, <1>6, <1>9, <1>11, <1>12, <1>13, Zenon DEF c

\* A payment is offered for the first time.
LEMMA SendAddHtlcs ==
  ASSUME OperatorTypes, TypeOK, HtlcInv, NEW n \in Party, NEW p \in Payment, send_add_htlc(n, p)
  PROVE  HtlcInv'
<1> DEFINE r == Peer(n)
           op == Add(p)
<1>1. /\ Payer[p] = n /\ outcome[p] = "new" /\ park_or_send(n, op)
      /\ outcome' = [outcome EXCEPT ![p] = "pending"]
  BY DEF send_add_htlc
<1>2. op \in Op /\ op.op = "Add" /\ op.payment = p
  BY DEF Add, Op
<1>3. \A q : op = Add(q) <=> p = q
  BY DEF Add
<1>4. r \in Party /\ r # n /\ Party = {n, r}
  BY Parties
<1>5. /\ clear(net[r], adding(p)) /\ clear(chan[r].holding_cell, {op})
      /\ ~has(chan[n], p) /\ ~has(chan[r], p)
      /\ clear(net[n], adding(p)) /\ clear(chan[n].holding_cell, {op})
      /\ lone(net[n], adding(p)) /\ lone(chan[n].holding_cell, {op})
  BY <1>1 DEF HtlcInv, offered_once
<1>6. outcome'[p] = "pending" /\ \A q \in Payment : q # p => outcome'[q] = outcome[q]
  BY <1>1 DEF TypeOK
<1>7. net[n] \in Seq(Message) /\ chan[n].holding_cell \in Seq(Op)
  BY DEF TypeOK, Channel
<1> HIDE DEF r, op
<1>8. CASE awaiting_raa[n]
  <2>1. /\ \A m \in Party : htlcs_hold(m)' /\ \A q : has(chan'[m], q) <=> has(chan[m], q)
        /\ chan'[n].holding_cell = Append(chan[n].holding_cell, op)
        /\ chan'[r] = chan[r] /\ UNCHANGED net
    BY <1>1, <1>2, <1>8, ParkHtlc, Zenon DEF r
  <2>2. ASSUME NEW q \in Payment, q # p PROVE offered_once(q)'
    <3>1. op \notin {Add(q)}
      BY <1>3, <2>2
    <3>2. /\ clear(chan[n].holding_cell, {Add(q)}) => clear(chan'[n].holding_cell, {Add(q)})
          /\ lone(chan[n].holding_cell, {Add(q)}) => lone(chan'[n].holding_cell, {Add(q)})
      BY <1>2, <1>7, <2>1, <3>1, AppendOf
    <3>3. net_quiet(q) /\ chan_quiet(q)
      BY <1>4, <1>6, <2>1, <2>2, <3>2, Zenon DEF net_quiet, chan_quiet
    <3> QED
      BY <3>3, QuietOffer DEF HtlcInv
  <2>3. offered_once(p)'
    <3>1. lone(chan'[n].holding_cell, {op})
      BY <1>2, <1>5, <1>7, <2>1, AppendOf
    <3> QED
      BY <1>1, <1>4, <1>5, <1>6, <2>1, <3>1, Zenon DEF offered_once, r, op
  <2> QED
    BY <2>1, <2>2, <2>3 DEF HtlcInv
<1>9. CASE ~awaiting_raa[n]
  <2>1. /\ \A m \in Party : htlcs_hold(m)'
        /\ \A q \in Payment : op # Add(q) => (has(chan'[n], q) <=> has(chan[n], q))
        /\ chan'[n].holding_cell = chan[n].holding_cell
        /\ chan'[r] = chan[r]
        /\ \E msg \in Message : /\ net' = [net EXCEPT ![n] = Append(net[n], msg)]
                                /\ \A q : msg \in adding(q) <=> op = Add(q)
    BY <1>1, <1>2, <1>5, <1>9, SendHtlc DEF r
  <2>2. PICK msg \in Message : /\ net' = [net EXCEPT ![n] = Append(net[n], msg)]
                               /\ \A q : msg \in adding(q) <=> op = Add(q)
    BY <2>1, Zenon
  <2>3. net'[n] = Append(net[n], msg) /\ net'[r] = net[r]
    BY <1>4, <2>2 DEF TypeOK
  <2>4. ASSUME NEW q \in Payment, q # p PROVE offered_once(q)'
    <3>1. msg \notin adding(q) /\ op # Add(q)
      BY <1>3, <2>2, <2>4
    <3>2. net_quiet(q)
      BY <2>2, <3>1, SendQuiet, Zenon
    <3>3. chan_quiet(q)
      BY <1>4, <1>6, <2>1, <2>4, <3>1 DEF chan_quiet
    <3> QED
      BY <3>2, <3>3, QuietOffer DEF HtlcInv
  <2>5. offered_once(p)'
    <3>1. msg \in adding(p)
      BY <1>3, <2>2, Zenon
    <3>2. lone(net'[n], adding(p))
      BY <1>5, <1>7, <2>3, <3>1, AppendOf
    <3> QED
      BY <1>1, <1>4, <1>5, <1>6, <2>1, <2>3, <3>2, Zenon DEF offered_once, r, op
  <2> QED
    BY <2>1, <2>4, <2>5, Zenon DEF HtlcInv
<1> QED
  BY <1>8, <1>9

\* Resolving an HTLC offers nothing.
LEMMA SendResolveHtlcs ==
  ASSUME OperatorTypes, TypeOK, HtlcInv, NEW n \in Party, NEW h \in chan[n].htlcs, NEW res \in Resolutions,
         send_resolve_htlc(n, h, res)
  PROVE  HtlcInv'
<1> DEFINE r == Peer(n)
           op == Resolve(h.id, res)
<1>1. park_or_send(n, op) /\ UNCHANGED outcome
  BY DEF send_resolve_htlc
<1>2. op \in Op /\ op.op # "Add"
  <2>1. h.id \in Nat /\ res \in HtlcResolution
    <3>1. h \in Htlc
      BY DEF TypeOK, Channel
    <3>2. h.id \in Nat
      BY <3>1 DEF Htlc
    <3> QED
      BY <3>2, ConstantsAssumption, Zenon
  <2> QED
    BY <2>1 DEF Resolve, Op, HtlcResolution
<1>3. \A q : op # Add(q)
  BY <1>2 DEF Add
<1>4. r \in Party /\ r # n /\ Party = {n, r}
  BY Parties
<1>5. net[n] \in Seq(Message) /\ chan[n].holding_cell \in Seq(Op)
  BY DEF TypeOK, Channel
<1> HIDE DEF r, op
<1>6. CASE awaiting_raa[n]
  <2>1. /\ \A m \in Party : htlcs_hold(m)' /\ \A q : has(chan'[m], q) <=> has(chan[m], q)
        /\ chan'[n].holding_cell = Append(chan[n].holding_cell, op)
        /\ chan'[r] = chan[r] /\ UNCHANGED net
    BY <1>1, <1>2, <1>6, ParkHtlc, Zenon DEF r
  <2>2. ASSUME NEW q \in Payment PROVE offered_once(q)'
    <3>1. op \notin {Add(q)}
      BY <1>3
    <3>2. /\ clear(chan[n].holding_cell, {Add(q)}) => clear(chan'[n].holding_cell, {Add(q)})
          /\ lone(chan[n].holding_cell, {Add(q)}) => lone(chan'[n].holding_cell, {Add(q)})
      BY <1>2, <1>5, <2>1, <3>1, AppendOf
    <3>3. net_quiet(q) /\ chan_quiet(q)
      BY <1>1, <1>4, <2>1, <3>2, Zenon DEF net_quiet, chan_quiet
    <3> QED
      BY <3>3, QuietOffer DEF HtlcInv
  <2> QED
    BY <2>1, <2>2 DEF HtlcInv
<1>7. CASE ~awaiting_raa[n]
  <2>1. /\ \A m \in Party : htlcs_hold(m)'
        /\ \A q \in Payment : op # Add(q) => (has(chan'[n], q) <=> has(chan[n], q))
        /\ chan'[n].holding_cell = chan[n].holding_cell
        /\ chan'[r] = chan[r]
        /\ \E msg \in Message : /\ net' = [net EXCEPT ![n] = Append(net[n], msg)]
                                /\ \A q : msg \in adding(q) <=> op = Add(q)
    BY <1>1, <1>2, <1>7, SendHtlc DEF r
  <2>2. PICK msg \in Message : /\ net' = [net EXCEPT ![n] = Append(net[n], msg)]
                               /\ \A q : msg \in adding(q) <=> op = Add(q)
    BY <2>1, Zenon
  <2>3. ASSUME NEW q \in Payment PROVE offered_once(q)'
    <3>1. msg \notin adding(q)
      BY <1>3, <2>2
    <3>2. net_quiet(q)
      BY <2>2, <3>1, SendQuiet, Zenon
    <3>3. chan_quiet(q)
      BY <1>1, <1>3, <1>4, <2>1, Zenon DEF chan_quiet
    <3> QED
      BY <3>2, <3>3, QuietOffer DEF HtlcInv
  <2> QED
    BY <2>1, <2>3, Zenon DEF HtlcInv
<1> QED
  BY <1>6, <1>7

\* A step that touches no HTLC, parks nothing and offers nothing.
LEMMA UntouchedHtlcs ==
  ASSUME TypeOK, HtlcInv, TypeOK', UNCHANGED commitmentVars, UNCHANGED outcome,
         \A p \in Payment : net_quiet(p),
         \A m \in Party :
           /\ chan'[m].htlcs = chan[m].htlcs
           /\ chan'[m].next_holder_htlc_id = chan[m].next_holder_htlc_id
           /\ chan'[m].next_counterparty_htlc_id = chan[m].next_counterparty_htlc_id
           /\ chan'[m].holding_cell = chan[m].holding_cell
  PROVE  HtlcInv'
<1>1. ASSUME NEW m \in Party PROVE htlcs_hold(m)' /\ \A p : has(chan'[m], p) <=> has(chan[m], p)
  <2>1. htlcs_hold(m) /\ sound(m, chan[m]) /\ chan[m] \in Channel /\ chan'[m] \in Channel
    BY DEF HtlcInv, htlcs_hold, TypeOK
  <2>2. /\ sound(m, chan'[m]) /\ holder_keeps(chan[m], chan'[m])
        /\ counterparty_keeps(chan[m], chan'[m])
        /\ \A p : has(chan'[m], p) <=> has(chan[m], p)
    BY <2>1, SameKeeps
  <2> QED
    BY <2>1, <2>2, HoldsKept
<1>2. ASSUME NEW p \in Payment PROVE offered_once(p)'
  <2>1. chan_quiet(p)
    BY <1>1 DEF chan_quiet
  <2> QED
    BY <2>1, QuietOffer DEF HtlcInv
<1> QED
  BY <1>1, <1>2 DEF HtlcInv

\* The opener changes the feerate.
LEMMA SendFeeHtlcs ==
  ASSUME TypeOK, TypeOK', HtlcInv, NEW n \in Party, NEW f \in Feerate, send_update_fee(n, f)
  PROVE  HtlcInv'
<1> DEFINE msg == [type |-> "update_fee", feerate |-> f]
<1>1. /\ net' = [net EXCEPT ![n] = Append(net[n], msg)]
      /\ chan' = [chan EXCEPT ![n].feerate_counterparty = f, ![n].counterparty_dirty = TRUE]
      /\ UNCHANGED <<commitmentVars, outcome>>
  BY DEF send_update_fee
<1>2. msg \in Message /\ \A p : msg \notin adding(p)
  BY ConstantsAssumption DEF Message, adding
<1> HIDE DEF msg
<1>3. \A p \in Payment : net_quiet(p)
  BY <1>1, <1>2, SendQuiet, Zenon
<1>4. \A m \in Party :
        /\ chan'[m].htlcs = chan[m].htlcs
        /\ chan'[m].next_holder_htlc_id = chan[m].next_holder_htlc_id
        /\ chan'[m].next_counterparty_htlc_id = chan[m].next_counterparty_htlc_id
        /\ chan'[m].holding_cell = chan[m].holding_cell
  BY <1>1, Zenon DEF TypeOK, Channel
<1> QED
  BY <1>1, <1>3, <1>4, UntouchedHtlcs, Zenon

\* Refusing a message.
LEMMA CloseHtlcs ==
  ASSUME TypeOK, TypeOK', HtlcInv, NEW n \in Party, NEW t, receives(n, t), NEW reason,
         close(n, reason)
  PROVE  HtlcInv'
<1>1. net' = read(n) /\ UNCHANGED <<chan, commitmentVars, outcome>>
  BY DEF close
<1>2. \A p \in Payment : net_quiet(p)
  BY <1>1, ReadQuiet
<1> QED
  BY <1>1, <1>2, UntouchedHtlcs

\* Accepting a feerate.
LEMMA ReadFeeHtlcs ==
  ASSUME TypeOK, TypeOK', HtlcInv, NEW n \in Party, on_update_fee(n)
  PROVE  HtlcInv'
<1>1. receives(n, "update_fee")
  BY Zenon DEF on_update_fee
<1>2. CASE accepts_feerate(n, message(n).feerate)
  <2>1. /\ net' = read(n)
        /\ chan' = [chan EXCEPT ![n].feerate_holder = message(n).feerate,
                                ![n].pending_fee_ack = Some(message(n).feerate)]
        /\ UNCHANGED <<commitmentVars, outcome>>
    BY <1>2 DEF on_update_fee
  <2>2. \A p \in Payment : net_quiet(p)
    BY <1>1, <2>1, ReadQuiet
  <2>3. \A m \in Party :
          /\ chan'[m].htlcs = chan[m].htlcs
          /\ chan'[m].next_holder_htlc_id = chan[m].next_holder_htlc_id
          /\ chan'[m].next_counterparty_htlc_id = chan[m].next_counterparty_htlc_id
          /\ chan'[m].holding_cell = chan[m].holding_cell
    BY <2>1, Zenon DEF TypeOK, Channel
  <2> QED
    BY <2>1, <2>2, <2>3, UntouchedHtlcs, Zenon
<1>3. CASE ~accepts_feerate(n, message(n).feerate)
  BY <1>1, <1>3, CloseHtlcs, Zenon DEF on_update_fee
<1> QED
  BY <1>2, <1>3

\* Accepting the offer of a payment.
LEMMA ReadAddHtlcs ==
  ASSUME TypeOK, TypeOK', HtlcInv, NEW n \in Party, on_update_add_htlc(n)
  PROVE  HtlcInv'
<1> DEFINE o == Peer(n)
           c == chan[n]
           m == message(n)
           q == net[o]
<1>1. receives(n, "update_add_htlc")
  BY Zenon DEF on_update_add_htlc
<1>2. /\ o \in Party /\ o # n /\ Peer(o) = n /\ Party = {n, o}
  BY Parties
<1>3. /\ q \in Seq(Message) /\ q # <<>> /\ m = Head(q) /\ m \in Message
      /\ m.type = "update_add_htlc"
  BY <1>1, <1>2, MessageRead, Zenon DEF TypeOK, receives, message
<1>4. PICK p \in Payment : p = m.payment /\ m \in adding(p)
  BY <1>3 DEF Message, adding
<1>5. CASE ~accepts_add(n, c, m)
  BY <1>1, <1>5, CloseHtlcs, Zenon DEF on_update_add_htlc
<1>6. CASE accepts_add(n, c, m)
  <2> DEFINE d == added(c, m)
  <2>1. /\ m.id = c.next_counterparty_htlc_id
        /\ net' = read(n) /\ UNCHANGED <<commitmentVars, outcome>>
        /\ chan' = [chan EXCEPT ![n] = d]
    <3>1. /\ chan' = [chan EXCEPT ![n].htlcs = @ \cup {received_htlc(m)},
                                  ![n].next_counterparty_htlc_id = @ + 1]
          /\ net' = read(n) /\ UNCHANGED <<commitmentVars, outcome>>
      BY <1>6 DEF on_update_add_htlc
    <3>2. chan' = [chan EXCEPT ![n] = d]
      BY <3>1, Zenon DEF TypeOK, added
    <3>3. m.id = c.next_counterparty_htlc_id
      BY <1>6 DEF accepts_add
    <3> QED
      BY <3>1, <3>2, <3>3, Zenon
  <2> HIDE DEF c, m, q, o
  <2>2. ~clear(q, adding(p)) /\ (lone(q, adding(p)) => clear(Tail(q), adding(p)))
    BY <1>3, <1>4, TailOf, Zenon
  <2>3. /\ Payer[p] = o /\ ~has(chan[n], p)
        /\ clear(chan[o].holding_cell, {Add(p)}) /\ outcome[p] # "new"
        /\ clear(net[n], adding(p)) /\ clear(chan[n].holding_cell, {Add(p)})
        /\ lone(q, adding(p)) /\ lone(chan[o].holding_cell, {Add(p)})
    <3>1. offered_once(p)
      BY <1>4 DEF HtlcInv
    <3>2. Payer[p] \in Party
      BY <1>4, ConstantsAssumption
    <3>3. Payer[p] = o
      <4>1. CASE Payer[p] = n
        <5>1. clear(q, adding(p))
          BY <3>1, <4>1 DEF offered_once, q, o
        <5> QED
          BY <2>2, <5>1, Zenon
      <4> QED
        BY <1>2, <3>2, <4>1
    <3> QED
      BY <1>2, <2>2, <3>1, <3>3, Zenon DEF offered_once, q
  <2>4. c \in Channel /\ sound(n, c) /\ htlcs_hold(n)
    BY DEF TypeOK, HtlcInv, htlcs_hold, c
  <2>5. Payer[m.payment] # n /\ ~has(c, m.payment)
    BY <1>2, <1>4, <2>3, Zenon DEF c
  <2>6. /\ d \in Channel /\ sound(n, d)
        /\ holder_keeps(c, d) /\ counterparty_keeps(c, d)
        /\ \A s : s # p => (has(d, s) <=> has(c, s))
    BY <1>3, <1>4, <2>1, <2>4, <2>5, AddStages, Zenon
  <2>7. d.holding_cell = c.holding_cell
    BY <2>4 DEF added, Channel
  <2> HIDE DEF d
  <2>8. chan'[n] = d /\ chan'[o] = chan[o] /\ net'[o] = Tail(q) /\ net'[n] = net[n]
    BY <1>2, <2>1, Zenon DEF TypeOK, read, q, o
  <2>9. htlcs_hold(n)' /\ htlcs_hold(o)'
    BY <1>2, <2>1, <2>4, <2>6, <2>8, HoldsKept, IdleHolds, Zenon DEF c
  <2>10. ASSUME NEW s \in Payment, s # p PROVE offered_once(s)'
    <3>1. net_quiet(s)
      BY <1>1, <2>1, ReadQuiet, Zenon
    <3>2. chan_quiet(s)
      BY <1>2, <2>1, <2>6, <2>7, <2>8, <2>10, Zenon DEF chan_quiet, c
    <3> QED
      BY <3>1, <3>2, QuietOffer DEF HtlcInv
  <2>11. offered_once(p)'
    <3>1. clear(net'[o], adding(p)) /\ lone(net'[o], adding(p))
      BY <2>2, <2>3, <2>8, ClearLone, Zenon
    <3> QED
      BY <1>2, <2>1, <2>3, <2>7, <2>8, <3>1, Zenon DEF offered_once, c
  <2> QED
    BY <1>2, <2>9, <2>10, <2>11 DEF HtlcInv
<1> QED
  BY <1>5, <1>6

\* A step that leaves the channel and the commitments of m as they are.
LEMMA IdleParty ==
  ASSUME NEW m \in Party, htlcs_hold(m), chan'[m] = chan[m],
         current_holder_commitment'[m] = current_holder_commitment[m],
         current_counterparty_commitment'[m] = current_counterparty_commitment[m],
         pending_counterparty_commitment'[m] = pending_counterparty_commitment[m]
  PROVE  htlcs_hold(m)'
<1>1. unrevoked(m)' = unrevoked(m)
  BY DEF unrevoked
<1> QED
  BY <1>1, Zenon DEF htlcs_hold

\* Accepting the removal of an HTLC.
LEMMA ReadRemoveHtlcs ==
  ASSUME TypeOK, TypeOK', HtlcInv, NEW n \in Party, on_update_remove_htlc(n)
  PROVE  HtlcInv'
<1> DEFINE c == chan[n]
           m == message(n)
           d == removal(c, m)
<1>1. receives(n, "update_remove_htlc")
  BY Zenon DEF on_update_remove_htlc
<1>2. m \in Message /\ m.type = "update_remove_htlc"
  BY <1>1, MessageRead
<1>3. c \in Channel /\ sound(n, c) /\ htlcs_hold(n)
  BY Zenon DEF TypeOK, HtlcInv, htlcs_hold
<1>4. CASE {h \in chan[n].htlcs : outbound_committed(h, m.id)} = {}
  <2>1. close(n, "removal refused")
    BY <1>4, Zenon DEF on_update_remove_htlc
  <2> QED
    BY <1>1, <2>1, CloseHtlcs, Zenon
<1>5. CASE {h \in chan[n].htlcs : outbound_committed(h, m.id)} # {}
  <2>1. /\ chan' = [chan EXCEPT ![n] = d]
        /\ \A p \in Payment : outcome'[p] = "new" => outcome[p] = "new"
        /\ net' = read(n) /\ UNCHANGED commitmentVars
    BY <1>5, Zenon DEF on_update_remove_htlc, removal
  <2>2. d.holding_cell = c.holding_cell
    BY <1>3 DEF removal, Channel
  <2> HIDE DEF c, m, d
  <2>3. /\ d \in Channel /\ sound(n, d) /\ holder_keeps(c, d) /\ counterparty_keeps(c, d)
        /\ \A p : has(d, p) <=> has(c, p)
    BY <1>2, <1>3, RemoveStages, Zenon DEF d
  <2>4. chan'[n] = d /\ \A q \in Party : q # n => chan'[q] = chan[q]
    BY <2>1, Zenon DEF TypeOK
  <2>5. htlcs_hold(n)'
    BY <1>3, <2>1, <2>3, <2>4, HoldsKept DEF c
  <2>6. \A q \in Party : htlcs_hold(q)'
    BY <2>1, <2>4, <2>5, IdleHolds
  <2>7. ASSUME NEW p \in Payment PROVE offered_once(p)'
    <3>1. net_quiet(p)
      BY <1>1, <2>1, ReadQuiet, Zenon
    <3>2. chan_quiet(p)
      BY <2>1, <2>2, <2>3, <2>4 DEF chan_quiet, c
    <3> QED
      BY <3>1, <3>2, QuietOffer DEF HtlcInv
  <2> QED
    BY <2>6, <2>7 DEF HtlcInv
<1> QED
  BY <1>4, <1>5

\* Signing the peer's next commitment.
LEMMA SignHtlcs ==
  ASSUME TypeOK, TypeOK', HtlcInv, RecordInv, NEW n \in Party, send_commitment_signed(n)
  PROVE  HtlcInv'
<1> DEFINE c == chan[n]
           x == pending_commitment(n, c, counterparty_commitment_number[n] + 1,
                                   counterparty_next_point[n])
           msg == commitment_signed(x)
           d == [c EXCEPT !.counterparty_dirty = FALSE]
<1>1. /\ ~awaiting_raa[n] /\ UNCHANGED outcome
      /\ UNCHANGED <<current_holder_commitment, current_counterparty_commitment>>
      /\ net' = [net EXCEPT ![n] = Append(net[n], msg)]
      /\ chan' = [chan EXCEPT ![n] = d]
      /\ pending_counterparty_commitment' =
           [pending_counterparty_commitment EXCEPT ![n] = Some(x)]
  BY DEF send_commitment_signed, can_send_commitment
<1>2. c \in Channel /\ sound(n, c) /\ htlcs_hold(n)
  BY DEF TypeOK, HtlcInv, htlcs_hold
<1>3. /\ d \in Channel /\ d.htlcs = c.htlcs /\ d.holding_cell = c.holding_cell
      /\ d.next_holder_htlc_id = c.next_holder_htlc_id
      /\ d.next_counterparty_htlc_id = c.next_counterparty_htlc_id
  BY <1>2, Zenon DEF Channel
<1>4. pending_counterparty_commitment[n] = {}
  BY <1>1 DEF RecordInv, record_single, None
<1>5. \A p : msg \notin adding(p)
  BY DEF adding, commitment_signed
<1>6. msg \in Message
  <2>1. net'[n] = Append(net[n], msg) /\ net'[n] \in Seq(Message) /\ net[n] \in Seq(Message)
    BY <1>1 DEF TypeOK
  <2> HIDE DEF msg
  <2>2. Len(net[n]) \in Nat /\ Len(Append(net[n], msg)) = Len(net[n]) + 1
        /\ Append(net[n], msg)[Len(net[n]) + 1] = msg
    BY <2>1
  <2> QED
    BY <2>1, <2>2
<1> HIDE DEF msg, x, c, d
<1>7. on_counterparty(c, x.info) /\ recorded(c, x)
  BY <1>2, SignedRecord DEF x
<1>8. /\ sound(n, d) /\ holder_keeps(c, d) /\ counterparty_keeps(c, d)
      /\ \A p : has(d, p) <=> has(c, p)
  BY <1>2, <1>3, SameKeeps
<1>9. /\ chan'[n] = d /\ pending_counterparty_commitment'[n] = {x}
      /\ \A q \in Party : q # n => /\ chan'[q] = chan[q]
                                   /\ pending_counterparty_commitment'[q] =
                                        pending_counterparty_commitment[q]
  BY <1>1 DEF TypeOK, Some
<1>10. htlcs_hold(n)'
  <2>1. x \in PendingCommitment
    BY <1>9 DEF TypeOK
  <2>2. unrevoked(n)' = {current_counterparty_commitment[n], x.info}
    BY <1>1, <1>9, Zenon DEF unrevoked
  <2>3. on_holder(d, current_holder_commitment[n])
    BY <1>2, <1>8, HolderKept, Zenon DEF htlcs_hold, c
  <2>4. on_counterparty(c, current_counterparty_commitment[n])
    BY <1>2 DEF htlcs_hold, unrevoked, c
  <2>5. /\ on_counterparty(d, current_counterparty_commitment[n])
        /\ on_counterparty(d, x.info) /\ recorded(d, x)
    BY <1>2, <1>3, <1>7, <1>8, <2>1, <2>4, CounterpartyKept, Zenon
  <2> QED
    BY <1>1, <1>8, <1>9, <2>2, <2>3, <2>5, Zenon DEF htlcs_hold
<1>11. \A q \in Party : htlcs_hold(q)'
  BY <1>1, <1>9, <1>10, IdleParty DEF HtlcInv
<1>12. ASSUME NEW p \in Payment PROVE offered_once(p)'
  <2>1. net_quiet(p)
    BY <1>1, <1>5, <1>6, SendQuiet, Zenon
  <2>2. chan_quiet(p)
    BY <1>1, <1>3, <1>8, <1>9 DEF chan_quiet, c
  <2> QED
    BY <2>1, <2>2, QuietOffer DEF HtlcInv
<1> QED
  BY <1>11, <1>12 DEF HtlcInv

\* Accepting a signature and revoking the commitment before.
LEMMA ReadSignatureHtlcs ==
  ASSUME OperatorTypes, TypeOK, TypeOK', HtlcInv, NEW n \in Party, on_commitment_signed(n)
  PROVE  HtlcInv'
<1> DEFINE number == holder_commitment_number[n] + 1
           c == chan[n]
           b == build_holder_commitment_at(c, number)
           d == lock_holder_side(c)
           msg == revoke_and_ack(number)
<1>1. receives(n, "commitment_signed")
  BY Zenon DEF on_commitment_signed
<1>2. CASE ~(chan[n].state \in {"Normal", "ShuttingDown"} /\ message(n).signature = b)
  <2>1. close(n, "bad signature")
    BY <1>2, Zenon DEF on_commitment_signed
  <2> QED
    BY <1>1, <2>1, CloseHtlcs, Zenon
<1>3. CASE chan[n].state \in {"Normal", "ShuttingDown"} /\ message(n).signature = b
  <2>1. /\ current_holder_commitment' = [current_holder_commitment EXCEPT ![n] = b]
        /\ chan' = [chan EXCEPT ![n] = d]
        /\ net' = [read(n) EXCEPT ![n] = Append(@, msg)]
        /\ UNCHANGED <<current_counterparty_commitment, pending_counterparty_commitment, outcome>>
    BY <1>3 DEF on_commitment_signed
  <2>2. c \in Channel /\ sound(n, c) /\ htlcs_hold(n)
    BY DEF TypeOK, HtlcInv, htlcs_hold
  <2>3. number - 1 \in Nat /\ number + 1 \in Nat
    BY DEF TypeOK
  <2>4. msg \in Message /\ \A p : msg \notin adding(p)
    <3> HIDE DEF number
    <3> QED
      BY <2>3 DEF Message, revoke_and_ack, adding
  <2>5. d.holding_cell = c.holding_cell
    BY <2>2, LockFields, Zenon DEF OperatorTypes
  <2>6. d \in Channel
    BY <2>2, Zenon DEF OperatorTypes
  <2> HIDE DEF c, b, d, msg, number
  <2>7. counterparty_keeps(c, d) /\ on_holder(d, b)
    BY <2>2, <2>6, LockKeeps DEF d, b
  <2>8. /\ sound(n, d)
        /\ \A p \in Payment : has(d, p) => has(c, p)
    <3>1. /\ sound(n, d)
          /\ \A p \in Payment : /\ stage(d, p) = lock_stage(Payer[p] = n, stage(c, p))
                                /\ has(d, p) => same_htlc(c, d, p)
      BY <2>2, <2>6, LockStages DEF d
    <3> QED
      BY <3>1 DEF same_htlc
  <2>9. /\ chan'[n] = d /\ current_holder_commitment'[n] = b
        /\ \A q \in Party : q # n => /\ chan'[q] = chan[q]
                                     /\ current_holder_commitment'[q] = current_holder_commitment[q]
    BY <2>1 DEF TypeOK
  <2>10. htlcs_hold(n)'
    <3>1. unrevoked(n)' = unrevoked(n)
      BY <2>1 DEF unrevoked
    <3>2. /\ \A k : on_counterparty(c, k) => on_counterparty(d, k)
          /\ \A x \in PendingCommitment : recorded(c, x) => recorded(d, x)
      BY <2>2, <2>6, <2>7, CounterpartyKept
    <3>3. pending_counterparty_commitment[n] \subseteq PendingCommitment
      BY DEF TypeOK
    <3> QED
      BY <2>1, <2>2, <2>7, <2>8, <2>9, <3>1, <3>2, <3>3, Zenon DEF htlcs_hold, c
  <2>11. \A q \in Party : htlcs_hold(q)'
    BY <2>1, <2>9, <2>10, IdleParty, Zenon DEF HtlcInv
  <2>12. ASSUME NEW p \in Payment PROVE offered_once(p)'
    <3>1. net_quiet(p)
      <4> DEFINE o == Peer(n)
      <4>1. o \in Party /\ o # n /\ Party = {n, o}
        BY Parties
      <4>2. net[n] \in Seq(Message) /\ net[o] \in Seq(Message) /\ net[o] # <<>>
        BY <1>1, <4>1 DEF TypeOK, receives
      <4>3. net'[n] = Append(net[n], msg) /\ net'[o] = Tail(net[o])
        BY <2>1, <4>1, Zenon DEF TypeOK, read
      <4> HIDE DEF o
      <4>4. /\ clear(net[n], adding(p)) => clear(net'[n], adding(p))
            /\ lone(net[n], adding(p)) => lone(net'[n], adding(p))
        <5> DEFINE A == adding(p)
                   q == net[n]
        <5>1. q \in Seq(Message) /\ msg \in Message /\ msg \notin A
          BY <2>4, <4>2, Zenon
        <5> HIDE DEF A, q
        <5>2. (clear(q, A) => clear(Append(q, msg), A)) /\ (lone(q, A) => lone(Append(q, msg), A))
          BY <5>1, AppendOf, Zenon
        <5> QED
          BY <4>3, <5>2, Zenon DEF A, q
      <4>5. /\ clear(net[o], adding(p)) => clear(net'[o], adding(p))
            /\ lone(net[o], adding(p)) => lone(net'[o], adding(p))
        BY <4>2, <4>3, TailOf
      <4> QED
        BY <4>1, <4>4, <4>5 DEF net_quiet
    <3>2. chan_quiet(p)
      BY <2>1, <2>5, <2>8, <2>9 DEF chan_quiet, c
    <3> QED
      BY <3>1, <3>2, QuietOffer, Zenon DEF HtlcInv
  <2> QED
    BY <2>11, <2>12 DEF HtlcInv
<1> QED
  BY <1>2, <1>3

\* d is the channel c after the calls ops[i], i \in S, of its holding cell, whose messages
\* are the updates; payments that are not permitted any more have failed.
flush_of(n, c, ops, S, order, d, updates) ==
  /\ callable(n, c, ops, S)
  /\ d.htlcs = apply_ops(c, ops, S).htlcs
  /\ d.next_holder_htlc_id = apply_ops(c, ops, S).next_holder_htlc_id
  /\ d.next_counterparty_htlc_id = apply_ops(c, ops, S).next_counterparty_htlc_id
  /\ d.holding_cell = <<>>
  /\ updates = messages(c, ops, S, order)
  /\ \A p \in Payment : outcome'[p] =
       IF \E i \in DOMAIN ops \ S : ops[i] = Add(p) THEN "failed" ELSE outcome[p]

\* What is parked at n is still to be offered.
LEMMA ParkedSound ==
  ASSUME TypeOK, HtlcInv, NEW n \in Party, NEW c \in Channel,
         c.holding_cell = chan[n].holding_cell,
         \A p \in Payment : has(c, p) => has(chan[n], p)
  PROVE  cell_sound(n, c)
<1> SUFFICES ASSUME NEW p \in Payment, ~clear(chan[n].holding_cell, {Add(p)})
             PROVE  Payer[p] = n /\ ~has(c, p) /\ lone(chan[n].holding_cell, {Add(p)})
  BY Zenon DEF cell_sound
<1>1. offered_once(p) /\ Payer[p] \in Party
  BY ConstantsAssumption DEF HtlcInv
<1>2. Payer[p] = n
  BY <1>1, Parties, Zenon DEF offered_once
<1> QED
  BY <1>1, <1>2, Zenon DEF offered_once

\* on_revoke_and_ack empties the holding cell.
LEMMA RevokeFlushes ==
  ASSUME OperatorTypes, TypeOK, HtlcInv, NEW n \in Party, NEW d \in Channel, NEW updates \in Seq(Message),
         NEW signs \in BOOLEAN, NEW acked \in PendingCommitment,
         NEW pending \in PendingCommitment, raa_effect(n, d, updates, signs, acked, pending)
  PROVE  LET c == after_revocation(chan[n], acked)
             ops == chan[n].holding_cell
         IN  /\ c \in Channel /\ sound(n, c) /\ c.holding_cell = ops /\ ops \in Seq(Op)
             /\ \A p \in Payment : has(c, p) => has(chan[n], p)
             /\ \E S \in SUBSET DOMAIN ops : \E order \in ascending(S) :
                  flush_of(n, c, ops, S, order, d, updates)
<1> DEFINE c == after_revocation(chan[n], acked)
           ops == chan[n].holding_cell
<1>1. acked \in pending_counterparty_commitment[n] /\ c = acked_channel(n, acked)
      /\ flush_effect(n, c, ops, d, updates, signs)
  BY DEF raa_effect, after_revocation, acked_channel
<1>2. chan[n] \in Channel /\ sound(n, chan[n]) /\ recorded(chan[n], acked) /\ lists(chan[n], acked)
  BY <1>1, Zenon DEF TypeOK, HtlcInv, htlcs_hold, recorded
<1> HIDE DEF c
<1>3. c \in Channel /\ c.holding_cell = ops
  BY <1>2, RevokeFields, Zenon DEF OperatorTypes, c
<1>4. /\ sound(n, c)
      /\ \A p \in Payment : has(c, p) => same_htlc(chan[n], c, p)
  BY <1>2, RevokeStages, Zenon DEF OperatorTypes, c
<1>5. \A p \in Payment : has(c, p) => has(chan[n], p)
  BY <1>4 DEF same_htlc
<1>6. PICK S \in SUBSET DOMAIN ops : \E order \in ascending(S) :
        /\ flushes(n, c, S)
        /\ d = [flushed(c, S) EXCEPT !.counterparty_dirty = @ /\ ~signs]
        /\ updates = [k \in DOMAIN order |-> update_message(c, ops, S, order[k])]
        /\ outcome' = [p \in Payment |->
             IF \E i \in DOMAIN ops \ S : ops[i] = Add(p) THEN "failed" ELSE outcome[p]]
  BY <1>1, Zenon DEF flush_effect
<1>7. PICK order \in ascending(S) :
        /\ flushes(n, c, S)
        /\ d = [flushed(c, S) EXCEPT !.counterparty_dirty = @ /\ ~signs]
        /\ updates = [k \in DOMAIN order |-> update_message(c, ops, S, order[k])]
        /\ outcome' = [p \in Payment |->
             IF \E i \in DOMAIN ops \ S : ops[i] = Add(p) THEN "failed" ELSE outcome[p]]
  BY <1>6
<1>8. cell_sound(n, c)
  BY <1>3, <1>5, ParkedSound
<1>9. callable(n, c, ops, S)
  BY <1>3, <1>7, <1>8, FlushCallable, Zenon
<1>10. ops \in Seq(Op)
  BY <1>2, Zenon DEF Channel
<1>11. apply_ops(c, ops, S) \in Channel
  BY <1>3, <1>10, Zenon DEF OperatorTypes
<1> DEFINE a == apply_ops(c, ops, S)
<1>12. d = [[a EXCEPT !.holding_cell = <<>>] EXCEPT !.counterparty_dirty = @ /\ ~signs]
  BY <1>3, <1>7 DEF flushed
<1> HIDE DEF a
<1>13. /\ d.htlcs = a.htlcs /\ d.next_holder_htlc_id = a.next_holder_htlc_id
       /\ d.next_counterparty_htlc_id = a.next_counterparty_htlc_id
       /\ d.holding_cell = <<>>
  BY <1>11, <1>12 DEF Channel, a
<1>14. flush_of(n, c, ops, S, order, d, updates)
  BY <1>7, <1>9, <1>13, Zenon DEF flush_of, messages, a
<1> QED
  BY <1>3, <1>4, <1>5, <1>10, <1>14 DEF c

\* The stages after the holding cell is emptied.
LEMMA FlushStages ==
  ASSUME OperatorTypes, NEW n \in Party, NEW c \in Channel, sound(n, c), NEW ops \in Seq(Op),
         NEW S \in SUBSET DOMAIN ops, NEW order, NEW d \in Channel, NEW updates,
         flush_of(n, c, ops, S, order, d, updates)
  PROVE  /\ sound(n, d) /\ holder_keeps(c, d) /\ counterparty_keeps(c, d)
         /\ \A p \in Payment :
              /\ \A j : offers(ops, S, j, p) =>
                   /\ Payer[p] = n /\ stage(c, p) = "none" /\ stage(d, p) = "NotYet"
                   /\ rec(d, p) = offered_htlc(add_id(c, ops, S, j), p)
              /\ \A j : resolves(c, ops, S, j, p) =>
                   /\ Payer[p] # n /\ stage(c, p) = "Committed" /\ stage(d, p) = "Removing"
                   /\ rec(c, p).id = ops[j].id /\ rec(d, p).id = ops[j].id
                   /\ rec(d, p).resolution = Some(ops[j].op)
              /\ (\A j : ~offers(ops, S, j, p) /\ ~resolves(c, ops, S, j, p)) =>
                   /\ stage(d, p) = stage(c, p)
                   /\ has(d, p) => has(c, p) /\ rec(d, p) = rec(c, p)
         /\ \A j \in S : ops[j].op # "Add" => \E p \in Payment : resolves(c, ops, S, j, p)
<1> DEFINE a == apply_ops(c, ops, S)
<1>1. a \in Channel /\ ids_ascend(c, ops, S)
  BY Zenon DEF OperatorTypes
<1>2. callable(n, c, ops, S)
  BY Zenon DEF flush_of
<1>3. /\ d.htlcs = a.htlcs /\ d.next_holder_htlc_id = a.next_holder_htlc_id
      /\ d.next_counterparty_htlc_id = a.next_counterparty_htlc_id
  BY Zenon DEF flush_of
<1>4. holder_keeps(c, a) /\ counterparty_keeps(c, a)
  BY <1>1, <1>2, ApplyKeeps, Zenon
<1>5. applied(n, c, ops, S, a)
  BY <1>1, <1>2, ApplyStages, Zenon
<1> HIDE DEF a
<1>6. /\ sound(n, d)
      /\ \A p : (has(d, p) <=> has(a, p)) /\ rec(d, p) = rec(a, p) /\ stage(d, p) = stage(a, p)
  BY <1>1, <1>3, <1>5, SameKeeps, Zenon DEF applied
<1>7. holder_keeps(c, d) /\ counterparty_keeps(c, d)
  BY <1>3, <1>4, Zenon DEF holder_keeps, counterparty_keeps
<1> QED
  BY <1>5, <1>6, <1>7, Zenon DEF applied

\* Accepting a revocation: the HTLCs it commits, the holding cell and the signature that
\* may follow.
LEMMA ReadRevocationHtlcs ==
  ASSUME OperatorTypes, TypeOK, TypeOK', HtlcInv, NEW n \in Party, on_revoke_and_ack(n),
         acknowledges(n)
  PROVE  HtlcInv'
<1>1. receives(n, "revoke_and_ack")
  BY Zenon DEF on_revoke_and_ack
<1>2. CASE ~(/\ awaiting_raa[n]
             /\ message(n).secret = counterparty_current_point[n]
             /\ message(n).secret = counterparty_commitment_number[n])
  <2>1. close(n, "bad revocation")
    BY <1>2, Zenon DEF on_revoke_and_ack
  <2> QED
    BY <1>1, <2>1, CloseHtlcs, Zenon
<1>3. CASE /\ awaiting_raa[n]
           /\ message(n).secret = counterparty_current_point[n]
           /\ message(n).secret = counterparty_commitment_number[n]
  <2>1. PICK d \in Channel, updates \in Seq(Message), signs \in BOOLEAN,
             acked \in PendingCommitment, pending \in PendingCommitment :
               raa_effect(n, d, updates, signs, acked, pending)
    BY <1>3 DEF acknowledges
  <2> DEFINE o == Peer(n)
             b == chan[n]
             c == after_revocation(b, acked)
             ops == b.holding_cell
             sig == IF signs THEN <<commitment_signed(pending)>> ELSE <<>>
  <2>2. /\ c \in Channel /\ sound(n, c) /\ c.holding_cell = ops /\ ops \in Seq(Op)
        /\ \A p \in Payment : has(c, p) => has(b, p)
        /\ \E S \in SUBSET DOMAIN ops : \E order \in ascending(S) :
             flush_of(n, c, ops, S, order, d, updates)
    BY <2>1, RevokeFlushes
  <2>3. PICK S \in SUBSET DOMAIN ops : \E order \in ascending(S) :
          flush_of(n, c, ops, S, order, d, updates)
    BY <2>2
  <2>4. PICK order \in ascending(S) : flush_of(n, c, ops, S, order, d, updates)
    BY <2>3
  <2>5. o \in Party /\ o # n /\ Party = {n, o} /\ Peer(o) = n
    BY Parties
  <2>6. /\ acked \in pending_counterparty_commitment[n] /\ commitment_signed(pending) \in Message
        /\ chan'[n] = d /\ chan'[o] = chan[o]
        /\ pending_counterparty_commitment'[n] = (IF signs THEN {pending} ELSE {})
        /\ pending_counterparty_commitment'[o] = pending_counterparty_commitment[o]
        /\ current_counterparty_commitment'[n] = acked.info
        /\ current_counterparty_commitment'[o] = current_counterparty_commitment[o]
        /\ UNCHANGED current_holder_commitment
        /\ pending = pending_commitment(n, d, counterparty_commitment_number[n] + 2,
                                        message(n).next_point)
    BY <2>1, <2>5, Zenon DEF raa_effect, TypeOK, Some, None
  <2>7. net'[n] = net[n] \o updates \o sig /\ net'[o] = Tail(net[o])
    BY <2>1, <2>5, Zenon DEF raa_effect, TypeOK, read
  <2>8. /\ b \in Channel /\ sound(n, b) /\ htlcs_hold(n) /\ htlcs_hold(o) /\ recorded(b, acked)
        /\ on_counterparty(b, acked.info) /\ on_holder(b, current_holder_commitment[n])
    <3>1. b \in Channel /\ htlcs_hold(n) /\ htlcs_hold(o)
      BY <2>5 DEF TypeOK, HtlcInv
    <3>2. acked.info \in unrevoked(n)
      BY <2>6, Zenon DEF unrevoked
    <3> QED
      BY <2>6, <3>1, <3>2, Zenon DEF htlcs_hold
  <2> HIDE DEF o, b, c, ops, sig
  <2>9. holder_keeps(b, c) /\ on_counterparty(c, acked.info)
    BY <2>8, RevokeKeeps, Zenon DEF OperatorTypes, c
  <2>10. /\ sound(n, d) /\ holder_keeps(c, d) /\ counterparty_keeps(c, d)
         /\ \A p \in Payment :
              /\ \A j : resolves(c, ops, S, j, p) => Payer[p] # n /\ stage(c, p) = "Committed"
              /\ (\A j : ~offers(ops, S, j, p) /\ ~resolves(c, ops, S, j, p)) =>
                   (has(d, p) => has(c, p))
    BY <2>2, <2>4, FlushStages, Zenon
  <2>11. htlcs_hold(n)'
    <3>1. on_holder(d, current_holder_commitment[n])
      <4>1. on_holder(c, current_holder_commitment[n])
        BY <2>8, <2>9, HolderKept, Zenon
      <4> QED
        BY <4>1, <2>10, HolderKept, Zenon
    <3>2. on_counterparty(d, acked.info)
      BY <2>2, <2>9, <2>10, CounterpartyKept, Zenon
    <3>3. on_counterparty(d, pending.info) /\ recorded(d, pending)
      BY <2>6, <2>10, SignedRecord, Zenon
    <3>4. unrevoked(n)' \subseteq {acked.info, pending.info}
          /\ pending_counterparty_commitment'[n] \subseteq {pending}
      BY <2>6, Zenon DEF unrevoked
    <3> QED
      BY <2>6, <2>10, <3>1, <3>2, <3>3, <3>4, Zenon DEF htlcs_hold
  <2>12. htlcs_hold(o)'
    BY <2>5, <2>6, <2>8, IdleParty, Zenon
  <2>13. ASSUME NEW p \in Payment PROVE offered_once(p)'
    <3> DEFINE A == adding(p)
    <3>1. offered_once(p) /\ Payer[p] \in Party
      BY ConstantsAssumption DEF HtlcInv
    <3>2. /\ net[n] \in Seq(Message) /\ net[o] \in Seq(Message) /\ net[o] # <<>>
          /\ updates \in Seq(Message) /\ sig \in Seq(Message) /\ clear(sig, A)
      <4>1. sig \in Seq(Message)
        BY <2>6, SignatureOffers, Zenon DEF sig
      <4>2. clear(sig, A)
        BY SignatureOffers, Zenon DEF sig
      <4>3. net[o] # <<>>
        BY <1>1, Zenon DEF receives, o
      <4>4. net[n] \in Seq(Message) /\ net[o] \in Seq(Message)
        BY <2>5, Zenon DEF TypeOK
      <4> QED
        BY <4>1, <4>2, <4>3, <4>4, Zenon
    <3>3. /\ clear(net[o], A) => clear(net'[o], A)
          /\ lone(net[o], A) => lone(net'[o], A)
      BY <2>7, <3>2, TailOf, Zenon
    <3>4. /\ clear(net[n], A) /\ clear(updates, A) => clear(net'[n], A)
          /\ lone(net[n], A) /\ clear(updates, A) => lone(net'[n], A)
          /\ clear(net[n], A) /\ lone(updates, A) => lone(net'[n], A)
      <4> DEFINE v == net[n] \o updates
      <4>1. v \in Seq(Message)
        BY <3>2, ConcatOf, Zenon
      <4>2. /\ clear(net[n], A) /\ clear(updates, A) => clear(v, A)
            /\ lone(net[n], A) /\ clear(updates, A) => lone(v, A)
            /\ clear(net[n], A) /\ lone(updates, A) => lone(v, A)
        BY <3>2, ConcatOf, Zenon
      <4>3. net'[n] = v \o sig
        BY <2>7
      <4> HIDE DEF v, A
      <4>4. (clear(v, A) => clear(v \o sig, A)) /\ (lone(v, A) => lone(v \o sig, A))
        BY <3>2, <4>1, ConcatOf, Zenon
      <4> QED
        BY <4>2, <4>3, <4>4, Zenon
    <3>5. /\ (\A i \in S : ops[i] # Add(p)) => clear(updates, A)
          /\ lone(ops, {Add(p)}) => lone(updates, A)
      <4>1. updates = messages(c, ops, S, order)
        BY <2>4, Zenon DEF flush_of
      <4> QED
        BY <2>2, <4>1, FlushOffers, Zenon
    <3>6. /\ d.holding_cell = <<>> /\ clear(<<>>, {Add(p)}) /\ lone(<<>>, {Add(p)})
          /\ outcome'[p] = IF \E i \in DOMAIN ops \ S : ops[i] = Add(p) THEN "failed" ELSE outcome[p]
      <4>1. clear(<<>>, {Add(p)}) /\ lone(<<>>, {Add(p)})
        BY ClearLone, Zenon
      <4> QED
        BY <2>4, <4>1, Zenon DEF flush_of
    <3>7. DOMAIN ops = 1..Len(ops) /\ S \subseteq 1..Len(ops)
      <4>1. ops \in Seq(Op)
        BY <2>2, Zenon
      <4> QED
        BY <4>1
    <3>8. CASE clear(ops, {Add(p)})
      <4>1. \A i \in 1..Len(ops) : ops[i] # Add(p)
        BY <3>8 DEF clear
      <4>2. net_quiet(p)
        BY <2>5, <3>3, <3>4, <3>5, <3>7, <4>1, Zenon DEF net_quiet
      <4>3. \A j : ~offers(ops, S, j, p)
        <5> SUFFICES ASSUME NEW j \in S, ops[j].op = "Add", ops[j].payment = p PROVE FALSE
          BY Zenon DEF offers
        <5>1. j \in DOMAIN ops /\ ops[j] = Add(p)
          BY <2>2, AddInCell, Zenon
        <5> QED
          BY <3>7, <4>1, <5>1, Zenon
      <4>4. has(d, p) => has(c, p)
        <5>1. \A j : resolves(c, ops, S, j, p) => has(c, p)
          BY Zenon DEF resolves
        <5> QED
          BY <2>10, <4>3, <5>1, Zenon
      <4>5. chan_quiet(p)
        BY <2>2, <2>5, <2>6, <3>6, <4>4, Zenon DEF chan_quiet, b
      <4> QED
        BY <3>1, <4>2, <4>5, QuietOffer
    <3>9. CASE ~clear(ops, {Add(p)})
      <4>1. Payer[p] = n
        BY <2>5, <3>1, <3>9, Zenon DEF offered_once, ops, b, o
      <4>2. /\ clear(net[o], A) /\ clear(chan[o].holding_cell, {Add(p)})
            /\ clear(net[n], A) /\ lone(ops, {Add(p)}) /\ ~has(chan[o], p)
            /\ outcome[p] # "new"
        BY <2>5, <3>1, <3>9, <4>1, Zenon DEF offered_once, ops, b, o
      <4>3. /\ clear(net'[o], A) /\ lone(net'[n], A) /\ outcome'[p] # "new"
        BY <3>3, <3>4, <3>5, <3>6, <4>2, Zenon
      <4> QED
        BY <2>5, <2>6, <3>6, <4>1, <4>2, <4>3, Zenon DEF offered_once, o
    <3> QED
      BY <3>8, <3>9
  <2> QED
    BY <2>5, <2>11, <2>12, <2>13, Zenon DEF HtlcInv
<1> QED
  BY <1>2, <1>3

\* At the start there is no HTLC.
LEMMA InitHtlcs == Init => HtlcInv
<1> SUFFICES ASSUME Init PROVE HtlcInv
  BY Zenon
<1>1. ASSUME NEW n \in Party
      PROVE  /\ chan[n].htlcs = {} /\ chan[n].holding_cell = <<>> /\ net[n] = <<>>
             /\ pending_counterparty_commitment[n] = {}
  BY DEF Init, new_channel, None
<1>2. ASSUME NEW n \in Party PROVE htlcs_hold(n)
  BY <1>1, Zenon DEF htlcs_hold, sound, unique, ids_fresh, on_holder, on_counterparty
<1>3. ASSUME NEW p \in Payment PROVE offered_once(p)
  <2>1. Payer[p] \in Party /\ Peer(Payer[p]) \in Party
    BY ConstantsAssumption, Parties
  <2>3. \A n \in Party : ~has(chan[n], p)
    BY <1>1, Zenon DEF has
  <2> QED
    BY <1>1, <2>1, <2>3, ClearLone, Zenon DEF offered_once
<1> QED
  BY <1>2, <1>3, Zenon DEF HtlcInv
=============================================================================
