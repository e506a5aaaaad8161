-------------------------- MODULE ChannelInvariants --------------------------
(***************************************************************************)
(* What holds of one party's `Channel` throughout the dance, as state      *)
(* functions of the record (ChannelOps): the stages its HTLCs go through,  *)
(* where on the commitments they are, and what several calls at once do.   *)
(* DanceInvariants has the invariants of the two parties together.         *)
(***************************************************************************)
EXTENDS ChannelOps

-----------------------------------------------------------------------------
(* One party's HTLCs.  What an HTLC may be in is a line of five stages, named *)
(* by its phase on the offerer's commitment; the phase on the recipient's     *)
(* commitment and the resolution follow from it.                              *)

near(h) == phase_on(h, h.outbound)
far(h) == phase_on(h, ~h.outbound)

well_phased(n, h) ==
  /\ h.outbound <=> Payer[h.payment] = n
  /\ near(h) = "NotYet" => far(h) = "Pending"
  /\ near(h) \in {"Pending", "Committed", "Removing"} => far(h) = "Committed"
  /\ near(h) = "Gone" => far(h) = "Removing"
  /\ near(h) \in {"NotYet", "Pending", "Committed"} => h.resolution = None
  /\ near(h) \in {"Removing", "Gone"} => \E r \in HtlcResolution : h.resolution = Some(r)
  /\ h.processed => ~h.outbound /\ near(h) \notin {"NotYet", "Pending"}

\* No two HTLCs of a channel carry the same payment or the same reference.
unique(c) ==
  \A g, h \in c.htlcs : g.payment = h.payment \/ htlc_ref(g) = htlc_ref(h) => g = h

\* The next ids have not been used.
ids_fresh(c) ==
  \A h \in c.htlcs :
    /\ h.outbound => h.id < c.next_holder_htlc_id
    /\ ~h.outbound => h.id < c.next_counterparty_htlc_id

sound(n, c) == unique(c) /\ ids_fresh(c) /\ \A h \in c.htlcs : well_phased(n, h)

\* The HTLC of a payment, if the channel has one, and its stage.
has(c, p) == \E h \in c.htlcs : h.payment = p
rec(c, p) == CHOOSE h \in c.htlcs : h.payment = p
stage(c, p) == IF has(c, p) THEN near(rec(c, p)) ELSE "none"

-----------------------------------------------------------------------------
(* The HTLCs of a channel on the commitments.  What is committed on a side has *)
(* an output on every commitment of that side that could still confirm.        *)

\* k is our commitment: it has the HTLCs that are committed on our side.
on_holder(c, k) ==
  \A h \in c.htlcs : h.phase_holder = "Committed" => htlc_in_commitment(h, TRUE) \in k.htlcs

\* k is a commitment of the peer: it has the HTLCs that are committed on the peer's side.
on_counterparty(c, k) ==
  \A h \in c.htlcs : h.phase_counterparty = "Committed" => htlc_in_commitment(h, FALSE) \in k.htlcs

\* The record x of what was signed lists HTLCs of the channel, in the phases they still have.
lists(c, x) ==
  \A h \in c.htlcs : /\ htlc_ref(h) \in x.included => h.phase_counterparty = "Pending"
                     /\ htlc_ref(h) \in x.removed => h.phase_counterparty = "Removing"

\* The record x is of HTLCs that had their ids when it was made.
knows_ids(c, x) ==
  \A r \in x.included \cup x.removed :
    /\ r[1] => r[2] < c.next_holder_htlc_id
    /\ ~r[1] => r[2] < c.next_counterparty_htlc_id

\* The record x of what was signed agrees with the channel, and what it includes is on
\* the signed commitment.
recorded(c, x) ==
  /\ lists(c, x) /\ knows_ids(c, x)
  /\ \A h \in c.htlcs : htlc_ref(h) \in x.included => htlc_in_commitment(h, FALSE) \in x.info.htlcs

-----------------------------------------------------------------------------
(* Calls of several ops at once. *)

\* Whether, and how often, an element of M occurs in q.
clear(q, M) == \A i \in 1..Len(q) : q[i] \notin M
lone(q, M) == \A i, j \in 1..Len(q) : q[i] \in M /\ q[j] \in M => i = j

\* Adds are given different ids, in order, none of them used before.
ids_ascend(c, ops, S) ==
  /\ c.next_holder_htlc_id <= apply_ops(c, ops, S).next_holder_htlc_id
  /\ \A i \in S : ops[i].op = "Add" =>
       /\ add_id(c, ops, S, i) \in Nat
       /\ c.next_holder_htlc_id <= add_id(c, ops, S, i)
       /\ add_id(c, ops, S, i) < apply_ops(c, ops, S).next_holder_htlc_id
       /\ \A j \in S : ops[j].op = "Add" /\ i < j => add_id(c, ops, S, i) < add_id(c, ops, S, j)

\* The messages of the calls ops[i], i \in S, in order.
messages(c, ops, S, order) == [k \in DOMAIN order |-> update_message(c, ops, S, order[k])]

\* The messages are in the order of the calls, one for each.
in_order(c, ops, S, order) ==
  LET u == messages(c, ops, S, order)
  IN  /\ u \in Seq(Message) /\ Len(u) \in Nat
      /\ \A k \in 1..Len(u) : order[k] \in S /\ u[k] = update_message(c, ops, S, order[k])
      /\ \A j, k \in 1..Len(u) : j < k => order[j] < order[k]
      /\ \A i \in S : \E k \in 1..Len(u) : order[k] = i

\* The channel once the peer's commitment is locked and what became irrevocable is
\* handed to the node.
after_revocation(c, x) == collect_forwardable(lock_counterparty_side(c, x))

\* The operators the handlers are built from return channels and messages.
OperatorTypes ==
  \A c \in Channel :
    /\ lock_holder_side(c) \in Channel
    /\ \A x \in PendingCommitment :
         lock_counterparty_side(c, x) \in Channel /\ after_revocation(c, x) \in Channel
    /\ \A ops \in Seq(Op) : \A S \in SUBSET DOMAIN ops :
         /\ apply_ops(c, ops, S) \in Channel /\ ids_ascend(c, ops, S)
         /\ \A i \in S : update_message(c, ops, S, i) \in Message
         /\ \A order \in ascending(S) : in_order(c, ops, S, order)
    /\ \A n \in Party, k \in Nat, pt \in Nat :
         /\ pending_commitment(n, c, k, pt) \in PendingCommitment
         /\ commitment_signed(pending_commitment(n, c, k, pt)) \in Message
         /\ pending_commitment(n, c, k, pt).info.number = k

==============================================================================
