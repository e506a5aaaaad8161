----------------------------- MODULE Forwarding -----------------------------
(***************************************************************************)
(* Payments over several channels (node/mod.rs): the payer's pay_invoice,  *)
(* the forwarding of committed HTLCs, the payee's checks and its claim,    *)
(* and the way a preimage or a failure takes back.                         *)
(*                                                                         *)
(* A channel is what PaymentLedger promises of it, with the balances that  *)
(* decide whether an offer is accepted; HopsKeepLedger checks it.  An onion *)
(* is what its payer decided: the amounts and expiries of the hops, which  *)
(* may rest on an outdated policy of a forwarder, or bytes that no node on *)
(* the way can decrypt.                                                    *)
(***************************************************************************)
EXTENDS Integers, Sequences, FiniteSets, FiniteSetsExt, SequencesExt

CONSTANTS
  Node,            \* the nodes
  Payment,         \* attempts to pay an invoice
  Path,            \* Path[p]: the nodes p goes through, from payer to payee
  Hash,            \* Hash[p]: the payment hash of the invoice p pays
  Onions,          \* Onions[p]: the onions the payer may build for p
  InvoiceAmount,   \* InvoiceAmount[h]: what the invoice for h asks for, if it says
  Balance,         \* Balance[<<n, m>>]: what n can spend towards m at first
  FeeBase,         \* fee_base_msat
  FeeProportional, \* fee_proportional_millionths
  CltvExpiryDelta, \* cltv_expiry_delta
  MinFinalCltv,    \* min_final_cltv of an invoice
  MaxHeight,       \* bound: the last block height
  MaxAttempts,     \* bound: how many of the payments are attempted
  MaxDisconnects   \* bound: how many connections are lost for good

\* The HTLC <<p, i>> carries p over its i-th channel.
Hop == UNION {{<<p, i>> : i \in 1..(Len(Path[p]) - 1)} : p \in Payment}
from(x) == Path[x[1]][x[2]]
to(x) == Path[x[1]][x[2] + 1]
first(x) == x[2] = 1
final(x) == x[2] = Len(Path[x[1]]) - 1
prev(x) == <<x[1], x[2] - 1>>
next(x) == <<x[1], x[2] + 1>>

\* The end of the channel of x at the node that offers x, and at the one that gets it.
out_end(x) == <<from(x), to(x)>>
in_end(x) == <<to(x), from(x)>>
End == {out_end(x) : x \in Hop} \cup {in_end(x) : x \in Hop}

ASSUME ForwardingAssumption ==
  /\ \A p \in Payment : Path[p] \in Seq(Node) /\ Len(Path[p]) > 1
  /\ FeeBase \in Nat /\ FeeProportional \in Nat
  /\ CltvExpiryDelta \in Nat /\ MinFinalCltv \in Nat
  /\ MaxHeight \in Nat /\ MaxAttempts \in Nat /\ MaxDisconnects \in Nat
  /\ Balance \in [End -> Nat]

VARIABLES
  htlc,         \* htlc[x]: the stage of the HTLC x
  balance,      \* balance[<<n, m>>]: what n can spend towards m
  payments,     \* payments[p]: new, pending, or what the payer was told: sent, failed
  onion,        \* onion[p]: what the payer sent
  claimable,    \* claimable[h]: the HTLC the payee may claim for h, if any
  claimed,      \* the payments the payee reported as claimed
  best_height,
  down,         \* the ends of the channels whose connection is lost
  auto_claim    \* the payee's configuration: it claims at once, or when it is told to

vars == <<htlc, balance, payments, onion, claimable, claimed, best_height, down, auto_claim>>

\* none, parked (in the holding cell), offered, committed (the receiver has it),
\* skipped (committed, but the receiver's handler stopped before it), Fulfill, Fail,
\* FailMalformed (resolved, the offerer has not heard), fulfilled, failed (it has),
\* settled, returned (the removal is irrevocable, or the holding cell dropped it).
Unheard == {"Fulfill", "Fail", "FailMalformed"}

\* A world is what a handler changes, so that handlers compose.  ok: no call failed
\* so far; busy: the channel ends that await a revocation.
world(busy) ==
  [htlc |-> htlc, balance |-> balance, payments |-> payments, onion |-> onion,
   claimable |-> claimable, claimed |-> claimed, ok |-> TRUE, busy |-> busy]

becomes(w) ==
  /\ htlc' = w.htlc /\ balance' = w.balance /\ payments' = w.payments
  /\ onion' = w.onion /\ claimable' = w.claimable /\ claimed' = w.claimed
  /\ UNCHANGED <<best_height, down, auto_claim>>

amount(w, x) == w.onion[x[1]].hops[x[2]].amount
cltv_expiry(w, x) == w.onion[x[1]].hops[x[2]].cltv_expiry

\* An update and the signature after it: parked while the end awaits a revocation;
\* the channel takes it either way, and the call fails if there is no connection.
send(w, end) ==
  [w EXCEPT !.ok = @ /\ (end \in w.busy \/ end \notin down), !.busy = @ \cup {end}]

-----------------------------------------------------------------------------
(* A resolution goes back. *)

resolve(w, x, r) == [send(w, in_end(x)) EXCEPT !.htlc[x] = r]

fail_inbound(w, x) == resolve(w, x, "Fail")
fail_inbound_malformed(w, x) == resolve(w, x, "FailMalformed")

\* Mutant of on_htlc_fulfilled: the forwarder keeps the preimage to itself.
fulfilled_untold(w, x) ==
  IF first(x) THEN [w EXCEPT !.payments[x[1]] = "sent"] ELSE w

on_htlc_fulfilled(w, x) ==
  IF first(x) THEN [w EXCEPT !.payments[x[1]] = "sent"] ELSE resolve(w, prev(x), "Fulfill")

\* A malformed report becomes an error of the forwarder's own.
on_htlc_failed(w, x) ==
  IF first(x) THEN [w EXCEPT !.payments[x[1]] = "failed"] ELSE resolve(w, prev(x), "Fail")

\* update_fulfill_htlc, update_fail_htlc or update_fail_malformed_htlc reaches the
\* node that offered x, which relays it before the removal is irrevocable.
on_update(x) ==
  /\ htlc[x] \in Unheard
  /\ in_end(x) \notin down
  /\ \E busy \in SUBSET {e \in End : e[1] = from(x)} :
       LET w == world(busy) IN
       becomes(IF htlc[x] = "Fulfill"
               THEN on_htlc_fulfilled([w EXCEPT !.htlc[x] = "fulfilled"], x)
               ELSE on_htlc_failed([w EXCEPT !.htlc[x] = "failed"], x))

\* The commitments without x are signed and revoked: its amount is free again.
gc_htlcs(x) ==
  /\ htlc[x] \in {"fulfilled", "failed"}
  /\ in_end(x) \notin down
  /\ LET paid == htlc[x] = "fulfilled"
         end == IF paid THEN in_end(x) ELSE out_end(x)
     IN  /\ htlc' = [htlc EXCEPT ![x] = IF paid THEN "settled" ELSE "returned"]
         /\ balance' = [balance EXCEPT ![end] = @ + onion[x[1]].hops[x[2]].amount]
  /\ UNCHANGED <<payments, onion, claimable, claimed, best_height, down, auto_claim>>

-----------------------------------------------------------------------------
(* An HTLC goes forward. *)

affordable(w, x) == amount(w, x) <= w.balance[out_end(x)]

add_htlc(w, x) ==
  IF out_end(x) \in w.busy THEN [w EXCEPT !.htlc[x] = "parked"]
  ELSE [send(w, out_end(x)) EXCEPT
          !.htlc[x] = "offered", !.balance[out_end(x)] = @ - amount(w, x)]

fee(amt) == FeeBase + (amt * FeeProportional) \div 1000000

\* Mutant of fee_insufficient: the fee is compared with the amount that comes in.
fee_of_inbound(w, x) == amount(w, x) < fee(amount(w, x))

fee_insufficient(w, x) == amount(w, x) < amount(w, next(x)) + fee(amount(w, next(x)))

cltv_too_close(w, x) == cltv_expiry(w, x) < cltv_expiry(w, next(x)) + CltvExpiryDelta

\* An offer that is parked is validated only when the holding cell is flushed.
forward_htlc(w, x) ==
  IF \/ ~w.onion[x[1]].scid_known
     \/ fee_insufficient(w, x)
     \/ cltv_too_close(w, x)
     \/ out_end(next(x)) \notin w.busy /\ ~affordable(w, next(x))
  THEN fail_inbound(w, x)
  ELSE add_htlc([w EXCEPT !.htlc[x] = "committed"], next(x))

\* The entry goes first; the event is reported only if the update could be sent.
claim_payment(w, h) ==
  LET x == CHOOSE y \in w.claimable[h] : TRUE
      sent == resolve([w EXCEPT !.claimable[h] = {}], x, "Fulfill")
  IN  [sent EXCEPT !.claimed = IF sent.ok THEN @ \cup {x[1]} ELSE @]

refused_as_final(w, x) ==
  LET payload == w.onion[x[1]].payload
  IN  \/ Hash[x[1]] \notin DOMAIN InvoiceAmount
      \/ ~payload.secret_matches
      \/ payload.amt_to_forward > amount(w, x)
      \/ \E required \in InvoiceAmount[Hash[x[1]]] :
           amount(w, x) < required \/ amount(w, x) > required * 2
      \/ payload.outgoing_cltv_value > cltv_expiry(w, x)
      \/ cltv_expiry(w, x) < best_height + MinFinalCltv

receive_final_htlc(w, x) ==
  LET announced == [w EXCEPT !.htlc[x] = "committed", !.claimable[Hash[x[1]]] = {x}]
  IN  IF refused_as_final(w, x) THEN fail_inbound(w, x)
      ELSE IF auto_claim THEN claim_payment(announced, Hash[x[1]]) ELSE announced

process_committed_htlc(w, x) ==
  IF w.onion[x[1]].malformed_at = x[2] THEN fail_inbound_malformed(w, x)
  ELSE IF final(x) THEN receive_final_htlc(w, x) ELSE forward_htlc(w, x)

\* The loop over what one revoke_and_ack commits ends at the first error.
process_all(w, batch) ==
  FoldLeft(LAMBDA v, x : IF v.ok THEN process_committed_htlc(v, x)
                         ELSE [v EXCEPT !.htlc[x] = "skipped"], w, batch)

\* The holding cell after a revocation: every parked HTLC is offered or dropped.
flush(w, cell) ==
  FoldLeft(LAMBDA v, x : IF affordable(v, x)
                         THEN [v EXCEPT !.htlc[x] = "offered",
                                        !.balance[out_end(x)] = @ - amount(v, x)]
                         ELSE [v EXCEPT !.htlc[x] = "returned"], w, cell)

\* Mutant of failed_adds: what the flush dropped is forgotten.
failed_adds_dropped(w, cell) == w

\* Mutant of failed_adds: the sources of all that was parked are told.
failed_adds_all(w, cell) == FoldLeft(LAMBDA v, x : on_htlc_failed(v, x), w, cell)

\* The sources of the dropped HTLCs are told, up to the first error.
failed_adds(w, cell) ==
  FoldLeft(LAMBDA v, x : IF v.ok /\ v.htlc[x] = "returned" THEN on_htlc_failed(v, x) ELSE v,
           w, cell)

\* A revoke_and_ack of m reaches n: the HTLCs parked at n towards m are flushed, and
\* some of those that m offered are committed.  An end with a fresh offer is busy.
on_revoke_and_ack(n, m) ==
  LET parked == {x \in Hop : htlc[x] = "parked" /\ out_end(x) = <<n, m>>} IN
  /\ <<n, m>> \notin down
  /\ \E S \in SUBSET {x \in Hop : htlc[x] = "offered" /\ in_end(x) = <<n, m>>} :
     /\ parked \cup S # {}
     /\ \E cell \in SetToSeqs(parked), batch \in SetToSeqs(S),
          busy \in SUBSET {e \in End : e[1] = n} :
          LET flushed == flush(world(busy), cell)
              fresh == \E x \in parked : flushed.htlc[x] = "offered"
          IN  /\ fresh => <<n, m>> \in busy
              /\ becomes(process_all(failed_adds(flushed, cell), batch))

-----------------------------------------------------------------------------
(* The application and the chain. *)

\* One attempt at a time for a hash; the first hop must be able to carry it, and an
\* offer that is not parked is validated at once.
pay_invoice(p) ==
  /\ payments[p] = "new"
  /\ Cardinality({q \in Payment : payments[q] # "new"}) < MaxAttempts
  /\ \A q \in Payment :
       Path[q][1] = Path[p][1] /\ Hash[q] = Hash[p] => payments[q] # "pending"
  /\ \E o \in Onions[p], busy \in SUBSET {e \in End : e[1] = Path[p][1]} :
       LET at(r) == [r EXCEPT !.cltv_expiry = @ + best_height]
           w == [world(busy) EXCEPT
                   !.onion[p] = [o EXCEPT !.hops = [i \in DOMAIN @ |-> at(@[i])],
                                          !.payload.outgoing_cltv_value = @ + best_height],
                   !.payments[p] = "pending"]
       IN  /\ affordable(w, <<p, 1>>)
           /\ becomes(add_htlc(w, <<p, 1>>))

Claim(h) ==
  /\ ~auto_claim
  /\ \E x \in claimable[h] : \E busy \in SUBSET {e \in End : e[1] = to(x)} :
       becomes(claim_payment(world(busy), h))

best_block_updated ==
  /\ best_height < MaxHeight
  /\ best_height' = best_height + 1
  /\ UNCHANGED <<htlc, balance, payments, onion, claimable, claimed, down, auto_claim>>

peer_disconnected(e) ==
  /\ Cardinality(down) < 2 * MaxDisconnects
  /\ e \notin down
  /\ down' = down \cup {e, <<e[2], e[1]>>}
  /\ UNCHANGED <<htlc, balance, payments, onion, claimable, claimed, best_height, auto_claim>>

Init ==
  /\ htlc = [x \in Hop |-> "none"]
  /\ balance = Balance
  /\ payments = [p \in Payment |-> "new"]
  /\ onion = [p \in Payment |-> <<>>]
  /\ claimable = [h \in {Hash[p] : p \in Payment} |-> {}]
  /\ claimed = {}
  /\ best_height = 0
  /\ down = {}
  /\ auto_claim \in BOOLEAN

Next ==
  \/ \E p \in Payment : pay_invoice(p)
  \/ \E x \in Hop : on_update(x) \/ gc_htlcs(x)
  \/ \E e \in End : on_revoke_and_ack(e[1], e[2]) \/ peer_disconnected(e)
  \/ \E h \in DOMAIN claimable : Claim(h)
  \/ best_block_updated

Spec == Init /\ [][Next]_vars

\* A connected peer answers, so a revocation, an update and its signatures arrive: what
\* waits for one over a connection that stands does not wait for ever.  An application
\* claims what is announced, or not: nothing is assumed of it, of the payer, or of the
\* chain.
FairSpec ==
  /\ Spec
  /\ \A x \in Hop :
       /\ []<>(in_end(x) \in down \/ htlc[x] \notin Unheard \cup {"fulfilled", "failed"})
       /\ []<>(in_end(x) \in down \/ htlc[x] \notin {"parked", "offered"})

-----------------------------------------------------------------------------
(* Properties. *)

Stage == {"none", "parked", "offered", "committed", "skipped", "fulfilled", "failed",
          "settled", "returned"} \cup Unheard

InFlight == {"offered", "committed", "skipped", "fulfilled", "failed"} \cup Unheard

sum_amounts(S) == MapThenSumSet(LAMBDA x : onion[x[1]].hops[x[2]].amount, S)

\* The channels are solvent: no end spends what it does not have, and a channel's
\* balances and HTLCs always add up to what it had.
ChannelsAreSolvent ==
  \A e \in End :
    LET f == <<e[2], e[1]>> IN
    /\ balance[e] >= 0
    /\ balance[e] + balance[f]
         + sum_amounts({x \in Hop : out_end(x) \in {e, f} /\ htlc[x] \in InFlight})
         = Balance[e] + Balance[f]

\* The two ends of a payment agree: the payer is told that it was sent only if the payee
\* reported it as claimed, and that it failed only if the payee neither claimed it nor
\* still can, whatever happens at the forwarders in between.
EndsAgree ==
  \A x \in Hop : final(x) =>
    /\ payments[x[1]] = "sent" => x[1] \in claimed
    /\ payments[x[1]] = "failed" => x[1] \notin claimed /\ htlc[x] \notin {"committed", "Fulfill"}

\* A forwarder is never left with one side of a payment: once the node after it took
\* the money, the HTLC before it is being fulfilled; and once it failed the HTLC
\* before it, the node after it cannot take the money any more.
ForwarderIsWhole ==
  \A x \in Hop : ~first(x) =>
    /\ htlc[x] \in {"fulfilled", "settled"} =>
         htlc[prev(x)] \in {"Fulfill", "fulfilled", "settled"}
    /\ htlc[prev(x)] \in {"Fail", "FailMalformed", "failed", "returned"} =>
         htlc[x] \in {"none", "failed", "returned"}

\* A payment is atomic, at its ends and at every node between them.
PaymentIsAtomic == EndsAgree /\ ForwarderIsWhole /\ ChannelsAreSolvent

\* What n owns: its balances, what it may still get back, what it claimed.
worth(n) ==
  MapThenSumSet(LAMBDA e : balance[e], {e \in End : e[1] = n})
    + sum_amounts({x \in Hop : from(x) = n /\ htlc[x] \in InFlight \ {"fulfilled"}})
    + sum_amounts({x \in Hop : to(x) = n /\ htlc[x] \in {"Fulfill", "fulfilled"}})

\* A node that pays nothing itself never gets poorer, and each HTLC of its own that
\* is fulfilled earns it the fee, whatever policy the payer assumed and in whatever
\* order preimages, failures and revocations arrive.
ForwardingEarnsFee ==
  [][\A n \in Node : (\A p \in Payment : Path[p][1] # n) =>
       LET paid == {x \in Hop : from(x) = n /\ htlc[x] = "Fulfill" /\ htlc'[x] = "fulfilled"}
       IN  worth(n)' >= worth(n) + MapThenSumSet(LAMBDA x : fee(onion[x[1]].hops[x[2]].amount), paid)]_vars

\* While the connections last, a payer hears what became of its payment, unless the
\* payee was told of it and does not claim it.
EveryPaymentEnds ==
  \A x \in Hop : final(x) =>
    (payments[x[1]] = "pending" ~>
       \/ payments[x[1]] \in {"sent", "failed"}
       \/ ~auto_claim /\ htlc[x] = "committed"
       \/ down # {})

ledger_stage(x) ==
  CASE htlc[x] = "none" -> "new"
    [] htlc[x] \in {"parked", "offered"} -> "offered"
    [] htlc[x] \in {"committed", "skipped"} -> "delivered"
    [] htlc[x] = "Fulfill" -> "fulfilling"
    [] htlc[x] \in {"Fail", "FailMalformed"} -> "failing"
    [] htlc[x] \in {"fulfilled", "settled"} -> "fulfilled"
    [] htlc[x] \in {"failed", "returned"} -> "failed"

Ledger == INSTANCE PaymentLedger WITH Htlc <- Hop, stage <- [x \in Hop |-> ledger_stage(x)]

\* What the nodes ask of their channels stays within the ledger that the commitment
\* dance is shown to implement: each HTLC of a route is delivered at most once,
\* resolved at most once, and its resolution is the one its offerer relays.
HopsKeepLedger == Ledger!Spec

\* BOLT 2: an HTLC is not failed back before the removal of the one it was forwarded
\* as is irrevocable.  on_htlc_failed relays the failure when it hears of it.
FailsAfterRemoval ==
  \A x \in Hop : ~first(x) /\ htlc[prev(x)] = "Fail" => htlc[x] \in {"none", "returned"}

\* Every HTLC that a revoke_and_ack commits is processed.  The loop in handle_message
\* stops at the first one whose call fails.
EveryCommittedIsProcessed == \A x \in Hop : htlc[x] # "skipped"

\* What was announced as claimable can be claimed until it is resolved.  The map is
\* keyed by the payment hash: a second HTLC with the hash hides the first.
AnnouncedIsClaimable ==
  \A x \in Hop : final(x) /\ htlc[x] = "committed" => x \in claimable[Hash[x[1]]]

\* BOLT 2: an incoming HTLC whose expiry is reached is failed.  No code does it.
ExpiredIsFailed ==
  \A x \in Hop :
    htlc[x] = "committed" /\ best_height >= onion[x[1]].hops[x[2]].cltv_expiry
      ~> htlc[x] # "committed"
=============================================================================
