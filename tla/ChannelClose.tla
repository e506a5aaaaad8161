---------------------------- MODULE ChannelClose ----------------------------
(***************************************************************************)
(* Cooperative close (channel/close.rs) of a channel whose commitment      *)
(* dance goes on: shutdown from either side, the drain of the HTLCs, and   *)
(* the negotiation of a fee with closing_signed, with fee_range and by the *)
(* legacy rule.                                                            *)
(*                                                                         *)
(* A closing transaction is the set of its outputs; a signature is the     *)
(* transaction it signs.  The shutdown scripts are witness programs and    *)
(* never change, so that having one is having sent, or received, shutdown. *)
(***************************************************************************)
EXTENDS ChannelDance

CONSTANTS
  MsatPerSat,   \* units of a balance in one satoshi
  TargetFee,    \* TargetFee[n]: the closing fee at n's close_feerate
  MinFee,       \* the closing fee at the lowest feerate, 253
  DustLimit,    \* DustLimit[n]: below it n leaves an output out
  LegacyChoices \* the possible values of legacy

ASSUME ClosingAssumption ==
  /\ MsatPerSat \in Nat \ {0}
  /\ TargetFee \in [Party -> Nat] /\ MinFee \in Nat
  /\ DustLimit \in [Party -> Nat]
  /\ LegacyChoices \subseteq SUBSET Party

VARIABLES
  last_closing_fee_proposal,  \* what n proposed last, if anything
  closing_tx,                 \* the transaction n finished with, if any
  legacy                      \* the parties whose closing_signed never has a fee_range

closingVars == <<last_closing_fee_proposal, closing_tx>>
danceVars == <<commitmentVars, outcome, fee_updates>>

-----------------------------------------------------------------------------
(* The closing transaction and its fee. *)

to_sat_floor(msat) == msat \div MsatPerSat

\* Pays every party its value, outputs below the dust limit left out.
build_closing_tx(value, dust_limit) ==
  {[to |-> m, value |-> value[m]] : m \in {x \in Party : value[x] >= dust_limit}}

\* What is left to each party in n's channel at this fee, which the opener bears.
closing_value(n, c, fee) ==
  LET b == balances_for(c, TRUE)
      sat == [m \in Party |-> to_sat_floor(IF m = n THEN b.to_holder ELSE b.to_counterparty)]
  IN  [sat EXCEPT !["opener"] = saturating_sub(@, fee)]

build_and_sign_closing(n, c, fee) == build_closing_tx(closing_value(n, c, fee), DustLimit[n])

\* Panics when lo > hi.
clamp(x, lo, hi) == IF x < lo THEN lo ELSE IF x > hi THEN hi ELSE x

\* The fee n aims at and the range it accepts, which the opener's balance limits.
closing_fee_bounds(n, c) ==
  LET balance == to_sat_floor(balances_for(c, TRUE).to_holder)
      twice == TargetFee[n] * 2
      max == IF n = "opener" /\ balance < twice THEN balance ELSE twice
  IN  [fee |-> clamp(TargetFee[n], MinFee, max), min |-> MinFee, max |-> max]

overlap(b, r) ==
  [lo |-> IF b.min > r.min THEN b.min ELSE r.min, hi |-> IF b.max < r.max THEN b.max ELSE r.max]

\* The legacy rule: half way to the fee the peer asks for.
between(theirs, sent) ==
  IF theirs - sent \in -1..1 THEN theirs ELSE (theirs + sent) \div 2

\* The fee n answers a closing_signed with.  The opener takes a choice in the
\* range; the accepter chooses in it; without a range they meet half way.
answer(n, m, b, last) ==
  IF m.fee_range = None
  THEN IF last = None THEN b.fee ELSE between(m.fee, CHOOSE sent \in last : TRUE)
  ELSE LET o == overlap(b, CHOOSE r \in m.fee_range : TRUE)
       IN  IF n = "opener" THEN m.fee ELSE clamp(b.fee, o.lo, o.hi)

closing_signed(n, c, fee, ranged) ==
  LET b == closing_fee_bounds(n, c)
  IN  [type |-> "closing_signed", fee |-> fee, signature |-> build_and_sign_closing(n, c, fee),
       fee_range |-> IF ranged /\ n \notin legacy
                     THEN Some([min |-> b.min, max |-> b.max]) ELSE None]

-----------------------------------------------------------------------------
(* Shutdown. *)

ClosingInit ==
  /\ Init
  /\ last_closing_fee_proposal = [n \in Party |-> None]
  /\ closing_tx = [n \in Party |-> None]
  /\ legacy \in LegacyChoices

shutdown_sent(c) ==
  [c EXCEPT !.shutdown_sent = TRUE, !.state = IF @ = "Normal" THEN "ShuttingDown" ELSE @]

shutdown_received(c) ==
  [c EXCEPT !.shutdown_received = TRUE, !.state = IF @ = "Normal" THEN "ShuttingDown" ELSE @]

shutdown == [type |-> "shutdown"]

\* close_channel of the node.
send_shutdown(n) ==
  /\ running(n)
  /\ chan[n].state \in {"Normal", "ShuttingDown"}
  /\ ~chan[n].shutdown_sent
  /\ chan' = [chan EXCEPT ![n] = shutdown_sent(@)]
  /\ net' = [net EXCEPT ![n] = Append(@, shutdown)]
  /\ UNCHANGED <<danceVars, error, closingVars>>

\* Mutant of reciprocates: the reply is left to a later call.
reciprocates_later(c) == FALSE

\* A shutdown is answered with one, unless it was the answer.
reciprocates(c) == ~c.shutdown_sent

on_shutdown(n) ==
  /\ receives(n, "shutdown")
  /\ IF chan[n].state \in {"Normal", "ShuttingDown"}
     THEN LET c == shutdown_received(chan[n])
          IN  /\ chan' = [chan EXCEPT ![n] = IF reciprocates(c) THEN shutdown_sent(c) ELSE c]
              /\ net' = [read(n) EXCEPT ![n] = @ \o
                           (IF reciprocates(c) THEN <<shutdown>> ELSE <<>>)]
              /\ UNCHANGED <<danceVars, error>>
     ELSE close(n, "shutdown refused")
  /\ UNCHANGED closingVars

-----------------------------------------------------------------------------
(* Negotiation. *)

shut(c) == /\ c.state \in {"ShuttingDown", "NegotiatingClose"}
           /\ c.shutdown_sent /\ c.shutdown_received

\* Mutant of ready_to_negotiate_close: does not wait for the HTLCs.
ready_with_htlcs(c, awaiting) ==
  shut(c) /\ ~awaiting /\ ~c.counterparty_dirty /\ c.holding_cell = <<>>

ready_to_negotiate_close(c, awaiting) ==
  shut(c) /\ c.htlcs = {} /\ ~awaiting /\ ~c.counterparty_dirty /\ c.holding_cell = <<>>

ready(n) == ready_to_negotiate_close(chan[n], awaiting_raa[n])

negotiating(n) == [chan[n] EXCEPT !.state = "NegotiatingClose"]

\* A party whose fee bounds cross panics.
panics(n, c) == LET b == closing_fee_bounds(n, c) IN b.min > b.max

\* The opener speaks first.  The call fails when the transaction has no output.
maybe_send_closing_signed(n) ==
  /\ running(n) /\ n = "opener" /\ ready(n)
  /\ last_closing_fee_proposal[n] = None
  /\ IF panics(n, chan[n])
     THEN /\ error' = [error EXCEPT ![n] = "panic"]
          /\ UNCHANGED <<chan, net, last_closing_fee_proposal>>
     ELSE LET fee == closing_fee_bounds(n, chan[n]).fee
          IN  /\ build_and_sign_closing(n, chan[n], fee) # {}
              /\ chan' = [chan EXCEPT ![n] = negotiating(n)]
              /\ last_closing_fee_proposal' =
                   [last_closing_fee_proposal EXCEPT ![n] = Some(fee)]
              /\ net' = [net EXCEPT ![n] = Append(@, closing_signed(n, chan[n], fee, TRUE))]
              /\ UNCHANGED error
  /\ UNCHANGED <<danceVars, closing_tx>>

verify_their_closing_sig(n, m) == m.signature = build_and_sign_closing(n, chan[n], m.fee)

\* The message is read and the negotiation is on, whatever comes of it.
rejects(n, reason) ==
  /\ error' = [error EXCEPT ![n] = reason]
  /\ chan' = [chan EXCEPT ![n] = negotiating(n)]
  /\ net' = read(n)
  /\ UNCHANGED closingVars

ignores(n) == rejects(n, "none")

\* Mutant of finalize_closing: signs what n proposed last.
finalize_own_proposal(n, fee) ==
  Some(build_and_sign_closing(n, chan[n], unwrap_or(last_closing_fee_proposal[n], fee)))

finalize_closing(n, fee) == Some(build_and_sign_closing(n, chan[n], fee))

\* n ends the negotiation at this fee, having sent `messages`.
agrees(n, fee, messages) ==
  /\ closing_tx' = [closing_tx EXCEPT ![n] = finalize_closing(n, fee)]
  /\ chan' = [chan EXCEPT ![n].state = "Closed"]
  /\ last_closing_fee_proposal' = [last_closing_fee_proposal EXCEPT ![n] = Some(fee)]
  /\ net' = [read(n) EXCEPT ![n] = @ \o messages]
  /\ UNCHANGED error

proposes(n, fee, messages) ==
  /\ last_closing_fee_proposal' = [last_closing_fee_proposal EXCEPT ![n] = Some(fee)]
  /\ chan' = [chan EXCEPT ![n] = negotiating(n)]
  /\ net' = [read(n) EXCEPT ![n] = @ \o messages]
  /\ UNCHANGED <<error, closing_tx>>

\* A fee with a range that cannot be taken: outside it, or moved by the opener.
unacceptable(n, m, o) ==
  IF n = "opener" THEN m.fee \notin o.lo..o.hi ELSE last_closing_fee_proposal[n] # None

replies(n, m, b) ==
  LET last == last_closing_fee_proposal[n]
      fee == answer(n, m, b, last)
      reply == <<closing_signed(n, chan[n], fee, m.fee_range # None)>>
  IN  IF fee = m.fee THEN agrees(n, fee, reply)
      ELSE IF build_and_sign_closing(n, chan[n], fee) = {} THEN proposes(n, fee, <<>>)
      ELSE proposes(n, fee, reply)

\* The signature must be for the transaction n builds; a fee n proposed itself
\* ends the negotiation, another one is answered.
on_closing_signed(n) ==
  /\ receives(n, "closing_signed")
  /\ LET m == message(n)
         tx == build_and_sign_closing(n, chan[n], m.fee)
         b == closing_fee_bounds(n, chan[n])
     IN  IF ~ready(n)
         THEN /\ error' = [error EXCEPT ![n] = "closing_signed refused"]
              /\ net' = read(n)
              /\ UNCHANGED <<chan, closingVars>>
         ELSE IF tx = {} THEN ignores(n)
         ELSE IF ~verify_their_closing_sig(n, m) THEN rejects(n, "bad closing signature")
         ELSE IF Some(m.fee) = last_closing_fee_proposal[n] THEN agrees(n, m.fee, <<>>)
         ELSE IF panics(n, chan[n]) THEN rejects(n, "panic")
         ELSE IF m.fee_range = None THEN replies(n, m, b)
         ELSE LET o == overlap(b, CHOOSE r \in m.fee_range : TRUE)
              IN  IF o.lo > o.hi THEN ignores(n)
                  ELSE IF unacceptable(n, m, o) THEN rejects(n, "closing fee refused")
                  ELSE replies(n, m, b)
  /\ UNCHANGED danceVars

-----------------------------------------------------------------------------
ClosingNext ==
  /\ \/ Next /\ UNCHANGED closingVars
     \/ \E n \in Party :
          \/ send_shutdown(n)
          \/ on_shutdown(n)
          \/ maybe_send_closing_signed(n)
          \/ on_closing_signed(n)
  /\ UNCHANGED legacy

closeVars == <<vars, closingVars, legacy>>

ClosingSpec == ClosingInit /\ [][ClosingNext]_closeVars

\* The node tries to start the negotiation after every call and message that
\* can make the channel quiescent (try_start_closing).
ClosingFairSpec ==
  /\ ClosingSpec
  /\ Fairness
  /\ \A n \in Party : WF_closeVars(maybe_send_closing_signed(n) /\ UNCHANGED legacy)

-----------------------------------------------------------------------------
(* Properties. *)

failed(n) == ~running(n)
closed(n) == chan[n].state = "Closed"

\* The accepter has not finished signing a fee change back: its record of the opener's
\* commitment is not at the feerate it uses itself.
fee_unsettled ==
  current_counterparty_commitment["accepter"].feerate # chan["accepter"].feerate_holder

\* At the fee n's peer proposed, an output lies between the two dust limits.
dust_between(n) ==
  \E fee \in last_closing_fee_proposal[Peer(n)] :
    LET value == closing_value(n, chan[n], fee)
    IN  \E m \in Party : (value[m] >= DustLimit[n]) # (value[m] >= DustLimit[Peer(n)])

\* The opener cannot pay the lowest closing fee.
fee_unpayable(n) ==
  n = "opener" /\ to_sat_floor(balances_for(chan[n], TRUE).to_holder) < MinFee

\* Two parties running this code fail a channel they are closing for four causes only: an
\* update_add_htlc that crosses a shutdown, a fee change the accepter has not signed back
\* when the opener starts to negotiate, an output between two different dust limits, and an
\* opener too poor for the lowest fee.  With none of them, a commitment under way is always
\* finished before closing_signed, and every fee and signature is accepted.
FailuresHaveCauses ==
  \A n \in Party :
    \/ error[n] = "none"
    \/ error[n] = "add refused" /\ chan[n].shutdown_sent
    \/ error[n] \in {"closing_signed refused", "bad signature"} /\ fee_unsettled
    \/ error[n] = "bad closing signature" /\ dust_between(n)
    \/ error[n] = "panic" /\ fee_unpayable(n)

\* The two parties finish on one transaction: what finalize_closing hands one
\* of them to broadcast is what the other signed.
OneClosingTransaction ==
  \A n \in Party : closed(n) =>
    /\ closing_tx[n] # None
    /\ closed(Peer(n)) => closing_tx[n] = closing_tx[Peer(n)]

\* A finished close leaves nothing behind: no payment is pending, none is
\* parked, and the accepter is paid, to the satoshi below, what the payments
\* reported to their payers leave it, the opener no more than the rest.
CloseSettlesPayments ==
  \A n \in Party : \A tx \in closing_tx[n] :
    LET done == {p \in Payment : outcome[p] = "fulfilled"}
        paid(m) == amounts({p \in done : Payer[p] = m})
        due(m) == to_sat_floor(Balance[m] - paid(m) + paid(Peer(m)))
    IN  /\ \A p \in Payment : outcome[p] # "pending"
        /\ \A o \in tx : o.value <= due(o.to)
        /\ due("accepter") >= DustLimit[n] =>
             [to |-> "accepter", value |-> due("accepter")] \in tx

\* With ranges on both sides, the fee the opener agrees to is within what
\* either of them would accept.
FeeInBothRanges ==
  \A n \in Party : closed(n) /\ legacy = {} =>
    \A m \in Party :
      LET b == closing_fee_bounds(m, chan[m])
      IN  last_closing_fee_proposal[n] \subseteq b.min..b.max

\* The transaction a close ends on is one, final and at a fee both accept.
ClosingTransactionIsRight == OneClosingTransaction /\ CloseSettlesPayments /\ FeeInBothRanges

\* An inbound HTLC that the node has been handed and has not resolved.
waiting == \E n \in Party : \E h \in chan[n].htlcs :
             ~h.outbound /\ h.processed /\ h.resolution = None

\* Nothing but an HTLC the node keeps open holds up a close: from a shutdown on,
\* both parties come to be closed, or one of them fails the channel.
ShutdownCompletes ==
  <>[](\/ \A n \in Party : ~chan[n].shutdown_sent
       \/ \A n \in Party : closed(n)
       \/ \E n \in Party : failed(n)
       \/ waiting)

-----------------------------------------------------------------------------
(* What BOLT 2 and a comment ask of a closing channel. *)

\* An HTLC added by the peer after shutdown was sent is failed, not refused
\* (on_update_add_htlc closes the channel once shutdown_sent).
CrossingAddsAreTaken == \A n \in Party : error[n] # "add refused"

\* The opener starts to negotiate only when both commitments are settled
\* (ready_to_negotiate_close looks at its own side).
NegotiationStartsQuiescent == \A n \in Party : error[n] # "closing_signed refused"

\* The opener never proposes a fee above its balance (the legacy path of
\* on_closing_signed averages without the bounds).
OpenerOffersWhatItHas ==
  last_closing_fee_proposal["opener"]
    \subseteq 0..to_sat_floor(balances_for(chan["opener"], TRUE).to_holder)

=============================================================================
