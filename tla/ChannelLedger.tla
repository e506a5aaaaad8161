--------------------------- MODULE ChannelLedger ---------------------------
(***************************************************************************)
(* The commitment dance implements PaymentLedger: the stage of a payment   *)
(* is read off the two channels and what the payer's node was told.        *)
(***************************************************************************)
EXTENDS ChannelDance

\* The HTLC of p as the receiving party has it, once its node was handed it.
delivered(p) ==
  {h \in chan[Peer(Payer[p])].htlcs : ~h.outbound /\ h.payment = p /\ h.processed}

\* The resolutions of h by its receiver n, decided or waiting in the holding cell.
resolved(n, h) ==
  h.resolution \cup
    {r \in HtlcResolution :
       \E i \in DOMAIN chan[n].holding_cell : chan[n].holding_cell[i] = Resolve(h.id, r)}

stage_of(p) ==
  LET r == UNION {resolved(Peer(Payer[p]), h) : h \in delivered(p)}
  IN  CASE outcome[p] \in {"new", "fulfilled", "failed"} -> outcome[p]
        [] outcome[p] = "pending" /\ delivered(p) = {} -> "offered"
        [] outcome[p] = "pending" /\ delivered(p) # {} /\ r = {} -> "delivered"
        [] outcome[p] = "pending" /\ "Fulfill" \in r -> "fulfilling"
        [] OTHER -> "failing"

Ledger == INSTANCE PaymentLedger WITH
  Htlc <- Payment, stage <- [p \in Payment |-> stage_of(p)]

\* Every step of the two channels is a step of the ledger or leaves it alone: a
\* payment is delivered at most once, resolved at most once, and its payer hears
\* what the payee decided and nothing else.
ImplementsLedger == Ledger!Spec

\* The channels also bring offers and resolutions across by themselves.
ImplementsLiveLedger == Ledger!LiveSpec
=============================================================================
