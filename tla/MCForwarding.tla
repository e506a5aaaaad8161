---------------------------- MODULE MCForwarding ----------------------------
(* Instances of Forwarding: a payer a, a forwarder b, a payee c, and a payer d. *)
EXTENDS Forwarding, TLC

CONSTANTS a, b, c, d, p1, p2, p3

hop(amt, cltv) == [amount |-> amt, cltv_expiry |-> cltv]

\* Margins of the expiries: 2 blocks at the end, 2 more for a forwarder.
onion_of(hops, scid_known, malformed_at, secret_matches) ==
  [hops |-> hops, scid_known |-> scid_known, malformed_at |-> malformed_at,
   payload |-> [secret_matches |-> secret_matches,
                amt_to_forward |-> hops[Len(hops)].amount,
                outgoing_cltv_value |-> hops[Len(hops)].cltv_expiry]]

Good == onion_of(<<hop(3, 4), hop(2, 2)>>, TRUE, 0, TRUE)

LowFee == onion_of(<<hop(2, 4), hop(2, 2)>>, TRUE, 0, TRUE)

\* Outdated fee, outdated delta, unknown channel, bytes that b or c cannot decrypt,
\* a wrong secret, too little and too much for the invoice.
Refused ==
  {LowFee,
   onion_of(<<hop(3, 3), hop(2, 2)>>, TRUE, 0, TRUE),
   onion_of(<<hop(3, 4), hop(2, 2)>>, FALSE, 0, TRUE),
   onion_of(<<hop(3, 4), hop(2, 2)>>, TRUE, 1, TRUE),
   onion_of(<<hop(3, 4), hop(2, 2)>>, TRUE, 2, TRUE),
   onion_of(<<hop(3, 4), hop(2, 2)>>, TRUE, 0, FALSE),
   onion_of(<<hop(2, 4), hop(1, 2)>>, TRUE, 0, TRUE),
   onion_of(<<hop(6, 4), hop(5, 2)>>, TRUE, 0, TRUE)}

\* A payment over b, one back, and one over b and c.  b can pay c for one of them at a
\* time, and a only with what a paid it before.
MCPath == p1 :> <<a, b, c>> @@ p2 :> <<c, b, a>> @@ p3 :> <<a, b, c, d>>
MCBalance ==
  <<a, b>> :> 7 @@ <<b, a>> :> 1 @@ <<b, c>> :> 3 @@ <<c, b>> :> 3 @@ <<c, d>> :> 2 @@ <<d, c>> :> 0
MCOnions ==
  p1 :> {Good} \cup Refused @@ p2 :> {Good, LowFee} @@
  p3 :> {onion_of(<<hop(4, 6), hop(3, 4), hop(2, 2)>>, TRUE, 0, TRUE)}
MCHash == p1 :> p1 @@ p2 :> p2 @@ p3 :> p3
MCInvoices == p1 :> {2} @@ p2 :> {} @@ p3 :> {}
=============================================================================
