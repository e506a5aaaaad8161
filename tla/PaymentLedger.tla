--------------------------- MODULE PaymentLedger ---------------------------
(***************************************************************************)
(* What a channel promises the node that uses it, whatever is exchanged to *)
(* get there: an HTLC that is offered reaches the other node at most once, *)
(* that node resolves it at most once, and the offerer hears of exactly    *)
(* that resolution.  ChannelLedger shows that the commitment dance keeps   *)
(* the promise, and Forwarding builds payments over several channels on it.*)
(*                                                                         *)
(* One step may move several HTLCs: a revoke_and_ack delivers every HTLC   *)
(* it commits, and the flush of the holding cell after it refuses others.  *)
(***************************************************************************)
CONSTANT Htlc

VARIABLE stage  \* stage[h]: how far h has come

\* new: not offered; offered: parked or sent; delivered: irrevocably committed and
\* handed to the receiving node; fulfilling, failing: resolved by that node;
\* fulfilled, failed: reported to the node that offered it.
Stage == {"new", "offered", "delivered", "fulfilling", "failing", "fulfilled", "failed"}

\* An offer that the holding cell finds unaffordable fails without being delivered; a
\* node may resolve an HTLC in the step that delivers it.
Follows ==
  {<<"new", "offered">>, <<"offered", "failed">>, <<"offered", "delivered">>,
   <<"delivered", "fulfilling">>, <<"delivered", "failing">>,
   <<"offered", "fulfilling">>, <<"offered", "failing">>,
   <<"fulfilling", "fulfilled">>, <<"failing", "failed">>}

Init == stage = [h \in Htlc |-> "new"]

Next ==
  /\ stage' \in [Htlc -> Stage]
  /\ \A h \in Htlc : stage'[h] = stage[h] \/ <<stage[h], stage'[h]>> \in Follows

Spec == Init /\ [][Next]_stage

\* The channel itself, not its user, brings an offer and a resolution across.
Progress ==
  \A h \in Htlc : \A s \in {"offered", "fulfilling", "failing"} : stage[h] = s ~> stage[h] # s

LiveSpec == Spec /\ Progress
=============================================================================
