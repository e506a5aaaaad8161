---------------------------- MODULE MCAlgorithms ----------------------------
(***************************************************************************)
(* The algorithms that hold no state between calls of the node, side by    *)
(* side: a behaviour is a run of one of them.                              *)
(***************************************************************************)
EXTENDS RouterInputs, CommitmentInputs, TLC

CONSTANTS
  Payer, Payee, Problems, Million, BasePenalty, CltvPenalty,   \* Router
  Bits, Seeds, Honest,                                         \* Shachain
  Inputs,                                                      \* CommitmentTx
  Node, MaxHops, PayloadLens, PAYLOADS_LEN, WideLen            \* Onion

VARIABLES
  algorithm,   \* the one that runs; the variables of the others are idle
  problem, best, heap, result,
  known, accepted, rejected,
  input, holder, signer,
  path, lens, packet, at, damaged, read, failure, verdict

Router == INSTANCE RouterReference
Shachain == INSTANCE Shachain
CommitmentTx == INSTANCE CommitmentTx
Onion == INSTANCE Onion

Symmetry == Permutations(Node)

router_vars == <<problem, best, heap, result>>
shachain_vars == <<known, accepted, rejected>>
commitment_vars == <<input, holder, signer>>
onion_vars == <<path, lens, packet, at, damaged, read, failure, verdict>>
vars == <<algorithm, router_vars, shachain_vars, commitment_vars, onion_vars>>

no_router == problem = {} /\ best = {} /\ heap = {} /\ result = {}
no_shachain == known = {} /\ accepted = {} /\ rejected = {}
no_commitment == input = {} /\ holder = {} /\ signer = {}
no_onion ==
  /\ path = {} /\ lens = {} /\ packet = {} /\ at = {}
  /\ damaged = {} /\ read = {} /\ failure = {} /\ verdict = {}

Init ==
  \/ algorithm = "router" /\ Router!Init /\ no_shachain /\ no_commitment /\ no_onion
  \/ algorithm = "shachain" /\ Shachain!Init /\ no_router /\ no_commitment /\ no_onion
  \/ algorithm = "commitment" /\ CommitmentTx!Init /\ no_router /\ no_shachain /\ no_onion
  \/ algorithm = "onion" /\ Onion!Init /\ no_router /\ no_shachain /\ no_commitment

Next ==
  /\ UNCHANGED algorithm
  /\ \/ /\ algorithm = "router" /\ Router!Next
        /\ UNCHANGED <<shachain_vars, commitment_vars, onion_vars>>
     \/ /\ algorithm = "shachain" /\ Shachain!Next
        /\ UNCHANGED <<router_vars, commitment_vars, onion_vars>>
     \/ /\ algorithm = "commitment" /\ CommitmentTx!Next
        /\ UNCHANGED <<router_vars, shachain_vars, onion_vars>>
     \/ /\ algorithm = "onion" /\ Onion!Next
        /\ UNCHANGED <<router_vars, shachain_vars, commitment_vars>>

Spec == Init /\ [][Next]_vars

-----------------------------------------------------------------------------
(* The properties of each, while it runs. *)

\* find_route: the route is a loop-free path over channels that exist, and every node on it
\* accepts what pay_invoice gives it.
RouteIsPayable ==
  algorithm = "router" => Router!RouteIsAPath /\ Router!EveryHopAccepts

\* find_route: no usable path costs less, and it gives up only when there is none, where
\* costs do not depend on the amount.
RouteIsBest ==
  algorithm = "router" => Router!CheapestRoute /\ Router!FindsARoute

\* CounterpartyCommitmentSecrets: the store gives back each secret it accepted and no
\* other, and never refuses a peer that keeps to its seed.
SecretsAreKept ==
  algorithm = "shachain" => Shachain!AcceptedIsRecovered /\ Shachain!HonestIsAccepted

\* build_commitment_tx and build_htlc_tx: both parties build the same transaction at the
\* fee of the feerate, sign and verify its HTLCs in the same order, find each at its index,
\* and what has an output leaves more than dust after its second stage.
CommitmentsFit ==
  algorithm = "commitment" =>
    /\ CommitmentTx!SignaturesVerify /\ CommitmentTx!IndicesLeadToTheirOutputs
    /\ CommitmentTx!FeeIsTheFeerate /\ CommitmentTx!SecondStageIsNotDust

\* construct and peel, build and unwrap: every hop finds its own payload, or a packet that
\* was changed, what is left tells it nothing, and from a failure packet the sender finds
\* the hop that failed.
OnionIsRead ==
  algorithm = "onion" =>
    Onion!EveryHopReadsItsPayload /\ Onion!RestIsOpaque /\ Onion!FailureIsAttributed
=============================================================================
