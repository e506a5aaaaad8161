# Verification of keraunos

TLA+ models of the Lightning node in `src/`, the TLC runs that check them on small
instances, and TLAPS proofs of what holds for every value of the constants.
`PROJECT.json` lists components, runs, mutants, hazards and theorems, and maps every
definition to the lines it models.

    tlc -config dance.cfg MCChannelLedger           # section 3 has the other runs
    tlapm DanceTheorems.tla                         # section 6 has the other proof modules

## 1. The system

keraunos is a sans-I/O Lightning node: an embedder feeds bytes, blocks and calls into
`Node` and drains outputs. There are no threads; concurrency is between the two nodes
at the ends of a connection, which act at any moment on what they last heard, and
between the embedder's calls and the messages.

| component | module | state | what makes it correct |
|---|---|---|---|
| commitment dance, `channel/dance.rs`, and bookkeeping, `channel/mod.rs` | `ChannelDance` | HTLCs with a phase on each party's commitment, feerate per side, holding cell, awaiting_raa, what was signed, balances, numbers and points | both ends build the same commitment whatever crosses; funds are conserved; nothing is lost, doubled or stuck; an HTLC is handed on only once irrevocable |
| what a channel promises the node | `PaymentLedger`, `ChannelLedger` | a stage for each HTLC | the dance implements it, forwarding relies on it |
| channel opening, `channel/mod.rs`, `node/mod.rs` | `ChannelOpen` | state OpenSent .. Normal, parameters, the held funding transaction | both reach Normal with the same parameters and commitment 0; the funding is refundable before it is broadcast |
| cooperative close, `channel/close.rs` | `ChannelClose` | shutdown flags, last fee proposal | ends on one transaction both signed that pays what the payments left |
| reconnection, `channel/reestablish.rs` | `ChannelReestablish` | the dance, rolled back | after any loss the two ends agree again |
| payments and forwarding, `node/mod.rs` | `Forwarding` | HTLCs of routes, payments, claimable | a forwarder is never left with one side of a payment; each payment ends once |
| chain monitor, `chain/monitor.rs`, `chain/persist.rs` | `ChannelMonitor` | the stored snapshot, the confirmed spend | revoked commitments are punished, no others; what is ours is claimed |
| transport, `noise/mod.rs`, `node/peer.rs` | `Noise` | handshake acts, nonces, rotating keys, read buffers | authenticated, in order, no nonce twice |
| peers, `node/mod.rs`, `node/peer.rs` | `Peers` | table of connections, index by node id, init | the index names live connections; a connection becomes ready |
| gossip, `graph/mod.rs`, `node/mod.rs` | `Gossip` | graphs, announcement signatures, messages | graphs agree and only grow |
| router, `router/mod.rs` | `Router`, `RouterReference` | labels and heap of one search | a route is payable; the cheapest is found |
| revocation secrets, `shachain.rs` | `Shachain` | 49 slots | every accepted secret can be derived again |
| commitment transactions, `commitment/mod.rs` | `CommitmentTx` | what each party built | both trim, order and sign alike |
| onion, `onion/mod.rs` | `Onion` | the packet on its way | each hop reads its payload; failures are attributed |

How they interact: `Node::handle_message` hands a channel message to the channel
through `with_channel`; a `ChannelError::Close` sends an error and broadcasts our
commitment. After each update it makes, and after each commitment_signed it answers,
the node calls `flush_commitment`, which signs when there is something to sign. What a
revoke_and_ack makes irrevocable goes to `process_committed_htlc`, which claims, fails
or forwards it over another channel. A dropped connection rolls every channel with
that peer back; after init each side sends channel_reestablish.

How the modules compose: `ChannelOps` has the operators on one party's channel and
`ChannelDance` the two parties and their messages. `ChannelClose`, `ChannelReestablish`, `ChannelMonitor` and
`ChannelLedger` EXTEND `ChannelDance`, so that a close, a lost connection or a spend
strikes at any point of the dance. `ChannelOpen` INSTANCEs it, to show that an open ends
in its Init. `ChannelLedger` shows that the dance implements `PaymentLedger`, and
`Forwarding` checks that what it assumes of its channels is that ledger, so the two levels
meet at one specification.

The hard behaviours are crossings: two commitment_signed at once, updates sent while
one is in flight, fee changes among them, a shutdown crossing an add, a connection lost
between any two of those, and one channel's resolution acting on another's. The
`hazards` of `PROJECT.json` list them at the lines where they bite.

## 2. The models

Names are the code's. In all modules `Option<T>` is a set with at most one element, a
signature is what it signs, `ChannelError::Close` records the reason in `error[n]` and
stops that party, and `ChannelError::Ignore` of a call means that the action is not
enabled. Keys, hashes and ciphertexts are terms that are equal only when they were made
from the same things.

### ChannelOps and ChannelDance

Both ends of one channel. `ChannelOps` is what a call or a handler does to the record of
one party; the steps are in `ChannelDance`. `chan[n]` is the part of party n's `Channel` that updates
touch; the commitment numbers, points, the current commitments, the snapshot and
`awaiting_raa` are variables of their own, because the theorems are about them. `net[n]`
is the stream of what n sent and its peer has not read. `outcome[p]` is what the payer's
node was told about payment p.

| code | model |
|---|---|
| `send_add_htlc`, `send_fulfill_htlc`/`send_fail_htlc`/`send_fail_malformed_htlc`, `send_update_fee`, `send_commitment_signed` | actions of the same names (`send_resolve_htlc` for the three removals) |
| `on_update_add_htlc`, `on_update_fulfill_htlc` and the two fails, `on_update_fee`, `on_commitment_signed`, `on_revoke_and_ack` | actions of the same names (`on_update_remove_htlc` for the three removals), each the whole handler: phase changes, acknowledgement, `gc_htlcs`, `collect_forwardable`, the flush of the holding cell and the signature after it |

* A payment stands for the amount, hash, expiry and onion of an HTLC, and every payment
  is offered at most once. Preimages and BADONION bits are right, and expiries in
  range: these are the parties' own data.
* A per-commitment point, and the secret behind it, is the number of its commitment. The
  check of a revealed secret against the point, and its insertion under the index of
  the commitment number, are the two equalities in `on_revoke_and_ack`; `Shachain` has
  the store itself.
* Verifying a signature compares it with the commitment the verifier builds: number,
  point, feerate, HTLCs and balances. Every HTLC is above dust, so a commitment lists all
  of them; trimming and the order of HTLC signatures are in `CommitmentTx`.
* Amounts are in one unit (the code compares msat with sat * 1000).
* `apply_balance` saturates HTLC by HTLC in list order; `balances_for` of the model
  subtracts in one go. They agree as long as no prefix goes negative; an offerer's HTLC
  is inserted only when it can be afforded on top of those before it, and
  `CommitmentsConserveFunds` checks that nothing saturates.
* The holding cell is flushed op by op in the code. In the model the ops that succeed are
  the one set S for which each op is in S exactly when it is permitted after those of S
  before it, which needs no recursion.
* Init is the channel as it is when both parties have become Normal (`OpensIntoDance`).
  The node signs right after each call; the model lets other steps come between, as the
  API of `Channel` does.

### PaymentLedger and ChannelLedger

`PaymentLedger` has one variable, the stage of each HTLC: new, offered, delivered to the
receiving node, resolved by it, reported to the offerer. `ChannelLedger` reads the stage
off the two channels, the receiver's holding cell and `outcome`, and states that the
dance implements `Spec` and, with the channels' own fairness, `LiveSpec`.

### ChannelClose

EXTENDS `ChannelDance` by `send_shutdown`, `on_shutdown`, `maybe_send_closing_signed` and
`on_closing_signed`, with `last_closing_fee_proposal` and `closing_tx`.

* A closing transaction is the set of its outputs. Balances are rounded down to satoshis
  (`to_sat_floor`), the opener bears the fee and each party leaves out what is below its
  own dust limit (`DustLimit` stands for that limit or 546, whichever is larger).
* The fee at the party's `close_feerate` and at the floor of 253 are constants, being one
  multiplication by the weight of a closing transaction.
* This code always sends a fee_range; a party in `legacy` is one whose messages lack it,
  which is what takes the code into its legacy path. `clamp` panics on crossed bounds, an
  outcome of its own (`panics`).
* `maybe_send_closing_signed` is an action, like `send_commitment_signed`; the node calls
  it (`try_start_closing`) after close_channel, shutdown, commitment_signed and
  revoke_and_ack, which is the fairness assumed of it.

### ChannelReestablish

EXTENDS `ChannelDance` by `peer_disconnected` (both streams emptied, `on_disconnect` at
both parties), `on_init`, `on_channel_reestablish` with all its checks and
retransmissions, and the channel_ready that is sent again. Both parties notice a loss in
one step: what one of them still reads or sends between the other's notice and its own
could as well have come before. `CallsIn` says in which states of the link the
application makes calls.

### ChannelOpen

`open_channel` to `channel_ready` at both nodes, with every check of `new_inbound` and
`on_accept_channel`, the held funding transaction, lost connections (a channel without a
commitment is not taken up again), channel_reestablish before the first update, and `close_channel`
before the channel is ready. `OpensIntoDance` maps its final states to the Init of
`ChannelDance`.

### Forwarding

A route is a line of HTLCs `<<p, i>>`; each channel end has a balance and is idle or awaits
a revocation, which decides whether an offer is sent or parked. Actions: `pay_invoice`, the
commitment of a batch of HTLCs (the loop over `forwardable`, peeling, the checks of a
forward and of the payee), `claim_payment`, the peer's answers, flushes,
blocks and lost connections. A handler is an operator on a "world", since handlers call
each other (`process_committed_htlc` forwards, which may fail back). An onion is what its
payer decided, outdated policies and undecryptable bytes included. Amounts and expiries are
unbounded integers in the model and u64 and u32 in the code: the sums and the product in the
check of a forward (`node/mod.rs:1533`) are modelled for onions whose values are of the size
of a channel's, for which they cannot overflow; what a value near the limit of its type does
there is not modelled.

### ChannelMonitor

EXTENDS `ChannelDance` by storing a snapshot (`from_channel`, preimages added, serialized) at
any moment, by `force_close`, and by the confirmation of a commitment that a party holds
or, with `Backups`, ever held. Each reaction goes through `deserialize(disk[n])`, so every
spend is met after a restart. A claim is the set of outputs it spends, without fees.

### Noise and Peers

`Noise` is one connection: acts and frames are pieces of a stream, a read takes any
number of them, and a piece may be damaged. `KEY_ROTATION_INTERVAL` is 2 in place of 1000,
so that both directions rotate; as in the code, a message uses two nonces and the interval
is even. `Peers` is the level above: two nodes, connections
that overlap or follow each other, each end noticed on its own, init, ping, and reads that
hold several messages.

### Gossip

`maybe_announce_channel`, the handlers of the four gossip messages and the relay to all
ready peers, the sender among them (`broadcast_to_ready_peers`), as operators on the tables of one node. Timestamps are the data of a
policy. Links are lost and made again; nothing is sent again then, as in the code.

### Router, Shachain, CommitmentTx, Onion

Pure algorithms, checked by one run, `MCAlgorithms`, in which a behaviour is a run of one
of them.

* `Router`: Init chooses a problem, a step is an iteration of the loop of `find_route`.
  `RouterReference` enumerates all loop-free paths.
* `Shachain`: 4 bits in place of 48, secrets as terms, a peer that keeps to one seed or
  does not, stored and read back.
* `CommitmentTx`: both parties build one commitment from lists in different orders, with
  the code's weights, amounts at the limit of trimming and ties in value and script.
* `Onion`: cell by cell; a cell is the set of the atoms XORed in it. Forward hops of the
  shortest and of a longer payload, so that the filler's offsets differ.

## 3. Runs

Deadlock is not checked: a system in which nobody wants anything is at rest.

| run | module | states | instance |
|---|---|---|---|
| `dance` | `MCChannelLedger` | 120,274 | three payments, two of the opener, one of the accepter, fulfilled or failed; the opener cannot afford both of its own while it also carries the fee for the accepter's, so a parked add is refused at the flush |
| `dance_fees` | `MCChannelLedger` | 27,040 | a payment each way, fulfilled or malformed, two fee changes; the accepter can pay only with what it has just received |
| `close` | `MCChannelClose` | 196,374 | a payment each way, one fee change, shutdown from either side at any time, fee ranges from both, one or neither; different dust limits with outputs between them, and an opener that cannot pay the lowest fee after its payment alone |
| `reest` | `MCChannelReestablish` | 127,108 | a payment each way, one fee change, two lost connections |
| `open` | `MCChannelOpen` | 340,765 | nine configurations on each side, five amounts, two lost connections, early shutdowns |
| `forward` | `MCForwarding` | 114,118 | a payment over one forwarder, one back, one over two forwarders; nine onions, eight of them refused on the way; a block, a lost connection |
| `monitor` | `MCChannelMonitor` | 720,733 | a payment each way, the accepter watches, the opener may force-close, any commitment either party ever held may be published |
| `monitor_latest` | `MCChannelMonitor` | | the same: violated, see below |
| `noise` | `MCNoise` | 68,313 | four and two messages, keys rotated every two uses, one damaged piece, the right node and another |
| `peers` | `MCPeers` | 498,238 | two connections, dialed by either node, features compatible or not |
| `gossip` | `MCGossip` | 300,482 | one channel, three nodes in a line and in a ring, one refreshed policy, one lost link |
| `algorithms` | `MCAlgorithms` | 291,393 | 16,700 routing problems, revocations over 4-bit indices, 52,000 commitments, routes of up to four hops |

Why the bounds are enough. A party has at most one signature outstanding, so an
interleaving of the dance involves at most the update acknowledged last, the one signed now
and the one parked; three payments put one in each place, in both directions, and let
the third reuse what the first returned. Two fee changes allow one signed and one not.
Reserves and minimum are 1, a commitment weighs 1 plus 1 per HTLC and feerates are 1 to
3, so that fees, reserves and balances are of one magnitude and each limit is reached.
Two lost connections let the second strike between retransmissions. Configurations move
one value at a time over a limit of the code, on both sides independently. Three routes
make a node payer, forwarder and payee at once. Two connections overlap or follow each
other. A refreshed policy overtakes the first on another path. There is no symmetry to
declare except among the nodes of `Onion`: payments, nodes and connections differ in role,
amount or order.

### What is checked

Dance (`dance`):

* `NoFailure`: two parties that run this code never fail their channel.
* `RevocationInv`: the revocation machinery (section 6).
* `PublishableIsOnRecord`: the commitment a party can broadcast is, at its peer, the
  current or the pending one: never one its record has moved past.
* `FundsAreConserved`: balances and HTLCs of every commitment add up to the funding
  (`CommitmentsConserveFunds`), and base balances are what the settled payments moved
  (`BalancesMatchOutcomes`).
* `ForwardableIsIrrevocable`: an HTLC handed to the node stays on every commitment that
  can still be broadcast until the node resolves it.
* `CleanMeansSigned`: `counterparty_dirty` is false only when the last signature covers
  exactly what would be built now; `Converges`: the two ends come to hold the same.
* `ImplementsLedger`: the refinement.

With fee changes (`dance_fees`): `FeeChangesAreSafe` (no signature is refused over a fee,
each change is signed for and signed back, outputs before fees still add up) and
`ImplementsLiveLedger`, the refinement with its liveness. Balances of a commitment are before
fees; that the opener can pay a new feerate is not among what holds (section 4,
`OpenerAffordsFee`).

Close: `FailuresHaveCauses` (a closing channel fails only over an add that crosses a
shutdown, a fee change that the accepter has not signed back, an output between two
different dust limits, or an opener that cannot pay the lowest fee; all four occur in the
run), `ClosingTransactionIsRight` (one transaction, which pays what the payments as reported
leave, at a fee within both ranges), `ShutdownCompletes`.

Reconnection: `ReestablishAccepted`; `RollbackIsSafe` (funds and irrevocability over
any losses, and the record as long as no fee was changed); `ImplementsLedger`; `LonePaymentSettles`: a payment that has the channel
to itself survives them and ends. With more than one update around, the channel may fail
(section 4); the other properties hold nevertheless.

Opening: `FundingIsRefundable` (the funding leaves the node only when its first commitment
is signed); `OpensSoundly` (an open that is not declined does not fail, the reserves are
above the dust limits, and it opens into the Init of the dance); `ConfirmedChannelsOpen`,
unless a party closes the channel before it is open.

Forwarding: `PaymentIsAtomic` (what the payer is told is what the payee did, a forwarder
is never left with one side of a payment, the channels stay solvent),
`ForwardingEarnsFee` (no step makes a forwarder poorer), `EveryPaymentEnds`,
`HopsKeepLedger`.

Monitor: `RevokedIsPunished`, `NeverPunishesUnrevoked`, `WhatIsOursIsClaimed`. Noise:
`StreamIsAuthentic` (only the node that was dialed completes the handshake, and messages
arrive in order and once), `NoncesAreFresh`, `NothingIsStuck`. Peers: `SendingIsSound` (the
index names no dead connection, a connected peer is in it, init comes first),
`ConnectionBecomesReady`. Gossip: `GraphsAgree` (as long as no link was lost: nothing is sent
again over a new one), `AnnouncedByBoth`, `ChannelsAreAnnounced`.

Algorithms: `RouteIsPayable` and `RouteIsBest` for `find_route`, `SecretsAreKept` for the
store of secrets, `CommitmentsFit` for commitments built by both parties, `OnionIsRead` for
onions and failure packets. Each joins properties of its module.

### Fairness

* Reading: the transport delivers and the embedder feeds the bytes. It is spelled out as
  "again and again the stream is empty, or its reader has stopped, or a message is read".
  Where a bound makes every stream end, "again and again the stream is empty" says the
  same.
* Signing and negotiating: the node calls `flush_commitment` and `try_start_closing` after
  every call and handler, and `on_revoke_and_ack` signs itself.
* Connections are lost finitely often, the bound of each run, and made again; the end of
  one is noticed by both embedders.
* In `open` the funding is confirmed only if the opener's embedder broadcasts it, and each
  node learns of it.
* Nothing is assumed of the callers: payments, claims and resolutions may never come.

## 4. Departures

Where the code does something else than its documents, comments or tests say. Each is a
property of the named module that TLC refutes with the `.cfg` of the run, after the change
given; the checked properties above are stated so that they do not depend on it. Spec
lines are of `src/specs/`.

`monitor_latest` is kept as a run: `from_channel` (`chain/monitor.rs:94`) leaves out the
commitment of the peer that is signed and not yet acknowledged, so `LatestIsRecognised`
fails although `chain/monitor.rs:9` promises to handle "Their latest commitment".

| property | run, change | code | what it departs from |
|---|---|---|---|
| `AcceptedLimitHolds` | `dance`, `MaxAccepted <- MCOneAccepted` | `channel/dance.rs:121` counts unresolved HTLCs; a resolved one keeps its output | 02:2825 "more than the remote's `max_accepted_htlcs` HTLCs, in the remote commitment transaction" |
| `OpenerAffordsFee` | `dance`, `Payer <- MCAccepterPays`, `Balance <- MCLowBalance` | `channel/dance.rs:139`: only an opener checks the fee | 02:2817 asks it of the accepter too |
| `OpenerAffordsFee` | `dance_fees`, `BaseWeight = 4` | `channel/dance.rs:245`, `:409`: neither end asks whether the opener can pay a new feerate | 02:3293 "if the sender cannot afford the new fee rate on the receiving node's current commitment transaction" |
| `CrossingAddsAreTaken` | `close` | `channel/dance.rs:273` fails the channel over an add that crosses our shutdown | 02:2161 "SHOULD fail to route any HTLC added after it has sent `shutdown`" |
| `NegotiationStartsQuiescent` | `close` | `channel/close.rs:199`: the opener looks at its own side, the accepter still has to sign a fee back; the node itself never calls `send_update_fee` | 02:2413 "all updates are included on both commitments" |
| `OpenerOffersWhatItHas` | `close` | `channel/close.rs:291`: the legacy path averages without the bounds | `channel/close.rs:88` "Never offer more than the funder output can pay." |
| `ReconnectsSurvive` | `reest` | `channel/reestablish.rs:154`: revoke_and_ack first, whichever was sent first | 02:3496 "in the same relative order as initially transmitted" |
| `LockedAddsGoOn` | `reest` | `channel/reestablish.rs:54` resets an add that our commitment carries | 02:3421: only updates "for which no `commitment_signed` has been received" |
| `ResignsTheSame` | `reest` | `channel/reestablish.rs:260` signs the channel as it is after the rollback | `channel/reestablish.rs:254` "reproduces the lost message bit-for-bit" |
| `LonePaymentSurvives` | `reest`, `CallsIn = {"synced", "up"}` | `node/mod.rs:704`: a usable channel takes calls as soon as the peer is connected | 02:3433 "MUST wait to receive the other node's `channel_reestablish`" |
| `LonePaymentSurvives` | `reest`, `CallsIn = {"synced", "down"}` | `node/mod.rs:717`: the channel has changed when the send fails | `node/mod.rs:358` "Channels roll back un-signed updates and wait for reconnection." |
| `EarlyShutdownTolerated` | `open` | `channel/mod.rs:782` refuses channel_ready after a shutdown | 02:2152 "MAY send a `shutdown` before a `channel_ready`" |
| `ShutdownComesAgain` | `open` | `channel/reestablish.rs:296`: nothing sends shutdown again | 02:3554 "MUST retransmit `shutdown`" |
| `OpenerPaysFirstFee` | `open`, `CommitmentWeight = 1` | `channel/mod.rs:492` compares push_msat with the capacity only | 02:871: the funder's amount must be sufficient for the fee |
| `InFlightIsShareOfCapacity` | `open` | `channel/mod.rs:395` divides before it multiplies | `channel/mod.rs:90` "1_000_000, // 100%" |
| `FailsAfterRemoval` | `forward` | `node/mod.rs:1366` fails back when it hears of the failure | 02:2593 "until the removal of an outgoing HTLC is irrevocably committed" |
| `EveryCommittedIsProcessed` | `forward` | `node/mod.rs:863`: the loop over a batch returns at the first error | `node/mod.rs:1386` "peel its onion and either" claim or forward |
| `ExpiredIsFailed` | `forward`, `MaxHeight = 3` | `node/mod.rs:436` only records the height | 02:2596 "MUST fail that incoming HTLC" |
| `AnnouncedIsClaimable` | `forward`, two payments of one hash to one payee | `node/mod.rs:1507`: insert overwrites | `node/mod.rs:729` "Claim a payment we announced as claimable." |
| `JusticeTakesEveryHtlc` | `monitor` | `chain/monitor.rs:238` rebuilds scripts from the current HTLCs | `chain/monitor.rs:6` "`to_local` and every HTLC output" |
| `OfferedHtlcsTimeOut` | `monitor` | `chain/monitor.rs:358` skips the HTLCs we offered | 05:421 "MUST *resolve* the output, by spending it" |
| `BroadcastIsNotRevoked` | `monitor` | `node/mod.rs:565` leaves a force-closed channel in operation | 05:523: no broadcast of a commitment whose secret is exposed |
| `NeverPoisoned` | `noise` | `node/peer.rs:100` returns with the placeholder in place | `node/peer.rs:20` "Transitional placeholder during state changes." |
| `OverlapIsReachable` | `peers` | `node/mod.rs:363` removes the entry of the node id, whichever connection it names | `node/mod.rs:112` "Handshake + init complete; the peer speaks our language." |
| `WaitsForInit` | `peers` | `node/mod.rs:395` sends once the handshake is over | 01:317 "MUST wait to receive `init` before sending any other messages." |
| `EveryMessageIsHandled` | `peers`, `Ignores = TRUE`, `MaxUpdates = 2` | `node/mod.rs:346` drops the rest of a read | `channel/mod.rs:44` "Request can't be satisfied right now — no state change." |
| `RelayedIsPublished` | `gossip` | `node/mod.rs:1224` returns before the policy when a relayed announcement came first | `node/mod.rs:1229` "And our directional policy." |
| `SignaturesAreRepeated` | `gossip` | `node/mod.rs:1189`: the flag outlives the connection | 07:93: send them upon reconnection |
| `HtlcsWithinLimits` | `RouterReference` on `RouterInputs` | `router/mod.rs:261` compares the limits with what enters the node | 07:522 on htlc_minimum_msat |
| `AlwaysCheapest` | `RouterReference` on `RouterInputs` | `router/mod.rs:282`: one label per node, fees in proportion | `router/mod.rs:130` "Find the cheapest route." |
| `AlwaysFinds` | `RouterReference` on `RouterInputs` | `router/mod.rs:209`, `:200`: the limit of hops, one channel per peer | `router/mod.rs:109` "no route to destination" |

Edges without a document to compare with: `clamp` in `closing_fee_bounds` panics when the
opener's balance is below the minimum fee (`channel/close.rs:95`); parties with different
dust limits build different closing transactions; a malformed failure is not queued again
by the rollback (`channel/reestablish.rs:71`); `claim_payment` removes its entry before
calls that may fail (`node/mod.rs:731`). All four are in the models. `close` meets the first two; in
`reest` calls are made on a channel that is in step.

## 5. Mutants

Each property of a passing run comes with a variant of one definition, a plausible bug,
under which TLC finds the property violated. They stand before the definition they vary:
a forgotten acknowledgement (`unsigned_but_*`), live phases instead of the snapshot
(`locked_by_live_phase`), a second signature while one is unanswered
(`can_send_unacknowledged`), a forwarder that keeps a preimage (`fulfilled_untold`), an
index that keeps a dead connection (`peer_disconnected_indexed`), and so on.

## 6. Proofs

| proof module | what it proves | rests on |
|---|---|---|
| `ChannelDanceProofs` | types of the operators and of every step; the revocation step | `ChannelOps`, `DanceInvariants` |
| `RevocationProofs` | `RevocationInv` and `RecordInv` are inductive | `DanceInvariants` |
| `HtlcStages` | what each operator does to the stage of a payment in one channel | `ChannelInvariants` |
| `HtlcProofs` | `HtlcInv` is inductive | `HtlcStages`, `DanceInvariants` |
| `DanceTheorems` | the theorems about the dance and its monitors | the four above, `ChannelMonitor` |
| `OpenStages`, `OpenProofs` | the theorems about opening | `ChannelOpen` |
| `GossipProofs` | the theorems about gossip | `Gossip` |

`ChannelInvariants` and `DanceInvariants` hold the definitions of the inductive
invariants, for one channel and for the two parties. `RevocationProofs` and `HtlcProofs`
take two facts as hypotheses, `OperatorTypes` (the operators return channels and messages)
and `acknowledges` (what an accepted revocation does); `ChannelDanceProofs` proves them and
`DanceTheorems` discharges them, so that each module keeps a small context.

### The dance

Proved for every set of payments, amounts, balances, limits, weights and feerates; the one
assumption is `ConstantsAssumption`, the types of the constants.

* `TypeCorrect`: `Spec => []TypeOK`. TypeOK is not inductive alone: on_revoke_and_ack
  takes the pending record and makes it current, which is well typed only when there is
  one. The inductive invariant is `TypeOK /\ PendingKnown`.
* `PendingIsKnown`: `Spec => []PendingKnown`. The `expect` in on_revoke_and_ack
  (`dance.rs:618`) never panics. The delicate step is on_revoke_and_ack itself, which
  takes the old record and, when the flush leaves something to sign, makes a new one.
* `RevocationInvariant`: `Spec => []RevocationInv`. For each party n, the exchange its
  last commitment_signed started is in one of four stages: done; signature in n's
  stream; revocation in the peer's stream; or the peer has failed. In each stage the
  number of commitment_signed and revoke_and_ack messages in the two streams is
  determined, and so is the difference of the two counters; a revocation carries the
  secret and the point that n is waiting for. The two exchanges, n's and its peer's,
  share both streams, so each step is shown to move one of them on and to leave the
  other alone. Steps that only send or read updates leave both alone (`UpdateStep`); the
  three others are `SignStep`, `RevokeStep` and `AcknowledgeStep`, the last covering the
  flush, whose updates come before the new signature.
* `CommitmentsInLockstep`: `Spec => []Lockstep`, and `RevocationsAreAccepted`:
  `Spec => []RevocationsAccepted` follow: the counters and points never drift, and no
  revoke_and_ack is refused, whatever happens to the HTLCs.
* `CommitmentsAreOnRecord`: `Spec => []PublishableIsOnRecord`. The property speaks of the
  commitment a party holds and of its peer's record, and between them is a message:
  `RecordInv` adds that a signature under way is for the pending commitment on record, that
  the record's numbers are the next ones, and that the holder has the current one of the
  record until it has locked the pending one. It is inductive together with `RevocationInv`,
  whose stages say which of the two it is.
* `ForwardedIsIrrevocable`: `Spec => []ForwardableIsIrrevocable`. `HtlcInv` has two parts.
  For one party (`htlcs_hold`): an HTLC is in one of five stages, which tie its phases on
  both commitments, its resolution and `processed` together; what is Committed on a side is
  on every commitment of that side that is in force; and the record of a signature lists
  HTLCs in the phases they were signed in. For the two (`offered_once`): a payment is parked
  or sent at most once and is nowhere else meanwhile, without which an id or a payment could
  come twice and the record of a signature would be ambiguous. The step that needs all of it
  is on_revoke_and_ack, which locks what was signed, collects what is now irrevocable and
  flushes the holding cell.
* `InForceIsNeverPunished`: `MonitorSpec => []NeverPunishesUnrevoked`, and
  `RevokedIsAlwaysPunished`: `MonitorSpec => []RevokedIsPunished`. Every step of
  `ChannelMonitor` is a step of the dance or leaves its variables alone, so the invariants
  above hold of the watched channel. `MonitorInv` adds that no stored snapshot holds more
  secrets than the channel has received; the numbers are then compared through
  `RevocationInv`.

### Opening

Proved for all sets of configurations and terms and any number of lost connections; the
assumption `OpenAssumption` is that their fields are numbers and flags.

* `FundingIsAlwaysRefundable`: `Spec => []FundingIsRefundable`, and `OpensAreSound`:
  `Spec => []OpensSoundly`. The configurations and the terms determine everything the two
  parties ever write down or send, so the inductive invariant `OpenInv` names it: the
  limits, shares and first commitments of a channel in each state (`formed`), the states the
  two are in together with the funding transaction (`joined`), the messages that may be
  under way then (`may`), open_channel and funding_signed at most once each (`streams`), and
  why a party may have failed the channel (`excused`). `later` orders what channels and
  transaction go through, and what may be under way only grows along it as far as a step
  keeps the messages before it valid (`MayGrow`). A loss of connection empties the streams;
  what is sent again is among what may be under way.
* The last conjunct of `OpensSoundly` joins the two specifications: `DanceStarts` shows
  that two open channels satisfy `Dance(t)!Init`, for all terms t, commitments built by
  `ChannelOps` included. The theorems about the dance thus start where opening ends.

### Gossip

Proved for every set of nodes, channels and networks and any number of lost links; the one
assumption is `GossipAssumption`, that a channel is a pair of different nodes.

* `AnnouncedByBothEnds`: `Spec => []AnnouncedByBoth`. A graph holds a channel only when
  both ends sent their signatures, and a policy only for such a channel. This says
  nothing of messages, so it is not inductive: an announcement on its way could put
  anything into a graph. The inductive invariant `GossipInv` adds that every message on
  a link is `justified` (signatures only from an end that marked them as sent,
  announcements only of channels both ends signed, policies no later than their
  origin's clock), that `their_announcement_sigs` is set only when the other end sent
  its own (`heard`), and that no graph is ahead of an origin's clock (`sound`). All of
  these survive when entries and clocks move on (`later`), which is what the lemmas
  `Later...` say. A handler is a chain of changes to the world of one node; each lemma
  `Good...` shows that one link of the chain leads from a good world to a good one, and
  `GoodStep` that a node that ends in a good world re-establishes the invariant for all.
* `GraphsGrow`: `Spec => GraphOnlyGrows`, from the same invariant. The step that needs
  it is a node's own update, in finish_announcement and in a refresh: its clock is ahead
  of every policy of its own that anyone holds, so the comparison of timestamps in
  apply_channel_update, which the model leaves out there, succeeds.

### Only model-checked

* Liveness (`Converges`, `ImplementsLiveLedger`, `ShutdownCompletes`, `LonePaymentSettles`,
  `ConfirmedChannelsOpen`, `EveryPaymentEnds`, `ConnectionBecomesReady`,
  `ChannelsAreAnnounced`): fairness and ENABLED are outside the prover.
* `FundsAreConserved` and what needs it: `NoFailure`, `FeeChangesAreSafe`,
  `ClosingTransactionIsRight`, `WhatIsOursIsClaimed`. They compare sums over sets of HTLCs,
  which are folds; each fact about them needs an induction that the prover does not have in
  general. `NoFailure` is moreover a fact about limits that leave room for both parties'
  fees, as those of the runs do, not about all constants.
* `CleanMeansSigned` and `ImplementsLedger`: they need, beyond `HtlcInv`, how the stages of
  a payment at the two parties go together across messages.
* `ReestablishAccepted`, `RollbackIsSafe`: the invariants of the dance do not survive a
  rollback as they are, since a stream is emptied in any stage. `FailuresHaveCauses` rests
  on `NoFailure`.
* `PaymentIsAtomic`, `SendingIsSound`, `StreamIsAuthentic` and `NothingIsStuck`: handlers
  that loop over batches, tables or pieces of a stream with folds, each of which needs an
  induction of its own over the sequence it folds.
* `NoncesAreFresh`: a key is a term that nests once for each rotation, so that two keys
  differ by an induction over terms.
* `GraphsAgree`: what a node knows has come along a path, so that the proof is an induction
  over paths of any length.
* The algorithms of `MCAlgorithms`: what they compute for every input needs an induction over
  the input, and the router and its reference are RECURSIVE operators.

## 7. Not modelled

* Invoices, wire encoding, feature bits, script and transaction encoding, key derivation,
  signing, hashing and ciphers: functions on bytes that the repository checks with the
  BOLT test vectors. Nothing of them is kept between calls.
* The bound of 1300 bytes on an onion: 19 forward payloads of at most 59 bytes and a final
  one of 91 make 1212, so the assertion in `construct` cannot fail for a route that
  `find_route` returns (20 hops at most).
* Accessors, logging, the queue of outputs (drained in order by the embedder), the wording
  of errors, and the clock of `tick` except for pings and timestamps.
