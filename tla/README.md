# A TLA+ verification of raptor-fec

`raptor-fec` protects live media with RaptorQ forward error correction: an
object is cut into source symbols, repair symbols are added, each travels in one
datagram, and the receiver returns the object once enough of them have come.
The coding has no feedback; the sender side has a scheduler and a choice of
recovery for what was lost. What can go wrong is therefore in the *bookkeeping* of the
receiver and of the sender's cursors: which blocks are closed, which symbols are
held, what was returned before, what is counted as lost. That bookkeeping is
what these modules specify, check with TLC and, where it matters most, prove with TLAPS.
Source paths below are relative to `src/crates/`; `fec/` stands for
`raptorq-datagram-fec/src/`.

## 1. Inventory

The library is synchronous, apart from two thin socket and transport wrappers.
Its concurrency is that of the network (loss, duplication, reordering, delay)
and of the caller, who interleaves datagrams with deadlines, a playout clock and
requests for more repair.

| Component | State | Operations | Interacts with |
|---|---|---|---|
| Sequence tracker, `fec/sequence.rs` | next expected id, missing ids, ids received early, newest | `observe` | owned by every datagram decoder; its loss count feeds the adaptive controller |
| Datagram encoder, `fec/lib.rs` | `block_id`, `packet_sequence`, configuration | `encode_block`, `encode_object`, `encode_payload`, `set_block_id` | owned by media, audio and UDP senders |
| Datagram decoder, `fec/lib.rs` | RaptorQ decoders by block id, closed ids, tracker | `push_datagram`, `expire_block`, `prune` | owned by media, audio and UDP receivers, which do not see it prune |
| Repair encoder, `fec/lib.rs` | block profile, repair cursor, packet sequence | `new`, `encode_additional`, `next_encoding_symbol_id` | continues the symbol ids of the datagram encoder |
| Multichannel audio, `fec/multichannel_audio.rs` | queue of epochs in flight, shards delivered, queue of closed epochs, a datagram decoder | `encode_epoch`, `push_datagram`, `expire_block` | closes and evicts blocks of its datagram decoder |
| Audio session, `music-audio-session/src/lib.rs` | assemblies of epochs, ignored blocks, playout buffer, last played pts, an audio decoder | `push_datagram`, `take_for_playout`, `expire_before` | playout clock of the application |
| Media frames, `fec/media.rs` | partial frames, completed frame keys, a datagram decoder; encoder sequence | `encode_frame`, `datagram_send_plan`, `push_datagram` | several streams in one decoder |
| Scheduler and recovery, `fec/schedule.rs` | none (pure) | `plan_media_datagrams_with_deadlines`, `decide_media_recovery` | encoded frames in, send plan out |
| Adaptive controller, `fec/adaptive.rs` | metrics, target bitrate | `update_network_metrics`, `decide`, `repair_symbols_for` | sets repair counts of the media encoder |
| Backfill store, `fec/backfill.rs` | bounded queue of encoded frames | `insert_encoded_frame`, `fulfill` | reliable path beside FEC: its answers meet live datagrams in the media decoder |
| Transport adapters, `raptorq-fec-transport/src/lib.rs` | none, or one encoder or decoder | `prepare_fec_config`, `wrap_epoch`, `send_epoch`, `send_fec`, `push_datagram` | give the audio packetizer its budget; a send loop that stops at the first error |
| UDP helpers, `fec/lib.rs` | socket, one encoder at the sender, one decoder per peer at the receiver | `send`, `send_block`, `recv_decoded` | several senders, restarted or reset, into one receiver |
| Telemetry, `fec/telemetry.rs` | saturating counters | `record_*` | nothing reads them back |
| WebAssembly binding | one session receiver | `push_datagram`, `expire_before`, `reset` | |

**Hard behaviours.**
Bounded windows of past ids (four of them, each with its own rule) against
datagrams that are late; two windows over the same ids in one decoder; `u32`
wrap; a block that completes and thereby costs another its symbols; shards that
may be owed twice (by their datagram and by recovery); a deadline between two
shards of an epoch; producers of repair symbols that take over from each other.

**What makes each component correct.**
The tracker: no loss overlooked, no received packet passed, bounded memory. The
decoder: a block at most once, none lost whose source symbols came, nothing
retained of the distant past. The repair encoder: no encoding symbol id spent
twice. Audio: each shard once, epochs whole or given up, given-up epochs silent.
Session: a pts played once, no assembly that cannot complete. Media: a frame
once, no partial frame that a late copy left behind. Backfill: what the store
answers completes the frame. Audio packetizer and adapter: the best geometry,
every byte once, nothing too large for the transport. UDP: peers do not mix, and
a block that reached the socket comes out. Controller: the rate in its limits and
back up once the path is calm, no block beyond its limits. Scheduler: no more in
flight than allowed, nothing sent after its deadline, no datagram forgotten or
passed by a lesser one; a recovery that is chosen comes in time and is enough.

`PROJECT.json` lists the hazards of the code line by line, with the properties
that cover each of them.

## 2. Modules

| Module | Models | Uses |
|---|---|---|
| `SequenceTracker` | `SequenceTracker` as operators on a record | |
| `TrackedFlow` | a flow of packets into a tracker over a reordering network | `SequenceTracker` |
| `AdaptiveController` | `AdaptiveFecController` as operators: limits, reports, rate, repair, the cut of a frame | |
| `AdaptiveFlow`, `MCAdaptiveFlow` | the feedback loop of tracker, path and controller; its constants | `TrackedFlow`, `AdaptiveController` |
| `AdaptiveFlowProofs` | theorems about `TrackedFlow` and `AdaptiveFlow`, and that the loop implements the flow | `Facts` |
| `FecDecoder` | `DatagramFecDecoder` as operators on a record | |
| `BlockDelivery` | the abstract promise: at most once, never after abandonment | |
| `DatagramFec` | encoder, network, decoder and tracker | `FecDecoder`, `SequenceTracker`, `BlockDelivery` |
| `DatagramFecProofs` | theorems about `DatagramFec` and, in the last part, about `RepairEncoder` | |
| `UdpFec`, `MCUdpFec` | senders with their send loops, a damaging network, the receiver's loop over a decoder per peer; its constants | `FecDecoder` |
| `UdpFecProofs` | a theorem about `UdpFec` | `Facts` |
| `AudioDecoder` | `MultichannelAudioFecDecoder` as operators | `FecDecoder` |
| `MultichannelAudioFec` | contributor, network, audio decoder, deadlines | `AudioDecoder` |
| `AudioPacketizer` | geometry, shards, session trailer and checksum, transport prefixes as operators | |
| `EpochTransport`, `MCEpochTransport` | epochs cut, wrapped and sent until a send fails, into the audio decoder; its constants | `MultichannelAudioFec`, `AudioPacketizer` |
| `EpochTransportProofs` | theorems about `AudioDecoder`, `MultichannelAudioFec` and `AudioPacketizer`, and that a flow over a transport implements the second | `Facts` |
| `AudioSession`, `MCAudioSession` | session receiver and playout clock over the contributor, the network and the audio decoder; a view for TLC | `MultichannelAudioFec` |
| `AudioSessionProofs` | theorems about `AudioSession` | `EpochTransportProofs`, `Facts` |
| `MediaFec`, `MCMediaFec` | frame encoder, send plan, frame decoder; its constants | `FecDecoder` |
| `MediaBackfill`, `MCMediaBackfill` | the same with a backfill store and a reliable path; its constants | `MediaFec` |
| `MediaFecProofs` | theorems about `MediaFec` and `MediaBackfill` | `Facts` |
| `MediaSchedule` | the planning functions: send plan, recovery decision, deadlines, loss outcome | |
| `MediaSender`, `MCMediaSender` | passes, carrier, recoveries and clock; its constants | `MediaSchedule` |
| `MediaSenderProofs` | theorems about `MediaSender` and the plan of a pass | `Facts` |
| `RepairEncoder` | a namespace of repair symbols and its producers | |
| `Facts` | induction on a set of naturals, intervals, ranks in an order, queues, folds and sums, flattened sequences: lemmas that the proofs cite | |

A decoder that another component owns is a record of operators, not a machine of
its own. So `DatagramFec`, `UdpFec`, `AudioDecoder` and `MediaFec` run the *same*
`PushDatagram`, `Close` and `Prune`, and the interference between layers, which
is where most findings lie, is in the model by construction.

**How state corresponds to code.** A datagram is `[id, k, esi]`. Geometry
(transfer length, source symbols, symbol size) is told apart by `k`, the number
of source symbols. A `BlockState` is `[k, symbols]`: the external RaptorQ decoder
is reduced to `CanDecode` (at least `k` distinct symbols) and `MustDecode` (all
`k` source symbols); between the two it decodes or not, by a nondeterministic
choice, which is the failure probability of the code. Pairs of a `HashSet` and a
`VecDeque` of the same ids are one sequence. Each handler is one action, with its
pruning, eviction and insertions inside. `u32` arithmetic is `% IdMod` or
`% SequenceMod`; thresholds that the code compares as integers (`*block_id >= cutoff`)
are compared as integers here. Functions whose comment begins with "slip" are
not part of the model: each is a plausible mistake that replaces one definition
to show that a property can fail.

In `MediaSchedule` a frame is its sequence number, stream, flags and priority,
deadline and the source and repair counts of its blocks; milliseconds and
microseconds are one unit. The loops of `plan_media_datagrams_with_deadlines` are
written as the sequence of what they would visit, cut at each limit, and a
recursive function over what is left; the sort is the sequence in which every
group comes after those with a smaller key.

In `AdaptiveController` a fraction is a pair of integers and the ratios of the
policy are in units of `1/Unit`, so that ceilings and comparisons are exact; the
code computes them in `f32`. In `AudioPacketizer` a datagram is its sizes, its
flag, trailer and checksum; the checksum is the value of what it covers. Where
prefixes are read and written, bytes are words of four: a stream id is any two
words, the magics of the adapter and of FEC are one each. A
damaged datagram in `UdpFec` is one that no header or checksum accepts.

**The network** delivers a datagram any number of times, in any order, or never,
within a bounded delay: while at most `Delay` newer blocks have been encoded
(`Reorder` later packets in `TrackedFlow` and `MediaFec`; in `UdpFec` any
datagram ever sent may come, as often as `MaxArrivals` lets it). The delay is an
assumption on the environment that the code's windows need. Where the model says
`Delay <= CompletedWindow` the code's figure is 64 blocks. In `MediaSender` a
datagram comes at any time after it is sent, once, or is lost, and a recovery
exceeds its estimate by less than the safety margin, which is what the margin is
for.

## 3. Runs

Two runs check liveness. The library has no threads or timers of its own, and
nothing obliges the network to deliver or a sender to send, so fairness is stated
for the two loops only that the code and its use do have: in `UdpFec`
`recv_decoded`, which loops until it has a block or an error, and an application
that calls it again (`WF` on `Recv` and `CallRecv`); in `AdaptiveFlow` an
application that keeps reporting what it observes (`WF` on `Report`, which is
always enabled). Everywhere else "something good happens" is a state
property: *when the source symbols have come, the block has been returned*.
`CHECK_DEADLOCK FALSE` is set where the bounded number of blocks can be used up
with nothing left to deliver.

| Run | Question | Bounds and why they are enough |
|---|---|---|
| `AdaptiveFlow` | What does the loss account guarantee in any arrival order, and what does the controller make of it? | a flow of 5 packets of which 5 arrive, duplicates among them, one overtaken by up to 3; gaps longer than `MaxTrackedGap` = 2, and a flow that moves on past the gap of its first packet; a start next to the wrap of 16 ids; one change of the path among a calm one, two with less than the minimum or maximum rate to offer, and a congested one; a policy and one whose limits cross and that asks for larger blocks than RaptorQ has, each with ratios or boosts below zero; an increase of zero; frames that are empty, of one block and of several, of too many fragments and too long (`U16Max`, `U32Max` and `MaxSource` stand for the limits of `encode_frame` and of RaptorQ) |
| `MissingIsUnreceived` | Is only the unreceived missing? **No.** | 7 packets, every order, `MaxTrackedGap` = 3, three starts |
| `DatagramFec` | Do encoder, network and decoder deliver at most once and lose nothing complete? Do they implement `BlockDelivery`? | 3 blocks with a window of 1: one inside, one at the edge, one outside; first id 0 (below the window, where the cutoff wraps) and 4; split payloads; repair symbols |
| `ExpiredIsNotRecreated` | Does an expired block stay closed? **Not across the wrap.** | ids start at 7 of 8 |
| `UdpFec` | Do peers and geometries stay apart, and does what reached the socket come out in the end? | 2 senders that use the same ids, 3 addresses, 2 blocks, of one to three symbols from the first sender and of two from the second, one restart, or `set_block_id` back to 0 or on to 2, at any moment; a window of 1, so that the two blocks of a sender lie just inside it or beyond it, where the older is pruned; sends that fail at any datagram, a socket of 2, 3 arrivals of which any may be damaged or doubled |
| `EpochTransport` | Are shards returned once and epochs whole, is state bounded, do given-up epochs stay silent, whatever a send loop leaves on the wire? Do epochs get through the adapter? | 4 epochs of 2 shards, each sent up to any datagram, 1 in flight, inner window 1: eviction, expiry and inner pruning all occur; 3 closed epochs remembered, one less fails (that is a mutant); one repair symbol stands for one source. Two in flight are in `AudioSession`. Geometry and framing: 28 adapters with budgets from one byte too few, one of whose stream ids reads as the two magics, up to 3 groups of 0 to 7 bytes, 1 to 4 source symbols where a block of RaptorQ has at most 3 |
| `InFlightRetainsState` | Does an epoch in flight have its symbols? **Not always.** | 2 in flight, 4 closed |
| `RepairEncoder` | Are symbol ids fresh and within their limits? | every profile of lengths up to 15 and sizes up to 3, limits scaled so that each check is the first to fail for some request |
| `AudioSession` | Is a pts played once, can every assembly complete? | 3 epochs, two of which may share a pts; one assembly slot, one buffer slot, so that every eviction happens; 3 ignored epochs remembered, the least that `SessionSetting` permits: one less fails (a mutant). The view leaves out the histories `arrived` and `givenUp`, on which no step of the session and no property of the run depends |
| `MediaBackfill` | Is a frame returned once, and does the store make up for any loss? | 3 encodings on 2 streams whose numbers differ, each frame of 2 blocks of 2 symbols without repair, so that every loss needs the store; copies; a store of 2 frames, so that one is evicted; one request, with an index the frame does not have; frame window 1 (128 in the code); datagrams overtaken by one |
| `MediaSender` | What do scheduling passes and recovery decisions guarantee under a clock? | 3 frames in batches of 1 to 3, so that passes meet what earlier passes left in flight; two scanned of three, five block visits of six: every limit of a pass cuts one short; key, delta and header frames (a flag over the priority), blocks with and without repair; queue delay 0 and 1, two policies of 1 and 3 in flight, pacing 1 |
| `RecoveryBudgetIsKept` | Does a block keep its symbols until its repair comes? **Not in a long source-first frame.** | one frame of 3 blocks, window 1 |

The window of closed epochs in the audio decoder is a queue in closing order, not
a range of ids. How long it must be depends on the delay, on the epochs in flight,
on whether epochs of one shard close without being in flight, and on whether the
application expires epochs (the constant `Expires`). `Setting` in
`EpochTransportProofs` states the length that is enough. With expiry it is `2 * Delay`
and the epochs that can be left in flight, and the run is the smallest case of it:
one remembered epoch less and TLC has a shard returned twice. Without expiry an old
epoch closes only when a datagram of another one evicts it, and `4 * Delay` is
enough however many are in flight. The code's defaults are 128 closed and 128 in
flight. So an application that does not expire, as the music session does not, has
room for a delay of 31 epochs. An application that expires a whole queue of 128
old epochs while the datagrams of one just closed are on their way does not;
the code's own test takes 64 closed for 4 in flight (`fec/multichannel_audio.rs:1512`).

The window of ignored epochs in the session receiver is a queue of the same kind:
an epoch that lost its assembly must not be assembled again from what still
comes. `SessionSetting` in `AudioSessionProofs` states its length, `2 * Delay` and
the assemblies that can be open. The code takes four times as many as it
assembles, and at least 64 (`music-audio-session/src/lib.rs:200`); with its 64
assemblies that is room for a delay of 96 epochs, so that the decoder below, with 31, is the
limit.

### What the violations show

* **`MissingIsUnreceived`** (`fec/sequence.rs:73`). A gap is always counted from
  the expected packet, so after 10, 13, 14 the tracker counts 11, 12 *and 13*.
  The expected packet moves only when the lost one comes: after one loss for
  good every later packet is added to `missing`, up to 4096. A loss is not even
  needed: after 0, 3, 2, 1 the tracker expects 2, which came, and so will never
  come again. The loss that the adaptive controller is told then grows with the
  flow, and the rate falls to its minimum on a sound path. `LossesAreTracked` and
  `TrackingStaysAhead` say what does hold, and `CleanFlowIsNotCut` and
  `RateRecovers` what the loop guarantees while the tracker has caught up.
* **`ExpiredIsNotRecreated`** (`fec/lib.rs:1305`). The window compares ids as
  integers. Closing the last block before the wrap forgets the blocks after it,
  and a late datagram starts a decoder for an expired block again. The theorems
  below need `OneEpoch` for this reason.
* **`InFlightRetainsState`** (`fec/multichannel_audio.rs:853`). The inner decoder
  prunes a block when a later one closes; the queue keeps its place. The count
  that the comment describes is then too high, and a shard that comes late for
  the block is returned but can no longer be combined with the symbols dropped.
* **`RecoveryBudgetIsKept`** (`fec/lib.rs:1305`, `fec/media.rs:353`). A frame of
  more than `COMPLETED_WINDOW + 1` blocks sent source first prunes its own first
  blocks before their repair symbols are sent. The same window limits backfill:
  the store answers for 128 frames by default (`fec/backfill.rs:89`), the decoder
  holds symbols of the last 64 block ids only. `BackfillCompletes` is checked with
  a decoder window that reaches as far back as the store.

Also seen, without a run of its own:

* `geometry_for_groups` accepts up to 65,535 source symbols
  (`fec/multichannel_audio.rs:158`), the header of a datagram at most 56,403
  (`fec/lib.rs:503`): between the two `prepare_fec_config` succeeds and
  `encode_epoch` refuses the epoch. In the same way `normalized()` of the adaptive
  policy lets `max_source_symbols` exceed 56,403, and a frame cut into such
  blocks is refused at its first block. `EpochsGetThrough` and
  `FramesFitTheirBlocks` say what holds on either side of that limit.
* A partial block more than `COMPLETED_WINDOW` ids behind a block that completes
  is discarded (`fec/lib.rs:1306`), so its last source symbol does not complete
  it however soon it comes. `BlocksThatArriveAreReturned` excuses exactly
  that.
* `prune` keeps 65 ids, the current one and 64 before it, where `fec/lib.rs:93`
  says 64.
* `fec/schedule.rs:299` says that urgent repair may pass *far-deadline* delta and
  data source. The rank has no such condition: urgent repair passes all of it,
  also source that expires first. `DeferredGaveWay` states what the code does.
* A datagram that a pass drops as expired has been counted against
  `max_datagrams_per_plan` (`fec/schedule.rs:373`), so a pass over expired frames
  may schedule nothing although live ones follow; the flag reports the cut.

## 4. Proofs

TLAPS proves for every value of the constants what TLC checks on small ones.
Every assumption on a constant is a named `ASSUME` in the module that declares it.

`DatagramFecProofs`, about `DatagramFec`:

* `TypeCorrect` needs no setting: whatever ids are set, and whatever the delay.
* The others need `OneEpoch`: ids are not reset, they do not wrap within the
  blocks considered, and `Delay <= CompletedWindow`. Without it the properties are
  false (`ExpiredIsNotRecreated`).
* `WindowInvariant` is the inductive invariant. `AtMostOnce` alone is not
  inductive: a state in which a returned block is no longer in `completed`
  satisfies it and steps out of it. What is needed is that the id of a block is
  its ordinal (`IdsAreOrdinals`), that a closed block which can still receive
  datagrams is remembered (`ClosedIsRemembered`), that what is remembered or held
  lies in the window of the newest closed block (`RememberedIsRecent`), and that an
  open block which can still receive datagrams holds exactly what arrived
  (`OpenIsHeld`). The lemma `RetainsIsRecency` translates the integer
  comparison of `prune` into "at most `CompletedWindow` blocks older".
* From it follow `ReturnsAtMostOnce`, `CompletesWhenSourcesArrive`,
  `ClosedStaysClosed`, `MemoryIsTheWindow`, and `ImplementsDelivery`: the initial
  states map to initial states of `BlockDelivery` and every step maps to `Offer`,
  `HandOver`, `Abandon` or a stutter.

and about `RepairEncoder`, with no further assumption: the
invariant is that the ids spent are exactly the prefix `0 .. k + next - 1` of the
namespace and that the cursor is inside it. `RepairTypeCorrect`, `ResponsesAreDisjoint`
(as many ids as symbols sent), `NamespaceRespected`, `NextIsHonest` and
`DeclaredAgrees` follow.

`AdaptiveFlowProofs`, about `TrackedFlow`, with no further assumption:
`NoLossIsPassed`, `NoLossIsOverlooked` and `TrackerIsBounded`, for flows of any
length below half the sequence space, any reordering, loss and duplication, and
any start, wraps included. The three properties are
not inductive: that `missing` has at most `MAX_TRACKED_GAP` members follows only
from where they lie. The invariant `Tracking` says so: the newest packet is
`highest_seen`, everything before the expected packet has come, what is in
`missing` is less than `MAX_TRACKED_GAP` after the expected packet, and what is in `future` came
after it. `NoLossIsOverlooked` is about every packet that was overtaken within
`MAX_TRACKED_GAP` of the expected one and has not come since (the history `late`),
anywhere in the flow. For it `Tracking` says also that `missing` has no holes
(from the expected packet to any missing one, each packet has come or is missing): a
packet that overtakes others and is itself in `missing` adds no gap, and must
not need to. `RunAfterExpected` is the lemma on the loop that consumes early
packets; it rests on `ClosedIsInterval` (a set that
has, with each number, every smaller positive one is an interval).

and about `AdaptiveFlow`:

* `RateStaysInLimits`, with no further assumption. The invariant adds to the
  property that the limits are what `NormalizedCongestion` made of the
  configuration, which no report changes; from that the second clamp of
  `update_network_metrics` keeps the rate in its limits whatever the path offers.
* `LoopImplementsFlow`: every behaviour of the loop is one of the flow into the
  tracker, so the tracker's theorems hold in the loop.
* `CleanFlowKeepsItsRate` combines the two: a tracker that has caught up has no
  loss to report, and a report of no loss on a calm path is no congestion and can
  lose its increase to a limit only. It assumes that the two loss thresholds are
  positive. That for keyframes is the literal 0.20; `normalized()` clamps the other to
  `0..1` and so permits 0, with which every report is one of congestion.
* `FramesAlwaysFit`, with no further assumption: `FramesFitTheirBlocks` for every
  policy, negative ratios included, every report and every length of frame, the
  refused ones (`MayCut`) included. The invariant is that the policy
  is one that `normalized()` returned and the metrics are ones that `into_metrics`
  returned. The rest is about the cut: a ceiling is the least multiplier that
  reaches (`CeilDivIs`), the blocks end where the frame does (`CutIs`), and what they
  carry telescopes to its length (`CarriedIs`). Every block but the last is full, so a
  block of more symbols than RaptorQ takes (`MayEncode`) means that the first
  block is one too: the frame is refused before it has spent a block id or a packet
  sequence (`FullBlockNeedsAll`).

`UdpFecProofs`, about `UdpFec`, with no further assumption: `PeersDoNotMix`. The
invariant follows a datagram from the send loop over the wire and the socket into
a decoder: whatever is on its way is of a block that was encoded, what the
socket holds is of a block of its peer and has been counted as accepted, and each
decoder holds only such symbols, of the geometry of its block. What a sender
leaves pending is a flattened sequence of sequences; `FlattenPlaces` says where
its elements come from.

`EpochTransportProofs`, about `MultichannelAudioFec` and the flow over a transport:

* `DecoderIsBounded` needs no setting: the two queues have no id twice and keep
  their limits, and what the decoder holds is of epochs in the queue in flight.
* The others need `Setting`: ids do not wrap, `Delay <= CompletedWindow`, and the
  queue of closed epochs has room for `2 * Delay` epochs and those that can be left
  in flight or, when the application expires none, for `4 * Delay`. Nothing bounds
  how late an epoch in flight closes, so that queue is not a window of ids: an
  epoch can be pushed out by older ones.
* `IInv` is the inductive invariant. Its core is `ClosedWindow`, which has a form for
  each alternative of `Setting`. `Window` is the first: an epoch that is
  finished (whole or given up), and whose datagrams can still come, is among the
  closed; and the ids that stand behind it in the queue or are in flight, and are
  too old for their own datagrams to come, are at most as many as can be left in
  flight. With the at most `2 * Delay` ids near to it, that is what can push it out,
  which `RoomInTheQueue` counts; `WindowGrows`, `WindowJoins` and `WindowCloses` show that a
  new epoch, one that comes into flight and one that closes, evicted and expired ones included, keep the count.
  `JoinWindow` is the second: an old epoch is evicted only when one near to the
  finished one comes into flight, and each of the at most `2 * Delay` near ones does so once.
  The old ones behind an id and the near ones that have not come into flight are
  together at most `2 * Delay`: a joining epoch takes one from the second count
  (`JoinWindowJoins`) before the one it evicts adds to the first (`JoinWindowCloses`). `OpenIsHeld` relates the two layers: an epoch that is
  not finished has returned exactly the source shards that came, and the decoder
  below has all that came as long as more can come.
* `ShardsComeOnce`, `ClosedEpochsAreWhole`, `QueuedEpochsAreOpen` and the action
  property `GivenUpStaysSilent` follow from it.
* `FlowImplementsFec`: an epoch that is cut, wrapped and sent until a send fails is
  an epoch of `MultichannelAudioFec` some datagrams of which never come; so
  `FlowKeepsItsPromises`. It uses `EpochAssumption`, that the geometry of the
  epochs of the flow has a number of shards of `Shards`.
* `GeometryIsBest` and `EpochsAlwaysGetThrough` need no setting. They hold for every
  adapter, configuration and grouping of channels that `packetize_epoch` may be
  given; the invariant `PacketizeInv` is that the geometry recorded is what
  `GeometryForGroups` returned for them. Optimality is over *all* symbol sizes,
  of which the code tries few: for every size there is a candidate no larger that
  cuts the epoch into as many shards (`CandidateIsAsGood`), and the scores are
  totally ordered, so the best candidate is the best size (`BestExists`). That the
  epoch gets through is an argument on its layout: the shards are the fragments of the groups one after
  the other (`FlattenPlaces`, `FlattenLength`), so their number is `SourceCount`, an
  index is the rank of a shard among those of its group (`RanksAreCounts`), and a byte
  is in the one fragment that its place divided by the size names. The framing
  that `prepare_fec_config` sets aside is what the datagram, the trailer and the
  prefix then take (`CandidatesFit`, `DatagramIs`). `FramingIsRead` shows that an
  adapter of another stream never finds a whole datagram in a message: with a
  stream id of its own it compares it with the first two words, and where one
  side has none, reading two words more or fewer leaves something else than the
  datagram, also if these words are those of the magics.

`AudioSessionProofs`, about `AudioSession`:

* `SessionImplementsFec`: whatever the session does with what it is given, the
  contributor, the network and the decoder below it behave as `MultichannelAudioFec`,
  so the theorems about that module hold in the session.
* `PlayoutIsAhead`, with no further assumption. The decoder is not looked into. The
  invariant says also that a buffered epoch is filed under its own pts and that a
  pts was played at most once, and no later than the clock.
* `AssembliesHaveAll` and `DecodedAreReported` need `SessionSetting`: the `Setting` of
  the decoder and room among the ignored for `2 * Delay` epochs and the assemblies
  that can be open. `SessionInvariant` is about both layers at once. Its part about
  the session, `AssemblyInv`, says of every epoch that it is one of four
  (`EpochsAreTold`): assembled, and then its assembly is what the decoder has
  returned of it and not all; untouched, with nothing returned; completed, once,
  with everything returned and no assembly left; or dropped. The last is the hard
  one. An epoch that was dropped before it completed must never be assembled again,
  or the second assembly lacks what the first one had. `IgnoredAreRemembered` says
  so: while its datagrams can come it is among the ignored or its pts is late, and
  the argument on what can push it out of that queue is the decoder's (`Window`),
  with the open assemblies for the epochs in flight. `DropMany` carries it through
  a clock that gives up several assemblies in an arbitrary order. `ArrivalBrings` is
  what the session needs of the decoder: an arrival returns shards of its own
  epoch only, none that was returned before, and an epoch whose block is decoded
  has then returned all of them.

`MediaSenderProofs`, about `MediaSender`, with no further assumption. It has three
layers:

* The plan of a pass, as a function. `GroupsAreSorted`: the sort keys of a pass
  are totally ordered and no two groups share one, so the groups are listed by
  their rank. `VisitedInOrder` and `QueueInOrder` carry the order through the two
  flattenings: every datagram is a candidate once, those that a limit cuts off
  come last. `Considered` is the invariant of the loop over the candidates: what
  is scheduled or dropped are candidates already considered, one that is
  scheduled comes after none that was deferred, each was counted once.
* `PassInv`: the frames of a pass are frames given, unchanged, and what is in
  flight leaves before they expire. `EverythingLeavesInTime`, `CarrierKeepsItsLimit`,
  `NothingWorseGoesFirst` (`DeferredGaveWay`) and `NothingIsForgotten`
  (`PassIsAccounted`) follow.
* `SenderInv` adds the recoveries: each is due a margin before the deadline of
  its block and the clock has not used the margin up; what a repair asked for
  makes up, with what has come and what the decision counted, for the block.
  The count needs that what came and what is in flight are different datagrams,
  and so that no pass schedules one twice. `RecoveryMakesTheDeadline` and
  `RecoveryMakesUpForTheDeficit` follow. That a recovery exceeds its estimate by
  less than the safety margin is the assumption of `Tick`; the code's policy
  rests on it.

and a fourth on top, for `OutcomesAreTrue` (`LossIsAccounted`): `WireInv` says that
what came is of a block that was given, and that the wire completes a block
exactly when as many datagrams have come as the block has source symbols. `loss_outcome`
sees the losses only; `OutcomeOfBlock` shows that its comparison says the same of
each block, and the sums over the blocks are sizes of disjoint sets of
datagrams (`SumsOfBlocks`; `SumOfSizes` and `SumAdds` in `Facts`). It needs that every block has a source symbol, which
`source_symbol_count` sees to even for an empty payload (`fec/lib.rs:1448`) and
`SenderAssumption` says.

`MediaFecProofs`, about `MediaFec` and `MediaBackfill`, in two parts:

* Frames. `FrameInv` is the inductive invariant: every block is a fragment of a
  frame that was encoded, keys are given out once, and of each frame
  (`FrameIsTold`) either all fragments were decoded, it was returned once, left no partial
  frame and is among the completed while it is recent, or some were
  not, it was not returned and the partial frame holds just those that were. What
  is decoded of a block below is left open, so no property of the decoder's window is
  needed; what is needed is that `prune_completed` keeps every key whose datagrams
  can still come (`RecentIsKept`). `FramesComeBackOnce` and `PartialsAreWhole` follow, with
  no further assumption, and again as `BackfillReturnsOnce` and `BackfillLeavesNothing` with
  responses between the datagrams of the wire.
* The store. `BlockInv` says that a block which the decoder's window still
  reaches was decoded, or the decoder has every symbol that came of it and lacks a source
  symbol. `StoreFits` says what the store has: newest copies only, in the order in
  which they were encoded, and every one of them that is not older than the
  oldest it has, so that a frame with fewer than its capacity of other frames encoded since
  is there (`OwedIsStored`, which counts keys). `PromisesHold` is the argument: of a frame that the store had to
  serve and that was not returned, each fragment not decoded has a block of which
  all that did not arrive is still in the response. A frame has every source symbol of its blocks among its datagrams,
  in the order in which `encode_frame` lists them (which the store copies) and in either order
  of the send plan (`PlanIs`), so a copy has all that its blocks need. `BackfillMakesUp` follows
  while `WindowReachesBack`: the blocks that the store and the response name are
  inside the window of the decoder below. That is a statement about states,
  because how many blocks a frame has is up to the sender; without it
  `BackfillCompletes` is false (a window of 1 in the run's instance shows it, and
  `RecoveryBudgetIsKept` why). `BackfillMakesUpFew` needs none: with at most as many
  blocks as the window has places, as in the run, the window always reaches back.

Induction is by a set: the library's theorems take a predicate, which the
backends cannot instantiate, but `Facts` derives from the minimum
principle of `<` that a set of naturals with 0 and every successor is all of
them. `Facts` uses it to show that the recursive function in
`FlattenSeq` exists and what it returns, `MediaSenderProofs` for that of `Plan`.

**Only model-checked:** liveness (`RateRecovers`, `BlocksThatArriveAreReturned`), which
is out of the prover's reach, as are `RECURSIVE` operators (the modules declare
none). Every invariant and action property of a passing run is a theorem.

## 5. Not modelled, and why

* Header bytes, fragment and shard headers: layout. A datagram that fails
  them is refused before any state of its block is read; the tracker is
  updated after the header check.
* RaptorQ itself: an external crate.
* Errors that only a foreign encoder can cause (shards of one block that
  disagree, an object of the wrong length), and the conflict errors of
  `PartialFrame::insert` (copies of one frame with different metadata). Some of
  them leave state behind; the hazards list them. Copies of one frame that are cut
  differently would be put together without an error; `FramesFitTheirBlocks` says
  that the cut depends on the policy and the length only, so an application would
  have to replace the controller between the copies.
* `DatagramBufferPool`: recycles allocations.
* Telemetry counters: sums that nothing reads back. The loss outcome they add
  up is modelled (`LossIsAccounted`).
* The WebAssembly binding: it keeps one session receiver and converts its
  results. Its `push_datagram` and `expire_before` are actions of
  `AudioSession`; its `reset` builds a new receiver; it never asks for playout.
* The bindings of the transport crate to WebRTC, WebTransport and QUIC sessions:
  each forwards one datagram to an external library.
* The older planner `plan_media_datagrams` (it derives the deadline from pts and
  calls the one modelled), the class and path labels of a scheduled datagram.
* Floating point rounding and NaN in the adaptive controller.

## 6. Plan

1. `DatagramFec` and `FecDecoder`, with `BlockDelivery` and proofs: done.
2. `RepairEncoder` and proofs: done.
3. `TrackedFlow`, `AdaptiveController`, `AdaptiveFlow` and proofs: done.
4. `AudioDecoder`, `MultichannelAudioFec`, `AudioPacketizer`, `EpochTransport`,
   `AudioSession`, and proofs about the decoder, the playout clock and the
   assemblies: done.
5. `MediaFec`, `MediaBackfill` and proofs: done.
6. `MediaSchedule`, `MediaSender` and proofs: done.
7. `UdpFec` and the proof that peers do not mix: done.
