----------------------------- MODULE DatagramFec -----------------------------
(***************************************************************************)
(* One DatagramFecEncoder, a network that loses, duplicates and reorders    *)
(* its datagrams, and one DatagramFecDecoder with its sequence tracker.     *)
(*                                                                         *)
(* A block is named by its ordinal n, which unlike the block id is never    *)
(* reused.  A datagram of block n can arrive until more than Delay later    *)
(* blocks have been encoded; one that never arrives is lost.                *)
(***************************************************************************)
EXTENDS FecDecoder, SequenceTracker, Sequences

CONSTANTS
  FirstIds,       \* with_initial_block_id
  ResetIds,       \* ids the application may pass to set_block_id
  SourceSymbols,  \* DatagramFecConfig::source_symbols
  ObjectSymbols,  \* source symbols of the objects the application encodes
  Repairs,        \* repair symbols asked for with a block
  MaxChunks,      \* bound: chunks that encode_payload splits a payload into
  MaxBlocks,      \* bound: blocks encoded
  Delay           \* datagrams are delayed past at most Delay later blocks

ASSUME FecAssumption ==
  /\ FirstIds \subseteq Ids /\ ResetIds \subseteq Ids
  /\ SourceSymbols \in Nat \ {0} /\ ObjectSymbols \subseteq Nat \ {0}
  /\ Repairs \subseteq Nat /\ MaxChunks \in Nat
  /\ MaxBlocks \in Nat /\ Delay \in Nat

VARIABLES
  firstId,         \* history: the initial block id
  blockId,         \* DatagramFecEncoder.block_id
  packetSequence,  \* DatagramFecEncoder.packet_sequence
  sent,            \* the blocks encoded: id, k, datagrams, first packet sequence
  dec,             \* DatagramFecDecoder.blocks and .completed
  tracker,         \* DatagramFecDecoder.sequence_tracker
  arrived,         \* history: the symbols of each block that arrived
  handed,          \* history: how often each block was handed over
  expired          \* history: the blocks the application expired

encoder == <<firstId, blockId, packetSequence, sent>>
decoder == <<dec, tracker>>
history == <<arrived, handed, expired>>
vars == <<encoder, decoder, history>>

Blocks == 1..MaxBlocks
Sent == 1..Len(sent)

Init ==
  /\ firstId \in FirstIds /\ blockId = firstId
  /\ packetSequence = 0
  /\ sent = <<>>
  /\ dec = NewDecoder
  /\ tracker = NewTracker
  /\ arrived = [n \in Blocks |-> {}]
  /\ handed = [n \in Blocks |-> 0]
  /\ expired = {}

-----------------------------------------------------------------------------
(* The encoder.  Both cursors wrap, and a call that fails (an empty object, *)
(* or one larger than a block for encode_block) moves neither.              *)

(* encode_one_block, for the i-th of several blocks with r repair symbols   *)
BlockOf(ks, r, i) ==
  [id |-> (blockId + i - 1) % IdMod, k |-> ks[i], datagrams |-> ks[i] + r,
   first |-> (packetSequence + (i - 1) * (SourceSymbols + r)) % SequenceMod]

(* Only the last block of a payload has fewer than SourceSymbols symbols.   *)
Encode(ks, r) ==
  /\ Len(sent) + Len(ks) <= MaxBlocks
  /\ sent' = sent \o [i \in 1..Len(ks) |-> BlockOf(ks, r, i)]
  /\ blockId' = (blockId + Len(ks)) % IdMod
  /\ packetSequence' =
       (packetSequence + (Len(ks) - 1) * (SourceSymbols + r) + ks[Len(ks)] + r) % SequenceMod
  /\ UNCHANGED <<firstId, decoder, history>>

(* encode_block, and encode_object for k > SourceSymbols *)
EncodeObject(k, r) == Encode(<<k>>, r)

(* encode_payload, with the last chunk of k source symbols *)
EncodePayload(chunks, k, r) ==
  Encode([i \in 1..chunks |-> IF i = chunks THEN k ELSE SourceSymbols], r)

(* set_block_id *)
SetBlockId(id) ==
  /\ blockId' = id
  /\ UNCHANGED <<firstId, packetSequence, sent, decoder, history>>

-----------------------------------------------------------------------------
(* The receiver.                                                            *)

Deliverable(n) == n \in Sent /\ Len(sent) <= n + Delay

DatagramOf(n, esi) == [id |-> sent[n].id, k |-> sent[n].k, esi |-> esi]

(* A datagram arrives, for the first time or again.                         *)
PushArrival(n, esi) ==
  /\ Deliverable(n) /\ esi < sent[n].datagrams
  /\ tracker' = Observe(tracker, (sent[n].first + esi) % SequenceMod)
  /\ \E o \in PushDatagram(dec, DatagramOf(n, esi)) :
       /\ dec' = o.d
       /\ handed' = IF o.out = "decoded" THEN [handed EXCEPT ![n] = @ + 1] ELSE handed
  /\ arrived' = [arrived EXCEPT ![n] = @ \cup {esi}]
  /\ UNCHANGED <<encoder, expired>>

(* The deadline of a block has passed.                                      *)
ExpireBlock(n) ==
  /\ Deliverable(n)
  /\ dec' = Close(dec, sent[n].id)
  /\ expired' = expired \cup {n}
  /\ UNCHANGED <<encoder, tracker, arrived, handed>>

Next ==
  \/ \E k \in ObjectSymbols, r \in Repairs : EncodeObject(k, r)
  \/ \E chunks \in 2..MaxChunks, k \in 1..SourceSymbols, r \in Repairs :
       EncodePayload(chunks, k, r)
  \/ \E id \in ResetIds : SetBlockId(id)
  \/ \E n \in Sent : \E esi \in 0..sent[n].datagrams-1 : PushArrival(n, esi)
  \/ \E n \in Sent : ExpireBlock(n)

Spec == Init /\ [][Next]_vars

-----------------------------------------------------------------------------
(* Properties.                                                              *)

(* The setting in which the suppression window works: one epoch of block    *)
(* ids, and datagrams no later than the window.                             *)
OneEpoch ==
  /\ ResetIds = {} /\ Delay <= CompletedWindow
  /\ \A id \in FirstIds : id + MaxBlocks <= IdMod

Closed == {n \in Sent : handed[n] > 0} \cup expired

DecoderType(d) ==
  /\ d.completed \subseteq Ids
  /\ InFlight(d) \subseteq Ids \ d.completed
  /\ \A id \in InFlight(d) : d.blocks[id] \in [k : Nat, symbols : (SUBSET Nat) \ {{}}]

TrackerType ==
  [next : SeqIds \cup {NoSeq}, missing : SUBSET SeqIds,
   future : SUBSET SeqIds, highest : SeqIds \cup {NoSeq}]

BlockType == [id : Ids, k : Nat \ {0}, datagrams : Nat, first : SeqIds]

(* The state has the types of the code: ids and sequence numbers stay u32,  *)
(* no closed block is in flight and none in flight is without symbols.      *)
TypeOK ==
  /\ firstId \in FirstIds /\ blockId \in Ids /\ packetSequence \in SeqIds
  /\ sent \in Seq(BlockType) /\ Len(sent) <= MaxBlocks
  /\ DecoderType(dec) /\ tracker \in TrackerType
  /\ arrived \in [Blocks -> SUBSET Nat]
  /\ handed \in [Blocks -> Nat]
  /\ expired \subseteq Sent

(* push_datagram returns a block at most once, however its datagrams are    *)
(* duplicated and delayed inside the window.                                *)
AtMostOnce == \A n \in Blocks : handed[n] <= 1

(* A block whose source symbols all came and that nobody expired has been   *)
(* returned: no step of another block costs it the symbols it held.         *)
CompleteBlocksAreDecoded ==
  \A n \in Sent : 0..sent[n].k-1 \subseteq arrived[n] => n \in Closed

(* A block that was returned or expired stays closed for as long as its     *)
(* datagrams can come: a late one does not start a decoder for it again.    *)
ClosedHoldsNoState ==
  \A n \in Closed : Deliverable(n) => sent[n].id \notin InFlight(dec)

(* lib.rs:1290 says so of expire_block: "The block id remains in the        *)
(* bounded duplicate-suppression window, so a late datagram cannot recreate *)
(* the discarded decoder".                                                  *)
ExpiredIsNotRecreated ==
  \A n \in expired : Deliverable(n) => sent[n].id \notin InFlight(dec)

(* What the decoder remembers is of the newest block it closed or at most   *)
(* COMPLETED_WINDOW blocks older: memory of the past does not grow.         *)
RemembersTheWindow ==
  \A m \in Closed, n \in Sent :
    sent[n].id \in dec.completed \cup InFlight(dec) => n + CompletedWindow >= m

(* The decoder implements block delivery: a block handed over is new and    *)
(* was not expired.                                                         *)
Delivery == INSTANCE BlockDelivery WITH
  offered <- Len(sent), handed <- handed, abandoned <- expired

DeliverySpec == Delivery!Spec

=============================================================================
