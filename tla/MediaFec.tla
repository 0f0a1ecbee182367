------------------------------- MODULE MediaFec -------------------------------
(***************************************************************************)
(* MediaFecEncoder, the datagram send plan, and MediaFecDecoder.  A frame    *)
(* (access unit) is cut into fragments, each of them one FEC block with a    *)
(* fragment header; the decoder puts the fragments together again, returns   *)
(* the frame and remembers its key to suppress copies.                       *)
(*                                                                           *)
(* Streams number their frames on their own.  A frame may be encoded again   *)
(* under its key, as a sender does that answers a loss from its history.     *)
(* Both copies have the same metadata, so PartialFrame::insert finds no      *)
(* conflict; the encoder cuts a frame the same way each time, whatever its   *)
(* controller was told of the network (FramesFitTheirBlocks in AdaptiveFlow).*)
(***************************************************************************)
EXTENDS FecDecoder, SequencesExt

CONSTANTS
  Streams,     \* stream ids
  FirstSeq,    \* the first sequence number of each stream
  FrameWindow, \* how many sequence numbers prune_completed keeps (128)
  Fragments,   \* numbers of fragments a frame may have
  K,           \* source symbols of a block
  Repair,      \* repair symbols of a block
  Order,       \* MediaDatagramOrder
  MaxFrames,   \* bound: frames encoded, copies included
  Reorder      \* a datagram is overtaken by at most Reorder later ones

ASSUME MediaAssumption ==
  /\ Streams \subseteq DOMAIN FirstSeq /\ \A s \in Streams : FirstSeq[s] \in Nat
  /\ FrameWindow \in Nat \ {0}
  /\ Fragments \subseteq Nat \ {0} /\ Fragments # {} /\ IsFiniteSet(Fragments)
  /\ K \in Nat \ {0} /\ Repair \in Nat
  /\ Order \in {"Encoded", "SourceFirst"}
  /\ MaxFrames \in Nat /\ Reorder \in Nat
  /\ MaxFrames * Max(Fragments) <= IdMod

VARIABLES
  nextSeq,   \* the next sequence number of each stream
  blocks,    \* the blocks encoded: key and fragment index; block n has id n-1
  counts,    \* the number of fragments of each frame, by key
  wire,      \* the datagrams in the order of the send plan
  newest,    \* the position on the wire of the newest datagram that arrived
  fec,       \* MediaFecDecoder.fec
  partial,   \* MediaFecDecoder.partial: the fragments received, by key
  completed, \* MediaFecDecoder.completed
  arrived,   \* history: the symbols of each block that arrived
  decoded,   \* history: the fragments that were decoded, by key
  returned   \* history: how often a frame was returned, by key

sender == <<nextSeq, blocks, counts, wire>>
receiver == <<newest, fec, partial, completed>>
history == <<arrived, decoded, returned>>
vars == <<sender, receiver, history>>

MaxBlocks == MaxFrames * Max(Fragments)
Keys == DOMAIN counts

(* f with value at key, as HashMap::insert does it *)
Put(f, key, value) == [c \in DOMAIN f \cup {key} |-> IF c = key THEN value ELSE f[c]]

Init ==
  /\ nextSeq = FirstSeq
  /\ blocks = <<>> /\ counts = <<>> /\ wire = <<>>
  /\ newest = 0 /\ fec = NewDecoder /\ partial = <<>> /\ completed = {}
  /\ arrived = [n \in 1..MaxBlocks |-> {}]
  /\ decoded = <<>> /\ returned = <<>>

-----------------------------------------------------------------------------
(* The encoder.                                                             *)

Datagrams(n, esis) == [i \in 1..Cardinality(esis) |-> [block |-> n, esi |-> Min(esis) + i - 1]]

Sources == 0..K-1
RepairIds == K..K+Repair-1

(* A frame's datagrams as encode_frame lists them, block by block. *)
EncodedOrder(ns) == FlattenSeq([i \in DOMAIN ns |-> Datagrams(ns[i], Sources \cup RepairIds)])

(* datagram_send_plan, for the blocks of one frame *)
SendPlan(ns) ==
  IF Order = "Encoded"
  THEN EncodedOrder(ns)
  ELSE FlattenSeq([i \in DOMAIN ns |-> Datagrams(ns[i], Sources)])
       \o FlattenSeq([i \in DOMAIN ns |-> Datagrams(ns[i], RepairIds)])

(* encode_frame: one block for every fragment *)
EncodeFrame(key, count) ==
  LET ns == [i \in 1..count |-> Len(blocks) + i]
  IN /\ Len(blocks) + count <= MaxBlocks
     /\ blocks' = blocks \o [i \in 1..count |-> [key |-> key, index |-> i]]
     /\ wire' = wire \o SendPlan(ns)
     /\ UNCHANGED <<receiver, arrived>>

EncodeNewFrame(s, count) ==
  LET key == <<s, nextSeq[s]>> IN
  /\ EncodeFrame(key, count)
  /\ nextSeq' = [nextSeq EXCEPT ![s] = @ + 1]
  /\ counts' = Put(counts, key, count)
  /\ decoded' = Put(decoded, key, {})
  /\ returned' = Put(returned, key, 0)

Recent(key) == key[2] + FrameWindow >= nextSeq[key[1]] - 1

EncodeAgain(key) ==
  /\ Recent(key)
  /\ EncodeFrame(key, counts[key])
  /\ UNCHANGED <<nextSeq, counts, decoded, returned>>

-----------------------------------------------------------------------------
(* The decoder.                                                             *)

(* slip: the window is one frame too short *)
KeepsNewer(current, key) ==
  key[1] # current[1] \/ current[2] < FrameWindow \/ key[2] > current[2] - FrameWindow

(* slip: the window of one stream prunes the others *)
KeepsOfAnyStream(current, key) ==
  current[2] < FrameWindow \/ key[2] >= current[2] - FrameWindow

(* prune_completed *)
Keeps(current, key) ==
  key[1] # current[1] \/ current[2] < FrameWindow \/ key[2] >= current[2] - FrameWindow

Gathered(key) == IF key \in DOMAIN partial THEN partial[key] ELSE {}

(* PartialFrame::insert, and the frame it completes                         *)
AddFragment(key, index) ==
  LET now == Gathered(key) \cup {index} IN
  IF now = 1..counts[key]
  THEN /\ partial' = Restrict(partial, DOMAIN partial \ {key})
       /\ completed' = {c \in completed \cup {key} : Keeps(key, c)}
       /\ returned' = [returned EXCEPT ![key] = @ + 1]
  ELSE /\ partial' = Put(partial, key, now)
       /\ UNCHANGED <<completed, returned>>

(* What push_datagram does with a fragment whose block has been decoded.    *)
TakeFragment(key, index) ==
  IF key \in completed THEN UNCHANGED <<partial, completed, returned>>
  ELSE AddFragment(key, index)

(* push_datagram, of the symbol esi of block n                              *)
PushSymbol(n, esi) ==
  LET b == blocks[n]
  IN /\ arrived' = [arrived EXCEPT ![n] = @ \cup {esi}]
     /\ \E o \in PushDatagram(fec, [id |-> n - 1, k |-> K, esi |-> esi]) :
          /\ fec' = o.d
          /\ IF o.out = "decoded"
             THEN /\ decoded' = [decoded EXCEPT ![b.key] = @ \cup {b.index}]
                  /\ TakeFragment(b.key, b.index)
             ELSE UNCHANGED <<partial, completed, decoded, returned>>

(* A datagram arrives, overtaken by few others and while its frame is       *)
(* recent.                                                                  *)
PushArrival(i) ==
  /\ newest - i <= Reorder /\ Recent(blocks[wire[i].block].key)
  /\ newest' = IF i > newest THEN i ELSE newest
  /\ PushSymbol(wire[i].block, wire[i].esi)
  /\ UNCHANGED sender

Next ==
  \/ \E s \in Streams, count \in Fragments : EncodeNewFrame(s, count)
  \/ \E key \in Keys : EncodeAgain(key)
  \/ \E i \in 1..Len(wire) : PushArrival(i)

Spec == Init /\ [][Next]_vars

-----------------------------------------------------------------------------
(* Properties.                                                              *)

(* A frame is returned once when each of its fragments has been decoded,    *)
(* from whichever copy, and a copy that comes later returns nothing.        *)
FramesAreReturnedOnce ==
  \A key \in Keys : returned[key] = IF decoded[key] = 1..counts[key] THEN 1 ELSE 0

(* What a partial frame holds is what was decoded of it, and a frame that   *)
(* was returned leaves nothing behind: a late copy opens no partial frame   *)
(* that could never complete and, as partial frames are not pruned, would   *)
(* stay for good.                                                           *)
PartialsCanComplete ==
  /\ \A key \in DOMAIN partial : partial[key] = decoded[key]
  /\ \A key \in Keys : returned[key] > 0 => key \notin DOMAIN partial

(* README.md:161: "If loss stays within the repair budget, decode          *)
(* completes as soon as enough source or repair symbols arrive".  So a      *)
(* block that waits for its repair symbols keeps the symbols that came.     *)
RecoveryBudgetIsKept ==
  \A i \in 1..Len(wire) :
    LET n == wire[i].block IN
    i > newest /\ n - 1 \notin fec.completed => arrived[n] \subseteq Held(fec, n - 1)

=============================================================================
