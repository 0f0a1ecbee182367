----------------------------- MODULE TrackedFlow -----------------------------
(***************************************************************************)
(* One flow of packets into one SequenceTracker, over a network that loses, *)
(* duplicates and reorders packets within a span of Reorder.                *)
(***************************************************************************)
EXTENDS SequenceTracker

CONSTANTS
  Bases,      \* sequence numbers the flow may start at
  LastPacket, \* bound: packets 0..LastPacket of the flow are modelled
  Reorder     \* the network delays a packet past at most Reorder later ones

ASSUME FlowAssumption ==
  /\ Bases \subseteq SeqIds
  /\ LastPacket \in Nat /\ 2 * (LastPacket + 1) < SequenceMod
  /\ Reorder \in Nat

VARIABLES
  tracker,  \* the SequenceTracker
  base,     \* the sequence number of position 0
  origin,   \* the position that arrived first
  got,      \* the positions that have arrived
  late      \* history: the positions that a later packet showed to be late,
            \* close enough to be tracked, and that have not arrived since

vars == <<tracker, base, origin, got, late>>

Init ==
  /\ tracker = NewTracker
  /\ base \in Bases
  /\ origin \in 0..LastPacket
  /\ got = {}
  /\ late = {}

SeqAt(p) == (base + p) % SequenceMod
Position(seq) == Ahead(base, seq)
Newer(p) == {q \in got : q > p}

Started == tracker.next # NoSeq
Expected == Position(tracker.next)

(* The packets that p overtakes, within MaxTrackedGap of the expected one.  *)
Overtaken(p) ==
  IF Started THEN {n \in 0..p-1 : Expected <= n /\ n < Expected + MaxTrackedGap} ELSE {}

(* A packet arrives, for the first time or again.                           *)
Receive(p) ==
  /\ got = {} => p = origin
  /\ \A q \in Newer(p) : q - p <= Reorder
  /\ tracker' = Observe(tracker, SeqAt(p))
  /\ got' = got \cup {p}
  /\ late' = (late \cup Overtaken(p)) \ got'
  /\ UNCHANGED <<base, origin>>

Next == \E p \in 0..LastPacket : Receive(p)

Spec == Init /\ [][Next]_vars

-----------------------------------------------------------------------------
(* Properties.                                                              *)

Top == CHOOSE p \in got : Newer(p) = {}

(* next_expected never passes a packet that has not come: between the first *)
(* packet of the flow and the expected one there is no loss, so a late      *)
(* packet before it is always a duplicate or older than the flow.           *)
ExpectedPassesNoLoss ==
  Started => \A p \in origin..Expected-1 : p \in got

(* No loss is overlooked and none is forgotten: a packet that was overtaken  *)
(* when it was within MAX_TRACKED_GAP of the expected one is counted as      *)
(* missing until it comes, whatever else comes before it, wherever the flow  *)
(* has got to, and also if the packet that overtook it was itself missing,   *)
(* in which case observe() notes no gap.  (A packet further ahead counts     *)
(* only when the next packet after it comes in time.)                        *)
LossesAreTracked == \A n \in late : SeqAt(n) \in tracker.missing

(* observe() keeps nothing about packets it has passed: what is missing or  *)
(* received early lies at or after the expected packet and not beyond the   *)
(* newest, and only a packet that came is remembered as received early.     *)
(* MAX_TRACKED_GAP bounds the loss count for the life of the flow, however  *)
(* many packets are lost for good, not only what one packet adds to it.     *)
(* highest_seen is the newest packet in whatever order they come, across    *)
(* the wrap of the sequence number.                                         *)
TrackingStaysAhead ==
  /\ \A seq \in tracker.missing \cup tracker.future :
       Expected <= Position(seq) /\ Position(seq) <= Top
  /\ \A seq \in tracker.future : Position(seq) \in got /\ seq # tracker.next
  /\ Cardinality(tracker.missing) <= MaxTrackedGap
  /\ Started => tracker.highest = SeqAt(Top)

(* sequence.rs:125 and :129: after 10, 13, 12 one packet is missing, after  *)
(* 11 none: a packet that was received is not counted as missing.           *)
MissingIsUnreceived ==
  \A seq \in tracker.missing : Position(seq) \notin got

=============================================================================
