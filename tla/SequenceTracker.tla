--------------------------- MODULE SequenceTracker ---------------------------
(***************************************************************************)
(* SequenceTracker of raptorq-datagram-fec: the receiver's account of lost, *)
(* duplicated and reordered packets, kept from the packet sequence numbers  *)
(* alone.  Its `missing' count is the loss estimate that telemetry reports  *)
(* and that the adaptive repair controller follows.                         *)
(*                                                                         *)
(* Operators on a tracker record, as the code is a value with one method.   *)
(* The counters `received' and `duplicate_or_reordered' are left out:       *)
(* no decision of the tracker depends on them.  An operator marked "slip"   *)
(* is no part of the model: it is the mistake that the runs must notice.    *)
(***************************************************************************)
EXTENDS Integers, FiniteSets

CONSTANTS
  SequenceMod,    \* packet sequence numbers are taken modulo SequenceMod (2^32)
  MaxTrackedGap   \* MAX_TRACKED_GAP

ASSUME SequenceAssumption ==
  /\ SequenceMod \in Nat \ {0} /\ SequenceMod % 2 = 0
  /\ MaxTrackedGap \in Nat \ {0}

SeqIds == 0..SequenceMod-1
NoSeq == -1

-----------------------------------------------------------------------------
(* The tracker.                                                             *)

NewTracker == [next |-> NoSeq, missing |-> {}, future |-> {}, highest |-> NoSeq]

(* b.wrapping_sub(a) *)
Ahead(a, b) == (b - a) % SequenceMod

(* The distance fits i32: sequence b is at or after a in serial arithmetic. *)
NotBefore(a, b) == Ahead(a, b) < SequenceMod \div 2

Newest(highest, seq) ==
  IF highest = NoSeq \/ NotBefore(highest, seq) THEN seq ELSE highest

(* How many packets after seq were received ahead of their turn without a   *)
(* hole between them and seq.                                               *)
Run(t, seq) ==
  Cardinality({n \in 1..SequenceMod-1 : \A i \in 1..n : (seq + i) % SequenceMod \in t.future})

Passed(t, seq) == {(seq + i) % SequenceMod : i \in 0..Run(t, seq)}

(* slip: the packets passed stay missing *)
AdvanceLeavesMissing(t, seq) ==
  [t EXCEPT !.next = (seq + Run(t, seq) + 1) % SequenceMod,
            !.missing = @ \ {seq}, !.future = @ \ Passed(t, seq)]

(* The expected packet is in: skip it and the run of packets after it that  *)
(* were received ahead of their turn.                                       *)
AdvanceExpected(t, seq) ==
  [t EXCEPT !.next = (seq + Run(t, seq) + 1) % SequenceMod,
            !.missing = @ \ Passed(t, seq),
            !.future = @ \ (Passed(t, seq) \ {seq})]

(* slip: no MAX_TRACKED_GAP *)
UncappedGap(expected, seq) ==
  {(expected + i) % SequenceMod : i \in 0..Ahead(expected, seq)-1}

(* slip: the expected packet itself is left out *)
GapAfterExpected(expected, seq) ==
  LET diff == Ahead(expected, seq)
  IN {(expected + i) % SequenceMod :
        i \in 1..(IF diff < MaxTrackedGap THEN diff ELSE MaxTrackedGap)-1}

(* Every id from the expected one to the one that came, MaxTrackedGap at    *)
(* most, whether it was received before or not.                             *)
Gap(expected, seq) ==
  LET diff == Ahead(expected, seq)
  IN {(expected + i) % SequenceMod :
        i \in 0..(IF diff < MaxTrackedGap THEN diff ELSE MaxTrackedGap)-1}

(* slip: expect the packet after the newest *)
JumpAhead(t, seq) ==
  [t EXCEPT !.missing = @ \cup Gap(t.next, seq), !.next = (seq + 1) % SequenceMod]

(* A packet ahead of the expected one: note the gap, wait for it.           *)
ReceiveAhead(t, seq) ==
  [t EXCEPT !.missing = @ \cup Gap(t.next, seq), !.future = @ \cup {seq}]

(* SequenceTracker::observe *)
Observe(t, seq) ==
  LET seen == [t EXCEPT !.highest = Newest(@, seq)]
  IN IF t.next = NoSeq THEN [seen EXCEPT !.next = (seq + 1) % SequenceMod]
     ELSE IF seq = t.next THEN AdvanceExpected(seen, seq)
     ELSE IF seq \in t.missing THEN [seen EXCEPT !.missing = @ \ {seq}]
     ELSE IF NotBefore(t.next, seq) THEN ReceiveAhead(seen, seq)
     ELSE seen

=============================================================================
