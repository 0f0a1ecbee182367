-------------------------- MODULE AdaptiveFlowProofs --------------------------
(***************************************************************************)
(* Proofs about TrackedFlow and AdaptiveFlow, for every value of their       *)
(* constants.  First the flow into the tracker, then the feedback loop.     *)
(***************************************************************************)
EXTENDS AdaptiveFlow, Facts

-----------------------------------------------------------------------------
(* Serial arithmetic on the positions of the flow.                          *)

(* A wrapping sum or difference of two numbers below SequenceMod.                *)
LEMMA ModByAddition ==
  ASSUME NEW x \in Int, x \in 0-SequenceMod..2*SequenceMod-1
  PROVE  x % SequenceMod = IF x < 0 THEN x + SequenceMod ELSE IF x < SequenceMod THEN x ELSE x - SequenceMod
<1>1. SequenceMod \in Nat \ {0}
  BY SequenceAssumption
<1>2. CASE x < 0
  BY <1>1, <1>2
<1>3. CASE x \in 0..SequenceMod-1
  BY <1>1, <1>3
<1>4. CASE x >= SequenceMod
  BY <1>1, <1>4
<1> QED
  BY <1>1, <1>2, <1>3, <1>4

(* Positions and sequence numbers name the same packets.                    *)
LEMMA PositionsAreSeqIds ==
  ASSUME base \in SeqIds
  PROVE  /\ \A p \in 0..LastPacket+2 : SeqAt(p) \in SeqIds /\ Position(SeqAt(p)) = p
         /\ \A seq \in SeqIds : Position(seq) \in 0..SequenceMod-1 /\ SeqAt(Position(seq)) = seq
<1>1. SequenceMod \in Nat \ {0} /\ LastPacket \in Nat /\ LastPacket + 2 < SequenceMod /\ base \in 0..SequenceMod-1
  BY SequenceAssumption, FlowAssumption DEF SeqIds
<1>2. ASSUME NEW p \in 0..LastPacket+2
      PROVE  SeqAt(p) \in SeqIds /\ Position(SeqAt(p)) = p
  <2>1. (base + p) % SequenceMod = IF base + p < SequenceMod THEN base + p ELSE base + p - SequenceMod
    BY <1>1, ModByAddition
  <2>2. SeqAt(p) \in 0..SequenceMod-1 /\ SeqAt(p) - base \in {p, p - SequenceMod}
    BY <1>1, <2>1 DEF SeqAt
  <2>3. (SeqAt(p) - base) % SequenceMod = p
    BY <1>1, <2>2, ModByAddition
  <2> QED
    BY <2>2, <2>3 DEF Position, Ahead, SeqIds
<1>3. ASSUME NEW seq \in SeqIds
      PROVE  Position(seq) \in 0..SequenceMod-1 /\ SeqAt(Position(seq)) = seq
  <2>1. seq \in 0..SequenceMod-1
    BY DEF SeqIds
  <2>2. (seq - base) % SequenceMod = IF seq < base THEN seq - base + SequenceMod ELSE seq - base
    BY <1>1, <2>1, ModByAddition
  <2>3. Position(seq) \in 0..SequenceMod-1 /\ base + Position(seq) \in {seq, seq + SequenceMod}
    BY <1>1, <2>1, <2>2 DEF Position, Ahead
  <2>4. (base + Position(seq)) % SequenceMod = seq
    BY <1>1, <2>1, <2>3, ModByAddition
  <2> QED
    BY <2>3, <2>4 DEF SeqAt
<1> QED
  BY <1>2, <1>3

(* The distance from one packet to another, and which of them is newer.     *)
LEMMA AheadOfPositions ==
  ASSUME base \in SeqIds, NEW p \in 0..LastPacket+1, NEW q \in 0..LastPacket+1
  PROVE  /\ p <= q => Ahead(SeqAt(p), SeqAt(q)) = q - p
         /\ NotBefore(SeqAt(p), SeqAt(q)) <=> p <= q
<1>1. /\ SequenceMod \in Nat \ {0} /\ LastPacket \in Nat /\ 2 * (LastPacket + 1) < SequenceMod
      /\ base \in 0..SequenceMod-1
  BY SequenceAssumption, FlowAssumption DEF SeqIds
<1>2. SequenceMod \div 2 \in Nat /\ 2 * (SequenceMod \div 2) = SequenceMod
  BY SequenceAssumption
<1>3. /\ SeqAt(p) = IF base + p < SequenceMod THEN base + p ELSE base + p - SequenceMod
      /\ SeqAt(q) = IF base + q < SequenceMod THEN base + q ELSE base + q - SequenceMod
  BY <1>1, ModByAddition DEF SeqAt
<1>4. /\ SeqAt(p) \in 0..SequenceMod-1 /\ SeqAt(q) \in 0..SequenceMod-1
      /\ SeqAt(q) - SeqAt(p) \in {q - p, q - p + SequenceMod, q - p - SequenceMod}
  BY <1>1, <1>3
<1>5. Ahead(SeqAt(p), SeqAt(q)) = IF p <= q THEN q - p ELSE q - p + SequenceMod
  <2>1. (SeqAt(q) - SeqAt(p)) % SequenceMod = IF p <= q THEN q - p ELSE q - p + SequenceMod
    BY <1>1, <1>4, ModByAddition
  <2> QED
    BY <2>1 DEF Ahead
<1> QED
  BY <1>1, <1>2, <1>5 DEF NotBefore

(* Counting on from a packet.                                               *)
LEMMA StepFromPosition ==
  ASSUME base \in SeqIds, NEW p \in 0..LastPacket+1, NEW i \in Nat, p + i <= LastPacket + 2
  PROVE  (SeqAt(p) + i) % SequenceMod = SeqAt(p + i)
<1>1. SequenceMod \in Nat \ {0} /\ LastPacket \in Nat /\ 2 * (LastPacket + 1) < SequenceMod /\ base \in 0..SequenceMod-1
  BY SequenceAssumption, FlowAssumption DEF SeqIds
<1>2. /\ SeqAt(p) = IF base + p < SequenceMod THEN base + p ELSE base + p - SequenceMod
      /\ SeqAt(p + i) = IF base + p + i < SequenceMod THEN base + p + i ELSE base + p + i - SequenceMod
  BY <1>1, ModByAddition DEF SeqAt
<1>3. SeqAt(p) + i \in 0..2*SequenceMod-1
  BY <1>1, <1>2
<1> QED
  BY <1>1, <1>2, <1>3, ModByAddition

-----------------------------------------------------------------------------
(* What observe() keeps true of a tracker t when the packets g have come.   *)

TrackerType == [next : SeqIds, missing : SUBSET SeqIds, future : SUBSET SeqIds, highest : SeqIds]

(* Packet q has come or is missed.                                          *)
Counts(t, g, q) == q \in g \/ SeqAt(q) \in t.missing

Tracking(t, g) ==
  LET expected == Position(t.next)
      newest == Position(t.highest)
  IN /\ t \in TrackerType
     /\ newest \in g /\ \A p \in g : p <= newest
     /\ origin < expected /\ expected <= newest + 1
     /\ \A p \in origin..expected-1 : p \in g
     /\ \A seq \in t.missing : /\ expected <= Position(seq) /\ Position(seq) <= newest
                               /\ Position(seq) < expected + MaxTrackedGap
     /\ \A seq \in t.future : expected < Position(seq) /\ Position(seq) \in g
     /\ \A seq \in t.missing : \A q \in expected..Position(seq) : Counts(t, g, q)

(* A packet p, added to those that came when the tracker was t, leaves it   *)
(* at s: it forgets no loss and counts those that p overtook.               *)
KeepsCount(t, s, g, p) ==
  \A q \in 0..LastPacket :
    (Counts(t, g, q)
      \/ (Position(t.next) <= q /\ q < p /\ q < Position(t.next) + MaxTrackedGap))
    => Counts(s, g \cup {p}, q)

IInv ==
  /\ base \in SeqIds /\ origin \in 0..LastPacket /\ got \subseteq 0..LastPacket
  /\ late \subseteq 0..LastPacket /\ \A q \in late : q \notin got /\ Counts(tracker, got, q)
  /\ IF got = {} THEN tracker = NewTracker ELSE Tracking(tracker, got)

(* The first packet of a flow starts the account.                           *)
LEMMA FirstPacket ==
  ASSUME IInv
  PROVE  Tracking(Observe(NewTracker, SeqAt(origin)), {origin})
<1> DEFINE t == Observe(NewTracker, SeqAt(origin))
<1>1. origin \in 0..LastPacket /\ LastPacket \in Nat /\ MaxTrackedGap \in Nat \ {0} /\ base \in SeqIds
  BY SequenceAssumption, FlowAssumption DEF IInv
<1>2. (SeqAt(origin) + 1) % SequenceMod = SeqAt(origin + 1)
  BY <1>1, StepFromPosition
<1>3. /\ SeqAt(origin) \in SeqIds /\ Position(SeqAt(origin)) = origin
      /\ SeqAt(origin + 1) \in SeqIds /\ Position(SeqAt(origin + 1)) = origin + 1
  BY <1>1, PositionsAreSeqIds
<1>4. t = [next |-> SeqAt(origin + 1), missing |-> {}, future |-> {}, highest |-> SeqAt(origin)]
  BY <1>2 DEF Observe, NewTracker, Newest
<1> HIDE DEF t
<1>5. t \in TrackerType
  BY <1>3, <1>4 DEF TrackerType
<1>6. /\ Position(t.next) = origin + 1 /\ Position(t.highest) = origin
      /\ t.missing = {} /\ t.future = {}
  BY <1>3, <1>4
<1>7. Tracking(t, {origin})
  BY <1>1, <1>5, <1>6 DEF Tracking
<1> QED
  BY <1>7 DEF t

(* A packet p of a flow that has started: highest_seen.                     *)
LEMMA NewestIsHighest ==
  ASSUME base \in SeqIds, origin \in 0..LastPacket, NEW g \in SUBSET (0..LastPacket), NEW t, Tracking(t, g), NEW p \in 0..LastPacket
  PROVE  LET h == Newest(t.highest, SeqAt(p))
         IN /\ h \in SeqIds
            /\ Position(h) = IF p > Position(t.highest) THEN p ELSE Position(t.highest)
<1> DEFINE newest == Position(t.highest)
<1>1. LastPacket \in Nat /\ newest \in 0..LastPacket /\ t.highest \in SeqIds /\ SeqAt(newest) = t.highest
  BY FlowAssumption, PositionsAreSeqIds DEF Tracking, TrackerType
<1>2. SeqAt(p) \in SeqIds /\ Position(SeqAt(p)) = p
  BY <1>1, PositionsAreSeqIds
<1>3. t.highest # NoSeq
  BY <1>1, SequenceAssumption DEF NoSeq, SeqIds
<1>4. NotBefore(t.highest, SeqAt(p)) <=> newest <= p
  <2> HIDE DEF newest
  <2>1. NotBefore(SeqAt(newest), SeqAt(p)) <=> newest <= p
    BY <1>1, AheadOfPositions
  <2> QED
    BY <1>1, <2>1
<1>5. newest \in Int /\ p \in Int
  BY <1>1
<1> QED
  BY <1>1, <1>2, <1>3, <1>4, <1>5 DEF Newest

(* The run of early packets after the expected one.                         *)
LEMMA RunAfterExpected ==
  ASSUME base \in SeqIds, origin \in 0..LastPacket, NEW g \in SUBSET (0..LastPacket), NEW t, Tracking(t, g)
  PROVE  LET e == Position(t.next)
             r == Run(t, t.next)
         IN /\ r \in Nat /\ e + r <= LastPacket + 1
            /\ e + r <= Position(t.highest) \/ r = 0
            /\ \A i \in 1..r : SeqAt(e + i) \in t.future
            /\ SeqAt(e + r + 1) \notin t.future \/ e + r + 1 > LastPacket
<1> DEFINE e == Position(t.next)
           r == Run(t, t.next)
           R == {n \in 1..SequenceMod-1 : \A i \in 1..n : (t.next + i) % SequenceMod \in t.future}
           newest == Position(t.highest)
<1>1. /\ SequenceMod \in Nat \ {0} /\ LastPacket \in Nat /\ 2 * (LastPacket + 1) < SequenceMod
      /\ newest \in 0..LastPacket /\ e \in 1..newest+1
      /\ SeqAt(e) = t.next
  BY SequenceAssumption, FlowAssumption, PositionsAreSeqIds DEF Tracking, TrackerType
<1>2. R \subseteq 1..SequenceMod-1 /\ \A n \in R : 1..n \subseteq R
  BY <1>1
<1>3. r \in 0..SequenceMod-1 /\ R = 1..r
  <2> HIDE DEF R
  <2>1. Cardinality(R) \in 0..SequenceMod-1 /\ R = 1..Cardinality(R)
    <3>1. SequenceMod - 1 \in Nat
      BY <1>1
    <3>2. R \in SUBSET (1..SequenceMod-1) /\ \A n \in R : 1..n \subseteq R
      BY <1>2
    <3> QED
      BY <3>1, <3>2, ClosedIsInterval, Zenon
  <2>2. r = Cardinality(R)
    BY DEF Run, R
  <2> QED
    BY <2>1, <2>2
<1> HIDE DEF r, e, newest
<1>4. \A i \in Nat : e + i <= LastPacket + 2 => (t.next + i) % SequenceMod = SeqAt(e + i)
  BY <1>1, StepFromPosition
<1>5. \A i \in 1..r : (t.next + i) % SequenceMod \in t.future
  BY <1>3
<1>6. \A i \in Nat : e + i <= LastPacket + 2 /\ SeqAt(e + i) \in t.future => e + i <= newest
  <2>1. \A seq \in t.future : Position(seq) <= newest
    BY DEF Tracking, newest
  <2> QED
    BY <1>1, <2>1, PositionsAreSeqIds
<1>7. r = 0 \/ e + r <= newest
  <2>1. SUFFICES ASSUME r # 0, e + r > newest PROVE FALSE
    BY <1>1, <1>3
  <2> DEFINE i == newest - e + 1
  <2>2. CASE i = 0
    <3>1. (t.next + 1) % SequenceMod = SeqAt(e + 1)
      BY <1>1, <1>4
    <3>2. e = newest + 1
      BY <1>1, <2>2
    <3>3. 1 \in 1..r /\ e + 1 <= LastPacket + 2
      BY <1>1, <1>3, <2>1, <3>2
    <3>4. e + 1 <= newest
      BY <1>5, <1>6, <3>1, <3>3
    <3> QED
      BY <1>1, <3>2, <3>4
  <2>3. CASE i # 0
    <3>1. i \in 1..r /\ e + i = newest + 1 /\ e + i <= LastPacket + 1
      BY <1>1, <1>3, <2>1, <2>3
    <3> HIDE DEF i
    <3>2. SeqAt(e + i) \in t.future
      BY <1>1, <1>4, <1>5, <3>1
    <3>3. i \in Nat /\ e + i <= LastPacket + 2
      BY <1>1, <3>1
    <3>4. e + i <= newest
      BY <1>6, <3>2, <3>3
    <3> QED
      BY <1>1, <3>1, <3>4
  <2> QED
    BY <2>2, <2>3
<1>8. SeqAt(e + r + 1) \notin t.future \/ e + r + 1 > LastPacket
  <2> SUFFICES ASSUME SeqAt(e + r + 1) \in t.future, e + r + 1 <= LastPacket PROVE FALSE
    BY <1>1, <1>3
  <2>1. r + 1 \in 1..SequenceMod-1 /\ e + (r + 1) <= LastPacket + 1 /\ e + (r + 1) = e + r + 1
    BY <1>1, <1>3
  <2>2. (t.next + (r + 1)) % SequenceMod \in t.future
    BY <1>1, <1>3, <1>4, <2>1
  <2>3. \A i \in 1..r+1 : (t.next + i) % SequenceMod \in t.future
    BY <1>1, <1>3, <1>5, <2>2
  <2>4. r + 1 \in R
    BY <2>1, <2>3
  <2> QED
    BY <1>3, <2>4
<1>9. /\ r \in Nat /\ e + r <= LastPacket + 1
      /\ \A i \in 1..r : SeqAt(e + i) \in t.future
  <2>1. r \in Nat /\ e + r <= LastPacket + 1
    BY <1>1, <1>3, <1>7
  <2>2. \A i \in 1..r : e + i <= LastPacket + 1 /\ i \in Nat
    BY <1>1, <2>1
  <2> QED
    BY <1>1, <1>4, <1>5, <2>1, <2>2
<1> QED
  BY <1>7, <1>8, <1>9 DEF r, e, newest

(* Where the expected packet was, after it came: the run is passed.         *)
LEMMA ExpectedArrives ==
  ASSUME base \in SeqIds, origin \in 0..LastPacket, NEW g \in SUBSET (0..LastPacket), NEW t, Tracking(t, g),
         NEW p \in 0..LastPacket, p = Position(t.next)
  PROVE  Tracking(Observe(t, SeqAt(p)), g \cup {p}) /\ KeepsCount(t, Observe(t, SeqAt(p)), g, p)
<1> DEFINE newest == Position(t.highest)
           h == Newest(t.highest, SeqAt(p))
           r == Run(t, t.next)
           s == Observe(t, SeqAt(p))
<1>1. /\ LastPacket \in Nat /\ MaxTrackedGap \in Nat /\ SequenceMod \in Nat \ {0}
      /\ t \in TrackerType /\ SeqAt(p) = t.next /\ t.next # NoSeq
      /\ newest \in 0..LastPacket /\ newest \in g /\ \A q \in g : q <= newest
      /\ origin < p /\ p <= newest + 1
  BY SequenceAssumption, FlowAssumption, PositionsAreSeqIds DEF Tracking, TrackerType, NoSeq, SeqIds
<1>2. h \in SeqIds /\ Position(h) = IF p > newest THEN p ELSE newest
  BY NewestIsHighest
<1>3. /\ r \in Nat /\ p + r <= LastPacket + 1 /\ (p + r <= newest \/ r = 0)
      /\ \A i \in 1..r : SeqAt(p + i) \in t.future
      /\ SeqAt(p + r + 1) \notin t.future \/ p + r + 1 > LastPacket
  BY RunAfterExpected
<1>4. \A i \in 0..r : (SeqAt(p) + i) % SequenceMod = SeqAt(p + i)
  BY <1>1, <1>3, StepFromPosition
<1>5. (SeqAt(p) + r + 1) % SequenceMod = SeqAt(p + r + 1)
  <2> HIDE DEF r
  <2>1. (SeqAt(p) + (r + 1)) % SequenceMod = SeqAt(p + (r + 1))
    BY <1>1, <1>3, StepFromPosition
  <2>2. SeqAt(p) \in Int
    BY <1>1 DEF TrackerType, SeqIds
  <2> QED
    BY <1>1, <1>3, <2>1, <2>2
<1> DEFINE passed == {SeqAt(p + i) : i \in 0..r}
<1>6. s = [next |-> SeqAt(p + r + 1), missing |-> t.missing \ passed,
           future |-> t.future \ (passed \ {SeqAt(p)}), highest |-> h]
  <2> DEFINE seen == [t EXCEPT !.highest = h]
  <2>1. seen \in TrackerType /\ seen.next = t.next /\ seen.missing = t.missing /\ seen.future = t.future
        /\ seen.highest = h
    BY <1>1, <1>2 DEF TrackerType
  <2>2. s = AdvanceExpected(seen, SeqAt(p))
    BY <1>1 DEF Observe
  <2>3. Run(seen, SeqAt(p)) = r
    BY <1>1, <2>1 DEF Run
  <2> HIDE DEF r, seen
  <2>4. Passed(seen, SeqAt(p)) = passed
    BY <1>4, <2>3 DEF Passed
  <2> HIDE DEF passed, s, h
  <2> QED
    BY <1>5, <2>1, <2>2, <2>3, <2>4 DEF AdvanceExpected, TrackerType
<1> HIDE DEF s, h, r, newest
<1> DEFINE e == p + r + 1
<1>7. e \in 0..LastPacket+2 /\ SeqAt(e) \in SeqIds /\ Position(s.next) = e
  BY <1>1, <1>3, <1>6, PositionsAreSeqIds
<1>8. s \in TrackerType
  BY <1>1, <1>2, <1>6, <1>7 DEF TrackerType
<1>9. \A seq \in SeqIds : seq \in passed <=> Position(seq) \in p..p+r
  <2>1. ASSUME NEW i \in 0..r PROVE Position(SeqAt(p + i)) = p + i
    BY <1>1, <1>3, PositionsAreSeqIds
  <2>2. ASSUME NEW seq \in SeqIds, Position(seq) \in p..p+r PROVE seq \in passed
    <3>1. Position(seq) - p \in 0..r /\ p + (Position(seq) - p) = Position(seq)
      BY <1>1, <1>3, <2>2, PositionsAreSeqIds
    <3>2. SeqAt(p + (Position(seq) - p)) = seq
      BY <2>2, <3>1, PositionsAreSeqIds
    <3> QED
      BY <3>1, <3>2
  <2> QED
    BY <1>1, <1>3, <2>1, <2>2
<1> HIDE DEF passed
<1>10. \A i \in 1..r : p + i \in g
  <2>1. ASSUME NEW i \in 1..r PROVE Position(SeqAt(p + i)) = p + i
    BY <1>1, <1>3, PositionsAreSeqIds
  <2> QED
    BY <1>3, <2>1 DEF Tracking
<1>11. \A q \in origin..e-1 : q \in g \cup {p}
  <2>1. \A q \in origin..p-1 : q \in g
    BY DEF Tracking
  <2>2. ASSUME NEW q \in p+1..p+r PROVE q \in g
    <3>1. q - p \in 1..r /\ p + (q - p) = q
      BY <1>1, <1>3
    <3> QED
      BY <1>10, <3>1
  <2> QED
    BY <1>1, <1>3, <2>1, <2>2
<1>12. ASSUME NEW seq \in s.missing
       PROVE  e <= Position(seq) /\ Position(seq) <= newest /\ Position(seq) < e + MaxTrackedGap
  <2>1. /\ seq \in t.missing /\ seq \notin passed /\ seq \in SeqIds
        /\ p <= Position(seq) /\ Position(seq) <= newest /\ Position(seq) < p + MaxTrackedGap
    BY <1>1, <1>6, <1>12 DEF Tracking, TrackerType, newest
  <2>2. Position(seq) \in Int
    BY <2>1, PositionsAreSeqIds
  <2> QED
    BY <1>1, <1>3, <1>9, <2>1, <2>2
<1>13. ASSUME NEW seq \in s.future
       PROVE  e < Position(seq) /\ Position(seq) \in g
  <2>1. /\ seq \in t.future /\ (seq \notin passed \/ seq = SeqAt(p)) /\ seq \in SeqIds
        /\ p < Position(seq) /\ Position(seq) \in g
    BY <1>1, <1>6, <1>13 DEF Tracking, TrackerType
  <2>2. Position(seq) \in 0..LastPacket /\ Position(SeqAt(p)) = p /\ SeqAt(Position(seq)) = seq
    BY <1>1, <2>1, PositionsAreSeqIds
  <2>3. seq \notin passed
    BY <1>1, <2>1, <2>2
  <2>4. Position(seq) # e
    <3> SUFFICES ASSUME Position(seq) = e PROVE FALSE
      OBVIOUS
    <3>1. SeqAt(e) = seq /\ e \in 0..LastPacket
      BY <2>2
    <3> HIDE DEF e
    <3>2. SeqAt(e) \notin t.future \/ ~(e \in 0..LastPacket)
      BY <1>1, <1>3 DEF e
    <3> QED
      BY <2>1, <3>1, <3>2
  <2> QED
    BY <1>1, <1>3, <1>9, <2>1, <2>2, <2>3, <2>4
<1>14. KeepsCount(t, s, g, p)
  <2> SUFFICES ASSUME NEW q \in 0..LastPacket, Counts(t, g, q) PROVE Counts(s, g \cup {p}, q)
    BY <1>1 DEF KeepsCount
  <2>1. CASE q \in g
    BY <2>1 DEF Counts
  <2>2. CASE SeqAt(q) \in t.missing
    <3>1. SeqAt(q) \in SeqIds /\ Position(SeqAt(q)) = q
      BY <1>1, PositionsAreSeqIds
    <3>2. CASE SeqAt(q) \in passed
      <4>1. q = p \/ (q - p \in 1..r /\ p + (q - p) = q)
        BY <1>1, <1>3, <1>9, <3>1, <3>2
      <4> QED
        BY <1>10, <4>1 DEF Counts
    <3>3. CASE SeqAt(q) \notin passed
      BY <1>6, <2>2, <3>3 DEF Counts
    <3> QED
      BY <3>2, <3>3
  <2> QED
    BY <2>1, <2>2 DEF Counts
<1>17. ASSUME NEW seq \in s.missing, NEW q \in e..Position(seq)
       PROVE  Counts(s, g \cup {p}, q)
  <2>1. seq \in t.missing /\ q \in p..Position(seq) /\ q \in 0..LastPacket
    <3>1. Position(seq) \in Int
      BY <1>8, PositionsAreSeqIds DEF TrackerType
    <3> QED
      BY <1>1, <1>3, <1>6, <1>12, <3>1
  <2>2. Counts(t, g, q)
    BY <2>1 DEF Tracking
  <2> QED
    BY <1>14, <2>1, <2>2 DEF KeepsCount
<1>15. /\ Position(s.highest) \in g \cup {p} /\ \A q \in g \cup {p} : q <= Position(s.highest)
       /\ newest <= Position(s.highest) /\ e <= Position(s.highest) + 1
  BY <1>1, <1>2, <1>3, <1>6
<1> HIDE DEF e
<1>16. Tracking(s, g \cup {p})
  <2>1. origin < e
    BY <1>1, <1>3 DEF e
  <2>2. \A seq \in s.missing : Position(seq) <= Position(s.highest)
    <3>1. \A seq \in s.missing : Position(seq) \in Int
      BY <1>8, PositionsAreSeqIds DEF TrackerType
    <3>2. Position(s.highest) \in Int
      BY <1>8, PositionsAreSeqIds DEF TrackerType
    <3> QED
      BY <1>1, <1>12, <1>15, <3>1, <3>2
  <2> QED
    BY <1>7, <1>8, <1>11, <1>12, <1>13, <1>15, <1>17, <2>1, <2>2 DEF Tracking
<1> QED
  BY <1>14, <1>16 DEF s

(* A packet ahead of the expected one that is not counted as missing.       *)
LEMMA AheadArrives ==
  ASSUME base \in SeqIds, origin \in 0..LastPacket, NEW g \in SUBSET (0..LastPacket), NEW t, Tracking(t, g),
         NEW p \in 0..LastPacket, Position(t.next) < p, SeqAt(p) \notin t.missing
  PROVE  Tracking(Observe(t, SeqAt(p)), g \cup {p}) /\ KeepsCount(t, Observe(t, SeqAt(p)), g, p)
<1> DEFINE e == Position(t.next)
           newest == Position(t.highest)
           h == Newest(t.highest, SeqAt(p))
           gap == Gap(t.next, SeqAt(p))
           s == Observe(t, SeqAt(p))
<1>1. /\ LastPacket \in Nat /\ MaxTrackedGap \in Nat
      /\ t \in TrackerType /\ SeqAt(e) = t.next /\ t.next # NoSeq
      /\ newest \in 0..LastPacket /\ newest \in g /\ \A q \in g : q <= newest
      /\ e \in 0..LastPacket+1 /\ origin < e /\ e <= newest + 1 /\ e < p
  BY SequenceAssumption, FlowAssumption, PositionsAreSeqIds DEF Tracking, TrackerType, NoSeq, SeqIds
<1>2. h \in SeqIds /\ Position(h) = IF p > newest THEN p ELSE newest
  BY NewestIsHighest
<1>3. SeqAt(p) \in SeqIds /\ Position(SeqAt(p)) = p /\ SeqAt(p) # t.next
  BY <1>1, PositionsAreSeqIds
<1> HIDE DEF e, newest
<1>4. Ahead(t.next, SeqAt(p)) = p - e /\ NotBefore(t.next, SeqAt(p))
  BY <1>1, AheadOfPositions
<1>5. \A seq \in SeqIds :
        seq \in gap <=> e <= Position(seq) /\ Position(seq) < p /\ Position(seq) < e + MaxTrackedGap
  <2> DEFINE n == IF p - e < MaxTrackedGap THEN p - e ELSE MaxTrackedGap
  <2>1. gap = {(t.next + i) % SequenceMod : i \in 0..n-1}
    BY <1>4 DEF Gap
  <2>2. n \in Nat /\ e + n <= p /\ n <= MaxTrackedGap /\ (n = p - e \/ n = MaxTrackedGap)
    BY <1>1
  <2> HIDE DEF n
  <2>3. ASSUME NEW i \in 0..n-1
        PROVE  /\ (t.next + i) % SequenceMod = SeqAt(e + i)
               /\ SeqAt(e + i) \in SeqIds /\ Position(SeqAt(e + i)) = e + i
    <3>1. i \in Nat /\ e + i \in 0..LastPacket
      BY <1>1, <2>2
    <3> QED
      BY <1>1, <3>1, StepFromPosition, PositionsAreSeqIds
  <2>4. ASSUME NEW seq \in SeqIds, e <= Position(seq), Position(seq) < p, Position(seq) < e + MaxTrackedGap
        PROVE  seq \in gap
    <3>1. Position(seq) - e \in 0..n-1 /\ e + (Position(seq) - e) = Position(seq)
      BY <1>1, <2>2, <2>4, PositionsAreSeqIds
    <3>2. SeqAt(e + (Position(seq) - e)) = seq
      BY <3>1, PositionsAreSeqIds
    <3> QED
      BY <2>1, <2>3, <3>1, <3>2
  <2>5. ASSUME NEW seq \in gap
        PROVE  e <= Position(seq) /\ Position(seq) < p /\ Position(seq) < e + MaxTrackedGap
    <3>1. PICK i \in 0..n-1 : seq = (t.next + i) % SequenceMod
      BY <2>1, <2>5
    <3> QED
      BY <1>1, <2>2, <2>3, <3>1
  <2> QED
    BY <2>4, <2>5
<1>6. s = [next |-> t.next, missing |-> t.missing \cup gap, future |-> t.future \cup {SeqAt(p)},
           highest |-> h]
  <2> DEFINE seen == [t EXCEPT !.highest = h]
  <2>1. seen = [next |-> t.next, missing |-> t.missing, future |-> t.future, highest |-> h]
    BY <1>1 DEF TrackerType
  <2>2. s = ReceiveAhead(seen, SeqAt(p))
    BY <1>1, <1>3, <1>4 DEF Observe
  <2> HIDE DEF seen, s, h, gap
  <2>3. ReceiveAhead(seen, SeqAt(p)) = [next |-> t.next, missing |-> t.missing \cup gap,
          future |-> t.future \cup {SeqAt(p)}, highest |-> h]
    <3>1. seen.next = t.next /\ Gap(seen.next, SeqAt(p)) = gap
      BY <2>1 DEF gap
    <3>2. ReceiveAhead(seen, SeqAt(p)) =
            [seen EXCEPT !.missing = @ \cup gap, !.future = @ \cup {SeqAt(p)}]
      BY <3>1 DEF ReceiveAhead
    <3> QED
      BY <2>1, <3>2
  <2> QED
    BY <2>2, <2>3
<1>7. gap \subseteq SeqIds
  <2>1. t.next \in Int
    BY <1>1 DEF TrackerType, SeqIds
  <2>2. \A i \in Int : (t.next + i) % SequenceMod \in SeqIds
    BY <2>1, SequenceAssumption DEF SeqIds
  <2> QED
    BY <2>2 DEF Gap
<1> HIDE DEF s, h, gap
<1>8. s \in TrackerType /\ Position(s.next) = e
  BY <1>1, <1>2, <1>3, <1>6, <1>7 DEF TrackerType, e
<1>9. /\ Position(s.highest) \in g \cup {p} /\ \A q \in g \cup {p} : q <= Position(s.highest)
      /\ newest <= Position(s.highest) /\ p <= Position(s.highest) /\ Position(s.highest) \in Int
  BY <1>1, <1>2, <1>6
<1>10. ASSUME NEW seq \in s.missing
       PROVE  /\ e <= Position(seq) /\ Position(seq) <= Position(s.highest)
              /\ Position(seq) < e + MaxTrackedGap
  <2>1. Position(seq) \in Int
    BY <1>8, PositionsAreSeqIds DEF TrackerType
  <2>2. CASE seq \in t.missing
    <3>1. e <= Position(seq) /\ Position(seq) <= newest /\ Position(seq) < e + MaxTrackedGap
      BY <2>2 DEF Tracking, e, newest
    <3> QED
      BY <1>1, <1>9, <2>1, <3>1
  <2>3. CASE seq \in gap
    BY <1>1, <1>5, <1>7, <1>9, <2>1, <2>3
  <2> QED
    BY <1>6, <2>2, <2>3
<1>11. \A seq \in s.future : e < Position(seq) /\ Position(seq) \in g \cup {p}
  BY <1>1, <1>3, <1>6 DEF Tracking, e
<1>12. KeepsCount(t, s, g, p)
  <2>1. ASSUME NEW q \in 0..LastPacket, Counts(t, g, q) PROVE Counts(s, g \cup {p}, q)
    BY <1>6, <2>1 DEF Counts
  <2>2. ASSUME NEW q \in 0..LastPacket, e <= q, q < p, q < e + MaxTrackedGap
        PROVE  Counts(s, g \cup {p}, q)
    <3>1. SeqAt(q) \in SeqIds /\ Position(SeqAt(q)) = q
      BY <1>1, PositionsAreSeqIds
    <3> QED
      BY <1>5, <1>6, <2>2, <3>1 DEF Counts
  <2> QED
    BY <2>1, <2>2 DEF KeepsCount, e
<1>15. ASSUME NEW seq \in s.missing, NEW q \in e..Position(seq)
       PROVE  Counts(s, g \cup {p}, q)
  <2>1. Position(seq) \in Int
    BY <1>8, PositionsAreSeqIds DEF TrackerType
  <2>2. CASE seq \in t.missing
    <3>1. Counts(t, g, q) /\ Position(seq) <= newest
      BY <2>2 DEF Tracking, e, newest
    <3>2. q \in 0..LastPacket
      BY <1>1, <2>1, <3>1
    <3> QED
      BY <1>12, <3>1, <3>2 DEF KeepsCount
  <2>3. CASE seq \in gap
    <3>1. q \in 0..LastPacket /\ e <= q /\ q < p /\ q < e + MaxTrackedGap
      BY <1>1, <1>5, <1>7, <2>1, <2>3
    <3> QED
      BY <1>12, <3>1 DEF KeepsCount, e
  <2> QED
    BY <1>6, <2>2, <2>3
<1>13. \A q \in origin..e-1 : q \in g \cup {p}
  BY DEF Tracking, e
<1>14. Tracking(s, g \cup {p})
  <2>1. e <= Position(s.highest) + 1
    BY <1>1, <1>9
  <2> QED
    BY <1>1, <1>8, <1>9, <1>10, <1>11, <1>13, <1>15, <2>1 DEF Tracking
<1> QED
  BY <1>12, <1>14 DEF s

(* A packet that is missing, or before the expected one.                    *)
LEMMA LateArrives ==
  ASSUME base \in SeqIds, origin \in 0..LastPacket, NEW g \in SUBSET (0..LastPacket), NEW t, Tracking(t, g),
         NEW p \in 0..LastPacket, p # Position(t.next), SeqAt(p) \in t.missing \/ p < Position(t.next)
  PROVE  Tracking(Observe(t, SeqAt(p)), g \cup {p}) /\ KeepsCount(t, Observe(t, SeqAt(p)), g, p)
<1> DEFINE e == Position(t.next)
           newest == Position(t.highest)
           h == Newest(t.highest, SeqAt(p))
           s == Observe(t, SeqAt(p))
<1>1. /\ LastPacket \in Nat /\ MaxTrackedGap \in Nat
      /\ t \in TrackerType /\ SeqAt(e) = t.next /\ t.next # NoSeq
      /\ newest \in 0..LastPacket /\ newest \in g /\ \A q \in g : q <= newest
      /\ e \in 0..LastPacket+1 /\ origin < e /\ e <= newest + 1
  BY SequenceAssumption, FlowAssumption, PositionsAreSeqIds DEF Tracking, TrackerType, NoSeq, SeqIds
<1>2. h \in SeqIds /\ Position(h) = IF p > newest THEN p ELSE newest
  BY NewestIsHighest
<1>3. SeqAt(p) \in SeqIds /\ Position(SeqAt(p)) = p /\ SeqAt(p) # t.next
  BY <1>1, PositionsAreSeqIds
<1> HIDE DEF e, newest
<1>4. p <= newest
  <2>1. CASE SeqAt(p) \in t.missing
    BY <1>3, <2>1 DEF Tracking, newest
  <2>2. CASE p < e
    BY <1>1, <2>2
  <2> QED
    BY <2>1, <2>2 DEF e
<1>5. SeqAt(p) \in t.missing \/ ~NotBefore(t.next, SeqAt(p))
  <2>1. NotBefore(SeqAt(e), SeqAt(p)) <=> e <= p
    BY <1>1, AheadOfPositions
  <2> QED
    BY <1>1, <2>1 DEF e
<1>6. s = [next |-> t.next, missing |-> t.missing \ {SeqAt(p)}, future |-> t.future, highest |-> h]
  <2> DEFINE seen == [t EXCEPT !.highest = h]
  <2>1. seen = [next |-> t.next, missing |-> t.missing, future |-> t.future, highest |-> h]
    BY <1>1 DEF TrackerType
  <2>2. CASE SeqAt(p) \in t.missing
    <3>1. s = [seen EXCEPT !.missing = @ \ {SeqAt(p)}]
      BY <1>1, <1>3, <2>2 DEF Observe
    <3> HIDE DEF seen, s
    <3> QED
      BY <2>1, <3>1
  <2>3. CASE SeqAt(p) \notin t.missing
    <3>1. s = seen
      BY <1>1, <1>3, <1>5, <2>3 DEF Observe
    <3>2. t.missing \ {SeqAt(p)} = t.missing
      BY <2>3
    <3> HIDE DEF seen, s
    <3> QED
      BY <2>1, <3>1, <3>2
  <2> QED
    BY <2>2, <2>3
<1> HIDE DEF s, h
<1>7. Position(s.highest) = newest /\ Position(s.next) = e
  BY <1>1, <1>2, <1>4, <1>6 DEF e
<1>8. s \in TrackerType
  BY <1>1, <1>2, <1>6 DEF TrackerType
<1>9. \A seq \in s.missing : e <= Position(seq) /\ Position(seq) <= newest
                             /\ Position(seq) < e + MaxTrackedGap
  BY <1>6 DEF Tracking, e, newest
<1>10. \A seq \in s.future : e < Position(seq) /\ Position(seq) \in g \cup {p}
  BY <1>6 DEF Tracking, e
<1>11. KeepsCount(t, s, g, p)
  <2>1. ASSUME NEW q \in 0..LastPacket, Counts(t, g, q) PROVE Counts(s, g \cup {p}, q)
    <3>1. Position(SeqAt(q)) = q
      BY <1>1, PositionsAreSeqIds
    <3> QED
      BY <1>3, <1>6, <2>1, <3>1 DEF Counts
  <2>2. ASSUME NEW q \in 0..LastPacket, e <= q, q < p PROVE Counts(t, g, q)
    <3>1. SeqAt(p) \in t.missing
      BY <1>1, <2>2 DEF e
    <3>2. q \in e..p
      BY <1>1, <2>2
    <3> QED
      BY <1>3, <3>1, <3>2 DEF Tracking, e
  <2> QED
    BY <2>1, <2>2 DEF KeepsCount, e
<1>15. ASSUME NEW seq \in s.missing, NEW q \in e..Position(seq)
       PROVE  Counts(s, g \cup {p}, q)
  <2>1. Position(seq) \in Int
    BY <1>8, PositionsAreSeqIds DEF TrackerType
  <2>2. Counts(t, g, q) /\ Position(seq) <= newest
    BY <1>6 DEF Tracking, e, newest
  <2>3. q \in 0..LastPacket
    BY <1>1, <2>1, <2>2
  <2> QED
    BY <1>11, <2>2, <2>3 DEF KeepsCount
<1>12. \A q \in origin..e-1 : q \in g \cup {p}
  BY DEF Tracking, e
<1>13. \A q \in g \cup {p} : q <= newest
  BY <1>1, <1>4
<1>14. Tracking(s, g \cup {p})
  BY <1>1, <1>7, <1>8, <1>9, <1>10, <1>12, <1>13, <1>15 DEF Tracking
<1> QED
  BY <1>11, <1>14 DEF s

-----------------------------------------------------------------------------
(* The theorems.                                                            *)

(* A flow starts with an untouched tracker.                                 *)
LEMMA InitTracks == Init => IInv
BY FlowAssumption DEF Init, IInv

(* Whatever packet comes, the account stays right.                          *)
LEMMA ReceiveTracks ==
  ASSUME IInv, NEW p \in 0..LastPacket, Receive(p)
  PROVE  IInv'
<1>1. /\ base' = base /\ origin' = origin /\ got' = got \cup {p}
      /\ tracker' = Observe(tracker, SeqAt(p))
      /\ base \in SeqIds /\ origin \in 0..LastPacket /\ got \in SUBSET (0..LastPacket)
  BY DEF Receive, IInv
<1>2. Tracking(tracker', got') /\ (got # {} => KeepsCount(tracker, tracker', got, p))
  <2>1. CASE got = {}
    <3>1. p = origin /\ tracker = NewTracker /\ got' = {origin}
      BY <1>1, <2>1 DEF Receive, IInv
    <3> QED
      BY <1>1, <2>1, <3>1, FirstPacket
  <2>2. CASE got # {}
    <3>1. Tracking(tracker, got)
      BY <2>2 DEF IInv
    <3>2. Position(tracker.next) \in Int /\ p \in Int
      BY <1>1, <3>1, PositionsAreSeqIds, FlowAssumption DEF Tracking, TrackerType
    <3>3. CASE p = Position(tracker.next)
      BY <1>1, <3>1, <3>3, ExpectedArrives
    <3>4. CASE p # Position(tracker.next) /\ (SeqAt(p) \in tracker.missing \/ p < Position(tracker.next))
      BY <1>1, <3>1, <3>4, LateArrives
    <3>5. CASE Position(tracker.next) < p /\ SeqAt(p) \notin tracker.missing
      BY <1>1, <3>1, <3>5, AheadArrives
    <3> QED
      BY <3>2, <3>3, <3>4, <3>5
  <2> QED
    BY <2>1, <2>2
<1>3. Tracking(tracker, got)'
  BY <1>1, <1>2 DEF Tracking, Counts, Position, SeqAt
<1>4. /\ late' = (late \cup Overtaken(p)) \ got'
      /\ late \subseteq 0..LastPacket /\ \A q \in late : Counts(tracker, got, q)
      /\ LastPacket \in Nat
  BY FlowAssumption DEF Receive, IInv
<1>5. late' \subseteq 0..LastPacket
  <2>1. 0..p-1 \subseteq 0..LastPacket
    BY <1>4
  <2>2. Overtaken(p) \subseteq 0..p-1
    BY DEF Overtaken
  <2> QED
    BY <1>4, <2>1, <2>2
<1>6. ASSUME NEW q \in late' PROVE Counts(tracker', got', q)
  <2>1. CASE got = {}
    <3>1. tracker = NewTracker
      BY <2>1 DEF IInv
    <3>2. Overtaken(p) = {}
      BY <3>1 DEF Overtaken, Started, NewTracker
    <3>3. q \in late /\ Counts(tracker, got, q)
      BY <1>4, <3>2
    <3> QED
      BY <2>1, <3>1, <3>3 DEF Counts, NewTracker
  <2>2. CASE got # {}
    <3>1. KeepsCount(tracker, tracker', got, p)
      BY <1>1, <1>2, <2>2
    <3>2. q \in 0..LastPacket /\ (q \in late \/ q \in Overtaken(p))
      BY <1>4, <1>5
    <3>3. CASE q \in late
      BY <1>1, <1>4, <3>1, <3>2, <3>3 DEF KeepsCount
    <3>4. CASE q \in Overtaken(p)
      <4>1. Position(tracker.next) <= q /\ q < p /\ q < Position(tracker.next) + MaxTrackedGap
        BY <1>4, <3>4 DEF Overtaken, Expected
      <4> QED
        BY <1>1, <3>1, <3>2, <4>1 DEF KeepsCount
    <3> QED
      BY <3>2, <3>3, <3>4
  <2> QED
    BY <2>1, <2>2
<1>7. \A q \in late' : q \notin got' /\ Counts(tracker, got, q)'
  <2>1. \A q : Counts(tracker, got, q)' <=> Counts(tracker', got', q)
    BY <1>1 DEF Counts, SeqAt
  <2> QED
    BY <1>4, <1>6, <2>1
<1> QED
  BY <1>1, <1>3, <1>5, <1>7 DEF IInv

(* The invariant is inductive.                                              *)
LEMMA NextTracks == IInv /\ [Next]_vars => IInv'
<1> SUFFICES ASSUME IInv, [Next]_vars PROVE IInv'
  OBVIOUS
<1>1. CASE Next
  BY <1>1, ReceiveTracks DEF Next
<1>2. CASE UNCHANGED vars
  BY <1>2 DEF IInv, Tracking, Counts, Position, SeqAt, vars
<1> QED
  BY <1>1, <1>2

(* The account of a started flow, in the terms of the properties.           *)
LEMMA TrackingHolds ==
  ASSUME IInv, Started
  PROVE  /\ Tracking(tracker, got) /\ base \in SeqIds
         /\ Top = Position(tracker.highest)
         /\ Expected \in Int /\ Top \in Int /\ origin \in Int
<1>1. got # {} /\ Tracking(tracker, got)
  BY DEF IInv, Started, NewTracker
<1>2. /\ Position(tracker.highest) \in got
      /\ \A p \in got : p <= Position(tracker.highest)
      /\ got \subseteq 0..LastPacket /\ LastPacket \in Nat
  BY <1>1, FlowAssumption DEF Tracking, IInv
<1>3. Top = Position(tracker.highest)
  <2>1. \A p \in got : Newer(p) = {} <=> p = Position(tracker.highest)
    <3> DEFINE h == Position(tracker.highest)
    <3>1. h \in Int /\ \A p \in got : p \in Int /\ p <= h
      <4>1. \A p \in got : p \in 0..LastPacket
        BY <1>2
      <4>2. \A p \in got : p \in Int
        BY <1>2, <4>1
      <4> QED
        BY <1>2, <4>2
    <3>2. \A p \in got : ~(h > p) => p = h
      BY <3>1
    <3>3. \A q \in got : ~(q > h)
      BY <3>1
    <3> HIDE DEF h
    <3>4. \A p \in got : Newer(p) = {} <=> p = h
      BY <1>2, <3>2, <3>3 DEF Newer, h
    <3> QED
      BY <3>4 DEF h
  <2> QED
    BY <1>2, <2>1 DEF Top
<1>4. Expected \in Int
  BY <1>1, PositionsAreSeqIds DEF Expected, Tracking, TrackerType, IInv
<1>5. Top \in Int /\ origin \in Int
  <2>1. Top \in 0..LastPacket /\ origin \in 0..LastPacket
    BY <1>2, <1>3 DEF IInv
  <2> QED
    BY <1>2, <2>1
<1> QED
  BY <1>1, <1>3, <1>4, <1>5 DEF IInv

(* Before the first packet the tracker has nothing.                         *)
LEMMA NothingTracked ==
  ASSUME IInv, ~Started
  PROVE  tracker = NewTracker
<1>1. ASSUME Tracking(tracker, got) PROVE FALSE
  BY <1>1, SequenceAssumption DEF Started, Tracking, TrackerType, NoSeq, SeqIds
<1> QED
  BY <1>1 DEF IInv

(* The invariant implies the three properties of the flow.                  *)
LEMMA TrackingSuffices == IInv => ExpectedPassesNoLoss /\ LossesAreTracked /\ TrackingStaysAhead
<1> SUFFICES ASSUME IInv PROVE ExpectedPassesNoLoss /\ TrackingStaysAhead
  BY DEF IInv, Counts, LossesAreTracked
<1>1. CASE ~Started
  <2>1. tracker.missing = {} /\ tracker.future = {}
    BY <1>1, NothingTracked DEF NewTracker
  <2>2. Cardinality(tracker.missing) <= MaxTrackedGap
    BY <2>1, FS_EmptySet, SequenceAssumption
  <2> QED
    BY <1>1, <2>1, <2>2 DEF ExpectedPassesNoLoss, TrackingStaysAhead
<1>2. CASE Started
  <2>1. /\ Tracking(tracker, got) /\ base \in SeqIds
        /\ Top = Position(tracker.highest)
        /\ Expected \in Int /\ Top \in Int /\ origin \in Int
    BY <1>2, TrackingHolds
  <2>2. ExpectedPassesNoLoss
    BY <2>1 DEF ExpectedPassesNoLoss, Tracking, Expected
  <2>4. tracker.highest = SeqAt(Top)
    BY <2>1, PositionsAreSeqIds DEF Tracking, TrackerType
  <2>5. Cardinality(tracker.missing) <= MaxTrackedGap
    <3> DEFINE f == [seq \in tracker.missing |-> Position(seq)]
               window == Expected..Expected+MaxTrackedGap-1
    <3>1. MaxTrackedGap \in Nat /\ \A seq \in tracker.missing : seq \in SeqIds /\ Position(seq) \in window
      BY <2>1, SequenceAssumption, PositionsAreSeqIds DEF Tracking, TrackerType, Expected
    <3>2. f \in Injection(tracker.missing, window)
      <4>1. \A a, b \in tracker.missing : Position(a) = Position(b) => a = b
        BY <2>1, <3>1, PositionsAreSeqIds
      <4> QED
        BY <3>1, <4>1 DEF Injection, IsInjective
    <3>3. IsFiniteSet(window) /\ Cardinality(window) = MaxTrackedGap
      <4> DEFINE last == Expected + MaxTrackedGap - 1
      <4>1. last \in Int /\ ~(Expected > last) /\ last - Expected + 1 = MaxTrackedGap
        BY <2>1, <3>1, SequenceAssumption
      <4> HIDE DEF last
      <4>2. IsFiniteSet(Expected..last) /\ Cardinality(Expected..last) = MaxTrackedGap
        BY <2>1, <4>1, FS_Interval
      <4> QED
        BY <4>2 DEF last
    <3> HIDE DEF f, window
    <3> QED
      BY <3>2, <3>3, FS_Injection
  <2>6. /\ \A seq \in tracker.missing \cup tracker.future :
             Expected <= Position(seq) /\ Position(seq) <= Top
        /\ \A seq \in tracker.future : Position(seq) \in got /\ seq # tracker.next
    <3>1. \A seq \in tracker.future : Position(seq) \in Int
      BY <2>1, PositionsAreSeqIds DEF Tracking, TrackerType
    <3> QED
      BY <2>1, <3>1 DEF Tracking, Expected
  <2> QED
    BY <2>2, <2>4, <2>5, <2>6 DEF TrackingStaysAhead
<1> QED
  BY <1>1, <1>2

(* next_expected never passes a packet that has not come.                   *)
THEOREM NoLossIsPassed == Spec => []ExpectedPassesNoLoss
BY InitTracks, NextTracks, TrackingSuffices, PTL DEF Spec

(* A packet overtaken within MAX_TRACKED_GAP of the expected one is counted *)
(* as missing until it comes.                                               *)
THEOREM NoLossIsOverlooked == Spec => []LossesAreTracked
BY InitTracks, NextTracks, TrackingSuffices, PTL DEF Spec

(* The tracker keeps nothing behind the expected packet, at most            *)
(* MAX_TRACKED_GAP losses, and knows the newest packet.                     *)
THEOREM TrackerIsBounded == Spec => []TrackingStaysAhead
BY InitTracks, NextTracks, TrackingSuffices, PTL DEF Spec

-----------------------------------------------------------------------------
(* The feedback loop.                                                       *)

-----------------------------------------------------------------------------
(* Clamping.                                                                *)

(* clamp() lands in its limits, if the lower is not above the upper.        *)
LEMMA ClampIsWithin ==
  \A x, low, high \in Int :
    low <= high => /\ Clamp(x, low, high) \in Int
                   /\ low <= Clamp(x, low, high) /\ Clamp(x, low, high) <= high
<1> TAKE x, low, high \in Int
<1> HAVE low <= high
<1>1. Max({x, low}) \in Int /\ Max({x, low}) >= low
  BY MaxOfTwo
<1>2. QED
  BY <1>1, MinOfTwo DEF Clamp

-----------------------------------------------------------------------------
(* The limits.                                                              *)

Limits == NormalizedCongestion(Congestion)

(* congestion_config_normalized: whatever was configured, the least rate is *)
(* positive and not above the largest, and the steps are integers.          *)
LEMMA LimitsAreLimits ==
  /\ Limits.minRate \in Nat /\ Limits.minRate > 0
  /\ Limits.maxRate \in Nat /\ Limits.minRate <= Limits.maxRate
  /\ Limits.initial \in Nat
  /\ Limits.increase \in Nat /\ Limits.decrease \in Int
<1> DEFINE low == Max({Congestion.minRate, 1})
           high == Max({Congestion.maxRate, low})
<1>1. low \in Nat /\ low > 0
  BY MaxOfTwo, FeedbackAssumption
<1>2. high \in Nat /\ low <= high
  BY <1>1, MaxOfTwo, FeedbackAssumption
<1>3. Clamp(Congestion.initial, low, high) \in Nat
  <2> HIDE DEF low, high
  <2>1. Congestion.initial \in Int /\ low \in Int /\ high \in Int
    BY <1>1, <1>2, FeedbackAssumption
  <2>2. /\ Clamp(Congestion.initial, low, high) \in Int
        /\ low <= Clamp(Congestion.initial, low, high)
    BY <1>2, <2>1, ClampIsWithin, Zenon
  <2> QED
    BY <1>1, <1>2, <2>2
<1>4. Max({Congestion.increase, 1}) \in Nat
  BY MaxOfTwo, FeedbackAssumption
<1>5. Clamp(Congestion.decrease, Unit \div 10, (99 * Unit) \div 100) \in Int
  <2>1. Unit \div 10 \in Int /\ (99 * Unit) \div 100 \in Int
    BY ControllerAssumption
  <2>2. Max({Congestion.decrease, Unit \div 10}) \in Int
    BY <2>1, MaxOfTwo, FeedbackAssumption
  <2> QED
    BY <2>1, <2>2, MinOfTwo DEF Clamp
<1>6. /\ Limits.minRate = low /\ Limits.maxRate = high
      /\ Limits.initial = Clamp(Congestion.initial, low, high)
      /\ Limits.increase = Max({Congestion.increase, 1})
      /\ Limits.decrease = Clamp(Congestion.decrease, Unit \div 10, (99 * Unit) \div 100)
  BY FeedbackAssumption DEF Limits, NormalizedCongestion
<1> HIDE DEF low, high
<1> QED
  BY <1>1, <1>2, <1>3, <1>4, <1>5, <1>6

(* The second clamp of update_network_metrics: the rate that a path offers  *)
(* does not take the target out of the limits.                              *)
LEMMA InLimitsIsWithin ==
  ASSUME NEW c, c.congestion = Limits,
         NEW rate \in Int, NEW available,
         available \subseteq Nat, \A a, b \in available : a = b
  PROVE  InLimits(c, rate, available) \in Limits.minRate..Limits.maxRate
<1> DEFINE low == Limits.minRate
           high == Limits.maxRate
<1>0. low \in Int /\ high \in Int /\ low <= high
  BY LimitsAreLimits
<1> HIDE DEF low, high
<1> DEFINE first == Clamp(rate, low, high)
<1>1. first \in Int
  BY <1>0, ClampIsWithin, Zenon
<1>2. Min({first} \cup available) \in Int
  <2>1. CASE available = {}
    BY <2>1, <1>1, MinOfOne
  <2>2. CASE available # {}
    <3>1. PICK offered \in Nat : available = {offered}
      BY <2>2
    <3>2. {first} \cup available = {first, offered}
      BY <3>1
    <3> QED
      BY <3>2, <1>1, MinOfTwo
  <2> QED
    BY <2>1, <2>2
<1> HIDE DEF first
<1> DEFINE last == Clamp(Min({first} \cup available), low, high)
<1>3. last \in Int /\ low <= last /\ last <= high
  BY <1>0, <1>2, ClampIsWithin, Zenon
<1>4. last = InLimits(c, rate, available)
  BY DEF InLimits, first, low, high
<1> HIDE DEF last
<1>5. last \in low..high
  BY <1>0, <1>3
<1> QED
  BY <1>4, <1>5 DEF low, high

-----------------------------------------------------------------------------
(* The invariant.                                                           *)

(* The limits of the controller are what was configured, normalised; no     *)
(* report changes them.                                                     *)
LimitsAreKept ==
  /\ DOMAIN controller = {"policy", "congestion", "metrics", "target"}
  /\ controller.congestion = Limits
  /\ path \in PathStates

RateInv == LimitsAreKept /\ controller.target \in Limits.minRate..Limits.maxRate

(* A new controller starts within its limits.                               *)
LEMMA InitWithin == LoopInit => RateInv
<1> SUFFICES ASSUME LoopInit PROVE RateInv
  OBVIOUS
<1>1. PICK policy \in Policies : controller = NewController(policy, Congestion)
  BY DEF LoopInit
<1>2. controller.target = Clamp(Limits.initial, Limits.minRate, Limits.maxRate)
  BY <1>1 DEF NewController, Limits
<1>3. controller.target \in Limits.minRate..Limits.maxRate
  <2>1. /\ Limits.initial \in Int /\ Limits.minRate \in Int /\ Limits.maxRate \in Int
        /\ Limits.minRate <= Limits.maxRate
    BY LimitsAreLimits
  <2> DEFINE low == Limits.minRate
             high == Limits.maxRate
             initial == Limits.initial
             first == Clamp(initial, low, high)
  <2> HIDE DEF low, high, initial
  <2>2. initial \in Int /\ low \in Int /\ high \in Int /\ low <= high
    BY <2>1 DEF low, high, initial
  <2>3. first \in Int /\ low <= first /\ first <= high
    BY <2>2, ClampIsWithin, Zenon
  <2>4. controller.target = first
    BY <1>2, Zenon DEF low, high, initial
  <2> HIDE DEF first
  <2>5. first \in low..high
    BY <2>2, <2>3
  <2> QED
    BY <2>4, <2>5, Zenon DEF low, high
<1>4. LimitsAreKept
  BY <1>1 DEF LimitsAreKept, NewController, Limits, LoopInit
<1> QED
  BY <1>3, <1>4 DEF RateInv

(* No step takes the rate out of the limits.                                *)
LEMMA StepStaysWithin == RateInv /\ [LoopNext]_loopVars => RateInv'
<1> SUFFICES ASSUME RateInv, [LoopNext]_loopVars PROVE RateInv'
  OBVIOUS
<1>1. ASSUME NEW p \in 0..LastPacket, ReceivePacket(p) PROVE RateInv'
  BY <1>1 DEF RateInv, LimitsAreKept, ReceivePacket, Limits
<1>2. ASSUME NEW to \in PathStates, ChangePath(to) PROVE RateInv'
  BY <1>2 DEF RateInv, LimitsAreKept, ChangePath, Limits
<1>3. CASE Report
  <2>1. PICK observed \in {IntoMetrics(received, Cardinality(tracker.missing), path)} :
          controller' = UpdateNetworkMetrics(controller, observed)
    BY <1>3 DEF Report
  <2>2. observed.available = path.available
    BY DEF IntoMetrics
  <2>3. observed.available \subseteq Nat /\ \A a, b \in observed.available : a = b
    BY <2>2, FeedbackAssumption DEF RateInv, LimitsAreKept
  <2> DEFINE moved == IF Congested(controller, observed)
                      THEN (controller.target * controller.congestion.decrease) \div Unit
                      ELSE controller.target + controller.congestion.increase
  <2>4. moved \in Int
    <3>1. controller.target \in Int
      BY LimitsAreLimits DEF RateInv
    <3>2. controller.target * controller.congestion.decrease \in Int
      BY <3>1, LimitsAreLimits DEF RateInv, LimitsAreKept
    <3>3. (controller.target * controller.congestion.decrease) \div Unit \in Int
      BY <3>2, ControllerAssumption
    <3> QED
      BY <3>1, <3>3, LimitsAreLimits DEF RateInv, LimitsAreKept
  <2>5. /\ DOMAIN controller' = DOMAIN controller
        /\ controller'.congestion = controller.congestion
        /\ controller'.target = InLimits(controller, moved, observed.available)
    BY <2>1 DEF UpdateNetworkMetrics, RateInv, LimitsAreKept
  <2> HIDE DEF moved
  <2>6. InLimits(controller, moved, observed.available) \in Limits.minRate..Limits.maxRate
    BY <2>3, <2>4, InLimitsIsWithin DEF RateInv, LimitsAreKept
  <2>7. path' = path
    BY <1>3 DEF Report
  <2> QED
    BY <2>5, <2>6, <2>7 DEF RateInv, LimitsAreKept, Limits
<1>4. CASE UNCHANGED loopVars
  BY <1>4 DEF RateInv, LimitsAreKept, loopVars, Limits
<1> QED
  BY <1>1, <1>2, <1>3, <1>4 DEF LoopNext

(* update_network_metrics keeps the target bitrate positive and in the      *)
(* limits of the configuration, whatever was configured and whatever the    *)
(* path reports.                                                            *)
THEOREM RateStaysInLimits == LoopSpec => []RateInLimits
<1>1. RateInv => RateInLimits
  BY LimitsAreLimits DEF RateInv, LimitsAreKept, RateInLimits
<1> QED
  BY <1>1, InitWithin, StepStaysWithin, PTL DEF LoopSpec

-----------------------------------------------------------------------------
(* The loop is a flow.                                                      *)

(* The controller does not disturb the tracker: the loop implements the     *)
(* flow, and so its tracker has all that the flow's has.                    *)
THEOREM LoopImplementsFlow == LoopSpec => Spec
<1>1. LoopInit => Init
  BY DEF LoopInit
<1>2. [LoopNext]_loopVars => [Next]_vars
  <2> SUFFICES ASSUME [LoopNext]_loopVars PROVE [Next]_vars
    OBVIOUS
  <2>1. ASSUME NEW p \in 0..LastPacket, ReceivePacket(p) PROVE Next
    BY <2>1 DEF ReceivePacket, Next
  <2>2. ASSUME NEW to \in PathStates, ChangePath(to) PROVE UNCHANGED vars
    BY <2>2 DEF ChangePath
  <2>3. CASE Report
    BY <2>3 DEF Report
  <2>4. CASE UNCHANGED loopVars
    BY <2>4 DEF loopVars
  <2> QED
    BY <2>1, <2>2, <2>3, <2>4 DEF LoopNext
<1> QED
  BY <1>1, <1>2, PTL DEF LoopSpec, Spec

(* A tracker that has caught up counts no loss.                             *)
LEMMA CaughtUpHasNoLoss ==
  ASSUME IInv, CaughtUp
  PROVE  Cardinality(tracker.missing) = 0
<1>1. tracker.missing = {}
  <2>1. CASE ~Started
    BY <2>1, NothingTracked DEF NewTracker
  <2>2. CASE Started
    <3>1. /\ Tracking(tracker, got) /\ base \in SeqIds
          /\ Top = Position(tracker.highest)
          /\ Expected \in Int /\ Top \in Int
      BY <2>2, TrackingHolds
    <3>2. \A seq \in tracker.missing : Position(seq) \in Int
      BY <3>1, PositionsAreSeqIds DEF Tracking, TrackerType
    <3>3. Expected > Top
      BY <2>2 DEF CaughtUp
    <3>4. \A seq \in tracker.missing : Expected <= Position(seq) /\ Position(seq) <= Top
      BY <3>1 DEF Tracking, Expected
    <3> QED
      BY <3>1, <3>2, <3>3, <3>4
  <2> QED
    BY <2>1, <2>2
<1> QED
  BY <1>1, FS_EmptySet

-----------------------------------------------------------------------------
(* A clean flow.                                                            *)

(* The thresholds of a normalised configuration.                            *)
LEMMA ThresholdsAreKept ==
  /\ Limits.highLoss \in Int /\ Limits.highRtt \in Int /\ Limits.highQueue \in Int
  /\ Congestion.highLoss > 0 => Limits.highLoss > 0
<1>1. /\ Limits.highLoss = Clamp(Congestion.highLoss, 0, Unit)
      /\ Limits.highQueue = Max({Congestion.highQueue, 1})
      /\ Limits.highRtt = Max({Congestion.highRtt, 1})
  BY FeedbackAssumption DEF Limits, NormalizedCongestion
<1>2. Congestion.highLoss \in Nat /\ Congestion.highQueue \in Nat /\ Congestion.highRtt \in Nat
  BY FeedbackAssumption
<1>3. Unit \in Nat \ {0}
  BY ControllerAssumption
<1>4. Max({Congestion.highLoss, 0}) = Congestion.highLoss
  BY <1>2, MaxOfTwo
<1>5. Clamp(Congestion.highLoss, 0, Unit) = IF Congestion.highLoss <= Unit THEN Congestion.highLoss ELSE Unit
  BY <1>2, <1>3, <1>4, MinOfTwo DEF Clamp
<1>6. Max({Congestion.highQueue, 1}) \in Int /\ Max({Congestion.highRtt, 1}) \in Int
  BY <1>2, MaxOfTwo
<1> QED
  BY <1>1, <1>2, <1>3, <1>5, <1>6

(* What clamping gives.                                                     *)
LEMMA ClampValue ==
  \A x, low, high \in Int :
    low <= high =>
      Clamp(x, low, high) = IF x < low THEN low ELSE IF x > high THEN high ELSE x
<1> TAKE x, low, high \in Int
<1> HAVE low <= high
<1>1. Max({x, low}) = IF x >= low THEN x ELSE low
  BY MaxOfTwo
<1> QED
  BY <1>1, MinOfTwo DEF Clamp

(* An increase is lost only to a limit.                                     *)
LEMMA IncreaseReachesCeiling ==
  ASSUME NEW c, c.congestion = Limits,
         NEW rate \in Limits.minRate..Limits.maxRate, NEW step \in Nat,
         NEW available, available \subseteq Nat, \A a, b \in available : a = b
  PROVE  InLimits(c, rate + step, available)
           >= Min({rate, InLimits(c, Limits.maxRate, available)})
<1> DEFINE low == Limits.minRate
           high == Limits.maxRate
           raised == InLimits(c, rate + step, available)
           ceiling == InLimits(c, high, available)
<1>1. low \in Int /\ high \in Int /\ low <= high /\ rate \in low..high
  BY LimitsAreLimits
<1>2. /\ raised = Clamp(Min({Clamp(rate + step, low, high)} \cup available), low, high)
      /\ ceiling = Clamp(Min({Clamp(high, low, high)} \cup available), low, high)
  BY DEF InLimits
<1> HIDE DEF low, high
<1> DEFINE first == Clamp(rate + step, low, high)
<1>3. first \in rate..high /\ Clamp(high, low, high) = high
  <2>1. rate + step \in Int
    BY <1>1
  <2>2. first = IF rate + step < low THEN low ELSE IF rate + step > high THEN high ELSE rate + step
    BY <1>1, <2>1, ClampValue, Zenon
  <2>3. Clamp(high, low, high) = IF high < low THEN low ELSE IF high > high THEN high ELSE high
    BY <1>1, ClampValue, Zenon
  <2> QED
    BY <1>1, <2>2, <2>3
<1> HIDE DEF first, raised, ceiling
<1>4. raised \in Int /\ ceiling \in Int /\ (raised >= rate \/ raised >= ceiling)
  <2>1. CASE available = {}
    <3>1. raised = Clamp(first, low, high) /\ ceiling = Clamp(high, low, high)
      BY <1>1, <1>2, <1>3, <2>1, MinOfOne DEF first
    <3>2. Clamp(first, low, high) = IF first < low THEN low ELSE IF first > high THEN high ELSE first
      <4>1. first \in Int
        BY <1>1, <1>3
      <4> QED
        BY <1>1, <4>1, ClampValue, Zenon
    <3> QED
      BY <1>1, <1>3, <3>1, <3>2
  <2>2. CASE available # {}
    <3>1. PICK offered \in Nat : available = {offered}
      BY <2>2
    <3>2. /\ Min({first} \cup available) = IF first <= offered THEN first ELSE offered
          /\ Min({high} \cup available) = IF high <= offered THEN high ELSE offered
      <4>1. {first} \cup available = {first, offered} /\ {high} \cup available = {high, offered}
        BY <3>1
      <4>2. first \in Int /\ high \in Int /\ offered \in Int
        BY <1>1, <1>3
      <4> QED
        BY <4>1, <4>2, MinOfTwo
    <3> DEFINE x == IF first <= offered THEN first ELSE offered
               y == IF high <= offered THEN high ELSE offered
    <3>3. x \in Int /\ y \in Int
      BY <1>1, <1>3
    <3>4. raised = Clamp(x, low, high) /\ ceiling = Clamp(y, low, high)
      BY <1>2, <1>3, <3>2 DEF first
    <3> HIDE DEF x, y
    <3>5. /\ raised = IF x < low THEN low ELSE IF x > high THEN high ELSE x
          /\ ceiling = IF y < low THEN low ELSE IF y > high THEN high ELSE y
      BY <1>1, <3>3, <3>4, ClampValue, Zenon
    <3> QED
      BY <1>1, <1>3, <3>3, <3>5 DEF x, y
  <2> QED
    BY <2>1, <2>2
<1>5. rate \in Int /\ Min({rate, ceiling}) = IF rate <= ceiling THEN rate ELSE ceiling
  BY <1>1, <1>4, MinOfTwo
<1>6. raised >= Min({rate, ceiling})
  BY <1>4, <1>5
<1> QED
  BY <1>6 DEF raised, ceiling, high

(* The packets received are counted.                                        *)
Counted == received \in Nat

(* A report of a flow that has caught up on a calm path is of no loss, and  *)
(* is no congestion.                                                        *)
LEMMA CalmReport ==
  ASSUME RateInv, IInv, Counted, CaughtUp, Calm,
         Congestion.highLoss > 0, KeyframeLoss > 0
  PROVE  LET m == IntoMetrics(received, Cardinality(tracker.missing), path)
         IN /\ m.loss.num = 0 /\ m.available = path.available
            /\ ~Congested(controller, m) /\ ~IsAtLeast(m.loss, KeyframeLoss)
<1> DEFINE m == IntoMetrics(received, Cardinality(tracker.missing), path)
           loss == LossFraction(received, Cardinality(tracker.missing))
<1>1. Cardinality(tracker.missing) = 0 /\ received \in Nat
  BY CaughtUpHasNoLoss DEF Counted
<1>2. loss.num = 0 /\ loss.den \in Nat /\ loss.den > 0 /\ loss = [num |-> loss.num, den |-> loss.den]
  BY <1>1 DEF LossFraction, NoLoss
<1> HIDE DEF loss
<1>3. ClampedFraction(loss) = [num |-> 0, den |-> loss.den]
  <2>1. Min({0, loss.den}) = 0
    BY <1>2, MinOfTwo
  <2> QED
    BY <1>2, <2>1 DEF ClampedFraction
<1>4. /\ m.loss = [num |-> 0, den |-> loss.den]
      /\ m.rtt = path.rtt /\ m.queue = path.queue /\ m.available = path.available
  <2>1. path.loss = {}
    BY DEF Calm
  <2> QED
    BY <1>3, <2>1 DEF IntoMetrics, loss
<1> HIDE DEF m
<1>5. Unit \in Nat /\ KeyframeLoss \in Nat
  BY ControllerAssumption
<1>6. ASSUME NEW units \in Int, units > 0 PROVE ~IsAtLeast(m.loss, units)
  <2>1. units * loss.den > 0
    BY <1>2, <1>6
  <2>2. 0 * Unit = 0
    BY <1>5
  <2>3. units * loss.den \in Int
    BY <1>2, <1>6
  <2> DEFINE bound == units * loss.den
  <2>4. bound > 0 /\ bound \in Int
    BY <2>1, <2>3
  <2> HIDE DEF bound
  <2>5. ~(0 >= bound)
    BY <2>4
  <2>6. IsAtLeast(m.loss, units) <=> 0 * Unit >= bound
    BY <1>4 DEF IsAtLeast, bound
  <2> QED
    BY <2>2, <2>5, <2>6
<1>7. controller.congestion = Limits /\ path \in PathStates
  BY DEF RateInv, LimitsAreKept
<1>8. ~Congested(controller, m)
  <2>1. ~IsAtLeast(m.loss, controller.congestion.highLoss)
    BY <1>6, <1>7, ThresholdsAreKept
  <2>2. path.rtt < Limits.highRtt /\ path.queue < Limits.highQueue
    BY <1>7 DEF Calm
  <2>3. path.rtt \in Int /\ path.queue \in Int
    BY <1>7, FeedbackAssumption
  <2>4. ~(path.queue >= Limits.highQueue) /\ ~(path.rtt >= Limits.highRtt)
    BY <2>2, <2>3, ThresholdsAreKept
  <2> QED
    BY <1>4, <1>7, <2>1, <2>4 DEF Congested
<1>9. ~IsAtLeast(m.loss, KeyframeLoss)
  BY <1>5, <1>6
<1>10. m.loss.num = 0
  BY <1>4
<1> QED
  BY <1>4, <1>8, <1>9, <1>10 DEF m

(* Such a report raises the rate, as far as the limits and the path let it. *)
LEMMA CalmReportKeepsRate ==
  ASSUME RateInv, IInv, Counted, CaughtUp, Calm, Report,
         Congestion.highLoss > 0, KeyframeLoss > 0
  PROVE  /\ controller'.target >= Min({controller.target, Ceiling})
         /\ ~Lossy(controller')
         /\ LET d == CongestionDecision(controller, controller'.metrics)
            IN ~d.congested /\ ~d.dropDelta /\ ~d.requestKeyframe
<1> DEFINE m == IntoMetrics(received, Cardinality(tracker.missing), path)
<1>1. controller' = UpdateNetworkMetrics(controller, m)
  BY DEF Report
<1>2. /\ m.loss.num = 0 /\ m.available = path.available
      /\ ~Congested(controller, m) /\ ~IsAtLeast(m.loss, KeyframeLoss)
  BY CalmReport
<1> HIDE DEF m
<1>3. /\ DOMAIN controller = {"policy", "congestion", "metrics", "target"}
      /\ controller.congestion = Limits /\ path \in PathStates
      /\ controller.target \in Limits.minRate..Limits.maxRate
  BY DEF RateInv, LimitsAreKept
<1>4. controller' = [controller EXCEPT !.metrics = m,
                       !.target = InLimits(controller, controller.target + Limits.increase, path.available)]
  BY <1>1, <1>2, <1>3 DEF UpdateNetworkMetrics
<1>5. /\ controller'.metrics = m
      /\ controller'.target = InLimits(controller, controller.target + Limits.increase, path.available)
  BY <1>3, <1>4
<1>6. controller'.target >= Min({controller.target, Ceiling})
  <2>1. /\ Limits.increase \in Nat
        /\ path.available \subseteq Nat /\ \A a, b \in path.available : a = b
    BY <1>3, LimitsAreLimits, FeedbackAssumption
  <2>2. InLimits(controller, controller.target + Limits.increase, path.available)
          >= Min({controller.target, InLimits(controller, Limits.maxRate, path.available)})
    BY <1>3, <2>1, IncreaseReachesCeiling
  <2> QED
    BY <1>3, <1>5, <2>2 DEF Ceiling
<1>7. ~Lossy(controller')
  BY <1>2, <1>5 DEF Lossy
<1>8. LET d == CongestionDecision(controller, controller'.metrics)
      IN ~d.congested /\ ~d.dropDelta /\ ~d.requestKeyframe
  BY <1>2, <1>5 DEF CongestionDecision
<1> QED
  BY <1>6, <1>7, <1>8

(* If a loss of nothing is below both loss thresholds, a report on a calm   *)
(* path lowers no rate, drops no frame and buys no loss repair once the     *)
(* tracker has caught up, whatever was reordered before.                    *)
THEOREM CleanFlowKeepsItsRate ==
  ASSUME Congestion.highLoss > 0, KeyframeLoss > 0
  PROVE  LoopSpec => CleanFlowIsNotCut
<1>1. LoopInit => Counted
  BY DEF LoopInit, Counted
<1>2. Counted /\ [LoopNext]_loopVars => Counted'
  BY DEF Counted, LoopNext, loopVars, ReceivePacket, ChangePath, Report
<1>3. RateInv /\ IInv /\ Counted /\ [LoopNext]_loopVars =>
        [controller' # controller /\ CaughtUp /\ Calm =>
           /\ controller'.target >= Min({controller.target, Ceiling})
           /\ ~Lossy(controller')
           /\ LET d == CongestionDecision(controller, controller'.metrics)
              IN ~d.congested /\ ~d.dropDelta /\ ~d.requestKeyframe]_loopVars
  <2> SUFFICES ASSUME RateInv, IInv, Counted, [LoopNext]_loopVars,
                      controller' # controller, CaughtUp, Calm
               PROVE  /\ controller'.target >= Min({controller.target, Ceiling})
                      /\ ~Lossy(controller')
                      /\ LET d == CongestionDecision(controller, controller'.metrics)
                         IN ~d.congested /\ ~d.dropDelta /\ ~d.requestKeyframe
    OBVIOUS
  <2>1. Report
    BY DEF LoopNext, loopVars, ReceivePacket, ChangePath
  <2> QED
    BY <2>1, CalmReportKeepsRate
<1>4. Spec => []IInv
  BY InitTracks, NextTracks, PTL DEF Spec
<1>5. LoopSpec => []RateInv
  BY InitWithin, StepStaysWithin, PTL DEF LoopSpec
<1> QED
  BY <1>1, <1>2, <1>3, <1>4, <1>5, LoopImplementsFlow, PTL DEF LoopSpec, CleanFlowIsNotCut

-----------------------------------------------------------------------------
(* The cut of a frame.                                                      *)

(* A ceiling is the least multiplier that reaches.                          *)
LEMMA CeilDivIs ==
  ASSUME NEW a \in Nat, NEW b \in Nat \ {0}
  PROVE  /\ CeilDiv(a, b) \in Nat
         /\ a <= CeilDiv(a, b) * b
         /\ (CeilDiv(a, b) - 1) * b < a
         /\ \A q \in Nat : a <= q * b => CeilDiv(a, b) <= q
<1> DEFINE c == (a + b - 1) \div b
           r == (a + b - 1) % b
<1>1. c \in Nat /\ r \in 0..b-1 /\ a + b - 1 = b * c + r
  <2>1. a + b - 1 \in Nat
    OBVIOUS
  <2> QED
    BY <2>1
<1>2. CeilDiv(a, b) = c
  BY DEF CeilDiv
<1> HIDE DEF c, r
<1>3. (c - 1) * b = b * c - b /\ c * b = b * c
  BY <1>1
<1>4. ASSUME NEW q \in Nat, a <= q * b PROVE c <= q
  <2> SUFFICES ASSUME c > q PROVE FALSE
    BY <1>1
  <2>1. PICK e \in Nat : c = q + 1 + e
    BY <1>1
  <2>2. b * c = q * b + b + e * b /\ e * b \in Nat /\ q * b \in Nat
    BY <2>1
  <2> QED
    BY <1>1, <1>4, <2>2
<1>5. b * c \in Int
  BY <1>1
<1> QED
  BY <1>1, <1>2, <1>3, <1>4, <1>5

(* The blocks of a frame, but for their headers: none is longer than part,  *)
(* and they end where the frame does.                                       *)
LEMMA CutIs ==
  ASSUME NEW len \in Nat, NEW part \in Nat \ {0}
  PROVE  LET m == Max({CeilDiv(len, part), 1}) IN
         /\ m \in Nat \ {0}
         /\ Min({m * part, len}) = len
         /\ m = 1 => len <= part
         /\ \A i \in 1..m : /\ Min({i * part, len}) - (i - 1) * part \in 0..part
                            /\ Min({(i - 1) * part, len}) = (i - 1) * part
<1> DEFINE c == CeilDiv(len, part)
           m == Max({c, 1})
<1>1. c \in Nat /\ len <= c * part /\ (c - 1) * part < len
  BY CeilDivIs
<1> HIDE DEF c
<1>2. m = IF c >= 1 THEN c ELSE 1
  BY <1>1, MaxOfTwo
<1> HIDE DEF m
<1>3. m \in Nat \ {0} /\ len <= m * part /\ (m = 1 => len <= part)
  <2>1. CASE c >= 1
    BY <1>1, <1>2, <2>1
  <2>2. CASE c = 0
    BY <1>1, <1>2, <2>2
  <2> QED
    BY <1>1, <2>1, <2>2
<1>4. ASSUME NEW x \in Nat PROVE Min({x, len}) = IF x <= len THEN x ELSE len
  BY MinOfTwo
<1>5. m * part \in Nat
  BY <1>3
<1>6. Min({m * part, len}) = len
  BY <1>3, <1>4, <1>5
<1>7. ASSUME NEW i \in 1..m
      PROVE  /\ Min({i * part, len}) - (i - 1) * part \in 0..part
             /\ Min({(i - 1) * part, len}) = (i - 1) * part
  <2>1. i \in Nat /\ i - 1 \in Nat
    BY <1>3
  <2>2. i * part \in Nat /\ (i - 1) * part \in Nat /\ i * part = (i - 1) * part + part
    BY <2>1
  <2>3. (i - 1) * part <= len
    <3>1. CASE i = 1
      <4>1. (i - 1) * part = 0
        BY <3>1
      <4> QED
        BY <4>1
    <3>2. CASE i > 1
      <4>1. m = c /\ i <= c
        BY <1>1, <1>2, <3>2
      <4>2. PICK e \in Nat : c - 1 = (i - 1) + e
        BY <1>1, <2>1, <4>1
      <4>3. (c - 1) * part = (i - 1) * part + e * part /\ e * part \in Nat
        BY <2>1, <4>2
      <4> QED
        BY <1>1, <2>2, <4>3
    <3> QED
      BY <2>1, <3>1, <3>2
  <2> DEFINE x == i * part
             y == (i - 1) * part
  <2>4. x \in Nat /\ y \in Nat /\ x = y + part /\ y <= len
    BY <2>2, <2>3
  <2> HIDE DEF x, y
  <2>5. Min({x, len}) = (IF x <= len THEN x ELSE len) /\ Min({y, len}) = y
    BY <1>4, <2>4
  <2>6. Min({x, len}) - y \in 0..part
    BY <2>4, <2>5
  <2> QED
    BY <2>5, <2>6 DEF x, y
<1> QED
  BY <1>3, <1>6, <1>7 DEF m, c

(* What the blocks carry, block by block.                                   *)
LEMMA CarriedIs ==
  ASSUME NEW n \in Nat, NEW lens, DOMAIN lens = 1..n, \A i \in 1..n : lens[i] \in Int,
         NEW total \in [0..n -> Int], total[0] = 0,
         \A i \in 0..n-1 : total[i+1] = lens[i+1] - FrameHeader + total[i]
  PROVE  Carried(lens) = total[n]
<1> DEFINE step == [p \in (1..n) \X Int |-> lens[p[1]] - FrameHeader + p[2]]
           iter == CHOOSE f : f = [s \in SUBSET (DOMAIN lens) |->
                      IF s = {} THEN 0 ELSE lens[Max(s)] - FrameHeader + f[s \ {Max(s)}]]
<1>0. FrameHeader \in Nat
  BY ControllerAssumption
<1>1. Carried(lens) = iter[DOMAIN lens]
  BY DEF Carried, MapThenFoldSet
<1>2. step \in [(1..n) \X Int -> Int]
  BY <1>0
<1>3. PICK g \in [SUBSET (1..n) -> Int] : IsFold(n, 0, step, g)
  <2>1. 0 \in Int
    OBVIOUS
  <2> HIDE DEF step
  <2> QED
    BY <1>2, <2>1, FoldExists
<1>4. g = [s \in SUBSET (DOMAIN lens) |->
             IF s = {} THEN 0 ELSE lens[Max(s)] - FrameHeader + g[s \ {Max(s)}]]
  <2>1. ASSUME NEW s \in SUBSET (1..n), s # {}
        PROVE  step[<<Max(s), g[s \ {Max(s)}]>>] = lens[Max(s)] - FrameHeader + g[s \ {Max(s)}]
    <3>1. Max(s) \in 1..n /\ g[s \ {Max(s)}] \in Int
      BY <2>1, MaxOfNumbers
    <3> QED
      BY <3>1
  <2> HIDE DEF step
  <2> QED
    BY <1>3, <2>1 DEF IsFold
<1>5. iter = [s \in SUBSET (DOMAIN lens) |->
                IF s = {} THEN 0 ELSE lens[Max(s)] - FrameHeader + iter[s \ {Max(s)}]]
  BY <1>4
<1> HIDE DEF iter, step
<1>6. iter[1..0] = 0
  <2>1. 1..0 = {} /\ {} \in SUBSET (DOMAIN lens)
    OBVIOUS
  <2>2. iter[{}] = 0
    BY <1>5, <2>1
  <2> QED
    BY <2>1, <2>2
<1>7. ASSUME NEW i \in 0..n-1 PROVE iter[1..i+1] = lens[i+1] - FrameHeader + iter[1..i]
  <2>1. 1..i+1 \subseteq 1..n /\ i + 1 \in 1..i+1 /\ i \in Nat
    OBVIOUS
  <2>2. Max(1..i+1) = i + 1 /\ (1..i+1) \ {i + 1} = 1..i
    BY <2>1, IntervalTop
  <2>3. 1..i+1 \in SUBSET (DOMAIN lens) /\ 1..i+1 # {}
    BY <2>1
  <2>4. ASSUME NEW s \in SUBSET (DOMAIN lens), s # {}
        PROVE  iter[s] = lens[Max(s)] - FrameHeader + iter[s \ {Max(s)}]
    BY <1>5, <2>4
  <2>5. iter[1..i+1] = lens[Max(1..i+1)] - FrameHeader + iter[(1..i+1) \ {Max(1..i+1)}]
    BY <2>3, <2>4
  <2> QED
    BY <2>2, <2>5
<1> DEFINE S == {i \in Nat : i <= n => iter[1..i] = total[i]}
<1>8. 0 \in S
  BY <1>6
<1>9. ASSUME NEW i \in Nat, i \in S PROVE i + 1 \in S
  <2> SUFFICES ASSUME i + 1 <= n PROVE iter[1..i+1] = total[i+1]
    OBVIOUS
  <2>1. i \in 0..n-1 /\ i <= n
    OBVIOUS
  <2>2. iter[1..i] = total[i]
    BY <1>9, <2>1
  <2> QED
    BY <1>7, <2>1, <2>2
<1>10. n \in S
  <2> HIDE DEF S
  <2> QED
    BY <1>8, <1>9, Induction
<1> QED
  BY <1>1, <1>10

(* A policy that normalized() returned.                                     *)
Normal(p) ==
  /\ DOMAIN p = {"minSource", "maxSource", "minRepair", "maxRepair", "floorSource", "floorRepair",
                 "lossSafety", "minRatio", "maxRatio", "keyBoost", "audioBoost", "symbolSize"}
  /\ p.minSource \in Nat \ {0} /\ p.maxSource \in p.minSource..U16Max
  /\ p.symbolSize \in Nat \ {0}
  /\ p.minRepair \in Int /\ p.maxRepair \in Int /\ p.floorRepair \in Int /\ p.lossSafety \in Int
  /\ p.floorSource \in Int /\ p.minRatio \in Int /\ p.maxRatio \in Int
  /\ p.keyBoost \in Int /\ p.audioBoost \in Int

(* It does return such.                                                     *)
LEMMA NormalizedIsNormal ==
  ASSUME NEW q \in Policies
  PROVE  Normal(NormalizedPolicy(q))
<1> DEFINE p == NormalizedPolicy(q)
<1>0. U16Max \in Nat \ {0}
  BY ControllerAssumption
<1>1. q \in [minSource : 0..U16Max, maxSource : 0..U16Max, minRepair : Nat, maxRepair : Nat,
             floorSource : Nat, floorRepair : Nat, lossSafety : Nat,
             minRatio : Int, maxRatio : Int, keyBoost : Int, audioBoost : Int,
             symbolSize : 0..U16Max]
  BY FeedbackAssumption
<1>2. /\ q.minSource \in 0..U16Max /\ q.maxSource \in 0..U16Max /\ q.minRepair \in Nat /\ q.maxRepair \in Nat
      /\ q.floorSource \in Nat /\ q.floorRepair \in Nat /\ q.lossSafety \in Nat
      /\ q.symbolSize \in 0..U16Max
      /\ q.minRatio \in Int /\ q.maxRatio \in Int /\ q.keyBoost \in Int /\ q.audioBoost \in Int
  BY <1>1
<1>3. DOMAIN p = {"minSource", "maxSource", "minRepair", "maxRepair", "floorSource", "floorRepair",
                  "lossSafety", "minRatio", "maxRatio", "keyBoost", "audioBoost", "symbolSize"}
  BY <1>1 DEF NormalizedPolicy
<1>4. /\ p.minSource = Max({q.minSource, 1})
      /\ p.maxSource = Max({q.maxSource, q.minSource, 1})
      /\ p.minRepair = Min({q.minRepair, q.maxRepair})
      /\ p.maxRepair = q.maxRepair
      /\ p.floorRepair = Min({q.floorRepair, q.maxRepair})
      /\ p.lossSafety = Min({q.lossSafety, q.maxRepair})
  BY <1>1 DEF NormalizedPolicy
<1>5. /\ p.floorSource = Max({q.floorSource, 1})
      /\ p.minRatio = Max({q.minRatio, 0})
      /\ p.maxRatio = Max({q.maxRatio, q.minRatio, 0})
      /\ p.keyBoost = Max({q.keyBoost, 0}) /\ p.audioBoost = Max({q.audioBoost, 0})
      /\ p.symbolSize = Max({q.symbolSize, 1})
  BY <1>1 DEF NormalizedPolicy
<1> HIDE DEF p
<1>a. ASSUME NEW x \in Int, NEW y \in Int, NEW z \in Int
      PROVE  Max({x, y, z}) \in {x, y, z} /\ \A w \in {x, y, z} : w <= Max({x, y, z})
  <2> DEFINE s == {x, y, z}
  <2>1. IsFiniteSet({x})
    BY FS_Singleton
  <2>2. IsFiniteSet({x} \cup {y})
    BY <2>1, FS_AddElement
  <2>3. IsFiniteSet({x} \cup {y} \cup {z})
    BY <2>2, FS_AddElement
  <2>4. s = {x} \cup {y} \cup {z}
    OBVIOUS
  <2>5. s \in SUBSET Int /\ s # {} /\ IsFiniteSet(s)
    BY <2>3, <2>4
  <2> HIDE DEF s
  <2>6. Max(s) \in s /\ \A w \in s : w <= Max(s)
    BY <2>5, MaxOfFinite
  <2> QED
    BY <2>6 DEF s
<1>6. /\ p.minSource \in Nat \ {0} /\ p.symbolSize \in Nat \ {0}
      /\ p.minSource = IF q.minSource >= 1 THEN q.minSource ELSE 1
  BY <1>2, <1>4, <1>5, MaxOfTwo
<1>7. p.maxSource \in p.minSource..U16Max
  <2>1. /\ p.maxSource \in {q.maxSource, q.minSource, 1}
        /\ \A w \in {q.maxSource, q.minSource, 1} : w <= p.maxSource
    <3>1. q.maxSource \in Int /\ q.minSource \in Int /\ 1 \in Int
      BY <1>0, <1>2
    <3>2. p.maxSource = Max({q.maxSource, q.minSource, 1})
      BY <1>4
    <3>3. /\ Max({q.maxSource, q.minSource, 1}) \in {q.maxSource, q.minSource, 1}
          /\ \A w \in {q.maxSource, q.minSource, 1} : w <= Max({q.maxSource, q.minSource, 1})
      BY <1>a, <3>1, Zenon
    <3> QED
      BY <3>2, <3>3, Zenon
  <2> QED
    BY <1>0, <1>2, <1>6, <2>1
<1>8. p.minRepair \in Int /\ p.floorRepair \in Int /\ p.lossSafety \in Int /\ p.maxRepair \in Int
  BY <1>2, <1>4, MinOfTwo
<1>9. /\ p.floorSource \in Int /\ p.minRatio \in Int
      /\ p.keyBoost \in Int /\ p.audioBoost \in Int
  BY <1>2, <1>5, MaxOfTwo
<1>10. p.maxRatio \in Int
  <2>1. p.maxRatio \in {q.maxRatio, q.minRatio, 0}
    <3>1. q.maxRatio \in Int /\ q.minRatio \in Int /\ 0 \in Int
      BY <1>2
    <3> QED
      BY <1>a, <1>5, <3>1, Zenon
  <2> QED
    BY <1>2, <2>1
<1> QED
  BY <1>10, <1>3, <1>6, <1>7, <1>8, <1>9 DEF Normal, p

(* Normalising again changes nothing that a cut depends on.                 *)
LEMMA NormalizedAgain ==
  ASSUME NEW p, Normal(p)
  PROVE  LET again == NormalizedPolicy(p) IN
         /\ again.minSource = p.minSource /\ again.maxSource = p.maxSource
         /\ again.symbolSize = p.symbolSize
<1> DEFINE again == NormalizedPolicy(p)
<1>1. /\ again.minSource = Max({p.minSource, 1})
      /\ again.maxSource = Max({p.maxSource, p.minSource, 1})
      /\ again.symbolSize = Max({p.symbolSize, 1})
  BY DEF NormalizedPolicy, Normal
<1> HIDE DEF again
<1>2. again.minSource = p.minSource /\ again.symbolSize = p.symbolSize
  BY <1>1, MaxOfTwo DEF Normal
<1>3. again.maxSource = p.maxSource
  BY <1>1 DEF Normal, Max
<1> QED
  BY <1>2, <1>3 DEF again

(* Metrics that into_metrics returned.                                      *)
IsMetrics(m) ==
  /\ m.loss.num \in Nat /\ m.loss.den \in Nat \ {0}
  /\ m.jitter \in Nat /\ m.queue \in Nat

(* source_symbol_count is at least 1 and at most u16::MAX.                  *)
LEMMA SymbolsAre ==
  ASSUME NEW len \in Nat, NEW size \in Nat \ {0}
  PROVE  LET whole == CeilDiv(len, size)
             least == IF whole >= 1 THEN whole ELSE 1
         IN /\ SymbolsOf(len, size) = IF least <= U16Max THEN least ELSE U16Max
            /\ SymbolsOf(len, size) \in Nat \ {0}
            /\ whole \in Nat
<1>1. CeilDiv(len, size) \in Nat /\ U16Max \in Nat \ {0}
  BY CeilDivIs, ControllerAssumption
<1> DEFINE whole == CeilDiv(len, size)
           least == Max({whole, 1})
<1>2. SymbolsOf(len, size) = Min({least, U16Max})
  BY DEF SymbolsOf
<1> HIDE DEF whole
<1>3. whole \in Nat
  BY <1>1 DEF whole
<1>4. least = IF whole >= 1 THEN whole ELSE 1
  BY <1>3, MaxOfTwo
<1> HIDE DEF least
<1>5. Min({least, U16Max}) = IF least <= U16Max THEN least ELSE U16Max
  BY <1>1, <1>3, <1>4, MinOfTwo
<1> QED
  BY <1>1, <1>2, <1>3, <1>4, <1>5 DEF whole

(* What decide() decides.                                                   *)
LEMMA DecisionIs ==
  ASSUME NEW c, Normal(c.policy), NEW len \in Nat, NEW priority
  PROVE  LET size == SymbolSize(c, len, priority)
             d == Decide(c, len, priority) IN
         /\ size \in Nat \ {0} /\ d.symbolSize = size
         /\ SymbolsOf(len, size) \in Nat \ {0}
         /\ d.datagrams = SymbolsOf(len, size) + RepairSymbolsFor(c, SymbolsOf(len, size), priority)
         /\ d.source \in Nat \ {0} /\ d.source <= c.policy.maxSource /\ d.source <= U16Max
<1> DEFINE size == SymbolSize(c, len, priority)
           n == SymbolsOf(len, size)
           d == Decide(c, len, priority)
<1>1. size \in Nat \ {0}
  <2>1. Max({len, 1}) = IF len >= 1 THEN len ELSE 1
    BY MaxOfTwo
  <2>2. Max({len, 1}) \in Nat \ {0}
    BY <2>1
  <2>3. c.policy.symbolSize \in Nat \ {0}
    BY DEF Normal
  <2>4. Min({c.policy.symbolSize, Max({len, 1})})
          = IF c.policy.symbolSize <= Max({len, 1}) THEN c.policy.symbolSize ELSE Max({len, 1})
    BY <2>2, <2>3, MinOfTwo
  <2> QED
    BY <2>2, <2>3, <2>4 DEF SymbolSize
<1>2. /\ d.symbolSize = size /\ d.datagrams = n + RepairSymbolsFor(c, n, priority)
      /\ d.source = Min({Max({n, c.policy.minSource}), c.policy.maxSource})
  BY DEF Decide
<1> HIDE DEF size, d
<1>3. n \in Nat \ {0}
  BY <1>1, SymbolsAre
<1> HIDE DEF n
<1>4. d.source \in Nat \ {0} /\ d.source <= c.policy.maxSource /\ d.source <= U16Max
  <2>1. /\ c.policy.minSource \in Nat \ {0} /\ c.policy.maxSource \in Nat \ {0}
        /\ c.policy.maxSource <= U16Max /\ U16Max \in Nat
    BY ControllerAssumption DEF Normal
  <2>2. Max({n, c.policy.minSource}) \in Nat \ {0}
    BY <1>3, <2>1, MaxOfTwo
  <2> DEFINE x == Max({n, c.policy.minSource})
             y == c.policy.maxSource
  <2>3. x \in Int /\ y \in Int /\ x > 0 /\ y > 0 /\ d.source = Min({x, y})
    BY <1>2, <2>1, <2>2
  <2>5. y = c.policy.maxSource
    OBVIOUS
  <2> HIDE DEF x, y
  <2>4. Min({x, y}) = IF x <= y THEN x ELSE y
    BY <2>3, MinOfTwo
  <2> QED
    BY <2>1, <2>3, <2>4, <2>5
<1> QED
  BY <1>1, <1>2, <1>3, <1>4 DEF size, n, d

(* A quotient of integers is one.                                           *)
LEMMA QuotientIsInt == \A a \in Int, b \in Nat \ {0} : a \div b \in Int
OBVIOUS

(* The least and the greatest of two integers are integers.                 *)
LEMMA BoundsAreInt ==
  \A a, b \in Int : Min({a, b}) \in Int /\ Max({a, b}) \in Int /\ Min({a, b}) <= b /\ Min({a, b}) <= a
BY MinOfTwo, MaxOfTwo

(* repair_symbols_for returns a number, and no more than the policy allows. *)
LEMMA RepairIsWithin ==
  ASSUME NEW c, Normal(c.policy), IsMetrics(c.metrics), NEW n \in Nat, NEW priority
  PROVE  RepairSymbolsFor(c, n, priority) \in Int /\ RepairSymbolsFor(c, n, priority) <= c.policy.maxRepair
<1> DEFINE ratio == RepairRatio(c, priority)
<1>1. RatioBase(c) \in Nat \ {0} /\ Unit \in Nat \ {0}
  BY ControllerAssumption DEF IsMetrics, RatioBase
<1>2. ratio \in Int
  <2>1. ASSUME NEW delay \in Nat, NEW full \in Nat \ {0} PROVE Pressure(delay, full) \in Int
    <3>1. Min({delay, full}) \in Int /\ FullPressure \in Int
      <4>1. FullPressure \in Nat
        BY ControllerAssumption
      <4>2. Min({delay, full}) \in Int
        <5>1. delay \in Int /\ full \in Int
          OBVIOUS
        <5> QED
          BY <5>1, BoundsAreInt, Zenon
      <4> QED
        BY <4>1, <4>2
    <3>2. FullPressure * Min({delay, full}) \in Int
      BY <3>1
    <3> QED
      BY <3>2, QuotientIsInt DEF Pressure
  <2>2. Pressure(c.metrics.jitter, JitterFull) \in Int /\ Pressure(c.metrics.queue, QueueFull) \in Int
    BY <2>1, ControllerAssumption DEF IsMetrics
  <2>3. Boost(c, priority) \in Int
    BY DEF Boost, Normal
  <2> DEFINE units == c.policy.minRatio + Pressure(c.metrics.jitter, JitterFull)
                        + Pressure(c.metrics.queue, QueueFull) + Boost(c, priority)
  <2>4. units \in Int /\ c.policy.minRatio \in Int /\ c.policy.maxRatio \in Int
    BY <2>2, <2>3 DEF Normal
  <2> HIDE DEF units
  <2> DEFINE x == units * RatioBase(c) + 3 * c.metrics.loss.num * Unit
             low == c.policy.minRatio * RatioBase(c)
             high == c.policy.maxRatio * RatioBase(c)
  <2>5. x \in Int /\ low \in Int /\ high \in Int
    <3>1. 3 * c.metrics.loss.num * Unit \in Int
      BY <1>1 DEF IsMetrics
    <3> QED
      BY <1>1, <2>4, <3>1
  <2>6. ratio = Clamp(x, low, high)
    BY DEF RepairRatio, units
  <2> HIDE DEF x, low, high, ratio
  <2> QED
    BY <2>5, <2>6, BoundsAreInt DEF Clamp
<1>3. RatioRepair(c, n, priority) \in Int
  <2> DEFINE raw == n * ratio
             whole == RatioBase(c) * Unit
  <2>1. raw \in Int /\ whole \in Nat \ {0}
    BY <1>1, <1>2
  <2>2. RatioRepair(c, n, priority) \in {CeilDiv(raw, whole), 1, 0}
    BY DEF RatioRepair
  <2> HIDE DEF raw, whole
  <2>3. raw + whole - 1 \in Int
    BY <2>1
  <2>4. CeilDiv(raw, whole) \in Int
    BY <2>1, <2>3, QuotientIsInt DEF CeilDiv
  <2> QED
    BY <2>2, <2>4
<1>4. MediaFloor(c, n, priority) \in Int /\ LossSafety(c, n, priority) \in Int
  BY DEF MediaFloor, LossSafety, Normal
<1> DEFINE s == {RatioRepair(c, n, priority), c.policy.minRepair, MediaFloor(c, n, priority)}
<1>5. Max(s) \in Int
  <2>1. s \in SUBSET Int /\ s # {}
    BY <1>3, <1>4 DEF Normal
  <2>2. IsFiniteSet(s)
    <3>1. IsFiniteSet({RatioRepair(c, n, priority)})
      BY FS_Singleton
    <3>2. IsFiniteSet({RatioRepair(c, n, priority)} \cup {c.policy.minRepair})
      BY <3>1, FS_AddElement
    <3>3. IsFiniteSet({RatioRepair(c, n, priority)} \cup {c.policy.minRepair} \cup {MediaFloor(c, n, priority)})
      BY <3>2, FS_AddElement
    <3>4. s = {RatioRepair(c, n, priority)} \cup {c.policy.minRepair} \cup {MediaFloor(c, n, priority)}
      OBVIOUS
    <3> QED
      BY <3>3, <3>4
  <2> HIDE DEF s
  <2> QED
    BY <2>1, <2>2, MaxOfFinite
<1>6. c.policy.maxRepair \in Int /\ Max(s) + LossSafety(c, n, priority) \in Int
  BY <1>4, <1>5 DEF Normal
<1>7. RepairSymbolsFor(c, n, priority) = Min({Max(s) + LossSafety(c, n, priority), c.policy.maxRepair})
  BY DEF RepairSymbolsFor
<1> QED
  BY <1>6, <1>7, BoundsAreInt

(* A block that fits the bytes of a decision needs none but its symbols.    *)
LEMMA SymbolsFit ==
  ASSUME NEW len \in Nat, NEW size \in Nat \ {0}, NEW n \in Nat \ {0}, len <= n * size
  PROVE  SymbolsOf(len, size) \in Nat /\ SymbolsOf(len, size) <= n
<1>1. CeilDiv(len, size) \in Nat /\ CeilDiv(len, size) <= n
  BY CeilDivIs
<1>2. LET whole == CeilDiv(len, size)
          least == IF whole >= 1 THEN whole ELSE 1
      IN SymbolsOf(len, size) = IF least <= U16Max THEN least ELSE U16Max
  BY SymbolsAre
<1>3. U16Max \in Nat \ {0}
  BY ControllerAssumption
<1> QED
  BY <1>1, <1>2, <1>3

(* A block as long as all symbols of a decision needs them all.             *)
LEMMA FullBlockNeedsAll ==
  ASSUME NEW size \in Nat \ {0}, NEW n \in Nat \ {0}, n <= U16Max
  PROVE  SymbolsOf(n * size, size) = n
<1>0. n * size \in Nat /\ U16Max \in Nat
  BY ControllerAssumption
<1> DEFINE len == n * size
           whole == CeilDiv(len, size)
<1>1. whole \in Nat /\ len <= whole * size /\ \A q \in Nat : len <= q * size => whole <= q
  BY <1>0, CeilDivIs
<1>2. whole <= n
  BY <1>0, <1>1
<1>3. whole >= n
  <2> HIDE DEF whole
  <2> SUFFICES ASSUME whole < n PROVE FALSE
    BY <1>1
  <2>1. PICK e \in Nat : n = whole + 1 + e
    BY <1>1
  <2>2. len = whole * size + size + e * size /\ e * size \in Nat /\ whole * size \in Nat
    BY <1>1, <2>1
  <2> QED
    BY <1>1, <2>2
<1>4. LET l == IF whole >= 1 THEN whole ELSE 1
      IN SymbolsOf(len, size) = IF l <= U16Max THEN l ELSE U16Max
  BY <1>0, SymbolsAre
<1> HIDE DEF whole
<1>5. SymbolsOf(len, size) = n
  BY <1>0, <1>1, <1>2, <1>3, <1>4
<1> QED
  BY <1>5

(* A cut depends on the limits of source symbols and on the symbol size.    *)
LEMMA CutDependsOn ==
  ASSUME NEW a, NEW b, NEW len, NEW priority,
         a.policy.minSource = b.policy.minSource, a.policy.maxSource = b.policy.maxSource,
         a.policy.symbolSize = b.policy.symbolSize
  PROVE  /\ BlockLens(a, len, priority) = BlockLens(b, len, priority)
         /\ MayCut(a, len, priority) <=> MayCut(b, len, priority)
<1> DEFINE whole == len + FrameHeader
<1>1. SymbolSize(a, whole, priority) = SymbolSize(b, whole, priority)
  BY DEF SymbolSize
<1>2. /\ Decide(a, whole, priority).symbolSize = Decide(b, whole, priority).symbolSize
      /\ Decide(a, whole, priority).source = Decide(b, whole, priority).source
  BY <1>1 DEF Decide
<1> HIDE DEF whole
<1>3. MaxFragment(Decide(a, whole, priority)) = MaxFragment(Decide(b, whole, priority))
  BY <1>2 DEF MaxFragment, MaxPayloadLen
<1> QED
  BY <1>3 DEF BlockLens, MayCut, whole

(* The blocks of a frame.                                                   *)
LEMMA BlocksFit ==
  ASSUME NEW c, Normal(c.policy), IsMetrics(c.metrics), NEW len \in Nat, NEW priority,
         MayCut(c, len, priority)
  PROVE  LET d == Decide(c, len + FrameHeader, priority)
             lens == BlockLens(c, len, priority)
             blocks == FrameBlocks(c, len, priority)
         IN /\ Carried(lens) = len
            /\ \A i \in DOMAIN lens :
                 /\ blocks[i].source <= d.source /\ blocks[i].repair <= c.policy.maxRepair
                 /\ DOMAIN lens = {1} => blocks[i].source + blocks[i].repair = d.datagrams
                 /\ ~MayEncode(d, blocks[i]) =>
                      ~MayEncode(d, blocks[1]) /\ c.policy.maxSource > MaxSource
<1> DEFINE whole == len + FrameHeader
           size == SymbolSize(c, whole, priority)
           d == Decide(c, whole, priority)
           n == SymbolsOf(whole, size)
           lens == BlockLens(c, len, priority)
           blocks == FrameBlocks(c, len, priority)
           part == MaxFragment(d)
           m == FragmentsOf(len, part)
<1>0. FrameHeader \in Nat /\ whole \in Nat /\ MaxSource \in Nat /\ U16Max \in Nat
  BY ControllerAssumption
<1>1. /\ size \in Nat \ {0} /\ d.symbolSize = size /\ n \in Nat \ {0}
      /\ d.datagrams = n + RepairSymbolsFor(c, n, priority)
      /\ d.source \in Nat \ {0} /\ d.source <= c.policy.maxSource /\ d.source <= U16Max
  <2> HIDE DEF whole
  <2>1. LET s == SymbolSize(c, whole, priority)
            e == Decide(c, whole, priority) IN
        /\ s \in Nat \ {0} /\ e.symbolSize = s
        /\ SymbolsOf(whole, s) \in Nat \ {0}
        /\ e.datagrams = SymbolsOf(whole, s) + RepairSymbolsFor(c, SymbolsOf(whole, s), priority)
        /\ e.source \in Nat \ {0} /\ e.source <= c.policy.maxSource /\ e.source <= U16Max
    BY <1>0, DecisionIs, Zenon
  <2> QED
    BY <2>1, Zenon
<1>2. lens = [i \in 1..m |-> FrameHeader + Min({i * part, len}) - (i - 1) * part]
  BY DEF BlockLens
<1>3. blocks = [i \in DOMAIN lens |->
                  [len |-> lens[i], source |-> SymbolsOf(lens[i], size),
                   repair |-> RepairSymbolsFor(c, SymbolsOf(lens[i], size), priority)]]
  BY DEF FrameBlocks
<1>4. MaxPayloadLen(d) = d.source * size /\ MaxPayloadLen(d) \in Nat /\ part = MaxPayloadLen(d) - FrameHeader
  BY <1>1 DEF MaxPayloadLen, MaxFragment
<1>5. part \in Nat \ {0} /\ part + FrameHeader = d.source * size
  <2>1. part > 0
    BY DEF MayCut
  <2> QED
    BY <1>0, <1>4, <2>1
<1> HIDE DEF size, d, n, lens, blocks, part
<1>6. /\ m \in Nat \ {0} /\ Min({m * part, len}) = len /\ (m = 1 => len <= part)
      /\ \A i \in 1..m : /\ Min({i * part, len}) - (i - 1) * part \in 0..part
                         /\ Min({(i - 1) * part, len}) = (i - 1) * part
  BY <1>5, CutIs DEF FragmentsOf
<1>b. m > 1 => Min({1 * part, len}) = part
  <2> SUFFICES ASSUME m > 1 PROVE Min({1 * part, len}) = part
    OBVIOUS
  <2>1. 2 \in 1..m /\ 2 - 1 = 1
    BY <1>6
  <2>2. Min({(2 - 1) * part, len}) = (2 - 1) * part
    BY <1>6, <2>1
  <2> QED
    BY <1>5, <2>1, <2>2
<1> HIDE DEF m
<1> DEFINE total == [i \in 0..m |-> Min({i * part, len})]
<1>7. DOMAIN lens = 1..m
  BY <1>2
<1>8. ASSUME NEW i \in 1..m
      PROVE  /\ lens[i] \in FrameHeader..FrameHeader+part
             /\ lens[i] - FrameHeader + total[i-1] = total[i]
             /\ total[i] \in Int
  <2> DEFINE x == Min({i * part, len})
             y == (i - 1) * part
  <2>1. i \in Nat /\ y \in Int /\ i * part \in Int
    BY <1>5, <1>6
  <2>2. x - y \in 0..part /\ Min({(i - 1) * part, len}) = y
    BY <1>6
  <2>3. x \in Int
    <3>1. \A a, b \in Int : Min({a, b}) \in Int
      BY BoundsAreInt
    <3>2. len \in Int
      OBVIOUS
    <3> QED
      BY <2>1, <3>1, <3>2, Zenon
  <2>4. lens[i] = FrameHeader + x - y
    BY <1>2
  <2>5. i \in 0..m /\ i - 1 \in 0..m
    BY <1>6
  <2>6. total[i] = x /\ total[i-1] = y
    BY <2>2, <2>5
  <2> HIDE DEF x, y, total
  <2> QED
    BY <1>0, <1>5, <2>1, <2>2, <2>3, <2>4, <2>6
<1>9. Carried(lens) = len
  <2>1. total[0] = 0
    <3>1. 0 * part = 0 /\ 0 \in 0..m
      BY <1>5, <1>6
    <3>2. Min({0, len}) = 0
      BY MinOfTwo
    <3> QED
      BY <3>1, <3>2
  <2>2. total \in [0..m -> Int]
    <3>1. ASSUME NEW i \in 0..m PROVE Min({i * part, len}) \in Int
      <4>1. i * part \in Int /\ len \in Int
        BY <1>5
      <4>2. \A a, b \in Int : Min({a, b}) \in Int
        BY BoundsAreInt
      <4> QED
        BY <4>1, <4>2, Zenon
    <3> QED
      BY <3>1
  <2>3. total[m] = len
    BY <1>6
  <2> HIDE DEF total
  <2>4. \A i \in 0..m-1 : total[i+1] = lens[i+1] - FrameHeader + total[i]
    <3> TAKE i \in 0..m-1
    <3>1. i + 1 \in 1..m /\ i + 1 - 1 = i
      BY <1>6
    <3> QED
      BY <1>8, <3>1
  <2>5. \A i \in 1..m : lens[i] \in Int
    BY <1>0, <1>5, <1>8
  <2> QED
    BY <1>6, <1>7, <2>1, <2>2, <2>3, <2>4, <2>5, CarriedIs
<1>11. m > 1 => blocks[1].source = d.source
  <2> SUFFICES ASSUME m > 1 PROVE blocks[1].source = d.source
    OBVIOUS
  <2>1. 1 \in 1..m
    BY <1>6
  <2>2. blocks[1].source = SymbolsOf(lens[1], size)
    BY <1>3, <1>7, <2>1
  <2>3. lens[1] = FrameHeader + Min({1 * part, len}) - (1 - 1) * part
    BY <1>2, <2>1
  <2>4. lens[1] = d.source * size
    <3>1. Min({1 * part, len}) = part /\ (1 - 1) * part = 0
      BY <1>5, <1>b
    <3>2. lens[1] = FrameHeader + part - 0
      BY <2>3, <3>1
    <3> QED
      BY <1>0, <1>5, <3>2
  <2>5. SymbolsOf(d.source * size, size) = d.source
    BY <1>1, FullBlockNeedsAll
  <2> QED
    BY <2>2, <2>4, <2>5
<1>10. ASSUME NEW i \in 1..m
       PROVE  /\ blocks[i].source <= d.source /\ blocks[i].repair <= c.policy.maxRepair
              /\ DOMAIN lens = {1} => blocks[i].source + blocks[i].repair = d.datagrams
              /\ ~MayEncode(d, blocks[i]) =>
                   ~MayEncode(d, blocks[1]) /\ c.policy.maxSource > MaxSource
  <2>1. /\ blocks[i].len = lens[i] /\ blocks[i].source = SymbolsOf(lens[i], size)
        /\ blocks[i].repair = RepairSymbolsFor(c, blocks[i].source, priority)
    BY <1>3, <1>7
  <2>2. lens[i] \in Nat /\ lens[i] <= d.source * size
    <3>1. lens[i] \in FrameHeader..FrameHeader+part
      BY <1>8
    <3>2. lens[i] \in Nat /\ lens[i] <= part + FrameHeader
      BY <1>0, <1>5, <3>1
    <3> QED
      BY <1>5, <3>2
  <2>3. blocks[i].source \in Nat /\ blocks[i].source <= d.source
    BY <1>1, <2>1, <2>2, SymbolsFit
  <2>4. blocks[i].repair <= c.policy.maxRepair
    BY <2>1, <2>3, RepairIsWithin
  <2>5. ASSUME DOMAIN lens = {1} PROVE blocks[i].source + blocks[i].repair = d.datagrams
    <3>1. m = 1 /\ i = 1
      <4>1. m \in 1..m
        BY <1>6
      <4> QED
        BY <1>7, <2>5, <4>1
    <3>2. Min({1 * part, len}) = len /\ (1 - 1) * part = 0
      BY <1>5, <1>6, <3>1
    <3>3. lens[1] = whole
      BY <1>0, <1>2, <3>1, <3>2
    <3>4. blocks[i].source = n
      BY <2>1, <3>1, <3>3 DEF n
    <3> QED
      BY <1>1, <2>1, <3>4
  <2>6. ASSUME ~MayEncode(d, blocks[i])
        PROVE  ~MayEncode(d, blocks[1]) /\ c.policy.maxSource > MaxSource
    <3>1. blocks[i].source > MaxSource
      <4>1. blocks[i].len <= MaxPayloadLen(d)
        BY <1>4, <2>1, <2>2
      <4> QED
        BY <1>0, <2>3, <2>6, <4>1 DEF MayEncode
    <3>2. c.policy.maxSource > MaxSource
      <4>1. c.policy.maxSource \in Int
        BY <1>0 DEF Normal
      <4> QED
        BY <1>0, <1>1, <2>3, <3>1, <4>1
    <3>3. ~MayEncode(d, blocks[1])
      <4>1. CASE m > 1
        <5>1. blocks[1].source > MaxSource
          BY <1>0, <1>1, <1>11, <2>3, <3>1, <4>1
        <5>2. blocks[1].source \in Nat
          BY <1>1, <1>11, <4>1
        <5> QED
          BY <1>0, <5>1, <5>2 DEF MayEncode
      <4>2. CASE m = 1
        <5>1. i = 1
          BY <4>2
        <5> QED
          BY <2>6, <5>1
      <4> QED
        BY <1>6, <4>1, <4>2
    <3> QED
      BY <3>2, <3>3
  <2> QED
    BY <2>3, <2>4, <2>5, <2>6
<1> QED
  BY <1>7, <1>9, <1>10 DEF d, lens, blocks

(* The tracker counts its losses.                                           *)
LEMMA MissingIsCounted == ASSUME IInv PROVE Cardinality(tracker.missing) \in Nat
<1>1. tracker.missing \subseteq SeqIds
  BY NothingTracked, TrackingHolds DEF NewTracker, Tracking, TrackerType
<1>2. IsFiniteSet(SeqIds)
  <2>1. 0 \in Int /\ SequenceMod - 1 \in Int
    BY SequenceAssumption
  <2> QED
    BY <2>1, FS_Interval DEF SeqIds
<1> QED
  BY <1>1, <1>2, FS_Subset, FS_CardinalityType

(* into_metrics returns what IsMetrics says.                                *)
LEMMA ObservedIsMetrics ==
  ASSUME IInv, Counted, path \in PathStates
  PROVE  IsMetrics(IntoMetrics(received, Cardinality(tracker.missing), path))
<1> DEFINE missing == Cardinality(tracker.missing)
           f == IF path.loss = {} THEN LossFraction(received, missing) ELSE CHOOSE g \in path.loss : TRUE
<1>1. missing \in Nat /\ received \in Nat
  BY MissingIsCounted DEF Counted
<1> HIDE DEF missing
<1>2. f \in [num : Nat, den : Nat \ {0}]
  <2>1. CASE path.loss = {}
    <3>1. f = LossFraction(received, missing)
      BY <2>1
    <3>2. LossFraction(received, missing) \in [num : Nat, den : Nat \ {0}]
      BY <1>1 DEF LossFraction, NoLoss
    <3> QED
      BY <3>1, <3>2
  <2>2. CASE path.loss # {}
    BY <2>2, FeedbackAssumption
  <2> QED
    BY <2>1, <2>2
<1> HIDE DEF f
<1>3. ClampedFraction(f).num \in Nat /\ ClampedFraction(f).den \in Nat \ {0}
  <2>1. f.num \in Nat /\ f.den \in Nat \ {0}
    BY <1>2
  <2>2. Min({f.num, f.den}) \in Nat
    BY <2>1, MinOfTwo
  <2>3. ClampedFraction(f).num = Min({f.num, f.den}) /\ ClampedFraction(f).den = f.den
    BY <1>2 DEF ClampedFraction
  <2> QED
    BY <2>1, <2>2, <2>3
<1>4. path.jitter \in Nat /\ path.queue \in Nat
  BY FeedbackAssumption
<1> QED
  BY <1>3, <1>4 DEF IntoMetrics, IsMetrics, f, missing

(* The policy is one that normalized() returned, the metrics are ones that  *)
(* into_metrics returned.                                                   *)
CutInv == LimitsAreKept /\ Normal(controller.policy) /\ IsMetrics(controller.metrics)

(* A new controller has such.                                               *)
LEMMA InitCut == LoopInit /\ RateInv => CutInv
<1> SUFFICES ASSUME LoopInit, RateInv PROVE CutInv
  OBVIOUS
<1>1. PICK policy \in Policies : controller = NewController(policy, Congestion)
  BY DEF LoopInit
<1>2. controller.policy = NormalizedPolicy(policy)
  BY <1>1 DEF NewController
<1>3. IsMetrics(controller.metrics)
  BY <1>1 DEF NewController, NoLoss, IsMetrics
<1> QED
  BY <1>2, <1>3, NormalizedIsNormal DEF CutInv, RateInv

(* A report replaces the metrics and keeps the policy.                      *)
LEMMA StepKeepsCut ==
  ASSUME CutInv, RateInv', IInv, Counted, [LoopNext]_loopVars
  PROVE  CutInv'
<1>1. ASSUME controller' = controller PROVE CutInv'
  BY <1>1 DEF CutInv, RateInv
<1>2. CASE Report
  <2>1. PICK observed \in {IntoMetrics(received, Cardinality(tracker.missing), path)} :
          controller' = UpdateNetworkMetrics(controller, observed)
    BY <1>2 DEF Report
  <2>2. IsMetrics(observed)
    BY ObservedIsMetrics DEF CutInv, LimitsAreKept
  <2>3. controller'.policy = controller.policy /\ controller'.metrics = observed
    BY <2>1 DEF UpdateNetworkMetrics, CutInv, LimitsAreKept
  <2> QED
    BY <2>2, <2>3 DEF CutInv, RateInv
<1> QED
  BY <1>1, <1>2 DEF LoopNext, loopVars, ReceivePacket, ChangePath

(* Whatever the network reported and whatever the policy, a frame that      *)
(* encode_frame does not refuse for its size alone is cut into blocks that  *)
(* carry it once, none with more symbols than the decision or more repair   *)
(* than the policy allows; encode_block fails for the first block or for    *)
(* none; and a frame encoded again is cut, or refused, as it was before.    *)
THEOREM FramesAlwaysFit == LoopSpec => []FramesFitTheirBlocks
<1>0. ASSUME CutInv, NEW len, NEW priority
      PROVE  LET first == NewController(controller.policy, Congestion)
             IN /\ MayCut(controller, len, priority) <=> MayCut(first, len, priority)
                /\ BlockLens(controller, len, priority) = BlockLens(first, len, priority)
  <2>1. Normal(controller.policy)
    BY <1>0 DEF CutInv
  <2>2. NewController(controller.policy, Congestion).policy = NormalizedPolicy(controller.policy)
    BY DEF NewController
  <2> QED
    BY <2>1, <2>2, NormalizedAgain, CutDependsOn
<1>1. CutInv => FramesFitTheirBlocks
  <2> SUFFICES ASSUME CutInv, NEW len \in FrameSizes, NEW priority \in Priorities,
                      MayCut(controller, len, priority)
               PROVE  LET d == Decide(controller, len + FrameHeader, priority)
                          lens == BlockLens(controller, len, priority)
                          blocks == FrameBlocks(controller, len, priority)
                      IN /\ Carried(lens) = len
                         /\ \A i \in DOMAIN lens :
                              /\ blocks[i].source <= d.source
                              /\ blocks[i].repair <= controller.policy.maxRepair
                              /\ DOMAIN lens = {1} => blocks[i].source + blocks[i].repair = d.datagrams
                              /\ ~MayEncode(d, blocks[i]) =>
                                   ~MayEncode(d, blocks[1]) /\ controller.policy.maxSource > MaxSource
    BY <1>0 DEF FramesFitTheirBlocks
  <2>1. len \in Nat /\ Normal(controller.policy) /\ IsMetrics(controller.metrics)
    BY FeedbackAssumption DEF CutInv
  <2> QED
    BY <2>1, BlocksFit
<1>2. LoopInit => Counted
  BY DEF LoopInit, Counted
<1>3. Counted /\ [LoopNext]_loopVars => Counted'
  BY DEF Counted, LoopNext, loopVars, ReceivePacket, ChangePath, Report
<1>4. Spec => []IInv
  BY InitTracks, NextTracks, PTL DEF Spec
<1>5. CutInv /\ RateInv' /\ IInv /\ Counted /\ [LoopNext]_loopVars => CutInv'
  BY StepKeepsCut
<1>6. LoopSpec => []RateInv
  BY InitWithin, StepStaysWithin, PTL DEF LoopSpec
<1> QED
  BY <1>1, <1>2, <1>3, <1>4, <1>5, <1>6, InitCut, LoopImplementsFlow, PTL DEF LoopSpec

=============================================================================
