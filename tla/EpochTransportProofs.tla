------------------------- MODULE EpochTransportProofs -------------------------
(***************************************************************************)
(* Proofs about MultichannelAudioFec, and about EpochTransport, which sends *)
(* its epochs.                                                              *)
(***************************************************************************)
EXTENDS EpochTransport, Facts, SequenceTheorems

-----------------------------------------------------------------------------
(* Types, and what bounds the decoder's state.                              *)

DecoderType(d) ==
  /\ d = [blocks |-> d.blocks, completed |-> d.completed]
  /\ d.completed \subseteq Ids
  /\ InFlight(d) \subseteq Ids
  /\ d.blocks \in [InFlight(d) -> [k : Nat, symbols : SUBSET Nat]]

IsAudio(a) ==
  a = [fec |-> a.fec, delivered |-> a.delivered, inFlight |-> a.inFlight, completed |-> a.completed]

(* inFlight may have one id more before observe_in_flight evicts one.       *)
AudioType(a) ==
  /\ IsAudio(a)
  /\ DecoderType(a.fec)
  /\ a.inFlight \in Seq(Ids) /\ IsInjective(a.inFlight)
  /\ a.completed \in Seq(Ids) /\ IsInjective(a.completed) /\ Len(a.completed) <= MaxCompleted
  /\ DOMAIN a.delivered \subseteq Range(a.inFlight)
  /\ a.delivered \in [DOMAIN a.delivered -> SUBSET Nat]
  /\ InFlight(a.fec) \subseteq Range(a.inFlight)

TypeOK ==
  /\ blockId \in Ids
  /\ sent \in Seq([id : Ids, k : Shards]) /\ Len(sent) <= MaxEpochs
  /\ AudioType(audio) /\ Len(audio.inFlight) <= MaxInFlight
  /\ arrived \in [Epochs -> SUBSET Nat]
  /\ returned \in [Epochs -> [ShardIndices -> Nat]]
  /\ givenUp \subseteq Sent

-----------------------------------------------------------------------------
(* The window of the closed epochs, in ids that do not wrap.                *)

(* What was put into the queue after x.                                     *)
Behind(queue, x) ==
  {queue[j] : j \in {j \in DOMAIN queue : \E i \in DOMAIN queue : i < j /\ queue[i] = x}}

(* The ids too old for a datagram of theirs to come after one of x's, which *)
(* can close after x only because they are in flight.                       *)
Older(flying, queue, x) == {y \in flying \cup Behind(queue, x) : y < x - Delay}

(* An id that is finished, and whose datagrams can still come, is           *)
(* remembered, with no more than left older ones.                           *)
Window(flying, queue, finished, top, left) ==
  /\ flying \cup finished \subseteq 0..top
  /\ flying \cap finished = {}
  /\ Range(queue) \subseteq finished
  /\ \A x \in finished : top <= x + Delay =>
       /\ x \in Range(queue)
       /\ Cardinality(Older(flying, queue, x)) <= left

(* How many of them there are when x closes: x leaves a place in the queue, *)
(* unless one datagram decodes it before it is put there.                   *)
LeftBehind == IF 1 \in Shards THEN MaxInFlight ELSE MaxInFlight - 1

(* The ids whose datagrams can come while those of x can, and among them    *)
(* the ones that have not come into flight.                                 *)
Near(x) == (x-Delay..x+Delay) \ {x}
Unjoined(flying, finished, x) == Near(x) \ (flying \cup finished)

OldBehind(queue, x) == {y \in Behind(queue, x) : y < x - Delay}

(* The same, of an application that does not expire: an id too old for its  *)
(* own datagrams is closed only when one comes into flight that is near, so *)
(* the old ones behind x are no more than the near ones that have.          *)
JoinWindow(flying, queue, finished, top, left) ==
  /\ flying \cup finished \subseteq 0..top
  /\ flying \cap finished = {}
  /\ Range(queue) \subseteq finished
  /\ \A x \in finished : top <= x + Delay =>
       /\ x \in Range(queue)
       /\ Cardinality(OldBehind(queue, x)) + Cardinality(Unjoined(flying, finished, x)) <= left

(* Whether the queue has room for all that can be left in flight.           *)
HoldsAllInFlight == 2 * Delay + LeftBehind < MaxCompleted

(* The window of the closed epochs.                                         *)
ClosedWindow(flying, queue, finished, top) ==
  IF HoldsAllInFlight THEN Window(flying, queue, finished, top, LeftBehind)
  ELSE JoinWindow(flying, queue, finished, top, 2 * Delay)

Finished(n) == Whole(n) \/ n \in givenUp
FinishedIds == {sent[n].id : n \in {n \in Sent : Finished(n)}}
Top == IF sent = <<>> THEN -1 ELSE sent[Len(sent)].id

IdsAreOrdinals ==
  \E first \in FirstIds :
    /\ blockId = (first + Len(sent)) % IdMod
    /\ \A n \in Sent : sent[n].id = first + n - 1

(* An epoch that is open has returned just the source shards that came, and *)
(* the RaptorQ decoder has what came as long as more can come.              *)
IsHeld(n) ==
  /\ ~(0..sent[n].k-1 \subseteq arrived[n])
  /\ Delivered(audio, sent[n].id) = arrived[n] \cap 0..sent[n].k-1
  /\ \A i \in ShardIndices :
       returned[n][i] = IF i \in Delivered(audio, sent[n].id) THEN 1 ELSE 0
  /\ Deliverable(n) =>
       /\ Held(audio.fec, sent[n].id) = arrived[n]
       /\ sent[n].id \in InFlight(audio.fec) => audio.fec.blocks[sent[n].id].k = sent[n].k

OpenIsHeld == \A n \in Sent : ~Finished(n) => IsHeld(n)

FlyingIsSent == Range(audio.inFlight) \subseteq {sent[n].id : n \in Sent}

UnsentIsUntouched ==
  \A n \in Epochs \ Sent : arrived[n] = {} /\ \A i \in ShardIndices : returned[n][i] = 0

ReturnedOnce == \A n \in Sent : Finished(n) => \A i \in ShardIndices : returned[n][i] <= 1

IInv ==
  /\ TypeOK
  /\ IdsAreOrdinals
  /\ ClosedWindow(Range(audio.inFlight), audio.completed, FinishedIds, Top)
  /\ audio.fec.completed \subseteq FinishedIds
  /\ OpenIsHeld
  /\ FlyingIsSent
  /\ UnsentIsUntouched
  /\ ReturnedOnce

-----------------------------------------------------------------------------
(* The queue of the closed epochs.                                          *)

(* Behind, by positions.                                                    *)
LEMMA BehindIs ==
  ASSUME NEW A, NEW q \in Seq(A), NEW x, NEW z
  PROVE  z \in Behind(q, x) <=> \E i, j \in 1..Len(q) : i < j /\ q[i] = x /\ q[j] = z
<1>1. DOMAIN q = 1..Len(q)
  OBVIOUS
<1> QED
  BY <1>1 DEF Behind

(* Behind the last element there is nothing, behind the others the last too. *)
LEMMA BehindAppend ==
  ASSUME NEW A, NEW q \in Seq(A), NEW x \in A, x \notin Range(q)
  PROVE  /\ Behind(Append(q, x), x) = {}
         /\ \A y : Behind(Append(q, x), y) \subseteq Behind(q, y) \cup {x}
<1> DEFINE r == Append(q, x)
           n == Len(q)
<1>1. /\ n \in Nat /\ r \in Seq(A) /\ Len(r) = n + 1 /\ r[n+1] = x
      /\ \A i \in 1..n : r[i] = q[i]
  OBVIOUS
<1>2. \A i \in 1..n : q[i] # x
  BY RangeIs
<1>3. \A i, j \in 1..n+1 : i < j => i \in 1..n /\ (j \in 1..n \/ j = n + 1)
  BY <1>1
<1> HIDE DEF r, n
<1>4. ASSUME NEW z \in Behind(r, x) PROVE FALSE
  <2>1. PICK i, j \in 1..n+1 : i < j /\ r[i] = x
    <3>1. \E i, j \in 1..Len(r) : i < j /\ r[i] = x /\ r[j] = z
      BY <1>1, <1>4, BehindIs
    <3> QED
      BY <1>1, <3>1
  <2> QED
    BY <1>1, <1>2, <1>3, <2>1
<1>5. ASSUME NEW y, NEW z \in Behind(r, y) PROVE z \in Behind(q, y) \cup {x}
  <2>1. PICK i, j \in 1..n+1 : i < j /\ r[i] = y /\ r[j] = z
    BY <1>1, <1>5, BehindIs
  <2>2. CASE j = n + 1
    BY <1>1, <2>1, <2>2
  <2>3. CASE j # n + 1
    <3>1. i \in 1..n /\ j \in 1..n
      BY <1>3, <2>1, <2>3
    <3>2. q[i] = y /\ q[j] = z
      BY <1>1, <2>1, <3>1
    <3> QED
      BY <2>1, <3>1, <3>2, BehindIs DEF n
  <2> QED
    BY <2>2, <2>3
<1> QED
  BY <1>4, <1>5 DEF r

(* Without its first element, nothing more is behind the others.            *)
LEMMA BehindTail ==
  ASSUME NEW A, NEW q \in Seq(A), q # <<>>, IsInjective(q)
  PROVE  /\ \A y : Behind(Tail(q), y) \subseteq Behind(q, y)
         /\ Behind(q, Head(q)) = Range(Tail(q))
<1> DEFINE t == Tail(q)
           n == Len(q)
<1>1. /\ n \in Nat /\ n >= 1 /\ t \in Seq(A) /\ Len(t) = n - 1 /\ Head(q) = q[1]
      /\ \A i \in 1..n-1 : t[i] = q[i+1] /\ i + 1 \in 1..n /\ 1 < i + 1
  OBVIOUS
<1>2. \A i, j \in 1..n : q[i] = q[j] => i = j
  BY RangeIs
<1>3. Range(t) = {t[i] : i \in 1..n-1}
  <2>1. t \in Seq(A) /\ Len(t) = n - 1
    BY <1>1
  <2> HIDE DEF t, n
  <2> QED
    BY <2>1, RangeIs
<1>4. \A y, z : z \in Behind(q, y) <=> \E i, j \in 1..n : i < j /\ q[i] = y /\ q[j] = z
  BY BehindIs
<1> HIDE DEF t, n
<1>5. \A y, z : z \in Behind(t, y) <=> \E i, j \in 1..n-1 : i < j /\ t[i] = y /\ t[j] = z
  <2>1. \A y, z : z \in Behind(t, y) <=> \E i, j \in 1..Len(t) : i < j /\ t[i] = y /\ t[j] = z
    <3>1. t \in Seq(A)
      BY <1>1
    <3> QED
      BY <3>1, BehindIs
  <2> QED
    BY <1>1, <2>1
<1>6. ASSUME NEW y, NEW z \in Behind(t, y) PROVE z \in Behind(q, y)
  <2>1. PICK i, j \in 1..n-1 : i < j /\ t[i] = y /\ t[j] = z
    BY <1>5, <1>6
  <2>2. i + 1 < j + 1 /\ i + 1 \in 1..n /\ j + 1 \in 1..n /\ q[i+1] = y /\ q[j+1] = z
    BY <1>1, <2>1
  <2> QED
    BY <1>4, <2>2
<1>7. ASSUME NEW z \in Behind(q, q[1]) PROVE z \in Range(t)
  <2>1. PICK i, j \in 1..n : i < j /\ q[i] = q[1] /\ q[j] = z
    BY <1>4, <1>7
  <2>2. j - 1 \in 1..n-1 /\ (j - 1) + 1 = j
    BY <1>1, <2>1
  <2>3. t[j-1] = z
    BY <1>1, <2>1, <2>2
  <2> QED
    BY <1>3, <2>2, <2>3
<1>8. ASSUME NEW z \in Range(t) PROVE z \in Behind(q, q[1])
  <2>1. PICK i \in 1..n-1 : z = t[i]
    BY <1>3, <1>8
  <2>2. 1 < i + 1 /\ 1 \in 1..n /\ i + 1 \in 1..n /\ q[i+1] = z
    BY <1>1, <2>1
  <2> QED
    BY <1>4, <2>2
<1> QED
  BY <1>1, <1>6, <1>7, <1>8 DEF t

(* remember_closed, for a queue of any limit.                               *)
Remember(limit, queue, id) ==
  IF id \in Range(queue) THEN queue
  ELSE IF Len(queue) >= limit THEN Append(Tail(queue), id)
  ELSE Append(queue, id)

(* It is this.                                                              *)
LEMMA RememberClosedIs ==
  \A queue, id : RememberClosed(queue, id) = Remember(MaxCompleted, queue, id)
BY DEF RememberClosed, Remember

(* What r is to q, when it remembers a new id x as well: what it forgets    *)
(* had as many ids behind it as the queue has places.                       *)
Remembers(limit, A, q, x, r) ==
  /\ r \in Seq(A) /\ IsInjective(r) /\ Len(r) <= limit
  /\ x \in Range(r) /\ Range(r) \subseteq Range(q) \cup {x} /\ Behind(r, x) = {}
  /\ \A y \in A : Behind(r, y) \subseteq Behind(q, y) \cup {x}
  /\ \A y \in Range(q) \ Range(r) :
       y \notin Behind(q, y) /\ Cardinality(Behind(q, y) \cup {x}) = limit

(* remember_closed of a new id.                                             *)
LEMMA RememberNew ==
  ASSUME NEW limit \in Nat, limit >= 1, NEW A, NEW q \in Seq(A), IsInjective(q), Len(q) <= limit,
         NEW x \in A, x \notin Range(q)
  PROVE  Remembers(limit, A, q, x, Remember(limit, q, x))
<1> DEFINE r == Remember(limit, q, x)
<1>1. Len(q) \in Nat
  OBVIOUS
<1>2. CASE Len(q) < limit
  <2>1. r = Append(q, x)
    BY <1>1, <1>2 DEF Remember
  <2>2. Range(q) \ Range(r) = {}
    BY <2>1, AppendQueue
  <2> QED
    BY <1>1, <1>2, <2>1, <2>2, AppendQueue, BehindAppend DEF Remembers
<1>3. CASE ~(Len(q) < limit)
  <2> DEFINE t == Tail(q)
  <2>1. r = Append(t, x) /\ Len(q) = limit /\ q # <<>>
    BY <1>1, <1>3 DEF Remember
  <2>2. /\ t \in Seq(A) /\ Len(t) = Len(q) - 1 /\ IsInjective(t)
        /\ Range(t) = Range(q) \ {Head(q)} /\ Head(q) \in Range(q)
    BY <2>1, TailQueue
  <2>3. x \notin Range(t)
    BY <2>2
  <2> HIDE DEF t
  <2>4. /\ r \in Seq(A) /\ Len(r) = Len(t) + 1 /\ IsInjective(r)
        /\ Range(r) = Range(t) \cup {x}
    BY <2>1, <2>2, <2>3, AppendQueue
  <2>5. /\ Behind(r, x) = {}
        /\ \A y : Behind(r, y) \subseteq Behind(t, y) \cup {x}
    BY <2>1, <2>2, <2>3, BehindAppend
  <2>6. \A y : Behind(t, y) \subseteq Behind(q, y)
    BY <2>1, BehindTail DEF t
  <2>7. Len(r) = limit
    BY <1>1, <2>1, <2>2, <2>4
  <2>8. ASSUME NEW y \in Range(q) \ Range(r)
        PROVE  y \notin Behind(q, y) /\ Cardinality(Behind(q, y) \cup {x}) = limit
    <3>1. y = Head(q)
      BY <2>2, <2>4, <2>8
    <3>2. Behind(q, y) = Range(t)
      BY <2>1, <3>1, BehindTail DEF t
    <3>3. Cardinality(Range(r)) = limit
      BY <2>4, <2>7, RangeIs
    <3> QED
      BY <2>2, <2>4, <3>1, <3>2, <3>3
  <2> HIDE DEF r
  <2>9. \A y \in A : Behind(r, y) \subseteq Behind(q, y) \cup {x}
    BY <2>5, <2>6
  <2>10. Range(r) \subseteq Range(q) \cup {x} /\ x \in Range(r) /\ Len(r) <= limit
    BY <1>1, <2>2, <2>4, <2>7
  <2> QED
    BY <2>4, <2>5, <2>8, <2>9, <2>10 DEF r, Remembers
<1> QED
  BY <1>2, <1>3

-----------------------------------------------------------------------------
(* The window.                                                              *)

(* The setting: block ids do not wrap, datagrams are no later than the      *)
(* window of DatagramFecDecoder, and what can close while the datagrams of  *)
(* an epoch can come fits the queue of the closed epochs: Delay epochs on   *)
(* either side of it, and what it leaves in flight or, when nothing expires, *)
(* what those epochs can evict.                                             *)
Setting ==
  /\ \A id \in FirstIds : id + MaxEpochs <= IdMod
  /\ Delay <= CompletedWindow
  /\ HoldsAllInFlight \/ (~Expires /\ 4 * Delay < MaxCompleted)

(* The constants are numbers.                                               *)
LEMMA Numbers ==
  /\ Delay \in Nat /\ MaxInFlight \in Nat /\ MaxInFlight >= 1 /\ MaxCompleted \in Nat
  /\ LeftBehind \in Nat /\ LeftBehind <= MaxInFlight /\ MaxInFlight - 1 <= LeftBehind
  /\ IdMod \in Nat \ {0} /\ CompletedWindow \in Nat \ {0} /\ MaxEpochs \in Nat /\ RepairCount \in Nat
BY AudioAssumption, AudioDecoderAssumption, DecoderAssumption DEF LeftBehind

(* A queue has room for every id that can come between.                     *)
LEMMA RoomInTheQueue ==
  ASSUME NEW limit \in Nat, NEW left \in Nat, 2 * Delay + left < limit,
         NEW x \in Nat, NEW old \in SUBSET Nat, IsFiniteSet(old), Cardinality(old) <= left,
         NEW T \in SUBSET Nat, \A y \in T : y \in old \/ (y \in x-Delay..x+Delay /\ y # x)
  PROVE  Cardinality(T) < limit
<1> DEFINE lower == x-Delay..x-1
           upper == x+1..x+Delay
<1>1. /\ IsFiniteSet(lower) /\ Cardinality(lower) = Delay
      /\ IsFiniteSet(upper) /\ Cardinality(upper) = Delay
  <2>1. x - Delay \in Int /\ x - 1 \in Int /\ x + 1 \in Int /\ x + Delay \in Int
    BY Numbers
  <2>2. /\ IsFiniteSet(lower)
        /\ Cardinality(lower) = IF x - Delay > x - 1 THEN 0 ELSE (x - 1) - (x - Delay) + 1
    BY <2>1, FS_Interval
  <2>3. /\ IsFiniteSet(upper)
        /\ Cardinality(upper) = IF x + 1 > x + Delay THEN 0 ELSE (x + Delay) - (x + 1) + 1
    BY <2>1, FS_Interval
  <2> QED
    BY <2>2, <2>3, Numbers
<1> DEFINE both == lower \cup upper
<1>2. IsFiniteSet(both) /\ Cardinality(both) <= 2 * Delay
  <2>1. /\ IsFiniteSet(both)
        /\ Cardinality(both) = Cardinality(lower) + Cardinality(upper) - Cardinality(lower \cap upper)
    BY <1>1, FS_Union
  <2>2. IsFiniteSet(lower \cap upper) /\ Cardinality(lower \cap upper) \in Nat
    BY <1>1, FS_Intersection, FS_CardinalityType
  <2> HIDE DEF lower, upper
  <2> QED
    BY <1>1, <2>1, <2>2, Numbers
<1>3. T \subseteq old \cup both
  BY Numbers
<1> HIDE DEF lower, upper, both
<1>4. /\ IsFiniteSet(old \cup both)
      /\ Cardinality(old \cup both) = Cardinality(old) + Cardinality(both) - Cardinality(old \cap both)
  BY <1>2, FS_Union
<1>5. /\ IsFiniteSet(old \cap both) /\ Cardinality(old \cap both) \in Nat
      /\ Cardinality(old) \in Nat /\ Cardinality(both) \in Nat
  BY <1>2, FS_Intersection, FS_CardinalityType
<1>6. Cardinality(T) <= Cardinality(old \cup both) /\ IsFiniteSet(T)
  BY <1>3, <1>4, FS_Subset
<1>7. Cardinality(T) \in Nat
  BY <1>6, FS_CardinalityType
<1> QED
  BY <1>2, <1>4, <1>5, <1>6, <1>7, Numbers

(* Nothing is finished by the coming of a new epoch.                        *)
LEMMA WindowGrows ==
  ASSUME NEW left, NEW flying, NEW queue, NEW finished, NEW top \in Int, NEW newTop \in Int, top <= newTop,
         Window(flying, queue, finished, top, left)
  PROVE  Window(flying, queue, finished, newTop, left)
<1>1. \A x \in finished : x \in Nat
  BY DEF Window
<1>2. \A x \in finished : newTop <= x + Delay => top <= x + Delay
  BY <1>1, Numbers
<1>3. 0..top \subseteq 0..newTop
  OBVIOUS
<1> QED
  BY <1>2, <1>3, Zenon DEF Window

(* What is put in flight is no older than what can still come.              *)
LEMMA WindowJoins ==
  ASSUME NEW left, NEW flying, NEW queue, NEW finished, NEW top \in Int, NEW x \in 0..top,
         x \notin finished, top <= x + Delay,
         Window(flying, queue, finished, top, left)
  PROVE  Window(flying \cup {x}, queue, finished, top, left)
<1>1. \A y \in finished : y \in 0..top
  BY DEF Window
<1>2. \A y \in finished : Older(flying \cup {x}, queue, y) = Older(flying, queue, y)
  <2>1. \A y \in finished : ~(x < y - Delay)
    BY <1>1, Numbers
  <2> QED
    BY <2>1 DEF Older
<1> QED
  BY <1>2 DEF Window

(* Remembering x, which is in flight or can still come, forgets no id whose *)
(* datagrams can still come.                                                *)
LEMMA WindowRemembers ==
  ASSUME NEW limit \in Nat, NEW left \in Nat, 2 * Delay + left < limit,
         NEW flying, IsFiniteSet(flying), NEW A \in SUBSET Nat, NEW q \in Seq(A), IsInjective(q),
         Len(q) <= limit, NEW finished, NEW top \in Int,
         Window(flying, q, finished, top, left),
         NEW x \in 0..top, x \in A, x \notin finished,
         x \in flying \/ top <= x + Delay,
         Cardinality({y \in flying \ {x} : y < x - Delay}) <= left
  PROVE  Window(flying \ {x}, Remember(limit, q, x), finished \cup {x}, top, left)
<1> DEFINE r == Remember(limit, q, x)
           rest == flying \ {x}
<1>1. x \notin Range(q)
  BY DEF Window
<1>2. /\ r \in Seq(A) /\ x \in Range(r) /\ Range(r) \subseteq Range(q) \cup {x}
      /\ Behind(r, x) = {}
      /\ \A y \in A : Behind(r, y) \subseteq Behind(q, y) \cup {x}
      /\ \A y \in Range(q) \ Range(r) :
           y \notin Behind(q, y) /\ Cardinality(Behind(q, y) \cup {x}) = limit
  <2>1. limit >= 1
    BY Numbers
  <2>2. Remembers(limit, A, q, x, r)
    BY <1>1, <2>1, RememberNew
  <2> QED
    BY <2>2 DEF Remembers
<1> HIDE DEF r
<1>3. /\ Range(q) \subseteq A /\ A \subseteq Nat
      /\ \A y : Behind(q, y) \subseteq Range(q) /\ IsFiniteSet(Behind(q, y))
  <2>1. \A y : Behind(q, y) \subseteq Range(q)
    BY DEF Behind, Range
  <2>2. IsFiniteSet(Range(q)) /\ Range(q) \subseteq A
    BY RangeIs
  <2> QED
    BY <2>1, <2>2, FS_Subset
<1>4. finished \subseteq Nat /\ flying \subseteq Nat /\ Range(q) \subseteq finished
      /\ x \in Nat /\ finished \subseteq 0..top /\ flying \subseteq 0..top
  BY DEF Window
<1>5. ASSUME NEW y \in finished, top <= y + Delay
      PROVE  /\ y \in Range(q) /\ IsFiniteSet(Older(flying, q, y))
             /\ Cardinality(Older(flying, q, y)) <= left
             /\ Older(rest, r, y) \subseteq Older(flying, q, y)
             /\ x >= y - Delay \/ x \in Older(flying, q, y)
  <2>1. y \in Range(q) /\ Cardinality(Older(flying, q, y)) <= left
    BY <1>5 DEF Window
  <2>2. IsFiniteSet(flying \cup Behind(q, y))
    BY <1>3, FS_Union
  <2>3. IsFiniteSet(Older(flying, q, y))
    BY <2>2, FS_Subset DEF Older
  <2>4. x >= y - Delay \/ x \in Older(flying, q, y)
    <3>1. CASE x \in flying
      <4>1. x < y - Delay => x \in Older(flying, q, y)
        BY <3>1 DEF Older
      <4> QED
        BY <1>4, <4>1, Numbers
    <3>2. CASE top <= x + Delay
      BY <1>4, <3>2, Numbers
    <3> QED
      BY <3>1, <3>2
  <2>5. Older(rest, r, y) \subseteq Older(flying, q, y)
    <3>1. Behind(r, y) \subseteq Behind(q, y) \cup {x}
      BY <1>2, <1>3, <2>1
    <3> SUFFICES ASSUME NEW z \in Older(rest, r, y) PROVE z \in Older(flying, q, y)
      OBVIOUS
    <3>2. z < y - Delay /\ (z \in flying \/ z \in Behind(q, y) \/ z = x)
      BY <3>1 DEF Older
    <3>3. CASE z = x
      BY <1>4, <2>4, <3>2, <3>3, Numbers
    <3> QED
      BY <3>2, <3>3 DEF Older
  <2> QED
    BY <2>1, <2>3, <2>4, <2>5
<1>6. ASSUME NEW y \in finished, top <= y + Delay PROVE y \in Range(r)
  <2> SUFFICES ASSUME y \notin Range(r) PROVE FALSE
    OBVIOUS
  <2> DEFINE T == Behind(q, y) \cup {x}
  <2>1. y \in Range(q) /\ y \notin Behind(q, y) /\ Cardinality(T) = limit
    BY <1>2, <1>5, <1>6
  <2>2. T \in SUBSET Nat /\ T \subseteq 0..top
    BY <1>3, <1>4
  <2>3. \A z \in T : z \in Older(flying, q, y) \/ (z \in y-Delay..y+Delay /\ z # y)
    <3> TAKE z \in T
    <3>1. z # y
      BY <2>1
    <3>2. z <= y + Delay /\ z \in Nat /\ y \in Nat
      BY <1>4, <1>6, <2>2, Numbers
    <3>3. z < y - Delay => z \in Older(flying, q, y)
      <4>1. CASE z = x
        BY <1>4, <1>5, <1>6, <4>1, Numbers
      <4>2. CASE z # x
        BY <4>2 DEF Older
      <4> QED
        BY <4>1, <4>2
    <3> QED
      BY <3>1, <3>2, <3>3, Numbers
  <2>4. Older(flying, q, y) \in SUBSET Nat
    BY <1>3, <1>4 DEF Older
  <2> HIDE DEF T
  <2>5. Cardinality(T) < limit
    BY <1>4, <1>5, <1>6, <2>2, <2>3, <2>4, RoomInTheQueue
  <2> QED
    BY <2>1, <2>5, Numbers
<1>7. ASSUME NEW y \in finished, top <= y + Delay
      PROVE  Cardinality(Older(rest, r, y)) <= left
  <2>1. Cardinality(Older(rest, r, y)) <= Cardinality(Older(flying, q, y))
        /\ IsFiniteSet(Older(rest, r, y))
    BY <1>5, <1>7, FS_Subset
  <2>2. Cardinality(Older(rest, r, y)) \in Nat /\ Cardinality(Older(flying, q, y)) \in Nat
    BY <1>5, <1>7, <2>1, FS_CardinalityType
  <2> QED
    BY <1>5, <1>7, <2>1, <2>2, Numbers
<1>8. Cardinality(Older(rest, r, x)) <= left
  <2>1. Older(rest, r, x) = {y \in flying \ {x} : y < x - Delay}
    BY <1>2 DEF Older
  <2> QED
    BY <2>1
<1> HIDE DEF rest
<1>9. /\ rest \cup (finished \cup {x}) \subseteq 0..top
      /\ rest \cap (finished \cup {x}) = {}
  BY DEF Window, rest
<1>10. Range(r) \subseteq finished \cup {x}
  BY <1>2, <1>4
<1> QED
  BY <1>2, <1>6, <1>7, <1>8, <1>9, <1>10 DEF Window, rest, r

(* The same, of the queue of the closed epochs: x is in flight or decodes.  *)
LEMMA WindowCloses ==
  ASSUME HoldsAllInFlight, NEW flying, IsFiniteSet(flying), NEW q \in Seq(Ids), IsInjective(q),
         Len(q) <= MaxCompleted, NEW finished, NEW top \in Int,
         Window(flying, q, finished, top, LeftBehind),
         NEW x \in 0..top, x \in Ids, x \notin finished,
         x \in flying \/ top <= x + Delay,
         Cardinality({y \in flying \ {x} : y < x - Delay}) <= LeftBehind
  PROVE  Window(flying \ {x}, RememberClosed(q, x), finished \cup {x}, top, LeftBehind)
<1>1. MaxCompleted \in Nat /\ LeftBehind \in Nat /\ 2 * Delay + LeftBehind < MaxCompleted
  BY Numbers DEF HoldsAllInFlight
<1>2. Ids \in SUBSET Nat
  BY Numbers DEF Ids
<1>3. Window(flying \ {x}, Remember(MaxCompleted, q, x), finished \cup {x}, top, LeftBehind)
  BY <1>1, <1>2, WindowRemembers
<1> QED
  BY <1>3, RememberClosedIs

(* The ids near to x, and those of them that are unjoined.                  *)
LEMMA NearIs ==
  ASSUME NEW x \in Nat
  PROVE  /\ IsFiniteSet(Near(x)) /\ Cardinality(Near(x)) <= 2 * Delay
         /\ \A flying, finished :
              /\ IsFiniteSet(Unjoined(flying, finished, x))
              /\ Cardinality(Unjoined(flying, finished, x)) \in Nat
              /\ Cardinality(Unjoined(flying, finished, x)) <= 2 * Delay
<1> DEFINE all == x-Delay..x+Delay
<1>1. IsFiniteSet(all) /\ Cardinality(all) = 2 * Delay + 1 /\ x \in all
  <2>1. x - Delay \in Int /\ x + Delay \in Int
    BY Numbers
  <2>2. /\ IsFiniteSet(all)
        /\ Cardinality(all) = IF x - Delay > x + Delay THEN 0 ELSE (x + Delay) - (x - Delay) + 1
    BY <2>1, FS_Interval
  <2> QED
    BY <2>2, Numbers
<1>2. Near(x) = all \ {x}
  BY DEF Near
<1> HIDE DEF all
<1>3. IsFiniteSet(Near(x)) /\ Cardinality(Near(x)) = 2 * Delay
  BY <1>1, <1>2, FS_RemoveElement, Numbers
<1>4. ASSUME NEW flying, NEW finished
      PROVE  /\ IsFiniteSet(Unjoined(flying, finished, x))
             /\ Cardinality(Unjoined(flying, finished, x)) \in Nat
             /\ Cardinality(Unjoined(flying, finished, x)) <= 2 * Delay
  <2>1. Unjoined(flying, finished, x) \subseteq Near(x)
    BY DEF Unjoined
  <2> QED
    BY <1>3, <2>1, FS_Subset, FS_CardinalityType
<1> QED
  BY <1>3, <1>4, Numbers

(* What is behind an id is in the queue, and so is what is old there.       *)
LEMMA BehindIsFinite ==
  ASSUME NEW A, NEW queue \in Seq(A), NEW x
  PROVE  /\ Behind(queue, x) \subseteq Range(queue) /\ OldBehind(queue, x) \subseteq Behind(queue, x)
         /\ IsFiniteSet(Behind(queue, x))
         /\ IsFiniteSet(OldBehind(queue, x)) /\ Cardinality(OldBehind(queue, x)) \in Nat
<1>1. Behind(queue, x) \subseteq Range(queue) /\ OldBehind(queue, x) \subseteq Behind(queue, x)
  BY DEF Behind, OldBehind, Range
<1>2. IsFiniteSet(Range(queue))
  BY RangeIs
<1> QED
  BY <1>1, <1>2, FS_Subset, FS_CardinalityType

(* A near id that comes into flight makes room for one old id.              *)
LEMMA JoinWindowJoins ==
  ASSUME NEW left \in Int, NEW flying, NEW A, NEW queue \in Seq(A), NEW finished,
         NEW top \in Int, NEW x \in 0..top,
         x \notin flying, x \notin finished, top <= x + Delay,
         JoinWindow(flying, queue, finished, top, left)
  PROVE  JoinWindow(flying \cup {x}, queue, finished, top, left - 1)
<1>1. ASSUME NEW y \in finished, top <= y + Delay
      PROVE  Cardinality(OldBehind(queue, y)) + Cardinality(Unjoined(flying \cup {x}, finished, y))
               <= left - 1
  <2>1. y \in Nat /\ y <= top /\ y # x
    BY DEF JoinWindow
  <2>2. x \in Unjoined(flying, finished, y)
    BY <1>1, <2>1, Numbers DEF Unjoined, Near
  <2>3. Unjoined(flying \cup {x}, finished, y) = Unjoined(flying, finished, y) \ {x}
    BY DEF Unjoined
  <2>4. /\ IsFiniteSet(Unjoined(flying, finished, y))
        /\ Cardinality(Unjoined(flying, finished, y)) \in Nat
    BY <2>1, NearIs
  <2>5. Cardinality(Unjoined(flying \cup {x}, finished, y)) = Cardinality(Unjoined(flying, finished, y)) - 1
    BY <2>2, <2>3, <2>4, FS_RemoveElement
  <2>6. Cardinality(OldBehind(queue, y)) + Cardinality(Unjoined(flying, finished, y)) <= left
    BY <1>1 DEF JoinWindow
  <2>7. Cardinality(OldBehind(queue, y)) \in Nat
    BY BehindIsFinite
  <2> QED
    BY <2>4, <2>5, <2>6, <2>7
<1>2. (flying \cup {x}) \cup finished \subseteq 0..top /\ (flying \cup {x}) \cap finished = {}
  BY DEF JoinWindow
<1> QED
  BY <1>1, <1>2 DEF JoinWindow

(* An id that closes while its own datagrams can come is near to the others *)
(* of that kind; an old one needs the room that a near one has made.        *)
LEMMA JoinWindowCloses ==
  ASSUME NEW limit \in Nat, 4 * Delay < limit, NEW left \in Int, left <= 2 * Delay,
         NEW flying, NEW A \in SUBSET Nat, NEW q \in Seq(A), IsInjective(q),
         Len(q) <= limit, NEW finished, NEW top \in Int,
         JoinWindow(flying, q, finished, top, left),
         NEW x \in 0..top, x \in A, x \notin finished,
         top <= x + Delay \/ left < 2 * Delay
  PROVE  JoinWindow(flying \ {x}, Remember(limit, q, x), finished \cup {x}, top, 2 * Delay)
<1> DEFINE r == Remember(limit, q, x)
           rest == flying \ {x}
           more == finished \cup {x}
<1>1. x \notin Range(q)
  BY DEF JoinWindow
<1>2. /\ r \in Seq(A) /\ x \in Range(r) /\ Range(r) \subseteq Range(q) \cup {x}
      /\ Behind(r, x) = {}
      /\ \A y \in A : Behind(r, y) \subseteq Behind(q, y) \cup {x}
      /\ \A y \in Range(q) \ Range(r) :
           y \notin Behind(q, y) /\ Cardinality(Behind(q, y) \cup {x}) = limit
  <2>1. limit >= 1
    BY Numbers
  <2>2. Remembers(limit, A, q, x, r)
    BY <1>1, <2>1, RememberNew
  <2> QED
    BY <2>2 DEF Remembers
<1> HIDE DEF r
<1>3. /\ Range(q) \subseteq A /\ Range(q) \subseteq finished
      /\ finished \subseteq 0..top /\ finished \subseteq Nat /\ x \in Nat
  BY RangeIs DEF JoinWindow
<1>4. ASSUME NEW y \in finished, top <= y + Delay
      PROVE  /\ y \in Range(r)
             /\ Cardinality(OldBehind(r, y)) + Cardinality(Unjoined(rest, more, y)) <= 2 * Delay
  <2>1. y \in Nat /\ y <= top /\ y # x /\ y \in Range(q) /\ y \in A
    BY <1>3, <1>4 DEF JoinWindow
  <2> DEFINE old == OldBehind(q, y)
             new == IF x < y - Delay THEN old \cup {x} ELSE old
             waits == Unjoined(flying, finished, y)
             after == Unjoined(rest, more, y)
  <2>2. Cardinality(old) + Cardinality(waits) <= left /\ IsFiniteSet(old) /\ Cardinality(old) \in Nat
    BY <1>4, BehindIsFinite DEF JoinWindow
  <2>3. /\ IsFiniteSet(waits) /\ Cardinality(waits) \in Nat
        /\ IsFiniteSet(after) /\ Cardinality(after) \in Nat
    BY <2>1, NearIs
  <2>4. Cardinality(after) <= Cardinality(waits)
    <3>1. after \subseteq waits
      BY DEF Unjoined
    <3> HIDE DEF after, waits
    <3> QED
      BY <2>3, <3>1, FS_Subset
  <2>5. OldBehind(r, y) \subseteq new
    <3>1. Behind(r, y) \subseteq Behind(q, y) \cup {x}
      BY <1>2, <2>1
    <3> QED
      BY <3>1 DEF OldBehind
  <2>6. old \in SUBSET Nat
    BY <1>3, BehindIsFinite
  <2>7. \A z \in Behind(q, y) \cup {x} : z \in new \/ (z \in y-Delay..y+Delay /\ z # y) \/ z = y
    <3> TAKE z \in Behind(q, y) \cup {x}
    <3>1. z \in 0..top
      BY <1>3, BehindIsFinite
    <3>2. z < y - Delay => z \in new
      <4>1. z \in Behind(q, y) /\ z < y - Delay => z \in old
        BY DEF OldBehind
      <4> QED
        BY <4>1
    <3> QED
      BY <1>4, <2>1, <3>1, <3>2, Numbers
  <2> HIDE DEF old, waits, after
  <2>8. /\ IsFiniteSet(new) /\ Cardinality(new) \in Nat
        /\ Cardinality(new) + Cardinality(waits) <= 2 * Delay
    <3>1. CASE x < y - Delay
      <4>1. left < 2 * Delay
        BY <1>3, <2>1, <3>1, Numbers
      <4>2. /\ IsFiniteSet(old \cup {x})
            /\ Cardinality(old \cup {x}) = IF x \in old THEN Cardinality(old) ELSE Cardinality(old) + 1
        BY <2>2, FS_AddElement
      <4> QED
        BY <2>2, <2>3, <3>1, <4>1, <4>2, Numbers
    <3>2. CASE ~(x < y - Delay)
      BY <2>2, <2>3, <3>2, Numbers
    <3> QED
      BY <3>1, <3>2
  <2>9. Cardinality(OldBehind(r, y)) <= Cardinality(new) /\ Cardinality(OldBehind(r, y)) \in Nat
    <3> HIDE DEF new
    <3> QED
      BY <2>5, <2>8, FS_Subset, FS_CardinalityType
  <2>10. Cardinality(OldBehind(r, y)) + Cardinality(after) <= 2 * Delay
    <3> HIDE DEF new
    <3> QED
      BY <2>3, <2>4, <2>8, <2>9, Numbers
  <2>11. y \in Range(r)
    <3> SUFFICES ASSUME y \notin Range(r) PROVE FALSE
      OBVIOUS
    <3> DEFINE T == Behind(q, y) \cup {x}
    <3>1. y \notin Behind(q, y) /\ Cardinality(T) = limit
      BY <1>2, <2>1
    <3>2. T \in SUBSET Nat /\ y \notin T
      BY <1>3, <2>1, <3>1, BehindIsFinite
    <3>3. \A z \in T : z \in new \/ (z \in y-Delay..y+Delay /\ z # y)
      BY <2>7, <3>2
    <3>4. new \in SUBSET Nat
      BY <1>3, <2>6
    <3> HIDE DEF T, new
    <3>5. Cardinality(new) <= 2 * Delay /\ 2 * Delay \in Nat /\ 2 * Delay + 2 * Delay < limit
      BY <2>3, <2>8, Numbers
    <3>6. Cardinality(T) < limit
      BY <2>1, <2>8, <3>2, <3>3, <3>4, <3>5, RoomInTheQueue
    <3> QED
      BY <3>1, <3>6
  <2> QED
    BY <2>10, <2>11 DEF after
<1>5. Cardinality(OldBehind(r, x)) + Cardinality(Unjoined(rest, more, x)) <= 2 * Delay
  <2>1. OldBehind(r, x) = {}
    BY <1>2 DEF OldBehind
  <2>2. Cardinality(OldBehind(r, x)) = 0
    BY <2>1, FS_EmptySet
  <2> QED
    BY <1>3, <2>2, NearIs, Numbers
<1>6. rest \cup more \subseteq 0..top /\ rest \cap more = {} /\ Range(r) \subseteq more
  BY <1>2 DEF JoinWindow
<1> HIDE DEF rest, more
<1>7. \A y \in more : y \in finished \/ y = x
  BY DEF more
<1> QED
  BY <1>2, <1>4, <1>5, <1>6, <1>7 DEF JoinWindow, rest, more, r

-----------------------------------------------------------------------------
(* The window of the closed epochs.                                         *)

(* What both forms of it say.                                               *)
LEMMA ClosedAre ==
  ASSUME NEW flying, NEW queue, NEW finished, NEW top, ClosedWindow(flying, queue, finished, top)
  PROVE  /\ flying \cup finished \subseteq 0..top /\ flying \cap finished = {}
         /\ Range(queue) \subseteq finished
         /\ \A x \in finished : top <= x + Delay => x \in Range(queue)
BY DEF ClosedWindow, Window, JoinWindow

(* Nothing is finished yet.                                                 *)
LEMMA ClosedAtFirst ==
  ASSUME NEW queue, Range(queue) = {}, NEW top
  PROVE  ClosedWindow({}, queue, {}, top)
BY DEF ClosedWindow, Window, JoinWindow

(* An epoch is encoded.                                                     *)
LEMMA ClosedGrows ==
  ASSUME NEW flying, NEW queue, NEW finished, NEW top \in Int, NEW newTop \in Int, top <= newTop,
         ClosedWindow(flying, queue, finished, top)
  PROVE  ClosedWindow(flying, queue, finished, newTop)
<1>1. CASE HoldsAllInFlight
  BY <1>1, WindowGrows DEF ClosedWindow
<1>2. CASE ~HoldsAllInFlight
  <2>1. JoinWindow(flying, queue, finished, top, 2 * Delay)
    BY <1>2 DEF ClosedWindow
  <2>2. \A x \in finished : newTop <= x + Delay => top <= x + Delay
    <3>1. \A x \in finished : x \in Nat
      BY <2>1 DEF JoinWindow
    <3> QED
      BY <3>1, Numbers
  <2>3. 0..top \subseteq 0..newTop
    OBVIOUS
  <2>4. JoinWindow(flying, queue, finished, newTop, 2 * Delay)
    BY <2>1, <2>2, <2>3, Zenon DEF JoinWindow
  <2> QED
    BY <1>2, <2>4 DEF ClosedWindow
<1> QED
  BY <1>1, <1>2

(* A datagram of x joins those in flight.                                   *)
LEMMA ClosedJoins ==
  ASSUME NEW flying, NEW queue \in Seq(Ids), NEW finished, NEW top \in Int, NEW x \in 0..top,
         x \notin finished, top <= x + Delay, ClosedWindow(flying, queue, finished, top)
  PROVE  ClosedWindow(flying \cup {x}, queue, finished, top)
<1>1. CASE HoldsAllInFlight
  BY <1>1, WindowJoins DEF ClosedWindow
<1>2. CASE ~HoldsAllInFlight /\ x \in flying
  <2>1. flying \cup {x} = flying
    BY <1>2
  <2> QED
    BY <2>1
<1>3. CASE ~HoldsAllInFlight /\ x \notin flying
  <2>1. 2 * Delay \in Int
    BY Numbers
  <2>2. JoinWindow(flying \cup {x}, queue, finished, top, 2 * Delay - 1)
    BY <1>3, <2>1, JoinWindowJoins DEF ClosedWindow
  <2>3. JoinWindow(flying \cup {x}, queue, finished, top, 2 * Delay)
    <3>1. \A y \in finished :
            top <= y + Delay =>
              /\ Cardinality(OldBehind(queue, y)) \in Nat
              /\ Cardinality(Unjoined(flying \cup {x}, finished, y)) \in Nat
      BY <2>2, BehindIsFinite, NearIs DEF JoinWindow
    <3>2. \A m, k \in Nat : m + k <= 2 * Delay - 1 => m + k <= 2 * Delay
      BY Numbers
    <3> QED
      BY <2>2, <3>1, <3>2 DEF JoinWindow
  <2> QED
    BY <1>3, <2>3 DEF ClosedWindow
<1> QED
  BY <1>1, <1>2, <1>3

(* An epoch closes by itself: it decodes, or it expires.                    *)
LEMMA ClosedCloses ==
  ASSUME Setting, NEW flying, IsFiniteSet(flying), NEW q \in Seq(Ids), IsInjective(q),
         Len(q) <= MaxCompleted, NEW finished, NEW top \in Int,
         ClosedWindow(flying, q, finished, top),
         NEW x \in 0..top, x \in Ids, x \notin finished,
         (x \in flying /\ Expires) \/ top <= x + Delay,
         Cardinality({y \in flying \ {x} : y < x - Delay}) <= LeftBehind
  PROVE  ClosedWindow(flying \ {x}, RememberClosed(q, x), finished \cup {x}, top)
<1>1. CASE HoldsAllInFlight
  BY <1>1, WindowCloses DEF ClosedWindow
<1>2. CASE ~HoldsAllInFlight
  <2>1. top <= x + Delay /\ 4 * Delay < MaxCompleted /\ MaxCompleted \in Nat /\ 2 * Delay \in Int
    BY <1>2, Numbers DEF Setting
  <2>2. Ids \in SUBSET Nat /\ 2 * Delay <= 2 * Delay
    BY Numbers DEF Ids
  <2>3. JoinWindow(flying, q, finished, top, 2 * Delay)
    BY <1>2 DEF ClosedWindow
  <2>4. JoinWindow(flying \ {x}, Remember(MaxCompleted, q, x), finished \cup {x}, top, 2 * Delay)
    BY <2>1, <2>2, <2>3, JoinWindowCloses
  <2> QED
    BY <1>2, <2>4, RememberClosedIs DEF ClosedWindow
<1> QED
  BY <1>1, <1>2

(* A datagram of x comes into flight, and h is evicted for it.              *)
LEMMA ClosedEvicts ==
  ASSUME Setting, NEW flying, IsFiniteSet(flying), NEW q \in Seq(Ids), IsInjective(q),
         Len(q) <= MaxCompleted, NEW finished, NEW top \in Int,
         ClosedWindow(flying, q, finished, top),
         NEW x \in 0..top, x \notin flying, x \notin finished, top <= x + Delay,
         NEW h \in flying, h \in Ids,
         Cardinality({y \in (flying \cup {x}) \ {h} : y < h - Delay}) <= LeftBehind
  PROVE  ClosedWindow((flying \cup {x}) \ {h}, RememberClosed(q, h), finished \cup {h}, top)
<1>1. h \in 0..top /\ h \notin finished
  BY ClosedAre
<1>2. CASE HoldsAllInFlight
  <2>1. Window(flying \cup {x}, q, finished, top, LeftBehind)
    BY <1>2, WindowJoins DEF ClosedWindow
  <2>2. IsFiniteSet(flying \cup {x}) /\ h \in flying \cup {x}
    BY FS_AddElement
  <2>3. PICK more : more = flying \cup {x}
    OBVIOUS
  <2>4. Window(more \ {h}, RememberClosed(q, h), finished \cup {h}, top, LeftBehind)
    BY <1>1, <1>2, <2>1, <2>2, <2>3, WindowCloses
  <2> QED
    BY <1>2, <2>3, <2>4 DEF ClosedWindow
<1>3. CASE ~HoldsAllInFlight
  <2>1. 4 * Delay < MaxCompleted /\ MaxCompleted \in Nat /\ 2 * Delay \in Int
    BY <1>3, Numbers DEF Setting
  <2>2. PICK left : left = 2 * Delay - 1
    OBVIOUS
  <2>3. left \in Int /\ left <= 2 * Delay /\ left < 2 * Delay /\ Ids \in SUBSET Nat
    BY <2>1, <2>2, Numbers DEF Ids
  <2>4. JoinWindow(flying \cup {x}, q, finished, top, left)
    BY <1>3, <2>1, <2>2, JoinWindowJoins DEF ClosedWindow
  <2>5. PICK more : more = flying \cup {x}
    OBVIOUS
  <2>6. JoinWindow(more \ {h}, Remember(MaxCompleted, q, h), finished \cup {h}, top, 2 * Delay)
    BY <1>1, <2>1, <2>3, <2>4, <2>5, JoinWindowCloses
  <2> QED
    BY <1>3, <2>5, <2>6, RememberClosedIs DEF ClosedWindow
<1> QED
  BY <1>2, <1>3

-----------------------------------------------------------------------------
(* The RaptorQ decoders of DatagramFecDecoder.                              *)

(* Closing a block keeps the decoders of other blocks, or drops them.       *)
LEMMA CloseType ==
  ASSUME NEW d, DecoderType(d), NEW id \in Ids
  PROVE  /\ DecoderType(Close(d, id))
         /\ InFlight(Close(d, id)) \subseteq InFlight(d) \ {id}
         /\ Close(d, id).completed \subseteq d.completed \cup {id}
         /\ \A c \in InFlight(d) \ {id} : Retains(id, c) =>
              c \in InFlight(Close(d, id))
         /\ \A c \in InFlight(Close(d, id)) : Close(d, id).blocks[c] = d.blocks[c]
BY DEF DecoderType, Close, Prune, InFlight, RestrictDomain, Restrict

(* Holding a symbol changes the block of the symbol only.                   *)
LEMMA HoldType ==
  ASSUME NEW d, DecoderType(d), NEW p \in [id : Ids, k : Nat, esi : Nat]
  PROVE  /\ DecoderType(Hold(d, p))
         /\ InFlight(Hold(d, p)) = InFlight(d) \cup {p.id}
         /\ Hold(d, p).completed = d.completed
         /\ Hold(d, p).blocks[p.id] = [k |-> p.k, symbols |-> Held(d, p.id) \cup {p.esi}]
         /\ \A c \in InFlight(d) \ {p.id} : Hold(d, p).blocks[c] = d.blocks[c]
<1>1. Held(d, p.id) \in SUBSET Nat
  BY DEF DecoderType, Held
<1>2. [k |-> p.k, symbols |-> Held(d, p.id) \cup {p.esi}] \in [k : Nat, symbols : SUBSET Nat]
  BY <1>1
<1>3. \A c \in InFlight(d) : d.blocks[c] \in [k : Nat, symbols : SUBSET Nat] /\ c \in Ids
  BY DEF DecoderType
<1> DEFINE blocks == [c \in InFlight(d) \cup {p.id} |->
                        IF c = p.id THEN [k |-> p.k, symbols |-> Held(d, c) \cup {p.esi}]
                        ELSE d.blocks[c]]
<1>4. Hold(d, p) = [blocks |-> blocks, completed |-> d.completed]
  BY DEF Hold
<1>5. /\ DOMAIN blocks = InFlight(d) \cup {p.id}
      /\ blocks[p.id] = [k |-> p.k, symbols |-> Held(d, p.id) \cup {p.esi}]
      /\ \A c \in InFlight(d) \ {p.id} : blocks[c] = d.blocks[c]
  OBVIOUS
<1>6. blocks \in [DOMAIN blocks -> [k : Nat, symbols : SUBSET Nat]]
  BY <1>2, <1>3
<1> HIDE DEF blocks
<1>7. DOMAIN blocks \subseteq Ids
  BY <1>3, <1>5
<1>8. DecoderType(Hold(d, p))
  BY <1>4, <1>6, <1>7 DEF DecoderType, InFlight
<1> QED
  BY <1>4, <1>5, <1>8 DEF InFlight

(* Dropping a block keeps the others.                                       *)
LEMMA DropType ==
  ASSUME NEW d, DecoderType(d), NEW id
  PROVE  DecoderType(DropBlock(d, id)) /\ InFlight(DropBlock(d, id)) \subseteq InFlight(d)
BY DEF DecoderType, DropBlock, InFlight, Restrict

(* What push_datagram of the decoder below may do.                          *)
LEMMA PushFecCases ==
  ASSUME NEW d, NEW p, NEW o \in PushDatagram(d, p)
  PROVE  \/ o.out = "error" /\ o.d = DropBlock(d, p.id) /\ ~SameGeometry(d, p)
         \/ /\ o.out = "none" /\ o.d = d
            /\ p.id \in d.completed \/ p.esi \in Held(d, p.id)
         \/ /\ o.out = "none" /\ o.d = Hold(d, p)
            /\ ~MustDecode(p.k, Held(d, p.id) \cup {p.esi})
         \/ /\ o.out = "decoded" /\ o.d = Close(d, p.id)
            /\ CanDecode(p.k, Held(d, p.id) \cup {p.esi})
<1> DEFINE symbols == Held(d, p.id) \cup {p.esi}
<1>1. CASE p.id \in d.completed
  BY <1>1 DEF PushDatagram
<1>2. CASE p.id \notin d.completed /\ ~SameGeometry(d, p)
  BY <1>2 DEF PushDatagram
<1>3. CASE p.id \notin d.completed /\ SameGeometry(d, p) /\ p.esi \in Held(d, p.id)
  BY <1>3 DEF PushDatagram
<1>4. CASE p.id \notin d.completed /\ SameGeometry(d, p) /\ p.esi \notin Held(d, p.id)
  <2>1. o \in {x \in {[d |-> Close(d, p.id), out |-> "decoded"], [d |-> Hold(d, p), out |-> "none"]} :
                 IF x.out = "decoded" THEN CanDecode(p.k, symbols) ELSE ~MustDecode(p.k, symbols)}
    BY <1>4 DEF PushDatagram
  <2>2. "decoded" # "none"
    OBVIOUS
  <2> QED
    BY <2>1, <2>2
<1> QED
  BY <1>1, <1>2, <1>3, <1>4

-----------------------------------------------------------------------------
(* The MultichannelAudioFecDecoder.                                         *)

(* Its state after a block is closed, with the queue that is left.          *)
Closing(a, id, queue) ==
  [fec |-> Close(a.fec, id), delivered |-> Forget(a.delivered, id),
   inFlight |-> queue, completed |-> RememberClosed(a.completed, id)]

(* Its state after the decoder below has taken a datagram of a new block.   *)
Joined(a, d, id) ==
  [fec |-> d, delivered |-> a.delivered, inFlight |-> Append(a.inFlight, id),
   completed |-> a.completed]

WithFec(a, d) ==
  [fec |-> d, delivered |-> a.delivered, inFlight |-> a.inFlight, completed |-> a.completed]

(* A queue without one id.                                                  *)
LeavesOut(queue, whole, id) ==
  /\ queue \in Seq(Ids) /\ IsInjective(queue) /\ Range(queue) = Range(whole) \ {id}
  /\ Len(queue) <= Len(whole)

(* remember_closed keeps the queue of the closed within its limit.          *)
LEMMA RememberType ==
  ASSUME NEW q \in Seq(Ids), IsInjective(q), Len(q) <= MaxCompleted, NEW id \in Ids
  PROVE  /\ RememberClosed(q, id) \in Seq(Ids) /\ IsInjective(RememberClosed(q, id))
         /\ Len(RememberClosed(q, id)) <= MaxCompleted
<1>1. CASE id \in Range(q)
  BY <1>1 DEF RememberClosed
<1>2. CASE id \notin Range(q)
  <2>1. Remembers(MaxCompleted, Ids, q, id, Remember(MaxCompleted, q, id))
    BY <1>2, RememberNew, AudioDecoderAssumption
  <2> QED
    BY <2>1, RememberClosedIs DEF Remembers
<1> QED
  BY <1>1, <1>2

(* Closing a block keeps the decoder consistent.                            *)
LEMMA ClosingType ==
  ASSUME NEW a, AudioType(a), NEW id \in Ids, NEW queue, LeavesOut(queue, a.inFlight, id)
  PROVE  AudioType(Closing(a, id, queue))
<1> DEFINE b == Closing(a, id, queue)
<1>1. /\ IsAudio(b)
      /\ b.fec = Close(a.fec, id) /\ b.delivered = Forget(a.delivered, id)
      /\ b.inFlight = queue /\ b.completed = RememberClosed(a.completed, id)
  BY DEF Closing, IsAudio
<1> HIDE DEF b
<1>2. /\ DecoderType(b.fec) /\ InFlight(b.fec) \subseteq Range(queue)
  BY <1>1, CloseType DEF AudioType, LeavesOut
<1>3. /\ b.completed \in Seq(Ids) /\ IsInjective(b.completed) /\ Len(b.completed) <= MaxCompleted
  BY <1>1, RememberType DEF AudioType
<1>4. /\ DOMAIN b.delivered \subseteq Range(queue)
      /\ b.delivered \in [DOMAIN b.delivered -> SUBSET Nat]
  BY <1>1 DEF AudioType, LeavesOut, Forget, Restrict
<1> QED
  BY <1>1, <1>2, <1>3, <1>4 DEF AudioType, LeavesOut, b

(* The decoder's record, field by field.                                    *)
LEMMA AudioExcept ==
  ASSUME NEW a, IsAudio(a), NEW x
  PROVE  /\ [a EXCEPT !.fec = x] = WithFec(a, x)
         /\ [a EXCEPT !.delivered = x] = [fec |-> a.fec, delivered |-> x, inFlight |-> a.inFlight,
                                          completed |-> a.completed]
         /\ [a EXCEPT !.inFlight = x] = [fec |-> a.fec, delivered |-> a.delivered, inFlight |-> x,
                                         completed |-> a.completed]
<1>0. PICK f, d, i, c : a = [fec |-> f, delivered |-> d, inFlight |-> i, completed |-> c]
  BY DEF IsAudio
<1>1. [a EXCEPT !.fec = x] = [fec |-> x, delivered |-> a.delivered, inFlight |-> a.inFlight, completed |-> a.completed]
  <2> DEFINE b == [a EXCEPT !.fec = x]
             r == [fec |-> x, delivered |-> a.delivered, inFlight |-> a.inFlight, completed |-> a.completed]
  <2>1. DOMAIN b = DOMAIN r
    BY <1>0
  <2>2. \A y \in DOMAIN b : b[y] = r[y]
    BY <1>0
  <2>3. b = [y \in DOMAIN b |-> b[y]] /\ r = [y \in DOMAIN r |-> r[y]]
    OBVIOUS
  <2> HIDE DEF b, r
  <2>4. b = r
    BY <2>1, <2>2, <2>3
  <2> QED
    BY <2>4 DEF b, r
<1>2. [a EXCEPT !.delivered = x] = [fec |-> a.fec, delivered |-> x, inFlight |-> a.inFlight, completed |-> a.completed]
  <2> DEFINE b == [a EXCEPT !.delivered = x]
             r == [fec |-> a.fec, delivered |-> x, inFlight |-> a.inFlight, completed |-> a.completed]
  <2>1. DOMAIN b = DOMAIN r
    BY <1>0
  <2>2. \A y \in DOMAIN b : b[y] = r[y]
    BY <1>0
  <2>3. b = [y \in DOMAIN b |-> b[y]] /\ r = [y \in DOMAIN r |-> r[y]]
    OBVIOUS
  <2> HIDE DEF b, r
  <2>4. b = r
    BY <2>1, <2>2, <2>3
  <2> QED
    BY <2>4 DEF b, r
<1>3. [a EXCEPT !.inFlight = x] = [fec |-> a.fec, delivered |-> a.delivered, inFlight |-> x, completed |-> a.completed]
  <2> DEFINE b == [a EXCEPT !.inFlight = x]
             r == [fec |-> a.fec, delivered |-> a.delivered, inFlight |-> x, completed |-> a.completed]
  <2>1. DOMAIN b = DOMAIN r
    BY <1>0
  <2>2. \A y \in DOMAIN b : b[y] = r[y]
    BY <1>0
  <2>3. b = [y \in DOMAIN b |-> b[y]] /\ r = [y \in DOMAIN r |-> r[y]]
    OBVIOUS
  <2> HIDE DEF b, r
  <2>4. b = r
    BY <2>1, <2>2, <2>3
  <2> QED
    BY <2>4 DEF b, r
<1> QED
  BY <1>1, <1>2, <1>3 DEF WithFec

(* close_block after expire_block: what a block that decodes or expires     *)
(* leaves.                                                                  *)
LEMMA ExpireIsClosing ==
  ASSUME NEW a, AudioType(a), NEW id \in Ids
  PROVE  /\ ExpireAudio(a, id) = Closing(a, id, Retained(a.inFlight, {id}))
         /\ CloseBlock([a EXCEPT !.fec = Close(a.fec, id)], id)
              = Closing(a, id, Retained(a.inFlight, {id}))
         /\ LeavesOut(Retained(a.inFlight, {id}), a.inFlight, id)
<1>1. [a EXCEPT !.fec = Close(a.fec, id)] = WithFec(a, Close(a.fec, id))
  BY AudioExcept DEF AudioType
<1>2. /\ ExpireAudio(a, id) = Closing(a, id, Retained(a.inFlight, {id}))
      /\ CloseBlock([a EXCEPT !.fec = Close(a.fec, id)], id)
           = Closing(a, id, Retained(a.inFlight, {id}))
  BY <1>1 DEF ExpireAudio, CloseBlock, Closing, WithFec
<1>3. Retained(a.inFlight, {id}) = Kept(a.inFlight, {id})
  BY DEF Retained, Kept
<1>4. LeavesOut(Retained(a.inFlight, {id}), a.inFlight, id)
  <2>1. a.inFlight \in Seq(Ids) /\ IsInjective(a.inFlight)
    BY DEF AudioType
  <2>2. /\ Kept(a.inFlight, {id}) \in Seq(Ids)
        /\ Range(Kept(a.inFlight, {id})) = Range(a.inFlight) \ {id}
        /\ IsInjective(Kept(a.inFlight, {id}))
        /\ Len(Kept(a.inFlight, {id})) <= Len(a.inFlight)
    BY <2>1, RetainKeeps
  <2> QED
    BY <1>3, <2>2 DEF LeavesOut
<1> QED
  BY <1>2, <1>4

(* A block joins those in flight.                                           *)
LEMMA JoinedType ==
  ASSUME NEW a, AudioType(a), NEW id \in Ids, id \notin Range(a.inFlight),
         NEW d, DecoderType(d), InFlight(d) \subseteq InFlight(a.fec) \cup {id}
  PROVE  /\ AudioType(Joined(a, d, id))
         /\ Range(Joined(a, d, id).inFlight) = Range(a.inFlight) \cup {id}
         /\ Len(Joined(a, d, id).inFlight) = Len(a.inFlight) + 1
<1>1. /\ Append(a.inFlight, id) \in Seq(Ids) /\ Len(Append(a.inFlight, id)) = Len(a.inFlight) + 1
      /\ Range(Append(a.inFlight, id)) = Range(a.inFlight) \cup {id}
      /\ IsInjective(Append(a.inFlight, id))
  BY AppendQueue DEF AudioType
<1> QED
  BY <1>1 DEF Joined, AudioType, IsAudio

(* Of a block in flight, the decoder below may change.                      *)
LEMMA WithFecType ==
  ASSUME NEW a, AudioType(a), NEW d, DecoderType(d), InFlight(d) \subseteq Range(a.inFlight)
  PROVE  AudioType(WithFec(a, d))
BY DEF AudioType, IsAudio, WithFec

(* The oldest of too many in flight.                                        *)
LEMMA OldestLeaves ==
  ASSUME NEW a, AudioType(a), a.inFlight # <<>>
  PROVE  /\ Head(a.inFlight) \in Ids /\ Head(a.inFlight) \in Range(a.inFlight)
         /\ LeavesOut(Tail(a.inFlight), a.inFlight, Head(a.inFlight))
         /\ Len(Tail(a.inFlight)) = Len(a.inFlight) - 1
<1>1. /\ Head(a.inFlight) \in Range(a.inFlight)
      /\ Tail(a.inFlight) \in Seq(Ids) /\ Len(Tail(a.inFlight)) = Len(a.inFlight) - 1
      /\ Range(Tail(a.inFlight)) = Range(a.inFlight) \ {Head(a.inFlight)}
      /\ IsInjective(Tail(a.inFlight))
  BY TailQueue DEF AudioType
<1>2. Range(a.inFlight) \subseteq Ids /\ Len(a.inFlight) \in Nat
  BY RangeIs DEF AudioType
<1> QED
  BY <1>1, <1>2 DEF LeavesOut

(* observe_in_flight, after the decoder below took a datagram.              *)
LEMMA ObserveCases ==
  ASSUME NEW a, AudioType(a), Len(a.inFlight) <= MaxInFlight, NEW id \in Ids,
         NEW d, DecoderType(d), InFlight(d) \subseteq InFlight(a.fec) \cup {id}
  PROVE  LET c == ObserveInFlight(WithFec(a, d), id)
             j == Joined(a, d, id)
         IN /\ AudioType(c) /\ Len(c.inFlight) <= MaxInFlight /\ id \in Range(c.inFlight)
            /\ \/ id \in Range(a.inFlight) /\ c = WithFec(a, d)
               \/ id \notin Range(a.inFlight) /\ c = j
               \/ /\ id \notin Range(a.inFlight) /\ Len(a.inFlight) = MaxInFlight
                  /\ a.inFlight # <<>> /\ Head(j.inFlight) = Head(a.inFlight)
                  /\ c = Closing(j, Head(j.inFlight), Tail(j.inFlight))
<1> DEFINE w == WithFec(a, d)
           c == ObserveInFlight(w, id)
           j == Joined(a, d, id)
<1>1. IsAudio(w) /\ w.inFlight = a.inFlight /\ Len(a.inFlight) \in Nat
  BY DEF WithFec, IsAudio, AudioType
<1>2. CASE id \in Range(a.inFlight)
  <2>1. c = w
    BY <1>1, <1>2 DEF ObserveInFlight
  <2>2. AudioType(w)
    BY <1>2, WithFecType DEF AudioType
  <2> QED
    BY <1>1, <1>2, <2>1, <2>2
<1>3. CASE id \notin Range(a.inFlight)
  <2>1. [w EXCEPT !.inFlight = Append(@, id)] = j
    <3> DEFINE queue == Append(a.inFlight, id)
    <3>1. w.fec = d /\ w.delivered = a.delivered /\ w.completed = a.completed
      BY DEF WithFec
    <3>2. j = [fec |-> d, delivered |-> a.delivered, inFlight |-> queue, completed |-> a.completed]
      BY DEF Joined
    <3>3. [w EXCEPT !.inFlight = Append(@, id)] = [w EXCEPT !.inFlight = queue]
      BY <1>1
    <3> HIDE DEF queue, w, j
    <3>4. [w EXCEPT !.inFlight = queue] = [fec |-> w.fec, delivered |-> w.delivered, inFlight |-> queue,
                                           completed |-> w.completed]
      BY <1>1, AudioExcept
    <3> QED
      BY <3>1, <3>2, <3>3, <3>4
  <2>2. /\ AudioType(j) /\ Range(j.inFlight) = Range(a.inFlight) \cup {id}
        /\ Len(j.inFlight) = Len(a.inFlight) + 1
    BY <1>3, JoinedType
  <2> HIDE DEF j, w
  <2>3. c = IF Len(j.inFlight) > MaxInFlight THEN EvictOldest(j) ELSE j
    BY <1>1, <1>3, <2>1, Zenon DEF ObserveInFlight
  <2>4. CASE ~(Len(j.inFlight) > MaxInFlight)
    <3>1. c = j
      BY <2>3, <2>4
    <3> HIDE DEF c
    <3> QED
      BY <1>1, <1>3, <2>2, <2>4, <3>1, Numbers DEF c, w, j
  <2>5. CASE Len(j.inFlight) > MaxInFlight
    <3>1. j.inFlight # <<>> /\ a.inFlight # <<>> /\ Len(a.inFlight) = MaxInFlight
      BY <1>1, <2>2, <2>5, Numbers
    <3>2. EvictOldest(j) = Closing(j, Head(j.inFlight), Tail(j.inFlight))
      BY DEF EvictOldest, Closing
    <3>3. c = Closing(j, Head(j.inFlight), Tail(j.inFlight))
      BY <2>3, <2>5, <3>2
    <3>4. /\ Head(j.inFlight) \in Ids /\ Len(Tail(j.inFlight)) = Len(j.inFlight) - 1
          /\ LeavesOut(Tail(j.inFlight), j.inFlight, Head(j.inFlight))
      BY <2>2, <3>1, OldestLeaves
    <3>5. AudioType(Closing(j, Head(j.inFlight), Tail(j.inFlight)))
      BY <2>2, <3>4, ClosingType
    <3>6. Head(j.inFlight) = Head(a.inFlight)
      BY <3>1 DEF j, Joined, AudioType
    <3>7. Head(j.inFlight) # id
      <4>1. Head(a.inFlight) \in Range(a.inFlight)
        BY <3>1, OldestLeaves
      <4> QED
        BY <1>3, <3>6, <4>1
    <3>8. c.inFlight = Tail(j.inFlight) /\ id \in Range(Tail(j.inFlight))
      BY <2>2, <3>3, <3>4, <3>7 DEF Closing, LeavesOut
    <3> HIDE DEF c
    <3>9. Len(c.inFlight) <= MaxInFlight
      BY <1>1, <2>2, <3>1, <3>4, <3>8
    <3> QED
      BY <1>3, <3>1, <3>3, <3>5, <3>6, <3>8, <3>9 DEF c, w, j
  <2> QED
    BY <2>4, <2>5 DEF w, j
<1> QED
  BY <1>2, <1>3

(* The source shard of a datagram joins what its block has delivered.       *)
LEMMA DeliverType ==
  ASSUME NEW c, AudioType(c), NEW p \in [id : Ids, k : Nat, esi : Nat], p.id \in Range(c.inFlight)
  PROVE  LET e == DeliverSource(c, p) IN
         /\ AudioType(e) /\ e.fec = c.fec /\ e.inFlight = c.inFlight /\ e.completed = c.completed
         /\ Delivered(e, p.id) = Delivered(c, p.id) \cup SourceShard(p)
         /\ \A x : x # p.id => Delivered(e, x) = Delivered(c, x)
<1> DEFINE e == DeliverSource(c, p)
           f == [x \in DOMAIN c.delivered \cup {p.id} |->
                   IF x = p.id THEN Delivered(c, x) \cup SourceShard(p) ELSE c.delivered[x]]
<1>1. e = [fec |-> c.fec, delivered |-> f, inFlight |-> c.inFlight, completed |-> c.completed]
  <2>1. IsAudio(c)
    BY DEF AudioType
  <2>2. e = [c EXCEPT !.delivered = f]
    BY DEF DeliverSource
  <2> HIDE DEF e, f
  <2> QED
    BY <2>1, <2>2, AudioExcept
<1>2. Delivered(c, p.id) \in SUBSET Nat /\ SourceShard(p) \in SUBSET Nat
  BY DEF AudioType, Delivered, SourceShard
<1>3. \A x \in DOMAIN c.delivered : c.delivered[x] \in SUBSET Nat
  BY DEF AudioType
<1>4. /\ DOMAIN f = DOMAIN c.delivered \cup {p.id}
      /\ f[p.id] = Delivered(c, p.id) \cup SourceShard(p)
      /\ \A x \in DOMAIN c.delivered \ {p.id} : f[x] = c.delivered[x]
  OBVIOUS
<1>5. f \in [DOMAIN f -> SUBSET Nat]
  BY <1>2, <1>3
<1> HIDE DEF e, f
<1>6. IsAudio(e) /\ e.delivered = f /\ e.fec = c.fec /\ e.inFlight = c.inFlight /\ e.completed = c.completed
  BY <1>1 DEF IsAudio
<1>7. AudioType(e)
  BY <1>4, <1>5, <1>6 DEF AudioType
<1>8. /\ Delivered(e, p.id) = Delivered(c, p.id) \cup SourceShard(p)
      /\ \A x : x # p.id => Delivered(e, x) = Delivered(c, x)
  BY <1>4, <1>6 DEF Delivered
<1> QED
  BY <1>6, <1>7, <1>8 DEF e

(* What push_datagram may do with a datagram: ignore it, refuse it for its  *)
(* geometry, decode the block, or take it in.                               *)
Ignored(a, p, o) == p.id \in Range(a.completed) /\ o.a = a /\ o.shards = {}

Refused(a, p, o) ==
  /\ p.id \notin Range(a.completed) /\ ~SameGeometry(a.fec, p)
  /\ o.a = WithFec(a, DropBlock(a.fec, p.id)) /\ o.shards = {}

Decoded(a, p, o) ==
  /\ p.id \notin Range(a.completed) /\ CanDecode(p.k, Held(a.fec, p.id) \cup {p.esi})
  /\ o.a = ExpireAudio(a, p.id) /\ o.shards = 0..p.k-1 \ Delivered(a, p.id)

TakenIn(a, p, o, d) ==
  LET c == ObserveInFlight(WithFec(a, d), p.id) IN
  /\ p.id \notin Range(a.completed)
  /\ \/ d = a.fec /\ (p.id \in a.fec.completed \/ p.esi \in Held(a.fec, p.id))
     \/ d = Hold(a.fec, p) /\ ~MustDecode(p.k, Held(a.fec, p.id) \cup {p.esi})
  /\ o.a = DeliverSource(c, p)
  /\ o.shards = SourceShard(p) \ Delivered(c, p.id)

(* Nothing else.                                                            *)
LEMMA PushAudioCases ==
  ASSUME NEW a, AudioType(a), NEW p \in [id : Ids, k : Nat, esi : Nat], NEW o \in PushAudio(a, p)
  PROVE  Ignored(a, p, o) \/ Refused(a, p, o) \/ Decoded(a, p, o) \/ \E d : TakenIn(a, p, o, d)
<1>1. CASE p.id \in Range(a.completed)
  BY <1>1 DEF PushAudio, Ignored
<1>2. CASE p.id \notin Range(a.completed)
  <2> DEFINE B(x) == [a EXCEPT !.fec = x.d]
             C(x) == ObserveInFlight(B(x), p.id)
  <2>1. PICK x \in PushDatagram(a.fec, p) :
          o = CASE x.out = "error" -> [a |-> B(x), shards |-> {}]
                [] x.out = "none" -> [a |-> DeliverSource(C(x), p),
                                      shards |-> SourceShard(p) \ Delivered(C(x), p.id)]
                [] x.out = "decoded" -> [a |-> CloseBlock(B(x), p.id),
                                         shards |-> 0..p.k-1 \ Delivered(B(x), p.id)]
    BY <1>2 DEF PushAudio
  <2>2. B(x) = WithFec(a, x.d)
    BY AudioExcept DEF AudioType
  <2> HIDE DEF B
  <2>3. CASE x.out = "error" /\ x.d = DropBlock(a.fec, p.id) /\ ~SameGeometry(a.fec, p)
    BY <1>2, <2>1, <2>2, <2>3 DEF Refused
  <2>4. CASE /\ x.out = "none"
             /\ \/ x.d = a.fec /\ (p.id \in a.fec.completed \/ p.esi \in Held(a.fec, p.id))
                \/ x.d = Hold(a.fec, p) /\ ~MustDecode(p.k, Held(a.fec, p.id) \cup {p.esi})
    <3>1. /\ o.a = DeliverSource(C(x), p)
          /\ o.shards = SourceShard(p) \ Delivered(C(x), p.id)
      BY <2>1, <2>4
    <3>2. C(x) = ObserveInFlight(WithFec(a, x.d), p.id)
      BY <2>2
    <3> HIDE DEF C
    <3>3. TakenIn(a, p, o, x.d)
      BY <1>2, <2>4, <3>1, <3>2 DEF TakenIn
    <3> QED
      BY <3>3
  <2>5. CASE /\ x.out = "decoded" /\ x.d = Close(a.fec, p.id)
             /\ CanDecode(p.k, Held(a.fec, p.id) \cup {p.esi})
    <3>1. o.a = CloseBlock(B(x), p.id) /\ o.shards = 0..p.k-1 \ Delivered(B(x), p.id)
      BY <2>1, <2>5
    <3>2. B(x) = [a EXCEPT !.fec = Close(a.fec, p.id)] /\ Delivered(B(x), p.id) = Delivered(a, p.id)
      <4>1. Delivered(B(x), p.id) = Delivered(a, p.id)
        BY <2>2 DEF WithFec, Delivered
      <4>2. B(x) = [a EXCEPT !.fec = Close(a.fec, p.id)]
        BY <2>5 DEF B
      <4> QED
        BY <4>1, <4>2
    <3>3. o.a = ExpireAudio(a, p.id)
      BY <3>1, <3>2 DEF ExpireAudio
    <3> QED
      BY <1>2, <2>5, <3>1, <3>2, <3>3 DEF Decoded
  <2>6. \/ x.out = "error" /\ x.d = DropBlock(a.fec, p.id) /\ ~SameGeometry(a.fec, p)
        \/ x.out = "none" /\ x.d = a.fec /\ (p.id \in a.fec.completed \/ p.esi \in Held(a.fec, p.id))
        \/ x.out = "none" /\ x.d = Hold(a.fec, p) /\ ~MustDecode(p.k, Held(a.fec, p.id) \cup {p.esi})
        \/ /\ x.out = "decoded" /\ x.d = Close(a.fec, p.id)
           /\ CanDecode(p.k, Held(a.fec, p.id) \cup {p.esi})
    BY PushFecCases, Zenon
  <2> QED
    BY <2>3, <2>4, <2>5, <2>6, Zenon
<1> QED
  BY <1>1, <1>2

(* push_datagram keeps the decoder consistent and within its limits.        *)
LEMMA PushAudioType ==
  ASSUME NEW a, AudioType(a), Len(a.inFlight) <= MaxInFlight,
         NEW p \in [id : Ids, k : Nat, esi : Nat], NEW o \in PushAudio(a, p)
  PROVE  AudioType(o.a) /\ Len(o.a.inFlight) <= MaxInFlight
<1>1. CASE ~SameGeometry(a.fec, p) /\ o.a = WithFec(a, DropBlock(a.fec, p.id))
  <2>1. DecoderType(a.fec) /\ InFlight(a.fec) \subseteq Range(a.inFlight)
    BY DEF AudioType
  <2>2. AudioType(o.a)
    BY <1>1, <2>1, DropType, WithFecType
  <2>3. o.a.inFlight = a.inFlight
    BY <1>1 DEF WithFec
  <2> QED
    BY <2>2, <2>3
<1>2. CASE o.a = ExpireAudio(a, p.id)
  <2>1. /\ ExpireAudio(a, p.id) = Closing(a, p.id, Retained(a.inFlight, {p.id}))
        /\ LeavesOut(Retained(a.inFlight, {p.id}), a.inFlight, p.id)
    BY ExpireIsClosing
  <2>2. AudioType(o.a) /\ o.a.inFlight = Retained(a.inFlight, {p.id})
    BY <1>2, <2>1, ClosingType DEF Closing
  <2>3. Len(o.a.inFlight) <= Len(a.inFlight) /\ Len(o.a.inFlight) \in Nat /\ Len(a.inFlight) \in Nat
    BY <2>1, <2>2 DEF LeavesOut, AudioType
  <2> QED
    BY <2>2, <2>3, Numbers
<1>3. ASSUME NEW d, d = a.fec \/ d = Hold(a.fec, p),
             o.a = DeliverSource(ObserveInFlight(WithFec(a, d), p.id), p)
      PROVE  AudioType(o.a) /\ Len(o.a.inFlight) <= MaxInFlight
  <2> DEFINE c == ObserveInFlight(WithFec(a, d), p.id)
  <2>1. DecoderType(d) /\ InFlight(d) \subseteq InFlight(a.fec) \cup {p.id}
    <3>1. DecoderType(a.fec)
      BY DEF AudioType
    <3>2. CASE d = a.fec
      BY <3>1, <3>2
    <3>3. CASE d = Hold(a.fec, p)
      <4>1. DecoderType(Hold(a.fec, p)) /\ InFlight(Hold(a.fec, p)) = InFlight(a.fec) \cup {p.id}
        BY <3>1, HoldType
      <4> QED
        BY <3>3, <4>1
    <3> QED
      BY <1>3, <3>2, <3>3
  <2>2. AudioType(c) /\ Len(c.inFlight) <= MaxInFlight /\ p.id \in Range(c.inFlight)
    BY <2>1, ObserveCases
  <2> HIDE DEF c
  <2>3. o.a = DeliverSource(c, p)
    BY <1>3 DEF c
  <2> QED
    BY <2>2, <2>3, DeliverType
<1>4. CASE Refused(a, p, o)
  BY <1>1, <1>4 DEF Refused
<1>5. CASE Decoded(a, p, o)
  BY <1>2, <1>5 DEF Decoded
<1>6. ASSUME NEW d, TakenIn(a, p, o, d) PROVE AudioType(o.a) /\ Len(o.a.inFlight) <= MaxInFlight
  BY <1>3, <1>6 DEF TakenIn
<1>7. CASE Ignored(a, p, o)
  BY <1>7 DEF Ignored
<1> QED
  BY <1>4, <1>5, <1>6, <1>7, PushAudioCases

-----------------------------------------------------------------------------
(* Type correctness, and the bounds.                                        *)

(* An epoch that was sent has an id and shards, and is one of the run.      *)
LEMMA SentEpoch ==
  ASSUME TypeOK, NEW n \in Sent
  PROVE  /\ n \in Epochs /\ n \in Nat /\ n >= 1 /\ sent[n] \in [id : Ids, k : Shards]
         /\ sent[n].k \in Nat /\ sent[n].k >= 1
         /\ \A i \in 0..sent[n].k-1 : i \in ShardIndices
<1>1. n \in Epochs /\ n \in Nat /\ n >= 1 /\ sent[n] \in [id : Ids, k : Shards]
  <2>1. sent \in Seq([id : Ids, k : Shards]) /\ Len(sent) <= MaxEpochs /\ n \in 1..Len(sent)
    BY DEF TypeOK, Sent
  <2>2. Len(sent) \in Nat /\ sent[n] \in [id : Ids, k : Shards]
    <3> DEFINE R == [id : Ids, k : Shards]
    <3>1. sent \in Seq(R)
      BY <2>1
    <3> HIDE DEF R
    <3>2. Len(sent) \in Nat /\ sent[n] \in R
      BY <2>1, <3>1
    <3> QED
      BY <3>2 DEF R
  <2> QED
    BY <2>1, <2>2, Numbers DEF Epochs
<1>2. sent[n].k \in Shards /\ sent[n].k \in Nat /\ sent[n].k >= 1
  <2>1. sent[n].k \in Shards
    BY <1>1
  <2>2. sent[n].k \in Nat \ {0}
    BY <2>1, AudioAssumption
  <2> QED
    BY <2>1, <2>2
<1>3. Max(Shards) \in Shards /\ \A k \in Shards : k <= Max(Shards)
  <2>1. Shards \in SUBSET Int /\ IsFiniteSet(Shards) /\ Shards # {}
    BY <1>2, AudioAssumption
  <2> QED
    BY <2>1, MaxOfFinite
<1>4. Max(Shards) \in Nat /\ sent[n].k <= Max(Shards)
  BY <1>2, <1>3, AudioAssumption
<1> QED
  BY <1>1, <1>2, <1>4 DEF ShardIndices

(* What arrives is a datagram.                                              *)
LEMMA ArrivalType ==
  ASSUME TypeOK, NEW n \in Sent, NEW esi \in Nat
  PROVE  [id |-> sent[n].id, k |-> sent[n].k, esi |-> esi] \in [id : Ids, k : Nat, esi : Nat]
BY SentEpoch

(* At the start.                                                            *)
LEMMA InitType == ASSUME Init PROVE TypeOK
<1>1. blockId \in Ids /\ sent \in Seq([id : Ids, k : Shards]) /\ Len(sent) <= MaxEpochs
  BY AudioAssumption, Numbers DEF Init
<1>2. /\ IsAudio(audio) /\ audio.fec = NewDecoder /\ audio.delivered = <<>>
      /\ audio.inFlight = <<>> /\ audio.completed = <<>>
  BY DEF Init, NewAudioDecoder, IsAudio
<1>3. DecoderType(NewDecoder) /\ InFlight(NewDecoder) = {}
  BY DEF NewDecoder, DecoderType, InFlight
<1>4. /\ <<>> \in Seq(Ids) /\ IsInjective(<<>>) /\ Len(<<>>) = 0 /\ DOMAIN <<>> = {}
      /\ <<>> \in [{} -> SUBSET Nat]
  BY DEF IsInjective
<1>5. AudioType(audio) /\ Len(audio.inFlight) <= MaxInFlight
  BY <1>2, <1>3, <1>4, Numbers DEF AudioType
<1> QED
  BY <1>1, <1>5 DEF Init, TypeOK

(* Every step keeps the types.                                              *)
LEMMA NextType == ASSUME TypeOK, [Next]_vars PROVE TypeOK'
<1>1. ASSUME NEW k \in Shards, EncodeEpoch(k) PROVE TypeOK'
  <2>1. [id |-> blockId, k |-> k] \in [id : Ids, k : Shards]
    BY DEF TypeOK
  <2>2. sent' \in Seq([id : Ids, k : Shards]) /\ Len(sent') = Len(sent) + 1 /\ Len(sent) \in Nat
    BY <1>1, <2>1 DEF TypeOK, EncodeEpoch
  <2>3. Len(sent') <= MaxEpochs /\ Sent \subseteq Sent'
    BY <1>1, <2>2, Numbers DEF EncodeEpoch, Sent
  <2>4. blockId' \in Ids
    BY <1>1, Numbers DEF EncodeEpoch, TypeOK, Ids
  <2> QED
    BY <1>1, <2>2, <2>3, <2>4 DEF EncodeEpoch, TypeOK
<1>2. ASSUME NEW n \in Sent, NEW esi \in 0..sent[n].k+RepairCount-1, PushArrival(n, esi)
      PROVE  TypeOK'
  <2> DEFINE p == [id |-> sent[n].id, k |-> sent[n].k, esi |-> esi]
  <2>1. esi \in Nat /\ p \in [id : Ids, k : Nat, esi : Nat] /\ n \in Epochs
    <3>1. esi \in Nat
      OBVIOUS
    <3> QED
      BY <3>1, ArrivalType, SentEpoch
  <2>2. PICK o \in PushAudio(audio, p) :
          /\ audio' = o.a
          /\ returned' = [returned EXCEPT ![n] =
                            [i \in ShardIndices |-> IF i \in o.shards THEN @[i] + 1 ELSE @[i]]]
          /\ givenUp' = givenUp \cup
               {m \in Sent \ {n} : sent[m].id \in Range(audio.inFlight) \ Range(o.a.inFlight)}
    BY <1>2 DEF PushArrival
  <2> HIDE DEF p
  <2>3. AudioType(audio') /\ Len(audio'.inFlight) <= MaxInFlight
    BY <2>1, <2>2, PushAudioType DEF TypeOK
  <2>4. arrived' \in [Epochs -> SUBSET Nat]
    BY <1>2, <2>1 DEF PushArrival, TypeOK
  <2>5. returned' \in [Epochs -> [ShardIndices -> Nat]]
    BY <2>1, <2>2 DEF TypeOK
  <2>6. givenUp' \subseteq Sent /\ sent' = sent /\ blockId' = blockId
    BY <1>2, <2>2 DEF PushArrival, TypeOK
  <2> QED
    BY <2>3, <2>4, <2>5, <2>6 DEF TypeOK, Sent
<1>3. ASSUME NEW n \in Sent, ExpireBlock(n) PROVE TypeOK'
  <2> DEFINE id == sent[n].id
             queue == Retained(audio.inFlight, {id})
  <2>1. id \in Ids /\ AudioType(audio) /\ Len(audio.inFlight) <= MaxInFlight
    BY SentEpoch DEF TypeOK
  <2>2. audio' = ExpireAudio(audio, id)
    BY <1>3 DEF ExpireBlock
  <2> HIDE DEF id
  <2>3. ExpireAudio(audio, id) = Closing(audio, id, queue) /\ LeavesOut(queue, audio.inFlight, id)
    BY <2>1, ExpireIsClosing
  <2> HIDE DEF queue
  <2>4. AudioType(audio') /\ audio'.inFlight = queue
    BY <2>1, <2>2, <2>3, ClosingType DEF Closing
  <2>5. Len(queue) <= Len(audio.inFlight) /\ Len(queue) \in Nat /\ Len(audio.inFlight) \in Nat
    BY <2>1, <2>3 DEF LeavesOut, AudioType
  <2>6. Len(audio'.inFlight) <= MaxInFlight
    BY <2>1, <2>4, <2>5, Numbers
  <2> QED
    BY <1>3, <2>4, <2>6 DEF ExpireBlock, TypeOK, Sent
<1>4. CASE UNCHANGED vars
  BY <1>4 DEF vars, TypeOK, Sent
<1> QED
  BY <1>1, <1>2, <1>3, <1>4 DEF Next

(* MultichannelAudioFecDecoder keeps no RaptorQ decoder and no delivered    *)
(* shards outside the queue of the epochs in flight, and that queue and the *)
(* one of the closed epochs keep their limits, whatever wraps and however   *)
(* late datagrams come.                                                     *)
THEOREM DecoderIsBounded == Spec => []StateIsBounded
<1>1. Init => TypeOK
  BY InitType
<1>2. TypeOK /\ [Next]_vars => TypeOK'
  BY NextType
<1>3. TypeOK => StateIsBounded
  BY DEF TypeOK, AudioType, StateIsBounded
<1> QED
  BY <1>1, <1>2, <1>3, PTL DEF Spec

-----------------------------------------------------------------------------
(* The epochs, by their ids.                                                *)

(* Within the setting an id is the place of its epoch: ids differ, and an   *)
(* epoch's datagrams can come as long as its id is near the last.           *)
LEMMA EpochIds ==
  ASSUME Setting, TypeOK, IdsAreOrdinals, NEW n \in Sent
  PROVE  /\ sent[n].id \in Ids /\ sent[n].id \in Nat /\ Top \in Nat /\ sent[n].id \in 0..Top
         /\ Deliverable(n) <=> Top <= sent[n].id + Delay
         /\ \A m \in Sent : sent[m].id = sent[n].id => m = n
<1>1. PICK first \in FirstIds : \A m \in Sent : sent[m].id = first + m - 1
  BY DEF IdsAreOrdinals
<1>2. first \in Nat
  BY <1>1, AudioAssumption, Numbers DEF Ids
<1>3. Len(sent) \in Nat /\ n \in Nat /\ n >= 1 /\ n <= Len(sent) /\ sent # <<>>
  BY SentEpoch DEF Sent, TypeOK
<1>4. sent[n].id \in Ids
  BY SentEpoch
<1>5. Top = first + Len(sent) - 1
  <2>1. Len(sent) \in Sent
    BY <1>3 DEF Sent
  <2> QED
    BY <1>1, <1>3, <2>1 DEF Top
<1>6. sent[n].id = first + n - 1
  BY <1>1
<1>7. \A m \in Sent : sent[m].id = sent[n].id => m = n
  <2>1. \A m \in Sent : m \in Nat
    BY DEF Sent
  <2> QED
    BY <1>1, <1>2, <1>3, <2>1
<1> QED
  BY <1>2, <1>3, <1>4, <1>5, <1>6, <1>7, Numbers DEF Deliverable

(* An id is finished when its epoch is.                                     *)
LEMMA FinishedById ==
  ASSUME Setting, TypeOK, IdsAreOrdinals, NEW n \in Sent
  PROVE  sent[n].id \in FinishedIds <=> Finished(n)
BY EpochIds DEF FinishedIds

(* Closing an epoch does not touch one whose datagrams can come.            *)
LEMMA RecentIsRetained ==
  ASSUME Setting, TypeOK, IdsAreOrdinals, NEW n \in Sent, Deliverable(n), NEW x \in 0..Top
  PROVE  Retains(x, sent[n].id)
<1>1. /\ sent[n].id \in Nat /\ Top \in Nat /\ sent[n].id \in 0..Top /\ x \in Nat
      /\ x <= sent[n].id + CompletedWindow
  BY EpochIds, Numbers DEF Setting
<1>2. x \in 0..IdMod-1
  <2>1. Len(sent) \in Sent
    BY DEF Sent, TypeOK
  <2>2. Top \in Ids
    BY <2>1, SentEpoch DEF Top, Sent, TypeOK
  <2> QED
    BY <1>1, <2>2, Numbers DEF Ids
<1>3. CASE ~(x < CompletedWindow)
  <2>1. x - CompletedWindow \in 0..IdMod-1
    BY <1>1, <1>2, <1>3, Numbers
  <2>2. Cutoff(x) = x - CompletedWindow
    BY <2>1, Numbers DEF Cutoff
  <2> QED
    BY <1>1, <2>2, Numbers DEF Retains
<1> QED
  BY <1>3 DEF Retains

(* The epochs in flight are no more than their limit.                       *)
LEMMA FlyingIsFinite ==
  ASSUME TypeOK
  PROVE  /\ IsFiniteSet(Range(audio.inFlight)) /\ Range(audio.inFlight) \subseteq Ids
         /\ Cardinality(Range(audio.inFlight)) = Len(audio.inFlight)
         /\ Len(audio.inFlight) \in Nat
BY RangeIs DEF TypeOK, AudioType

(* An epoch of which a step changes nothing is as it was.                   *)
LEMMA HeldStays ==
  ASSUME NEW n \in Sent, IsHeld(n), sent'[n] = sent[n], Deliverable(n)' => Deliverable(n),
         arrived'[n] = arrived[n], returned'[n] = returned[n],
         Delivered(audio', sent[n].id) = Delivered(audio, sent[n].id),
         Deliverable(n) =>
           /\ Held(audio'.fec, sent[n].id) = Held(audio.fec, sent[n].id)
           /\ sent[n].id \in InFlight(audio'.fec) =>
                /\ sent[n].id \in InFlight(audio.fec)
                /\ audio'.fec.blocks[sent[n].id] = audio.fec.blocks[sent[n].id]
  PROVE  IsHeld(n)'
BY DEF IsHeld

-----------------------------------------------------------------------------
(* The steps.                                                               *)

(* encode_epoch: the new epoch is open, and nothing came for it.            *)
LEMMA EncodeStep ==
  ASSUME Setting, IInv, TypeOK', NEW k \in Shards, EncodeEpoch(k)
  PROVE  IInv'
<1>0. PICK N \in Nat : N = Len(sent) + 1
  BY DEF IInv, TypeOK
<1>1. PICK first \in FirstIds :
        /\ blockId = (first + Len(sent)) % IdMod
        /\ \A m \in Sent : sent[m].id = first + m - 1
  BY DEF IInv, IdsAreOrdinals
<1>2. /\ first \in Nat /\ Len(sent) \in Nat /\ Len(sent) < MaxEpochs /\ first + MaxEpochs <= IdMod
      /\ first + Len(sent) \in 0..IdMod-1
  <2>1. first \in Nat /\ first + MaxEpochs <= IdMod
    BY AudioAssumption, Numbers DEF Ids, Setting
  <2>2. Len(sent) \in Nat /\ Len(sent) < MaxEpochs
    BY DEF EncodeEpoch, IInv, TypeOK
  <2> QED
    BY <2>1, <2>2, Numbers
<1>3. blockId = first + Len(sent) /\ (blockId + 1) % IdMod = (first + (Len(sent) + 1)) % IdMod
  BY <1>1, <1>2, Numbers
<1>4. k \in Nat /\ k >= 1
  BY AudioAssumption
<1>5. /\ sent' \in Seq([id : Ids, k : Shards]) /\ Len(sent') = N
      /\ sent'[N] = [id |-> blockId, k |-> k] /\ \A m \in Sent : sent'[m] = sent[m]
  <2>1. blockId \in Ids /\ sent \in Seq([id : Ids, k : Shards]) /\ sent' = Append(sent, [id |-> blockId, k |-> k])
    BY DEF EncodeEpoch, IInv, TypeOK
  <2> DEFINE e == [id |-> blockId, k |-> k]
             E == [id : Ids, k : Shards]
  <2>2. e \in E
    BY <2>1
  <2> HIDE DEF e, E
  <2>3. sent' \in Seq(E) /\ Len(sent') = N /\ sent'[N] = e /\ \A m \in 1..Len(sent) : sent'[m] = sent[m]
    BY <1>0, <2>1, <2>2 DEF e, E
  <2> QED
    BY <2>3 DEF e, E, Sent
<1>6. Sent' = Sent \cup {N} /\ N \notin Sent /\ N \in Epochs /\ N \in Nat
  BY <1>0, <1>2, <1>5, Numbers DEF Sent, Epochs
<1>7. /\ UNCHANGED <<audio, arrived, returned, givenUp>> /\ blockId' = (blockId + 1) % IdMod
  BY DEF EncodeEpoch
<1>8. IdsAreOrdinals'
  <2>1. blockId' = (first + Len(sent')) % IdMod
    BY <1>0, <1>3, <1>5, <1>7
  <2>2. \A m \in Sent' : sent'[m].id = first + m - 1
    BY <1>0, <1>1, <1>3, <1>5, <1>6
  <2> QED
    BY <2>1, <2>2 DEF IdsAreOrdinals
<1>9. arrived[N] = {} /\ \A i \in ShardIndices : returned[N][i] = 0
  BY <1>6 DEF IInv, UnsentIsUntouched
<1>10. ~Finished(N)' /\ \A m \in Sent : Finished(m)' <=> Finished(m)
  <2>1. \A m \in Sent : Finished(m)' <=> Finished(m)
    BY <1>5, <1>7 DEF Finished, Whole
  <2>2. N \notin givenUp
    BY <1>6 DEF IInv, TypeOK
  <2>3. 0 \in 0..sent'[N].k-1 /\ 0 \in ShardIndices
    <3>1. sent'[N].k = k
      BY <1>5
    <3>2. Max(Shards) \in Shards /\ \A j \in Shards : j <= Max(Shards)
      BY MaxOfFinite, AudioAssumption
    <3>3. Max(Shards) \in Nat
      BY <3>2, AudioAssumption
    <3>4. 0 \in ShardIndices
      BY <1>4, <3>2, <3>3 DEF ShardIndices
    <3> QED
      BY <1>4, <3>1, <3>4
  <2>4. ~Whole(N)'
    BY <1>7, <1>9, <2>3 DEF Whole
  <2> QED
    BY <1>7, <2>1, <2>2, <2>4 DEF Finished
<1>11. FinishedIds' = FinishedIds
  BY <1>5, <1>6, <1>10 DEF FinishedIds
<1>12. Top \in Int /\ Top' = first + Len(sent) /\ Top <= Top' /\ \A x \in 0..Top : x # sent'[N].id
  <2>1. Top' = first + Len(sent)
    <3>1. sent' # <<>> /\ Top' = sent'[Len(sent')].id
      BY <1>0, <1>2, <1>5 DEF Top
    <3> QED
      BY <1>3, <1>5, <3>1
  <2>2. Top \in Int /\ Top < first + Len(sent)
    <3>1. CASE sent = <<>>
      BY <1>2, <3>1 DEF Top
    <3>2. CASE sent # <<>>
      <4>1. Len(sent) \in Sent
        BY <1>2, <3>2 DEF Sent, IInv, TypeOK
      <4>2. Top = first + Len(sent) - 1
        BY <1>1, <3>2, <4>1 DEF Top
      <4> QED
        BY <1>2, <4>2
    <3> QED
      BY <3>1, <3>2
  <2>3. sent'[N].id = first + Len(sent)
    BY <1>3, <1>5
  <2> QED
    BY <1>2, <2>1, <2>2, <2>3
<1>13. ClosedWindow(Range(audio.inFlight), audio.completed, FinishedIds, Top)'
  <2> DEFINE W(t) == ClosedWindow(Range(audio.inFlight), audio.completed, FinishedIds, t)
  <2>1. W(Top)
    BY DEF IInv
  <2>2. Top' \in Int
    BY <1>2, <1>12
  <2>3. W(Top')
    BY <1>12, <2>1, <2>2, ClosedGrows
  <2> QED
    BY <1>7, <1>11, <2>3
<1>14. Range(audio.inFlight) \subseteq 0..Top
  BY ClosedAre DEF IInv
<1>15. IsHeld(N)'
  <2>1. sent'[N].id \notin Range(audio.inFlight)
    BY <1>12, <1>14
  <2>2. sent'[N].id \notin DOMAIN audio.delivered /\ sent'[N].id \notin InFlight(audio.fec)
    BY <2>1 DEF IInv, TypeOK, AudioType
  <2>3. Delivered(audio, sent'[N].id) = {} /\ Held(audio.fec, sent'[N].id) = {}
    BY <2>2 DEF Delivered, Held
  <2>4. ~(0..sent'[N].k-1 \subseteq {})
    <3>1. 0 \in 0..sent'[N].k-1
      BY <1>4, <1>5
    <3> QED
      BY <3>1
  <2> QED
    BY <1>7, <1>9, <2>2, <2>3, <2>4 DEF IsHeld
<1>16. OpenIsHeld'
  <2> SUFFICES ASSUME NEW m \in Sent, ~Finished(m) PROVE IsHeld(m)'
    BY <1>6, <1>10, <1>15 DEF OpenIsHeld
  <2>1. IsHeld(m) /\ sent'[m] = sent[m]
    BY <1>5 DEF IInv, OpenIsHeld
  <2>2. Deliverable(m)' => Deliverable(m)
    <3>1. m \in Nat
      BY DEF Sent
    <3> QED
      BY <1>0, <1>2, <1>5, <3>1, Numbers DEF Deliverable
  <2> QED
    BY <1>7, <2>1, <2>2, HeldStays
<1>17. FlyingIsSent'
  BY <1>5, <1>6, <1>7 DEF IInv, FlyingIsSent
<1>18. UnsentIsUntouched'
  BY <1>6, <1>7 DEF IInv, UnsentIsUntouched
<1>19. ReturnedOnce'
  BY <1>6, <1>7, <1>10 DEF IInv, ReturnedOnce
<1>20. (audio.fec.completed \subseteq FinishedIds)'
  BY <1>7, <1>11 DEF IInv
<1> QED
  BY <1>8, <1>13, <1>16, <1>17, <1>18, <1>19, <1>20 DEF IInv

(* Closing an epoch that was open, when it decodes or expires: what the     *)
(* step does to the others.                                                 *)
LEMMA CloseStep ==
  ASSUME Setting, IInv, TypeOK', NEW n \in Sent, ~Finished(n), Finished(n)',
         \/ sent[n].id \in Range(audio.inFlight) /\ (Expires \/ Deliverable(n))
         \/ Deliverable(n) /\ 1 \in Shards,
         sent' = sent, blockId' = blockId, audio' = ExpireAudio(audio, sent[n].id),
         \A m \in Epochs \ {n} : arrived'[m] = arrived[m] /\ returned'[m] = returned[m],
         \A m \in Sent \ {n} : m \in givenUp' <=> m \in givenUp,
         \A i \in ShardIndices : returned'[n][i] <= 1
  PROVE  IInv'
<1>1. PICK x : x = sent[n].id
  OBVIOUS
<1> DEFINE queue == Retained(audio.inFlight, {x})
<1>2. /\ x \in Ids /\ x \in Nat /\ Top \in Nat /\ x \in 0..Top
      /\ Deliverable(n) <=> Top <= x + Delay
      /\ \A m \in Sent : sent[m].id = x => m = n
      /\ x \notin FinishedIds
  BY <1>1, EpochIds, FinishedById DEF IInv
<1>3. AudioType(audio) /\ Len(audio.inFlight) <= MaxInFlight /\ DecoderType(audio.fec)
  BY DEF IInv, TypeOK, AudioType
<1>4. audio' = Closing(audio, x, queue) /\ LeavesOut(queue, audio.inFlight, x)
  BY <1>1, <1>2, <1>3, ExpireIsClosing
<1> HIDE DEF queue
<1>5. /\ Range(audio'.inFlight) = Range(audio.inFlight) \ {x}
      /\ audio'.completed = RememberClosed(audio.completed, x)
      /\ audio'.fec = Close(audio.fec, x) /\ audio'.delivered = Forget(audio.delivered, x)
  BY <1>4 DEF Closing, LeavesOut
<1>6. Sent' = Sent /\ Top' = Top /\ \A m \in Sent : Deliverable(m)' <=> Deliverable(m)
  BY DEF Sent, Top, Deliverable
<1>7. \A m \in Sent : m \in Epochs
  BY SentEpoch DEF IInv
<1>8. \A m \in Sent \ {n} : Finished(m)' <=> Finished(m)
  BY <1>7 DEF Finished, Whole
<1>9. FinishedIds' = FinishedIds \cup {x}
  BY <1>1, <1>6, <1>8 DEF FinishedIds
<1>10. IdsAreOrdinals'
  BY <1>6 DEF IInv, IdsAreOrdinals
<1>11. ClosedWindow(Range(audio.inFlight), audio.completed, FinishedIds, Top)'
  <2> DEFINE flying == Range(audio.inFlight)
             old == {y \in flying \ {x} : y < x - Delay}
  <2>1. IsFiniteSet(flying) /\ Cardinality(flying) = Len(audio.inFlight) /\ Len(audio.inFlight) \in Nat
    BY FlyingIsFinite DEF IInv
  <2> HIDE DEF flying
  <2>2. IsFiniteSet(flying \ {x}) /\ Cardinality(flying \ {x}) <= LeftBehind
    <3>1. /\ IsFiniteSet(flying \ {x})
          /\ Cardinality(flying \ {x}) = IF x \in flying THEN Cardinality(flying) - 1 ELSE Cardinality(flying)
      BY <2>1, FS_RemoveElement
    <3>2. x \in flying \/ 1 \in Shards
      BY <1>1 DEF flying
    <3> QED
      BY <1>3, <2>1, <3>1, <3>2, Numbers DEF LeftBehind
  <2>3. Cardinality(old) <= LeftBehind
    <3>1. old \subseteq flying \ {x}
      OBVIOUS
    <3> HIDE DEF old
    <3>2. IsFiniteSet(old) /\ Cardinality(old) <= Cardinality(flying \ {x})
      BY <2>2, <3>1, FS_Subset
    <3>3. Cardinality(old) \in Nat /\ Cardinality(flying \ {x}) \in Nat
      BY <2>2, <3>2, FS_CardinalityType
    <3> QED
      BY <2>2, <3>2, <3>3, Numbers
  <2>4. ClosedWindow(flying, audio.completed, FinishedIds, Top)
    BY DEF IInv, flying
  <2>5. /\ audio.completed \in Seq(Ids) /\ IsInjective(audio.completed)
        /\ Len(audio.completed) <= MaxCompleted
    BY <1>3 DEF AudioType
  <2>6. (x \in flying /\ Expires) \/ Top <= x + Delay
    BY <1>1, <1>2 DEF flying
  <2>7. Top \in Int
    BY <1>2
  <2>8. ClosedWindow(flying \ {x}, RememberClosed(audio.completed, x), FinishedIds \cup {x}, Top)
    BY <1>2, <2>1, <2>3, <2>4, <2>5, <2>6, <2>7, ClosedCloses
  <2> QED
    BY <1>5, <1>6, <1>9, <2>8 DEF flying
<1>12. (audio.fec.completed \subseteq FinishedIds)'
  <2>1. Close(audio.fec, x).completed \subseteq audio.fec.completed \cup {x}
    BY <1>2, <1>3, CloseType
  <2> QED
    BY <1>5, <1>9, <2>1 DEF IInv
<1>13. OpenIsHeld'
  <2> SUFFICES ASSUME NEW m \in Sent, m # n, ~Finished(m) PROVE IsHeld(m)'
    BY <1>6, <1>8 DEF OpenIsHeld
  <2>1. IsHeld(m) /\ sent[m].id # x /\ m \in Epochs
    BY <1>2, <1>7 DEF IInv, OpenIsHeld
  <2>2. Delivered(audio', sent[m].id) = Delivered(audio, sent[m].id)
    BY <1>5, <2>1 DEF Delivered, Forget, Restrict
  <2>3. ASSUME Deliverable(m)
        PROVE  /\ Held(audio'.fec, sent[m].id) = Held(audio.fec, sent[m].id)
               /\ sent[m].id \in InFlight(audio'.fec) =>
                    /\ sent[m].id \in InFlight(audio.fec)
                    /\ audio'.fec.blocks[sent[m].id] = audio.fec.blocks[sent[m].id]
    <3>1. Retains(x, sent[m].id)
      BY <1>2, <2>3, RecentIsRetained DEF IInv
    <3>2. /\ InFlight(audio'.fec) \subseteq InFlight(audio.fec)
          /\ sent[m].id \in InFlight(audio.fec) => sent[m].id \in InFlight(audio'.fec)
          /\ \A c \in InFlight(audio'.fec) : audio'.fec.blocks[c] = audio.fec.blocks[c]
      BY <1>2, <1>3, <1>5, <2>1, <3>1, CloseType
    <3> QED
      BY <3>2 DEF Held
  <2> QED
    BY <1>6, <2>1, <2>2, <2>3, HeldStays
<1>14. FlyingIsSent'
  BY <1>5, <1>6 DEF IInv, FlyingIsSent
<1>15. UnsentIsUntouched'
  BY <1>6 DEF IInv, UnsentIsUntouched
<1>16. ReturnedOnce'
  BY <1>6, <1>7, <1>8 DEF IInv, ReturnedOnce
<1> QED
  BY <1>10, <1>11, <1>12, <1>13, <1>14, <1>15, <1>16 DEF IInv

(* expire_block.                                                            *)
LEMMA ExpireStep ==
  ASSUME Setting, IInv, TypeOK', NEW n \in Sent, ExpireBlock(n)
  PROVE  IInv'
<1>1. Expires /\ sent[n].id \in Range(audio.inFlight) /\ sent[n].id \notin FinishedIds
  BY ClosedAre DEF ExpireBlock, IInv
<1>2. ~Finished(n)
  BY <1>1, FinishedById DEF IInv
<1>3. Finished(n)'
  BY DEF ExpireBlock, Finished
<1>4. \A i \in ShardIndices : returned'[n][i] <= 1
  <2>1. \A i \in ShardIndices : returned[n][i] = 0 \/ returned[n][i] = 1
    BY <1>2 DEF IInv, OpenIsHeld, IsHeld
  <2> QED
    BY <2>1 DEF ExpireBlock
<1> QED
  BY <1>1, <1>2, <1>3, <1>4, CloseStep DEF ExpireBlock

(* What a symbol that is taken in does in the decoder below: it is held     *)
(* with those of its block.                                                 *)
LEMMA TakenBelow ==
  ASSUME NEW a, AudioType(a), NEW p \in [id : Ids, k : Nat, esi : Nat],
         SameGeometry(a.fec, p), p.id \notin a.fec.completed,
         NEW o, NEW d, TakenIn(a, p, o, d)
  PROVE  /\ DecoderType(d) /\ InFlight(d) = InFlight(a.fec) \cup {p.id}
         /\ d.completed = a.fec.completed
         /\ Held(d, p.id) = Held(a.fec, p.id) \cup {p.esi} /\ d.blocks[p.id].k = p.k
         /\ \A c \in InFlight(a.fec) \ {p.id} : d.blocks[c] = a.fec.blocks[c]
         /\ p.esi \in Held(a.fec, p.id) \/ ~MustDecode(p.k, Held(a.fec, p.id) \cup {p.esi})
<1>1. DecoderType(a.fec)
  BY DEF AudioType
<1>2. CASE d = a.fec /\ p.esi \in Held(a.fec, p.id)
  <2>1. p.id \in InFlight(a.fec)
    BY <1>2 DEF Held
  <2>2. d.blocks[p.id].k = p.k
    BY <1>2, <2>1 DEF SameGeometry
  <2> QED
    BY <1>1, <1>2, <2>1, <2>2
<1>3. CASE d = Hold(a.fec, p) /\ ~MustDecode(p.k, Held(a.fec, p.id) \cup {p.esi})
  <2> DEFINE b == Hold(a.fec, p)
  <2>1. /\ DecoderType(b) /\ InFlight(b) = InFlight(a.fec) \cup {p.id}
        /\ b.completed = a.fec.completed
        /\ b.blocks[p.id] = [k |-> p.k, symbols |-> Held(a.fec, p.id) \cup {p.esi}]
        /\ \A c \in InFlight(a.fec) \ {p.id} : b.blocks[c] = a.fec.blocks[c]
    BY <1>1, HoldType
  <2> HIDE DEF b
  <2>2. Held(b, p.id) = Held(a.fec, p.id) \cup {p.esi} /\ b.blocks[p.id].k = p.k
    <3>1. Held(b, p.id) = b.blocks[p.id].symbols
      BY <2>1 DEF Held
    <3> QED
      BY <2>1, <3>1
  <2>3. d = b
    BY <1>3 DEF b
  <2> QED
    BY <1>3, <2>1, <2>2, <2>3
<1> QED
  BY <1>2, <1>3 DEF TakenIn

(* A block joins those in flight, and has delivered a source shard more.    *)
Joins(a, p, b, d) ==
  /\ b.fec = d /\ b.completed = a.completed
  /\ Range(b.inFlight) = Range(a.inFlight) \cup {p.id}
  /\ \A y : y # p.id => Delivered(b, y) = Delivered(a, y)

(* The same, and the oldest block is evicted for it.                        *)
JoinsFor(a, p, b, d, oldest) ==
  /\ oldest \in Range(a.inFlight) /\ p.id \notin Range(a.inFlight) /\ Len(a.inFlight) = MaxInFlight
  /\ b.fec = Close(d, oldest) /\ b.completed = RememberClosed(a.completed, oldest)
  /\ Range(b.inFlight) = (Range(a.inFlight) \cup {p.id}) \ {oldest}
  /\ \A y : y # p.id /\ y # oldest => Delivered(b, y) = Delivered(a, y)

(* What a datagram that is taken in does in the MultichannelAudioFecDecoder. *)
LEMMA TakenInIs ==
  ASSUME NEW a, AudioType(a), Len(a.inFlight) <= MaxInFlight,
         NEW p \in [id : Ids, k : Nat, esi : Nat], NEW o, NEW d, TakenIn(a, p, o, d),
         DecoderType(d), InFlight(d) = InFlight(a.fec) \cup {p.id}
  PROVE  /\ o.shards = SourceShard(p) \ Delivered(a, p.id)
         /\ Delivered(o.a, p.id) = Delivered(a, p.id) \cup SourceShard(p)
         /\ Joins(a, p, o.a, d) \/ \E oldest : JoinsFor(a, p, o.a, d, oldest)
<1> DEFINE w == WithFec(a, d)
           c == ObserveInFlight(w, p.id)
           j == Joined(a, d, p.id)
           h == Head(a.inFlight)
<1>1. /\ AudioType(c) /\ p.id \in Range(c.inFlight)
      /\ \/ p.id \in Range(a.inFlight) /\ c = w
         \/ p.id \notin Range(a.inFlight) /\ c = j
         \/ /\ p.id \notin Range(a.inFlight) /\ Len(a.inFlight) = MaxInFlight
            /\ a.inFlight # <<>> /\ Head(j.inFlight) = h
            /\ c = Closing(j, Head(j.inFlight), Tail(j.inFlight))
  BY ObserveCases
<1>2. o.a = DeliverSource(c, p) /\ o.shards = SourceShard(p) \ Delivered(c, p.id)
  BY DEF TakenIn
<1> HIDE DEF c
<1>3. /\ o.a.fec = c.fec /\ o.a.inFlight = c.inFlight /\ o.a.completed = c.completed
      /\ Delivered(o.a, p.id) = Delivered(c, p.id) \cup SourceShard(p)
      /\ \A x : x # p.id => Delivered(o.a, x) = Delivered(c, x)
  <2> DEFINE e == DeliverSource(c, p)
  <2>1. AudioType(c) /\ p.id \in Range(c.inFlight) /\ p \in [id : Ids, k : Nat, esi : Nat]
    BY <1>1
  <2>2. /\ e.fec = c.fec /\ e.inFlight = c.inFlight /\ e.completed = c.completed
        /\ Delivered(e, p.id) = Delivered(c, p.id) \cup SourceShard(p)
        /\ \A x : x # p.id => Delivered(e, x) = Delivered(c, x)
    BY <2>1, DeliverType, Zenon
  <2> HIDE DEF e
  <2>3. o.a = e
    BY <1>2 DEF e
  <2> QED
    BY <2>2, <2>3
<1>4. CASE p.id \in Range(a.inFlight) /\ c = w
  <2>1. /\ c.fec = d /\ c.completed = a.completed /\ c.inFlight = a.inFlight
        /\ \A y : Delivered(c, y) = Delivered(a, y)
    BY <1>4 DEF WithFec, Delivered
  <2>2. Joins(a, p, o.a, d)
    BY <1>3, <1>4, <2>1 DEF Joins
  <2> QED
    BY <1>2, <1>3, <2>1, <2>2
<1>5. ASSUME p.id \notin Range(a.inFlight)
      PROVE  /\ AudioType(j) /\ Range(j.inFlight) = Range(a.inFlight) \cup {p.id}
             /\ Len(j.inFlight) = Len(a.inFlight) + 1
             /\ j.fec = d /\ j.completed = a.completed /\ j.delivered = a.delivered
             /\ \A y : Delivered(j, y) = Delivered(a, y)
  <2>1. j.fec = d /\ j.completed = a.completed /\ j.delivered = a.delivered
    BY DEF Joined
  <2>2. \A y : Delivered(j, y) = Delivered(a, y)
    BY <2>1 DEF Delivered
  <2> QED
    BY <1>5, <2>1, <2>2, JoinedType
<1> HIDE DEF j
<1>6. CASE p.id \notin Range(a.inFlight) /\ c = j
  <2>1. Joins(a, p, o.a, d)
    BY <1>3, <1>5, <1>6 DEF Joins
  <2> QED
    BY <1>2, <1>3, <1>5, <1>6, <2>1
<1>7. CASE /\ p.id \notin Range(a.inFlight) /\ Len(a.inFlight) = MaxInFlight
           /\ a.inFlight # <<>> /\ Head(j.inFlight) = h
           /\ c = Closing(j, Head(j.inFlight), Tail(j.inFlight))
  <2>1. h \in Range(a.inFlight)
    BY <1>7, OldestLeaves
  <2>2. j.inFlight # <<>>
    <3>1. Len(j.inFlight) # 0
      BY <1>5, <1>7, Numbers
    <3> QED
      BY <3>1
  <2>3. LeavesOut(Tail(j.inFlight), j.inFlight, h)
    BY <1>5, <1>7, <2>2, OldestLeaves
  <2>4. /\ c.fec = Close(d, h) /\ c.completed = RememberClosed(a.completed, h)
        /\ c.delivered = Forget(a.delivered, h)
        /\ Range(c.inFlight) = (Range(a.inFlight) \cup {p.id}) \ {h}
    BY <1>5, <1>7, <2>3 DEF Closing, LeavesOut
  <2> HIDE DEF h
  <2>5. \A y : y # h => Delivered(c, y) = Delivered(a, y)
    BY <2>4 DEF Delivered, Forget, Restrict
  <2>6. JoinsFor(a, p, o.a, d, h)
    BY <1>3, <1>7, <2>1, <2>4, <2>5 DEF JoinsFor
  <2>7. p.id # h
    BY <1>7, <2>1
  <2> QED
    BY <1>2, <1>3, <2>5, <2>6, <2>7
<1> QED
  BY <1>1, <1>4, <1>6, <1>7

Datagram(n, esi) == [id |-> sent[n].id, k |-> sent[n].k, esi |-> esi]

(* What a step in which a datagram arrives does, by what push_datagram does. *)
Arrives(n, esi, o) ==
  /\ audio' = o.a
  /\ returned' = [returned EXCEPT ![n] =
                    [i \in ShardIndices |-> IF i \in o.shards THEN @[i] + 1 ELSE @[i]]]
  /\ givenUp' = givenUp \cup
       {m \in Sent \ {n} : sent[m].id \in Range(audio.inFlight) \ Range(o.a.inFlight)}
  /\ arrived' = [arrived EXCEPT ![n] = @ \cup {esi}]
  /\ UNCHANGED <<blockId, sent>>

(* The rest of the history is as it was.                                    *)
LEMMA ArrivesElsewhere ==
  ASSUME TypeOK, NEW n \in Sent, NEW esi \in Nat, NEW o, Arrives(n, esi, o)
  PROVE  /\ n \in Epochs /\ Datagram(n, esi) \in [id : Ids, k : Nat, esi : Nat]
         /\ arrived'[n] = arrived[n] \cup {esi}
         /\ \A i \in ShardIndices :
              returned'[n][i] = IF i \in o.shards THEN returned[n][i] + 1 ELSE returned[n][i]
         /\ \A m \in Epochs \ {n} : arrived'[m] = arrived[m] /\ returned'[m] = returned[m]
         /\ n \in givenUp' <=> n \in givenUp
         /\ Sent' = Sent /\ Top' = Top /\ \A m \in Sent : Deliverable(m)' <=> Deliverable(m)
<1>1. n \in Epochs
  BY SentEpoch
<1>2. arrived \in [Epochs -> SUBSET Nat] /\ returned \in [Epochs -> [ShardIndices -> Nat]]
  BY DEF TypeOK
<1>3. Sent' = Sent /\ Top' = Top /\ \A m \in Sent : Deliverable(m)' <=> Deliverable(m)
  BY DEF Arrives, Sent, Top, Deliverable
<1>4. Datagram(n, esi) \in [id : Ids, k : Nat, esi : Nat]
  BY ArrivalType DEF Datagram
<1> QED
  BY <1>1, <1>2, <1>3, <1>4 DEF Arrives

(* A datagram of an open epoch is neither ignored nor refused.              *)
LEMMA ArrivalFits ==
  ASSUME Setting, IInv, NEW n \in Sent, ~Finished(n), Deliverable(n), NEW esi \in Nat
  PROVE  /\ sent[n].id \notin Range(audio.completed) /\ sent[n].id \notin audio.fec.completed
         /\ SameGeometry(audio.fec, Datagram(n, esi))
         /\ Held(audio.fec, sent[n].id) = arrived[n]
<1>1. sent[n].id \notin FinishedIds
  BY FinishedById DEF IInv
<1>2. Range(audio.completed) \subseteq FinishedIds /\ audio.fec.completed \subseteq FinishedIds
  BY ClosedAre DEF IInv
<1>3. IsHeld(n)
  BY DEF IInv, OpenIsHeld
<1> QED
  BY <1>1, <1>2, <1>3 DEF IsHeld, SameGeometry, Datagram

(* A datagram of a finished epoch changes nothing: the window remembers it. *)
LEMMA LateStep ==
  ASSUME Setting, IInv, TypeOK', NEW n \in Sent, Finished(n), Deliverable(n), NEW esi \in Nat,
         NEW o \in PushAudio(audio, Datagram(n, esi)), Arrives(n, esi, o)
  PROVE  IInv' /\ returned' = returned
<1>1. sent[n].id \in Range(audio.completed)
  <2>1. sent[n].id \in FinishedIds /\ Top <= sent[n].id + Delay
    BY EpochIds, FinishedById DEF IInv
  <2> QED
    BY <2>1, ClosedAre DEF IInv
<1>2. o.a = audio /\ o.shards = {}
  BY <1>1 DEF PushAudio, Datagram
<1>3. /\ n \in Epochs
      /\ \A i \in ShardIndices : returned'[n][i] = returned[n][i]
      /\ \A m \in Epochs \ {n} : arrived'[m] = arrived[m] /\ returned'[m] = returned[m]
      /\ Sent' = Sent /\ Top' = Top /\ \A m \in Sent : Deliverable(m)' <=> Deliverable(m)
  BY <1>2, ArrivesElsewhere DEF IInv
<1>4. returned' = returned
  <2>1. /\ returned \in [Epochs -> [ShardIndices -> Nat]]
        /\ returned' \in [Epochs -> [ShardIndices -> Nat]]
    BY DEF IInv, TypeOK
  <2>2. \A m \in Epochs : returned'[m] = returned[m]
    <3> SUFFICES returned'[n] = returned[n]
      BY <1>3
    <3>1. returned[n] \in [ShardIndices -> Nat] /\ returned'[n] \in [ShardIndices -> Nat]
      BY <1>3, <2>1
    <3> QED
      BY <1>3, <3>1
  <2> QED
    BY <2>1, <2>2
<1>5. audio' = audio /\ givenUp' = givenUp /\ blockId' = blockId /\ sent' = sent
  BY <1>2 DEF Arrives
<1>6. (\A m \in Sent : Finished(m)' <=> Finished(m)) /\ FinishedIds' = FinishedIds
  <2>1. \A m \in Sent : Finished(m)' <=> Finished(m)
    BY <1>4, <1>5 DEF Finished, Whole
  <2> QED
    BY <1>3, <1>5, <2>1 DEF FinishedIds
<1>7. OpenIsHeld'
  <2> SUFFICES ASSUME NEW m \in Sent, ~Finished(m) PROVE IsHeld(m)'
    BY <1>3, <1>6 DEF OpenIsHeld
  <2>1. IsHeld(m) /\ m # n /\ m \in Epochs
    BY SentEpoch DEF IInv, OpenIsHeld
  <2> QED
    BY <1>3, <1>5, <2>1, HeldStays
<1>8. IdsAreOrdinals' /\ FlyingIsSent'
  BY <1>3, <1>5 DEF IInv, IdsAreOrdinals, FlyingIsSent
<1>9. ClosedWindow(Range(audio.inFlight), audio.completed, FinishedIds, Top)'
  BY <1>3, <1>5, <1>6 DEF IInv
<1>10. UnsentIsUntouched' /\ ReturnedOnce'
  BY <1>3, <1>4, <1>6 DEF IInv, UnsentIsUntouched, ReturnedOnce
<1>11. (audio.fec.completed \subseteq FinishedIds)'
  BY <1>5, <1>6 DEF IInv
<1> QED
  BY <1>4, <1>7, <1>8, <1>9, <1>10, <1>11 DEF IInv

(* The symbol with which an open epoch decodes returns what was left of it. *)
LEMMA DecodeStep ==
  ASSUME Setting, IInv, TypeOK', NEW n \in Sent, ~Finished(n), Deliverable(n), NEW esi \in Nat,
         NEW o, Decoded(audio, Datagram(n, esi), o), Arrives(n, esi, o)
  PROVE  IInv'
<1>1. PICK x, k : x = sent[n].id /\ k = sent[n].k
  OBVIOUS
<1>2. IsHeld(n) /\ AudioType(audio)
  BY DEF IInv, OpenIsHeld, TypeOK
<1>3. /\ n \in Epochs /\ Sent' = Sent
      /\ \A i \in ShardIndices :
           returned'[n][i] = IF i \in o.shards THEN returned[n][i] + 1 ELSE returned[n][i]
      /\ \A m \in Epochs \ {n} : arrived'[m] = arrived[m] /\ returned'[m] = returned[m]
  BY ArrivesElsewhere DEF IInv
<1>4. /\ o.a = ExpireAudio(audio, x) /\ o.shards = 0..k-1 \ Delivered(audio, x)
      /\ CanDecode(k, Held(audio.fec, x) \cup {esi})
  BY <1>1 DEF Decoded, Datagram
<1>5. \A i \in ShardIndices : returned[n][i] = IF i \in Delivered(audio, x) THEN 1 ELSE 0
  BY <1>1, <1>2 DEF IsHeld
<1>6. k \in Shards /\ k \in Nat /\ k >= 1 /\ x \in Ids /\ \A i \in 0..k-1 : i \in ShardIndices
  BY <1>1, SentEpoch DEF IInv
<1>7. \A i \in ShardIndices : returned'[n][i] <= 1
  BY <1>3, <1>4, <1>5
<1>8. Finished(n)'
  <2>1. \A i \in 0..k-1 : returned'[n][i] > 0
    BY <1>3, <1>4, <1>5, <1>6
  <2>2. sent'[n].k = k
    BY <1>1 DEF Arrives
  <2> QED
    BY <2>1, <2>2 DEF Finished, Whole
<1>9. x \in Range(audio.inFlight) \/ 1 \in Shards
  <2> SUFFICES ASSUME x \notin Range(audio.inFlight) PROVE k = 1
    BY <1>6
  <2>1. Held(audio.fec, x) = {}
    BY <1>2 DEF AudioType, Held
  <2>2. Cardinality({esi}) >= k
    BY <1>4, <2>1 DEF CanDecode
  <2>3. Cardinality({esi}) = 1
    BY FS_Singleton
  <2> QED
    BY <1>6, <2>2, <2>3
<1>10. \A m \in Sent \ {n} : m \in givenUp' <=> m \in givenUp
  <2> DEFINE queue == Retained(audio.inFlight, {x})
  <2>1. ExpireAudio(audio, x) = Closing(audio, x, queue) /\ LeavesOut(queue, audio.inFlight, x)
    BY <1>2, <1>6, ExpireIsClosing
  <2> HIDE DEF queue
  <2>2. Range(o.a.inFlight) = Range(audio.inFlight) \ {x}
    BY <1>4, <2>1 DEF Closing, LeavesOut
  <2>3. \A m \in Sent \ {n} : sent[m].id # x
    BY <1>1, EpochIds DEF IInv
  <2> QED
    BY <2>2, <2>3 DEF Arrives
<1>11. sent' = sent /\ blockId' = blockId /\ audio' = ExpireAudio(audio, sent[n].id)
  BY <1>1, <1>4 DEF Arrives
<1> QED
  BY <1>1, <1>3, <1>7, <1>8, <1>9, <1>10, <1>11, CloseStep

(* A symbol with which an open epoch does not decode is held, and what it   *)
(* evicts from the queue is no epoch whose datagrams have just come.        *)
LEMMA TakeStep ==
  ASSUME Setting, IInv, TypeOK', NEW n \in Sent, ~Finished(n), Deliverable(n), NEW esi \in Nat,
         NEW o, NEW d, TakenIn(audio, Datagram(n, esi), o, d), Arrives(n, esi, o)
  PROVE  IInv'
<1>1. PICK x, k, p : x = sent[n].id /\ k = sent[n].k /\ p = Datagram(n, esi)
  OBVIOUS
<1>2. IsHeld(n) /\ AudioType(audio) /\ Len(audio.inFlight) <= MaxInFlight
  BY DEF IInv, OpenIsHeld, TypeOK
<1>3. /\ n \in Epochs /\ p \in [id : Ids, k : Nat, esi : Nat]
      /\ arrived'[n] = arrived[n] \cup {esi}
      /\ \A i \in ShardIndices :
           returned'[n][i] = IF i \in o.shards THEN returned[n][i] + 1 ELSE returned[n][i]
      /\ \A m \in Epochs \ {n} : arrived'[m] = arrived[m] /\ returned'[m] = returned[m]
      /\ n \in givenUp' <=> n \in givenUp
      /\ Sent' = Sent /\ Top' = Top /\ \A m \in Sent : Deliverable(m)' <=> Deliverable(m)
  BY <1>1, ArrivesElsewhere DEF IInv
<1>4. /\ x \notin Range(audio.completed) /\ x \notin audio.fec.completed
      /\ SameGeometry(audio.fec, p) /\ Held(audio.fec, x) = arrived[n]
      /\ p.id = x /\ p.k = k /\ p.esi = esi
  BY <1>1, ArrivalFits DEF Datagram
<1>5. k \in Nat /\ k >= 1 /\ \A i \in 0..k-1 : i \in ShardIndices
  BY <1>1, SentEpoch DEF IInv
<1>6. /\ x \in Ids /\ x \in Nat /\ Top \in Nat /\ x \in 0..Top /\ Top <= x + Delay
      /\ \A m \in Sent : sent[m].id = x => m = n
      /\ x \notin FinishedIds
  BY <1>1, EpochIds, FinishedById DEF IInv
<1>7. /\ DecoderType(d) /\ InFlight(d) = InFlight(audio.fec) \cup {x}
      /\ d.completed = audio.fec.completed
      /\ Held(d, x) = arrived'[n] /\ d.blocks[x].k = k
      /\ \A c \in InFlight(audio.fec) \ {x} : d.blocks[c] = audio.fec.blocks[c]
      /\ esi \in arrived[n] \/ ~MustDecode(k, arrived[n] \cup {esi})
  <2>1. TakenIn(audio, p, o, d) /\ SameGeometry(audio.fec, p) /\ p.id \notin audio.fec.completed
    BY <1>1, <1>4
  <2>2. /\ DecoderType(d) /\ InFlight(d) = InFlight(audio.fec) \cup {p.id}
        /\ d.completed = audio.fec.completed
        /\ Held(d, p.id) = Held(audio.fec, p.id) \cup {p.esi} /\ d.blocks[p.id].k = p.k
        /\ \A c \in InFlight(audio.fec) \ {p.id} : d.blocks[c] = audio.fec.blocks[c]
        /\ p.esi \in Held(audio.fec, p.id) \/ ~MustDecode(p.k, Held(audio.fec, p.id) \cup {p.esi})
    BY <1>2, <1>3, <2>1, TakenBelow
  <2> QED
    BY <1>3, <1>4, <2>2
<1>8. /\ o.shards = SourceShard(p) \ Delivered(audio, x)
      /\ Delivered(o.a, x) = Delivered(audio, x) \cup SourceShard(p)
      /\ Joins(audio, p, o.a, d) \/ \E oldest : JoinsFor(audio, p, o.a, d, oldest)
  <2>1. TakenIn(audio, p, o, d) /\ InFlight(d) = InFlight(audio.fec) \cup {p.id}
    BY <1>1, <1>4, <1>7
  <2>2. /\ o.shards = SourceShard(p) \ Delivered(audio, p.id)
        /\ Delivered(o.a, p.id) = Delivered(audio, p.id) \cup SourceShard(p)
        /\ Joins(audio, p, o.a, d) \/ \E oldest : JoinsFor(audio, p, o.a, d, oldest)
    BY <1>2, <1>3, <1>7, <2>1, TakenInIs
  <2> QED
    BY <1>4, <2>2
<1>9. audio' = o.a /\ sent' = sent /\ blockId' = blockId
  BY DEF Arrives
<1>10. ~(0..k-1 \subseteq arrived'[n]) /\ 0..k-1 # arrived'[n] \cap 0..k-1
  <2>1. ~(0..k-1 \subseteq arrived[n])
    BY <1>1, <1>2 DEF IsHeld
  <2>2. ~(0..k-1 \subseteq arrived[n] \cup {esi})
    <3>1. CASE esi \in arrived[n]
      BY <2>1, <3>1
    <3>2. CASE ~MustDecode(k, arrived[n] \cup {esi})
      BY <3>2 DEF MustDecode
    <3> QED
      BY <1>7, <3>1, <3>2
  <2> QED
    BY <1>3, <2>2
<1>11. /\ Delivered(audio', x) = arrived'[n] \cap 0..k-1
       /\ \A i \in ShardIndices : returned'[n][i] = IF i \in Delivered(audio', x) THEN 1 ELSE 0
  <2>1. /\ Delivered(audio, x) = arrived[n] \cap 0..k-1
        /\ \A i \in ShardIndices : returned[n][i] = IF i \in Delivered(audio, x) THEN 1 ELSE 0
    BY <1>1, <1>2 DEF IsHeld
  <2>2. SourceShard(p) = {esi} \cap 0..k-1
    BY <1>4, <1>5 DEF SourceShard
  <2>3. Delivered(audio', x) = arrived'[n] \cap 0..k-1
    BY <1>3, <1>8, <1>9, <2>1, <2>2
  <2> QED
    BY <1>3, <1>8, <1>9, <2>1, <2>3
<1>12. ~Finished(n)'
  <2>1. ~Whole(n)'
    <3>1. PICK i \in 0..k-1 : i \notin Delivered(audio', x)
      BY <1>10, <1>11
    <3>2. returned'[n][i] = 0 /\ sent'[n].k = k
      BY <1>1, <1>5, <1>9, <1>11, <3>1
    <3> QED
      BY <3>2 DEF Whole
  <2> QED
    BY <1>3, <2>1 DEF Finished
<1>13. \A m \in Sent \ {n} : m \in Epochs /\ sent[m].id # x /\ (Whole(m)' <=> Whole(m))
  <2>1. \A m \in Sent : m \in Epochs
    BY SentEpoch DEF IInv
  <2> QED
    BY <1>3, <1>6, <1>9, <2>1 DEF Whole
<1>14. ASSUME x \in InFlight(audio'.fec), audio'.fec.blocks[x] = d.blocks[x] PROVE IsHeld(n)'
  <2>1. Held(audio'.fec, x) = arrived'[n] /\ audio'.fec.blocks[x].k = k
    BY <1>7, <1>14 DEF Held
  <2> QED
    BY <1>1, <1>9, <1>10, <1>11, <2>1 DEF IsHeld
<1>15. ClosedWindow(Range(audio.inFlight) \cup {x}, audio.completed, FinishedIds, Top)
  <2>1. Top \in Int /\ audio.completed \in Seq(Ids) /\ ClosedWindow(Range(audio.inFlight), audio.completed, FinishedIds, Top)
    BY <1>2, <1>6 DEF IInv, AudioType
  <2> QED
    BY <1>6, <2>1, ClosedJoins
<1>16. IdsAreOrdinals'
  BY <1>3, <1>9 DEF IInv, IdsAreOrdinals
<1>17. UnsentIsUntouched'
  BY <1>3 DEF IInv, UnsentIsUntouched
<1>18. CASE Joins(audio, p, o.a, d)
  <2>1. /\ audio'.fec = d /\ audio'.completed = audio.completed
        /\ Range(audio'.inFlight) = Range(audio.inFlight) \cup {x}
        /\ \A y : y # x => Delivered(audio', y) = Delivered(audio, y)
    BY <1>4, <1>9, <1>18 DEF Joins
  <2>2. givenUp' = givenUp
    BY <1>9, <2>1 DEF Arrives
  <2>3. \A m \in Sent : Finished(m)' <=> Finished(m)
    BY <1>12, <1>13, <2>2 DEF Finished
  <2>4. FinishedIds' = FinishedIds
    BY <1>3, <1>9, <2>3 DEF FinishedIds
  <2>5. OpenIsHeld'
    <3>1. IsHeld(n)'
      BY <1>7, <1>14, <2>1
    <3> SUFFICES ASSUME NEW m \in Sent, m # n, ~Finished(m) PROVE IsHeld(m)'
      BY <1>3, <2>3, <3>1 DEF OpenIsHeld
    <3>2. IsHeld(m) /\ m \in Epochs /\ sent[m].id # x
      BY <1>13 DEF IInv, OpenIsHeld
    <3>3. /\ Held(audio'.fec, sent[m].id) = Held(audio.fec, sent[m].id)
          /\ sent[m].id \in InFlight(audio'.fec) =>
               /\ sent[m].id \in InFlight(audio.fec)
               /\ audio'.fec.blocks[sent[m].id] = audio.fec.blocks[sent[m].id]
      BY <1>7, <2>1, <3>2 DEF Held
    <3> QED
      BY <1>3, <1>9, <2>1, <3>2, <3>3, HeldStays
  <2>6. ClosedWindow(Range(audio.inFlight), audio.completed, FinishedIds, Top)'
    BY <1>3, <1>15, <2>1, <2>4
  <2>7. FlyingIsSent'
    BY <1>1, <1>3, <1>9, <2>1 DEF IInv, FlyingIsSent
  <2>8. ReturnedOnce'
    BY <1>3, <1>12, <1>13, <2>3 DEF IInv, ReturnedOnce
  <2>9. (audio.fec.completed \subseteq FinishedIds)'
    BY <1>7, <2>1, <2>4 DEF IInv
  <2> QED
    BY <1>16, <1>17, <2>5, <2>6, <2>7, <2>8, <2>9 DEF IInv
<1>19. ASSUME NEW h, JoinsFor(audio, p, o.a, d, h) PROVE IInv'
  <2>1. /\ h \in Range(audio.inFlight) /\ x \notin Range(audio.inFlight) /\ h # x
        /\ Len(audio.inFlight) = MaxInFlight
        /\ audio'.fec = Close(d, h) /\ audio'.completed = RememberClosed(audio.completed, h)
        /\ Range(audio'.inFlight) = (Range(audio.inFlight) \cup {x}) \ {h}
        /\ \A y : y # x /\ y # h => Delivered(audio', y) = Delivered(audio, y)
    BY <1>4, <1>9, <1>19 DEF JoinsFor
  <2>2. PICK e \in Sent : h = sent[e].id
    BY <2>1 DEF IInv, FlyingIsSent
  <2>3. /\ h \in Ids /\ h \in Nat /\ h \in 0..Top /\ e # n /\ e \in Epochs
        /\ \A m \in Sent : sent[m].id = h => m = e
    <3>1. TypeOK /\ IdsAreOrdinals
      BY DEF IInv
    <3>2. /\ sent[e].id \in Ids /\ sent[e].id \in Nat /\ sent[e].id \in 0..Top
          /\ \A m \in Sent : sent[m].id = sent[e].id => m = e
      BY <3>1, EpochIds
    <3>3. e # n /\ e \in Epochs
      BY <1>1, <1>13, <2>1, <2>2
    <3> QED
      BY <2>2, <3>2, <3>3
  <2>4. h \notin FinishedIds /\ ~Finished(e)
    <3>1. h \notin FinishedIds
      BY <2>1, ClosedAre DEF IInv
    <3> QED
      BY <2>2, <3>1, FinishedById DEF IInv
  <2>5. givenUp' = givenUp \cup {e}
    BY <1>1, <1>9, <2>1, <2>2, <2>3 DEF Arrives
  <2>6. \A m \in Sent : Finished(m)' <=> Finished(m) \/ m = e
    BY <1>12, <1>13, <2>3, <2>5 DEF Finished
  <2>7. FinishedIds' = FinishedIds \cup {h}
    BY <1>3, <1>9, <2>2, <2>6 DEF FinishedIds
  <2>8. ClosedWindow(Range(audio.inFlight), audio.completed, FinishedIds, Top)'
    <3> DEFINE flying == Range(audio.inFlight)
               old == {y \in (flying \cup {x}) \ {h} : y < h - Delay}
               rest == Range(audio.inFlight) \ {h}
    <3>1. IsFiniteSet(rest) /\ Cardinality(rest) = MaxInFlight - 1 /\ IsFiniteSet(flying)
      <4>1. IsFiniteSet(Range(audio.inFlight)) /\ Cardinality(Range(audio.inFlight)) = Len(audio.inFlight)
        BY FlyingIsFinite DEF IInv
      <4> QED
        BY <2>1, <4>1, FS_RemoveElement, FS_AddElement
    <3>2. old \subseteq rest
      <4>1. ~(x < h - Delay)
        BY <1>6, <2>3, Numbers
      <4> QED
        BY <4>1
    <3> HIDE DEF flying, old, rest
    <3>3. IsFiniteSet(old) /\ Cardinality(old) <= Cardinality(rest)
      BY <3>1, <3>2, FS_Subset
    <3>4. Cardinality(old) <= LeftBehind
      <4>1. Cardinality(old) \in Nat
        BY <3>3, FS_CardinalityType
      <4> QED
        BY <3>1, <3>3, <4>1, Numbers
    <3>5. /\ audio.completed \in Seq(Ids) /\ IsInjective(audio.completed)
          /\ Len(audio.completed) <= MaxCompleted
      BY <1>2 DEF AudioType
    <3>6. /\ Top \in Int /\ h \in flying /\ x \notin flying
          /\ ClosedWindow(flying, audio.completed, FinishedIds, Top)
      BY <1>6, <2>1 DEF flying, IInv
    <3>7. Cardinality({y \in (flying \cup {x}) \ {h} : y < h - Delay}) <= LeftBehind
      BY <3>4 DEF old
    <3>8. ClosedWindow((flying \cup {x}) \ {h}, RememberClosed(audio.completed, h),
                       FinishedIds \cup {h}, Top)
      BY <1>6, <2>3, <3>1, <3>5, <3>6, <3>7, ClosedEvicts
    <3> QED
      BY <1>3, <2>1, <2>7, <3>8 DEF flying
  <2>9. /\ InFlight(audio'.fec) \subseteq InFlight(d) \ {h}
        /\ audio'.fec.completed \subseteq d.completed \cup {h}
        /\ \A c \in InFlight(d) \ {h} : Retains(h, c) => c \in InFlight(audio'.fec)
        /\ \A c \in InFlight(audio'.fec) : audio'.fec.blocks[c] = d.blocks[c]
    BY <1>7, <2>1, <2>3, CloseType
  <2>10. OpenIsHeld'
    <3>1. IsHeld(n)'
      <4>1. Retains(h, x)
        BY <1>1, <2>3, RecentIsRetained DEF IInv
      <4>2. x \in InFlight(audio'.fec)
        BY <1>7, <2>1, <2>9, <4>1
      <4> QED
        BY <1>14, <2>9, <4>2
    <3> SUFFICES ASSUME NEW m \in Sent, m # n, m # e, ~Finished(m) PROVE IsHeld(m)'
      BY <1>3, <2>6, <3>1 DEF OpenIsHeld
    <3>2. IsHeld(m) /\ m \in Epochs /\ sent[m].id # x /\ sent[m].id # h
      BY <1>13, <2>3 DEF IInv, OpenIsHeld
    <3>3. ASSUME Deliverable(m)
          PROVE  /\ Held(audio'.fec, sent[m].id) = Held(audio.fec, sent[m].id)
                 /\ sent[m].id \in InFlight(audio'.fec) =>
                      /\ sent[m].id \in InFlight(audio.fec)
                      /\ audio'.fec.blocks[sent[m].id] = audio.fec.blocks[sent[m].id]
      <4>1. Retains(h, sent[m].id)
        BY <2>3, <3>3, RecentIsRetained DEF IInv
      <4> QED
        BY <1>7, <2>9, <3>2, <4>1 DEF Held
    <3> QED
      BY <1>3, <1>9, <2>1, <3>2, <3>3, HeldStays
  <2>11. FlyingIsSent'
    BY <1>1, <1>3, <1>9, <2>1 DEF IInv, FlyingIsSent
  <2>12. ReturnedOnce'
    <3>1. \A i \in ShardIndices : returned[e][i] <= 1
      BY <2>4 DEF IInv, OpenIsHeld, IsHeld
    <3> QED
      BY <1>3, <1>12, <1>13, <2>3, <2>6, <3>1 DEF IInv, ReturnedOnce
  <2>13. (audio.fec.completed \subseteq FinishedIds)'
    BY <1>7, <2>7, <2>9 DEF IInv
  <2> QED
    BY <1>16, <1>17, <2>8, <2>10, <2>11, <2>12, <2>13 DEF IInv
<1> QED
  BY <1>8, <1>18, <1>19

(* push_datagram.                                                           *)
LEMMA PushStep ==
  ASSUME Setting, IInv, TypeOK', NEW n \in Sent, NEW esi \in Nat, PushArrival(n, esi)
  PROVE  IInv' /\ (Finished(n) => returned' = returned)
<1>1. Deliverable(n)
  BY DEF PushArrival
<1>2. PICK o \in PushAudio(audio, Datagram(n, esi)) : Arrives(n, esi, o)
  BY DEF PushArrival, Datagram, Arrives
<1>3. CASE Finished(n)
  BY <1>1, <1>2, <1>3, LateStep
<1>4. CASE ~Finished(n)
  <2>1. AudioType(audio) /\ Datagram(n, esi) \in [id : Ids, k : Nat, esi : Nat]
    BY ArrivalType DEF IInv, TypeOK, Datagram
  <2>2. Decoded(audio, Datagram(n, esi), o) \/ \E d : TakenIn(audio, Datagram(n, esi), o, d)
    <3>1. ~Ignored(audio, Datagram(n, esi), o) /\ ~Refused(audio, Datagram(n, esi), o)
      <4>1. sent[n].id \notin Range(audio.completed) /\ SameGeometry(audio.fec, Datagram(n, esi))
        BY <1>1, <1>4, ArrivalFits
      <4> QED
        BY <4>1 DEF Ignored, Refused, Datagram
    <3> QED
      BY <2>1, <3>1, PushAudioCases
  <2>3. CASE Decoded(audio, Datagram(n, esi), o)
    BY <1>1, <1>2, <1>4, <2>3, DecodeStep
  <2>4. ASSUME NEW d, TakenIn(audio, Datagram(n, esi), o, d) PROVE IInv'
    BY <1>1, <1>2, <1>4, <2>4, TakeStep
  <2> QED
    BY <1>4, <2>2, <2>3, <2>4
<1> QED
  BY <1>3, <1>4

-----------------------------------------------------------------------------
(* What the contributor's listeners are promised.                           *)

(* Nothing is in flight, closed or returned at the start.                   *)
LEMMA InitInv == ASSUME Setting, Init PROVE IInv
<1>1. TypeOK
  BY InitType
<1>2. Sent = {} /\ Len(sent) = 0 /\ Top = -1 /\ FinishedIds = {}
  BY DEF Init, Sent, Top, FinishedIds
<1>3. IdsAreOrdinals
  <2>1. blockId \in FirstIds /\ blockId \in Nat /\ blockId < IdMod
    BY AudioAssumption, Numbers DEF Init, Ids
  <2>2. blockId = (blockId + 0) % IdMod
    BY <2>1, Numbers
  <2> QED
    BY <1>2, <2>1, <2>2 DEF IdsAreOrdinals
<1>4. /\ Range(audio.inFlight) = {} /\ Range(audio.completed) = {} /\ audio.fec.completed = {}
  BY DEF Init, NewAudioDecoder, NewDecoder, Range
<1>5. ClosedWindow(Range(audio.inFlight), audio.completed, FinishedIds, Top)
  BY <1>2, <1>4, ClosedAtFirst
<1>6. OpenIsHeld /\ ReturnedOnce /\ FlyingIsSent
  BY <1>2, <1>4 DEF OpenIsHeld, ReturnedOnce, FlyingIsSent
<1>7. UnsentIsUntouched
  BY DEF Init, UnsentIsUntouched
<1> QED
  BY <1>1, <1>2, <1>3, <1>4, <1>5, <1>6, <1>7 DEF IInv

(* Every step keeps the invariant.                                          *)
LEMMA NextInv == ASSUME Setting, IInv, [Next]_vars PROVE IInv'
<1>1. TypeOK'
  BY NextType DEF IInv
<1>2. ASSUME NEW k \in Shards, EncodeEpoch(k) PROVE IInv'
  BY <1>1, <1>2, EncodeStep
<1>3. ASSUME NEW n \in Sent, NEW esi \in 0..sent[n].k+RepairCount-1, PushArrival(n, esi) PROVE IInv'
  <2>1. esi \in Nat
    OBVIOUS
  <2> QED
    BY <1>1, <1>3, <2>1, PushStep
<1>4. ASSUME NEW n \in Sent, ExpireBlock(n) PROVE IInv'
  BY <1>1, <1>4, ExpireStep
<1>5. CASE UNCHANGED vars
  <2>1. UNCHANGED <<blockId, sent, audio, arrived, returned, givenUp>>
    BY <1>5 DEF vars
  <2>2. Sent' = Sent /\ Top' = Top /\ \A n \in Sent : Finished(n)' <=> Finished(n)
    BY <2>1 DEF Sent, Top, Finished, Whole
  <2>3. FinishedIds' = FinishedIds
    BY <2>1, <2>2 DEF FinishedIds
  <2>4. OpenIsHeld' /\ ReturnedOnce'
    BY <2>1, <2>2 DEF IInv, OpenIsHeld, IsHeld, Deliverable, ReturnedOnce, Sent
  <2>5. IdsAreOrdinals' /\ FlyingIsSent' /\ UnsentIsUntouched'
    BY <2>1, <2>2 DEF IInv, IdsAreOrdinals, FlyingIsSent, UnsentIsUntouched
  <2>6. ClosedWindow(Range(audio.inFlight), audio.completed, FinishedIds, Top)'
    BY <2>1, <2>2, <2>3 DEF IInv
  <2> QED
    BY <1>1, <2>1, <2>3, <2>4, <2>5, <2>6 DEF IInv
<1> QED
  BY <1>2, <1>3, <1>4, <1>5 DEF Next

(* The invariant.                                                           *)
THEOREM QueuesInvariant == Setting => (Spec => []IInv)
<1> SUFFICES ASSUME Setting PROVE Spec => []IInv
  OBVIOUS
<1>1. Init => IInv
  BY InitInv
<1>2. IInv /\ [Next]_vars => IInv'
  BY NextInv
<1> QED
  BY <1>1, <1>2, PTL DEF Spec

(* Within the setting, a shard is returned at most once: the queue of the   *)
(* closed epochs never forgets one whose datagrams can still come, whatever *)
(* closes, is evicted or expires meanwhile.                                 *)
THEOREM ShardsComeOnce == Setting => (Spec => []ShardsAtMostOnce)
<1> SUFFICES ASSUME Setting PROVE Spec => []ShardsAtMostOnce
  OBVIOUS
<1>1. IInv => ShardsAtMostOnce
  <2> SUFFICES ASSUME IInv, NEW n \in Epochs, NEW i \in ShardIndices PROVE returned[n][i] <= 1
    BY DEF ShardsAtMostOnce
  <2>1. CASE n \notin Sent
    BY <2>1 DEF IInv, UnsentIsUntouched
  <2>2. CASE n \in Sent /\ Finished(n)
    BY <2>2 DEF IInv, ReturnedOnce
  <2>3. CASE n \in Sent /\ ~Finished(n)
    BY <2>3 DEF IInv, OpenIsHeld, IsHeld
  <2> QED
    BY <2>1, <2>2, <2>3
<1> QED
  BY <1>1, QueuesInvariant, PTL

(* An epoch that is closed, or whose shards all came, was returned whole or *)
(* given up.                                                                *)
THEOREM ClosedEpochsAreWhole == Setting => (Spec => []EpochsAreWhole)
<1> SUFFICES ASSUME Setting PROVE Spec => []EpochsAreWhole
  OBVIOUS
<1>1. IInv => EpochsAreWhole
  <2> SUFFICES ASSUME IInv, NEW n \in Sent, IsClosed(n) \/ 0..sent[n].k-1 \subseteq arrived[n]
               PROVE  Finished(n)
    BY DEF EpochsAreWhole, Finished
  <2>1. CASE IsClosed(n)
    <3>1. sent[n].id \in FinishedIds
      BY <2>1, ClosedAre DEF IsClosed, IInv
    <3> QED
      BY <3>1, FinishedById DEF IInv
  <2>2. CASE 0..sent[n].k-1 \subseteq arrived[n]
    BY <2>2 DEF IInv, OpenIsHeld, IsHeld
  <2> QED
    BY <2>1, <2>2
<1> QED
  BY <1>1, QueuesInvariant, PTL

(* An epoch in the queue, which evicts the oldest, still needs its place.   *)
THEOREM QueuedEpochsAreOpen == Setting => (Spec => []InFlightIsOpen)
<1> SUFFICES ASSUME Setting PROVE Spec => []InFlightIsOpen
  OBVIOUS
<1>1. IInv => InFlightIsOpen
  <2> SUFFICES ASSUME IInv, NEW n \in Sent, sent[n].id \in Range(audio.inFlight)
               PROVE  ~IsClosed(n) /\ ~(0..sent[n].k-1 \subseteq arrived[n])
    BY DEF InFlightIsOpen
  <2>1. sent[n].id \notin FinishedIds /\ Range(audio.completed) \subseteq FinishedIds
    BY ClosedAre DEF IInv
  <2>2. ~Finished(n)
    BY <2>1, FinishedById DEF IInv
  <2> QED
    BY <2>1, <2>2 DEF IsClosed, IInv, OpenIsHeld, IsHeld
<1> QED
  BY <1>1, QueuesInvariant, PTL

(* An epoch that was given up returns nothing more.                         *)
THEOREM GivenUpStaysSilent == Setting => (Spec => GivenUpIsSilent)
<1> SUFFICES ASSUME Setting PROVE Spec => GivenUpIsSilent
  OBVIOUS
<1>1. IInv /\ [Next]_vars => [\A n \in givenUp : returned'[n] = returned[n]]_vars
  <2> SUFFICES ASSUME IInv, Next, NEW n \in givenUp PROVE returned'[n] = returned[n]
    OBVIOUS
  <2>1. n \in Sent /\ n \in Epochs /\ Finished(n) /\ TypeOK'
    <3>1. n \in Sent /\ TypeOK'
      BY NextType DEF IInv, TypeOK
    <3> QED
      BY <3>1, SentEpoch DEF IInv, Finished
  <2>2. ASSUME NEW m \in Sent, NEW esi \in 0..sent[m].k+RepairCount-1, PushArrival(m, esi)
        PROVE  returned'[n] = returned[n]
    <3>1. esi \in Nat
      OBVIOUS
    <3>2. CASE m = n
      BY <2>1, <2>2, <3>1, <3>2, PushStep
    <3>3. CASE m # n
      <4>1. PICK o \in PushAudio(audio, Datagram(m, esi)) : Arrives(m, esi, o)
        BY <2>2 DEF PushArrival, Datagram, Arrives
      <4> QED
        BY <2>1, <3>1, <3>3, <4>1, ArrivesElsewhere DEF IInv
    <3> QED
      BY <3>2, <3>3
  <2>3. ASSUME NEW k \in Shards, EncodeEpoch(k) PROVE returned'[n] = returned[n]
    BY <2>3 DEF EncodeEpoch
  <2>4. ASSUME NEW m \in Sent, ExpireBlock(m) PROVE returned'[n] = returned[n]
    BY <2>4 DEF ExpireBlock
  <2> QED
    BY <2>2, <2>3, <2>4 DEF Next
<1> QED
  BY <1>1, QueuesInvariant, PTL DEF Spec, GivenUpIsSilent

-----------------------------------------------------------------------------
(* The epochs of a flow over a transport.                                   *)

(* Only what send_epoch sent can arrive, and it is symbols of its epoch.    *)
WireOK == wire \in Seq(SUBSET Nat) /\ Len(wire) = Len(sent)

(* The symbols of the messages of an epoch are numbered from 0.             *)
LEMMA MessagesAreSymbols ==
  ASSUME NEW size, NEW k \in Nat, k = SourceCount(Epoch, size),
         NEW datagrams \in EncodedEpoch(Prepared, Epoch, size, Session),
         NEW messages \in WrapEpoch(Adapter, datagrams, k)
  PROVE  /\ Len(messages) = k + Config.repair
         /\ \A i \in 1..Len(messages) : messages[i].datagram.esi = i - 1
<1>1. Config.repair \in Nat /\ Prepared.repair = Config.repair
  <2>1. Config.repair \in Nat
    BY EpochAssumption
  <2>2. Prepared.repair = Config.repair
    BY DEF Prepared, PrepareFecConfig
  <2> QED
    BY <2>1, <2>2
<1> DEFINE n == k + Config.repair
           Datagrams == [i \in 1..n |->
                           IF i <= k THEN FecDatagram(i - 1, ShardHeader + size)
                           ELSE AttachSessionId(FecDatagram(i - 1, ShardHeader + size), Session)]
<1>2. n \in Nat
  BY <1>1
<1>3. datagrams = Datagrams
  BY <1>1 DEF EncodedEpoch
<1> HIDE DEF n
<1>4. \A i \in 1..n : Datagrams[i].esi = i - 1
  <2> TAKE i \in 1..n
  <2>1. FecDatagram(i - 1, ShardHeader + size).esi = i - 1
    BY DEF FecDatagram
  <2>2. AttachSessionId(FecDatagram(i - 1, ShardHeader + size), Session).esi = i - 1
    BY <2>1 DEF AttachSessionId, FecDatagram
  <2> QED
    BY <2>1, <2>2
<1>5. DOMAIN Datagrams = 1..n
  OBVIOUS
<1> HIDE DEF Datagrams
<1>6. messages = [i \in 1..n |-> Message(Adapter, Datagrams[i])]
  BY <1>3, <1>5 DEF WrapEpoch
<1>7. messages \in Seq({Message(Adapter, Datagrams[i]) : i \in 1..n}) /\ Len(messages) = n
  BY <1>2, <1>6
<1>8. \A i \in 1..n : messages[i].datagram.esi = i - 1
  BY <1>4, <1>6 DEF Message
<1> QED
  BY <1>7, <1>8 DEF n

(* A step of the flow is a step of MultichannelAudioFec.                    *)
LEMMA TransportStep ==
  ASSUME TypeOK, WireOK, [TransportNext]_transportVars
  PROVE  [Next]_vars /\ WireOK'
<1>1. ASSUME NEW count \in 0..Config.maxSource + Config.repair, SendEpoch(count)
      PROVE  [Next]_vars /\ WireOK'
  <2>1. PICK size \in GeometryForGroups(Prepared, Epoch) :
          /\ EncodeEpoch(SourceCount(Epoch, size))
          /\ \E datagrams \in EncodedEpoch(Prepared, Epoch, size, Session) :
               \E messages \in WrapEpoch(Adapter, datagrams, SourceCount(Epoch, size)) :
                 /\ count <= Len(messages)
                 /\ wire' = Append(wire, {messages[i].datagram.esi : i \in 1..count})
    BY <1>1 DEF SendEpoch
  <2>2. PICK k \in Shards : k = SourceCount(Epoch, size)
    BY <2>1, EpochAssumption
  <2>3. k \in Nat
    BY AudioAssumption
  <2>4. PICK datagrams \in EncodedEpoch(Prepared, Epoch, size, Session) :
          \E messages \in WrapEpoch(Adapter, datagrams, k) :
            /\ count <= Len(messages)
            /\ wire' = Append(wire, {messages[i].datagram.esi : i \in 1..count})
    BY <2>1, <2>2
  <2>5. PICK messages \in WrapEpoch(Adapter, datagrams, k) :
          /\ count <= Len(messages)
          /\ wire' = Append(wire, {messages[i].datagram.esi : i \in 1..count})
    BY <2>4
  <2>6. /\ Len(messages) = k + Config.repair
        /\ \A i \in 1..Len(messages) : messages[i].datagram.esi = i - 1
    BY <2>2, <2>3, MessagesAreSymbols
  <2>7. {messages[i].datagram.esi : i \in 1..count} \subseteq Nat
    <3>1. Len(messages) \in Nat /\ count \in Int
      BY <2>3, <2>6, EpochAssumption
    <3>2. \A i \in 1..count : i \in 1..Len(messages) /\ i - 1 \in Nat
      BY <2>5, <3>1
    <3> QED
      BY <2>6, <3>2
  <2>8. EncodeEpoch(k)
    BY <2>1, <2>2
  <2>9. Len(sent') = Len(sent) + 1
    <3>1. sent' = Append(sent, [id |-> blockId, k |-> k]) /\ sent \in Seq([id : Ids, k : Shards])
          /\ [id |-> blockId, k |-> k] \in [id : Ids, k : Shards]
      BY <2>8 DEF EncodeEpoch, TypeOK
    <3> DEFINE E == [id : Ids, k : Shards]
    <3> HIDE DEF E
    <3>2. sent \in Seq(E) /\ [id |-> blockId, k |-> k] \in E
      BY <3>1 DEF E
    <3> QED
      BY <3>1, <3>2
  <2>10. WireOK'
    BY <2>5, <2>7, <2>9 DEF WireOK
  <2> QED
    BY <2>2, <2>8, <2>10 DEF Next
<1>2. ASSUME NEW n \in Sent, NEW esi \in wire[n], ReceiveMessage(n, esi)
      PROVE  [Next]_vars /\ WireOK'
  <2>1. PushArrival(n, esi) /\ wire' = wire /\ sent' = sent
    BY <1>2 DEF ReceiveMessage, PushArrival
  <2>2. esi \in Nat
    BY DEF WireOK, Sent
  <2>3. sent[n].k \in Nat
    BY SentEpoch
  <2>4. esi \in 0..sent[n].k+RepairCount-1
    BY <2>1, <2>2, <2>3, Numbers DEF PushArrival
  <2> QED
    BY <2>1, <2>4 DEF Next, WireOK
<1>3. ASSUME NEW n \in Sent, Expire(n) PROVE [Next]_vars /\ WireOK'
  BY <1>3 DEF Expire, ExpireBlock, Next, WireOK
<1>4. CASE PacketizeEpoch \/ UNCHANGED transportVars
  BY <1>4 DEF PacketizeEpoch, transportVars, vars, WireOK
<1> QED
  BY <1>1, <1>2, <1>3, <1>4 DEF TransportNext

(* A flow over a transport is one of MultichannelAudioFec, in which a send  *)
(* that fails is a datagram that never comes.                               *)
THEOREM FlowImplementsFec == TransportSpec => Spec
<1>1. TransportInit => Init /\ TypeOK /\ WireOK
  BY InitType DEF TransportInit, Init, WireOK
<1>2. TypeOK /\ WireOK /\ [TransportNext]_transportVars => [Next]_vars /\ TypeOK' /\ WireOK'
  BY TransportStep, NextType
<1> QED
  BY <1>1, <1>2, PTL DEF TransportSpec, Spec

(* So what is proved of MultichannelAudioFec holds of the flow.             *)
THEOREM FlowKeepsItsPromises ==
  Setting => (TransportSpec =>
    /\ [](ShardsAtMostOnce /\ StateIsBounded /\ EpochsAreWhole /\ InFlightIsOpen)
    /\ GivenUpIsSilent)
<1> SUFFICES ASSUME Setting
             PROVE  TransportSpec =>
                      /\ [](ShardsAtMostOnce /\ StateIsBounded /\ EpochsAreWhole /\ InFlightIsOpen)
                      /\ GivenUpIsSilent
  OBVIOUS
<1>1. Spec => /\ []ShardsAtMostOnce /\ []StateIsBounded /\ []EpochsAreWhole /\ []InFlightIsOpen
              /\ GivenUpIsSilent
  BY ShardsComeOnce, DecoderIsBounded, ClosedEpochsAreWhole, QueuedEpochsAreOpen, GivenUpStaysSilent
<1> QED
  BY <1>1, FlowImplementsFec, PTL

-----------------------------------------------------------------------------
(* The geometry of an epoch.                                                *)

(* What a config that has a budget says.                                    *)
IsConfig(c) == c.maxSize \in Nat /\ c.overhead \in Nat /\ c.maxSource \in Nat /\ HasBudget(c)

(* The sizes are numbers.                                                   *)
LEMMA ConfigNumbers ==
  ASSUME NEW c, IsConfig(c)
  PROVE  /\ FramingSize(c) \in Nat /\ MaxFragmentPayload(c) \in Nat \ {0}
         /\ ShardHeader \in Nat /\ MaxSymbolSize \in Nat
BY PacketizerAssumption DEF IsConfig, HasBudget, FramingSize, MaxFragmentPayload

(* DivUp is a ceiling.                                                      *)
LEMMA DivUpIs ==
  ASSUME NEW a \in Nat, NEW b \in Nat \ {0}
  PROVE  /\ DivUp(a, b) \in Nat /\ a <= DivUp(a, b) * b
         /\ a > 0 => DivUp(a, b) > 0
         /\ \A q \in Nat : a <= q * b => DivUp(a, b) <= q
<1>1. /\ DivUp(a, b) \in Nat /\ a <= DivUp(a, b) * b
      /\ \A q \in Nat : a <= q * b => DivUp(a, b) <= q
  BY CeilingIs DEF DivUp
<1>2. ASSUME a > 0 PROVE DivUp(a, b) # 0
  BY <1>1, <1>2
<1> QED
  BY <1>1, <1>2

(* A group has a fragment.                                                  *)
LEMMA FragmentsOf ==
  ASSUME NEW group \in Nat, NEW size \in Nat \ {0}
  PROVE  /\ PayloadLen(group) \in Nat \ {0}
         /\ FragmentCount(group, size) \in Nat \ {0}
         /\ PayloadLen(group) <= FragmentCount(group, size) * size
         /\ \A q \in Nat : PayloadLen(group) <= q * size => FragmentCount(group, size) <= q
<1>1. PayloadLen(group) \in Nat \ {0}
  BY MaxOfTwo DEF PayloadLen
<1> QED
  BY <1>1, DivUpIs DEF FragmentCount

(* The shards of an epoch are no fewer than those of a group.               *)
LEMMA SourceCountIs ==
  ASSUME NEW groups \in Seq(Nat), NEW size \in Nat \ {0}
  PROVE  /\ SourceCount(groups, size) \in Nat
         /\ \A g \in DOMAIN groups : FragmentCount(groups[g], size) <= SourceCount(groups, size)
<1> DEFINE counts == [g \in DOMAIN groups |-> FragmentCount(groups[g], size)]
<1>1. Len(groups) \in Nat /\ DOMAIN groups = 1..Len(groups)
  OBVIOUS
<1>2. counts \in [1..Len(groups) -> Nat]
  <2>1. \A g \in DOMAIN groups : groups[g] \in Nat
    OBVIOUS
  <2>2. \A g \in DOMAIN groups : FragmentCount(groups[g], size) \in Nat
    BY <2>1, FragmentsOf
  <2> QED
    BY <1>1, <2>2
<1>3. SourceCount(groups, size) = SumOf(counts)
  BY DEF SourceCount, SumOf
<1>4. \A g \in DOMAIN groups : counts[g] = FragmentCount(groups[g], size)
  OBVIOUS
<1> HIDE DEF counts
<1>5. SumOf(counts) \in Nat /\ \A g \in 1..Len(groups) : counts[g] <= SumOf(counts)
  BY <1>1, <1>2, SumBounds
<1> QED
  BY <1>1, <1>3, <1>4, <1>5

(* The candidates are sizes of fragments.                                   *)
LEMMA CandidatesAreSizes ==
  ASSUME NEW c, IsConfig(c), NEW groups \in Seq(Nat)
  PROVE  Candidates(c, groups) \subseteq Nat \ {0}
<1>1. MaxFragmentPayload(c) \in Nat \ {0} /\ c.maxSource \in Nat
  BY ConfigNumbers DEF IsConfig
<1>2. ASSUME NEW g \in DOMAIN groups,
             NEW count \in FragmentCount(groups[g], MaxFragmentPayload(c))..c.maxSource
      PROVE  DivUp(PayloadLen(groups[g]), count) \in Nat \ {0}
  <2>0. groups[g] \in Nat
    OBVIOUS
  <2>1. PayloadLen(groups[g]) \in Nat \ {0} /\ FragmentCount(groups[g], MaxFragmentPayload(c)) \in Nat \ {0}
    BY <1>1, <2>0, FragmentsOf
  <2>2. count \in Nat \ {0}
    BY <1>1, <2>1
  <2> DEFINE length == PayloadLen(groups[g])
  <2>3. length \in Nat /\ length > 0
    BY <2>1
  <2> HIDE DEF length
  <2>4. DivUp(length, count) \in Nat /\ DivUp(length, count) > 0
    BY <2>2, <2>3, DivUpIs
  <2> QED
    BY <2>4 DEF length
<1> QED
  BY <1>1, <1>2 DEF Candidates

(* For every size there is a candidate that is no larger and cuts the epoch *)
(* into as many shards: the least size that cuts each group as it does.     *)
LEMMA CandidateIsAsGood ==
  ASSUME NEW c, IsConfig(c), NEW groups \in Seq(Nat), groups # <<>>,
         NEW size \in 1..MaxFragmentPayload(c), IsFeasible(c, groups, size)
  PROVE  \E even \in Candidates(c, groups) :
           even \in 1..size /\ SourceCount(groups, even) = SourceCount(groups, size)
<1> DEFINE most == MaxFragmentPayload(c)
           Length(g) == PayloadLen(groups[g])
           Count(g) == FragmentCount(groups[g], size)
           Least(g) == DivUp(Length(g), Count(g))
           sizes == {Least(g) : g \in DOMAIN groups}
<1>1. most \in Nat \ {0} /\ size \in Nat \ {0} /\ size <= most /\ c.maxSource \in Nat
  BY ConfigNumbers DEF IsConfig
<1>2. DOMAIN groups = 1..Len(groups) /\ Len(groups) \in Nat \ {0} /\ \A g \in DOMAIN groups : groups[g] \in Nat
  OBVIOUS
<1>3. ASSUME NEW g \in DOMAIN groups
      PROVE  /\ Length(g) \in Nat \ {0} /\ Count(g) \in Nat \ {0}
             /\ Length(g) <= Count(g) * size
             /\ Least(g) \in Nat \ {0} /\ Length(g) <= Least(g) * Count(g) /\ Least(g) <= size
  <2>1. groups[g] \in Nat
    BY <1>2
  <2>2. Length(g) \in Nat \ {0} /\ Count(g) \in Nat \ {0} /\ Length(g) <= Count(g) * size
    BY <1>1, <2>1, FragmentsOf
  <2> HIDE DEF Length, Count
  <2>3. Length(g) <= size * Count(g)
    BY <1>1, <2>2
  <2>4. /\ Least(g) \in Nat /\ Length(g) <= Least(g) * Count(g) /\ (Length(g) > 0 => Least(g) > 0)
        /\ \A q \in Nat : Length(g) <= q * Count(g) => Least(g) <= q
    BY <2>2, DivUpIs
  <2> HIDE DEF Least
  <2> QED
    BY <1>1, <2>2, <2>3, <2>4
<1>4. PICK best \in DOMAIN groups : \A g \in DOMAIN groups : Least(g) <= Least(best)
  <2>1. sizes \in SUBSET Int /\ sizes # {}
    <3> HIDE DEF Least
    <3>1. \A g \in DOMAIN groups : Least(g) \in Int
      BY <1>3
    <3> QED
      BY <1>2, <3>1
  <2>2. IsFiniteSet(sizes)
    <3> HIDE DEF Least
    <3> DEFINE list == [g \in 1..Len(groups) |-> Least(g)]
    <3>1. list \in Seq(Nat) /\ Len(list) = Len(groups)
      BY <1>2, <1>3
    <3>2. sizes = {list[g] : g \in 1..Len(list)}
      BY <1>2, <3>1
    <3> HIDE DEF list
    <3>3. Range(list) = {list[g] : g \in 1..Len(list)} /\ IsFiniteSet(Range(list))
      BY <3>1, RangeIs
    <3> HIDE DEF sizes
    <3> QED
      BY <3>2, <3>3
  <2> HIDE DEF Least
  <2>3. Max(sizes) \in sizes /\ \A y \in sizes : y <= Max(sizes)
    <3> HIDE DEF sizes
    <3> QED
      BY <2>1, <2>2, MaxOfFinite
  <2> QED
    BY <2>3
<1> DEFINE even == Least(best)
<1>5. even \in Nat \ {0} /\ even <= size
  BY <1>3
<1>6. even \in Candidates(c, groups)
  <2>1. IsFeasible(c, groups, size)
    OBVIOUS
  <2>2. Count(best) <= SourceCount(groups, size) /\ SourceCount(groups, size) \in Nat
    BY <1>1, SourceCountIs
  <2>3. SourceCount(groups, size) <= c.maxSource
    <3>1. Min({c.maxSource, MaxSymbolSize}) = IF c.maxSource <= MaxSymbolSize THEN c.maxSource ELSE MaxSymbolSize
      BY <1>1, ConfigNumbers, MinOfTwo
    <3> QED
      BY <1>1, <2>1, <3>1, ConfigNumbers DEF IsFeasible
  <2>4. FragmentCount(groups[best], most) <= Count(best) /\ FragmentCount(groups[best], most) \in Nat
    <3>1. Length(best) <= Count(best) * size /\ Count(best) \in Nat /\ groups[best] \in Nat
      BY <1>2, <1>3
    <3>2. \A q \in Nat : PayloadLen(groups[best]) <= q * most => FragmentCount(groups[best], most) <= q
      BY <1>1, <3>1, FragmentsOf
    <3> HIDE DEF most
    <3>3. PICK e \in Nat : most = size + e
      BY <1>1
    <3> DEFINE n == Count(best)
    <3>4. n \in Nat
      BY <3>1
    <3> HIDE DEF n
    <3>5. n * most = n * size + n * e /\ n * e \in Nat /\ n * size \in Nat
      BY <1>1, <3>3, <3>4
    <3>6. Length(best) \in Nat /\ Length(best) <= n * size
      BY <1>3, <3>1 DEF n
    <3>7. Length(best) <= n * most
      BY <3>5, <3>6
    <3>8. FragmentCount(groups[best], most) <= n
      BY <3>2, <3>4, <3>7
    <3>9. FragmentCount(groups[best], most) \in Nat
      BY <1>1, <3>1, FragmentsOf
    <3> QED
      BY <3>8, <3>9 DEF n
  <2>5. Count(best) \in FragmentCount(groups[best], most)..c.maxSource
    <3>1. Count(best) \in Nat
      BY <1>3
    <3> HIDE DEF Count, most
    <3> QED
      BY <1>1, <2>2, <2>3, <2>4, <3>1
  <2> QED
    BY <2>5 DEF Candidates
<1>7. ASSUME NEW g \in DOMAIN groups PROVE FragmentCount(groups[g], even) = Count(g)
  <2>1. groups[g] \in Nat
    BY <1>2
  <2>2. /\ FragmentCount(groups[g], even) \in Nat
        /\ Length(g) <= FragmentCount(groups[g], even) * even
        /\ \A q \in Nat : Length(g) <= q * even => FragmentCount(groups[g], even) <= q
    <3> HIDE DEF even
    <3> QED
      BY <1>5, <2>1, FragmentsOf
  <2>3. \A q \in Nat : Length(g) <= q * size => Count(g) <= q
    BY <1>1, <2>1, FragmentsOf
  <2> DEFINE n == Count(g)
             k == FragmentCount(groups[g], even)
             l == Length(g)
             least == Least(g)
  <2>4. /\ l \in Nat /\ n \in Nat /\ l <= least * n /\ least \in Nat /\ least <= even
    BY <1>3, <1>4
  <2>5. k \in Nat /\ l <= k * even /\ (\A q \in Nat : l <= q * even => k <= q)
        /\ (\A q \in Nat : l <= q * size => n <= q)
    BY <2>2, <2>3
  <2> HIDE DEF n, k, l, least, even
  <2>6. k <= n
    <3>1. PICK e \in Nat : even = least + e
      BY <1>5, <2>4
    <3>2. n * even = least * n + n * e /\ n * e \in Nat /\ least * n \in Nat
      BY <2>4, <3>1
    <3> DEFINE low == least * n
               rest == n * e
               whole == n * even
    <3>3. l \in Nat /\ l <= low /\ low \in Nat /\ rest \in Nat /\ whole = low + rest
      BY <2>4, <3>2
    <3> HIDE DEF low, rest, whole
    <3>4. l <= whole
      BY <3>3
    <3>5. l <= n * even
      BY <3>4 DEF whole
    <3> QED
      BY <2>4, <2>5, <3>5
  <2>7. n <= k
    <3>1. PICK e \in Nat : size = even + e
      BY <1>1, <1>5
    <3>2. k * size = k * even + k * e /\ k * e \in Nat /\ k * even \in Nat
      BY <1>5, <2>5, <3>1
    <3>3. l <= k * size
      BY <2>4, <2>5, <3>2
    <3> QED
      BY <2>5, <3>3
  <2>8. k = n
    BY <2>4, <2>5, <2>6, <2>7
  <2> QED
    BY <2>8 DEF k, n
<1>8. SourceCount(groups, even) = SourceCount(groups, size)
  <2> HIDE DEF even
  <2>1. [g \in DOMAIN groups |-> FragmentCount(groups[g], even)] = [g \in DOMAIN groups |-> FragmentCount(groups[g], size)]
    BY <1>7
  <2> QED
    BY <2>1 DEF SourceCount
<1>9. even \in 1..size
  <2> HIDE DEF even
  <2> QED
    BY <1>1, <1>5
<1> HIDE DEF even
<1> QED
  BY <1>6, <1>8, <1>9

(* The order of the scores.                                                 *)
LEMMA LessIs ==
  ASSUME NEW a1 \in Int, NEW a2 \in Int, NEW a3 \in Int, NEW b1 \in Int, NEW b2 \in Int, NEW b3 \in Int
  PROVE  Less(<<a1, a2, a3>>, <<b1, b2, b3>>)
           <=> a1 < b1 \/ (a1 = b1 /\ a2 < b2) \/ (a1 = b1 /\ a2 = b2 /\ a3 < b3)
<1> DEFINE s == <<a1, a2, a3>>
           t == <<b1, b2, b3>>
           At(i) == s[i] < t[i] /\ \A j \in 1..i-1 : s[j] = t[j]
<1>1. DOMAIN s = {1, 2, 3}
  OBVIOUS
<1>2. Less(s, t) <=> At(1) \/ At(2) \/ At(3)
  BY <1>1 DEF Less
<1>3. 1..1-1 = {} /\ 1..2-1 = {1} /\ 1..3-1 = {1, 2}
  OBVIOUS
<1>4. s[1] = a1 /\ s[2] = a2 /\ s[3] = a3 /\ t[1] = b1 /\ t[2] = b2 /\ t[3] = b3
  OBVIOUS
<1> HIDE DEF s, t
<1>5. /\ At(1) <=> a1 < b1
      /\ At(2) <=> a2 < b2 /\ a1 = b1
      /\ At(3) <=> a3 < b3 /\ a1 = b1 /\ a2 = b2
  BY <1>3, <1>4
<1>6. Less(s, t) <=> a1 < b1 \/ (a1 = b1 /\ a2 < b2) \/ (a1 = b1 /\ a2 = b2 /\ a3 < b3)
  BY <1>2, <1>5
<1> QED
  BY <1>6 DEF s, t

(* The bytes that an epoch needs on the wire.                               *)
Bytes(c, groups, size) == SourceCount(groups, size) * (FramingSize(c) + ShardHeader + size)

(* The score of a size is of numbers.                                       *)
LEMMA ScoreIs ==
  ASSUME NEW c, IsConfig(c), NEW groups \in Seq(Nat), NEW size \in Nat \ {0}
  PROVE  /\ Score(c, groups, size) = <<Bytes(c, groups, size), SourceCount(groups, size), size>>
         /\ Bytes(c, groups, size) \in Nat /\ SourceCount(groups, size) \in Nat
<1>1. SourceCount(groups, size) \in Nat /\ FramingSize(c) + ShardHeader + size \in Nat
  BY SourceCountIs, ConfigNumbers
<1>2. Bytes(c, groups, size) \in Nat
  BY <1>1 DEF Bytes
<1> QED
  BY <1>1, <1>2 DEF Score, Bytes

(* How two sizes compare.                                                   *)
LEMMA ScoreLess ==
  ASSUME NEW c, IsConfig(c), NEW groups \in Seq(Nat), NEW a \in Nat \ {0}, NEW b \in Nat \ {0}
  PROVE  Less(Score(c, groups, a), Score(c, groups, b))
           <=> \/ Bytes(c, groups, a) < Bytes(c, groups, b)
               \/ /\ Bytes(c, groups, a) = Bytes(c, groups, b)
                  /\ SourceCount(groups, a) < SourceCount(groups, b)
               \/ /\ Bytes(c, groups, a) = Bytes(c, groups, b)
                  /\ SourceCount(groups, a) = SourceCount(groups, b)
                  /\ a < b
<1>1. /\ Score(c, groups, a) = <<Bytes(c, groups, a), SourceCount(groups, a), a>>
      /\ Score(c, groups, b) = <<Bytes(c, groups, b), SourceCount(groups, b), b>>
      /\ Bytes(c, groups, a) \in Int /\ SourceCount(groups, a) \in Int
      /\ Bytes(c, groups, b) \in Int /\ SourceCount(groups, b) \in Int
  BY ScoreIs
<1>2. a \in Int /\ b \in Int
  OBVIOUS
<1> DEFINE a1 == Bytes(c, groups, a)
           a2 == SourceCount(groups, a)
           b1 == Bytes(c, groups, b)
           b2 == SourceCount(groups, b)
<1>3. /\ Score(c, groups, a) = <<a1, a2, a>> /\ Score(c, groups, b) = <<b1, b2, b>>
      /\ a1 \in Int /\ a2 \in Int /\ b1 \in Int /\ b2 \in Int
  BY <1>1
<1> HIDE DEF a1, a2, b1, b2
<1>4. Less(<<a1, a2, a>>, <<b1, b2, b>>)
        <=> a1 < b1 \/ (a1 = b1 /\ a2 < b2) \/ (a1 = b1 /\ a2 = b2 /\ a < b)
  BY <1>2, <1>3, LessIs
<1> QED
  BY <1>3, <1>4 DEF a1, a2, b1, b2

(* Of some sizes there is one with the least score.                         *)
LEMMA BestExists ==
  ASSUME NEW c, IsConfig(c), NEW groups \in Seq(Nat), NEW sizes \in SUBSET (Nat \ {0}), sizes # {}
  PROVE  \E best \in sizes : \A other \in sizes : ~Less(Score(c, groups, other), Score(c, groups, best))
<1> DEFINE B(size) == Bytes(c, groups, size)
           N(size) == SourceCount(groups, size)
<1>1. \A size \in sizes : B(size) \in Nat /\ N(size) \in Nat /\ size \in Nat
  BY ScoreIs
<1> HIDE DEF B, N
<1>2. PICK x \in sizes : \A y \in sizes : B(x) <= B(y)
  <2>1. {B(size) : size \in sizes} \in SUBSET Nat /\ {B(size) : size \in sizes} # {}
    BY <1>1
  <2>2. \E b \in {B(size) : size \in sizes} : \A d \in {B(size) : size \in sizes} : b <= d
    BY <2>1, LeastExists
  <2> QED
    BY <2>2
<1> DEFINE first == {size \in sizes : B(size) = B(x)}
<1>3. PICK y \in first : \A z \in first : N(y) <= N(z)
  <2>1. {N(size) : size \in first} \in SUBSET Nat /\ {N(size) : size \in first} # {}
    BY <1>1
  <2>2. \E b \in {N(size) : size \in first} : \A d \in {N(size) : size \in first} : b <= d
    BY <2>1, LeastExists
  <2> QED
    BY <2>2
<1> DEFINE second == {size \in first : N(size) = N(y)}
<1>4. PICK z \in second : \A w \in second : z <= w
  <2>1. second \in SUBSET Nat /\ second # {}
    BY <1>1
  <2> HIDE DEF second
  <2> QED
    BY <2>1, LeastExists
<1>5. ASSUME NEW other \in sizes PROVE ~Less(Score(c, groups, other), Score(c, groups, z))
  <2>1. /\ z \in sizes /\ B(z) = B(x) /\ N(z) = N(y) /\ z \in Nat \ {0} /\ other \in Nat \ {0}
        /\ B(other) >= B(x)
    BY <1>1, <1>2
  <2>2. B(other) = B(x) => N(other) >= N(y)
    BY <1>1, <1>3
  <2>3. B(other) = B(x) /\ N(other) = N(y) => other >= z
    BY <1>1, <1>4
  <2>4. /\ B(other) \in Nat /\ N(other) \in Nat /\ B(z) \in Nat /\ N(z) \in Nat
    BY <1>1, <2>1
  <2>5. Less(Score(c, groups, other), Score(c, groups, z))
          <=> \/ B(other) < B(z)
              \/ B(other) = B(z) /\ N(other) < N(z)
              \/ B(other) = B(z) /\ N(other) = N(z) /\ other < z
    BY <2>1, ScoreLess DEF B, N
  <2> QED
    BY <2>1, <2>2, <2>3, <2>4, <2>5
<1> QED
  BY <1>4, <1>5

(* What geometry_for_groups returns: one size, as good as any, or none and  *)
(* then there is none.                                                      *)
LEMMA GeometryIs ==
  ASSUME NEW c, IsConfig(c), NEW groups \in Seq(Nat), groups # <<>>
  PROVE  LET best == GeometryForGroups(c, groups)
             sizes == {size \in 1..MaxFragmentPayload(c) : IsFeasible(c, groups, size)}
         IN /\ Cardinality(best) <= 1
            /\ best = {} => sizes = {}
            /\ \A b \in best, size \in sizes : ~Less(Score(c, groups, size), Score(c, groups, b))
<1> DEFINE best == GeometryForGroups(c, groups)
           sizes == {size \in 1..MaxFragmentPayload(c) : IsFeasible(c, groups, size)}
           feasible == {size \in Candidates(c, groups) : IsFeasible(c, groups, size)}
<1>1. best = {size \in feasible :
                \A other \in feasible : ~Less(Score(c, groups, other), Score(c, groups, size))}
  BY DEF GeometryForGroups, IsConfig
<1>2. feasible \subseteq Nat \ {0} /\ sizes \subseteq Nat \ {0}
  BY CandidatesAreSizes, ConfigNumbers
<1>3. ASSUME NEW size \in sizes
      PROVE  \E even \in feasible : even <= size /\ SourceCount(groups, even) = SourceCount(groups, size)
  <2>1. PICK even \in Candidates(c, groups) :
          even \in 1..size /\ SourceCount(groups, even) = SourceCount(groups, size)
    BY CandidateIsAsGood
  <2>2. IsFeasible(c, groups, even)
    BY <2>1 DEF IsFeasible
  <2> QED
    BY <1>2, <2>1, <2>2
<1> HIDE DEF best, sizes, feasible
<1>4. Cardinality(best) <= 1
  <2>1. ASSUME NEW a \in best, NEW b \in best PROVE a = b
    <3>1. a \in Nat \ {0} /\ b \in Nat \ {0}
      BY <1>1, <1>2
    <3>2. ~Less(Score(c, groups, a), Score(c, groups, b)) /\ ~Less(Score(c, groups, b), Score(c, groups, a))
      BY <1>1
    <3>3. /\ Bytes(c, groups, a) \in Nat /\ SourceCount(groups, a) \in Nat
          /\ Bytes(c, groups, b) \in Nat /\ SourceCount(groups, b) \in Nat
      BY <3>1, ScoreIs
    <3> QED
      BY <3>1, <3>2, <3>3, ScoreLess
  <2>2. CASE best = {}
    BY <2>2, FS_EmptySet
  <2>3. CASE best # {}
    <3>1. PICK a \in best : best = {a}
      BY <2>1, <2>3
    <3>2. Cardinality({a}) = 1
      BY FS_Singleton
    <3> QED
      BY <3>1, <3>2
  <2> QED
    BY <2>2, <2>3
<1>5. ASSUME best = {} PROVE sizes = {}
  <2>1. feasible = {}
    <3> SUFFICES ASSUME feasible # {} PROVE FALSE
      OBVIOUS
    <3>1. feasible \in SUBSET (Nat \ {0})
      BY <1>2
    <3>2. \E a \in feasible : \A other \in feasible : ~Less(Score(c, groups, other), Score(c, groups, a))
      BY <3>1, BestExists
    <3> QED
      BY <1>1, <1>5, <3>2
  <2> QED
    BY <1>3, <2>1
<1>6. ASSUME NEW b \in best, NEW size \in sizes PROVE ~Less(Score(c, groups, size), Score(c, groups, b))
  <2>1. PICK even \in feasible : even <= size /\ SourceCount(groups, even) = SourceCount(groups, size)
    BY <1>3
  <2>2. b \in Nat \ {0} /\ even \in Nat \ {0} /\ size \in Nat \ {0}
    BY <1>1, <1>2
  <2>3. ~Less(Score(c, groups, even), Score(c, groups, b))
    BY <1>1, <2>1
  <2>4. /\ Bytes(c, groups, b) \in Nat /\ SourceCount(groups, b) \in Nat
        /\ Bytes(c, groups, even) \in Nat /\ SourceCount(groups, even) \in Nat
        /\ Bytes(c, groups, size) \in Nat
    BY <2>2, ScoreIs
  <2>5. Bytes(c, groups, even) <= Bytes(c, groups, size)
    <3> DEFINE n == SourceCount(groups, even)
               x == FramingSize(c) + ShardHeader + even
    <3>1. PICK e \in Nat : size = even + e
      BY <2>1, <2>2
    <3>2. n \in Nat /\ x \in Nat
      BY <2>2, <2>4, ConfigNumbers
    <3>3. Bytes(c, groups, even) = n * x /\ Bytes(c, groups, size) = n * (x + e)
      <4>1. FramingSize(c) + ShardHeader + size = x + e
        BY <2>2, <3>1, ConfigNumbers
      <4> QED
        BY <2>1, <4>1 DEF Bytes
    <3> HIDE DEF n, x
    <3>4. n * (x + e) = n * x + n * e /\ n * e \in Nat /\ n * x \in Nat
      BY <3>1, <3>2
    <3> QED
      BY <3>3, <3>4
  <2> QED
    BY <2>1, <2>2, <2>3, <2>4, <2>5, ScoreLess
<1> QED
  BY <1>4, <1>5, <1>6 DEF best, sizes

(* What the packetizer was given, prepared for its adapter.                 *)
PacketizeInv ==
  \A p \in packetized : \E adapter \in Adapters, config \in Configs :
    /\ p.adapter = adapter /\ p.config = PrepareFecConfig(adapter, config)
    /\ HasBudget(p.config)
    /\ p.groups \in Groupings \ {<<>>} /\ p.sizes = GeometryForGroups(p.config, p.groups)

(* Only PacketizeEpoch changes what it was given.                           *)
LEMMA PacketizeStep ==
  ASSUME PacketizeInv, [TransportNext]_transportVars
  PROVE  PacketizeInv'
<1>1. CASE PacketizeEpoch
  <2>1. PICK adapter \in Adapters, config \in Configs, groups \in Groupings :
          LET c == PrepareFecConfig(adapter, config)
          IN /\ HasBudget(c) /\ groups # <<>>
             /\ packetized' = {[adapter |-> adapter, config |-> c, groups |-> groups,
                                sizes |-> GeometryForGroups(c, groups)]}
    BY <1>1 DEF PacketizeEpoch
  <2> DEFINE c == PrepareFecConfig(adapter, config)
             sizes == GeometryForGroups(c, groups)
  <2>2. /\ HasBudget(c) /\ groups # <<>>
        /\ packetized' = {[adapter |-> adapter, config |-> c, groups |-> groups, sizes |-> sizes]}
    BY <2>1
  <2>3. c = PrepareFecConfig(adapter, config) /\ sizes = GeometryForGroups(c, groups)
    OBVIOUS
  <2> HIDE DEF c, sizes
  <2>4. ASSUME NEW p \in packetized'
        PROVE  /\ p.adapter = adapter /\ p.config = c /\ p.groups = groups /\ p.sizes = sizes
    BY <2>2, <2>4
  <2> QED
    BY <2>2, <2>3, <2>4 DEF PacketizeInv
<1>2. ASSUME packetized' = packetized PROVE PacketizeInv'
  BY <1>2 DEF PacketizeInv
<1>3. CASE UNCHANGED transportVars
  BY <1>2, <1>3 DEF transportVars
<1>4. ASSUME NEW count \in 0..Config.maxSource + Config.repair, SendEpoch(count) PROVE PacketizeInv'
  BY <1>2, <1>4 DEF SendEpoch
<1>5. ASSUME NEW n \in Sent, NEW esi \in wire[n], ReceiveMessage(n, esi) PROVE PacketizeInv'
  BY <1>2, <1>5 DEF ReceiveMessage
<1>6. ASSUME NEW n \in Sent, Expire(n) PROVE PacketizeInv'
  BY <1>2, <1>6 DEF Expire
<1> QED
  BY <1>1, <1>3, <1>4, <1>5, <1>6 DEF TransportNext

(* A prepared config is one.                                                *)
LEMMA PreparedIsConfig ==
  ASSUME PacketizeInv, NEW p \in packetized
  PROVE  /\ IsConfig(p.config) /\ p.groups \in Seq(Nat) /\ p.groups # <<>>
         /\ p.sizes = GeometryForGroups(p.config, p.groups)
         /\ p.adapter \in Adapters /\ p.config.maxSize = p.adapter.maxSize
         /\ p.config.overhead = TransportOverhead(p.adapter) /\ p.config.repair \in Nat
<1>1. PICK adapter \in Adapters, config \in Configs :
        /\ p.adapter = adapter /\ p.config = PrepareFecConfig(adapter, config)
        /\ HasBudget(p.config)
        /\ p.groups \in Groupings \ {<<>>} /\ p.sizes = GeometryForGroups(p.config, p.groups)
  BY DEF PacketizeInv
<1>2. config \in [maxSize : Nat, overhead : Nat, repair : Nat, maxSource : Nat] /\ adapter.maxSize \in Nat
      /\ p.groups \in Seq(Nat)
  BY <1>1, EpochAssumption
<1>3. TransportOverhead(adapter) \in Nat
  BY PacketizerAssumption DEF TransportOverhead
<1>4. /\ p.config.maxSize = adapter.maxSize /\ p.config.overhead = TransportOverhead(adapter)
      /\ p.config.maxSource = config.maxSource /\ p.config.repair = config.repair
      /\ config.maxSource \in Nat /\ config.repair \in Nat
  BY <1>1, <1>2 DEF PrepareFecConfig
<1> QED
  BY <1>1, <1>2, <1>3, <1>4 DEF IsConfig

(* No fragment size would need fewer bytes on the wire than the one that    *)
(* geometry_for_groups finds among the even ones, and there is none where   *)
(* it finds none.                                                           *)
THEOREM GeometryIsBest == TransportSpec => []GeometryIsOptimal
<1>1. TransportInit => PacketizeInv
  BY DEF TransportInit, PacketizeInv
<1>2. PacketizeInv /\ [TransportNext]_transportVars => PacketizeInv'
  BY PacketizeStep
<1>3. PacketizeInv => GeometryIsOptimal
  <2> SUFFICES ASSUME PacketizeInv, NEW p \in packetized
               PROVE  LET sizes == {size \in 1..MaxFragmentPayload(p.config) :
                                      IsFeasible(p.config, p.groups, size)}
                      IN /\ Cardinality(p.sizes) <= 1
                         /\ p.sizes = {} => sizes = {}
                         /\ \A best \in p.sizes, size \in sizes :
                              ~Less(Score(p.config, p.groups, size), Score(p.config, p.groups, best))
    BY DEF GeometryIsOptimal
  <2>1. /\ IsConfig(p.config) /\ p.groups \in Seq(Nat) /\ p.groups # <<>>
        /\ p.sizes = GeometryForGroups(p.config, p.groups)
    BY PreparedIsConfig
  <2> QED
    BY <2>1, GeometryIs
<1> QED
  BY <1>1, <1>2, <1>3, PTL DEF TransportSpec

-----------------------------------------------------------------------------
(* The shards of an epoch.                                                  *)

(* An empty group takes a byte.                                             *)
LEMMA PayloadLenIs ==
  ASSUME NEW l \in Nat
  PROVE  PayloadLen(l) = IF l >= 1 THEN l ELSE 1
<1>1. l \in Int /\ 1 \in Int
  OBVIOUS
<1>2. Max({l, 1}) = IF l >= 1 THEN l ELSE 1
  BY <1>1, MaxOfTwo
<1> QED
  BY <1>2 DEF PayloadLen

(* The bytes of one fragment.                                               *)
HoldsFragment(shard, groups, size, g, i) ==
  /\ shard.group = g /\ shard.index = i - 1 /\ shard.total = groups[g]
  /\ shard.count = FragmentCount(groups[g], size)
  /\ shard.offset \in Nat /\ shard.len \in 0..size
  /\ shard.offset + shard.len <= groups[g]
  /\ \A byte \in 0..groups[g]-1 :
       shard.offset <= byte /\ byte < shard.offset + shard.len
         <=> (i - 1) * size <= byte /\ byte < i * size

(* Fragment makes such a shard, whatever the group and the size.            *)
LEMMA FragmentIs ==
  ASSUME NEW groups \in Seq(Nat), NEW size \in Nat \ {0}, NEW g \in DOMAIN groups,
         NEW i \in 1..FragmentCount(groups[g], size)
  PROVE  HoldsFragment(Fragment(groups, g, size, i), groups, size, g, i)
<1> DEFINE l == groups[g]
           n == FragmentCount(l, size)
           a == (i - 1) * size
           len == Max({Min({i * size, l}) - a, 0})
<1>1. l \in Nat
  OBVIOUS
<1>2. /\ PayloadLen(l) = IF l >= 1 THEN l ELSE 1
      /\ n \in Nat \ {0} /\ \A q \in Nat : PayloadLen(l) <= q * size => n <= q
  BY <1>1, FragmentsOf, PayloadLenIs
<1> HIDE DEF l, n
<1>3. i \in Nat \ {0} /\ i <= n
  BY <1>2 DEF l, n
<1>4. a \in Nat /\ i * size = a + size
  <2>1. PICK j \in Nat : i = j + 1
    BY <1>3
  <2>2. i - 1 = j /\ i * size = j * size + size /\ j * size \in Nat
    BY <2>1
  <2> QED
    BY <2>2
<1>5. a <= l
  <2>1. ~(PayloadLen(l) <= a)
    <3>1. i - 1 \in Nat /\ ~(n <= i - 1)
      BY <1>2, <1>3
    <3>2. ~(PayloadLen(l) <= (i - 1) * size)
      BY <1>2, <3>1
    <3> QED
      BY <3>2 DEF a
  <2> QED
    BY <1>1, <1>2, <1>4, <2>1
<1>6. len = IF a + size <= l THEN size ELSE l - a
  <2> HIDE DEF a
  <2>1. Min({i * size, l}) = IF a + size <= l THEN a + size ELSE l
    BY <1>1, <1>4, MinOfTwo
  <2>2. Min({i * size, l}) - a \in Nat
    BY <1>1, <1>4, <1>5, <2>1
  <2> DEFINE m == Min({i * size, l}) - a
  <2> HIDE DEF m
  <2>3. Max({m, 0}) = IF m >= 0 THEN m ELSE 0
    <3>1. m \in Int /\ 0 \in Int
      BY <2>2 DEF m
    <3> QED
      BY <3>1, MaxOfTwo
  <2> QED
    BY <1>1, <1>4, <2>1, <2>2, <2>3 DEF m
<1>7. Fragment(groups, g, size, i) =
        [group |-> g, index |-> i - 1, count |-> n, offset |-> a, len |-> len, total |-> l]
  BY DEF Fragment, l, n
<1> HIDE DEF a, len
<1> DEFINE shard == Fragment(groups, g, size, i)
<1>8. /\ shard.group = g /\ shard.index = i - 1 /\ shard.count = n /\ shard.offset = a
      /\ shard.len = len /\ shard.total = l
  BY <1>7
<1> HIDE DEF shard
<1>9. len \in 0..size /\ a + len <= l
  BY <1>1, <1>4, <1>5, <1>6
<1>10. \A byte \in 0..l-1 : a <= byte /\ byte < a + len <=> a <= byte /\ byte < i * size
  BY <1>1, <1>4, <1>5, <1>6
<1> QED
  <2>1. /\ shard.group = g /\ shard.index = i - 1 /\ shard.total = l /\ shard.count = n
        /\ shard.offset \in Nat /\ shard.len \in 0..size /\ shard.offset + shard.len <= l
    BY <1>4, <1>8, <1>9
  <2>2. \A byte \in 0..l-1 :
          shard.offset <= byte /\ byte < shard.offset + shard.len
            <=> (i - 1) * size <= byte /\ byte < i * size
    BY <1>8, <1>10 DEF a
  <2>3. HoldsFragment(shard, groups, size, g, i)
    BY <2>1, <2>2 DEF l, n, HoldsFragment
  <2> QED
    BY <2>3 DEF shard

(* A byte is in one of the fragments, and in no two.                        *)
LEMMA ByteHasFragment ==
  ASSUME NEW l \in Nat, NEW size \in Nat \ {0}, NEW byte \in 0..l-1
  PROVE  \E i \in 1..FragmentCount(l, size) :
           /\ (i - 1) * size <= byte /\ byte < i * size
           /\ \A j \in 1..FragmentCount(l, size) :
                (j - 1) * size <= byte /\ byte < j * size => j = i
<1> DEFINE n == FragmentCount(l, size)
           q == byte \div size
           r == byte % size
<1>1. q \in Nat /\ r \in 0..size-1 /\ byte = size * q + r
  OBVIOUS
<1>2. n \in Nat /\ l <= n * size
  <2>1. n \in Nat /\ PayloadLen(l) <= n * size /\ n * size \in Nat
    BY FragmentsOf
  <2>2. l <= PayloadLen(l) /\ PayloadLen(l) \in Nat
    BY PayloadLenIs
  <2> HIDE DEF n
  <2> QED
    BY <2>1, <2>2
<1> HIDE DEF n, q, r
<1>3. q * size = size * q /\ size * q \in Nat /\ (q + 1) * size = size * q + size
  BY <1>1
<1>4. q + 1 \in 1..n
  <2> SUFFICES ASSUME n <= q PROVE FALSE
    BY <1>1, <1>2
  <2>1. PICK e \in Nat : q = n + e
    BY <1>1, <1>2
  <2>2. q * size = n * size + e * size /\ e * size \in Nat /\ n * size \in Nat
    BY <1>2, <2>1
  <2> QED
    BY <1>1, <1>2, <1>3, <2>2
<1>5. ((q + 1) - 1) * size <= byte /\ byte < (q + 1) * size
  BY <1>1, <1>3
<1>6. ASSUME NEW j \in 1..n, (j - 1) * size <= byte, byte < j * size PROVE j = q + 1
  <2>1. PICK p \in Nat : j = p + 1
    BY <1>2
  <2>2. p * size <= byte /\ byte < (p + 1) * size
    BY <1>6, <2>1
  <2>3. ~(p < q)
    <3> SUFFICES ASSUME p < q PROVE FALSE
      OBVIOUS
    <3>1. PICK e \in Nat : q = p + 1 + e
      BY <1>1
    <3>2. q * size = (p + 1) * size + e * size /\ e * size \in Nat /\ (p + 1) * size \in Nat
      BY <3>1
    <3> QED
      BY <1>1, <1>3, <2>2, <3>2
  <2>4. ~(q < p)
    <3> SUFFICES ASSUME q < p PROVE FALSE
      OBVIOUS
    <3>1. PICK e \in Nat : p = q + 1 + e
      BY <1>1
    <3>2. p * size = (q + 1) * size + e * size /\ e * size \in Nat
      BY <1>1, <3>1
    <3> QED
      BY <1>1, <1>3, <2>2, <3>2
  <2> QED
    BY <1>1, <2>1, <2>3, <2>4
<1> QED
  BY <1>4, <1>5, <1>6 DEF n

(* Which fragment each shard is: row[k] and col[k] number the group and its *)
(* fragment.                                                                *)
ShardPlaces(groups, size, row, col) ==
  LET shards == ShardsOf(groups, size)
  IN /\ \A k \in 1..Len(shards) :
          /\ row[k] \in DOMAIN groups /\ col[k] \in 1..FragmentCount(groups[row[k]], size)
          /\ shards[k] = Fragment(groups, row[k], size, col[k])
     /\ \A k, l \in 1..Len(shards) : k < l => row[k] < row[l] \/ (row[k] = row[l] /\ col[k] < col[l])
     /\ \A g \in DOMAIN groups : \A i \in 1..FragmentCount(groups[g], size) :
          \E k \in 1..Len(shards) : row[k] = g /\ col[k] = i

(* The shards are the fragments of the groups, in their order.              *)
LEMMA ShardsAreFragments ==
  ASSUME NEW groups \in Seq(Nat), NEW size \in Nat \ {0}
  PROVE  LET shards == ShardsOf(groups, size)
         IN /\ Len(shards) = SourceCount(groups, size) /\ Len(shards) \in Nat
            /\ DOMAIN shards = 1..Len(shards)
            /\ \E row, col : ShardPlaces(groups, size, row, col)
<1> DEFINE n == Len(groups)
           A == {Fragment(groups, g, size, i) : g \in 1..n, i \in Nat}
           Of(g) == [i \in 1..FragmentCount(groups[g], size) |-> Fragment(groups, g, size, i)]
           ss == [g \in DOMAIN groups |-> Of(g)]
           shards == ShardsOf(groups, size)
<1>1. n \in Nat /\ DOMAIN groups = 1..n /\ \A g \in 1..n : groups[g] \in Nat
  OBVIOUS
<1>2. \A g \in 1..n : FragmentCount(groups[g], size) \in Nat
  BY <1>1, FragmentsOf
<1> HIDE DEF n
<1>3. ASSUME NEW g \in 1..n
      PROVE  /\ Of(g) \in Seq(A) /\ Len(Of(g)) = FragmentCount(groups[g], size)
             /\ \A i \in 1..FragmentCount(groups[g], size) : Of(g)[i] = Fragment(groups, g, size, i)
  <2> DEFINE count == FragmentCount(groups[g], size)
  <2>1. count \in Nat
    BY <1>2
  <2>2. \A i \in 1..count : Fragment(groups, g, size, i) \in A /\ i \in Nat
    <3> HIDE DEF count
    <3>1. \A i \in 1..count : i \in Nat
      BY <2>1
    <3> QED
      BY <3>1
  <2> HIDE DEF count, A
  <2>3. [i \in 1..count |-> Fragment(groups, g, size, i)] \in Seq(A)
    BY <2>1, <2>2
  <2> QED
    BY <2>1, <2>3 DEF count
<1> HIDE DEF A, Of
<1>4. ss \in Seq(Seq(A)) /\ Len(ss) = n /\ \A g \in 1..n : ss[g] = Of(g)
  BY <1>1, <1>3
<1>5. shards = FlattenSeq(ss)
  BY DEF ShardsOf, Of
<1> HIDE DEF ss, shards
<1>6. shards \in Seq(A) /\ \E row, col : Places(ss, n, shards, row, col)
  BY <1>4, <1>5, FlattenPlaces
<1>7. Len(shards) = SourceCount(groups, size)
  <2>1. Len(shards) = SumOf([g \in 1..Len(ss) |-> Len(ss[g])])
    BY <1>4, <1>5, FlattenLength
  <2>2. [g \in 1..Len(ss) |-> Len(ss[g])] = [g \in DOMAIN groups |-> FragmentCount(groups[g], size)]
    BY <1>1, <1>3, <1>4
  <2> QED
    BY <2>1, <2>2 DEF SourceCount, SumOf
<1>8. PICK row, col : Places(ss, n, shards, row, col)
  BY <1>6
<1>9. /\ \A k \in 1..Len(shards) :
           /\ row[k] \in 1..n /\ col[k] \in 1..Len(ss[row[k]])
           /\ shards[k] = ss[row[k]][col[k]]
      /\ \A k, l \in 1..Len(shards) : k < l => row[k] < row[l] \/ (row[k] = row[l] /\ col[k] < col[l])
      /\ \A i \in 1..n : \A j \in 1..Len(ss[i]) : \E k \in 1..Len(shards) : row[k] = i /\ col[k] = j
  BY <1>8 DEF Places
<1>10. \A g \in 1..n : /\ Len(ss[g]) = FragmentCount(groups[g], size)
                       /\ \A i \in 1..FragmentCount(groups[g], size) : ss[g][i] = Fragment(groups, g, size, i)
  BY <1>3, <1>4
<1>11. \A k \in 1..Len(shards) :
         /\ row[k] \in 1..n /\ col[k] \in 1..FragmentCount(groups[row[k]], size)
         /\ shards[k] = Fragment(groups, row[k], size, col[k])
  <2> TAKE k \in 1..Len(shards)
  <2>1. row[k] \in 1..n /\ col[k] \in 1..Len(ss[row[k]]) /\ shards[k] = ss[row[k]][col[k]]
    BY <1>9
  <2>2. Len(ss[row[k]]) = FragmentCount(groups[row[k]], size)
    BY <1>10, <2>1
  <2> QED
    BY <1>10, <2>1, <2>2
<1>12. \A g \in 1..n : \A i \in 1..FragmentCount(groups[g], size) :
         \E k \in 1..Len(shards) : row[k] = g /\ col[k] = i
  <2> TAKE g \in 1..n
  <2>1. Len(ss[g]) = FragmentCount(groups[g], size)
    BY <1>10
  <2> QED
    BY <1>9, <2>1
<1>13. ShardPlaces(groups, size, row, col)
  BY <1>1, <1>9, <1>11, <1>12 DEF ShardPlaces, shards
<1>14. Len(shards) \in Nat /\ DOMAIN shards = 1..Len(shards)
  BY <1>6
<1> QED
  BY <1>7, <1>13, <1>14 DEF shards

(* The shards of an epoch tile its groups.                                  *)
LEMMA ShardsTile ==
  ASSUME NEW groups \in Seq(Nat), NEW size \in Nat \ {0}
  PROVE  Tiles(groups, size)
<1> DEFINE shards == ShardsOf(groups, size)
           Own(g) == {i \in DOMAIN shards : shards[i].group = g}
           Covers(i, byte) == shards[i].offset <= byte /\ byte < shards[i].offset + shards[i].len
<1>1. /\ Len(shards) = SourceCount(groups, size) /\ Len(shards) \in Nat
      /\ DOMAIN shards = 1..Len(shards)
  BY ShardsAreFragments
<1>2. PICK row, col : ShardPlaces(groups, size, row, col)
  BY ShardsAreFragments
<1>3. /\ \A k \in DOMAIN shards :
           /\ row[k] \in DOMAIN groups /\ col[k] \in 1..FragmentCount(groups[row[k]], size)
           /\ shards[k] = Fragment(groups, row[k], size, col[k])
      /\ \A k, l \in DOMAIN shards : k < l => row[k] < row[l] \/ (row[k] = row[l] /\ col[k] < col[l])
      /\ \A g \in DOMAIN groups : \A i \in 1..FragmentCount(groups[g], size) :
           \E k \in DOMAIN shards : row[k] = g /\ col[k] = i
  <2>1. /\ \A k \in 1..Len(shards) :
             /\ row[k] \in DOMAIN groups /\ col[k] \in 1..FragmentCount(groups[row[k]], size)
             /\ shards[k] = Fragment(groups, row[k], size, col[k])
        /\ \A k, l \in 1..Len(shards) :
             k < l => row[k] < row[l] \/ (row[k] = row[l] /\ col[k] < col[l])
        /\ \A g \in DOMAIN groups : \A i \in 1..FragmentCount(groups[g], size) :
             \E k \in 1..Len(shards) : row[k] = g /\ col[k] = i
    BY <1>2, Zenon DEF ShardPlaces
  <2>2. DOMAIN shards = 1..Len(shards)
    BY <1>1
  <2> HIDE DEF shards
  <2>3. 1..Len(shards) = DOMAIN shards
    BY <2>2
  <2> DEFINE all == 1..Len(shards)
  <2>4. all = DOMAIN shards
    BY <2>3
  <2>5. /\ \A k \in all :
             /\ row[k] \in DOMAIN groups /\ col[k] \in 1..FragmentCount(groups[row[k]], size)
             /\ shards[k] = Fragment(groups, row[k], size, col[k])
        /\ \A k, l \in all : k < l => row[k] < row[l] \/ (row[k] = row[l] /\ col[k] < col[l])
        /\ \A g \in DOMAIN groups : \A i \in 1..FragmentCount(groups[g], size) :
             \E k \in all : row[k] = g /\ col[k] = i
    BY <2>1
  <2> HIDE DEF all
  <2> QED
    BY <2>4, <2>5
<1> HIDE DEF shards
<1>4. ASSUME NEW k \in DOMAIN shards
      PROVE  /\ shards[k].group = row[k] /\ shards[k].index = col[k] - 1
             /\ shards[k].total = groups[row[k]]
             /\ shards[k].count = FragmentCount(groups[row[k]], size)
             /\ shards[k].offset \in Nat /\ shards[k].len \in 0..size
             /\ shards[k].offset + shards[k].len <= groups[row[k]]
             /\ \A byte \in 0..groups[row[k]]-1 :
                  Covers(k, byte) <=> (col[k] - 1) * size <= byte /\ byte < col[k] * size
  <2>1. /\ row[k] \in DOMAIN groups /\ col[k] \in 1..FragmentCount(groups[row[k]], size)
        /\ shards[k] = Fragment(groups, row[k], size, col[k])
    BY <1>3
  <2> DEFINE g == row[k]
             i == col[k]
             shard == Fragment(groups, g, size, i)
  <2> HIDE DEF g, i
  <2>2. g \in DOMAIN groups /\ i \in 1..FragmentCount(groups[g], size) /\ shards[k] = shard
    BY <2>1 DEF g, i
  <2>3. HoldsFragment(shard, groups, size, g, i)
    <3>1. g \in DOMAIN groups /\ i \in 1..FragmentCount(groups[g], size)
      BY <2>2
    <3> QED
      BY <3>1, FragmentIs
  <2> HIDE DEF shard
  <2>4. /\ shard.group = g /\ shard.index = i - 1 /\ shard.total = groups[g]
        /\ shard.count = FragmentCount(groups[g], size)
        /\ shard.offset \in Nat /\ shard.len \in 0..size
        /\ shard.offset + shard.len <= groups[g]
        /\ \A byte \in 0..groups[g]-1 :
             shard.offset <= byte /\ byte < shard.offset + shard.len
               <=> (i - 1) * size <= byte /\ byte < i * size
    BY <2>3 DEF HoldsFragment
  <2> QED
    BY <2>2, <2>4 DEF g, i
<1> HIDE DEF Covers
<1>5. ASSUME NEW i \in DOMAIN shards PROVE IsValidShard(shards[i], groups, ShardHeader + size)
  <2>1. row[i] \in DOMAIN groups /\ row[i] <= Len(groups)
    <3>1. row[i] \in DOMAIN groups
      BY <1>3
    <3> QED
      BY <3>1
  <2>2. col[i] - 1 < FragmentCount(groups[row[i]], size)
    <3>1. col[i] \in 1..FragmentCount(groups[row[i]], size) /\ groups[row[i]] \in Nat
      BY <1>3, <2>1
    <3>2. FragmentCount(groups[row[i]], size) \in Nat
      BY <3>1, FragmentsOf
    <3> QED
      BY <3>1, <3>2
  <2>3. ShardHeader + shards[i].len <= ShardHeader + size
    <3>1. shards[i].len \in 0..size /\ ShardHeader \in Nat
      BY <1>4, PacketizerAssumption
    <3> QED
      BY <3>1
  <2> QED
    BY <1>4, <2>1, <2>2, <2>3 DEF IsValidShard
<1>6. ASSUME NEW g \in DOMAIN groups
      PROVE  /\ \A i \in Own(g) : /\ shards[i].index = Cardinality({j \in Own(g) : j < i})
                                  /\ shards[i].count = Cardinality(Own(g))
             /\ \A byte \in 0..groups[g]-1 : Cardinality({i \in Own(g) : Covers(i, byte)}) = 1
  <2> DEFINE own == Own(g)
             m == FragmentCount(groups[g], size)
  <2>1. groups[g] \in Nat /\ m \in Nat
    <3>1. groups[g] \in Nat
      OBVIOUS
    <3> QED
      BY <3>1, FragmentsOf
  <2>2. \A k : k \in own <=> k \in DOMAIN shards /\ row[k] = g
    BY <1>4
  <2>3. own \in SUBSET Nat
    <3>1. DOMAIN shards \subseteq Nat
      BY <1>1
    <3> QED
      BY <2>2, <3>1
  <2>4. \A k \in own : col[k] \in 1..m
    BY <1>3, <2>2
  <2> HIDE DEF own, m
  <2>5. \A k, l \in own : k < l => col[k] < col[l]
    <3> TAKE k, l \in own
    <3> HAVE k < l
    <3>1. row[k] = g /\ row[l] = g /\ g \in Nat
      BY <2>2
    <3>2. row[k] < row[l] \/ (row[k] = row[l] /\ col[k] < col[l])
      BY <1>3, <2>2
    <3> QED
      BY <3>1, <3>2
  <2>6. \A c \in 1..m : \E k \in own : col[k] = c
    BY <1>3, <2>2 DEF m
  <2>7. /\ Cardinality(own) = m
        /\ \A k \in own : Cardinality({j \in own : j < k}) = col[k] - 1
    <3>1. RankedBy(own, m, col)
      BY <2>1, <2>3, <2>4, <2>5, <2>6 DEF RankedBy
    <3> QED
      BY <3>1, RanksAreCounts
  <2>8. \A i \in own : /\ shards[i].index = Cardinality({j \in own : j < i})
                       /\ shards[i].count = Cardinality(own)
    <3> TAKE i \in own
    <3>1. i \in DOMAIN shards /\ row[i] = g
      BY <2>2
    <3>2. shards[i].index = col[i] - 1 /\ shards[i].count = m
      BY <1>4, <3>1 DEF m
    <3>3. Cardinality({j \in own : j < i}) = col[i] - 1
      BY <2>7, Zenon
    <3> QED
      BY <2>7, <3>2, <3>3
  <2>9. ASSUME NEW byte \in 0..groups[g]-1 PROVE Cardinality({i \in own : Covers(i, byte)}) = 1
    <3>1. PICK c \in 1..m :
            /\ (c - 1) * size <= byte /\ byte < c * size
            /\ \A j \in 1..m : (j - 1) * size <= byte /\ byte < j * size => j = c
      BY <2>1, ByteHasFragment DEF m
    <3>2. PICK k \in own : col[k] = c
      BY <2>6
    <3>3. \A i \in own : Covers(i, byte) <=> (col[i] - 1) * size <= byte /\ byte < col[i] * size
      BY <1>4, <2>2
    <3>4. \A i \in own : Covers(i, byte) <=> col[i] = c
      BY <2>4, <3>1, <3>3
    <3>5. \A i \in own : col[i] = c => i = k
      <4> TAKE i \in own
      <4> HAVE col[i] = c
      <4>1. i \in Nat /\ k \in Nat /\ c \in Nat
        BY <2>3
      <4>2. ~(i < k) /\ ~(k < i)
        BY <2>5, <3>2, <4>1
      <4> QED
        BY <4>1, <4>2
    <3>6. {i \in own : Covers(i, byte)} = {k}
      BY <3>2, <3>4, <3>5
    <3>7. Cardinality({k}) = 1
      BY FS_Singleton
    <3> QED
      BY <3>6, <3>7
  <2> QED
    BY <2>8, <2>9 DEF own
<1> QED
  BY <1>1, <1>5, <1>6 DEF Tiles, shards, Covers

-----------------------------------------------------------------------------
(* An epoch through its adapter.                                            *)

(* A candidate leaves room for the framing.                                 *)
LEMMA CandidatesFit ==
  ASSUME NEW c, IsConfig(c), NEW groups \in Seq(Nat), NEW size \in Candidates(c, groups)
  PROVE  size \in 1..MaxFragmentPayload(c)
<1> DEFINE most == MaxFragmentPayload(c)
<1>1. most \in Nat \ {0} /\ c.maxSource \in Nat
  BY ConfigNumbers DEF IsConfig
<1>2. size \in Nat \ {0}
  BY CandidatesAreSizes
<1> HIDE DEF most
<1>3. CASE size = most
  BY <1>1, <1>3 DEF most
<1>4. CASE size # most
  <2>1. PICK g \in DOMAIN groups : \E count \in FragmentCount(groups[g], most)..c.maxSource :
          size = DivUp(PayloadLen(groups[g]), count)
    BY <1>4 DEF Candidates, most
  <2>2. PICK count \in FragmentCount(groups[g], most)..c.maxSource :
          size = DivUp(PayloadLen(groups[g]), count)
    BY <2>1
  <2>3. groups[g] \in Nat
    OBVIOUS
  <2> DEFINE n == FragmentCount(groups[g], most)
             l == PayloadLen(groups[g])
  <2>4. n \in Nat \ {0} /\ l \in Nat \ {0} /\ l <= n * most
    BY <1>1, <2>3, FragmentsOf
  <2>5. count \in n..c.maxSource /\ size = DivUp(l, count)
    BY <2>2
  <2> HIDE DEF n, l
  <2>6. PICK e \in Nat : count = n + e
    BY <1>1, <2>4, <2>5
  <2>7. most * count = n * most + most * e /\ most * e \in Nat /\ n * most \in Nat
    BY <1>1, <2>4, <2>6
  <2>8. l <= most * count
    BY <2>4, <2>7
  <2>9. count \in Nat \ {0}
    BY <2>4, <2>6
  <2>10. size <= most
    BY <1>1, <2>4, <2>5, <2>8, <2>9, DivUpIs
  <2> QED
    BY <1>1, <1>2, <2>10 DEF most
<1> QED
  BY <1>3, <1>4

(* The datagrams of an epoch before any is refused.                         *)
DatagramsOf(c, k, size) ==
  [i \in 1..k + c.repair |->
     IF i <= k THEN FecDatagram(i - 1, ShardHeader + size)
     ELSE AttachSessionId(FecDatagram(i - 1, ShardHeader + size), Session)]

(* What each of them is.                                                    *)
LEMMA DatagramIs ==
  ASSUME NEW c, c.repair \in Nat, NEW k \in Nat, NEW size \in Nat, NEW i \in 1..k + c.repair
  PROVE  LET d == DatagramsOf(c, k, size)[i]
         IN /\ d.esi = i - 1
            /\ d.size \in Nat /\ d.size <= FecFraming + SessionTrailer + ShardHeader + size
            /\ Inspect(d, k, Session) = {[source |-> i <= k, session |-> {Session}]}
<1> DEFINE f == FecDatagram(i - 1, ShardHeader + size)
           d == DatagramsOf(c, k, size)[i]
<1>1. /\ FecFraming \in Nat /\ SessionTrailer \in Nat /\ ShardHeader \in Nat
  BY PacketizerAssumption
<1>2. i \in Nat /\ k \in Nat
  OBVIOUS
<1>3. /\ f.esi = i - 1 /\ f.size = FecFraming + (ShardHeader + size)
      /\ f.flag = FALSE /\ f.trailer = {} /\ f.crc = ChecksumOf(FALSE, {})
  BY DEF FecDatagram
<1>4. CASE i <= k
  <2>1. d = f
    BY <1>4 DEF DatagramsOf
  <2> HIDE DEF d, f
  <2>2. IsIntact(d) /\ d.esi < k
    <3>1. d.flag = FALSE /\ d.trailer = {}
      BY <1>3, <2>1, Zenon
    <3>2. d.crc = ChecksumOf(d.flag, d.trailer)
      BY <1>3, <2>1, <3>1, Zenon
    <3>3. d.flag <=> d.trailer # {}
      BY <3>1, Zenon
    <3>4. d.esi < k
      BY <1>2, <1>3, <1>4, <2>1
    <3> QED
      BY <3>2, <3>3, <3>4, Zenon DEF IsIntact
  <2>3. (i <= k) = TRUE
    BY <1>4
  <2>4. Inspect(d, k, Session) = {[source |-> TRUE, session |-> {Session}]}
    BY <2>2 DEF Inspect
  <2>5. Inspect(d, k, Session) = {[source |-> i <= k, session |-> {Session}]}
    BY <2>3, <2>4, Zenon
  <2>6. d.esi = i - 1 /\ d.size \in Nat /\ d.size <= FecFraming + SessionTrailer + ShardHeader + size
    BY <1>1, <1>3, <2>1
  <2> QED
    BY <2>5, <2>6 DEF d
<1>5. CASE ~(i <= k)
  <2> DEFINE a == AttachSessionId(f, Session)
  <2>1. d = a
    BY <1>5 DEF DatagramsOf
  <2>2. /\ a.esi = f.esi /\ a.size = f.size + SessionTrailer
        /\ a.flag = TRUE /\ a.trailer = {Session} /\ a.crc = ChecksumOf(TRUE, {Session})
    BY DEF AttachSessionId, FecDatagram
  <2> HIDE DEF d, f, a
  <2>3. IsIntact(d) /\ ~(d.esi < k) /\ d.trailer = {Session}
    <3>1. d.flag = TRUE /\ d.trailer = {Session}
      BY <2>1, <2>2, Zenon
    <3>2. d.crc = ChecksumOf(d.flag, d.trailer)
      BY <2>1, <2>2, <3>1, Zenon
    <3>3. d.flag <=> d.trailer # {}
      BY <3>1, Zenon
    <3>4. ~(d.esi < k)
      BY <1>2, <1>3, <1>5, <2>1, <2>2
    <3> QED
      BY <3>1, <3>2, <3>3, <3>4, Zenon DEF IsIntact
  <2>4. (i <= k) = FALSE
    BY <1>5
  <2>5. Inspect(d, k, Session) = {[source |-> FALSE, session |-> {Session}]}
    BY <2>3 DEF Inspect
  <2>6. Inspect(d, k, Session) = {[source |-> i <= k, session |-> {Session}]}
    BY <2>4, <2>5, Zenon
  <2>7. d.esi = i - 1 /\ d.size \in Nat /\ d.size <= FecFraming + SessionTrailer + ShardHeader + size
    BY <1>1, <1>3, <2>1, <2>2
  <2> QED
    BY <2>6, <2>7 DEF d
<1> QED
  BY <1>4, <1>5

(* A stream id is two words.                                                *)
IsAdapter(adapter) == \A id \in adapter.stream : id \in Nat \X Nat /\ adapter.stream = {id}

(* What is read of the first words of a message without a stream id.        *)
LEMMA TwoWords ==
  ASSUME NEW a \in Nat, NEW f \in Nat
  PROVE  <<>> \o <<a, f>> = <<a, f>> /\ SubSeq(<<a, f>>, 3, 2) = <<>> /\ Tail(<<a, f>>) = <<f>>
<1>1. <<a, f>> \in Seq(Nat)
  OBVIOUS
<1>2. <<>> \o <<a, f>> = <<a, f>>
  BY <1>1, ConcatEmptySeq
<1>3. SubSeq(<<a, f>>, 3, 2) = <<>>
  BY SubSeqEmpty
<1>4. Tail(<<a, f>>) = <<f>>
  OBVIOUS
<1> QED
  BY <1>2, <1>3, <1>4

(* A stream id before the words of a message without one.                   *)
LEMMA WordsJoin ==
  ASSUME NEW id \in Seq(Nat), Len(id) = 2, NEW two \in Seq(Nat), Len(two) = 2
  PROVE  LET words == id \o two
         IN /\ words \in Seq(Nat) /\ Len(words) = 4
            /\ SubSeq(words, 1, 2) = id /\ SubSeq(words, 3, 4) = two
            /\ Len(Tail(words)) = 3
            /\ words[1] = id[1]
<1> DEFINE words == id \o two
<1>1. /\ words \in Seq(Nat) /\ Len(words) = 4
      /\ \A i \in 1..4 : words[i] = IF i <= 2 THEN id[i] ELSE two[i-2]
  <2>1. /\ words \in Seq(Nat) /\ Len(words) = Len(id) + Len(two)
        /\ \A i \in 1..Len(id) + Len(two) :
             words[i] = IF i <= Len(id) THEN id[i] ELSE two[i - Len(id)]
    BY ConcatProperties
  <2> HIDE DEF words
  <2>2. Len(id) + Len(two) = 4
    OBVIOUS
  <2> QED
    BY <2>1, <2>2
<1> HIDE DEF words
<1>2. ASSUME NEW m \in {1, 3}, NEW part \in {id, two}, \A i \in 1..2 : words[m+i-1] = part[i]
      PROVE  SubSeq(words, m, m + 1) = part
  <2> DEFINE c == SubSeq(words, m, m + 1)
  <2>1. m \in Int /\ m + 1 \in Int /\ m + 1 - m + 1 = 2 /\ m <= m + 1
    OBVIOUS
  <2>5. \A i \in m..m+1 : words[i] \in Nat
    <3>1. \A i \in m..m+1 : i \in 1..4
      OBVIOUS
    <3>2. \A i \in 1..4 : words[i] \in Nat
      BY <1>1, ElementOfSeq
    <3> QED
      BY <3>1, <3>2
  <2>2. c \in Seq(Nat) /\ Len(c) = 2 /\ \A i \in 1..2 : c[i] = words[m+i-1]
    BY <2>1, <2>5, SubSeqProperties
  <2> HIDE DEF c
  <2>3. part \in Seq(Nat) /\ Len(part) = 2
    OBVIOUS
  <2>6. Len(c) = Len(part) /\ \A i \in 1..Len(c) : c[i] = part[i]
    BY <1>2, <2>2, <2>3
  <2>4. c = part
    BY <2>2, <2>3, <2>6, SeqEqual, Zenon
  <2> QED
    BY <2>4 DEF c
<1>3. SubSeq(words, 1, 1 + 1) = id
  BY <1>1, <1>2
<1>4. SubSeq(words, 3, 3 + 1) = two
  BY <1>1, <1>2
<1>5. Len(Tail(words)) = 3
  <2>1. words # <<>>
    <3>1. Len(words) = 4 /\ 4 # 0
      BY <1>1
    <3>2. Len(<<>>) = 0
      BY EmptySeq
    <3> QED
      BY <3>1, <3>2, Zenon
  <2> QED
    BY <1>1, <2>1, HeadTailProperties
<1> QED
  BY <1>1, <1>3, <1>4, <1>5 DEF words

(* An adapter finds the datagram behind its own framing only.               *)
LEMMA FramingIsRead ==
  ASSUME NEW adapter, IsAdapter(adapter), NEW other, IsAdapter(other), NEW d
  PROVE  Unwrap(other, Message(adapter, d)) = {<<FecWord>>} <=> other.stream = adapter.stream
<1> DEFINE two == <<AudioWord, FecWord>>
           last == <<FecWord>>
           words == Message(adapter, d).words
           rest == StripStreamId(other, words)
           read == Unwrap(other, Message(adapter, d))
<1>1. AudioWord \in Nat /\ FecWord \in Nat
  BY PacketizerAssumption
<1>2. words = (IF adapter.stream = {} THEN <<>> ELSE CHOOSE id \in adapter.stream : TRUE) \o two
  BY DEF Message
<1>3. read = {Tail(v) : v \in {w \in rest : w # <<>> /\ w[1] = AudioWord}}
  BY DEF Unwrap
<1>4. /\ two \in Seq(Nat) /\ Len(two) = 2 /\ two # <<>> /\ two[1] = AudioWord
      /\ Len(last) = 1
  BY <1>1
<1>5. <<>> \o two = two /\ SubSeq(two, 3, 2) = <<>> /\ Tail(two) = last
  BY <1>1, TwoWords
<1>6. ASSUME NEW a, IsAdapter(a), a.stream # {}
      PROVE  \E id \in Seq(Nat) : Len(id) = 2 /\ a.stream = {id}
  <2>1. PICK id \in a.stream : id \in Nat \X Nat /\ a.stream = {id}
    BY <1>6 DEF IsAdapter
  <2>2. PICK h \in Nat, l \in Nat : id = <<h, l>>
    BY <2>1
  <2>3. <<h, l>> \in Seq(Nat) /\ Len(<<h, l>>) = 2
    OBVIOUS
  <2> QED
    BY <2>1, <2>2, <2>3
<1> HIDE DEF two, last, words, read
<1>7. rest = {two} => read = {last}
  <2> HIDE DEF rest
  <2> QED
    BY <1>3, <1>4, <1>5
<1>8. CASE adapter.stream = {}
  <2>1. words = two
    BY <1>2, <1>5, <1>8
  <2>2. CASE other.stream = {}
    <3>1. rest = {two}
      BY <2>1, <2>2 DEF StripStreamId
    <3> QED
      BY <1>7, <1>8, <2>2, <3>1 DEF read, last
  <2>3. CASE other.stream # {}
    <3>1. rest \subseteq {<<>>}
      BY <1>4, <1>5, <2>1, <2>3 DEF StripStreamId
    <3> HIDE DEF rest
    <3>2. read = {}
      BY <1>3, <3>1
    <3> QED
      BY <1>8, <2>3, <3>2 DEF read
  <2> QED
    BY <2>2, <2>3
<1>9. CASE adapter.stream # {}
  <2>1. PICK id \in Seq(Nat) : Len(id) = 2 /\ adapter.stream = {id}
    BY <1>6, <1>9
  <2>2. words = id \o two
    <3>1. (CHOOSE i \in adapter.stream : TRUE) = id
      BY <2>1
    <3> QED
      BY <1>2, <1>9, <3>1
  <2>3. /\ Len(words) = 4 /\ SubSeq(words, 1, 2) = id /\ SubSeq(words, 3, 4) = two
        /\ Len(Tail(words)) = 3
    BY <1>4, <2>1, <2>2, WordsJoin
  <2>4. CASE other.stream = {}
    <3>1. rest = {words}
      BY <2>4 DEF StripStreamId
    <3> HIDE DEF rest
    <3>2. Tail(words) # last
      <4>1. 3 # 1
        OBVIOUS
      <4> QED
        BY <1>4, <2>3, <4>1, Zenon
    <3>3. last \notin read
      BY <1>3, <3>1, <3>2
    <3> QED
      BY <1>9, <2>4, <3>3 DEF read, last
  <2>5. CASE other.stream # {}
    <3>1. PICK own \in Seq(Nat) : Len(own) = 2 /\ other.stream = {own}
      BY <1>6, <2>5
    <3>2. rest = {two : i \in {i \in {own} : id = i}}
      BY <2>3, <2>5, <3>1 DEF StripStreamId
    <3> HIDE DEF rest
    <3>3. CASE own = id
      <4>1. rest = {two}
        BY <3>2, <3>3
      <4> QED
        BY <1>7, <2>1, <3>1, <3>3, <4>1 DEF read, last
    <3>4. CASE own # id
      <4>1. read = {}
        BY <1>3, <3>2, <3>4
      <4> QED
        BY <2>1, <3>1, <3>4, <4>1 DEF read
    <3> QED
      BY <3>3, <3>4
  <2> QED
    BY <2>4, <2>5
<1> QED
  BY <1>8, <1>9

(* An epoch whose symbols fit one block is neither refused by encode_epoch  *)
(* nor by wrap_epoch, and is read as it was sent.                           *)
GetsThrough(c, groups, adapter, size) ==
  LET k == SourceCount(groups, size)
  IN /\ Tiles(groups, size)
     /\ k <= MaxBlockSymbols =>
        \E datagrams \in EncodedEpoch(c, groups, size, Session) :
          \E messages \in WrapEpoch(adapter, datagrams, k) :
            \A i \in DOMAIN messages :
              /\ messages[i].size <= adapter.maxSize
              /\ \A other \in Adapters :
                   Unwrap(other, messages[i]) = {<<FecWord>>} <=> other.stream = adapter.stream
              /\ Inspect(datagrams[i], k, Session) = {[source |-> i <= k, session |-> {Session}]}

(* An epoch with a geometry gets through.                                   *)
LEMMA EpochGetsThrough ==
  ASSUME NEW c, IsConfig(c), c.repair \in Nat, NEW groups \in Seq(Nat), groups # <<>>,
         NEW adapter \in Adapters, c.maxSize = adapter.maxSize, c.overhead = TransportOverhead(adapter),
         NEW size \in GeometryForGroups(c, groups)
  PROVE  GetsThrough(c, groups, adapter, size)
<1> DEFINE k == SourceCount(groups, size)
           n == k + c.repair
           datagrams == DatagramsOf(c, k, size)
           messages == [i \in DOMAIN datagrams |-> Message(adapter, datagrams[i])]
           most == FecFraming + SessionTrailer + ShardHeader + size
<1>1. size \in Candidates(c, groups)
  BY DEF GeometryForGroups, IsConfig
<1>2. size \in Nat \ {0} /\ size <= MaxFragmentPayload(c)
  BY <1>1, CandidatesFit, ConfigNumbers
<1>3. k \in Nat /\ Tiles(groups, size)
  BY <1>2, SourceCountIs, ShardsTile
<1>4. /\ c.maxSize \in Nat /\ c.overhead \in Nat /\ most \in Nat /\ c.overhead + most <= c.maxSize
  <2>1. FecFraming \in Nat /\ SessionTrailer \in Nat /\ ShardHeader \in Nat
    BY PacketizerAssumption
  <2>2. c.maxSize \in Nat /\ c.overhead \in Nat
    BY DEF IsConfig
  <2>3. size <= c.maxSize - (c.overhead + FecFraming + SessionTrailer) - ShardHeader
    BY <1>2 DEF MaxFragmentPayload, FramingSize
  <2>4. size \in Nat
    BY <1>2
  <2> QED
    BY <2>1, <2>2, <2>3, <2>4
<1>5. DOMAIN datagrams = 1..n
  BY DEF DatagramsOf
<1>6. ASSUME NEW i \in 1..n
      PROVE  /\ datagrams[i].esi = i - 1 /\ datagrams[i].size \in Nat /\ datagrams[i].size <= most
             /\ Inspect(datagrams[i], k, Session) = {[source |-> i <= k, session |-> {Session}]}
  <2>1. size \in Nat
    BY <1>2
  <2> HIDE DEF k
  <2>2. LET d == DatagramsOf(c, k, size)[i]
        IN /\ d.esi = i - 1
           /\ d.size \in Nat /\ d.size <= FecFraming + SessionTrailer + ShardHeader + size
           /\ Inspect(d, k, Session) = {[source |-> i <= k, session |-> {Session}]}
    BY <1>3, <2>1, DatagramIs
  <2> QED
    BY <2>2
<1>7. ASSUME k <= MaxBlockSymbols PROVE datagrams \in EncodedEpoch(c, groups, size, Session)
  <2>1. EncodedEpoch(c, groups, size, Session) =
          IF \/ k > MaxBlockSymbols
             \/ \E i \in DOMAIN datagrams : datagrams[i].size + c.overhead > c.maxSize
          THEN {} ELSE {datagrams}
    BY DEF EncodedEpoch, DatagramsOf
  <2> HIDE DEF datagrams, k, n, most
  <2>2. \A i \in DOMAIN datagrams : ~(datagrams[i].size + c.overhead > c.maxSize)
    BY <1>4, <1>5, <1>6
  <2>3. ~(k > MaxBlockSymbols)
    BY <1>3, <1>7, PacketizerAssumption
  <2> QED
    BY <2>1, <2>2, <2>3
<1>8. ASSUME NEW i \in 1..n
      PROVE  /\ messages[i] = Message(adapter, datagrams[i])
             /\ messages[i].size = c.overhead + datagrams[i].size
             /\ messages[i].size <= adapter.maxSize
  <2>1. messages[i] = Message(adapter, datagrams[i])
    BY <1>5
  <2> HIDE DEF messages, datagrams, k, n, most
  <2>3. messages[i].size = c.overhead + datagrams[i].size
    BY <2>1 DEF Message, TransportOverhead
  <2> QED
    BY <1>4, <1>6, <2>1, <2>3
<1>9. messages \in WrapEpoch(adapter, datagrams, k)
  <2>1. WrapEpoch(adapter, datagrams, k) =
          IF \/ \E i, j \in DOMAIN datagrams : i < j /\ datagrams[i].esi >= k /\ datagrams[j].esi < k
             \/ \E i \in DOMAIN messages : messages[i].size > adapter.maxSize
          THEN {} ELSE {messages}
    BY DEF WrapEpoch
  <2>2. DOMAIN messages = 1..n
    BY <1>5
  <2> HIDE DEF messages, datagrams, most
  <2>3. \A i, j \in 1..n : ~(i < j /\ datagrams[i].esi >= k /\ datagrams[j].esi < k)
    <3> HIDE DEF k
    <3> QED
      BY <1>3, <1>6
  <2>4. \A i \in 1..n : ~(messages[i].size > adapter.maxSize)
    <3>1. ASSUME NEW i \in 1..n PROVE ~(messages[i].size > adapter.maxSize)
      <4>1. messages[i].size = c.overhead + datagrams[i].size /\ messages[i].size <= c.maxSize
            /\ datagrams[i].size \in Nat
        BY <1>6, <1>8
      <4> QED
        BY <1>4, <4>1
    <3> QED
      BY <3>1
  <2> HIDE DEF k, n
  <2> QED
    BY <1>5, <2>1, <2>2, <2>3, <2>4
<1>10. ASSUME NEW i \in 1..n, NEW other \in Adapters
       PROVE  Unwrap(other, messages[i]) = {<<FecWord>>} <=> other.stream = adapter.stream
  <2>1. IsAdapter(adapter) /\ IsAdapter(other)
    BY EpochAssumption DEF IsAdapter
  <2>2. messages[i] = Message(adapter, datagrams[i])
    BY <1>8
  <2> HIDE DEF messages, datagrams
  <2> QED
    BY <2>1, <2>2, FramingIsRead
<1>11. DOMAIN messages = 1..n
  BY <1>5
<1> HIDE DEF messages, datagrams, n, most
<1>12. \A i \in DOMAIN messages :
         /\ messages[i].size <= adapter.maxSize
         /\ \A other \in Adapters : Unwrap(other, messages[i]) = {<<FecWord>>} <=> other.stream = adapter.stream
         /\ Inspect(datagrams[i], k, Session) = {[source |-> i <= k, session |-> {Session}]}
  BY <1>6, <1>8, <1>10, <1>11
<1> HIDE DEF k
<1> QED
  BY <1>3, <1>7, <1>9, <1>12 DEF k, GetsThrough

(* An epoch with a geometry is tiled by its shards, and gets through the    *)
(* adapter that its config was prepared for if its symbols fit one block of *)
(* RaptorQ: neither encode_epoch nor wrap_epoch refuses it, adapters of the *)
(* same stream and no others find its datagrams in the messages, and a      *)
(* relay is told the role and session of each.                              *)
THEOREM EpochsAlwaysGetThrough == TransportSpec => []EpochsGetThrough
<1>1. TransportInit => PacketizeInv
  BY DEF TransportInit, PacketizeInv
<1>2. PacketizeInv /\ [TransportNext]_transportVars => PacketizeInv'
  BY PacketizeStep
<1>3. PacketizeInv => EpochsGetThrough
  <2> SUFFICES ASSUME PacketizeInv, NEW p \in packetized, NEW size \in p.sizes
               PROVE  GetsThrough(p.config, p.groups, p.adapter, size)
    BY DEF EpochsGetThrough, GetsThrough
  <2>1. /\ IsConfig(p.config) /\ p.groups \in Seq(Nat) /\ p.groups # <<>>
        /\ p.sizes = GeometryForGroups(p.config, p.groups)
        /\ p.config.maxSize = p.adapter.maxSize
        /\ p.config.overhead = TransportOverhead(p.adapter) /\ p.config.repair \in Nat
        /\ p.adapter \in Adapters
    BY PreparedIsConfig
  <2> DEFINE c == p.config
             groups == p.groups
             adapter == p.adapter
  <2>2. size \in GeometryForGroups(c, groups)
    BY <2>1
  <2>3. /\ IsConfig(c) /\ c.repair \in Nat /\ groups \in Seq(Nat) /\ groups # <<>>
        /\ c.maxSize = adapter.maxSize /\ c.overhead = TransportOverhead(adapter)
        /\ adapter \in Adapters
    BY <2>1
  <2> HIDE DEF c, groups, adapter
  <2>4. GetsThrough(c, groups, adapter, size)
    BY <2>2, <2>3, EpochGetsThrough
  <2> QED
    BY <2>4 DEF c, groups, adapter
<1> QED
  BY <1>1, <1>2, <1>3, PTL DEF TransportSpec

=============================================================================
