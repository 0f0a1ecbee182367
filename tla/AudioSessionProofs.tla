-------------------------- MODULE AudioSessionProofs --------------------------
(***************************************************************************)
(* Proofs about AudioSession.  The decoder is that of MultichannelAudioFec, *)
(* and so are its invariant IInv and what a datagram does to it.            *)
(***************************************************************************)
EXTENDS AudioSession, EpochTransportProofs

-----------------------------------------------------------------------------
(* The session below.                                                       *)

(* Sender, network and decoder of the session do what those of              *)
(* MultichannelAudioFec do.                                                 *)
LEMMA SessionStep == [SessionNext]_sessionVars => [Next]_vars
<1>1. ASSUME NEW step \in PtsSteps, NEW k \in Shards, EncodeEpochAt(step, k) PROVE Next
  BY <1>1 DEF EncodeEpochAt, Next
<1>2. ASSUME NEW n \in Sent, NEW esi \in 0..sent[n].k+RepairCount-1, Receive(n, esi) PROVE Next
  BY <1>2 DEF Receive, Next
<1>3. ASSUME NEW p \in Pts, TakeForPlayout(p) \/ ExpireBefore(p) PROVE UNCHANGED vars
  BY <1>3 DEF TakeForPlayout, ExpireBefore
<1>4. UNCHANGED sessionVars => UNCHANGED vars
  BY DEF sessionVars
<1> QED
  BY <1>1, <1>2, <1>3, <1>4 DEF SessionNext

(* The session shows its decoder nothing that the decoder's own             *)
(* specification does not allow, so what holds of the decoder holds in it.  *)
THEOREM SessionImplementsFec == SessionSpec => Spec
<1>1. SessionInit => Init
  BY DEF SessionInit
<1> QED
  BY <1>1, SessionStep, PTL DEF SessionSpec, Spec

-----------------------------------------------------------------------------
(* The playout clock.                                                       *)

(* Of the session: the decoder is not looked into.                          *)
PlayoutType ==
  /\ sent \in Seq([id : Ids, k : Shards]) /\ pts \in Seq(Nat) /\ Len(pts) = Len(sent)
  /\ DOMAIN assembly \subseteq Sent
  /\ last \in Nat \cup {NeverPlayed}
  /\ DOMAIN buffer \subseteq Nat
  /\ \A p \in DOMAIN buffer : buffer[p] \in Sent
  /\ played \in [Pts -> Nat]

AssembliesAreAhead == \A n \in DOMAIN assembly : pts[n] > last

BufferIsAhead == \A p \in DOMAIN buffer : p > last /\ pts[buffer[p]] = p

(* A pts was played once, by the time the clock had reached it.             *)
PlayedIsBehind == \A p \in Pts : played[p] = 0 \/ (played[p] = 1 /\ p <= last)

PlayoutInv == PlayoutType /\ AssembliesAreAhead /\ BufferIsAhead /\ PlayedIsBehind

-----------------------------------------------------------------------------
(* The operators.                                                           *)

(* The moments of the playout clock are numbers.                            *)
LEMMA PtsAreNumbers == Pts \subseteq Nat /\ NeverPlayed = -1
<1>1. Max(PtsSteps) \in Nat
  <2>1. PtsSteps \in SUBSET Int /\ PtsSteps # {} /\ IsFiniteSet(PtsSteps)
    BY SessionAssumption
  <2>2. Max(PtsSteps) \in PtsSteps
    BY <2>1, MaxOfFinite
  <2> QED
    BY <2>2, SessionAssumption
<1>2. MaxEpochs * Max(PtsSteps) \in Nat
  BY <1>1, Numbers
<1> QED
  BY <1>2 DEF Pts, NeverPlayed

(* An epoch that was sent is one still, with the same pts.                  *)
LEMMA SentGrows ==
  ASSUME TypeOK, PlayoutType, NEW step \in PtsSteps, NEW k \in Shards, EncodeEpochAt(step, k)
  PROVE  /\ sent' \in Seq([id : Ids, k : Shards])
         /\ pts' \in Seq(Nat) /\ Len(pts') = Len(sent')
         /\ Sent \subseteq Sent' /\ \A n \in Sent : pts'[n] = pts[n]
<1>1. pts \in Seq(Nat) /\ step \in Nat /\ Len(pts) = Len(sent)
  BY SessionAssumption DEF PlayoutType
<1>2. PICK e \in Nat : pts' = Append(pts, e)
  <2>1. (IF pts = <<>> THEN 0 ELSE Last(pts)) \in Nat
    <3>1. CASE pts = <<>>
      BY <3>1
    <3>2. CASE pts # <<>>
      <4>1. Last(pts) = pts[Len(pts)] /\ Len(pts) \in 1..Len(pts)
        BY <1>1, <3>2 DEF Last
      <4> QED
        BY <1>1, <3>2, <4>1
    <3> QED
      BY <3>1, <3>2
  <2>2. step + (IF pts = <<>> THEN 0 ELSE Last(pts)) \in Nat
    BY <1>1, <2>1
  <2> QED
    BY <2>2 DEF EncodeEpochAt
<1>3. sent' = Append(sent, [id |-> blockId, k |-> k]) /\ blockId \in Ids
  BY DEF EncodeEpochAt, EncodeEpoch, TypeOK
<1> QED
  BY <1>1, <1>2, <1>3 DEF Sent, PlayoutType

(* insert: what is buffered was before, or is the epoch that completed in   *)
(* time.                                                                    *)
LEMMA InsertedIs ==
  ASSUME NEW p \in Nat, NEW n
  PROVE  LET b == Inserted(p, n) IN
         /\ DOMAIN b \subseteq DOMAIN buffer \cup {p}
         /\ \A q \in DOMAIN b :
              \/ q \in DOMAIN buffer /\ b[q] = buffer[q]
              \/ q = p /\ b[q] = n /\ ~IsLate(p)
<1> DEFINE b == [q \in DOMAIN buffer \cup {p} |-> IF q = p THEN n ELSE buffer[q]]
           rest == DOMAIN b \ {Min(DOMAIN b)}
<1>1. CASE IsLate(p) \/ p \in DOMAIN buffer
  BY <1>1 DEF Inserted
<1>2. CASE ~(IsLate(p) \/ p \in DOMAIN buffer)
  <2>1. /\ DOMAIN b = DOMAIN buffer \cup {p}
        /\ \A q \in DOMAIN b :
             \/ q \in DOMAIN buffer /\ b[q] = buffer[q]
             \/ q = p /\ b[q] = n /\ ~IsLate(p)
    BY <1>2
  <2>2. Inserted(p, n) = b \/ Inserted(p, n) = [q \in rest |-> b[q]]
    BY <1>2 DEF Inserted, Without, Restrict
  <2> HIDE DEF b
  <2>3. rest \subseteq DOMAIN b
    OBVIOUS
  <2> HIDE DEF rest
  <2> QED
    BY <2>1, <2>2, <2>3
<1> QED
  BY <1>1, <1>2

(* What is left of a map.                                                   *)
LEMMA WithoutIs ==
  ASSUME NEW f, NEW keys
  PROVE  /\ DOMAIN Without(f, keys) = DOMAIN f \ keys
         /\ \A x \in DOMAIN f \ keys : Without(f, keys)[x] = f[x]
BY DEF Without, Restrict

-----------------------------------------------------------------------------
(* The steps.                                                               *)

(* What joins an assembly, or leaves one for the buffer, is not late.       *)
LEMMA AssembleStep ==
  ASSUME PlayoutInv, NEW n \in Sent, NEW shards, Assemble(n, shards), ~IsLate(pts[n]),
         UNCHANGED <<sent, pts, last, played>>
  PROVE  PlayoutInv'
<1>1. /\ pts[n] \in Nat /\ pts[n] > last /\ last \in Int /\ Sent' = Sent
  <2>1. pts[n] \in Nat
    BY DEF PlayoutInv, PlayoutType, Sent
  <2>2. last \in Int /\ last >= -1
    BY DEF PlayoutInv, PlayoutType, NeverPlayed
  <2>3. pts[n] > last
    BY <2>1, <2>2 DEF IsLate, NeverPlayed
  <2> QED
    BY <2>1, <2>2, <2>3 DEF Sent
<1>2. DOMAIN assembly' \subseteq DOMAIN assembly \cup {n}
  <2> DEFINE kept == Without(assembly, Evicted(n))
             done == Without(kept, {n})
  <2>1. DOMAIN kept \subseteq DOMAIN assembly
    BY DEF Without, Restrict
  <2>2. DOMAIN done \subseteq DOMAIN kept
    <3> HIDE DEF kept
    <3>1. DOMAIN done = DOMAIN kept \ {n}
      BY WithoutIs
    <3> QED
      BY <3>1
  <2>3. assembly' = done \/ DOMAIN assembly' = DOMAIN kept \cup {n}
    BY DEF Assemble
  <2> HIDE DEF kept, done
  <2> QED
    BY <2>1, <2>2, <2>3
<1>3. buffer' = buffer \/ buffer' = Inserted(pts[n], n)
  BY DEF Assemble
<1>4. /\ DOMAIN buffer' \subseteq DOMAIN buffer \cup {pts[n]}
      /\ \A q \in DOMAIN buffer' :
           \/ q \in DOMAIN buffer /\ buffer'[q] = buffer[q]
           \/ q = pts[n] /\ buffer'[q] = n
  BY <1>1, <1>3, InsertedIs
<1>5. PlayoutType'
  BY <1>1, <1>2, <1>4 DEF PlayoutInv, PlayoutType
<1>6. AssembliesAreAhead'
  BY <1>1, <1>2 DEF PlayoutInv, AssembliesAreAhead
<1>7. BufferIsAhead'
  BY <1>1, <1>4 DEF PlayoutInv, BufferIsAhead
<1>8. PlayedIsBehind'
  BY DEF PlayoutInv, PlayedIsBehind
<1> QED
  BY <1>5, <1>6, <1>7, <1>8 DEF PlayoutInv

(* take_for_playout gives up and drops what the clock reaches before the    *)
(* clock is set, and reads the pts as it drops it.                          *)
LEMMA PlayoutStep ==
  ASSUME PlayoutInv, NEW p \in Pts, TakeForPlayout(p)
  PROVE  PlayoutInv'
<1>1. p \in Nat /\ last \in Int /\ last <= p /\ last' = p
  BY PtsAreNumbers DEF TakeForPlayout, PlayoutInv, PlayoutType
<1>2. /\ sent' = sent /\ pts' = pts /\ Sent' = Sent
      /\ DOMAIN assembly' = {n \in DOMAIN assembly : ~(pts[n] <= p)}
      /\ DOMAIN buffer' = {q \in DOMAIN buffer : ~(q <= p)}
      /\ \A q \in DOMAIN buffer' : buffer'[q] = buffer[q]
  <2> DEFINE late == {n \in DOMAIN assembly : pts[n] <= p}
             gone == {q \in DOMAIN buffer : q <= p}
  <2>1. assembly' = Without(assembly, late) /\ buffer' = Without(buffer, gone)
        /\ sent' = sent /\ pts' = pts
    BY DEF TakeForPlayout, DropInFlight, vars
  <2>2. DOMAIN assembly \ late = {n \in DOMAIN assembly : ~(pts[n] <= p)}
    OBVIOUS
  <2>3. DOMAIN buffer \ gone = {q \in DOMAIN buffer : ~(q <= p)}
    OBVIOUS
  <2> HIDE DEF late, gone
  <2>4. DOMAIN assembly' = DOMAIN assembly \ late
    BY <2>1, WithoutIs
  <2>5. DOMAIN buffer' = DOMAIN buffer \ gone /\ \A q \in DOMAIN buffer \ gone : buffer'[q] = buffer[q]
    BY <2>1, WithoutIs
  <2> QED
    BY <2>1, <2>2, <2>3, <2>4, <2>5 DEF Sent
<1>3. (\A n \in Sent : pts[n] \in Nat) /\ DOMAIN assembly \subseteq Sent /\ DOMAIN buffer \subseteq Nat
  BY DEF PlayoutInv, PlayoutType, Sent
<1>4. AssembliesAreAhead'
  BY <1>1, <1>2, <1>3 DEF AssembliesAreAhead
<1>5. BufferIsAhead'
  BY <1>1, <1>2, <1>3 DEF PlayoutInv, BufferIsAhead
<1>6. PlayedIsBehind' /\ played' \in [Pts -> Nat]
  <2>1. played \in [Pts -> Nat]
    BY DEF PlayoutInv, PlayoutType
  <2>2. \A q \in Pts : played[q] = 0 \/ (played[q] = 1 /\ q <= p)
    BY <1>1, PtsAreNumbers DEF PlayoutInv, PlayedIsBehind
  <2>3. p \in DOMAIN buffer => played[p] = 0
    <3>1. p \in DOMAIN buffer => ~(p <= last)
      BY <1>1 DEF PlayoutInv, BufferIsAhead
    <3> QED
      BY <3>1 DEF PlayoutInv, PlayedIsBehind
  <2>4. played' = IF p \in DOMAIN buffer THEN [played EXCEPT ![p] = @ + 1] ELSE played
    BY DEF TakeForPlayout
  <2> QED
    BY <1>1, <2>1, <2>2, <2>3, <2>4 DEF PlayedIsBehind
<1>7. PlayoutType'
  BY <1>1, <1>2, <1>6 DEF PlayoutInv, PlayoutType
<1> QED
  BY <1>4, <1>5, <1>6, <1>7 DEF PlayoutInv

(* expire_before drops too, and leaves the clock.                           *)
LEMMA ExpireBeforeStep ==
  ASSUME PlayoutInv, NEW p \in Pts, ExpireBefore(p)
  PROVE  PlayoutInv'
<1>1. /\ sent' = sent /\ pts' = pts /\ Sent' = Sent /\ last' = last /\ played' = played
      /\ DOMAIN assembly' \subseteq DOMAIN assembly
      /\ DOMAIN buffer' \subseteq DOMAIN buffer
      /\ \A q \in DOMAIN buffer' : buffer'[q] = buffer[q]
  <2> DEFINE late == {n \in DOMAIN assembly : pts[n] < p}
             gone == {q \in DOMAIN buffer : q < p}
  <2>1. /\ assembly' = Without(assembly, late) /\ buffer' = Without(buffer, gone)
        /\ sent' = sent /\ pts' = pts /\ last' = last /\ played' = played
    BY DEF ExpireBefore, DropInFlight, vars
  <2> HIDE DEF late, gone
  <2>2. DOMAIN assembly' = DOMAIN assembly \ late
    BY <2>1, WithoutIs
  <2>3. DOMAIN buffer' = DOMAIN buffer \ gone /\ \A q \in DOMAIN buffer \ gone : buffer'[q] = buffer[q]
    BY <2>1, WithoutIs
  <2> QED
    BY <2>1, <2>2, <2>3 DEF Sent
<1> QED
  BY <1>1 DEF PlayoutInv, PlayoutType, AssembliesAreAhead, BufferIsAhead, PlayedIsBehind

-----------------------------------------------------------------------------
(* What the session promises to the playout clock.                          *)

(* Every step keeps the invariant.                                          *)
LEMMA PlayoutNext == ASSUME TypeOK, PlayoutInv, [SessionNext]_sessionVars PROVE PlayoutInv'
<1>1. ASSUME NEW step \in PtsSteps, NEW k \in Shards, EncodeEpochAt(step, k) PROVE PlayoutInv'
  <2>1. /\ sent' \in Seq([id : Ids, k : Shards]) /\ pts' \in Seq(Nat) /\ Len(pts') = Len(sent')
        /\ Sent \subseteq Sent' /\ \A n \in Sent : pts'[n] = pts[n]
    BY <1>1, SentGrows DEF PlayoutInv, TypeOK
  <2>2. UNCHANGED <<assembly, buffer, last, played>>
    BY <1>1 DEF EncodeEpochAt, receiver, outcomes
  <2> QED
    BY <2>1, <2>2 DEF PlayoutInv, PlayoutType, AssembliesAreAhead, BufferIsAhead, PlayedIsBehind
<1>2. ASSUME UNCHANGED <<sent, pts, assembly, buffer, last, played>> PROVE PlayoutInv'
  BY <1>2 DEF PlayoutInv, PlayoutType, AssembliesAreAhead, BufferIsAhead, PlayedIsBehind, Sent
<1>3. ASSUME NEW n \in Sent, NEW esi \in 0..sent[n].k+RepairCount-1, Receive(n, esi) PROVE PlayoutInv'
  <2>1. UNCHANGED <<sent, pts, last, played>>
    BY <1>3 DEF Receive, PushArrival
  <2>2. \/ UNCHANGED <<assembly, buffer>>
        \/ ~IsLate(pts[n]) /\ \E shards : Assemble(n, shards)
    BY <1>3 DEF Receive
  <2> QED
    BY <1>2, <2>1, <2>2, AssembleStep
<1>4. ASSUME NEW p \in Pts, TakeForPlayout(p) PROVE PlayoutInv'
  BY <1>4, PlayoutStep
<1>5. ASSUME NEW p \in Pts, ExpireBefore(p) PROVE PlayoutInv'
  BY <1>5, ExpireBeforeStep
<1>6. CASE UNCHANGED sessionVars
  BY <1>2, <1>6 DEF sessionVars, vars, receiver, outcomes
<1> QED
  BY <1>1, <1>3, <1>4, <1>5, <1>6 DEF SessionNext

(* At the start.                                                            *)
LEMMA PlayoutInit == ASSUME SessionInit PROVE PlayoutInv
<1>1. /\ sent = <<>> /\ pts = <<>> /\ DOMAIN assembly = {} /\ DOMAIN buffer = {}
      /\ last = NeverPlayed /\ played = [p \in Pts |-> 0]
  BY DEF SessionInit, Init
<1> QED
  BY <1>1 DEF PlayoutInv, PlayoutType, AssembliesAreAhead, BufferIsAhead, PlayedIsBehind

(* Nothing is kept for a moment that the clock has reached, and no pts is   *)
(* played twice, whatever comes late and however representations share pts. *)
THEOREM PlayoutIsAhead == SessionSpec => []NothingPlayedIsHeld
<1>1. SessionInit => TypeOK /\ PlayoutInv
  BY InitType, PlayoutInit DEF SessionInit
<1>2. TypeOK /\ PlayoutInv /\ [SessionNext]_sessionVars => (TypeOK /\ PlayoutInv)'
  BY NextType, SessionStep, PlayoutNext
<1>3. PlayoutInv => NothingPlayedIsHeld
  <2>1. PlayedIsBehind => \A p \in Pts : played[p] <= 1
    BY DEF PlayedIsBehind
  <2> QED
    BY <2>1 DEF PlayoutInv, AssembliesAreAhead, BufferIsAhead, NothingPlayedIsHeld
<1> QED
  BY <1>1, <1>2, <1>3, PTL DEF SessionSpec

-----------------------------------------------------------------------------
(* The assemblies and the ids that are ignored.                             *)

(* The window of the ignored ids, as the one of the closed ones: the limits *)
(* leave room for what can come while the datagrams of an epoch can, and    *)
(* for the assemblies that are dropped meanwhile.                           *)
SessionSetting == Setting /\ 2 * Delay + MaxAssembling <= MaxIgnored

(* What is assembled, what is ignored, and what nothing may be gathered of. *)
Tells(flying, queue, finished, top) ==
  /\ IsFiniteSet(flying) /\ Cardinality(flying) <= MaxAssembling
  /\ queue \in Seq(Nat) /\ IsInjective(queue) /\ Len(queue) <= MaxIgnored
  /\ Window(flying, queue, finished, top, MaxAssembling - 1)

(* Epochs are told by their ordinals; order stands for inflight.            *)
QueuesAreTrue ==
  /\ order \in Seq(Nat) /\ IsInjective(order) /\ Len(order) <= MaxAssembling
  /\ Range(order) = DOMAIN assembly
  /\ dropped \subseteq Sent /\ decoded \subseteq Sent

CountsAreTrue ==
  /\ completed \in [Epochs -> Nat] /\ groups \in [Epochs -> [Groups -> Nat]]
  /\ \A n \in Epochs \ Sent : completed[n] = 0
  /\ \A n \in Epochs, g \in Groups :
       groups[n][g] = 0 \/ (groups[n][g] = 1 /\ ShardsOfGroup(g) \subseteq Returned(n))

(* What became of an epoch: one of four.                                    *)
IsAssembled(n) ==
  /\ n \in DOMAIN assembly /\ n \notin dropped /\ completed[n] = 0
  /\ assembly[n] = Returned(n) /\ Returned(n) # AllShards(n)

IsUntouched(n) ==
  n \notin DOMAIN assembly /\ n \notin dropped /\ completed[n] = 0 /\ Returned(n) = {}

IsCompleted(n) ==
  n \notin DOMAIN assembly /\ n \notin dropped /\ completed[n] = 1 /\ Returned(n) = AllShards(n)

IsDropped(n) == n \notin DOMAIN assembly /\ n \in dropped /\ completed[n] = 0

IsTold(n) ==
  /\ IsAssembled(n) \/ IsUntouched(n) \/ IsCompleted(n) \/ IsDropped(n)
  /\ Returned(n) \subseteq AllShards(n)
  /\ n \in decoded => Returned(n) = AllShards(n)

EpochsAreTold == \A n \in Sent : IsTold(n)

(* The epochs of which a shard may not start another assembly: those that   *)
(* are ignored, and those given up that the clock does not stop.            *)
Silenced == Range(ignored) \cup {n \in dropped : ~IsLate(pts[n])}

IgnoredAreRemembered == Tells(DOMAIN assembly, ignored, Silenced, Len(sent))

AssemblyInv == QueuesAreTrue /\ CountsAreTrue /\ EpochsAreTold /\ IgnoredAreRemembered

-----------------------------------------------------------------------------
(* The window of the ignored ids.                                           *)

(* The limits are numbers.                                                  *)
LEMMA SessionNumbers ==
  MaxAssembling \in Nat /\ MaxAssembling >= 1 /\ MaxIgnored \in Nat /\ MaxIgnored >= 1
BY SessionAssumption

(* Less in flight, and less that is finished, needs no more room.           *)
LEMMA TellsLess ==
  ASSUME NEW flying, NEW queue, NEW finished, NEW top, Tells(flying, queue, finished, top),
         NEW fewer \in SUBSET flying, NEW rest \in SUBSET finished, Range(queue) \subseteq rest
  PROVE  Tells(fewer, queue, rest, top)
<1>1. /\ IsFiniteSet(fewer) /\ Cardinality(fewer) <= Cardinality(flying)
      /\ Cardinality(fewer) \in Nat /\ Cardinality(flying) \in Nat
  BY FS_Subset, FS_CardinalityType DEF Tells
<1>2. \A x : IsFiniteSet(Behind(queue, x))
  <2>1. IsFiniteSet(Range(queue))
    BY RangeIs DEF Tells
  <2>2. \A x : Behind(queue, x) \subseteq Range(queue)
    BY DEF Behind, Range
  <2> QED
    BY <2>1, <2>2, FS_Subset
<1>3. ASSUME NEW x \in rest, top <= x + Delay
      PROVE  x \in Range(queue) /\ Cardinality(Older(fewer, queue, x)) <= MaxAssembling - 1
  <2>1. x \in Range(queue) /\ Cardinality(Older(flying, queue, x)) <= MaxAssembling - 1
    BY <1>3 DEF Tells, Window
  <2>2. IsFiniteSet(flying \cup Behind(queue, x))
    BY <1>2, FS_Union DEF Tells
  <2>3. IsFiniteSet(Older(flying, queue, x))
    BY <2>2, FS_Subset DEF Older
  <2>4. Older(fewer, queue, x) \subseteq Older(flying, queue, x)
    BY DEF Older
  <2>5. /\ Cardinality(Older(fewer, queue, x)) <= Cardinality(Older(flying, queue, x))
        /\ Cardinality(Older(fewer, queue, x)) \in Nat /\ Cardinality(Older(flying, queue, x)) \in Nat
    BY <2>3, <2>4, FS_Subset, FS_CardinalityType
  <2> QED
    BY <2>1, <2>5, SessionNumbers
<1>4. /\ fewer \cup rest \subseteq 0..top /\ fewer \cap rest = {}
  BY DEF Tells, Window
<1>5. Window(fewer, queue, rest, top, MaxAssembling - 1)
  BY <1>3, <1>4 DEF Window
<1> QED
  BY <1>1, <1>5, SessionNumbers DEF Tells

(* drop_inflight of one epoch.                                              *)
LEMMA DropOne ==
  ASSUME SessionSetting, NEW top \in Int, NEW flying, NEW queue, NEW finished,
         Tells(flying, queue, finished, top), NEW x \in flying
  PROVE  Tells(flying \ {x}, RememberIgnored(queue, x), finished \cup {x}, top)
<1>1. /\ IsFiniteSet(flying) /\ queue \in Seq(Nat) /\ IsInjective(queue) /\ Len(queue) <= MaxIgnored
      /\ Window(flying, queue, finished, top, MaxAssembling - 1)
  BY DEF Tells
<1>2. /\ MaxAssembling - 1 \in Nat /\ 2 * Delay + (MaxAssembling - 1) < MaxIgnored
  BY SessionNumbers, Numbers DEF SessionSetting
<1>3. x \in 0..top /\ x \in Nat /\ x \notin finished /\ x \notin Range(queue)
  BY <1>1 DEF Window
<1>4. RememberIgnored(queue, x) = Remember(MaxIgnored, queue, x)
  BY DEF RememberIgnored, Remember
<1>5. /\ IsFiniteSet(flying \ {x}) /\ Cardinality(flying \ {x}) \in Nat
      /\ Cardinality(flying \ {x}) <= MaxAssembling - 1
  <2>1. IsFiniteSet(flying \ {x}) /\ Cardinality(flying \ {x}) = Cardinality(flying) - 1
    BY <1>1, FS_RemoveElement
  <2> QED
    BY <2>1, <1>1, FS_CardinalityType, SessionNumbers DEF Tells
<1>6. Cardinality({y \in flying \ {x} : y < x - Delay}) <= MaxAssembling - 1
  <2> DEFINE older == {y \in flying \ {x} : y < x - Delay}
  <2>1. Cardinality(older) <= Cardinality(flying \ {x}) /\ Cardinality(older) \in Nat
    <3>1. older \subseteq flying \ {x}
      OBVIOUS
    <3> HIDE DEF older
    <3> QED
      BY <1>5, <3>1, FS_Subset, FS_CardinalityType
  <2> QED
    BY <1>2, <1>5, <2>1
<1>7. Window(flying \ {x}, Remember(MaxIgnored, queue, x), finished \cup {x}, top, MaxAssembling - 1)
  <2>1. Nat \in SUBSET Nat
    OBVIOUS
  <2> QED
    BY <1>1, <1>2, <1>3, <1>6, <2>1, SessionNumbers, WindowRemembers
<1>8. Remembers(MaxIgnored, Nat, queue, x, Remember(MaxIgnored, queue, x))
  BY <1>1, <1>3, SessionNumbers, RememberNew
<1> QED
  BY <1>4, <1>5, <1>7, <1>8, SessionNumbers DEF Tells, Remembers

(* remember_ignored, of any queue.                                          *)
LEMMA RememberIgnoredType ==
  ASSUME NEW queue \in Seq(Nat), NEW x \in Nat
  PROVE  RememberIgnored(queue, x) \in Seq(Nat)
<1>1. Len(queue) >= MaxIgnored => queue # <<>>
  BY SessionNumbers
<1> QED
  BY <1>1 DEF RememberIgnored

(* Dropping epochs one after the other.                                     *)
LEMMA DropsUnfold ==
  ASSUME NEW n \in Nat, NEW drops \in [1..n -> Nat], NEW queue \in Seq(Nat)
  PROVE  \E q : /\ q[0] = queue /\ FoldLeft(RememberIgnored, queue, drops) = q[n]
               /\ \A i \in 0..n-1 : q[i+1] = RememberIgnored(q[i], drops[i+1])
<1> DEFINE step == [p \in (1..n) \X Seq(Nat) |-> RememberIgnored(p[2], drops[p[1]])]
           iter == CHOOSE f : f = [s \in SUBSET (DOMAIN drops) |->
                      IF s = {} THEN queue ELSE RememberIgnored(f[s \ {Max(s)}], drops[Max(s)])]
<1>1. FoldLeft(RememberIgnored, queue, drops) = iter[DOMAIN drops] /\ DOMAIN drops = 1..n
  BY DEF FoldLeft, MapThenFoldSet
<1>2. step \in [(1..n) \X Seq(Nat) -> Seq(Nat)]
  <2>1. \A p \in (1..n) \X Seq(Nat) : RememberIgnored(p[2], drops[p[1]]) \in Seq(Nat)
    <3> TAKE p \in (1..n) \X Seq(Nat)
    <3>1. p[2] \in Seq(Nat) /\ drops[p[1]] \in Nat
      OBVIOUS
    <3> QED
      BY <3>1, RememberIgnoredType
  <2> QED
    BY <2>1
<1>3. PICK g \in [SUBSET (1..n) -> Seq(Nat)] : IsFold(n, queue, step, g)
  <2> HIDE DEF step
  <2> QED
    BY <1>2, FoldExists
<1>4. g = [s \in SUBSET (DOMAIN drops) |->
             IF s = {} THEN queue ELSE RememberIgnored(g[s \ {Max(s)}], drops[Max(s)])]
  <2>1. ASSUME NEW s \in SUBSET (1..n), s # {}
        PROVE  step[<<Max(s), g[s \ {Max(s)}]>>] = RememberIgnored(g[s \ {Max(s)}], drops[Max(s)])
    <3>1. Max(s) \in 1..n /\ g[s \ {Max(s)}] \in Seq(Nat)
      BY <2>1, MaxOfNumbers
    <3> QED
      BY <3>1
  <2> HIDE DEF step
  <2> QED
    BY <1>1, <1>3, <2>1 DEF IsFold
<1>5. iter = [s \in SUBSET (DOMAIN drops) |->
                IF s = {} THEN queue ELSE RememberIgnored(iter[s \ {Max(s)}], drops[Max(s)])]
  BY <1>4
<1> HIDE DEF iter, step
<1>6. iter[1..0] = queue
  <2>1. 1..0 = {} /\ {} \in SUBSET (DOMAIN drops)
    OBVIOUS
  <2>2. iter[{}] = queue
    BY <1>5, <2>1
  <2> QED
    BY <2>1, <2>2
<1>7. ASSUME NEW i \in 0..n-1 PROVE iter[1..i+1] = RememberIgnored(iter[1..i], drops[i+1])
  <2>1. 1..i+1 \subseteq 1..n /\ i + 1 \in 1..i+1 /\ i \in Nat
    OBVIOUS
  <2>2. Max(1..i+1) = i + 1 /\ (1..i+1) \ {i + 1} = 1..i
    BY <2>1, IntervalTop
  <2>3. 1..i+1 \in SUBSET (DOMAIN drops) /\ 1..i+1 # {}
    BY <1>1, <2>1
  <2>4. ASSUME NEW s \in SUBSET (DOMAIN drops), s # {}
        PROVE  iter[s] = RememberIgnored(iter[s \ {Max(s)}], drops[Max(s)])
    BY <1>5, <2>4
  <2>5. iter[1..i+1] = RememberIgnored(iter[(1..i+1) \ {Max(1..i+1)}], drops[Max(1..i+1)])
    BY <2>3, <2>4
  <2> QED
    BY <2>2, <2>5
<1> DEFINE q == [i \in 0..n |-> iter[1..i]]
<1>8. /\ q[0] = queue /\ q[n] = iter[1..n]
      /\ \A i \in 0..n-1 : q[i+1] = iter[1..i+1] /\ q[i] = iter[1..i]
  BY <1>6
<1> HIDE DEF q
<1> QED
  BY <1>1, <1>7, <1>8

(* drop_inflight of several epochs, in any order.                           *)
LEMMA DropMany ==
  ASSUME SessionSetting, NEW top \in Int, NEW flying, NEW queue, NEW finished,
         Tells(flying, queue, finished, top), NEW epochs \in SUBSET flying,
         NEW drops \in SetToSeqs(epochs)
  PROVE  Tells(flying \ epochs, FoldLeft(RememberIgnored, queue, drops), finished \cup epochs, top)
<1>1. IsFiniteSet(epochs) /\ epochs \subseteq Nat /\ queue \in Seq(Nat)
  BY FS_Subset DEF Tells, Window
<1>2. PICK n \in Nat : n = Cardinality(epochs)
  BY <1>1, FS_CardinalityType
<1>3. drops \in [1..n -> epochs] /\ \A i, j \in 1..n : i # j => drops[i] # drops[j]
  BY <1>2 DEF SetToSeqs
<1>4. drops \in [1..n -> Nat]
  BY <1>1, <1>3
<1>5. PICK q : /\ q[0] = queue /\ FoldLeft(RememberIgnored, queue, drops) = q[n]
               /\ \A i \in 0..n-1 : q[i+1] = RememberIgnored(q[i], drops[i+1])
  BY <1>1, <1>4, DropsUnfold
<1> DEFINE first(i) == {drops[j] : j \in 1..i}
           S == {i \in Nat : i <= n => Tells(flying \ first(i), q[i], finished \cup first(i), top)}
<1>6. 0 \in S
  <2>1. flying \ first(0) = flying /\ finished \cup first(0) = finished
    OBVIOUS
  <2> QED
    BY <1>5, <2>1
<1>7. ASSUME NEW i \in Nat, i \in S PROVE i + 1 \in S
  <2> SUFFICES ASSUME i + 1 <= n PROVE Tells(flying \ first(i+1), q[i+1], finished \cup first(i+1), top)
    OBVIOUS
  <2>1. i \in 0..n-1 /\ i + 1 \in 1..n /\ \A j \in 1..i : j \in 1..n /\ j # i + 1
    OBVIOUS
  <2>2. drops[i+1] \in flying \ first(i)
    BY <1>3, <2>1
  <2>3. first(i+1) = first(i) \cup {drops[i+1]}
    <3>1. 1..i+1 = (1..i) \cup {i+1}
      OBVIOUS
    <3> QED
      BY <3>1
  <2>4. Tells(flying \ first(i), q[i], finished \cup first(i), top)
    BY <1>7, <2>1
  <2> HIDE DEF first
  <2>5. Tells((flying \ first(i)) \ {drops[i+1]}, RememberIgnored(q[i], drops[i+1]),
              (finished \cup first(i)) \cup {drops[i+1]}, top)
    BY <2>2, <2>4, DropOne
  <2>6. /\ (flying \ first(i)) \ {drops[i+1]} = flying \ first(i+1)
        /\ (finished \cup first(i)) \cup {drops[i+1]} = finished \cup first(i+1)
    BY <2>3
  <2>7. q[i+1] = RememberIgnored(q[i], drops[i+1])
    BY <1>5, <2>1
  <2> QED
    BY <2>5, <2>6, <2>7
<1>8. n \in S
  <2> HIDE DEF S
  <2> QED
    BY <1>6, <1>7, Induction
<1>9. first(n) = epochs
  <2>1. drops \in Seq(epochs) /\ Len(drops) = n
    BY <1>3
  <2>2. Range(drops) = first(n) /\ Range(drops) \subseteq epochs /\ Cardinality(Range(drops)) = n
    <3>1. IsInjective(drops)
      BY <1>3, <2>1, RangeIs
    <3> QED
      BY <2>1, <3>1, RangeIs
  <2> HIDE DEF first
  <2> QED
    BY <1>1, <1>2, <2>2, FS_Subset
<1>10. Tells(flying \ first(n), q[n], finished \cup first(n), top)
  BY <1>8
<1> QED
  BY <1>5, <1>9, <1>10

-----------------------------------------------------------------------------
(* What the decoder returns to the session.                                 *)

(* What a datagram of epoch n makes the decoder return.                     *)
Fresh(n) == {i \in ShardIndices : returned'[n][i] > returned[n][i]}

(* It is new, and of the epoch; the whole of it, if the block closes, which *)
(* it does not once the epoch is whole.                                     *)
Brings(n) ==
  /\ Deliverable(n) /\ sent' = sent
  /\ Fresh(n) \subseteq AllShards(n) /\ Returned(n)' = Returned(n) \cup Fresh(n)
  /\ \A m \in Epochs \ {n} : Returned(m)' = Returned(m)
  /\ AllShards(n) \subseteq Returned(n) => Fresh(n) = {}
  /\ sent[n].id \in Range(audio'.completed) \ Range(audio.completed) => AllShards(n) \subseteq Returned(n)'

(* An epoch is whole when all its shards were returned.                     *)
LEMMA WholeIs ==
  ASSUME TypeOK, NEW n \in Sent
  PROVE  /\ Whole(n) <=> AllShards(n) \subseteq Returned(n)
         /\ AllShards(n) \subseteq ShardIndices /\ AllShards(n) # {}
<1>1. AllShards(n) \subseteq ShardIndices /\ 0 \in AllShards(n)
  BY SentEpoch DEF AllShards
<1> QED
  BY <1>1 DEF Whole, AllShards, Returned

(* push_datagram returns shards of its block.                               *)
LEMMA ShardsOfTheBlock ==
  ASSUME NEW a, AudioType(a), NEW p \in [id : Ids, k : Nat, esi : Nat], NEW o \in PushAudio(a, p)
  PROVE  o.shards \subseteq 0..p.k-1
<1>1. SourceShard(p) \subseteq 0..p.k-1
  BY DEF SourceShard
<1>2. ASSUME NEW d, TakenIn(a, p, o, d) PROVE o.shards \subseteq SourceShard(p)
  BY <1>2 DEF TakenIn
<1>3. Ignored(a, p, o) \/ Refused(a, p, o) \/ Decoded(a, p, o) => o.shards \subseteq 0..p.k-1
  BY DEF Ignored, Refused, Decoded
<1> QED
  BY <1>1, <1>2, <1>3, PushAudioCases

(* What the decoder returns of an epoch.                                    *)
LEMMA ArrivalBrings ==
  ASSUME Setting, IInv, IInv', NEW n \in Sent, NEW esi \in Nat, PushArrival(n, esi)
  PROVE  Brings(n)
<1>1. Deliverable(n) /\ TypeOK /\ TypeOK' /\ IdsAreOrdinals /\ AudioType(audio)
  BY DEF PushArrival, IInv, TypeOK
<1>2. PICK o \in PushAudio(audio, Datagram(n, esi)) : Arrives(n, esi, o)
  BY DEF PushArrival, Datagram, Arrives
<1>3. /\ n \in Epochs /\ Datagram(n, esi) \in [id : Ids, k : Nat, esi : Nat]
      /\ \A i \in ShardIndices :
           returned'[n][i] = IF i \in o.shards THEN returned[n][i] + 1 ELSE returned[n][i]
      /\ \A m \in Epochs \ {n} : returned'[m] = returned[m]
      /\ n \in givenUp' <=> n \in givenUp
      /\ Sent' = Sent
  BY <1>1, <1>2, ArrivesElsewhere
<1>4. sent' = sent /\ AllShards(n) = 0..Datagram(n, esi).k-1
  BY <1>2 DEF Arrives, AllShards, Datagram
<1>5. o.shards \subseteq AllShards(n)
  BY <1>1, <1>3, <1>4, ShardsOfTheBlock
<1>6. AllShards(n) \subseteq ShardIndices
  BY <1>1, WholeIs
<1>7. \A i \in ShardIndices : returned[n][i] \in Nat
  BY <1>1, <1>3 DEF TypeOK
<1>8. Fresh(n) = o.shards
  BY <1>3, <1>5, <1>6, <1>7 DEF Fresh
<1>9. Returned(n)' = Returned(n) \cup Fresh(n)
  BY <1>3, <1>5, <1>6, <1>7, <1>8 DEF Returned
<1>10. \A m \in Epochs \ {n} : Returned(m)' = Returned(m)
  BY <1>3 DEF Returned
<1>11. AllShards(n) \subseteq Returned(n) => Fresh(n) = {}
  <2> SUFFICES ASSUME AllShards(n) \subseteq Returned(n) PROVE returned' = returned
    BY <1>7 DEF Fresh
  <2>1. Finished(n)
    BY <1>1, WholeIs DEF Finished
  <2> QED
    BY <1>1, <2>1, PushStep
<1>12. ASSUME sent[n].id \in Range(audio'.completed) \ Range(audio.completed)
       PROVE  AllShards(n) \subseteq Returned(n)'
  <2>1. sent[n].id \in FinishedIds'
    <3>1. Range(audio.completed)' \subseteq FinishedIds'
      <4>1. ClosedWindow(Range(audio.inFlight)', audio.completed', FinishedIds', Top')
        BY DEF IInv
      <4> QED
        BY <4>1, ClosedAre
    <3> QED
      BY <1>12, <3>1
  <2>2. PICK m \in Sent : Finished(m)' /\ sent[m].id = sent[n].id
    BY <1>3, <1>4, <2>1 DEF FinishedIds
  <2>3. Finished(n)'
    <3>1. m = n
      BY <1>1, <2>2, EpochIds
    <3> QED
      BY <2>2, <3>1
  <2>4. n \notin givenUp
    <3> SUFFICES ASSUME n \in givenUp PROVE sent[n].id \in Range(audio.completed)
      BY <1>12
    <3>1. sent[n].id \in FinishedIds /\ Top <= sent[n].id + Delay
      BY <1>1, EpochIds, FinishedById DEF Finished
    <3> QED
      BY <3>1, ClosedAre DEF IInv
  <2>5. \A i \in 0..sent[n].k-1 : returned'[n][i] > 0
    BY <1>3, <1>4, <2>3, <2>4 DEF Finished, Whole
  <2> QED
    BY <1>6, <2>5 DEF AllShards, Returned
<1> QED
  BY <1>1, <1>4, <1>5, <1>8, <1>9, <1>10, <1>11, <1>12 DEF Brings

-----------------------------------------------------------------------------
(* The steps of the session.                                                *)

(* VecDeque::retain.                                                        *)
LEMMA RetainedIs ==
  ASSUME NEW queue \in Seq(Nat), IsInjective(queue), NEW gone
  PROVE  /\ Retained(queue, gone) \in Seq(Nat) /\ IsInjective(Retained(queue, gone))
         /\ Range(Retained(queue, gone)) = Range(queue) \ gone
         /\ Len(Retained(queue, gone)) <= Len(queue)
         /\ \A x \in Range(queue) : x \in gone => Len(Retained(queue, gone)) <= Len(queue) - 1
<1> DEFINE rest == Retained(queue, gone)
<1>1. rest = Kept(queue, gone)
  BY DEF Retained, Kept
<1> HIDE DEF rest
<1>2. /\ rest \in Seq(Nat) /\ IsInjective(rest) /\ Range(rest) = Range(queue) \ gone
      /\ Len(rest) <= Len(queue)
  BY <1>1, RetainKeeps
<1>3. ASSUME NEW x \in Range(queue), x \in gone PROVE Len(rest) <= Len(queue) - 1
  <2>1. /\ IsFiniteSet(Range(queue)) /\ Cardinality(Range(queue)) = Len(queue)
        /\ Cardinality(Range(rest)) = Len(rest)
    BY <1>2, RangeIs
  <2>2. Range(rest) # Range(queue) /\ Range(rest) \subseteq Range(queue)
    BY <1>2, <1>3
  <2>3. Len(rest) # Len(queue)
    BY <2>1, <2>2, FS_Subset
  <2> QED
    BY <1>2, <2>3
<1> QED
  BY <1>2, <1>3 DEF rest

(* What the invariants say of the session's epochs.                         *)
LEMMA SessionEpochs ==
  ASSUME IInv, PlayoutInv, AssemblyInv
  PROVE  /\ DOMAIN assembly \subseteq Sent /\ Sent \subseteq Epochs /\ Sent = 1..Len(sent)
         /\ Len(sent) \in Nat /\ dropped \subseteq Sent /\ decoded \subseteq Sent
         /\ Range(ignored) \subseteq Silenced /\ Silenced \cap DOMAIN assembly = {}
<1>1. Sent \subseteq Epochs
  BY SentEpoch DEF IInv
<1>2. Silenced \cap DOMAIN assembly = {}
  BY DEF AssemblyInv, IgnoredAreRemembered, Tells, Window
<1> QED
  BY <1>1, <1>2 DEF IInv, TypeOK, PlayoutInv, PlayoutType, AssemblyInv, QueuesAreTrue, Silenced, Sent

(* take_for_playout and expire_before give up assemblies, and remember them *)
(* as ignored; the clock only makes more epochs late.                       *)
LEMMA DropStep ==
  ASSUME SessionSetting, IInv, PlayoutInv, AssemblyInv, NEW epochs \in SUBSET DOMAIN assembly,
         DropInFlight(epochs), UNCHANGED <<sent, returned, pts, decoded, completed, groups>>,
         \A n \in Sent : IsLate(pts[n]) => IsLate(pts[n])'
  PROVE  AssemblyInv'
<1>1. /\ DOMAIN assembly' = DOMAIN assembly \ epochs
      /\ \A n \in DOMAIN assembly' : assembly'[n] = assembly[n]
  <2>1. assembly' = Without(assembly, epochs)
    BY DEF DropInFlight
  <2>2. /\ DOMAIN Without(assembly, epochs) = DOMAIN assembly \ epochs
        /\ \A n \in DOMAIN assembly \ epochs : Without(assembly, epochs)[n] = assembly[n]
    BY WithoutIs
  <2> QED
    BY <2>1, <2>2
<1>2. Sent' = Sent /\ dropped' = dropped \cup epochs /\ order' = Retained(order, epochs)
  BY DEF DropInFlight, Sent
<1>3. /\ DOMAIN assembly \subseteq Sent /\ Len(sent) \in Int /\ dropped \subseteq Sent
  BY SessionEpochs
<1>4. QueuesAreTrue'
  <2>1. order \in Seq(Nat) /\ IsInjective(order) /\ Len(order) <= MaxAssembling
        /\ Range(order) = DOMAIN assembly
    BY DEF AssemblyInv, QueuesAreTrue
  <2>2. /\ order' \in Seq(Nat) /\ IsInjective(order') /\ Len(order') <= Len(order)
        /\ Range(order') = DOMAIN assembly'
    BY <1>1, <1>2, <2>1, RetainedIs
  <2>3. Len(order') <= MaxAssembling
    BY <2>1, <2>2, SessionNumbers
  <2> QED
    BY <1>2, <1>3, <2>2, <2>3 DEF AssemblyInv, QueuesAreTrue
<1>5. \A n : Returned(n)' = Returned(n) /\ AllShards(n)' = AllShards(n)
  BY DEF Returned, AllShards
<1>6. CountsAreTrue'
  BY <1>2, <1>5 DEF AssemblyInv, CountsAreTrue
<1>7. EpochsAreTold'
  <2> SUFFICES ASSUME NEW n \in Sent PROVE IsTold(n)'
    BY <1>2 DEF EpochsAreTold
  <2>1. IsTold(n)
    BY DEF AssemblyInv, EpochsAreTold
  <2>2. IsAssembled(n) => IsAssembled(n)' \/ IsDropped(n)'
    BY <1>1, <1>2, <1>5 DEF IsAssembled, IsDropped
  <2>3. /\ IsUntouched(n) => IsUntouched(n)'
        /\ IsCompleted(n) => IsCompleted(n)'
        /\ IsDropped(n) => IsDropped(n)'
    BY <1>1, <1>2, <1>5 DEF IsUntouched, IsCompleted, IsDropped
  <2> QED
    BY <1>5, <2>1, <2>2, <2>3 DEF IsTold
<1>8. IgnoredAreRemembered'
  <2>1. PICK drops \in SetToSeqs(epochs) : ignored' = FoldLeft(RememberIgnored, ignored, drops)
    BY DEF DropInFlight
  <2>2. Tells(DOMAIN assembly, ignored, Silenced, Len(sent))
    BY DEF AssemblyInv, IgnoredAreRemembered
  <2>3. Tells(DOMAIN assembly \ epochs, ignored', Silenced \cup epochs, Len(sent))
    BY <1>3, <2>1, <2>2, DropMany
  <2>4. Range(ignored') \subseteq Silenced \cup epochs
    BY <2>3 DEF Tells, Window
  <2>5. Silenced' \subseteq Silenced \cup epochs /\ Range(ignored') \subseteq Silenced'
    BY <1>2, <1>3, <2>4 DEF Silenced
  <2>6. Tells(DOMAIN assembly', ignored', Silenced', Len(sent))
    BY <1>1, <2>3, <2>5, TellsLess
  <2> QED
    BY <2>6 DEF IgnoredAreRemembered
<1> QED
  BY <1>4, <1>6, <1>7, <1>8 DEF AssemblyInv

(* encode_epoch: nothing came of the new epoch, and the others are as they  *)
(* were.                                                                    *)
LEMMA EncodeAtStep ==
  ASSUME SessionSetting, IInv, PlayoutInv, AssemblyInv,
         NEW step \in PtsSteps, NEW k \in Shards, EncodeEpochAt(step, k)
  PROVE  AssemblyInv'
<1>1. UNCHANGED <<returned, assembly, order, ignored, last, decoded, completed, groups, dropped>>
  BY DEF EncodeEpochAt, EncodeEpoch, receiver, outcomes
<1>2. /\ sent' = Append(sent, [id |-> blockId, k |-> k]) /\ Len(sent) < MaxEpochs
      /\ sent \in Seq([id : Ids, k : Shards]) /\ blockId \in Ids
  BY DEF EncodeEpochAt, EncodeEpoch, IInv, TypeOK
<1>3. PICK N : N = Len(sent) + 1
  OBVIOUS
<1>4. /\ DOMAIN assembly \subseteq Sent /\ Sent = 1..Len(sent) /\ Len(sent) \in Nat
      /\ Sent \subseteq Epochs /\ dropped \subseteq Sent /\ decoded \subseteq Sent
  BY SessionEpochs
<1>5. /\ Len(sent') = N /\ N \in Int /\ Sent' = Sent \cup {N} /\ N \in Epochs \ Sent
      /\ \A n \in Sent : sent'[n] = sent[n]
  <2>1. Len(sent') = N /\ \A n \in 1..Len(sent) : sent'[n] = sent[n]
    BY <1>2, <1>3
  <2>2. Sent' = 1..N
    BY <2>1 DEF Sent
  <2>3. N \in 1..MaxEpochs
    BY <1>2, <1>3, <1>4, Numbers
  <2> QED
    BY <1>3, <1>4, <2>1, <2>2, <2>3 DEF Epochs
<1>6. \A n \in Sent : pts'[n] = pts[n]
  BY SentGrows DEF IInv, PlayoutInv
<1>7. (\A n : Returned(n)' = Returned(n)) /\ \A n \in Sent : AllShards(n)' = AllShards(n)
  BY <1>1, <1>5 DEF Returned, AllShards
<1>8. QueuesAreTrue'
  BY <1>1, <1>5 DEF AssemblyInv, QueuesAreTrue
<1>9. CountsAreTrue'
  BY <1>1, <1>5, <1>7 DEF AssemblyInv, CountsAreTrue
<1>10. EpochsAreTold'
  <2>1. ASSUME NEW n \in Sent PROVE IsTold(n)'
    <3>1. IsTold(n)
      BY DEF AssemblyInv, EpochsAreTold
    <3> QED
      BY <1>1, <1>7, <3>1 DEF IsTold, IsAssembled, IsUntouched, IsCompleted, IsDropped
  <2>2. IsTold(N)'
    <3>1. Returned(N)' = {}
      BY <1>5, <1>7 DEF IInv, UnsentIsUntouched, Returned
    <3>2. completed[N] = 0
      BY <1>5 DEF AssemblyInv, CountsAreTrue
    <3>3. IsUntouched(N)' /\ N \notin decoded
      BY <1>1, <1>4, <1>5, <3>1, <3>2 DEF IsUntouched
    <3> QED
      BY <1>1, <3>1, <3>3 DEF IsTold
  <2> QED
    BY <1>5, <2>1, <2>2 DEF EpochsAreTold
<1>11. IgnoredAreRemembered'
  <2>1. Silenced' = Silenced
    <3>1. \A n \in dropped : IsLate(pts[n])' <=> IsLate(pts[n])
      BY <1>1, <1>4, <1>6 DEF IsLate
    <3> QED
      BY <1>1, <3>1 DEF Silenced
  <2>2. Tells(DOMAIN assembly, ignored, Silenced, Len(sent))
    BY DEF AssemblyInv, IgnoredAreRemembered
  <2>3. Window(DOMAIN assembly, ignored, Silenced, N, MaxAssembling - 1)
    <3>1. Window(DOMAIN assembly, ignored, Silenced, Len(sent), MaxAssembling - 1)
      BY <2>2 DEF Tells
    <3>2. Len(sent) \in Int /\ Len(sent) <= N
      BY <1>3, <1>4
    <3> QED
      BY <1>5, <3>1, <3>2, WindowGrows
  <2>4. Tells(DOMAIN assembly, ignored, Silenced, N)
    BY <2>2, <2>3 DEF Tells
  <2> QED
    BY <1>1, <1>5, <2>1, <2>4 DEF IgnoredAreRemembered
<1> QED
  BY <1>8, <1>9, <1>10, <1>11 DEF AssemblyInv

(* A datagram of which the decoder returns nothing changes nothing of the   *)
(* session.                                                                 *)
LEMMA NothingBrought ==
  ASSUME SessionSetting, IInv, PlayoutInv, AssemblyInv, NEW n \in Sent, Brings(n), Fresh(n) = {},
         decoded' = decoded \cup {m \in {n} : sent[m].id \in Range(audio'.completed) \ Range(audio.completed)},
         UNCHANGED <<pts, last, assembly, order, ignored, completed, groups, dropped>>
  PROVE  AssemblyInv'
<1>1. /\ sent' = sent /\ Sent' = Sent /\ \A m : AllShards(m)' = AllShards(m)
      /\ \A m \in Epochs : Returned(m)' = Returned(m)
  BY DEF Brings, Sent, AllShards
<1>2. Sent \subseteq Epochs
  BY SessionEpochs
<1>3. IsTold(n)'
  <2>1. IsTold(n)
    BY DEF AssemblyInv, EpochsAreTold
  <2>2. n \in decoded' => n \in decoded \/ AllShards(n) \subseteq Returned(n)'
    BY DEF Brings
  <2> QED
    BY <1>1, <1>2, <2>1, <2>2 DEF IsTold, IsAssembled, IsUntouched, IsCompleted, IsDropped
<1>4. ASSUME NEW m \in Sent, m # n PROVE IsTold(m)'
  <2>1. IsTold(m) /\ (m \in decoded' => m \in decoded)
    BY <1>4 DEF AssemblyInv, EpochsAreTold
  <2> QED
    BY <1>1, <1>2, <2>1 DEF IsTold, IsAssembled, IsUntouched, IsCompleted, IsDropped
<1>5. Silenced' = Silenced
  BY DEF Silenced, IsLate
<1>6. QueuesAreTrue' /\ CountsAreTrue' /\ IgnoredAreRemembered'
  BY <1>1, <1>5 DEF AssemblyInv, QueuesAreTrue, CountsAreTrue, IgnoredAreRemembered
<1> QED
  BY <1>1, <1>3, <1>4, <1>6 DEF AssemblyInv, EpochsAreTold

(* A shard of an epoch that is ignored or late is dropped, and its epoch    *)
(* with it: no assembly has the epoch, and it was not reported whole.       *)
LEMMA DroppedOnArrival ==
  ASSUME SessionSetting, IInv, PlayoutInv, AssemblyInv, NEW n \in Sent, Brings(n), Fresh(n) # {},
         n \in Range(ignored) \/ IsLate(pts[n]),
         decoded' = decoded \cup {m \in {n} : sent[m].id \in Range(audio'.completed) \ Range(audio.completed)},
         dropped' = dropped \cup {n},
         UNCHANGED <<pts, last, assembly, order, ignored, completed, groups>>
  PROVE  AssemblyInv'
<1>1. /\ sent' = sent /\ Sent' = Sent /\ \A m : AllShards(m)' = AllShards(m)
      /\ \A m \in Epochs : m # n => Returned(m)' = Returned(m)
      /\ Returned(n)' = Returned(n) \cup Fresh(n) /\ Fresh(n) \subseteq AllShards(n)
  BY DEF Brings, Sent, AllShards
<1>2. Sent \subseteq Epochs /\ Range(ignored) \subseteq Silenced /\ Silenced \cap DOMAIN assembly = {}
  BY SessionEpochs
<1>3. n \notin DOMAIN assembly
  <2>1. CASE n \in Range(ignored)
    BY <1>2, <2>1
  <2>2. CASE IsLate(pts[n]) /\ n \in DOMAIN assembly
    <3>1. pts[n] \in Nat /\ last \in Int
      BY DEF PlayoutInv, PlayoutType, Sent, NeverPlayed
    <3> QED
      BY <2>2, <3>1 DEF PlayoutInv, AssembliesAreAhead, IsLate
  <2> QED
    BY <2>1, <2>2
<1>4. IsTold(n)'
  <2>1. IsTold(n)
    BY DEF AssemblyInv, EpochsAreTold
  <2>2. ~IsAssembled(n) /\ ~IsCompleted(n)
    BY <1>3 DEF IsAssembled, IsCompleted, Brings
  <2>3. IsDropped(n)'
    BY <1>3, <2>1, <2>2 DEF IsTold, IsUntouched, IsDropped
  <2>4. Returned(n)' \subseteq AllShards(n)
    BY <1>1, <2>1 DEF IsTold
  <2>5. n \in decoded' => Returned(n)' = AllShards(n)
    <3>1. n \in decoded => AllShards(n) \subseteq Returned(n)'
      BY <1>1, <2>1 DEF IsTold
    <3>2. n \in decoded' => n \in decoded \/ AllShards(n) \subseteq Returned(n)'
      BY DEF Brings
    <3> QED
      BY <2>4, <3>1, <3>2
  <2> QED
    BY <1>1, <2>3, <2>4, <2>5 DEF IsTold
<1>5. ASSUME NEW m \in Sent, m # n PROVE IsTold(m)'
  <2>1. IsTold(m) /\ (m \in decoded' => m \in decoded) /\ (m \in dropped' <=> m \in dropped)
    BY <1>5 DEF AssemblyInv, EpochsAreTold
  <2> QED
    BY <1>1, <1>2, <1>5, <2>1 DEF IsTold, IsAssembled, IsUntouched, IsCompleted, IsDropped
<1>6. Silenced' = Silenced
  BY DEF Silenced, IsLate
<1>7. QueuesAreTrue' /\ IgnoredAreRemembered'
  BY <1>1, <1>6 DEF AssemblyInv, QueuesAreTrue, IgnoredAreRemembered
<1>8. CountsAreTrue'
  BY <1>1, <1>2 DEF AssemblyInv, CountsAreTrue
<1> QED
  BY <1>1, <1>4, <1>5, <1>7, <1>8 DEF AssemblyInv, EpochsAreTold

(* An epoch whose shard is taken is open, and its assembly has what was     *)
(* returned of it: were it given up, it would still be ignored.             *)
LEMMA TakenIsOpen ==
  ASSUME SessionSetting, IInv, PlayoutInv, AssemblyInv, NEW n \in Sent, Brings(n), Fresh(n) # {},
         n \notin Range(ignored), ~IsLate(pts[n])
  PROVE  /\ n \notin Silenced /\ Len(sent) <= n + Delay
         /\ IsAssembled(n) \/ IsUntouched(n)
<1>1. n \notin Silenced /\ Len(sent) <= n + Delay
  <2>1. Len(sent) <= n + Delay
    BY DEF Brings, Deliverable
  <2>2. n \in Silenced => n \in Range(ignored)
    BY <2>1 DEF AssemblyInv, IgnoredAreRemembered, Tells, Window
  <2> QED
    BY <2>1, <2>2
<1>2. n \notin dropped
  BY <1>1 DEF Silenced
<1>3. ~IsCompleted(n)
  BY DEF IsCompleted, Brings
<1> QED
  BY <1>1, <1>2, <1>3 DEF AssemblyInv, EpochsAreTold, IsTold, IsDropped

(* Room is made for the assembly of epoch n: what was lost for it, and the  *)
(* queue of the others.                                                     *)
MadeRoom(n, lost, queue) ==
  /\ lost \subseteq DOMAIN assembly /\ n \notin lost
  /\ queue \in Seq(Nat) /\ IsInjective(queue) /\ Len(queue) <= MaxAssembling
  /\ Range(queue) = DOMAIN assembly \ lost
  /\ n \notin DOMAIN assembly => Len(queue) <= MaxAssembling - 1
  /\ Tells(DOMAIN assembly \ lost, ignored', Silenced \cup lost, Len(sent))

(* ensure_inflight_slot.                                                    *)
LEMMA RoomIsMade ==
  ASSUME SessionSetting, IInv, PlayoutInv, AssemblyInv, NEW n \in Sent, NEW shards, Assemble(n, shards)
  PROVE  MadeRoom(n, Evicted(n), Retained(order, Evicted(n)))
<1>1. PICK lost, queue : lost = Evicted(n) /\ queue = Retained(order, lost)
  OBVIOUS
<1>2. /\ order \in Seq(Nat) /\ IsInjective(order) /\ Len(order) <= MaxAssembling /\ Len(order) \in Nat
      /\ Range(order) = DOMAIN assembly
  BY DEF AssemblyInv, QueuesAreTrue
<1>3. /\ queue \in Seq(Nat) /\ IsInjective(queue) /\ Range(queue) = DOMAIN assembly \ lost
      /\ Len(queue) <= Len(order) /\ Len(queue) \in Nat
      /\ \A x \in Range(order) : x \in lost => Len(queue) <= Len(order) - 1
  BY <1>1, <1>2, RetainedIs
<1>4. ignored' = IF lost = {} THEN ignored ELSE RememberIgnored(ignored, Head(order))
  BY <1>1 DEF Assemble
<1>5. Tells(DOMAIN assembly, ignored, Silenced, Len(sent)) /\ Len(sent) \in Int
  BY SessionEpochs DEF AssemblyInv, IgnoredAreRemembered
<1>6. CASE lost = {}
  <2>1. n \notin DOMAIN assembly => ~(Len(order) >= MaxAssembling)
    BY <1>1, <1>6 DEF Evicted
  <2>2. DOMAIN assembly \ lost = DOMAIN assembly /\ Silenced \cup lost = Silenced /\ ignored' = ignored
    BY <1>4, <1>6
  <2>3. Len(queue) <= MaxAssembling /\ (n \notin DOMAIN assembly => Len(queue) <= MaxAssembling - 1)
    BY <1>2, <1>3, <2>1, SessionNumbers
  <2> QED
    BY <1>1, <1>3, <1>5, <1>6, <2>2, <2>3 DEF MadeRoom
<1>7. CASE lost # {}
  <2>1. lost = {Head(order)} /\ n \notin DOMAIN assembly /\ Len(order) >= MaxAssembling
    BY <1>1, <1>7 DEF Evicted
  <2>2. order # <<>>
    BY <2>1, SessionNumbers
  <2>3. Head(order) \in DOMAIN assembly /\ Head(order) # n
    BY <1>2, <2>1, <2>2, TailQueue
  <2>4. Len(queue) <= MaxAssembling - 1 /\ Len(queue) <= MaxAssembling
    BY <1>2, <1>3, <2>1, <2>3, SessionNumbers
  <2>5. Tells(DOMAIN assembly \ lost, ignored', Silenced \cup lost, Len(sent))
    BY <1>4, <1>5, <1>7, <2>1, <2>3, DropOne
  <2> QED
    BY <1>1, <1>3, <2>1, <2>3, <2>4, <2>5 DEF MadeRoom
<1> QED
  BY <1>6, <1>7

(* What Assemble does, when the assembly of n, or the lack of one, has what *)
(* was returned before, and now is what has been returned.                  *)
Assembles(n, lost, queue, before, now) ==
  /\ dropped' = dropped \cup lost
  /\ groups' = [groups EXCEPT ![n] = [g \in Groups |->
       IF ShardsOfGroup(g) \subseteq now /\ ~(ShardsOfGroup(g) \subseteq before) THEN @[g] + 1 ELSE @[g]]]
  /\ \A m \in DOMAIN assembly' : m # n => m \in DOMAIN assembly /\ assembly'[m] = assembly[m]
  /\ \/ /\ now = AllShards(n)
        /\ DOMAIN assembly' = (DOMAIN assembly \ lost) \ {n}
        /\ order' = Retained(queue, {n})
        /\ completed' = [completed EXCEPT ![n] = @ + 1]
     \/ /\ now # AllShards(n)
        /\ DOMAIN assembly' = (DOMAIN assembly \ lost) \cup {n} /\ assembly'[n] = now
        /\ order' = IF n \in DOMAIN assembly THEN queue ELSE Append(queue, n)
        /\ completed' = completed

(* It does that.                                                            *)
LEMMA AssembleIs ==
  ASSUME NEW n, NEW shards, NEW before, NEW now, Assemble(n, shards),
         IsAssembled(n) \/ IsUntouched(n), before = Returned(n), now = before \cup shards
  PROVE  Assembles(n, Evicted(n), Retained(order, Evicted(n)), before, now)
<1>1. before = IF n \in DOMAIN assembly THEN assembly[n] ELSE {}
  BY DEF IsAssembled, IsUntouched
<1>2. PICK lost, queue, kept : lost = Evicted(n) /\ queue = Retained(order, lost) /\ kept = Without(assembly, lost)
  OBVIOUS
<1>3. DOMAIN kept = DOMAIN assembly \ lost /\ \A m \in DOMAIN kept : kept[m] = assembly[m]
  <2>1. /\ DOMAIN Without(assembly, lost) = DOMAIN assembly \ lost
        /\ \A m \in DOMAIN assembly \ lost : Without(assembly, lost)[m] = assembly[m]
    BY WithoutIs
  <2> QED
    BY <1>2, <2>1
<1>4. DOMAIN Without(kept, {n}) = DOMAIN kept \ {n} /\ \A m \in DOMAIN kept \ {n} : Without(kept, {n})[m] = kept[m]
  BY WithoutIs
<1>5. /\ dropped' = dropped \cup lost
      /\ groups' = [groups EXCEPT ![n] = [g \in Groups |->
           IF ShardsOfGroup(g) \subseteq now /\ ~(ShardsOfGroup(g) \subseteq before) THEN @[g] + 1 ELSE @[g]]]
      /\ \/ /\ now = AllShards(n) /\ assembly' = Without(kept, {n})
            /\ order' = Retained(queue, {n}) /\ completed' = [completed EXCEPT ![n] = @ + 1]
         \/ /\ now # AllShards(n)
            /\ assembly' = [m \in DOMAIN kept \cup {n} |-> IF m = n THEN now ELSE kept[m]]
            /\ order' = IF n \in DOMAIN assembly THEN queue ELSE Append(queue, n)
            /\ completed' = completed
  BY <1>1, <1>2 DEF Assemble
<1>6. CASE now = AllShards(n) /\ assembly' = Without(kept, {n})
  BY <1>2, <1>3, <1>4, <1>5, <1>6 DEF Assembles
<1>7. CASE now # AllShards(n) /\ assembly' = [m \in DOMAIN kept \cup {n} |-> IF m = n THEN now ELSE kept[m]]
  BY <1>2, <1>3, <1>5, <1>7 DEF Assembles
<1> QED
  BY <1>5, <1>6, <1>7

(* The queue of the assemblies.                                             *)
LEMMA OrderStep ==
  ASSUME QueuesAreTrue, NEW n \in Nat, NEW lost, NEW queue, MadeRoom(n, lost, queue),
         NEW before, NEW now, Assembles(n, lost, queue, before, now)
  PROVE  /\ order' \in Seq(Nat) /\ IsInjective(order') /\ Len(order') <= MaxAssembling
         /\ Range(order') = DOMAIN assembly'
<1>1. /\ queue \in Seq(Nat) /\ IsInjective(queue) /\ Len(queue) <= MaxAssembling
      /\ Range(queue) = DOMAIN assembly \ lost /\ n \notin lost /\ Len(queue) \in Nat
      /\ n \notin DOMAIN assembly => Len(queue) <= MaxAssembling - 1
  BY DEF MadeRoom
<1>2. CASE DOMAIN assembly' = (DOMAIN assembly \ lost) \ {n} /\ order' = Retained(queue, {n})
  <2>1. /\ order' \in Seq(Nat) /\ IsInjective(order') /\ Len(order') <= Len(queue)
        /\ Range(order') = Range(queue) \ {n}
    BY <1>1, <1>2, RetainedIs
  <2>2. Len(order') <= MaxAssembling
    BY <1>1, <2>1, SessionNumbers
  <2>3. Range(order') = DOMAIN assembly'
    BY <1>1, <1>2, <2>1
  <2> QED
    BY <2>1, <2>2, <2>3
<1>3. CASE /\ DOMAIN assembly' = (DOMAIN assembly \ lost) \cup {n}
           /\ order' = IF n \in DOMAIN assembly THEN queue ELSE Append(queue, n)
  <2>1. CASE n \in DOMAIN assembly
    BY <1>1, <1>3, <2>1
  <2>2. CASE n \notin DOMAIN assembly
    <3>1. /\ Append(queue, n) \in Seq(Nat) /\ Len(Append(queue, n)) = Len(queue) + 1
          /\ Range(Append(queue, n)) = Range(queue) \cup {n} /\ IsInjective(Append(queue, n))
      BY <1>1, <2>2, AppendQueue
    <3> QED
      BY <1>1, <1>3, <2>2, <3>1, SessionNumbers
  <2> QED
    BY <2>1, <2>2
<1> QED
  BY <1>2, <1>3 DEF Assembles

(* How often the completion of an epoch and its groups were reported.       *)
LEMMA CountsStep ==
  ASSUME CountsAreTrue, NEW n \in Sent, Sent \subseteq Epochs, Sent' = Sent, Brings(n),
         NEW lost, NEW queue, Assembles(n, lost, queue, Returned(n), Returned(n)')
  PROVE  CountsAreTrue'
<1>1. /\ completed \in [Epochs -> Nat] /\ groups \in [Epochs -> [Groups -> Nat]] /\ n \in Epochs
      /\ \A m \in Epochs, g \in Groups :
           groups[m][g] = 0 \/ (groups[m][g] = 1 /\ ShardsOfGroup(g) \subseteq Returned(m))
  BY DEF CountsAreTrue
<1>2. completed' \in [Epochs -> Nat] /\ \A m \in Epochs : m # n => completed'[m] = completed[m]
  <2>1. completed' = [completed EXCEPT ![n] = @ + 1] \/ completed' = completed
    BY DEF Assembles
  <2> QED
    BY <1>1, <2>1
<1>3. groups' = [groups EXCEPT ![n] = [g \in Groups |->
        IF ShardsOfGroup(g) \subseteq Returned(n)' /\ ~(ShardsOfGroup(g) \subseteq Returned(n))
        THEN groups[n][g] + 1 ELSE groups[n][g]]]
  BY DEF Assembles
<1>4. groups[n] \in [Groups -> Nat]
  BY <1>1
<1>5. groups' \in [Epochs -> [Groups -> Nat]] /\ \A m \in Epochs : m # n => groups'[m] = groups[m]
  BY <1>1, <1>3, <1>4
<1>6. ASSUME NEW g \in Groups
      PROVE  groups'[n][g] = 0 \/ (groups'[n][g] = 1 /\ ShardsOfGroup(g) \subseteq Returned(n)')
  <2>1. groups'[n][g] =
          IF ShardsOfGroup(g) \subseteq Returned(n)' /\ ~(ShardsOfGroup(g) \subseteq Returned(n))
          THEN groups[n][g] + 1 ELSE groups[n][g]
    BY <1>1, <1>3
  <2>2. Returned(n) \subseteq Returned(n)'
    BY DEF Brings
  <2> QED
    BY <1>1, <2>1, <2>2
<1>7. \A m \in Epochs : m # n => Returned(m)' = Returned(m)
  BY DEF Brings
<1> QED
  BY <1>1, <1>2, <1>5, <1>6, <1>7 DEF CountsAreTrue

(* What became of the epochs, when one of them was taken.                   *)
LEMMA ToldStep ==
  ASSUME CountsAreTrue, EpochsAreTold, NEW n \in Sent, Sent \subseteq Epochs, Sent' = Sent, Brings(n),
         Fresh(n) # {}, n \notin Range(ignored), IsAssembled(n) \/ IsUntouched(n),
         decoded' = decoded \cup {m \in {n} : sent[m].id \in Range(audio'.completed) \ Range(audio.completed)},
         NEW lost, NEW queue, MadeRoom(n, lost, queue), Assembles(n, lost, queue, Returned(n), Returned(n)')
  PROVE  EpochsAreTold'
<1>1. /\ \A m : AllShards(m)' = AllShards(m)
      /\ \A m \in Epochs : m # n => Returned(m)' = Returned(m)
      /\ Returned(n)' = Returned(n) \cup Fresh(n) /\ Fresh(n) \subseteq AllShards(n)
  BY DEF Brings, AllShards
<1>2. lost \subseteq DOMAIN assembly /\ n \notin lost /\ dropped' = dropped \cup lost /\ n \in Epochs
  BY DEF MadeRoom, Assembles
<1>3. completed \in [Epochs -> Nat]
  BY DEF CountsAreTrue
<1>4. IsTold(n)'
  <2>1. IsTold(n) /\ completed[n] = 0 /\ n \notin dropped'
    BY <1>2 DEF EpochsAreTold, IsAssembled, IsUntouched
  <2>2. Returned(n)' \subseteq AllShards(n)
    BY <1>1, <2>1 DEF IsTold
  <2>3. n \in decoded' => Returned(n)' = AllShards(n)
    <3>1. n \in decoded => AllShards(n) \subseteq Returned(n)'
      BY <1>1, <2>1 DEF IsTold
    <3>2. n \in decoded' => n \in decoded \/ AllShards(n) \subseteq Returned(n)'
      BY DEF Brings
    <3> QED
      BY <2>2, <3>1, <3>2
  <2>4. IsAssembled(n)' \/ IsCompleted(n)'
    <3>1. CASE /\ Returned(n)' = AllShards(n) /\ DOMAIN assembly' = (DOMAIN assembly \ lost) \ {n}
               /\ completed' = [completed EXCEPT ![n] = @ + 1]
      <4>1. completed'[n] = 1 /\ n \notin DOMAIN assembly'
        BY <1>2, <1>3, <2>1, <3>1
      <4> QED
        BY <1>1, <2>1, <3>1, <4>1 DEF IsCompleted
    <3>2. CASE /\ Returned(n)' # AllShards(n) /\ DOMAIN assembly' = (DOMAIN assembly \ lost) \cup {n}
               /\ assembly'[n] = Returned(n)' /\ completed' = completed
      <4>1. completed'[n] = 0 /\ n \in DOMAIN assembly' /\ assembly'[n] = Returned(n)'
            /\ Returned(n)' # AllShards(n)'
        BY <1>1, <2>1, <3>2
      <4> QED
        BY <2>1, <4>1 DEF IsAssembled
    <3> QED
      BY <3>1, <3>2 DEF Assembles
  <2> QED
    BY <1>1, <2>2, <2>3, <2>4 DEF IsTold
<1>5. ASSUME NEW m \in Sent, m # n PROVE IsTold(m)'
  <2>1. IsTold(m) /\ (m \in decoded' => m \in decoded) /\ m \in Epochs
    BY <1>5 DEF EpochsAreTold
  <2>2. /\ Returned(m)' = Returned(m) /\ AllShards(m)' = AllShards(m) /\ completed'[m] = completed[m]
        /\ m \in dropped' <=> m \in dropped \/ m \in lost
        /\ m \in DOMAIN assembly' <=> m \in DOMAIN assembly /\ m \notin lost
        /\ m \in DOMAIN assembly' => assembly'[m] = assembly[m]
    <3>1. completed'[m] = completed[m]
      BY <1>2, <1>3, <1>5, <2>1 DEF Assembles
    <3>2. m \in DOMAIN assembly' <=> m \in DOMAIN assembly /\ m \notin lost
      BY <1>5 DEF Assembles
    <3>3. m \in DOMAIN assembly' => assembly'[m] = assembly[m]
      BY <1>5 DEF Assembles
    <3> QED
      BY <1>1, <1>2, <1>5, <2>1, <3>1, <3>2, <3>3
  <2>3. IsAssembled(m) => IsAssembled(m)' \/ IsDropped(m)'
    BY <1>2, <2>2 DEF IsAssembled, IsDropped
  <2>4. /\ IsUntouched(m) => IsUntouched(m)'
        /\ IsCompleted(m) => IsCompleted(m)'
        /\ IsDropped(m) => IsDropped(m)'
    BY <1>2, <2>2 DEF IsUntouched, IsCompleted, IsDropped
  <2> QED
    BY <2>1, <2>2, <2>3, <2>4 DEF IsTold
<1> QED
  BY <1>4, <1>5 DEF EpochsAreTold

(* The ignored ids, when an epoch was taken, and another lost its assembly. *)
LEMMA IgnoredStep ==
  ASSUME SessionSetting, IInv, PlayoutInv, AssemblyInv, UNCHANGED <<sent, pts, last>>,
         NEW n \in Sent, n \notin Silenced, Len(sent) <= n + Delay,
         NEW lost, NEW queue, MadeRoom(n, lost, queue),
         NEW before, NEW now, Assembles(n, lost, queue, before, now)
  PROVE  IgnoredAreRemembered'
<1>1. /\ Tells(DOMAIN assembly \ lost, ignored', Silenced \cup lost, Len(sent))
      /\ n \notin Silenced \cup lost /\ dropped' = dropped \cup lost
  BY DEF MadeRoom, Assembles
<1>2. Len(sent) \in Int /\ n \in 0..Len(sent) /\ MaxAssembling - 1 \in Nat
  BY SessionEpochs, SessionNumbers
<1>3. Window(DOMAIN assembly', ignored', Silenced \cup lost, Len(sent), MaxAssembling - 1)
      \/ DOMAIN assembly' \subseteq DOMAIN assembly \ lost
  <2>1. CASE DOMAIN assembly' = (DOMAIN assembly \ lost) \ {n}
    BY <2>1
  <2>2. CASE DOMAIN assembly' = (DOMAIN assembly \ lost) \cup {n}
    <3>1. PICK kept, silent : kept = DOMAIN assembly \ lost /\ silent = Silenced \cup lost
      OBVIOUS
    <3>2. Window(kept, ignored', silent, Len(sent), MaxAssembling - 1) /\ n \notin silent
      BY <1>1, <3>1 DEF Tells
    <3>3. Window(kept \cup {n}, ignored', silent, Len(sent), MaxAssembling - 1)
      BY <1>2, <3>2, WindowJoins
    <3> QED
      BY <2>2, <3>1, <3>3
  <2> QED
    BY <2>1, <2>2 DEF Assembles
<1>4. Tells(DOMAIN assembly', ignored', Silenced \cup lost, Len(sent))
  <2>1. CASE DOMAIN assembly' \subseteq DOMAIN assembly \ lost
    <3>1. Range(ignored') \subseteq Silenced \cup lost
      BY <1>1 DEF Tells, Window
    <3> QED
      BY <1>1, <2>1, <3>1, TellsLess
  <2>2. CASE Window(DOMAIN assembly', ignored', Silenced \cup lost, Len(sent), MaxAssembling - 1)
    <3>1. /\ order' \in Seq(Nat) /\ IsInjective(order') /\ Len(order') <= MaxAssembling
          /\ Range(order') = DOMAIN assembly'
      BY <1>2, OrderStep DEF AssemblyInv
    <3>2. IsFiniteSet(DOMAIN assembly') /\ Cardinality(DOMAIN assembly') <= MaxAssembling
      BY <3>1, RangeIs
    <3> QED
      BY <1>1, <2>2, <3>2 DEF Tells
  <2> QED
    BY <1>3, <2>1, <2>2
<1>5. Range(ignored') \subseteq Silenced \cup lost
  BY <1>4 DEF Tells, Window
<1>6. Silenced' \subseteq Silenced \cup lost /\ Range(ignored') \subseteq Silenced'
  BY <1>1, <1>5 DEF Silenced, IsLate
<1>7. Tells(DOMAIN assembly', ignored', Silenced', Len(sent))
  BY <1>4, <1>6, TellsLess
<1> QED
  BY <1>7 DEF IgnoredAreRemembered

(* push_datagram, when a shard is taken.                                    *)
LEMMA TakenStep ==
  ASSUME SessionSetting, IInv, PlayoutInv, AssemblyInv, NEW n \in Sent, Brings(n), Fresh(n) # {},
         n \notin Range(ignored), ~IsLate(pts[n]), Assemble(n, Fresh(n)),
         decoded' = decoded \cup {m \in {n} : sent[m].id \in Range(audio'.completed) \ Range(audio.completed)},
         UNCHANGED <<pts, last>>
  PROVE  AssemblyInv'
<1>1. n \notin Silenced /\ Len(sent) <= n + Delay /\ (IsAssembled(n) \/ IsUntouched(n))
  BY TakenIsOpen
<1>2. PICK lost, queue : lost = Evicted(n) /\ queue = Retained(order, lost)
  OBVIOUS
<1>3. MadeRoom(n, lost, queue)
  BY <1>2, RoomIsMade
<1>4. sent' = sent /\ Sent' = Sent /\ Returned(n)' = Returned(n) \cup Fresh(n)
  BY DEF Brings, Sent
<1>5. Assembles(n, lost, queue, Returned(n), Returned(n)')
  BY <1>1, <1>2, <1>4, AssembleIs
<1>6. Sent \subseteq Epochs /\ DOMAIN assembly \subseteq Sent /\ dropped \subseteq Sent /\ decoded \subseteq Sent
      /\ n \in Nat
  BY SessionEpochs DEF Sent
<1>7. QueuesAreTrue'
  <2>1. /\ order' \in Seq(Nat) /\ IsInjective(order') /\ Len(order') <= MaxAssembling
        /\ Range(order') = DOMAIN assembly'
    BY <1>3, <1>5, <1>6, OrderStep DEF AssemblyInv
  <2>2. dropped' \subseteq Sent /\ decoded' \subseteq Sent
    BY <1>3, <1>5, <1>6 DEF MadeRoom, Assembles
  <2> QED
    BY <1>4, <2>1, <2>2 DEF QueuesAreTrue
<1>8. CountsAreTrue'
  BY <1>4, <1>5, <1>6, CountsStep DEF AssemblyInv
<1>9. EpochsAreTold'
  BY <1>1, <1>3, <1>4, <1>5, <1>6, ToldStep DEF AssemblyInv
<1>10. IgnoredAreRemembered'
  BY <1>1, <1>3, <1>4, <1>5, IgnoredStep
<1> QED
  BY <1>7, <1>8, <1>9, <1>10 DEF AssemblyInv

-----------------------------------------------------------------------------
(* What the session promises of the epochs.                                 *)

(* Nothing is sent, gathered or ignored at the start.                       *)
LEMMA AssemblyInit == ASSUME SessionInit PROVE AssemblyInv
<1>1. /\ sent = <<>> /\ Sent = {} /\ DOMAIN assembly = {} /\ order = <<>> /\ ignored = <<>>
      /\ decoded = {} /\ dropped = {}
      /\ completed = [n \in Epochs |-> 0] /\ groups = [n \in Epochs |-> [g \in Groups |-> 0]]
  BY DEF SessionInit, Init, Sent
<1>2. <<>> \in Seq(Nat) /\ Len(<<>>) = 0 /\ IsInjective(<<>>) /\ Range(<<>>) = {}
  BY DEF IsInjective, Range
<1>3. QueuesAreTrue
  BY <1>1, <1>2, SessionNumbers DEF QueuesAreTrue
<1>4. CountsAreTrue /\ EpochsAreTold
  BY <1>1 DEF CountsAreTrue, EpochsAreTold
<1>5. Silenced = {}
  BY <1>1, <1>2 DEF Silenced
<1>6. Window({}, <<>>, {}, 0, MaxAssembling - 1)
  BY <1>2 DEF Window
<1>7. IgnoredAreRemembered
  <2>1. IsFiniteSet({}) /\ Cardinality({}) = 0
    BY FS_EmptySet
  <2> QED
    BY <1>1, <1>2, <1>5, <1>6, <2>1, SessionNumbers DEF IgnoredAreRemembered, Tells
<1> QED
  BY <1>3, <1>4, <1>7 DEF AssemblyInv

(* Every step keeps the invariant.                                          *)
LEMMA AssemblyNext ==
  ASSUME SessionSetting, IInv, IInv', PlayoutInv, AssemblyInv, [SessionNext]_sessionVars
  PROVE  AssemblyInv'
<1>1. ASSUME NEW step \in PtsSteps, NEW k \in Shards, EncodeEpochAt(step, k) PROVE AssemblyInv'
  BY <1>1, EncodeAtStep
<1>2. ASSUME NEW n \in Sent, NEW esi \in 0..sent[n].k+RepairCount-1, Receive(n, esi) PROVE AssemblyInv'
  <2>1. Brings(n)
    BY <1>2, ArrivalBrings DEF Receive, SessionSetting
  <2>2. /\ decoded' = decoded \cup {m \in {n} : sent[m].id \in Range(audio'.completed) \ Range(audio.completed)}
        /\ UNCHANGED <<pts, last>>
    BY <1>2 DEF Receive
  <2>3. \/ /\ Fresh(n) = {}
           /\ UNCHANGED <<assembly, order, ignored, completed, groups, dropped>>
        \/ /\ Fresh(n) # {} /\ (n \in Range(ignored) \/ IsLate(pts[n]))
           /\ dropped' = dropped \cup {n} /\ UNCHANGED <<assembly, order, ignored, completed, groups>>
        \/ Fresh(n) # {} /\ n \notin Range(ignored) /\ ~IsLate(pts[n]) /\ Assemble(n, Fresh(n))
    BY <1>2 DEF Receive, Fresh
  <2>4. CASE Fresh(n) = {} /\ UNCHANGED <<assembly, order, ignored, completed, groups, dropped>>
    BY <2>1, <2>2, <2>4, NothingBrought
  <2>5. CASE /\ Fresh(n) # {} /\ (n \in Range(ignored) \/ IsLate(pts[n]))
             /\ dropped' = dropped \cup {n} /\ UNCHANGED <<assembly, order, ignored, completed, groups>>
    BY <2>1, <2>2, <2>5, DroppedOnArrival
  <2>6. CASE Fresh(n) # {} /\ n \notin Range(ignored) /\ ~IsLate(pts[n]) /\ Assemble(n, Fresh(n))
    BY <2>1, <2>2, <2>6, TakenStep
  <2> QED
    BY <2>3, <2>4, <2>5, <2>6
<1>3. ASSUME NEW p \in Pts, TakeForPlayout(p) PROVE AssemblyInv'
  <2>1. DropInFlight({n \in DOMAIN assembly : pts[n] <= p}) /\ p >= last /\ last' = p
        /\ UNCHANGED <<sent, returned, pts, decoded, completed, groups>>
    BY <1>3 DEF TakeForPlayout, vars
  <2>2. \A n \in Sent : IsLate(pts[n]) => IsLate(pts[n])'
    <3>1. p \in Nat /\ last \in Int /\ NeverPlayed = -1 /\ \A n \in Sent : pts[n] \in Nat
      BY PtsAreNumbers DEF PlayoutInv, PlayoutType, Sent
    <3> QED
      BY <2>1, <3>1 DEF IsLate
  <2> QED
    BY <2>1, <2>2, DropStep
<1>4. ASSUME NEW p \in Pts, ExpireBefore(p) PROVE AssemblyInv'
  <2>1. DropInFlight({n \in DOMAIN assembly : pts[n] < p})
        /\ UNCHANGED <<sent, returned, pts, last, decoded, completed, groups>>
    BY <1>4 DEF ExpireBefore, vars
  <2>2. \A n \in Sent : IsLate(pts[n]) => IsLate(pts[n])'
    BY <2>1 DEF IsLate
  <2> QED
    BY <2>1, <2>2, DropStep
<1>5. CASE UNCHANGED sessionVars
  <2>1. UNCHANGED <<sent, returned, pts, last, assembly, order, ignored, decoded, completed, groups, dropped>>
    BY <1>5 DEF sessionVars, vars, receiver, outcomes
  <2>2. QueuesAreTrue' /\ CountsAreTrue'
    BY <2>1 DEF AssemblyInv, QueuesAreTrue, CountsAreTrue, Sent, Returned
  <2>3. EpochsAreTold'
    BY <2>1 DEF AssemblyInv, EpochsAreTold, IsTold, IsAssembled, IsUntouched, IsCompleted, IsDropped,
                Sent, Returned, AllShards
  <2>4. IgnoredAreRemembered'
    BY <2>1 DEF AssemblyInv, IgnoredAreRemembered, Silenced, IsLate
  <2> QED
    BY <2>2, <2>3, <2>4 DEF AssemblyInv
<1> QED
  BY <1>1, <1>2, <1>3, <1>4, <1>5 DEF SessionNext

(* The invariant of the decoder and of the session on top of it.            *)
THEOREM SessionInvariant == SessionSetting => (SessionSpec => [](IInv /\ PlayoutInv /\ AssemblyInv))
<1> SUFFICES ASSUME SessionSetting PROVE SessionSpec => [](IInv /\ PlayoutInv /\ AssemblyInv)
  OBVIOUS
<1>1. SessionInit => IInv /\ PlayoutInv /\ AssemblyInv
  BY InitInv, PlayoutInit, AssemblyInit DEF SessionInit, SessionSetting
<1>2. IInv /\ PlayoutInv /\ AssemblyInv /\ [SessionNext]_sessionVars => (IInv /\ PlayoutInv /\ AssemblyInv)'
  <2> SUFFICES ASSUME IInv, PlayoutInv, AssemblyInv, [SessionNext]_sessionVars
               PROVE  (IInv /\ PlayoutInv /\ AssemblyInv)'
    OBVIOUS
  <2>1. IInv'
    BY SessionStep, NextInv DEF SessionSetting
  <2>2. PlayoutInv'
    BY PlayoutNext DEF IInv
  <2>3. AssemblyInv'
    BY <2>1, AssemblyNext
  <2> QED
    BY <2>1, <2>2, <2>3
<1> QED
  BY <1>1, <1>2, PTL DEF SessionSpec

(* An assembly has every shard that the decoder returned of its epoch, so   *)
(* that it can complete: an epoch that lost its assembly does not start     *)
(* another, whatever came, was evicted, played or expired meanwhile.        *)
THEOREM AssembliesHaveAll == SessionSetting => (SessionSpec => []AssembliesCanComplete)
<1> SUFFICES ASSUME SessionSetting PROVE SessionSpec => []AssembliesCanComplete
  OBVIOUS
<1>1. IInv /\ PlayoutInv /\ AssemblyInv => AssembliesCanComplete
  <2> SUFFICES ASSUME IInv, PlayoutInv, AssemblyInv, NEW n \in DOMAIN assembly
               PROVE  assembly[n] = Returned(n) /\ assembly[n] # AllShards(n)
    BY DEF AssembliesCanComplete
  <2>1. n \in Sent
    BY SessionEpochs
  <2>2. IsAssembled(n)
    BY <2>1 DEF AssemblyInv, EpochsAreTold, IsTold, IsUntouched, IsCompleted, IsDropped
  <2> QED
    BY <2>2 DEF IsAssembled
<1> QED
  BY <1>1, SessionInvariant, PTL

(* An epoch that RaptorQ decoded is reported whole once, or was given up,   *)
(* and never both; each of its groups is reported at most once.             *)
THEOREM DecodedAreReported == SessionSetting => (SessionSpec => []DecodedEpochsAreReported)
<1> SUFFICES ASSUME SessionSetting PROVE SessionSpec => []DecodedEpochsAreReported
  OBVIOUS
<1>1. IInv /\ PlayoutInv /\ AssemblyInv => DecodedEpochsAreReported
  <2> SUFFICES ASSUME IInv, PlayoutInv, AssemblyInv, NEW n \in Sent
               PROVE  /\ n \in decoded => completed[n] = IF n \in dropped THEN 0 ELSE 1
                      /\ \A g \in Groups : groups[n][g] <= 1
    BY DEF DecodedEpochsAreReported
  <2>1. n \in decoded => completed[n] = IF n \in dropped THEN 0 ELSE 1
    <3> SUFFICES ASSUME n \in decoded PROVE IsCompleted(n) \/ IsDropped(n)
      BY DEF IsCompleted, IsDropped
    <3>1. IsTold(n) /\ Returned(n) = AllShards(n)
      BY DEF AssemblyInv, EpochsAreTold, IsTold
    <3>2. AllShards(n) # {}
      BY WholeIs DEF IInv
    <3> QED
      BY <3>1, <3>2 DEF IsTold, IsAssembled, IsUntouched
  <2>2. \A g \in Groups : groups[n][g] <= 1
    BY SessionEpochs DEF AssemblyInv, CountsAreTrue
  <2> QED
    BY <2>1, <2>2
<1> QED
  BY <1>1, SessionInvariant, PTL

=============================================================================
