-------------------------- MODULE DatagramFecProofs --------------------------
(***************************************************************************)
(* Proofs about the two components of the crate's lib.rs, for every value   *)
(* of their constants: DatagramFec, the encoder, the network and the        *)
(* decoder, and, in the last part, RepairEncoder, the producers of repair   *)
(* symbols on demand.                                                       *)
(***************************************************************************)
EXTENDS DatagramFec, RepairEncoder, FiniteSetTheorems, TLAPS

-----------------------------------------------------------------------------
(* The sequence tracker.                                                    *)

(* A wrapping addition yields a sequence number.                            *)
LEMMA WrapsToSeqId == \A x \in Int : x % SequenceMod \in SeqIds
BY SequenceAssumption DEF SeqIds

(* The run that advance_expected consumes has a length.                     *)
LEMMA RunIsNat == \A t, seq : Run(t, seq) \in Nat
<1> TAKE t, seq
<1> DEFINE R == {n \in 1..SequenceMod-1 : \A i \in 1..n : (seq + i) % SequenceMod \in t.future}
<1>1. IsFiniteSet(1..SequenceMod-1)
  BY FS_Interval, SequenceAssumption
<1>2. IsFiniteSet(R)
  BY <1>1, FS_Subset
<1>3. Cardinality(R) \in Nat
  BY <1>2, FS_CardinalityType
<1> QED
  BY <1>3 DEF Run

(* observe() keeps a tracker a tracker.                                     *)
LEMMA ObserveType ==
  ASSUME NEW t \in TrackerType, NEW seq \in SeqIds
  PROVE  Observe(t, seq) \in TrackerType
<1> DEFINE seen == [t EXCEPT !.highest = Newest(@, seq)]
<1>1. seq \in Int /\ (seq + 1) % SequenceMod \in SeqIds
  BY WrapsToSeqId DEF SeqIds
<1>2. seen \in TrackerType /\ seen.next = t.next
  BY DEF TrackerType, Newest
<1>3. CASE t.next = NoSeq
  BY <1>1, <1>2, <1>3 DEF Observe, TrackerType
<1>4. CASE t.next # NoSeq /\ seq = t.next
  <2>1. (seq + Run(seen, seq) + 1) % SequenceMod \in SeqIds
    BY <1>1, RunIsNat, WrapsToSeqId
  <2>2. AdvanceExpected(seen, seq) \in TrackerType
    BY <1>2, <2>1 DEF AdvanceExpected, TrackerType
  <2> QED
    BY <1>4, <2>2 DEF Observe
<1>5. CASE t.next # NoSeq /\ seq # t.next /\ seq \in t.missing
  BY <1>2, <1>5 DEF Observe, TrackerType
<1>6. CASE t.next # NoSeq /\ seq # t.next /\ seq \notin t.missing
  <2>1. Gap(t.next, seq) \subseteq SeqIds
    <3>1. t.next \in Int
      BY <1>6 DEF TrackerType, SeqIds
    <3>2. \A i \in Int : (t.next + i) % SequenceMod \in SeqIds
      BY <3>1, WrapsToSeqId
    <3> QED
      BY <3>2 DEF Gap
  <2>2. ReceiveAhead(seen, seq) \in TrackerType
    BY <1>2, <2>1 DEF ReceiveAhead, TrackerType
  <2> QED
    BY <1>2, <1>6, <2>2 DEF Observe
<1> QED
  BY <1>3, <1>4, <1>5, <1>6

-----------------------------------------------------------------------------
(* The decoder.                                                             *)

(* Pruning only forgets.                                                    *)
LEMMA PruneType ==
  ASSUME NEW d, DecoderType(d), NEW id \in Ids
  PROVE  DecoderType(Prune(d, id))
BY DEF DecoderType, Prune, InFlight, RestrictDomain, Restrict

(* Closing a block leaves a decoder where that block is not in flight.      *)
LEMMA CloseType ==
  ASSUME NEW d, DecoderType(d), NEW id \in Ids
  PROVE  DecoderType(Close(d, id)) /\ id \notin InFlight(Close(d, id))
<1> DEFINE c == [blocks |-> Restrict(d.blocks, InFlight(d) \ {id}),
                 completed |-> d.completed \cup {id}]
<1>1. DecoderType(c)
  BY DEF DecoderType, InFlight, Restrict
<1>2. DecoderType(Close(d, id))
  BY <1>1, PruneType DEF Close
<1>3. id \notin InFlight(Close(d, id))
  BY DEF Close, Prune, InFlight, RestrictDomain, Restrict
<1> QED
  BY <1>2, <1>3

(* push_datagram keeps a decoder a decoder, whatever it returns.            *)
LEMMA PushType ==
  ASSUME NEW d, DecoderType(d),
         NEW p \in [id : Ids, k : Nat, esi : Nat],
         NEW o \in PushDatagram(d, p)
  PROVE  DecoderType(o.d)
<1>1. CASE p.id \in d.completed
  BY <1>1 DEF PushDatagram
<1>2. CASE p.id \notin d.completed /\ ~SameGeometry(d, p)
  <2>1. DecoderType(DropBlock(d, p.id))
    BY DEF DecoderType, DropBlock, InFlight, Restrict
  <2> QED
    BY <1>2, <2>1 DEF PushDatagram
<1>3. CASE p.id \notin d.completed /\ SameGeometry(d, p)
  <2>1. DecoderType(Close(d, p.id))
    BY CloseType
  <2>2. DecoderType(Hold(d, p))
    BY <1>3 DEF DecoderType, Hold, Held, InFlight
  <2> QED
    BY <1>3, <2>1, <2>2 DEF PushDatagram
<1> QED
  BY <1>1, <1>2, <1>3

-----------------------------------------------------------------------------
(* Type correctness.                                                        *)

(* A block the encoder emits is one of BlockType.                           *)
LEMMA BlockOfType ==
  ASSUME TypeOK, NEW ks \in Seq(Nat \ {0}), NEW r \in Nat, NEW i \in 1..Len(ks)
  PROVE  BlockOf(ks, r, i) \in BlockType
<1>1. ks[i] \in Nat \ {0} /\ ks[i] + r \in Nat /\ i \in Int
  OBVIOUS
<1>2. (blockId + i - 1) % IdMod \in Ids
  BY <1>1, DecoderAssumption DEF TypeOK, Ids
<1>3. packetSequence + (i - 1) * (SourceSymbols + r) \in Int
  BY <1>1, FecAssumption DEF TypeOK, SeqIds
<1> QED
  BY <1>1, <1>2, <1>3, WrapsToSeqId DEF BlockOf, BlockType

(* Encoding any number of blocks at once keeps the types.                   *)
LEMMA EncodeType ==
  ASSUME TypeOK, NEW ks \in Seq(Nat \ {0}), Len(ks) > 0, NEW r \in Nat, Encode(ks, r)
  PROVE  TypeOK'
<1> DEFINE new == [i \in 1..Len(ks) |-> BlockOf(ks, r, i)]
<1>1. new \in Seq(BlockType) /\ Len(new) = Len(ks)
  BY BlockOfType
<1>2. sent' \in Seq(BlockType) /\ Len(sent') = Len(sent) + Len(ks)
  BY <1>1 DEF TypeOK, Encode
<1>3. Len(sent') <= MaxBlocks /\ Sent \subseteq Sent'
  BY <1>2 DEF Encode, TypeOK, Sent
<1>4. blockId' \in Ids
  BY DecoderAssumption DEF Encode, TypeOK, Ids
<1>5. packetSequence' \in SeqIds
  <2>1. ks[Len(ks)] \in Int
    OBVIOUS
  <2>2. (Len(ks) - 1) * (SourceSymbols + r) \in Int
    BY FecAssumption
  <2>3. packetSequence \in Int
    BY DEF TypeOK, SeqIds
  <2>4. packetSequence + (Len(ks) - 1) * (SourceSymbols + r) + ks[Len(ks)] + r \in Int
    BY <2>1, <2>2, <2>3
  <2> QED
    BY <2>4, WrapsToSeqId DEF Encode
<1> QED
  BY <1>2, <1>3, <1>4, <1>5 DEF TypeOK, Encode, decoder, history

(* The blocks that encode_object and encode_payload cut are not empty.      *)
LEMMA EncoderStepType ==
  ASSUME TypeOK, NEW r \in Repairs,
         \/ \E k \in ObjectSymbols : EncodeObject(k, r)
         \/ \E chunks \in 2..MaxChunks, k \in 1..SourceSymbols : EncodePayload(chunks, k, r)
  PROVE  TypeOK'
<1>1. r \in Nat
  BY FecAssumption
<1>2. ASSUME NEW k \in ObjectSymbols, EncodeObject(k, r) PROVE TypeOK'
  <2>1. <<k>> \in Seq(Nat \ {0}) /\ Len(<<k>>) > 0
    BY FecAssumption
  <2> QED
    BY <1>1, <1>2, <2>1, EncodeType DEF EncodeObject
<1>3. ASSUME NEW chunks \in 2..MaxChunks, NEW k \in 1..SourceSymbols,
             EncodePayload(chunks, k, r)
      PROVE  TypeOK'
  <2> DEFINE ks == [i \in 1..chunks |-> IF i = chunks THEN k ELSE SourceSymbols]
  <2>1. ks \in Seq(Nat \ {0}) /\ Len(ks) > 0
    BY FecAssumption
  <2> QED
    BY <1>1, <1>3, <2>1, EncodeType DEF EncodePayload
<1> QED
  BY <1>2, <1>3

(* A block that was sent is one of BlockType and one of the run.            *)
LEMMA SentBlock ==
  ASSUME TypeOK, NEW n \in Sent
  PROVE  sent[n] \in BlockType /\ n \in Blocks
BY FecAssumption DEF TypeOK, Sent, Blocks

(* What arrives is a datagram, and its sequence number is one.              *)
LEMMA ArrivalType ==
  ASSUME TypeOK, NEW n \in Sent, NEW esi \in 0..sent[n].datagrams-1
  PROVE  /\ DatagramOf(n, esi) \in [id : Ids, k : Nat, esi : Nat]
         /\ (sent[n].first + esi) % SequenceMod \in SeqIds
         /\ n \in Blocks /\ esi \in Nat
<1>1. sent[n] \in BlockType /\ n \in Blocks
  BY SentBlock
<1>2. sent[n].first + esi \in Int
  BY <1>1 DEF BlockType, SeqIds
<1> QED
  BY <1>1, <1>2, WrapsToSeqId DEF DatagramOf, BlockType

(* The state of encoder and decoder keeps its types.                        *)
THEOREM TypeCorrect == Spec => []TypeOK
<1>1. Init => TypeOK
  <2> SUFFICES ASSUME Init PROVE TypeOK
    OBVIOUS
  <2>1. firstId \in FirstIds /\ blockId \in Ids /\ packetSequence \in SeqIds
    BY FecAssumption, SequenceAssumption DEF Init, SeqIds
  <2>2. sent \in Seq(BlockType) /\ Len(sent) <= MaxBlocks
    BY FecAssumption DEF Init
  <2>3. DecoderType(dec) /\ tracker \in TrackerType
    BY DEF Init, DecoderType, NewDecoder, InFlight, TrackerType, NewTracker
  <2> QED
    BY <2>1, <2>2, <2>3 DEF Init, TypeOK
<1>2. TypeOK /\ [Next]_vars => TypeOK'
  <2> SUFFICES ASSUME TypeOK, [Next]_vars PROVE TypeOK'
    OBVIOUS
  <2>1. ASSUME NEW k \in ObjectSymbols, NEW r \in Repairs, EncodeObject(k, r)
        PROVE  TypeOK'
    BY <2>1, EncoderStepType
  <2>2. ASSUME NEW chunks \in 2..MaxChunks, NEW k \in 1..SourceSymbols,
               NEW r \in Repairs, EncodePayload(chunks, k, r)
        PROVE  TypeOK'
    BY <2>2, EncoderStepType
  <2>3. ASSUME NEW id \in ResetIds, SetBlockId(id) PROVE TypeOK'
    BY <2>3, FecAssumption DEF SetBlockId, TypeOK, Sent, decoder, history
  <2>4. ASSUME NEW n \in Sent, NEW esi \in 0..sent[n].datagrams-1, PushArrival(n, esi)
        PROVE  TypeOK'
    <3>1. tracker' \in TrackerType
      BY <2>4, ArrivalType, ObserveType DEF PushArrival, TypeOK
    <3>2. DecoderType(dec')
      BY <2>4, ArrivalType, PushType DEF PushArrival, TypeOK
    <3>3. arrived' \in [Blocks -> SUBSET Nat] /\ handed' \in [Blocks -> Nat]
      BY <2>4, ArrivalType DEF PushArrival, TypeOK
    <3> QED
      BY <2>4, <3>1, <3>2, <3>3 DEF PushArrival, TypeOK, Sent, encoder
  <2>5. ASSUME NEW n \in Sent, ExpireBlock(n) PROVE TypeOK'
    <3>1. sent[n].id \in Ids
      BY SentBlock DEF BlockType
    <3>2. DecoderType(dec')
      BY <2>5, <3>1, CloseType DEF ExpireBlock, TypeOK
    <3> QED
      BY <2>5, <3>2 DEF ExpireBlock, TypeOK, Sent, encoder
  <2>6. CASE UNCHANGED vars
    BY <2>6 DEF vars, encoder, decoder, history, TypeOK, Sent
  <2> QED
    BY <2>1, <2>2, <2>3, <2>4, <2>5, <2>6 DEF Next
<1> QED
  BY <1>1, <1>2, PTL DEF Spec

-----------------------------------------------------------------------------
(* The suppression window.  As long as block ids do not wrap and datagrams  *)
(* are no later than the window, an id is as good as an ordinal, and what   *)
(* the decoder has closed and not forgotten is exactly what can still come. *)

IdsAreOrdinals ==
  /\ firstId \in FirstIds
  /\ blockId = (firstId + Len(sent)) % IdMod
  /\ \A n \in Sent : sent[n].id = firstId + n - 1

(* No block beyond the window after n is closed.                            *)
Recent(n) == \A m \in Closed : m <= n + CompletedWindow

ClosedIsRemembered ==
  \A n \in Closed : Recent(n) => sent[n].id \in dec.completed

RememberedIsRecent ==
  \A id \in dec.completed \cup InFlight(dec) :
    \E n \in Sent : sent[n].id = id /\ Recent(n)

(* A block still open is incomplete, and its decoder has all that came.     *)
OpenIsHeld ==
  \A n \in Sent \ Closed :
    /\ ~ (0..sent[n].k-1 \subseteq arrived[n])
    /\ Deliverable(n) =>
         /\ sent[n].id \notin dec.completed
         /\ arrived[n] = Held(dec, sent[n].id)
         /\ sent[n].id \in InFlight(dec) => dec.blocks[sent[n].id].k = sent[n].k

UnsentIsUntouched ==
  \A n \in Blocks \ Sent : arrived[n] = {} /\ handed[n] = 0

HandedOnce == \A n \in Blocks : handed[n] \in {0, 1}

IInv ==
  /\ TypeOK
  /\ IdsAreOrdinals
  /\ ClosedIsRemembered
  /\ RememberedIsRecent
  /\ OpenIsHeld
  /\ UnsentIsUntouched
  /\ HandedOnce

-----------------------------------------------------------------------------
(* What prune() does, seen from the ordinals.                               *)

(* The id of a block is a number below IdMod that grows with the ordinal.   *)
LEMMA IdIsOrdinal ==
  ASSUME IInv, OneEpoch, NEW n \in Sent
  PROVE  /\ n \in Blocks /\ firstId \in Nat
         /\ sent[n].id = firstId + n - 1
         /\ sent[n].id \in Ids /\ sent[n].id < IdMod
<1>1. n \in Blocks /\ sent[n] \in BlockType
  BY SentBlock DEF IInv
<1>2. firstId \in Nat /\ firstId + MaxBlocks <= IdMod
  BY FecAssumption, DecoderAssumption DEF IInv, IdsAreOrdinals, OneEpoch, Ids
<1>3. sent[n].id = firstId + n - 1
  BY DEF IInv, IdsAreOrdinals
<1>4. sent[n].id \in Ids /\ sent[n].id < IdMod
  BY <1>1, DecoderAssumption DEF BlockType, Ids
<1> QED
  BY <1>1, <1>2, <1>3, <1>4

(* Within an epoch, different blocks have different ids.                    *)
LEMMA IdsDiffer ==
  ASSUME IInv, OneEpoch, NEW m \in Sent, NEW n \in Sent, sent[m].id = sent[n].id
  PROVE  m = n
BY IdIsOrdinal DEF Blocks

(* A number below IdMod is its own residue.                                 *)
LEMMA SmallMod == \A x \in 0..IdMod-1 : x % IdMod = x
BY DecoderAssumption

(* Closing block m forgets exactly the blocks beyond the window before m.   *)
LEMMA RetainsIsRecency ==
  ASSUME IInv, OneEpoch, NEW m \in Sent, NEW n \in Sent
  PROVE  Retains(sent[m].id, sent[n].id) <=> m <= n + CompletedWindow
<1>1. /\ m \in Nat /\ n \in Nat /\ firstId \in Nat /\ CompletedWindow \in Nat
      /\ IdMod \in Nat \ {0}
      /\ sent[m].id = firstId + m - 1 /\ sent[n].id = firstId + n - 1
      /\ sent[m].id \in Nat /\ sent[n].id \in Nat /\ sent[m].id < IdMod
  BY IdIsOrdinal, DecoderAssumption DEF Blocks, Ids
<1>2. CASE sent[m].id < CompletedWindow
  <2>1. m <= n + CompletedWindow
    BY <1>1, <1>2
  <2> QED
    BY <1>2, <2>1 DEF Retains
<1>3. CASE ~ (sent[m].id < CompletedWindow)
  <2>1. sent[m].id - CompletedWindow \in 0..IdMod-1
    BY <1>1, <1>3
  <2>2. Cutoff(sent[m].id) = sent[m].id - CompletedWindow
    BY <1>1, <2>1 DEF Cutoff
  <2> QED
    BY <1>1, <1>3, <2>2 DEF Retains
<1> QED
  BY <1>2, <1>3

(* Closing block n, seen from any block c.                                  *)
LEMMA CloseExact ==
  ASSUME IInv, OneEpoch, NEW n \in Sent, NEW c \in Sent
  PROVE  LET d == Close(dec, sent[n].id) IN
         /\ sent[c].id \in d.completed
              <=> (c = n \/ sent[c].id \in dec.completed) /\ n <= c + CompletedWindow
         /\ sent[c].id \in InFlight(d)
              <=> c # n /\ sent[c].id \in InFlight(dec) /\ n <= c + CompletedWindow
         /\ sent[c].id \in InFlight(d) => d.blocks[sent[c].id] = dec.blocks[sent[c].id]
BY IdsDiffer, RetainsIsRecency DEF Close, Prune, InFlight, RestrictDomain, Restrict

(* Closing a block adds no id but its own.                                  *)
LEMMA CloseOnlyAddsItself ==
  ASSUME NEW d, NEW id, NEW x \in Close(d, id).completed \cup InFlight(Close(d, id))
  PROVE  x = id \/ x \in d.completed \cup InFlight(d)
BY DEF Close, Prune, InFlight, RestrictDomain, Restrict

(* A block whose datagrams can come is as recent as any that is closed.     *)
LEMMA DeliverableIsRecent ==
  ASSUME IInv, OneEpoch, NEW n \in Sent, Deliverable(n)
  PROVE  /\ \A m \in Sent : m <= n + CompletedWindow
         /\ Recent(n)
<1>1. \A m \in Sent : m <= n + CompletedWindow
  BY FecAssumption, DecoderAssumption DEF Deliverable, OneEpoch, Sent, IInv, TypeOK
<1>2. Closed \subseteq Sent
  BY DEF Closed, IInv, TypeOK
<1> QED
  BY <1>1, <1>2 DEF Recent

(* Of the blocks whose datagrams can come, the decoder ignores exactly the  *)
(* closed ones.                                                             *)
LEMMA DeliverableClosed ==
  ASSUME IInv, OneEpoch, NEW n \in Sent, Deliverable(n)
  PROVE  n \in Closed <=> sent[n].id \in dec.completed
BY DeliverableIsRecent DEF IInv, ClosedIsRemembered, OpenIsHeld

-----------------------------------------------------------------------------
(* The steps.                                                               *)

(* A step of the receiver that closes block n.                              *)
LEMMA CloseStep ==
  ASSUME IInv, OneEpoch, NEW n \in Sent, Deliverable(n),
         sent' = sent, dec' = Close(dec, sent[n].id), Closed' = Closed \cup {n},
         \A c \in Sent \ {n} : arrived'[c] = arrived[c]
  PROVE  ClosedIsRemembered' /\ RememberedIsRecent' /\ OpenIsHeld'
<1>1. /\ Sent' = Sent /\ Closed \subseteq Sent
      /\ \A c \in Sent : Recent(c)' <=> Recent(c) /\ n <= c + CompletedWindow
  <2>1. Sent' = Sent
    BY DEF Sent
  <2>2. Closed \subseteq Sent
    BY DEF Closed, IInv, TypeOK
  <2>3. \A c \in Sent : Recent(c)' <=> Recent(c) /\ n <= c + CompletedWindow
    BY DEF Recent
  <2> QED
    BY <2>1, <2>2, <2>3
<1>2. ClosedIsRemembered'
  <2> SUFFICES ASSUME NEW c \in Closed', Recent(c)' PROVE sent[c].id \in dec'.completed
    BY DEF ClosedIsRemembered
  <2>1. c = n \/ sent[c].id \in dec.completed
    BY <1>1 DEF IInv, ClosedIsRemembered
  <2> QED
    BY <1>1, <2>1, CloseExact
<1>3. RememberedIsRecent'
  <2> SUFFICES ASSUME NEW id \in dec'.completed \cup InFlight(dec')
               PROVE  \E c \in Sent : sent[c].id = id /\ Recent(c)'
    BY <1>1 DEF RememberedIsRecent, InFlight
  <2>1. CASE id = sent[n].id
    <3>1. Recent(n)'
      BY <1>1, DeliverableIsRecent DEF Recent
    <3> QED
      BY <2>1, <3>1
  <2>2. CASE id \in dec.completed \cup InFlight(dec)
    <3>1. PICK c \in Sent : sent[c].id = id /\ Recent(c)
      BY <2>2 DEF IInv, RememberedIsRecent
    <3>2. n <= c + CompletedWindow
      BY <3>1, CloseExact
    <3> QED
      BY <3>1, <3>2 DEF Recent
  <2> QED
    BY <2>1, <2>2, CloseOnlyAddsItself
<1>4. OpenIsHeld'
  <2> SUFFICES ASSUME NEW c \in Sent \ Closed'
               PROVE  /\ ~ (0..sent[c].k-1 \subseteq arrived'[c])
                      /\ Deliverable(c) =>
                           /\ sent[c].id \notin dec'.completed
                           /\ arrived'[c] = Held(dec', sent[c].id)
                           /\ sent[c].id \in InFlight(dec') =>
                                dec'.blocks[sent[c].id].k = sent[c].k
    BY <1>1 DEF OpenIsHeld, Deliverable, InFlight, Held
  <2>1. c # n /\ c \in Sent \ Closed /\ arrived'[c] = arrived[c]
    OBVIOUS
  <2>2. ASSUME Deliverable(c)
        PROVE  /\ sent[c].id \notin dec'.completed
               /\ Held(dec', sent[c].id) = Held(dec, sent[c].id)
               /\ sent[c].id \in InFlight(dec') =>
                    dec'.blocks[sent[c].id].k = sent[c].k
    <3>1. n <= c + CompletedWindow
      BY <2>2, DeliverableIsRecent
    <3>2. sent[c].id \notin dec.completed
      BY <2>1, <2>2 DEF IInv, OpenIsHeld
    <3> QED
      BY <2>1, <2>2, <3>1, <3>2, CloseExact DEF IInv, OpenIsHeld, Held, InFlight
  <2> QED
    BY <2>1, <2>2 DEF IInv, OpenIsHeld
<1> QED
  BY <1>2, <1>3, <1>4

(* A step that expires a block.                                             *)
LEMMA ExpireStep ==
  ASSUME IInv, OneEpoch, TypeOK', NEW n \in Sent, ExpireBlock(n)
  PROVE  IInv'
<1>1. Closed' = Closed \cup {n}
  BY DEF ExpireBlock, encoder, Closed, Sent
<1>2. ClosedIsRemembered' /\ RememberedIsRecent' /\ OpenIsHeld'
  BY <1>1, CloseStep DEF ExpireBlock, encoder
<1>3. IdsAreOrdinals' /\ UnsentIsUntouched' /\ HandedOnce'
  BY DEF ExpireBlock, encoder, IInv, IdsAreOrdinals, UnsentIsUntouched, HandedOnce, Sent
<1> QED
  BY <1>2, <1>3 DEF IInv

(* What push_datagram does with a datagram of block n: nothing to a closed  *)
(* block, and an open one either completes or holds one more symbol.        *)
LEMMA PushCases ==
  ASSUME IInv, OneEpoch, NEW n \in Sent, Deliverable(n), NEW esi \in Nat,
         NEW o \in PushDatagram(dec, DatagramOf(n, esi))
  PROVE  \/ n \in Closed /\ o.d = dec /\ o.out = "none"
         \/ n \notin Closed /\ esi \in arrived[n] /\ o.d = dec /\ o.out = "none"
         \/ n \notin Closed /\ o.d = Close(dec, sent[n].id) /\ o.out = "decoded"
         \/ /\ n \notin Closed
            /\ o.d = Hold(dec, DatagramOf(n, esi)) /\ o.out = "none"
            /\ ~ (0..sent[n].k-1 \subseteq arrived[n] \cup {esi})
<1>1. CASE n \in Closed
  BY <1>1, DeliverableClosed DEF PushDatagram, DatagramOf
<1>2. CASE n \notin Closed
  <2>1. sent[n].id \notin dec.completed
    BY <1>2, DeliverableClosed
  <2>2. Held(dec, sent[n].id) = arrived[n] /\ SameGeometry(dec, DatagramOf(n, esi))
    BY <1>2 DEF IInv, OpenIsHeld, SameGeometry, DatagramOf
  <2> QED
    BY <1>2, <2>1, <2>2 DEF PushDatagram, DatagramOf, MustDecode
<1> QED
  BY <1>1, <1>2

(* The open block n holds one more symbol; the others keep what they have.  *)
LEMMA HoldStep ==
  ASSUME IInv, OneEpoch, NEW n \in Sent \ Closed, Deliverable(n), NEW esi \in Nat,
         ~ (0..sent[n].k-1 \subseteq arrived[n] \cup {esi}),
         sent' = sent, Closed' = Closed, dec' = Hold(dec, DatagramOf(n, esi)),
         arrived' = [arrived EXCEPT ![n] = @ \cup {esi}]
  PROVE  ClosedIsRemembered' /\ RememberedIsRecent' /\ OpenIsHeld'
<1>1. Sent' = Sent /\ dec'.completed = dec.completed
  BY DEF Sent, Hold
<1>2. \A c \in Sent : Recent(c)' <=> Recent(c)
  BY DEF Recent
<1>3. ClosedIsRemembered'
  BY <1>1, <1>2 DEF ClosedIsRemembered, IInv, Closed, TypeOK
<1>4. RememberedIsRecent'
  <2>1. dec'.completed \cup InFlight(dec')
          \subseteq dec.completed \cup InFlight(dec) \cup {sent[n].id}
    BY DEF Hold, InFlight, DatagramOf
  <2>2. Recent(n)
    BY DeliverableIsRecent
  <2> QED
    BY <1>1, <1>2, <2>1, <2>2 DEF RememberedIsRecent, IInv, InFlight
<1>5. OpenIsHeld'
  <2> SUFFICES ASSUME NEW c \in Sent \ Closed
               PROVE  /\ ~ (0..sent[c].k-1 \subseteq arrived'[c])
                      /\ Deliverable(c) =>
                           /\ sent[c].id \notin dec'.completed
                           /\ arrived'[c] = Held(dec', sent[c].id)
                           /\ sent[c].id \in InFlight(dec') =>
                                dec'.blocks[sent[c].id].k = sent[c].k
    BY <1>1 DEF OpenIsHeld, Deliverable, InFlight, Held
  <2>1. arrived \in [Blocks -> SUBSET Nat] /\ Sent \subseteq Blocks
    BY SentBlock DEF IInv, TypeOK
  <2>2. CASE c = n
    <3>1. arrived'[c] = arrived[n] \cup {esi}
      BY <2>1, <2>2
    <3>2. Held(dec', sent[n].id) = Held(dec, sent[n].id) \cup {esi}
      BY DEF Hold, Held, InFlight, DatagramOf
    <3>3. dec'.blocks[sent[n].id].k = sent[n].k
      BY DEF Hold, DatagramOf, InFlight
    <3> QED
      BY <1>1, <2>2, <3>1, <3>2, <3>3 DEF IInv, OpenIsHeld
  <2>3. CASE c # n
    <3>1. arrived'[c] = arrived[c]
      BY <2>1, <2>3
    <3>2. sent[c].id # sent[n].id
      BY <2>3, IdsDiffer
    <3>3. /\ Held(dec', sent[c].id) = Held(dec, sent[c].id)
          /\ sent[c].id \in InFlight(dec') => /\ sent[c].id \in InFlight(dec)
                                             /\ dec'.blocks[sent[c].id] = dec.blocks[sent[c].id]
      BY <3>2 DEF Hold, Held, InFlight, DatagramOf
    <3> QED
      BY <1>1, <3>1, <3>3 DEF IInv, OpenIsHeld
  <2> QED
    BY <2>2, <2>3
<1> QED
  BY <1>3, <1>4, <1>5

(* A step that leaves the decoder, and what came of the open blocks, alone. *)
LEMMA QuietStep ==
  ASSUME IInv, sent' = sent, Closed' = Closed, dec' = dec,
         \A c \in Sent \ Closed : arrived'[c] = arrived[c]
  PROVE  ClosedIsRemembered' /\ RememberedIsRecent' /\ OpenIsHeld'
<1>1. Sent' = Sent /\ \A c \in Sent : Deliverable(c)' <=> Deliverable(c)
  BY DEF Sent, Deliverable
<1>2. \A c : Recent(c)' <=> Recent(c)
  BY DEF Recent
<1>3. ClosedIsRemembered'
  BY <1>2 DEF IInv, ClosedIsRemembered
<1>4. RememberedIsRecent'
  BY <1>1, <1>2 DEF IInv, RememberedIsRecent, InFlight
<1>5. OpenIsHeld'
  BY <1>1 DEF IInv, OpenIsHeld, Held, InFlight
<1> QED
  BY <1>3, <1>4, <1>5

(* A step that takes in a datagram.                                         *)
LEMMA PushStep ==
  ASSUME IInv, OneEpoch, TypeOK',
         NEW n \in Sent, NEW esi \in 0..sent[n].datagrams-1, PushArrival(n, esi)
  PROVE  IInv'
<1>1. n \in Blocks /\ esi \in Nat /\ Deliverable(n)
  BY ArrivalType DEF PushArrival, IInv
<1>2. PICK o \in PushDatagram(dec, DatagramOf(n, esi)) :
        /\ dec' = o.d
        /\ handed' = IF o.out = "decoded" THEN [handed EXCEPT ![n] = @ + 1] ELSE handed
  BY DEF PushArrival
<1>3. /\ sent' = sent /\ expired' = expired /\ Sent' = Sent
      /\ arrived' = [arrived EXCEPT ![n] = @ \cup {esi}]
      /\ arrived \in [Blocks -> SUBSET Nat] /\ handed \in [Blocks -> Nat]
      /\ Sent \subseteq Blocks
  BY SentBlock DEF PushArrival, encoder, Sent, IInv, TypeOK
<1>4. IdsAreOrdinals' /\ UnsentIsUntouched'
  BY <1>2, <1>3 DEF PushArrival, encoder, IInv, IdsAreOrdinals, UnsentIsUntouched
<1>5. \A c \in Sent \ {n} : arrived'[c] = arrived[c]
  BY <1>3
<1>6. CASE o.out = "none"
  <2>1. Closed' = Closed
    BY <1>2, <1>3, <1>6 DEF Closed
  <2>2. HandedOnce'
    BY <1>2, <1>6 DEF IInv, HandedOnce
  <2>3. CASE n \in Closed /\ o.d = dec
    <3>1. \A c \in Sent \ Closed : arrived'[c] = arrived[c]
      BY <1>5, <2>3
    <3> QED
      BY <1>2, <1>3, <1>4, <2>1, <2>2, <2>3, <3>1, QuietStep DEF IInv
  <2>4. CASE esi \in arrived[n] /\ o.d = dec
    <3>1. \A c \in Sent \ Closed : arrived'[c] = arrived[c]
      BY <1>1, <1>3, <2>4
    <3> QED
      BY <1>2, <1>3, <1>4, <2>1, <2>2, <2>4, <3>1, QuietStep DEF IInv
  <2>5. CASE /\ n \notin Closed /\ o.d = Hold(dec, DatagramOf(n, esi))
             /\ ~ (0..sent[n].k-1 \subseteq arrived[n] \cup {esi})
    <3>1. ClosedIsRemembered' /\ RememberedIsRecent' /\ OpenIsHeld'
      BY <1>1, <1>2, <1>3, <2>1, <2>5, HoldStep
    <3> QED
      BY <1>4, <2>2, <3>1 DEF IInv
  <2> QED
    BY <1>1, <1>6, <2>3, <2>4, <2>5, PushCases
<1>7. CASE o.out = "decoded"
  <2>1. n \notin Closed /\ o.d = Close(dec, sent[n].id)
    BY <1>1, <1>7, PushCases
  <2>2. handed' = [handed EXCEPT ![n] = @ + 1] /\ handed[n] = 0
    BY <1>2, <1>3, <1>7, <2>1 DEF Closed
  <2>3. Closed' = Closed \cup {n}
    BY <1>3, <2>2 DEF Closed
  <2>4. ClosedIsRemembered' /\ RememberedIsRecent' /\ OpenIsHeld'
    BY <1>1, <1>2, <1>3, <1>5, <2>1, <2>3, CloseStep
  <2>5. HandedOnce'
    BY <1>3, <2>2 DEF IInv, HandedOnce
  <2> QED
    BY <1>4, <2>4, <2>5 DEF IInv
<1> QED
  BY <1>1, <1>6, <1>7, PushCases

(* A step that encodes blocks: they are open, untouched, and their ids new. *)
LEMMA EncodeStep ==
  ASSUME IInv, OneEpoch, TypeOK',
         NEW ks \in Seq(Nat \ {0}), Len(ks) > 0, NEW r \in Nat, Encode(ks, r)
  PROVE  IInv'
<1> DEFINE new == [i \in 1..Len(ks) |-> BlockOf(ks, r, i)]
<1>1. /\ sent' = sent \o new /\ Len(sent) + Len(ks) <= MaxBlocks
      /\ blockId' = (blockId + Len(ks)) % IdMod
      /\ firstId' = firstId /\ dec' = dec
      /\ arrived' = arrived /\ handed' = handed /\ expired' = expired
  BY DEF Encode, decoder, history
<1>2. /\ Len(sent) \in Nat /\ Len(ks) \in Nat /\ Len(sent') = Len(sent) + Len(ks)
      /\ \A n \in Sent : sent'[n] = sent[n]
      /\ \A i \in 1..Len(ks) : sent'[Len(sent) + i] = BlockOf(ks, r, i)
  <2>1. new \in Seq(BlockType) /\ Len(new) = Len(ks) /\ sent \in Seq(BlockType)
    BY BlockOfType DEF IInv, TypeOK
  <2> QED
    BY <1>1, <2>1 DEF Sent
<1>3. /\ Sent \subseteq Sent' /\ Sent' \subseteq Blocks /\ Sent \subseteq Nat
      /\ \A n \in Sent' \ Sent : \E i \in 1..Len(ks) : n = Len(sent) + i
  <2>1. /\ Sent \subseteq Sent' /\ Sent' \subseteq Blocks /\ Sent \subseteq Nat
        /\ \A n \in Sent' \ Sent : n - Len(sent) \in 1..Len(ks) /\ n \in Nat
    BY <1>1, <1>2, FecAssumption DEF Sent, Blocks
  <2>2. \A n \in Sent' \ Sent : n = Len(sent) + (n - Len(sent))
    BY <1>2, <2>1
  <2> QED
    BY <2>1, <2>2
<1>4. Closed' = Closed
  <2>1. \A n \in Sent' : n \notin Sent => ~ (handed[n] > 0)
    <3>1. \A n \in Sent' : n \notin Sent => handed[n] = 0
      BY <1>3 DEF IInv, UnsentIsUntouched
    <3> QED
      BY <3>1
  <2>2. {n \in Sent' : handed[n] > 0} = {n \in Sent : handed[n] > 0}
    BY <1>3, <2>1, Zenon
  <2> QED
    BY <1>1, <2>2 DEF Closed
<1>5. /\ firstId \in Nat /\ firstId + MaxBlocks <= IdMod /\ IdMod \in Nat \ {0}
      /\ MaxBlocks \in Nat
  BY FecAssumption, DecoderAssumption DEF IInv, IdsAreOrdinals, OneEpoch, Ids
<1>6. blockId = firstId + Len(sent)
  <2>1. firstId + Len(sent) \in 0..IdMod-1
    BY <1>1, <1>2, <1>5
  <2>2. blockId = (firstId + Len(sent)) % IdMod
    BY DEF IInv, IdsAreOrdinals
  <2> QED
    BY <2>1, <2>2, SmallMod
<1>7. \A n \in Sent' : sent'[n].id = firstId + n - 1
  <2>1. \A n \in Sent : sent'[n].id = firstId + n - 1
    BY <1>2 DEF IInv, IdsAreOrdinals
  <2>2. ASSUME NEW i \in 1..Len(ks)
        PROVE  sent'[Len(sent) + i].id = firstId + (Len(sent) + i) - 1
    <3>1. /\ blockId + i - 1 \in 0..IdMod-1
          /\ blockId + i - 1 = firstId + (Len(sent) + i) - 1
      BY <1>1, <1>2, <1>5, <1>6
    <3>2. BlockOf(ks, r, i).id = (blockId + i - 1) % IdMod
      BY DEF BlockOf
    <3>3. sent'[Len(sent) + i] = BlockOf(ks, r, i)
      BY <1>2
    <3> QED
      BY <3>1, <3>2, <3>3, SmallMod
  <2> SUFFICES ASSUME NEW n \in Sent'
               PROVE  sent'[n].id = firstId + n - 1
    OBVIOUS
  <2>3. CASE n \in Sent
    BY <2>1, <2>3
  <2>4. CASE n \notin Sent
    <3>1. PICK i \in 1..Len(ks) : n = Len(sent) + i
      BY <1>3, <2>4
    <3>2. sent'[Len(sent) + i].id = firstId + (Len(sent) + i) - 1
      BY <2>2
    <3> QED
      BY <3>1, <3>2
  <2> QED
    BY <2>3, <2>4
<1>8. IdsAreOrdinals'
  <2>1. blockId' = (firstId + Len(sent')) % IdMod
    <3>1. blockId + Len(ks) = firstId + Len(sent')
      BY <1>2, <1>5, <1>6
    <3> QED
      BY <1>1, <3>1
  <2> QED
    BY <1>1, <1>7, <2>1 DEF IInv, IdsAreOrdinals
<1>9. \A n \in Sent : Recent(n)' <=> Recent(n)
  BY <1>4 DEF Recent
<1>10. ClosedIsRemembered'
  <2>1. Closed \subseteq Sent
    BY DEF Closed, IInv, TypeOK
  <2> QED
    BY <1>1, <1>2, <1>4, <1>9, <2>1 DEF IInv, ClosedIsRemembered
<1>11. RememberedIsRecent'
  BY <1>1, <1>2, <1>3, <1>9 DEF IInv, RememberedIsRecent, InFlight
<1>12. OpenIsHeld'
  <2> SUFFICES ASSUME NEW c \in Sent' \ Closed
               PROVE  /\ ~ (0..sent'[c].k-1 \subseteq arrived[c])
                      /\ Deliverable(c)' =>
                           /\ sent'[c].id \notin dec.completed
                           /\ arrived[c] = Held(dec, sent'[c].id)
                           /\ sent'[c].id \in InFlight(dec) =>
                                dec.blocks[sent'[c].id].k = sent'[c].k
    BY <1>1, <1>4 DEF OpenIsHeld, InFlight, Held
  <2>1. CASE c \in Sent
    <3>1. Deliverable(c)' => Deliverable(c)
      BY <1>2, <2>1, FecAssumption DEF Deliverable, Sent
    <3>2. sent'[c] = sent[c] /\ c \in Sent \ Closed
      BY <1>2, <2>1
    <3> QED
      BY <3>1, <3>2 DEF IInv, OpenIsHeld
  <2>2. CASE c \notin Sent
    <3>1. arrived[c] = {}
      BY <1>3, <2>2 DEF IInv, UnsentIsUntouched
    <3>2. sent'[c] \in BlockType
      BY SentBlock DEF TypeOK, Sent
    <3>3. 0 \in 0..sent'[c].k-1
      BY <3>2 DEF BlockType
    <3>4. sent'[c].id \notin dec.completed \cup InFlight(dec)
      <4> SUFFICES ASSUME NEW n \in Sent, sent[n].id = sent'[c].id PROVE FALSE
        BY DEF IInv, RememberedIsRecent
      <4>1. firstId + n - 1 = firstId + c - 1 /\ n \in Nat /\ c \in Nat
        BY <1>3, <1>7 DEF IInv, IdsAreOrdinals, Blocks
      <4> QED
        BY <1>5, <2>2, <4>1
    <3> QED
      BY <3>1, <3>3, <3>4 DEF Held
  <2> QED
    BY <2>1, <2>2
<1>13. UnsentIsUntouched' /\ HandedOnce'
  BY <1>1, <1>3 DEF IInv, UnsentIsUntouched, HandedOnce
<1> QED
  BY <1>8, <1>10, <1>11, <1>12, <1>13 DEF IInv

(* The encoder's actions are calls of Encode.                               *)
LEMMA EncoderStep ==
  ASSUME IInv, OneEpoch, TypeOK', NEW r \in Repairs,
         \/ \E k \in ObjectSymbols : EncodeObject(k, r)
         \/ \E chunks \in 2..MaxChunks, k \in 1..SourceSymbols : EncodePayload(chunks, k, r)
  PROVE  IInv'
<1>1. r \in Nat
  BY FecAssumption
<1>2. ASSUME NEW k \in ObjectSymbols, EncodeObject(k, r) PROVE IInv'
  <2>1. <<k>> \in Seq(Nat \ {0}) /\ Len(<<k>>) > 0
    BY FecAssumption
  <2> QED
    BY <1>1, <1>2, <2>1, EncodeStep DEF EncodeObject
<1>3. ASSUME NEW chunks \in 2..MaxChunks, NEW k \in 1..SourceSymbols,
             EncodePayload(chunks, k, r)
      PROVE  IInv'
  <2> DEFINE ks == [i \in 1..chunks |-> IF i = chunks THEN k ELSE SourceSymbols]
  <2>1. ks \in Seq(Nat \ {0}) /\ Len(ks) > 0
    BY FecAssumption
  <2> QED
    BY <1>1, <1>3, <2>1, EncodeStep DEF EncodePayload
<1> QED
  BY <1>2, <1>3

(* The window invariant holds for as long as block ids do not wrap and      *)
(* datagrams are no later than the window.                                  *)
THEOREM WindowInvariant == OneEpoch => (Spec => []IInv)
<1> SUFFICES ASSUME OneEpoch PROVE Spec => []IInv
  OBVIOUS
<1>1. Init /\ TypeOK => IInv
  <2> SUFFICES ASSUME Init, TypeOK PROVE IInv
    OBVIOUS
  <2>1. Sent = {} /\ Len(sent) = 0 /\ Closed = {}
    BY DEF Init, Sent, Closed
  <2>2. IdsAreOrdinals
    BY <2>1, FecAssumption, DecoderAssumption DEF Init, IdsAreOrdinals, Ids
  <2>3. RememberedIsRecent
    BY DEF Init, RememberedIsRecent, NewDecoder, InFlight
  <2> QED
    BY <2>1, <2>2, <2>3
       DEF Init, IInv, ClosedIsRemembered, OpenIsHeld, UnsentIsUntouched, HandedOnce
<1>2. IInv /\ TypeOK' /\ [Next]_vars => IInv'
  <2> SUFFICES ASSUME IInv, TypeOK', [Next]_vars PROVE IInv'
    OBVIOUS
  <2>1. ASSUME NEW k \in ObjectSymbols, NEW r \in Repairs, EncodeObject(k, r)
        PROVE  IInv'
    BY <2>1, EncoderStep
  <2>2. ASSUME NEW chunks \in 2..MaxChunks, NEW k \in 1..SourceSymbols,
               NEW r \in Repairs, EncodePayload(chunks, k, r)
        PROVE  IInv'
    BY <2>2, EncoderStep
  <2>3. ASSUME NEW id \in ResetIds, SetBlockId(id) PROVE IInv'
    BY <2>3 DEF OneEpoch
  <2>4. ASSUME NEW n \in Sent, NEW esi \in 0..sent[n].datagrams-1, PushArrival(n, esi)
        PROVE  IInv'
    BY <2>4, PushStep
  <2>5. ASSUME NEW n \in Sent, ExpireBlock(n) PROVE IInv'
    BY <2>5, ExpireStep DEF ExpireBlock
  <2>6. CASE UNCHANGED vars
    <3>1. Sent' = Sent /\ Closed' = Closed
      BY <2>6 DEF vars, encoder, history, Sent, Closed
    <3>2. ClosedIsRemembered' /\ RememberedIsRecent' /\ OpenIsHeld'
      BY <2>6, <3>1, QuietStep DEF vars, encoder, decoder, history
    <3>3. IdsAreOrdinals' /\ UnsentIsUntouched' /\ HandedOnce'
      BY <2>6, <3>1
         DEF vars, encoder, history, IInv, IdsAreOrdinals, UnsentIsUntouched, HandedOnce
    <3> QED
      BY <3>2, <3>3 DEF IInv
  <2> QED
    BY <2>1, <2>2, <2>3, <2>4, <2>5, <2>6 DEF Next
<1> QED
  BY <1>1, <1>2, TypeCorrect, PTL DEF Spec

(* push_datagram returns a block at most once.                              *)
THEOREM ReturnsAtMostOnce == OneEpoch => (Spec => []AtMostOnce)
<1> SUFFICES ASSUME OneEpoch PROVE Spec => []AtMostOnce
  OBVIOUS
<1>1. IInv => AtMostOnce
  BY DEF IInv, HandedOnce, AtMostOnce
<1> QED
  BY <1>1, WindowInvariant, PTL

(* No block loses the symbols it holds to the closing of another.           *)
THEOREM CompletesWhenSourcesArrive == OneEpoch => (Spec => []CompleteBlocksAreDecoded)
<1> SUFFICES ASSUME OneEpoch PROVE Spec => []CompleteBlocksAreDecoded
  OBVIOUS
<1>1. IInv => CompleteBlocksAreDecoded
  BY DEF IInv, OpenIsHeld, CompleteBlocksAreDecoded
<1> QED
  BY <1>1, WindowInvariant, PTL

(* A late datagram starts no decoder for a closed block.                    *)
THEOREM ClosedStaysClosed == OneEpoch => (Spec => []ClosedHoldsNoState)
<1> SUFFICES ASSUME OneEpoch PROVE Spec => []ClosedHoldsNoState
  OBVIOUS
<1>1. IInv => ClosedHoldsNoState
  <2> SUFFICES ASSUME IInv, NEW n \in Closed, Deliverable(n)
               PROVE  sent[n].id \notin InFlight(dec)
    BY DEF ClosedHoldsNoState
  <2>1. sent[n].id \in dec.completed
    BY DeliverableClosed DEF Deliverable
  <2> QED
    BY <2>1 DEF IInv, TypeOK, DecoderType
<1> QED
  BY <1>1, WindowInvariant, PTL

(* What the decoder remembers reaches no further back than the window.      *)
THEOREM MemoryIsTheWindow == OneEpoch => (Spec => []RemembersTheWindow)
<1> SUFFICES ASSUME OneEpoch PROVE Spec => []RemembersTheWindow
  OBVIOUS
<1>1. IInv => RemembersTheWindow
  <2> SUFFICES ASSUME IInv, NEW m \in Closed, NEW n \in Sent,
                      sent[n].id \in dec.completed \cup InFlight(dec)
               PROVE  n + CompletedWindow >= m
    BY DEF RemembersTheWindow
  <2>1. PICK c \in Sent : sent[c].id = sent[n].id /\ Recent(c)
    BY DEF IInv, RememberedIsRecent
  <2>2. c = n
    BY <2>1, IdsDiffer
  <2> QED
    BY <2>1, <2>2, DecoderAssumption DEF Recent, Closed, Sent, IInv, TypeOK
<1> QED
  BY <1>1, WindowInvariant, PTL

-----------------------------------------------------------------------------
(* Block delivery.                                                          *)

(* Encoding offers blocks.                                                  *)
LEMMA EncodeOffers ==
  ASSUME TypeOK, NEW ks \in Seq(Nat \ {0}), Len(ks) > 0, NEW r \in Nat, Encode(ks, r)
  PROVE  Delivery!Offer
<1> DEFINE new == [i \in 1..Len(ks) |-> BlockOf(ks, r, i)]
<1>1. new \in Seq(BlockType) /\ Len(new) = Len(ks)
  BY BlockOfType
<1>2. Len(sent') = Len(sent) + Len(ks) /\ Len(sent) \in Nat /\ Len(ks) \in Nat
  BY <1>1 DEF TypeOK, Encode
<1>3. Len(sent') \in Len(sent)+1..MaxBlocks
  BY <1>2, FecAssumption DEF Encode
<1> QED
  BY <1>3 DEF Encode, history, Delivery!Offer

(* Encoder and decoder implement block delivery: a block is handed over     *)
(* when it is open, and never again.                                        *)
THEOREM ImplementsDelivery == OneEpoch => (Spec => DeliverySpec)
<1> SUFFICES ASSUME OneEpoch PROVE Spec => DeliverySpec
  OBVIOUS
<1>1. Init => Delivery!Init
  BY DEF Init, Delivery!Init, Blocks
<1>2. IInv /\ [Next]_vars => [Delivery!Next]_<<Len(sent), handed, expired>>
  <2> SUFFICES ASSUME IInv, Next
               PROVE  Delivery!Next \/ UNCHANGED <<Len(sent), handed, expired>>
    BY DEF vars, encoder, history
  <2>1. ASSUME NEW k \in ObjectSymbols, NEW r \in Repairs, EncodeObject(k, r)
        PROVE  Delivery!Next
    <3>1. <<k>> \in Seq(Nat \ {0}) /\ Len(<<k>>) > 0 /\ r \in Nat
      BY FecAssumption
    <3> QED
      BY <2>1, <3>1, EncodeOffers DEF EncodeObject, IInv, Delivery!Next
  <2>2. ASSUME NEW chunks \in 2..MaxChunks, NEW k \in 1..SourceSymbols,
               NEW r \in Repairs, EncodePayload(chunks, k, r)
        PROVE  Delivery!Next
    <3> DEFINE ks == [i \in 1..chunks |-> IF i = chunks THEN k ELSE SourceSymbols]
    <3>1. ks \in Seq(Nat \ {0}) /\ Len(ks) > 0 /\ r \in Nat
      BY FecAssumption
    <3> QED
      BY <2>2, <3>1, EncodeOffers DEF EncodePayload, IInv, Delivery!Next
  <2>3. ASSUME NEW id \in ResetIds, SetBlockId(id) PROVE FALSE
    BY <2>3 DEF OneEpoch
  <2>4. ASSUME NEW n \in Sent, NEW esi \in 0..sent[n].datagrams-1, PushArrival(n, esi)
        PROVE  Delivery!Next \/ UNCHANGED <<Len(sent), handed, expired>>
    <3>1. /\ n \in Blocks /\ esi \in Nat /\ Deliverable(n)
          /\ sent' = sent /\ expired' = expired
      BY <2>4, ArrivalType DEF PushArrival, encoder, IInv
    <3>2. PICK o \in PushDatagram(dec, DatagramOf(n, esi)) :
            handed' = IF o.out = "decoded" THEN [handed EXCEPT ![n] = @ + 1] ELSE handed
      BY <2>4 DEF PushArrival
    <3>3. CASE o.out = "none"
      BY <3>1, <3>2, <3>3
    <3>4. CASE o.out = "decoded"
      <4>1. n \notin Closed
        BY <3>1, <3>4, PushCases
      <4>2. handed[n] = 0 /\ n \notin expired
        BY <3>1, <4>1 DEF Closed, IInv, TypeOK
      <4>3. handed' = [handed EXCEPT ![n] = 1]
        BY <3>1, <3>2, <3>4, <4>2 DEF IInv, TypeOK
      <4>4. Delivery!HandOver(n)
        BY <3>1, <4>2, <4>3 DEF Delivery!HandOver
      <4> QED
        BY <4>4 DEF Delivery!Next, Sent
    <3> QED
      BY <3>1, <3>3, <3>4, PushCases
  <2>5. ASSUME NEW n \in Sent, ExpireBlock(n) PROVE Delivery!Next
    <3>1. Delivery!Abandon(n)
      BY <2>5 DEF ExpireBlock, encoder, Delivery!Abandon
    <3> QED
      BY <3>1 DEF Delivery!Next, Sent
  <2> QED
    BY <2>1, <2>2, <2>3, <2>4, <2>5 DEF Next
<1> QED
  BY <1>1, <1>2, WindowInvariant, PTL DEF Spec, DeliverySpec, Delivery!Spec

-----------------------------------------------------------------------------
(* RepairEncoder: the ids on the wire are exactly those below the cursor,   *)
(* none was sent twice, and the cursor has not left the namespace.          *)

SpentIsAPrefix ==
  /\ emitted = 0..profile.k+next-1
  /\ counts = profile.k + next
  /\ responses \subseteq profile.k..profile.k+next-1

CursorIsInside == profile.k + next <= EsiLimit

RepairInv == RepairTypeOK /\ Accepts(profile) /\ SpentIsAPrefix /\ CursorIsInside

(* A response of n symbols behind the cursor b takes the n ids from b on,   *)
(* and leaves the ids spent a prefix of the namespace.                      *)
LEMMA Response ==
  ASSUME NEW b \in Nat, NEW n \in Nat
  PROVE  /\ {b + i : i \in 0..n-1} = b..b+n-1
         /\ (0..b-1) \cup (b..b+n-1) = 0..b+n-1
<1>1. ASSUME NEW e \in b..b+n-1 PROVE e \in {b + i : i \in 0..n-1}
  <2>1. e - b \in 0..n-1 /\ e = b + (e - b)
    OBVIOUS
  <2> QED
    BY <2>1
<1>2. ASSUME NEW i \in 0..n-1 PROVE b + i \in b..b+n-1
    OBVIOUS
<1>3. (0..b-1) \cup (b..b+n-1) = 0..b+n-1
    OBVIOUS
<1> QED
    BY <1>1, <1>2, <1>3

(* The encoder's first producer starts behind what the primary sent.        *)
LEMMA RepairInitInv == RepairInit => RepairInv
<1> SUFFICES ASSUME RepairInit PROVE RepairInv
    OBVIOUS
<1>1. PICK length \in Lengths, size \in SymbolSizes, k \in 0..U16Max, r \in PrimaryRepairs :
        /\ profile = [length |-> length, size |-> size, k |-> k]
        /\ Accepts(profile) /\ profile.k + r <= EsiLimit
        /\ next = r /\ sequence \in Sequences /\ open = FALSE
        /\ emitted = 0..profile.k+r-1 /\ responses = {} /\ counts = profile.k + r
    BY DEF RepairInit
<1>2. length \in 0..U32-1 /\ size \in 1..U16Max /\ k \in 0..U16Max /\ r \in Nat
    BY RepairAssumption DEF RepairAssumption
<1>3. /\ profile.length = length /\ profile.size = size /\ profile.k = k
      /\ length > 0 /\ k > 0 /\ k <= MaxSource
    BY <1>1 DEF Accepts
<1>4. RepairTypeOK
  <2>1. profile.length \in 1..U32-1 /\ profile.size \in 1..U16Max /\ profile.k \in 1..MaxSource
    BY <1>2, <1>3, RepairAssumption DEF RepairAssumption
  <2>2. next \in 0..U32-1 /\ counts \in Nat
    BY <1>1, <1>2, <1>3, RepairAssumption DEF RepairAssumption
  <2>3. sequence \in 0..U32-1 /\ open \in BOOLEAN
    BY <1>1, RepairAssumption DEF RepairAssumption
  <2>4. emitted \subseteq Nat /\ responses \subseteq Nat
    BY <1>1, <1>2, <1>3
  <2> QED
    BY <2>1, <2>2, <2>3, <2>4 DEF RepairTypeOK
<1> QED
    BY <1>1, <1>4 DEF RepairInv, SpentIsAPrefix, CursorIsInside

(* No call disturbs it: a response takes the next ids and no others.        *)
LEMMA RepairStepInv == RepairInv /\ [RepairNext]_repairVars => RepairInv'
<1> SUFFICES ASSUME RepairInv, [RepairNext]_repairVars PROVE RepairInv'
    OBVIOUS
<1> USE RepairAssumption DEF RepairAssumption
<1>1. CASE UNCHANGED repairVars
    BY <1>1 DEF repairVars, RepairInv, RepairTypeOK, Accepts, SpentIsAPrefix, CursorIsInside
<1>2. ASSUME NEW seq \in Sequences, TakeOver(seq)
      PROVE  RepairInv'
    BY <1>2 DEF TakeOver, RepairInv, RepairTypeOK, Accepts, SpentIsAPrefix, CursorIsInside
<1>3. ASSUME NEW n \in 0..U32-1, EncodeAdditional(n)
      PROVE  RepairInv'
  <2>1. profile' = profile /\ open' = open /\ open = TRUE
    BY <1>3 DEF EncodeAdditional
  <2>2. n \in Nat /\ n > 0 /\ next + n < U32 /\ next + n <= EsiLimit - profile.k
    BY <1>3 DEF EncodeAdditional, MayEncode, RangeIsFree
  <2>3. next' = next + n /\ sequence' = (sequence + n) % U32 /\ counts' = counts + n
    BY <1>3 DEF EncodeAdditional, Advanced, SequenceAfter
  <2>4. /\ responses' = {profile.k + next + i : i \in 0..n-1}
        /\ emitted' = emitted \cup responses'
    BY <1>3 DEF EncodeAdditional
  <2>5. /\ profile.k \in Nat /\ next \in Nat /\ sequence \in Nat
        /\ emitted = 0..profile.k+next-1 /\ counts = profile.k + next
    BY DEF RepairInv, RepairTypeOK, SpentIsAPrefix
  <2>6. /\ responses' = profile.k+next..profile.k+next+n-1
        /\ emitted' = 0..profile.k+next+n-1
    <3>1. profile.k + next \in Nat /\ n \in Nat
      BY <2>2, <2>5
    <3> DEFINE b == profile.k + next
    <3>2. /\ responses' = {b + i : i \in 0..n-1}
          /\ emitted' = (0..b-1) \cup responses'
      <4>1. responses' = {b + i : i \in 0..n-1}
        BY <2>4
      <4>2. emitted = 0..b-1
        BY <2>5
      <4> QED
        BY <2>4, <4>1, <4>2
    <3>3. b \in Nat
      BY <3>1
    <3> HIDE DEF b
    <3>4. responses' = b..b+n-1 /\ emitted' = 0..b+n-1
      BY <3>1, <3>2, <3>3, Response, Zenon
    <3> QED
      BY <3>4, Zenon DEF b
  <2>7. SpentIsAPrefix'
    <3>1. profile'.k + next' - 1 = profile.k + next + n - 1
      BY <2>1, <2>2, <2>3, <2>5
    <3>2. profile.k+next..profile.k+next+n-1 \subseteq profile.k..profile.k+next+n-1
      BY <2>2, <2>5
    <3>3. profile'.k = profile.k /\ counts' = profile'.k + next'
      BY <2>1, <2>2, <2>3, <2>5
    <3>4. /\ responses' \subseteq profile'.k..profile'.k+next'-1
          /\ emitted' = 0..profile'.k+next'-1
      BY <3>1, <3>2, <3>3, <2>6
    <3> QED
      BY <3>3, <3>4, Zenon DEF SpentIsAPrefix
  <2>8. CursorIsInside'
    BY <2>1, <2>2, <2>3, <2>5 DEF CursorIsInside
  <2>9. RepairTypeOK'
    <3>1. sequence' \in 0..U32-1
      BY <2>2, <2>3, <2>5
    <3>2. next' \in 0..U32-1 /\ counts' \in Nat
      BY <2>2, <2>3, <2>5
    <3>3. emitted' \subseteq Nat /\ responses' \subseteq Nat
      BY <2>2, <2>4, <2>5, <2>6
    <3> QED
      BY <3>1, <3>2, <3>3, <2>1 DEF RepairTypeOK, RepairInv
  <2> QED
    BY <2>1, <2>7, <2>8, <2>9 DEF RepairInv, Accepts
<1> QED
    BY <1>1, <1>2, <1>3 DEF RepairNext

(* The cursors stay u32 values for the life of the namespace.               *)
THEOREM RepairTypeCorrect == RepairSpec => []RepairTypeOK
<1>1. RepairInv => RepairTypeOK
    BY DEF RepairInv
<1> QED
    BY RepairInitInv, RepairStepInv, <1>1, PTL DEF RepairSpec

(* The invariant of the namespace holds in every reachable state.           *)
LEMMA RepairInvAlways == RepairSpec => []RepairInv
    BY RepairInitInv, RepairStepInv, PTL DEF RepairSpec

(* No encoding symbol id is sent twice, by the primary, by a producer or by *)
(* the producers that replace it.                                           *)
THEOREM ResponsesAreDisjoint == RepairSpec => []SymbolsAreFresh
<1>1. RepairInv => SymbolsAreFresh
  <2> SUFFICES ASSUME RepairInv PROVE SymbolsAreFresh
    OBVIOUS
  <2>1. profile.k \in Nat /\ profile.k > 0 /\ next \in Nat
    BY RepairAssumption DEF RepairInv, RepairTypeOK, RepairAssumption
  <2>2. 0 \in Int /\ profile.k + next - 1 \in Int
    BY <2>1
  <2>3. Cardinality(0..profile.k+next-1) = profile.k + next
    BY <2>1, <2>2, FS_Interval
  <2> QED
    BY <2>3 DEF RepairInv, SpentIsAPrefix, SymbolsAreFresh
<1> QED
    BY RepairInvAlways, <1>1, PTL

(* Every id fits 24 bits and responses are made of repair symbols only.     *)
THEOREM NamespaceRespected == RepairSpec => []NamespaceIsKept
<1>1. RepairInv => NamespaceIsKept
  <2> SUFFICES ASSUME RepairInv PROVE NamespaceIsKept
    OBVIOUS
  <2>1. profile.k \in Nat /\ next \in Nat /\ EsiLimit \in Nat
    BY RepairAssumption DEF RepairInv, RepairTypeOK, RepairAssumption
  <2>2. profile.k + next <= EsiLimit
    BY DEF RepairInv, CursorIsInside
  <2>3. emitted \subseteq 0..EsiLimit-1
    BY <2>1, <2>2 DEF RepairInv, SpentIsAPrefix
  <2>4. responses \cap (0..profile.k-1) = {}
    BY <2>1 DEF RepairInv, SpentIsAPrefix
  <2> QED
    BY <2>3, <2>4 DEF NamespaceIsKept
<1> QED
    BY RepairInvAlways, <1>1, PTL

(* next_encoding_symbol_id tells the id of the next symbol, or that there   *)
(* is none because all 2^24 are spent.                                      *)
THEOREM NextIsHonest == RepairSpec => []NextIsAnnounced
<1>1. RepairInv => NextIsAnnounced
  <2> SUFFICES ASSUME RepairInv PROVE NextIsAnnounced
    OBVIOUS
  <2>1. /\ profile.k \in Nat /\ profile.k > 0 /\ next \in Nat /\ EsiLimit \in Nat
        /\ U32 \in Nat /\ EsiLimit < U32 /\ profile.k + next <= EsiLimit
        /\ emitted = 0..profile.k+next-1
    BY RepairAssumption DEF RepairInv, RepairTypeOK, SpentIsAPrefix, CursorIsInside, RepairAssumption
  <2>2. CASE profile.k + next < EsiLimit
    <3>1. NextSymbolId(profile, next) = profile.k + next
      BY <2>1, <2>2 DEF NextSymbolId
    <3> QED
      BY <2>1, <2>2, <3>1 DEF NextIsAnnounced, RangeIsFree, NoSymbol
  <2>3. CASE profile.k + next = EsiLimit
    <3>1. NextSymbolId(profile, next) = NoSymbol
      BY <2>1, <2>3 DEF NextSymbolId
    <3> QED
      BY <2>1, <2>3, <3>1 DEF NextIsAnnounced, RangeIsFree, NoSymbol
  <2> QED
    BY <2>1, <2>2, <2>3
<1> QED
    BY RepairInvAlways, <1>1, PTL

(* An accepted profile declares the count that an encoder writes into its   *)
(* headers: the limit of source symbols is below the cap of that count.     *)
THEOREM DeclaredAgrees == RepairSpec => []DeclaredIsEncoded
<1>1. RepairInv => DeclaredIsEncoded
  <2> SUFFICES ASSUME RepairInv PROVE DeclaredIsEncoded
    OBVIOUS
  <2>1. profile.length > 0 /\ profile.k = DivCeil(profile.length, profile.size) /\ profile.k <= MaxSource
    BY DEF RepairInv, Accepts
  <2>2. profile.k \in Nat /\ profile.k < U16Max /\ profile.length # 0
    BY <2>1, RepairAssumption DEF RepairInv, RepairTypeOK
  <2> QED
    BY <2>1, <2>2 DEF DeclaredIsEncoded, SourceSymbolCount
<1> QED
    BY <1>1, RepairInvAlways, PTL

=============================================================================
