---------------------------- MODULE MediaFecProofs ----------------------------
(***************************************************************************)
(* Proofs about MediaFec and MediaBackfill, for every value of their        *)
(* constants.  The first part is about frames, and holds whether or not a   *)
(* backfill store answers; the second is about the store.                   *)
(***************************************************************************)
EXTENDS MediaBackfill, Facts

-----------------------------------------------------------------------------
(* The datagrams of blocks.                                                 *)

KeyIds == Streams \X Nat
Datagram == [block : Nat, esi : Nat]
BlockType == [key : KeyIds, index : Nat]

(* A part of a send plan that has datagrams of the given blocks only, and   *)
(* of each of them the symbols from a to b.                                 *)
Sends(part, ns, a, b) ==
  /\ part \in Seq(Datagram)
  /\ \A x \in Range(part) : x.block \in ns
  /\ \A n \in ns, e \in a..b : [block |-> n, esi |-> e] \in Range(part)

(* The datagrams of one block are such a part.                              *)
LEMMA DatagramsAre ==
  ASSUME NEW n \in Nat, NEW a \in Nat, NEW b \in Int, a <= b + 1
  PROVE  Sends(Datagrams(n, a..b), {n}, a, b)
<1> DEFINE size == b - a + 1
           part == [i \in 1..size |-> [block |-> n, esi |-> a + i - 1]]
<1>1. size \in Nat /\ Cardinality(a..b) = size
  <2>1. Cardinality(a..b) = IF a > b THEN 0 ELSE b - a + 1
    BY FS_Interval
  <2> QED
    BY <2>1
<1>2. a..b # {} => Min(a..b) = a
  BY DEF Min
<1>3. Datagrams(n, a..b) = part
  <2>1. CASE a..b = {}
    <3>1. size = 0
      BY <2>1
    <3>2. 1..size = {}
      BY <3>1
    <3>3. Datagrams(n, a..b) = [i \in 1..size |-> [block |-> n, esi |-> Min(a..b) + i - 1]]
      BY <1>1 DEF Datagrams
    <3> QED
      BY <3>2, <3>3
  <2>2. CASE a..b # {}
    BY <1>1, <1>2, <2>2 DEF Datagrams
  <2> QED
    BY <2>1, <2>2
<1>4. part \in Seq(Datagram) /\ Len(part) = size /\ \A i \in 1..size : part[i].block = n
  <2>1. \A i \in 1..size : part[i] \in Datagram /\ part[i].block = n
    BY <1>1 DEF Datagram
  <2> QED
    BY <1>1, <2>1
<1>5. ASSUME NEW e \in a..b PROVE \E i \in 1..size : part[i] = [block |-> n, esi |-> e]
  <2>1. e - a + 1 \in 1..size /\ a + (e - a + 1) - 1 = e
    OBVIOUS
  <2> QED
    BY <2>1
<1> HIDE DEF part, size
<1>6. Range(part) = {part[i] : i \in 1..size}
  BY <1>4, RangeIs
<1> QED
  BY <1>3, <1>4, <1>5, <1>6 DEF Sends

(* What sequences put one behind the other have is what each of them has.   *)
LEMMA FlattenHas ==
  ASSUME NEW A, NEW ss \in Seq(Seq(A))
  PROVE  /\ FlattenSeq(ss) \in Seq(A)
         /\ \A x : x \in Range(FlattenSeq(ss)) <=> \E i \in 1..Len(ss) : x \in Range(ss[i])
<1> DEFINE flat == FlattenSeq(ss)
<1>1. PICK row, col : Places(ss, Len(ss), flat, row, col)
  BY FlattenPlaces
<1>2. flat \in Seq(A) /\ \A i \in 1..Len(ss) : ss[i] \in Seq(A)
  BY FlattenPlaces
<1> HIDE DEF flat
<1>3. \A s \in Seq(A) : \A x : x \in Range(s) <=> \E j \in 1..Len(s) : x = s[j]
  BY DEF Range
<1>4. ASSUME NEW x, x \in Range(flat) PROVE \E i \in 1..Len(ss) : x \in Range(ss[i])
  <2>1. PICK k \in 1..Len(flat) : x = flat[k]
    BY <1>2, <1>3, <1>4
  <2>2. row[k] \in 1..Len(ss) /\ col[k] \in 1..Len(ss[row[k]]) /\ x = ss[row[k]][col[k]]
    BY <1>1, <2>1 DEF Places
  <2> QED
    BY <1>2, <1>3, <2>2
<1>5. ASSUME NEW x, NEW i \in 1..Len(ss), x \in Range(ss[i]) PROVE x \in Range(flat)
  <2>1. PICK j \in 1..Len(ss[i]) : x = ss[i][j]
    BY <1>2, <1>3, <1>5
  <2>2. PICK k \in 1..Len(flat) : row[k] = i /\ col[k] = j
    BY <1>1 DEF Places
  <2>3. flat[k] = x
    BY <1>1, <2>1, <2>2 DEF Places
  <2> QED
    BY <1>2, <1>3, <2>3
<1> QED
  BY <1>2, <1>4, <1>5 DEF flat

(* Of each of two kinds of symbols, those of every block of ns.             *)
LEMMA PartOfPlan ==
  ASSUME NEW ns \in Seq(Nat), NEW a \in Nat, NEW b \in Int, a <= b + 1
  PROVE  Sends(FlattenSeq([i \in DOMAIN ns |-> Datagrams(ns[i], a..b)]), Range(ns), a, b)
<1> DEFINE ss == [i \in DOMAIN ns |-> Datagrams(ns[i], a..b)]
<1>1. DOMAIN ns = 1..Len(ns) /\ Len(ns) \in Nat /\ \A i \in 1..Len(ns) : ns[i] \in Nat
  OBVIOUS
<1>2. \A i \in 1..Len(ns) : Sends(Datagrams(ns[i], a..b), {ns[i]}, a, b)
  BY <1>1, DatagramsAre
<1>3. /\ ss \in Seq(Seq(Datagram)) /\ Len(ss) = Len(ns)
      /\ \A i \in 1..Len(ns) : Sends(ss[i], {ns[i]}, a, b)
  <2>1. \A i \in 1..Len(ns) : Datagrams(ns[i], a..b) \in Seq(Datagram)
    BY <1>2 DEF Sends
  <2> QED
    BY <1>1, <1>2, <2>1
<1>4. \A x : x \in Range(ns) <=> \E i \in 1..Len(ns) : x = ns[i]
  BY <1>1 DEF Range
<1> HIDE DEF ss
<1>5. /\ FlattenSeq(ss) \in Seq(Datagram)
      /\ \A x : x \in Range(FlattenSeq(ss)) <=> \E i \in 1..Len(ss) : x \in Range(ss[i])
  BY <1>3, FlattenHas
<1>6. /\ \A x \in Range(FlattenSeq(ss)) : x.block \in Range(ns)
      /\ \A n \in Range(ns), e \in a..b : [block |-> n, esi |-> e] \in Range(FlattenSeq(ss))
  <2>1. ASSUME NEW x \in Range(FlattenSeq(ss)) PROVE x.block \in Range(ns)
    <3>1. PICK i \in 1..Len(ss) : x \in Range(ss[i])
      BY <1>5, <2>1
    <3>2. x.block = ns[i]
      BY <1>3, <3>1 DEF Sends
    <3> QED
      BY <1>3, <1>4, <3>1, <3>2
  <2>2. ASSUME NEW n \in Range(ns), NEW e \in a..b PROVE [block |-> n, esi |-> e] \in Range(FlattenSeq(ss))
    <3>1. PICK i \in 1..Len(ns) : n = ns[i]
      BY <1>4, <2>2
    <3>2. [block |-> n, esi |-> e] \in Range(ss[i])
      BY <1>3, <3>1 DEF Sends
    <3> QED
      BY <1>3, <1>5, <3>1, <3>2
  <2> QED
    BY <2>1, <2>2
<1> QED
  BY <1>5, <1>6 DEF ss, Sends

(* Two sequences, one behind the other.                                     *)
LEMMA BothAre ==
  ASSUME NEW A, NEW s \in Seq(A), NEW t \in Seq(A)
  PROVE  /\ s \o t \in Seq(A) /\ Len(s \o t) = Len(s) + Len(t)
         /\ \A i \in 1..Len(s) : (s \o t)[i] = s[i]
         /\ \A i \in 1..Len(t) : (s \o t)[Len(s) + i] = t[i]
OBVIOUS

(* Together they have what each of them has.                                *)
LEMMA RangeOfBoth ==
  ASSUME NEW A, NEW s \in Seq(A), NEW t \in Seq(A)
  PROVE  s \o t \in Seq(A) /\ Range(s \o t) = Range(s) \cup Range(t)
<1> DEFINE u == s \o t
<1>1. /\ u \in Seq(A) /\ Len(u) = Len(s) + Len(t) /\ Len(s) \in Nat /\ Len(t) \in Nat
      /\ \A i \in 1..Len(s) : u[i] = s[i]
      /\ \A i \in 1..Len(t) : u[Len(s) + i] = t[i]
  OBVIOUS
<1> HIDE DEF u
<1>2. \A k \in 1..Len(s) + Len(t) : k \in 1..Len(s) \/ (k - Len(s) \in 1..Len(t) /\ k = Len(s) + (k - Len(s)))
  BY <1>1
<1>3. /\ \A i \in 1..Len(s) : i \in 1..Len(s) + Len(t)
      /\ \A i \in 1..Len(t) : Len(s) + i \in 1..Len(s) + Len(t)
  BY <1>1
<1>4. Range(u) = {u[k] : k \in 1..Len(u)} /\ Range(s) = {s[i] : i \in 1..Len(s)} /\ Range(t) = {t[i] : i \in 1..Len(t)}
  <2>1. \A w \in Seq(A) : Range(w) = {w[i] : i \in 1..Len(w)}
    BY RangeIs
  <2> QED
    BY <1>1, <2>1
<1>5. Range(u) \subseteq Range(s) \cup Range(t)
  <2> SUFFICES ASSUME NEW k \in 1..Len(s) + Len(t) PROVE u[k] \in Range(s) \cup Range(t)
    BY <1>1, <1>4
  <2>1. CASE k \in 1..Len(s)
    BY <1>1, <1>4, <2>1
  <2>2. CASE k - Len(s) \in 1..Len(t) /\ k = Len(s) + (k - Len(s))
    BY <1>1, <1>4, <2>2
  <2> QED
    BY <1>2, <2>1, <2>2
<1>6. Range(s) \subseteq Range(u) /\ Range(t) \subseteq Range(u)
  BY <1>1, <1>3, <1>4
<1> QED
  BY <1>1, <1>5, <1>6 DEF u

(* encode_frame lists the datagrams of the blocks it is given, the source   *)
(* symbols of each of them among them, and datagram_send_plan sends the     *)
(* same, in either order.                                                   *)
LEMMA PlanIs ==
  ASSUME NEW ns \in Seq(Nat), NEW plan \in {EncodedOrder(ns), SendPlan(ns)}
  PROVE  /\ plan \in Seq(Datagram)
         /\ \A x \in Range(plan) : x.block \in Range(ns)
         /\ \A n \in Range(ns), e \in Sources : [block |-> n, esi |-> e] \in Range(plan)
<1> DEFINE part(a, b) == FlattenSeq([i \in DOMAIN ns |-> Datagrams(ns[i], a..b)])
<1>1. K \in Nat /\ K > 0 /\ Repair \in Nat
  BY MediaAssumption DEF MediaAssumption
<1>2. /\ Sends(part(0, K-1), Range(ns), 0, K-1)
      /\ Sends(part(K, K+Repair-1), Range(ns), K, K+Repair-1)
      /\ Sends(part(0, K+Repair-1), Range(ns), 0, K+Repair-1)
  <2>1. K - 1 \in Int /\ 0 <= (K - 1) + 1
    BY <1>1
  <2>2. K + Repair - 1 \in Int /\ K <= (K + Repair - 1) + 1 /\ 0 <= (K + Repair - 1) + 1
    BY <1>1
  <2> QED
    BY <1>1, <2>1, <2>2, PartOfPlan
<1>3. Sources = 0..K-1 /\ RepairIds = K..K+Repair-1 /\ Sources \cup RepairIds = 0..K+Repair-1 /\ 0..K-1 \subseteq 0..K+Repair-1
  BY <1>1 DEF Sources, RepairIds
<1>4. CASE plan = EncodedOrder(ns)
  <2>1. plan = part(0, K+Repair-1)
    BY <1>3, <1>4 DEF EncodedOrder
  <2> HIDE DEF part
  <2> QED
    BY <1>2, <1>3, <2>1 DEF Sends
<1>5. CASE plan = SendPlan(ns) /\ Order # "Encoded"
  <2>1. plan = part(0, K-1) \o part(K, K+Repair-1)
    BY <1>3, <1>5 DEF SendPlan
  <2> HIDE DEF part
  <2>2. /\ plan \in Seq(Datagram)
        /\ Range(plan) = Range(part(0, K-1)) \cup Range(part(K, K+Repair-1))
    BY <1>2, <2>1, RangeOfBoth DEF Sends
  <2> QED
    BY <1>2, <1>3, <2>2 DEF Sends
<1> QED
  BY <1>4, <1>5 DEF SendPlan

-----------------------------------------------------------------------------
(* Frames.                                                                  *)

(* Every block is a fragment of a frame that was encoded, and every         *)
(* datagram belongs to a block.                                             *)
BlocksFit ==
  /\ blocks \in Seq(BlockType)
  /\ \A n \in 1..Len(blocks) : blocks[n].key \in Keys /\ blocks[n].index \in 1..counts[blocks[n].key]
  /\ wire \in Seq(Datagram)
  /\ \A i \in 1..Len(wire) : wire[i].block \in 1..Len(blocks)

(* Keys are given out once, in the order of the sequence numbers, and the   *)
(* decoder knows no others.                                                 *)
KeysAreOld ==
  /\ \A s \in Streams : s \in DOMAIN nextSeq /\ nextSeq[s] \in Nat
  /\ \A key \in Keys : key \in KeyIds /\ key[2] < nextSeq[key[1]] /\ counts[key] \in Nat \ {0}
  /\ DOMAIN decoded = Keys /\ DOMAIN returned = Keys
  /\ DOMAIN partial \subseteq Keys /\ completed \subseteq Keys

(* A frame whose fragments were all decoded was returned, left no partial   *)
(* frame, and is remembered while it is recent; of another frame the        *)
(* decoder holds just the fragments that were decoded.                      *)
FrameIsTold(key) ==
  /\ decoded[key] \subseteq 1..counts[key]
  /\ IF decoded[key] = 1..counts[key]
     THEN returned[key] = 1 /\ key \notin DOMAIN partial /\ (Recent(key) => key \in completed)
     ELSE returned[key] = 0 /\ key \notin completed /\ Gathered(key) = decoded[key]

FrameInv == BlocksFit /\ KeysAreOld /\ \A key \in Keys : FrameIsTold(key)

(* The window of completed frames and the blocks have their sizes.          *)
LEMMA Sizes == FrameWindow \in Nat /\ K \in Nat /\ K > 0
<1>1. FrameWindow \in Nat \ {0} /\ K \in Nat \ {0}
  BY MediaAssumption, Zenon DEF MediaAssumption
<1> QED
  BY <1>1

(* Before the first frame there is nothing to tell.                         *)
LEMMA FrameInit == Init => FrameInv
<1> SUFFICES ASSUME Init PROVE FrameInv
  OBVIOUS
<1>1. Keys = {} /\ DOMAIN partial = {} /\ DOMAIN decoded = {} /\ DOMAIN returned = {} /\ completed = {}
  BY DEF Init, Keys
<1>2. KeysAreOld
  BY <1>1, MediaAssumption DEF Init, KeysAreOld, MediaAssumption
<1>3. blocks \in Seq(BlockType) /\ Len(blocks) = 0 /\ wire \in Seq(Datagram) /\ Len(wire) = 0
  BY DEF Init
<1> QED
  BY <1>1, <1>2, <1>3 DEF FrameInv, BlocksFit

(* encode_frame appends a block for each fragment, lists the datagrams of   *)
(* these blocks, and puts no others on the wire.                            *)
LEMMA EncodeIs ==
  ASSUME NEW key \in KeyIds, NEW count \in Nat, BlocksFit, EncodeFrame(key, count)
  PROVE  /\ blocks' \in Seq(BlockType) /\ Len(blocks') = Len(blocks) + count
         /\ \A n \in 1..Len(blocks) : blocks'[n] = blocks[n]
         /\ \A i \in 1..count : blocks'[Len(blocks) + i] = [key |-> key, index |-> i]
         /\ Len(blocks') <= MaxBlocks
         /\ wire' \in Seq(Datagram)
         /\ \A x \in Range(wire') : x \in Range(wire) \/ x.block \in Len(blocks)+1..Len(blocks)+count
         /\ LastEncoded \in Seq(Datagram)
         /\ \A x \in Range(LastEncoded) : x.block \in Len(blocks)+1..Len(blocks)+count
         /\ \A i \in 1..count, e \in Sources : [block |-> Len(blocks) + i, esi |-> e] \in Range(LastEncoded)
<1> DEFINE b == Len(blocks)
           ns == [i \in 1..count |-> b + i]
           new == [i \in 1..count |-> [key |-> key, index |-> i]]
<1>1. b \in Nat /\ blocks \in Seq(BlockType) /\ wire \in Seq(Datagram)
  BY DEF BlocksFit
<1>2. ns \in Seq(Nat) /\ Len(ns) = count /\ Range(ns) = b+1..b+count
  <2>1. \A i \in 1..count : b + i \in Nat
    BY <1>1
  <2>2. ns \in Seq(Nat) /\ Len(ns) = count /\ DOMAIN ns = 1..count
    BY <2>1
  <2>3. \A n \in b+1..b+count : n - b \in 1..count /\ b + (n - b) = n
    BY <1>1
  <2>4. \A i \in 1..count : b + i \in b+1..b+count
    BY <1>1
  <2> QED
    BY <2>2, <2>3, <2>4 DEF Range
<1>3. new \in Seq(BlockType) /\ Len(new) = count /\ \A i \in 1..count : new[i] = [key |-> key, index |-> i]
  BY DEF BlockType
<1>4. b + count <= MaxBlocks /\ blocks' = blocks \o new /\ wire' = wire \o SendPlan(ns)
  BY DEF EncodeFrame
<1> HIDE DEF ns, new
<1>5. \A plan \in {EncodedOrder(ns), SendPlan(ns)} :
         /\ plan \in Seq(Datagram)
         /\ \A x \in Range(plan) : x.block \in Range(ns)
         /\ \A n \in Range(ns), e \in Sources : [block |-> n, esi |-> e] \in Range(plan)
  BY <1>2, PlanIs
<1>6. wire' \in Seq(Datagram) /\ Range(wire') = Range(wire) \cup Range(SendPlan(ns))
  BY <1>1, <1>4, <1>5, RangeOfBoth
<1>7. /\ blocks' \in Seq(BlockType) /\ Len(blocks') = b + count
      /\ \A n \in 1..b : blocks'[n] = blocks[n]
      /\ \A i \in 1..count : blocks'[b + i] = new[i]
  <2> DEFINE all == blocks \o new
  <2>1. /\ all \in Seq(BlockType) /\ Len(all) = b + Len(new)
        /\ \A n \in 1..b : all[n] = blocks[n]
        /\ \A i \in 1..Len(new) : all[b + i] = new[i]
    <3>1. blocks \in Seq(BlockType) /\ new \in Seq(BlockType)
      BY <1>1, <1>3
    <3> QED
      BY <3>1, BothAre, SMT
  <2> HIDE DEF all
  <2>2. blocks' = all
    BY <1>4 DEF all
  <2> QED
    BY <1>3, <2>1, <2>2
<1>8. \A i \in 1..count : b + i \in Range(ns)
  BY <1>1, <1>2
<1>9. LastEncoded = EncodedOrder(ns)
  BY <1>1, <1>7 DEF LastEncoded, ns
<1> QED
  BY <1>2, <1>3, <1>4, <1>5, <1>6, <1>7, <1>8, <1>9

(* New blocks are fragments of their frame too.                             *)
LEMMA EncodeFits ==
  ASSUME NEW key \in KeyIds, NEW count \in Nat, BlocksFit, EncodeFrame(key, count),
         key \in Keys', counts'[key] = count,
         \A c \in Keys : c \in Keys' /\ counts'[c] = counts[c]
  PROVE  BlocksFit'
<1> DEFINE b == Len(blocks)
<1>1. /\ blocks' \in Seq(BlockType) /\ Len(blocks') = b + count
      /\ \A n \in 1..b : blocks'[n] = blocks[n]
      /\ \A i \in 1..count : blocks'[b + i] = [key |-> key, index |-> i]
      /\ wire' \in Seq(Datagram)
      /\ \A x \in Range(wire') : x \in Range(wire) \/ x.block \in b+1..b+count
  BY EncodeIs
<1>2. b \in Nat /\ wire \in Seq(Datagram) /\ \A i \in 1..Len(wire) : wire[i].block \in 1..b
  BY DEF BlocksFit
<1>3. \A n \in 1..b+count : n \in 1..b \/ (n - b \in 1..count /\ n = b + (n - b))
  BY <1>2
<1>4. ASSUME NEW n \in 1..b+count
      PROVE  blocks'[n].key \in Keys' /\ blocks'[n].index \in 1..counts'[blocks'[n].key]
  <2>1. CASE n \in 1..b
    <3>1. blocks'[n] = blocks[n] /\ blocks[n].key \in Keys /\ blocks[n].index \in 1..counts[blocks[n].key]
      BY <1>1, <2>1 DEF BlocksFit
    <3> QED
      BY <3>1
  <2>2. CASE n - b \in 1..count /\ n = b + (n - b)
    <3>1. blocks'[n] = [key |-> key, index |-> n - b]
      BY <1>1, <2>2
    <3> QED
      BY <2>2, <3>1
  <2> QED
    BY <1>3, <2>1, <2>2
<1>5. \A i \in 1..Len(wire') : wire'[i].block \in 1..b+count
  <2> TAKE i \in 1..Len(wire')
  <2>1. wire'[i] \in Range(wire')
    BY <1>1 DEF Range
  <2>2. \A x \in Range(wire) : x.block \in 1..b
    BY <1>2 DEF Range
  <2>3. 1..b \subseteq 1..b+count /\ b+1..b+count \subseteq 1..b+count
    BY <1>2
  <2> QED
    BY <1>1, <2>1, <2>2, <2>3
<1> QED
  BY <1>1, <1>4, <1>5 DEF BlocksFit

(* A frame that is encoded for the first time has a key of its own.         *)
LEMMA NewFrameStep ==
  ASSUME FrameInv, NEW s \in Streams, NEW count \in Fragments, EncodeNewFrame(s, count)
  PROVE  FrameInv'
<1> SUFFICES ASSUME NEW key, key = <<s, nextSeq[s]>> PROVE FrameInv'
  OBVIOUS
<1>1. s \in DOMAIN nextSeq /\ nextSeq[s] \in Nat /\ key \in KeyIds /\ key \notin Keys
  BY DEF FrameInv, KeysAreOld, KeyIds
<1>2. count \in Nat \ {0}
  BY MediaAssumption DEF MediaAssumption
<1>3. /\ EncodeFrame(key, count) /\ nextSeq' = [nextSeq EXCEPT ![s] = @ + 1]
      /\ counts' = Put(counts, key, count) /\ decoded' = Put(decoded, key, {}) /\ returned' = Put(returned, key, 0)
      /\ partial' = partial /\ completed' = completed
  BY DEF EncodeNewFrame, EncodeFrame, receiver
<1>4. /\ DOMAIN decoded = Keys /\ DOMAIN returned = Keys /\ DOMAIN partial \subseteq Keys /\ completed \subseteq Keys
      /\ BlocksFit /\ \A c \in Keys : FrameIsTold(c)
  BY DEF FrameInv, KeysAreOld
<1>5. /\ Keys' = Keys \cup {key} /\ DOMAIN decoded' = Keys' /\ DOMAIN returned' = Keys'
      /\ counts'[key] = count /\ decoded'[key] = {} /\ returned'[key] = 0
      /\ \A c \in Keys : counts'[c] = counts[c] /\ decoded'[c] = decoded[c] /\ returned'[c] = returned[c]
  BY <1>1, <1>3, <1>4 DEF Put, Keys
<1>6. BlocksFit'
  BY <1>1, <1>2, <1>3, <1>4, <1>5, EncodeFits
<1>7. KeysAreOld'
  <2>1. \A r \in Streams : r \in DOMAIN nextSeq' /\ nextSeq'[r] \in Nat /\ nextSeq'[r] >= nextSeq[r]
    BY <1>1, <1>3 DEF FrameInv, KeysAreOld
  <2>2. key \in KeyIds /\ key[2] < nextSeq'[key[1]]
    BY <1>1, <1>3
  <2>3. \A c \in Keys : c \in KeyIds /\ c[2] < nextSeq'[c[1]] /\ counts'[c] \in Nat \ {0}
    <3> TAKE c \in Keys
    <3>1. c \in KeyIds /\ c[2] < nextSeq[c[1]] /\ counts[c] \in Nat \ {0}
      BY DEF FrameInv, KeysAreOld
    <3>2. c[1] \in Streams /\ c[2] \in Nat
      BY <3>1 DEF KeyIds
    <3>3. nextSeq[c[1]] \in Nat
      BY <3>2 DEF FrameInv, KeysAreOld
    <3> QED
      BY <1>5, <2>1, <3>1, <3>2, <3>3
  <2> QED
    BY <1>2, <1>3, <1>4, <1>5, <2>1, <2>2, <2>3 DEF KeysAreOld
<1>8. ASSUME NEW c \in Keys PROVE FrameIsTold(c)'
  <2>1. FrameIsTold(c)
    BY <1>4
  <2>2. Recent(c)' => Recent(c)
    <3>1. c[1] \in Streams /\ c[2] \in Nat /\ FrameWindow \in Nat
      BY Sizes DEF FrameInv, KeysAreOld, KeyIds
    <3>2. nextSeq[c[1]] \in Nat /\ nextSeq'[c[1]] \in Nat /\ nextSeq[c[1]] <= nextSeq'[c[1]]
      BY <1>1, <1>3, <3>1 DEF FrameInv, KeysAreOld
    <3> QED
      BY <3>1, <3>2 DEF Recent
  <2>3. Gathered(c)' = Gathered(c)
    BY <1>3 DEF Gathered
  <2> QED
    BY <1>3, <1>5, <2>1, <2>2, <2>3 DEF FrameIsTold
<1>9. FrameIsTold(key)'
  <2>1. decoded'[key] = {} /\ 1..counts'[key] # {} /\ returned'[key] = 0
    <3>1. 1 \in 1..count
      BY <1>2
    <3> QED
      BY <1>5, <3>1
  <2>2. key \notin completed' /\ Gathered(key)' = {}
    BY <1>1, <1>3, <1>4 DEF Gathered
  <2> QED
    BY <2>1, <2>2 DEF FrameIsTold
<1> QED
  BY <1>5, <1>6, <1>7, <1>8, <1>9 DEF FrameInv

(* A copy changes nothing that the decoder was told.                        *)
LEMMA CopyStep ==
  ASSUME FrameInv, NEW key \in Keys, EncodeAgain(key)
  PROVE  FrameInv'
<1>1. /\ EncodeFrame(key, counts[key]) /\ UNCHANGED <<nextSeq, counts, decoded, returned, partial, completed>>
  BY DEF EncodeAgain, EncodeFrame, receiver
<1>2. key \in KeyIds /\ counts[key] \in Nat /\ BlocksFit
  BY DEF FrameInv, KeysAreOld
<1>3. Keys' = Keys
  BY <1>1 DEF Keys
<1>4. BlocksFit'
  BY <1>1, <1>2, <1>3, EncodeFits
<1>5. KeysAreOld'
  BY <1>1, <1>3 DEF FrameInv, KeysAreOld
<1>6. \A c \in Keys : FrameIsTold(c)'
  BY <1>1 DEF FrameInv, FrameIsTold, Recent, Gathered
<1> QED
  BY <1>3, <1>4, <1>5, <1>6 DEF FrameInv

(* The window of completed frames prunes none that is recent.               *)
LEMMA RecentIsKept ==
  ASSUME KeysAreOld, NEW key \in Keys, NEW c \in Keys, Recent(c)
  PROVE  Keeps(key, c)
<1>1. FrameWindow \in Nat /\ key \in KeyIds /\ c \in KeyIds /\ key[2] < nextSeq[key[1]]
  <2>1. FrameWindow \in Nat
    BY Sizes
  <2> QED
    BY <2>1 DEF KeysAreOld
<1>2. key[1] \in Streams /\ key[2] \in Nat /\ c[2] \in Nat
  BY <1>1 DEF KeyIds
<1>3. nextSeq[key[1]] \in Nat
  BY <1>2 DEF KeysAreOld
<1>4. CASE key[1] = c[1]
  <2>1. c[2] + FrameWindow >= nextSeq[key[1]] - 1
    BY <1>4 DEF Recent
  <2> QED
    BY <1>1, <1>2, <1>3, <2>1 DEF Keeps
<1> QED
  BY <1>4 DEF Keeps

(* A fragment whose block was decoded, of a recent frame: the one that was  *)
(* missing returns the frame, a copy of a returned frame is suppressed.     *)
LEMMA FragmentStep ==
  ASSUME FrameInv, NEW key \in Keys, NEW index \in 1..counts[key], Recent(key),
         decoded' = [decoded EXCEPT ![key] = @ \cup {index}], TakeFragment(key, index),
         UNCHANGED <<nextSeq, counts, blocks, wire>>
  PROVE  FrameInv'
<1> DEFINE now == Gathered(key) \cup {index}
<1>1. /\ DOMAIN decoded = Keys /\ DOMAIN returned = Keys /\ DOMAIN partial \subseteq Keys /\ completed \subseteq Keys
      /\ BlocksFit /\ KeysAreOld /\ \A c \in Keys : FrameIsTold(c)
  BY DEF FrameInv, KeysAreOld
<1>2. Keys' = Keys /\ counts' = counts /\ DOMAIN decoded' = Keys /\ \A c \in Keys : Recent(c)' <=> Recent(c)
  BY <1>1 DEF Keys, Recent
<1>3. /\ decoded'[key] = decoded[key] \cup {index}
      /\ \A c \in Keys : c # key => decoded'[c] = decoded[c]
  BY <1>1
<1>4. BlocksFit'
  BY <1>1, <1>2 DEF BlocksFit
<1>5. CASE key \in completed
  <2>1. UNCHANGED <<partial, completed, returned>>
    BY <1>5 DEF TakeFragment
  <2>2. decoded[key] = 1..counts[key]
    BY <1>1, <1>5 DEF FrameIsTold
  <2>3. \A c \in Keys : decoded'[c] = decoded[c]
    BY <1>1, <1>3, <2>2
  <2>4. KeysAreOld'
    BY <1>1, <1>2, <2>1, <2>3 DEF KeysAreOld
  <2>5. \A c \in Keys : FrameIsTold(c)'
    BY <1>1, <1>2, <2>1, <2>3 DEF FrameIsTold, Gathered
  <2> QED
    BY <1>2, <1>4, <2>4, <2>5 DEF FrameInv
<1>6. CASE key \notin completed
  <2>1. decoded[key] # 1..counts[key]
    BY <1>1, <1>6 DEF FrameIsTold
  <2>2. /\ returned[key] = 0 /\ Gathered(key) = decoded[key] /\ decoded[key] \subseteq 1..counts[key]
    BY <1>1, <2>1 DEF FrameIsTold
  <2>3. now = decoded'[key] /\ now \subseteq 1..counts[key] /\ AddFragment(key, index)
    BY <1>3, <1>6, <2>2 DEF TakeFragment
  <2>4. CASE now = 1..counts[key]
    <3>1. /\ partial' = Restrict(partial, DOMAIN partial \ {key})
          /\ completed' = {c \in completed \cup {key} : Keeps(key, c)}
          /\ returned' = [returned EXCEPT ![key] = @ + 1]
      BY <2>3, <2>4 DEF AddFragment
    <3>2. /\ DOMAIN partial' = DOMAIN partial \ {key}
          /\ \A c \in DOMAIN partial' : partial'[c] = partial[c]
      BY <3>1 DEF Restrict
    <3>3. KeysAreOld'
      BY <1>1, <1>2, <3>1, <3>2 DEF KeysAreOld
    <3>4. FrameIsTold(key)'
      <4>1. key \in completed'
        BY <1>1, <3>1, RecentIsKept
      <4> QED
        BY <1>1, <1>2, <2>2, <2>3, <2>4, <3>1, <3>2, <4>1 DEF FrameIsTold
    <3>5. ASSUME NEW c \in Keys, c # key PROVE FrameIsTold(c)'
      <4>1. FrameIsTold(c) /\ decoded'[c] = decoded[c] /\ returned'[c] = returned[c] /\ Gathered(c)' = Gathered(c)
        BY <1>1, <1>3, <3>1, <3>2, <3>5 DEF Gathered
      <4>2. (c \in DOMAIN partial' <=> c \in DOMAIN partial) /\ (c \in completed' => c \in completed)
        BY <3>1, <3>2, <3>5
      <4>3. Recent(c) /\ c \in completed => c \in completed'
        BY <1>1, <3>1, RecentIsKept
      <4> QED
        BY <1>2, <4>1, <4>2, <4>3 DEF FrameIsTold
    <3> QED
      BY <1>2, <1>4, <3>3, <3>4, <3>5 DEF FrameInv
  <2>5. CASE now # 1..counts[key]
    <3>1. partial' = Put(partial, key, now) /\ completed' = completed /\ returned' = returned
      BY <2>3, <2>5 DEF AddFragment
    <3>2. /\ DOMAIN partial' = DOMAIN partial \cup {key} /\ partial'[key] = now
          /\ \A c \in DOMAIN partial : c # key => partial'[c] = partial[c]
      BY <3>1 DEF Put
    <3> HIDE DEF now
    <3>3. KeysAreOld'
      BY <1>1, <1>2, <3>1, <3>2 DEF KeysAreOld
    <3>4. FrameIsTold(key)'
      BY <1>2, <1>6, <2>2, <2>3, <2>5, <3>1, <3>2 DEF FrameIsTold, Gathered
    <3>5. ASSUME NEW c \in Keys, c # key PROVE FrameIsTold(c)'
      <4>1. FrameIsTold(c) /\ decoded'[c] = decoded[c] /\ Gathered(c)' = Gathered(c)
        BY <1>1, <1>3, <3>2, <3>5 DEF Gathered
      <4>2. c \in DOMAIN partial' <=> c \in DOMAIN partial
        BY <3>2, <3>5
      <4> QED
        BY <1>2, <3>1, <4>1, <4>2 DEF FrameIsTold
    <3> QED
      BY <1>2, <1>4, <3>3, <3>4, <3>5 DEF FrameInv
  <2> QED
    BY <2>4, <2>5
<1> QED
  BY <1>5, <1>6

(* A datagram, from the wire or from the store, of a frame that is recent.  *)
LEMMA SymbolStep ==
  ASSUME FrameInv, NEW n \in 1..Len(blocks), NEW esi, Recent(blocks[n].key), PushSymbol(n, esi),
         UNCHANGED sender
  PROVE  FrameInv'
<1>1. UNCHANGED <<nextSeq, counts, blocks, wire>>
  BY DEF sender
<1>2. blocks[n].key \in Keys /\ blocks[n].index \in 1..counts[blocks[n].key]
  BY DEF FrameInv, BlocksFit
<1>3. CASE /\ decoded' = [decoded EXCEPT ![blocks[n].key] = @ \cup {blocks[n].index}]
           /\ TakeFragment(blocks[n].key, blocks[n].index)
  BY <1>1, <1>2, <1>3, FragmentStep
<1>4. CASE UNCHANGED <<partial, completed, decoded, returned>>
  <2>1. Keys' = Keys
    BY <1>1 DEF Keys
  <2>2. BlocksFit' /\ KeysAreOld'
    BY <1>1, <1>4, <2>1 DEF FrameInv, BlocksFit, KeysAreOld
  <2>3. \A c \in Keys : FrameIsTold(c)'
    BY <1>1, <1>4 DEF FrameInv, FrameIsTold, Recent, Gathered
  <2> QED
    BY <2>1, <2>2, <2>3 DEF FrameInv
<1> QED
  BY <1>3, <1>4 DEF PushSymbol

(* Every step of MediaFec keeps the frames told.                            *)
LEMMA FrameStep == FrameInv /\ [Next]_vars => FrameInv'
<1> SUFFICES ASSUME FrameInv, [Next]_vars PROVE FrameInv'
  OBVIOUS
<1>1. CASE UNCHANGED vars
  <2>1. /\ UNCHANGED <<nextSeq, blocks, counts, wire, partial, completed, decoded, returned>> /\ Keys' = Keys
    BY <1>1 DEF vars, sender, receiver, history, Keys
  <2>2. BlocksFit' /\ KeysAreOld'
    BY <2>1 DEF FrameInv, BlocksFit, KeysAreOld
  <2>3. \A c \in Keys : FrameIsTold(c)'
    BY <2>1 DEF FrameInv, FrameIsTold, Recent, Gathered
  <2> QED
    BY <2>1, <2>2, <2>3 DEF FrameInv
<1>2. ASSUME NEW i \in 1..Len(wire), PushArrival(i) PROVE FrameInv'
  <2>1. wire[i].block \in 1..Len(blocks)
    BY DEF FrameInv, BlocksFit
  <2> QED
    BY <1>2, <2>1, SymbolStep DEF PushArrival
<1> QED
  BY <1>1, <1>2, NewFrameStep, CopyStep DEF Next

(* Every frame is told in every state of MediaFec.                          *)
LEMMA FramesAreTold == Spec => []FrameInv
BY FrameInit, FrameStep, PTL DEF Spec

(* What the invariant says of the frames.                                   *)
LEMMA ToldFrames == FrameInv => FramesAreReturnedOnce /\ PartialsCanComplete
<1> SUFFICES ASSUME FrameInv PROVE FramesAreReturnedOnce /\ PartialsCanComplete
  OBVIOUS
<1>1. DOMAIN partial \subseteq Keys /\ \A key \in Keys : FrameIsTold(key)
  BY DEF FrameInv, KeysAreOld
<1>2. FramesAreReturnedOnce
  BY <1>1 DEF FramesAreReturnedOnce, FrameIsTold
<1>3. PartialsCanComplete
  BY <1>1 DEF PartialsCanComplete, FrameIsTold, Gathered
<1> QED
  BY <1>2, <1>3

(* push_datagram returns a frame just once, when the last of its fragments  *)
(* has been decoded, from whichever copy, in whatever order the datagrams   *)
(* of all streams come.                                                     *)
THEOREM FramesComeBackOnce == Spec => []FramesAreReturnedOnce
BY FramesAreTold, ToldFrames, PTL

(* A partial frame has every fragment that was decoded of its frame, and    *)
(* none is left of a frame that was returned.                               *)
THEOREM PartialsAreWhole == Spec => []PartialsCanComplete
BY FramesAreTold, ToldFrames, PTL

-----------------------------------------------------------------------------
(* Blocks inside the window.                                                *)

(* The RaptorQ state is of blocks that were encoded.                        *)
FecFits ==
  /\ fec.completed \subseteq 0..Len(blocks)-1 /\ InFlight(fec) \subseteq 0..Len(blocks)-1
  /\ \A id \in InFlight(fec) : fec.blocks[id].k = K
  /\ Len(blocks) <= MaxBlocks /\ DOMAIN arrived = 1..MaxBlocks
  /\ \A n \in 1..MaxBlocks : n > Len(blocks) => arrived[n] = {}

(* A block inside the window was decoded, or the decoder has what arrived   *)
(* of it and waits for a source symbol.                                     *)
IsDecoded(n) == blocks[n].index \in decoded[blocks[n].key]

Waits(n) == arrived[n] = Held(fec, n - 1) /\ n - 1 \notin fec.completed /\ ~(Sources \subseteq arrived[n])

BlocksAreLive ==
  \A n \in 1..Len(blocks) : Len(blocks) <= n + CompletedWindow => IsDecoded(n) \/ Waits(n)

BlockInv == FecFits /\ BlocksAreLive

(* Every block has an id of its own.                                        *)
LEMMA IdsSuffice == MaxBlocks \in Nat /\ MaxBlocks <= IdMod /\ IdMod \in Nat /\ CompletedWindow \in Nat
<1>1. /\ Fragments \subseteq Nat \ {0} /\ Fragments # {} /\ IsFiniteSet(Fragments)
      /\ MaxFrames \in Nat /\ MaxFrames * Max(Fragments) <= IdMod
  BY MediaAssumption DEF MediaAssumption
<1>2. Max(Fragments) \in Fragments
  <2>1. Fragments \in SUBSET Int
    BY <1>1
  <2> QED
    BY <1>1, <2>1, MaxOfFinite
<1>3. Max(Fragments) \in Nat
  BY <1>1, <1>2
<1>4. MaxFrames * Max(Fragments) \in Nat
  BY <1>1, <1>3
<1> QED
  BY <1>1, <1>4, DecoderAssumption DEF MaxBlocks, DecoderAssumption

(* There is no block before the first frame.                                *)
LEMMA BlockInit == Init => BlockInv
<1> SUFFICES ASSUME Init PROVE BlockInv
  OBVIOUS
<1>1. Len(blocks) = 0 /\ InFlight(fec) = {} /\ fec.completed = {}
  BY DEF Init, NewDecoder, InFlight
<1>2. DOMAIN arrived = 1..MaxBlocks /\ \A n \in 1..MaxBlocks : arrived[n] = {}
  BY DEF Init
<1> QED
  BY <1>1, <1>2, IdsSuffice DEF BlockInv, FecFits, BlocksAreLive

(* A new block has not lost anything, and an old one has not either.        *)
LEMMA EncodeBlock ==
  ASSUME BlockInv, BlocksFit, NEW key \in KeyIds, NEW count \in Nat, EncodeFrame(key, count),
         \A c \in Keys : decoded'[c] = decoded[c]
  PROVE  BlockInv'
<1> DEFINE b == Len(blocks)
<1>1. /\ Len(blocks') = b + count /\ b + count <= MaxBlocks
      /\ \A n \in 1..b : blocks'[n] = blocks[n]
  BY EncodeIs
<1>2. b \in Nat /\ UNCHANGED <<fec, arrived>>
  BY DEF BlocksFit, EncodeFrame, receiver
<1>3. FecFits'
  <2>1. 0..b-1 \subseteq 0..(b+count)-1
    BY <1>2
  <2>2. \A n \in 1..MaxBlocks : n > b + count => n > b
    BY <1>2
  <2>3. /\ fec.completed \subseteq 0..b-1 /\ InFlight(fec) \subseteq 0..b-1
        /\ \A n \in 1..MaxBlocks : n > b => arrived[n] = {}
    BY DEF BlockInv, FecFits
  <2> QED
    BY <1>1, <1>2, <2>1, <2>2, <2>3 DEF BlockInv, FecFits, InFlight
<1>4. ASSUME NEW n \in 1..b, b + count <= n + CompletedWindow PROVE IsDecoded(n)' \/ Waits(n)'
  <2>1. b <= n + CompletedWindow
    BY <1>2, <1>4, IdsSuffice
  <2>2. IsDecoded(n) \/ Waits(n)
    BY <2>1 DEF BlockInv, BlocksAreLive
  <2>3. blocks'[n] = blocks[n] /\ blocks[n].key \in Keys
    BY <1>1 DEF BlocksFit
  <2> QED
    BY <1>2, <2>2, <2>3 DEF IsDecoded, Waits, Held, InFlight
<1>5. ASSUME NEW n \in b+1..b+count PROVE Waits(n)'
  <2>1. n \in 1..MaxBlocks /\ n > b /\ n - 1 \notin 0..b-1
    BY <1>1, <1>2, IdsSuffice
  <2>2. arrived[n] = {} /\ n - 1 \notin fec.completed /\ n - 1 \notin InFlight(fec)
    BY <2>1 DEF BlockInv, FecFits
  <2>3. 0 \in Sources
    BY Sizes DEF Sources
  <2> QED
    BY <1>2, <2>2, <2>3 DEF Waits, Held, InFlight
<1>6. \A n \in 1..b+count : n \in 1..b \/ n \in b+1..b+count
  BY <1>2
<1> QED
  BY <1>1, <1>3, <1>4, <1>5, <1>6 DEF BlockInv, BlocksAreLive

(* What expire_block and a decoded block do to the other blocks: those that *)
(* are inside the window of the newest block stay as they are.              *)
LEMMA CloseSpares ==
  ASSUME NEW last \in Nat, last <= IdMod, NEW id \in 0..last-1
  PROVE  /\ InFlight(Close(fec, id)) \subseteq InFlight(fec)
         /\ \A c \in InFlight(Close(fec, id)) : Close(fec, id).blocks[c] = fec.blocks[c]
         /\ Close(fec, id).completed \subseteq fec.completed \cup {id}
         /\ \A c \in 0..last-1 : c # id /\ last <= c + 1 + CompletedWindow =>
              Held(Close(fec, id), c) = Held(fec, c)
<1> DEFINE d == Close(fec, id)
<1>1. /\ InFlight(d) = {c \in InFlight(fec) \ {id} : Retains(id, c)}
      /\ \A c \in InFlight(d) : d.blocks[c] = fec.blocks[c]
      /\ d.completed = {c \in fec.completed \cup {id} : Retains(id, c)}
  BY DEF Close, Prune, InFlight, Restrict, RestrictDomain
<1> HIDE DEF d
<1>2. ASSUME NEW c \in 0..last-1, last <= c + 1 + CompletedWindow PROVE Retains(id, c)
  <2>1. CASE id < CompletedWindow
    BY <2>1 DEF Retains
  <2>2. CASE id >= CompletedWindow
    <3>1. id - CompletedWindow \in 0..IdMod-1
      BY <2>2, IdsSuffice
    <3>2. (id - CompletedWindow) % IdMod = id - CompletedWindow
      BY <3>1, IdsSuffice
    <3> QED
      BY <1>2, <3>2, IdsSuffice DEF Retains, Cutoff
  <2> QED
    BY <2>1, <2>2, IdsSuffice
<1>3. ASSUME NEW c \in 0..last-1, c # id, last <= c + 1 + CompletedWindow PROVE Held(d, c) = Held(fec, c)
  BY <1>1, <1>2, <1>3 DEF Held
<1> QED
  BY <1>1, <1>3 DEF d

(* What push_datagram of the decoder below does with a symbol of block n.   *)
LEMMA PushCases ==
  ASSUME FecFits, NEW n \in 1..Len(blocks), NEW esi, PushSymbol(n, esi)
  PROVE  /\ arrived' = [arrived EXCEPT ![n] = @ \cup {esi}]
         /\ \/ /\ n - 1 \in fec.completed \/ esi \in Held(fec, n - 1)
               /\ fec' = fec /\ decoded' = decoded
            \/ /\ fec' = Close(fec, n - 1)
               /\ decoded' = [decoded EXCEPT ![blocks[n].key] = @ \cup {blocks[n].index}]
            \/ /\ n - 1 \notin fec.completed /\ ~(Sources \subseteq Held(fec, n - 1) \cup {esi})
               /\ fec' = Hold(fec, [id |-> n - 1, k |-> K, esi |-> esi]) /\ decoded' = decoded
<1> DEFINE p == [id |-> n - 1, k |-> K, esi |-> esi]
<1>1. SameGeometry(fec, p)
  BY DEF SameGeometry, FecFits
<1>2. PICK o \in PushDatagram(fec, p) :
        /\ fec' = o.d
        /\ o.out = "decoded" => decoded' = [decoded EXCEPT ![blocks[n].key] = @ \cup {blocks[n].index}]
        /\ o.out # "decoded" => decoded' = decoded
  BY DEF PushSymbol
<1>3. arrived' = [arrived EXCEPT ![n] = @ \cup {esi}]
  BY DEF PushSymbol
<1>4. p.id = n - 1 /\ p.k = K /\ p.esi = esi /\ Sources = 0..K-1
  BY DEF Sources
<1> HIDE DEF p
<1>5. CASE n - 1 \in fec.completed \/ esi \in Held(fec, n - 1)
  <2>1. o = [d |-> fec, out |-> "none"]
    BY <1>1, <1>2, <1>4, <1>5 DEF PushDatagram
  <2> QED
    BY <1>2, <1>3, <1>5, <2>1
<1>6. CASE n - 1 \notin fec.completed /\ esi \notin Held(fec, n - 1)
  <2>1. \/ o = [d |-> Close(fec, n - 1), out |-> "decoded"]
        \/ /\ o = [d |-> Hold(fec, p), out |-> "none"]
           /\ ~MustDecode(K, Held(fec, n - 1) \cup {esi})
    BY <1>1, <1>2, <1>4, <1>6 DEF PushDatagram
  <2> QED
    BY <1>2, <1>3, <1>4, <1>6, <2>1 DEF MustDecode, p
<1> QED
  BY <1>5, <1>6

(* A symbol costs no block inside the window what it has, and the symbol    *)
(* that completes the source symbols of a block decodes it.                 *)
LEMMA PushBlock ==
  ASSUME FrameInv, BlockInv, NEW n \in 1..Len(blocks), NEW esi, PushSymbol(n, esi), UNCHANGED sender
  PROVE  BlockInv'
<1> DEFINE b == Len(blocks)
           p == [id |-> n - 1, k |-> K, esi |-> esi]
<1>1. b \in Nat /\ b <= MaxBlocks /\ b <= IdMod /\ n \in 1..b /\ n - 1 \in 0..b-1 /\ n \in 1..MaxBlocks
  BY IdsSuffice DEF FrameInv, BlocksFit, BlockInv, FecFits
<1>2. /\ blocks' = blocks /\ arrived' = [arrived EXCEPT ![n] = @ \cup {esi}]
  BY PushCases DEF sender, BlockInv
<1>3. /\ DOMAIN arrived' = 1..MaxBlocks /\ arrived'[n] = arrived[n] \cup {esi}
      /\ \A c \in 1..MaxBlocks : c # n => arrived'[c] = arrived[c]
  BY <1>1, <1>2 DEF BlockInv, FecFits
<1>4. /\ fec.completed \subseteq 0..b-1 /\ InFlight(fec) \subseteq 0..b-1
      /\ \A id \in InFlight(fec) : fec.blocks[id].k = K
      /\ \A c \in 1..MaxBlocks : c > b => arrived[c] = {}
      /\ \A c \in 1..b : b <= c + CompletedWindow => IsDecoded(c) \/ Waits(c)
  BY DEF BlockInv, FecFits, BlocksAreLive
<1>5. \A c \in 1..MaxBlocks : c > b => arrived'[c] = {}
  BY <1>1, <1>3, <1>4
<1>6. \A c \in 1..b : blocks[c].key \in DOMAIN decoded
  BY DEF FrameInv, BlocksFit, KeysAreOld
<1> HIDE DEF p
<1>7. CASE /\ n - 1 \in fec.completed \/ esi \in Held(fec, n - 1)
           /\ fec' = fec /\ decoded' = decoded
  <2>1. FecFits'
    BY <1>1, <1>2, <1>3, <1>4, <1>5, <1>7 DEF FecFits
  <2>2. ASSUME NEW c \in 1..b, b <= c + CompletedWindow PROVE IsDecoded(c)' \/ Waits(c)'
    <3>1. IsDecoded(c) \/ Waits(c)
      BY <1>4, <2>2
    <3>2. CASE IsDecoded(c)
      BY <1>2, <1>7, <3>2 DEF IsDecoded
    <3>3. CASE Waits(c)
      <4>1. arrived'[c] = arrived[c]
        <5>1. c \in 1..MaxBlocks
          BY <1>1, IdsSuffice
        <5>2. c = n => esi \in arrived[n]
          BY <1>7, <3>3 DEF Waits
        <5> QED
          BY <1>3, <5>1, <5>2
      <4> QED
        BY <1>7, <3>3, <4>1 DEF Waits
    <3> QED
      BY <3>1, <3>2, <3>3
  <2> QED
    BY <1>2, <2>1, <2>2 DEF BlockInv, BlocksAreLive
<1>8. CASE /\ fec' = Close(fec, n - 1)
           /\ decoded' = [decoded EXCEPT ![blocks[n].key] = @ \cup {blocks[n].index}]
  <2>1. /\ InFlight(fec') \subseteq InFlight(fec)
        /\ \A id \in InFlight(fec') : fec'.blocks[id] = fec.blocks[id]
        /\ fec'.completed \subseteq fec.completed \cup {n - 1}
        /\ \A id \in 0..b-1 : id # n - 1 /\ b <= id + 1 + CompletedWindow => Held(fec', id) = Held(fec, id)
    BY <1>1, <1>8, CloseSpares
  <2>2. InFlight(fec)' = InFlight(fec')
    BY DEF InFlight
  <2>3. FecFits'
    BY <1>1, <1>2, <1>3, <1>4, <1>5, <2>1, <2>2 DEF FecFits
  <2>4. ASSUME NEW c \in 1..b, b <= c + CompletedWindow PROVE IsDecoded(c)' \/ Waits(c)'
    <3>1. CASE c = n
      BY <1>2, <1>6, <1>8, <3>1 DEF IsDecoded
    <3>2. CASE c # n /\ IsDecoded(c)
      BY <1>2, <1>6, <1>8, <3>2 DEF IsDecoded
    <3>3. CASE c # n /\ Waits(c)
      <4>1. c - 1 \in 0..b-1 /\ c - 1 # n - 1 /\ b <= (c - 1) + 1 + CompletedWindow /\ c \in 1..MaxBlocks
        BY <1>1, <2>4, <3>3, IdsSuffice
      <4>2. Held(fec', c - 1) = Held(fec, c - 1) /\ c - 1 \notin fec'.completed
        BY <2>1, <3>3, <4>1 DEF Waits
      <4>3. arrived'[c] = arrived[c]
        BY <1>3, <3>3, <4>1
      <4> QED
        BY <3>3, <4>2, <4>3 DEF Waits
    <3> QED
      BY <1>4, <2>4, <3>1, <3>2, <3>3
  <2> QED
    BY <1>2, <2>3, <2>4 DEF BlockInv, BlocksAreLive
<1>9. CASE /\ n - 1 \notin fec.completed /\ ~(Sources \subseteq Held(fec, n - 1) \cup {esi})
           /\ fec' = Hold(fec, p) /\ decoded' = decoded
  <2>1. p.id = n - 1 /\ p.k = K /\ p.esi = esi
    BY DEF p
  <2>2. /\ InFlight(fec') = InFlight(fec) \cup {n - 1} /\ fec'.completed = fec.completed
        /\ \A id \in InFlight(fec) : id # n - 1 => fec'.blocks[id] = fec.blocks[id]
        /\ fec'.blocks[n-1] = [k |-> K, symbols |-> Held(fec, n - 1) \cup {esi}]
    BY <1>9, <2>1 DEF Hold, InFlight
  <2>3. /\ Held(fec', n - 1) = Held(fec, n - 1) \cup {esi}
        /\ \A id : id # n - 1 => Held(fec', id) = Held(fec, id)
    BY <2>2 DEF Held
  <2>4. InFlight(fec)' = InFlight(fec')
    BY DEF InFlight
  <2>5. FecFits'
    BY <1>1, <1>2, <1>3, <1>4, <1>5, <2>2, <2>4 DEF FecFits
  <2>6. ASSUME NEW c \in 1..b, b <= c + CompletedWindow PROVE IsDecoded(c)' \/ Waits(c)'
    <3>1. CASE IsDecoded(c)
      BY <1>2, <1>9, <3>1 DEF IsDecoded
    <3>2. CASE Waits(c) /\ c = n
      <4>1. arrived'[n] = Held(fec', n - 1) /\ ~(Sources \subseteq arrived'[n]) /\ n - 1 \notin fec'.completed
        BY <1>3, <1>9, <2>2, <2>3, <3>2 DEF Waits
      <4> QED
        BY <3>2, <4>1 DEF Waits, Sources
    <3>3. CASE Waits(c) /\ c # n
      <4>1. c \in 1..MaxBlocks /\ c - 1 # n - 1
        BY <1>1, <3>3, IdsSuffice
      <4>2. arrived'[c] = arrived[c] /\ Held(fec', c - 1) = Held(fec, c - 1)
        BY <1>3, <2>3, <3>3, <4>1
      <4> QED
        BY <2>2, <3>3, <4>2 DEF Waits
    <3> QED
      BY <1>4, <2>6, <3>1, <3>2, <3>3
  <2> QED
    BY <1>2, <2>5, <2>6 DEF BlockInv, BlocksAreLive
<1> QED
  BY <1>7, <1>8, <1>9, PushCases DEF BlockInv, p

-----------------------------------------------------------------------------
(* The store.                                                               *)

(* What the store and the reliable path hold are datagrams of their frame.  *)
FrameType == [key : KeyIds, datagrams : Seq(Datagram)]

Fits(key, datagrams) ==
  /\ datagrams \in Seq(Datagram)
  /\ \A x \in Range(datagrams) : x.block \in 1..Len(blocks) /\ blocks[x.block].key = key

(* The source symbols of every fragment are among the datagrams.            *)
Covers(key, datagrams) ==
  \A i \in 1..counts[key] : \E n \in 1..Len(blocks) :
    /\ blocks[n] = [key |-> key, index |-> i]
    /\ \A e \in Sources : [block |-> n, esi |-> e] \in Range(datagrams)

CopiesFit ==
  /\ copies \in Seq(FrameType)
  /\ \A c \in 1..Len(copies) :
       /\ copies[c].key \in Keys
       /\ Fits(copies[c].key, copies[c].datagrams) /\ Covers(copies[c].key, copies[c].datagrams)

ResponseFits ==
  /\ response = [key |-> response.key, datagrams |-> response.datagrams]
  /\ Fits(response.key, response.datagrams)

(* The store keeps the newest copy of a frame, in the order in which they   *)
(* were encoded, and every such copy that is not older than what it keeps.  *)
StoreIs(place) ==
  /\ \A i \in 1..Len(store) :
       /\ place[i] \in 1..Len(copies) /\ store[i] = copies[place[i]] /\ IsNewestCopy(place[i])
  /\ \A i, j \in 1..Len(store) : i < j => place[i] < place[j]
  /\ \A c \in 1..Len(copies) : IsNewestCopy(c) =>
       \/ \E i \in 1..Len(store) : place[i] = c
       \/ Len(store) = Limit /\ \A i \in 1..Len(store) : c < place[i]

StoreFits ==
  /\ store \in Seq(FrameType) /\ Len(store) <= Limit
  /\ \E place \in [1..Len(store) -> 1..Len(copies)] : StoreIs(place)

(* What is not decoded of a frame comes with the response.                  *)
Comes(key) ==
  \A i \in 1..counts[key] : i \in decoded[key] \/ \E n \in 1..Len(blocks) :
    /\ blocks[n] = [key |-> key, index |-> i]
    /\ ~(Sources \subseteq arrived[n])
    /\ \A e \in Sources \ arrived[n] : [block |-> n, esi |-> e] \in Range(response.datagrams)

PromisesHold ==
  \A key \in promised :
    /\ key \in Keys
    /\ returned[key] > 0 \/ (response.key = key /\ response.datagrams # <<>> /\ Comes(key))

(* What the store has and the reliable path still brings is of blocks       *)
(* inside the window of the decoder below.                                  *)
WindowReachesBack ==
  /\ \A f \in Range(store) : \A x \in Range(f.datagrams) : Len(blocks) <= x.block + CompletedWindow
  /\ \A x \in Range(response.datagrams) : Len(blocks) <= x.block + CompletedWindow

StoreInv == FrameInv /\ BlockInv /\ CopiesFit /\ ResponseFits /\ StoreFits

BackfillInv == StoreInv /\ PromisesHold

(* The store has room for one frame at least.                               *)
LEMMA LimitIs == Limit \in Nat /\ Limit >= 1
<1>1. Capacity \in Int /\ 1 \in Int /\ Capacity \in Nat
  BY BackfillAssumption DEF BackfillAssumption
<1>2. Limit = IF Capacity >= 1 THEN Capacity ELSE 1
  BY <1>1, MaxOfTwo DEF Limit
<1> QED
  BY <1>1, <1>2

(* VecDeque::retain as Facts knows it.                                      *)
LEMMA RetainedIs == \A queue, gone : Retained(queue, gone) = Kept(queue, gone)
BY DEF Retained, Kept

(* Nothing was encoded, asked for or promised yet.                          *)
LEMMA StoreInit == BackfillInit => BackfillInv
<1> SUFFICES ASSUME BackfillInit PROVE BackfillInv
  OBVIOUS
<1>1. FrameInv /\ BlockInv
  BY FrameInit, BlockInit DEF BackfillInit
<1>2. /\ copies = <<>> /\ store = <<>> /\ response = [key |-> <<>>, datagrams |-> <<>>] /\ promised = {}
  BY DEF BackfillInit, NoResponse
<1>3. CopiesFit /\ PromisesHold
  BY <1>2 DEF CopiesFit, PromisesHold
<1>4. ResponseFits
  BY <1>2 DEF ResponseFits, Fits, Range
<1>5. StoreFits
  <2>1. [i \in 1..0 |-> 1] \in [1..Len(store) -> 1..Len(copies)]
    BY <1>2
  <2>2. StoreIs([i \in 1..0 |-> 1])
    BY <1>2 DEF StoreIs
  <2>3. store \in Seq(FrameType) /\ Len(store) <= Limit
    BY <1>2, LimitIs
  <2> QED
    BY <2>1, <2>2, <2>3 DEF StoreFits
<1> QED
  BY <1>1, <1>3, <1>4, <1>5 DEF BackfillInv, StoreInv

(* It has one copy of a frame at most.                                      *)
LEMMA KeysDiffer ==
  ASSUME copies \in Seq(FrameType), store \in Seq(FrameType), NEW place, StoreIs(place)
  PROVE  \A i, j \in 1..Len(store) : store[i].key = store[j].key => i = j
<1> SUFFICES ASSUME NEW i \in 1..Len(store), NEW j \in 1..Len(store), store[i].key = store[j].key
             PROVE  i = j
  OBVIOUS
<1>1. /\ copies[place[i]].key = copies[place[j]].key
      /\ place[i] \in 1..Len(copies) /\ place[j] \in 1..Len(copies)
      /\ IsNewestCopy(place[i]) /\ IsNewestCopy(place[j])
  BY DEF StoreIs
<1>2. place[i] \in DOMAIN copies /\ place[j] \in DOMAIN copies
  BY <1>1
<1>3. place[i] <= place[j] /\ place[j] <= place[i]
  BY <1>1, <1>2, Zenon DEF IsNewestCopy
<1>4. ~(place[i] < place[j]) /\ ~(place[j] < place[i])
  BY <1>1, <1>3
<1> QED
  BY <1>4 DEF StoreIs

(* insert_encoded_frame: the older copy of the frame goes, and then the     *)
(* oldest frame if there is no room.                                        *)
LEMMA StoreStep ==
  ASSUME StoreFits, copies \in Seq(FrameType), NEW frame \in FrameType,
         copies' = Append(copies, frame), store' = Inserted(store, frame)
  PROVE  StoreFits'
<1> DEFINE gone == {f \in Range(store) : f.key = frame.key}
           kept == Retained(store, gone)
           all == Append(kept, frame)
<1>0. PICK m, n, k : m = Len(copies) /\ n = Len(store) /\ k = Len(kept)
  OBVIOUS
<1>1. m \in Nat /\ n \in Nat /\ store \in Seq(FrameType) /\ n <= Limit /\ Limit \in Nat /\ Limit >= 1
  BY <1>0, LimitIs DEF StoreFits
<1>2. PICK place \in [1..n -> 1..m] : StoreIs(place)
  BY <1>0 DEF StoreFits
<1>3. /\ \A i \in 1..n : place[i] \in 1..m /\ store[i] = copies[place[i]] /\ IsNewestCopy(place[i])
      /\ \A i, j \in 1..n : i < j => place[i] < place[j]
      /\ \A c \in 1..m : IsNewestCopy(c) =>
           \/ \E i \in 1..n : place[i] = c
           \/ n = Limit /\ \A i \in 1..n : c < place[i]
  BY <1>0, <1>2 DEF StoreIs
<1>4. PICK pick : kept \in Seq(FrameType) /\ Picks(store, gone, n, kept, pick)
  BY <1>0, <1>1, RetainedIs, RetainPicks
<1>5. /\ k \in Nat /\ all \in Seq(FrameType) /\ Len(all) = k + 1 /\ all[k+1] = frame
      /\ \A i \in 1..k : all[i] = kept[i]
  BY <1>0, <1>4
<1>6. /\ \A i \in 1..k : pick[i] \in 1..n /\ kept[i] = store[pick[i]] /\ kept[i] \notin gone
      /\ \A i, j \in 1..k : i < j => pick[i] < pick[j]
      /\ \A i \in 1..n : store[i] \in gone \/ \E j \in 1..k : pick[j] = i
  BY <1>0, <1>4 DEF Picks
<1>7. \A i \in 1..n : store[i] \in gone <=> store[i].key = frame.key
  BY <1>0, <1>1 DEF Range
<1>8. store' = IF k + 1 > Limit THEN Tail(all) ELSE all
  BY <1>5 DEF Inserted
<1>9. /\ copies' \in Seq(FrameType) /\ Len(copies') = m + 1 /\ copies'[m+1] = frame
      /\ \A c \in 1..m : copies'[c] = copies[c]
      /\ DOMAIN copies' = 1..m+1 /\ DOMAIN copies = 1..m
  BY <1>0
<1> HIDE DEF kept, gone, all
<1>9a. PICK full : full = [i \in 1..k+1 |-> IF i = k + 1 THEN m + 1 ELSE place[pick[i]]]
  OBVIOUS
<1>10. \A c \in 1..m : IsNewestCopy(c)' <=> IsNewestCopy(c) /\ copies[c].key # frame.key
  <2> TAKE c \in 1..m
  <2>1. DOMAIN copies = 1..m /\ DOMAIN copies' = 1..m+1 /\ \A d \in 1..m+1 : d \in 1..m \/ d = m + 1
    BY <1>1, <1>9
  <2>2. m + 1 \in 1..m+1 /\ ~(m + 1 <= c) /\ \A d \in 1..m : d \in 1..m+1
    BY <1>1
  <2> QED
    BY <1>9, <2>1, <2>2 DEF IsNewestCopy
<1>11. \A c : c = m + 1 => IsNewestCopy(c)'
  BY <1>1, <1>9 DEF IsNewestCopy
<1>12. ASSUME NEW i \in 1..k
       PROVE  /\ full[i] = place[pick[i]] /\ full[i] \in 1..m /\ all[i] = copies'[full[i]]
              /\ IsNewestCopy(full[i])'
  <2>1. i \in 1..k+1 /\ i # k + 1
    BY <1>5
  <2>2. pick[i] \in 1..n /\ kept[i] = store[pick[i]] /\ store[pick[i]].key # frame.key
    BY <1>6, <1>7
  <2>3. full[i] = place[pick[i]]
    BY <1>9a, <2>1
  <2>4. full[i] \in 1..m /\ store[pick[i]] = copies[full[i]] /\ IsNewestCopy(full[i])
    BY <1>3, <2>2, <2>3
  <2> QED
    BY <1>5, <1>9, <1>10, <2>2, <2>3, <2>4
<1>13. k + 1 \in 1..k+1 /\ full[k+1] = m + 1
  BY <1>5, <1>9a
<1>14. \A i \in 1..k+1 : i \in 1..k \/ i = k + 1
  BY <1>5
<1>15. ASSUME NEW i \in 1..k+1, NEW j \in 1..k+1, i < j PROVE full[i] < full[j]
  <2>1. i \in 1..k
    BY <1>5, <1>15
  <2>2. CASE j \in 1..k
    <3>1. pick[i] < pick[j] /\ pick[i] \in 1..n /\ pick[j] \in 1..n
      BY <1>6, <1>15, <2>1, <2>2
    <3>2. place[pick[i]] < place[pick[j]]
      BY <1>3, <3>1
    <3> QED
      BY <1>12, <2>1, <2>2, <3>2
  <2>3. CASE j = k + 1
    <3>1. full[i] \in 1..m /\ full[j] = m + 1
      BY <1>12, <1>13, <2>1, <2>3
    <3> QED
      BY <1>1, <3>1
  <2> QED
    BY <1>14, <2>2, <2>3
<1>16. ASSUME NEW i \in 1..k+1
       PROVE  full[i] \in 1..m+1 /\ all[i] = copies'[full[i]] /\ IsNewestCopy(full[i])'
  <2>1. CASE i \in 1..k
    <3>1. full[i] \in 1..m /\ all[i] = copies'[full[i]] /\ IsNewestCopy(full[i])'
      BY <1>12, <2>1
    <3> QED
      BY <1>1, <3>1
  <2>2. CASE i = k + 1
    <3>1. full[i] = m + 1
      BY <1>13, <2>2
    <3> QED
      BY <1>1, <1>5, <1>9, <1>11, <2>2, <3>1
  <2> QED
    BY <1>14, <2>1, <2>2
(* At most one frame of the store has the key that is inserted.            *)
<1>17. n = Limit => k >= Limit - 1
  <2>1. \A i, j \in 1..n : store[i].key = store[j].key => i = j
    BY <1>0, <1>1, <1>2, KeysDiffer
  <2>2. /\ Range(store) = {store[i] : i \in 1..n} /\ IsFiniteSet(Range(store))
        /\ IsInjective(store) /\ Cardinality(Range(store)) = n
    <3>1. /\ Range(store) = {store[i] : i \in 1..n} /\ IsFiniteSet(Range(store))
          /\ IsInjective(store) <=> \A i, j \in 1..n : store[i] = store[j] => i = j
          /\ IsInjective(store) => Cardinality(Range(store)) = n
      BY <1>0, <1>1, RangeIs
    <3> QED
      BY <2>1, <3>1
  <2>3. Cardinality(Range(store) \ gone) = k
    <3>1. Range(kept) = Range(store) \ gone /\ IsInjective(kept)
      BY <1>1, <2>2, RetainedIs, RetainKeeps DEF kept
    <3>2. Cardinality(Range(kept)) = Len(kept)
      BY <1>4, <3>1, RangeIs
    <3> QED
      BY <1>0, <3>1, <3>2
  <2>4. CASE gone = {}
    BY <1>1, <2>2, <2>3, <2>4
  <2>5. CASE gone # {}
    <3>1. PICK x \in Range(store) : x.key = frame.key
      BY <2>5 DEF gone
    <3>2. gone = {x}
      <4>1. ASSUME NEW y \in Range(store), y.key = frame.key PROVE y = x
        BY <2>1, <2>2, <3>1, <4>1
      <4> QED
        BY <3>1, <4>1 DEF gone
    <3>3. Cardinality(Range(store) \ {x}) = n - 1
      BY <2>2, <3>1, FS_RemoveElement
    <3> QED
      BY <1>1, <2>3, <3>2, <3>3
  <2> QED
    BY <2>4, <2>5
<1>18. k <= Limit
  <2>1. Len(Kept(store, gone)) <= Len(store)
    BY <1>1, RetainKeeps
  <2> QED
    BY <1>0, <1>1, <1>5, <2>1, RetainedIs DEF kept
<1>19. ASSUME NEW c \in 1..m+1, IsNewestCopy(c)'
       PROVE  \/ \E i \in 1..k+1 : full[i] = c
              \/ k + 1 >= Limit /\ \A i \in 1..k+1 : c < full[i]
  <2>1. CASE c = m + 1
    BY <1>13, <2>1
  <2>2. CASE c \in 1..m
    <3>1. IsNewestCopy(c) /\ copies[c].key # frame.key
      BY <1>10, <1>19, <2>2
    <3>2. CASE \E i \in 1..n : place[i] = c
      <4>1. PICK i \in 1..n : place[i] = c
        BY <3>2
      <4>2. PICK j \in 1..k : pick[j] = i
        BY <1>3, <1>6, <1>7, <3>1, <4>1
      <4>3. full[j] = c /\ j \in 1..k+1
        <5>1. k \in Nat /\ j \in 1..k
          BY <1>5, <4>2
        <5>2. j \in 1..k+1
          BY <5>1
        <5>3. full[j] = place[pick[j]]
          BY <1>12, <5>1
        <5> QED
          BY <4>1, <4>2, <5>2, <5>3
      <4> QED
        BY <4>3
    <3>3. CASE n = Limit /\ \A i \in 1..n : c < place[i]
      <4>1. k + 1 >= Limit
        BY <1>1, <1>5, <1>17, <3>3
      <4>2. \A i \in 1..k : c < full[i]
        BY <1>6, <1>12, <3>3
      <4>3. c < full[k+1]
        BY <1>1, <1>13, <2>2
      <4> QED
        BY <1>14, <4>1, <4>2, <4>3
    <3> QED
      BY <1>3, <2>2, <3>1, <3>2, <3>3
  <2> QED
    BY <1>1, <2>1, <2>2
<1>20. CASE k + 1 <= Limit
  <2>1. store' = all /\ store' \in Seq(FrameType) /\ Len(store') = k + 1
    BY <1>1, <1>5, <1>8, <1>20
  <2>2. full \in [1..Len(store') -> 1..Len(copies')]
    BY <1>9, <1>16, <1>9a, <2>1
  <2>3. \A c \in 1..m+1 : IsNewestCopy(c)' =>
          \/ \E i \in 1..k+1 : full[i] = c
          \/ k + 1 = Limit /\ \A i \in 1..k+1 : c < full[i]
    <3>1. k + 1 >= Limit => k + 1 = Limit
      BY <1>1, <1>5, <1>20
    <3> QED
      BY <1>19, <3>1
  <2>4. StoreIs(full)'
    <3>1. \A i \in 1..Len(store') :
            full[i] \in 1..Len(copies') /\ store'[i] = copies'[full[i]] /\ IsNewestCopy(full[i])'
      BY <1>9, <1>16, <2>1
    <3>2. \A i, j \in 1..Len(store') : i < j => full[i] < full[j]
      BY <1>15, <2>1
    <3>3. \A c \in 1..Len(copies') : IsNewestCopy(c)' =>
            \/ \E i \in 1..Len(store') : full[i] = c
            \/ Len(store') = Limit /\ \A i \in 1..Len(store') : c < full[i]
      BY <1>9, <2>1, <2>3
    <3> QED
      BY <3>1, <3>2, <3>3 DEF StoreIs, Limit
  <2> QED
    BY <1>20, <2>1, <2>2, <2>4 DEF StoreFits, Limit
<1>21. CASE k + 1 > Limit
  <2>0. PICK next : next = [i \in 1..k |-> full[i+1]]
    OBVIOUS
  <2>1. k = Limit /\ k >= 1
    BY <1>1, <1>5, <1>18, <1>21
  <2>2. store' = Tail(all) /\ store' \in Seq(FrameType) /\ Len(store') = k /\ \A i \in 1..k : store'[i] = all[i+1]
    BY <1>5, <1>8, <1>21, <2>1
  <2>3. \A i \in 1..k : i + 1 \in 1..k+1 /\ next[i] = full[i+1]
    BY <1>5, <2>0
  <2>4. \A i \in 1..k+1 : i = 1 \/ (i - 1 \in 1..k /\ (i - 1) + 1 = i)
    BY <1>5
  <2>5. next \in [1..Len(store') -> 1..Len(copies')]
    BY <1>9, <1>16, <2>0, <2>2, <2>3
  <2>6. \A i \in 1..k : next[i] \in 1..m+1 /\ store'[i] = copies'[next[i]] /\ IsNewestCopy(next[i])'
    BY <1>16, <2>2, <2>3
  <2>7. \A i, j \in 1..k : i < j => next[i] < next[j]
    <3> TAKE i, j \in 1..k
    <3>1. i < j => i + 1 < j + 1
      OBVIOUS
    <3> QED
      BY <1>15, <2>3, <3>1
  <2>8. ASSUME NEW c \in 1..m+1, IsNewestCopy(c)'
        PROVE  (\E i \in 1..k : next[i] = c) \/ \A i \in 1..k : c < next[i]
    <3>1. CASE \E i \in 1..k+1 : full[i] = c
      <4>1. PICK i \in 1..k+1 : full[i] = c
        BY <3>1
      <4>2. CASE i = 1
        <5>1. \A j \in 1..k : 1 < j + 1 /\ 1 \in 1..k+1
          BY <1>5
        <5> QED
          BY <1>15, <2>3, <4>1, <4>2, <5>1
      <4>3. CASE i - 1 \in 1..k /\ (i - 1) + 1 = i
        <5>1. next[i-1] = full[(i-1)+1]
          BY <2>3, <4>3
        <5> QED
          BY <4>1, <4>3, <5>1
      <4> QED
        BY <2>4, <4>2, <4>3
    <3>2. CASE \A i \in 1..k+1 : c < full[i]
      BY <2>3, <3>2
    <3> QED
      BY <1>19, <2>8, <3>1, <3>2
  <2>9. StoreIs(next)'
    BY <1>9, <2>1, <2>2, <2>6, <2>7, <2>8 DEF StoreIs, Limit
  <2> QED
    <3>1. Limit' = Limit
      BY DEF Limit
    <3> QED
      BY <1>1, <2>1, <2>2, <2>5, <2>9, <3>1 DEF StoreFits
<1> QED
  BY <1>1, <1>5, <1>20, <1>21

(* A frame that the store owes is there: fewer than Limit other frames were *)
(* encoded since its newest copy.                                           *)
LEMMA OwedIsStored ==
  ASSUME StoreFits, copies \in Seq(FrameType), NEW c \in 1..Len(copies), IsOwed(c)
  PROVE  copies[c] \in Stored(copies[c].key)
<1> DEFINE S == {copies[d].key : d \in c..Len(copies)}
           keys == [i \in 1..Len(store) |-> store[i].key]
           all == [d \in 1..Len(copies) |-> copies[d].key]
<1>1. /\ store \in Seq(FrameType) /\ Len(store) \in Nat /\ Len(copies) \in Nat
      /\ Cardinality(S) <= Limit /\ IsNewestCopy(c)
  BY DEF StoreFits, IsOwed
<1>2. PICK place \in [1..Len(store) -> 1..Len(copies)] : StoreIs(place)
  BY DEF StoreFits
<1>3. \A i \in 1..Len(store) :
        /\ place[i] \in 1..Len(copies) /\ store[i] = copies[place[i]] /\ IsNewestCopy(place[i])
  BY <1>2 DEF StoreIs
<1>4. CASE \E i \in 1..Len(store) : place[i] = c
  <2>1. PICK i \in 1..Len(store) : store[i] = copies[c]
    BY <1>3, <1>4
  <2>2. store[i] \in Range(store)
    BY <1>1 DEF Range
  <2> QED
    BY <2>1, <2>2 DEF Stored
<1>5. CASE Len(store) = Limit /\ \A i \in 1..Len(store) : c < place[i]
  <2>1. keys \in Seq(KeyIds) /\ Len(keys) = Len(store) /\ \A i \in 1..Len(store) : keys[i] = store[i].key
    <3>1. \A i \in 1..Len(store) : store[i].key \in KeyIds
      <4>1. \A f \in FrameType : f.key \in KeyIds
        BY DEF FrameType
      <4> QED
        BY <1>1, <4>1
    <3> QED
      BY <1>1, <3>1
  <2>2. all \in Seq(KeyIds) /\ Len(all) = Len(copies) /\ \A d \in 1..Len(copies) : all[d] = copies[d].key
    <3>1. \A d \in 1..Len(copies) : copies[d].key \in KeyIds
      <4>1. \A f \in FrameType : f.key \in KeyIds
        BY DEF FrameType
      <4> QED
        BY <4>1
    <3> QED
      BY <1>1, <3>1
  <2>3. \A i, j \in 1..Len(store) : store[i].key = store[j].key => i = j
    BY <1>1, <1>2, KeysDiffer
  <2> HIDE DEF keys, all
  <2>4. /\ Range(keys) = {keys[i] : i \in 1..Len(store)} /\ IsFiniteSet(Range(keys))
        /\ Cardinality(Range(keys)) = Len(store)
    <3>1. /\ Range(keys) = {keys[i] : i \in 1..Len(keys)} /\ IsFiniteSet(Range(keys))
          /\ IsInjective(keys) <=> \A i, j \in 1..Len(keys) : keys[i] = keys[j] => i = j
          /\ IsInjective(keys) => Cardinality(Range(keys)) = Len(keys)
      BY <2>1, RangeIs
    <3> QED
      BY <2>1, <2>3, <3>1
  <2>5. Range(all) = {all[d] : d \in 1..Len(copies)} /\ IsFiniteSet(Range(all))
    BY <2>2, RangeIs
  <2>6. S \subseteq Range(all)
    <3>1. c..Len(copies) \subseteq 1..Len(copies)
      BY <1>1
    <3> QED
      BY <2>2, <2>5, <3>1
  <2>7. copies[c].key \notin Range(keys)
    <3> SUFFICES ASSUME NEW i \in 1..Len(store), store[i].key = copies[c].key PROVE FALSE
      BY <2>1, <2>4
    <3>1. c \in DOMAIN copies /\ place[i] \in DOMAIN copies /\ copies[place[i]].key = copies[c].key
      BY <1>3
    <3>2. place[i] <= c
      BY <1>1, <3>1 DEF IsNewestCopy
    <3> QED
      BY <1>3, <1>5, <3>2
  <2>8. Range(keys) \cup {copies[c].key} \subseteq S
    <3>1. c \in c..Len(copies)
      BY <1>1
    <3>2. \A i \in 1..Len(store) : place[i] \in c..Len(copies) /\ keys[i] = copies[place[i]].key
      BY <1>1, <1>3, <1>5, <2>1
    <3> QED
      BY <2>4, <3>1, <3>2
  <2>9. Cardinality(Range(keys) \cup {copies[c].key}) = Len(store) + 1
    BY <2>4, <2>7, FS_AddElement
  <2>10. IsFiniteSet(S)
    BY <2>5, <2>6, FS_Subset
  <2>11. Len(store) + 1 <= Cardinality(S)
    BY <2>8, <2>9, <2>10, FS_Subset
  <2>12. Cardinality(S) \in Nat
    BY <2>10, FS_CardinalityType
  <2> HIDE DEF S
  <2> QED
    BY <1>1, <1>5, <2>11, <2>12
<1> QED
  BY <1>1, <1>2, <1>4, <1>5 DEF StoreIs

(* fulfill: of the datagrams of a frame, those that the request names, with *)
(* what the request names beside them ignored.                              *)
LEMMA FulfilledIs ==
  ASSUME NEW f \in FrameType, NEW indices \in Seq(Nat)
  PROVE  /\ Fulfilled(f, indices) \in Seq(Datagram)
         /\ Range(Fulfilled(f, indices)) \subseteq Range(f.datagrams)
         /\ \A j \in 1..Len(f.datagrams) : j - 1 \in Range(indices) =>
              f.datagrams[j] \in Range(Fulfilled(f, indices))
<1> DEFINE gone == {x \in Range(indices) : x >= Len(f.datagrams)}
           known == Retained(indices, gone)
           part == [i \in DOMAIN known |-> f.datagrams[known[i] + 1]]
<1>1. f.datagrams \in Seq(Datagram) /\ Len(f.datagrams) \in Nat
  BY DEF FrameType
<1>2. known \in Seq(Nat) /\ Range(known) = Range(indices) \ gone
  BY RetainedIs, RetainKeeps
<1>3. Fulfilled(f, indices) = part
  BY DEF Fulfilled
<1>4. Range(indices) \subseteq Nat
  BY DEF Range
<1>5. \A x \in Range(indices) \ gone : x + 1 \in 1..Len(f.datagrams)
  BY <1>1, <1>4
<1>6. \A j \in 1..Len(f.datagrams) : j - 1 \notin gone
  BY <1>1
<1> HIDE DEF known, gone
<1>7. Range(known) = {known[i] : i \in 1..Len(known)} /\ DOMAIN known = 1..Len(known) /\ Len(known) \in Nat
  BY <1>2, RangeIs
<1>8. \A i \in 1..Len(known) : known[i] + 1 \in 1..Len(f.datagrams)
  BY <1>2, <1>5, <1>7
<1>9. part \in Seq(Datagram) /\ \A i \in 1..Len(known) : part[i] = f.datagrams[known[i] + 1]
  BY <1>1, <1>7, <1>8
<1>10. Range(part) = {part[i] : i \in 1..Len(known)}
  BY <1>7 DEF Range
<1> HIDE DEF part
<1>11. Range(part) \subseteq Range(f.datagrams)
  <2>1. \A j \in 1..Len(f.datagrams) : f.datagrams[j] \in Range(f.datagrams)
    BY <1>1 DEF Range
  <2> QED
    BY <1>8, <1>9, <1>10, <2>1
<1>12. ASSUME NEW j \in 1..Len(f.datagrams), j - 1 \in Range(indices) PROVE f.datagrams[j] \in Range(part)
  <2>1. PICK i \in 1..Len(known) : known[i] = j - 1
    BY <1>2, <1>6, <1>7, <1>12
  <2>2. known[i] + 1 = j
    BY <1>1, <2>1
  <2> QED
    BY <1>9, <1>10, <2>2
<1> QED
  BY <1>3, <1>9, <1>11, <1>12

(* Of a set of one sequence or none, the one that it has.                   *)
LEMMA FlattenOne ==
  ASSUME NEW A, NEW S \in SUBSET Seq(A), \A s, t \in S : s = t
  PROVE  /\ FlattenSeq(SetToSeq(S)) \in Seq(A)
         /\ \A x : x \in Range(FlattenSeq(SetToSeq(S))) <=> \E s \in S : x \in Range(s)
<1> DEFINE g == SetToSeq(S)
<1>1. CASE S = {}
  <2>1. Cardinality(S) = 0
    BY <1>1, FS_EmptySet
  <2>2. \E f \in [1..0 -> S] : IsInjective(f)
    <3>1. [i \in 1..0 |-> i] \in [1..0 -> S] /\ IsInjective([i \in 1..0 |-> i])
      BY DEF IsInjective
    <3> QED
      BY <3>1
  <2>3. g \in [1..0 -> S]
    BY <2>1, <2>2 DEF SetToSeq
  <2> HIDE DEF g
  <2>4. g \in Seq(Seq(A)) /\ Len(g) = 0
    BY <2>3
  <2>5. FlattenSeq(g) \in Seq(A) /\ \A x : x \in Range(FlattenSeq(g)) <=> \E i \in 1..Len(g) : x \in Range(g[i])
    BY <2>4, FlattenHas
  <2> QED
    BY <1>1, <2>4, <2>5 DEF g
<1>2. ASSUME NEW s \in S PROVE FlattenSeq(g) \in Seq(A) /\ \A x : x \in Range(FlattenSeq(g)) <=> x \in Range(s)
  <2>1. S = {s}
    OBVIOUS
  <2>2. Cardinality(S) = 1
    BY <2>1, FS_Singleton
  <2>3. \E f \in [1..1 -> S] : IsInjective(f)
    <3>1. [i \in 1..1 |-> s] \in [1..1 -> S] /\ IsInjective([i \in 1..1 |-> s])
      BY DEF IsInjective
    <3> QED
      BY <3>1
  <2>4. g \in [1..1 -> S]
    BY <2>2, <2>3 DEF SetToSeq
  <2> HIDE DEF g
  <2>5. g \in Seq(Seq(A)) /\ Len(g) = 1 /\ g[1] = s
    <3>1. DOMAIN g = 1..1 /\ g = [i \in 1..1 |-> g[i]] /\ g[1] \in S
      BY <2>4
    <3>2. g[1] = s
      BY <2>1, <3>1
    <3>3. \A i \in 1..1 : g[i] \in Seq(A)
      BY <2>4
    <3> QED
      BY <3>1, <3>2, <3>3
  <2>6. FlattenSeq(g) \in Seq(A) /\ \A x : x \in Range(FlattenSeq(g)) <=> \E i \in 1..Len(g) : x \in Range(g[i])
    BY <2>5, FlattenHas
  <2>7. \A i \in 1..1 : i = 1
    OBVIOUS
  <2> QED
    BY <2>5, <2>6, <2>7
<1> QED
  <2>1. CASE S # {}
    <3>1. PICK s \in S : TRUE
      BY <2>1
    <3> HIDE DEF g
    <3>2. FlattenSeq(g) \in Seq(A) /\ \A x : x \in Range(FlattenSeq(g)) <=> x \in Range(s)
      BY <1>2
    <3> QED
      BY <3>1, <3>2 DEF g
  <2> QED
    BY <1>1, <2>1

(* The store does not change on its own.                                    *)
LEMMA StoreStays ==
  ASSUME StoreFits, UNCHANGED <<copies, store>>
  PROVE  StoreFits'
<1>1. copies' = copies /\ store' = store /\ Limit' = Limit
  BY DEF Limit
<1>2. \A c : IsNewestCopy(c)' <=> IsNewestCopy(c)
  BY <1>1 DEF IsNewestCopy
<1>3. PICK place \in [1..Len(store) -> 1..Len(copies)] : StoreIs(place)
  BY DEF StoreFits
<1>4. StoreIs(place)'
  BY <1>1, <1>2, <1>3 DEF StoreIs
<1> QED
  BY <1>1, <1>3, <1>4 DEF StoreFits

(* A request is answered with what is missing, if the store has it.         *)
LEMMA RequestStep ==
  ASSUME StoreInv, NEW c \in 1..Len(copies), NEW indices \in Seq(Nat),
         Request(c, indices),
         \A j \in 1..Len(copies[c].datagrams) :
           copies[c].datagrams[j].esi \notin arrived[copies[c].datagrams[j].block] => j - 1 \in Range(indices)
  PROVE  StoreInv' /\ (PromisesHold /\ WindowReachesBack => PromisesHold')
<1> DEFINE f == copies[c]
           answers == {Fulfilled(g, indices) : g \in Stored(f.key)}
           part == FlattenSeq(SetToSeq(answers))
<1>1. /\ UNCHANGED <<nextSeq, blocks, counts, wire, newest, fec, partial, completed, arrived, decoded, returned>>
      /\ UNCHANGED <<copies, store>>
      /\ response.datagrams = <<>> /\ returned[f.key] = 0
      /\ promised' = IF IsOwed(c) THEN promised \cup {f.key} ELSE promised
      /\ response' = [key |-> f.key, datagrams |-> part]
  BY DEF Request, vars, sender, receiver, history
<1>2. /\ copies \in Seq(FrameType) /\ f \in FrameType /\ f.key \in Keys
      /\ Fits(f.key, f.datagrams) /\ Covers(f.key, f.datagrams)
  BY DEF StoreInv, CopiesFit
<1>3. \A g \in Stored(f.key) : g \in Range(store) /\ g \in FrameType /\ g.key = f.key /\ Fits(f.key, g.datagrams)
  <2> SUFFICES ASSUME NEW g \in Stored(f.key)
               PROVE  g \in Range(store) /\ g \in FrameType /\ g.key = f.key /\ Fits(f.key, g.datagrams)
    OBVIOUS
  <2>1. store \in Seq(FrameType) /\ g \in Range(store) /\ g.key = f.key
    BY DEF Stored, StoreInv, StoreFits
  <2>2. PICK i \in 1..Len(store) : g = store[i]
    BY <2>1 DEF Range
  <2>3. PICK place \in [1..Len(store) -> 1..Len(copies)] : StoreIs(place)
    BY DEF StoreInv, StoreFits
  <2>4. place[i] \in 1..Len(copies) /\ g = copies[place[i]]
    BY <2>2, <2>3 DEF StoreIs
  <2>5. g \in FrameType /\ Fits(g.key, g.datagrams)
    BY <2>4 DEF StoreInv, CopiesFit
  <2> QED
    BY <2>1, <2>5
<1>4. \A g, h \in Stored(f.key) : g = h
  <2> SUFFICES ASSUME NEW g \in Stored(f.key), NEW h \in Stored(f.key) PROVE g = h
    OBVIOUS
  <2>1. PICK place \in [1..Len(store) -> 1..Len(copies)] : StoreIs(place)
    BY DEF StoreInv, StoreFits
  <2>2. store \in Seq(FrameType) /\ \A i, j \in 1..Len(store) : store[i].key = store[j].key => i = j
    BY <1>2, <2>1, KeysDiffer DEF StoreInv, StoreFits
  <2>3. PICK i \in 1..Len(store) : g = store[i]
    BY <1>3, <2>2 DEF Range
  <2>4. PICK j \in 1..Len(store) : h = store[j]
    BY <1>3, <2>2 DEF Range
  <2>5. store[i].key = store[j].key
    BY <1>3, <2>3, <2>4
  <2> QED
    BY <2>2, <2>3, <2>4, <2>5
<1>5. /\ part \in Seq(Datagram)
      /\ \A x : x \in Range(part) <=> \E s \in answers : x \in Range(s)
  <2>1. answers \in SUBSET Seq(Datagram)
    BY <1>3, FulfilledIs
  <2>2. \A s, t \in answers : s = t
    BY <1>4
  <2> HIDE DEF answers
  <2> QED
    BY <2>1, <2>2, FlattenOne
<1> HIDE DEF part
<1>6. Fits(f.key, part)
  <2> SUFFICES ASSUME NEW x \in Range(part) PROVE x.block \in 1..Len(blocks) /\ blocks[x.block].key = f.key
    BY <1>5 DEF Fits
  <2>1. PICK g \in Stored(f.key) : x \in Range(Fulfilled(g, indices))
    BY <1>5
  <2>2. x \in Range(g.datagrams)
    BY <1>3, <2>1, FulfilledIs
  <2> QED
    BY <1>3, <2>2 DEF Fits
<1>7. Keys' = Keys /\ response'.key = f.key /\ response'.datagrams = part
  BY <1>1 DEF Keys
<1>8. FrameInv' /\ BlockInv'
  <2>1. BlocksFit' /\ KeysAreOld' /\ FecFits' /\ BlocksAreLive'
    BY <1>1, <1>7 DEF StoreInv, FrameInv, BlockInv, BlocksFit, KeysAreOld, FecFits, InFlight, BlocksAreLive, IsDecoded, Waits, Held
  <2>2. \A key \in Keys : FrameIsTold(key)'
    BY <1>1 DEF StoreInv, FrameInv, FrameIsTold, Recent, Gathered
  <2> QED
    BY <1>7, <2>1, <2>2 DEF FrameInv, BlockInv
<1>9. CopiesFit' /\ StoreFits'
  <2>1. CopiesFit'
    BY <1>1, <1>7 DEF StoreInv, CopiesFit, Fits, Covers
  <2>2. StoreFits'
    BY <1>1, StoreStays DEF StoreInv
  <2> QED
    BY <2>1, <2>2
<1>10. ResponseFits'
  BY <1>1, <1>6, <1>7 DEF ResponseFits, Fits
<1> SUFFICES ASSUME PromisesHold, WindowReachesBack PROVE PromisesHold'
  BY <1>8, <1>9, <1>10 DEF StoreInv
<1>11. \A key \in promised : key \in Keys /\ returned[key] > 0
  BY <1>1 DEF PromisesHold
<1>12. CASE ~IsOwed(c)
  BY <1>1, <1>7, <1>11, <1>12 DEF PromisesHold
<1>13. CASE IsOwed(c)
  <2>1. f \in Stored(f.key)
    BY <1>2, <1>13, OwedIsStored DEF StoreInv
  <2>2. \A j \in 1..Len(f.datagrams) : j - 1 \in Range(indices) => f.datagrams[j] \in Range(part)
    BY <1>2, <1>5, <2>1, FulfilledIs
  <2>3. ASSUME NEW i \in 1..counts[f.key], i \notin decoded[f.key]
        PROVE  \E n \in 1..Len(blocks) :
                 /\ blocks[n] = [key |-> f.key, index |-> i]
                 /\ ~(Sources \subseteq arrived[n])
                 /\ \A e \in Sources \ arrived[n] : [block |-> n, esi |-> e] \in Range(part)
    <3>1. PICK n \in 1..Len(blocks) :
            /\ blocks[n] = [key |-> f.key, index |-> i]
            /\ \A e \in Sources : [block |-> n, esi |-> e] \in Range(f.datagrams)
      BY <1>2, <2>3 DEF Covers
    <3>2. Len(blocks) <= n + CompletedWindow
      <4>1. 0 \in Sources
        BY Sizes DEF Sources
      <4>2. [block |-> n, esi |-> 0] \in Range(f.datagrams) /\ f \in Range(store)
        BY <1>3, <2>1, <3>1, <4>1
      <4> QED
        BY <4>2 DEF WindowReachesBack
    <3>3. ~IsDecoded(n)
      BY <2>3, <3>1 DEF IsDecoded
    <3>4. Waits(n)
      BY <3>2, <3>3 DEF StoreInv, BlockInv, BlocksAreLive
    <3>5. ASSUME NEW e \in Sources \ arrived[n] PROVE [block |-> n, esi |-> e] \in Range(part)
      <4>1. PICK j \in 1..Len(f.datagrams) : f.datagrams[j] = [block |-> n, esi |-> e]
        <5>1. f.datagrams \in Seq(Datagram) /\ [block |-> n, esi |-> e] \in Range(f.datagrams)
          BY <1>2, <3>1 DEF Fits
        <5> QED
          BY <5>1 DEF Range
      <4>2. f.datagrams[j].block = n /\ f.datagrams[j].esi = e
        BY <4>1
      <4>3. j - 1 \in Range(indices)
        BY <3>5, <4>2
      <4> QED
        BY <2>2, <4>1, <4>3
    <3> QED
      BY <3>1, <3>4, <3>5 DEF Waits
  <2>5. ASSUME NEW key, key = f.key PROVE key \in Keys' /\ response'.key = key /\ response'.datagrams # <<>> /\ Comes(key)'
    <3>1. Comes(key)'
      <4>1. UNCHANGED <<blocks, counts, arrived, decoded>>
        BY <1>1
      <4>2. ASSUME NEW i \in 1..counts[key], i \notin decoded[key]
            PROVE  \E n \in 1..Len(blocks) :
                     /\ blocks[n] = [key |-> key, index |-> i]
                     /\ ~(Sources \subseteq arrived[n])
                     /\ \A e \in Sources \ arrived[n] : [block |-> n, esi |-> e] \in Range(part)
        BY <2>3, <2>5, <4>2
      <4>3. response'.datagrams = part /\ counts'[key] = counts[key] /\ decoded'[key] = decoded[key]
        BY <1>7, <4>1
      <4>4. ASSUME NEW i \in 1..counts'[key], i \notin decoded'[key]
            PROVE  \E n \in 1..Len(blocks') :
                     /\ blocks'[n] = [key |-> key, index |-> i]
                     /\ ~(Sources \subseteq arrived'[n])
                     /\ \A e \in Sources \ arrived'[n] : [block |-> n, esi |-> e] \in Range(response'.datagrams)
        BY <4>1, <4>2, <4>3, <4>4
      <4> QED
        BY <4>4 DEF Comes, Sources
    <3>2. decoded[key] # 1..counts[key] /\ decoded[key] \subseteq 1..counts[key]
      BY <1>1, <1>2, <2>5 DEF StoreInv, FrameInv, FrameIsTold
    <3>3. PICK i \in 1..counts[key] : i \notin decoded[key]
      BY <3>2
    <3>4. Range(part) # {}
      BY <2>3, <2>5, <3>3
    <3>5. Range(<<>>) = {}
      BY DEF Range
    <3> QED
      BY <1>2, <1>7, <2>5, <3>1, <3>4, <3>5
  <2>6. \A key \in promised' : key \in promised \/ key = f.key
    BY <1>1
  <2> QED
    BY <1>1, <1>7, <1>11, <2>5, <2>6 DEF PromisesHold
<1> QED
  BY <1>12, <1>13

(* A symbol of a recent frame, while the response brings, besides it, what  *)
(* it brought before: what is promised is still coming, or is returned.     *)
LEMMA PromiseStep ==
  ASSUME StoreInv, PromisesHold, WindowReachesBack, FrameInv', BlockInv',
         NEW n \in 1..Len(blocks), NEW esi, PushSymbol(n, esi), UNCHANGED <<sender, promised>>,
         response'.key = response.key,
         \A x \in Range(response.datagrams) : x = [block |-> n, esi |-> esi] \/ x \in Range(response'.datagrams)
  PROVE  PromisesHold'
<1>1. /\ UNCHANGED <<nextSeq, blocks, counts, wire>> /\ Keys' = Keys
      /\ FrameInv /\ BlockInv
  BY DEF sender, Keys, StoreInv
<1>2. \A key \in Keys : /\ FrameIsTold(key) /\ FrameIsTold(key)' /\ decoded[key] \subseteq decoded'[key]
                        /\ counts[key] \in Nat
  <2>1. \A key \in Keys : decoded[key] \subseteq decoded'[key]
    <3>1. DOMAIN decoded = Keys
      BY <1>1 DEF FrameInv, KeysAreOld
    <3>2. decoded' = decoded \/ decoded' = [decoded EXCEPT ![blocks[n].key] = @ \cup {blocks[n].index}]
      BY <1>1, PushCases DEF BlockInv
    <3> QED
      BY <3>1, <3>2
  <2>2. \A key \in Keys : FrameIsTold(key) /\ FrameIsTold(key)' /\ counts[key] \in Nat
    BY <1>1 DEF FrameInv, KeysAreOld
  <2> QED
    BY <2>1, <2>2
<1>3. \A key \in Keys : decoded'[key] = 1..counts[key] => returned'[key] > 0
  BY <1>1, <1>2 DEF FrameIsTold
<1>4. /\ \A m \in 1..Len(blocks) : m # n => arrived'[m] = arrived[m]
      /\ arrived'[n] = arrived[n] \cup {esi}
  <2>1. DOMAIN arrived = 1..MaxBlocks /\ Len(blocks) <= MaxBlocks /\ arrived' = [arrived EXCEPT ![n] = @ \cup {esi}]
    BY <1>1, PushCases DEF BlockInv, FecFits
  <2>2. \A m \in 1..Len(blocks) : m \in 1..MaxBlocks
    BY <1>1, <2>1, IdsSuffice DEF FrameInv, BlocksFit
  <2> QED
    BY <2>1, <2>2
<1> SUFFICES ASSUME NEW key \in promised
             PROVE  /\ key \in Keys
                    /\ returned'[key] > 0 \/ (response'.key = key /\ response'.datagrams # <<>> /\ Comes(key)')
  BY <1>1 DEF PromisesHold
<1>5. key \in Keys /\ (returned[key] > 0 \/ (response.key = key /\ Comes(key)))
  BY DEF PromisesHold
<1>6. CASE returned[key] > 0
  <2>1. decoded[key] = 1..counts[key]
    BY <1>2, <1>5, <1>6 DEF FrameIsTold
  <2>2. decoded'[key] = 1..counts[key]
    BY <1>1, <1>2, <1>5, <2>1 DEF FrameIsTold
  <2> QED
    BY <1>3, <1>5, <2>2
<1>7. CASE response.key = key /\ Comes(key)
  <2>1. ASSUME NEW i \in 1..counts[key], i \notin decoded'[key]
        PROVE  \E m \in 1..Len(blocks) :
                 /\ blocks[m] = [key |-> key, index |-> i]
                 /\ ~(Sources \subseteq arrived'[m])
                 /\ \A e \in Sources \ arrived'[m] : [block |-> m, esi |-> e] \in Range(response'.datagrams)
    <3>1. PICK m \in 1..Len(blocks) :
            /\ blocks[m] = [key |-> key, index |-> i]
            /\ ~(Sources \subseteq arrived[m])
            /\ \A e \in Sources \ arrived[m] : [block |-> m, esi |-> e] \in Range(response.datagrams)
      <4>1. i \notin decoded[key]
        BY <1>2, <1>5, <2>1
      <4> QED
        BY <1>7, <4>1 DEF Comes
    <3>2. Len(blocks) <= m + CompletedWindow
      <4>1. PICK e \in Sources : e \notin arrived[m]
        BY <3>1
      <4>2. [block |-> m, esi |-> e] \in Range(response.datagrams)
        BY <3>1, <4>1
      <4> QED
        BY <4>2 DEF WindowReachesBack
    <3>3. ~IsDecoded(m)'
      BY <1>1, <2>1, <3>1 DEF IsDecoded
    <3>4. Waits(m)'
      BY <1>1, <3>2, <3>3 DEF BlockInv, BlocksAreLive
    <3>5. ASSUME NEW e \in Sources \ arrived'[m] PROVE [block |-> m, esi |-> e] \in Range(response'.datagrams)
      <4>1. e \notin arrived[m] /\ ~(m = n /\ e = esi)
        BY <1>4, <3>5
      <4>2. [block |-> m, esi |-> e] \in Range(response.datagrams)
        BY <3>1, <3>5, <4>1
      <4>3. [block |-> m, esi |-> e] # [block |-> n, esi |-> esi]
        BY <4>1
      <4> QED
        BY <4>2, <4>3
    <3> QED
      BY <3>1, <3>4, <3>5 DEF Waits, Sources
  <2>2. Comes(key)'
    BY <1>1, <2>1 DEF Comes, Sources
  <2>3. CASE response'.datagrams = <<>>
    <3>1. Range(<<>>) = {}
      BY DEF Range
    <3>2. 1..counts[key] \subseteq decoded'[key]
      BY <2>1, <2>3, <3>1
    <3>3. decoded'[key] = 1..counts[key]
      BY <1>1, <1>2, <1>5, <3>2 DEF FrameIsTold
    <3> QED
      BY <1>3, <1>5, <3>3
  <2> QED
    BY <1>5, <1>7, <2>2, <2>3
<1> QED
  BY <1>5, <1>6, <1>7

(* What is left to serve is still served after a datagram from the wire.    *)
LEMMA ArriveStep ==
  ASSUME StoreInv, NEW i \in 1..Len(wire), Arrive(i)
  PROVE  StoreInv' /\ (PromisesHold /\ WindowReachesBack => PromisesHold')
<1>1. /\ UNCHANGED sender /\ UNCHANGED <<copies, store, response, promised>> /\ PushArrival(i)
      /\ Recent(blocks[wire[i].block].key) /\ PushSymbol(wire[i].block, wire[i].esi)
  BY DEF Arrive, PushArrival, backfill
<1>2. wire[i].block \in 1..Len(blocks) /\ FrameInv /\ BlockInv
  BY DEF StoreInv, FrameInv, BlocksFit
<1>3. FrameInv' /\ BlockInv'
  BY <1>1, <1>2, SymbolStep, PushBlock
<1>4. PromisesHold /\ WindowReachesBack => PromisesHold'
  BY <1>1, <1>2, <1>3, PromiseStep
<1>5. CopiesFit' /\ ResponseFits' /\ StoreFits'
  <2>1. Keys' = Keys /\ UNCHANGED <<blocks, counts>>
    BY <1>1 DEF Keys, sender
  <2>2. CopiesFit' /\ ResponseFits'
    BY <1>1, <2>1 DEF StoreInv, CopiesFit, ResponseFits, Fits, Covers, Sources
  <2> QED
    BY <1>1, <2>2, StoreStays DEF StoreInv
<1> QED
  BY <1>3, <1>4, <1>5 DEF StoreInv

(* And after the next datagram of the response.                             *)
LEMMA DeliverStep ==
  ASSUME StoreInv, Deliver
  PROVE  StoreInv' /\ (PromisesHold /\ WindowReachesBack => PromisesHold')
<1> DEFINE all == response.datagrams
<1>1. /\ UNCHANGED sender /\ UNCHANGED <<copies, store, promised>>
      /\ all # <<>> /\ Recent(response.key) /\ PushSymbol(Head(all).block, Head(all).esi)
      /\ response' = [response EXCEPT !.datagrams = Tail(@)]
  BY DEF Deliver
<1>2. /\ all \in Seq(Datagram) /\ response = [key |-> response.key, datagrams |-> all]
      /\ \A x \in Range(all) : x.block \in 1..Len(blocks) /\ blocks[x.block].key = response.key
  BY DEF StoreInv, ResponseFits, Fits
<1>3. response'.key = response.key /\ response'.datagrams = Tail(all)
      /\ response' = [key |-> response'.key, datagrams |-> response'.datagrams]
  BY <1>1, <1>2
<1> HIDE DEF all
<1>4. /\ Head(all) \in Range(all) /\ Head(all) \in Datagram /\ Tail(all) \in Seq(Datagram)
      /\ \A x \in Range(all) : x = Head(all) \/ x \in Range(Tail(all))
      /\ Range(Tail(all)) \subseteq Range(all)
  <2> DEFINE t == Tail(all)
             m == Len(all)
  <2>1. /\ m \in Nat /\ m >= 1 /\ t \in Seq(Datagram) /\ Len(t) = m - 1 /\ Head(all) = all[1]
        /\ \A i \in 1..m-1 : t[i] = all[i+1]
    BY <1>1, <1>2
  <2>2. \A i \in 1..m : i = 1 \/ (i - 1 \in 1..m-1 /\ (i - 1) + 1 = i)
    BY <2>1
  <2>3. 1 \in 1..m /\ \A i \in 1..m-1 : i + 1 \in 1..m
    BY <2>1
  <2>4. Head(all) \in Datagram
    BY <1>2, <2>1, <2>3
  <2> HIDE DEF t
  <2>5. Range(all) = {all[i] : i \in 1..m} /\ Range(t) = {t[i] : i \in 1..m-1}
    BY <1>2, <2>1, RangeIs
  <2> HIDE DEF m
  <2>6. Head(all) \in Range(all) /\ Range(t) \subseteq Range(all)
    BY <2>1, <2>3, <2>5
  <2>7. \A x \in Range(all) : x = Head(all) \/ x \in Range(t)
    <3> SUFFICES ASSUME NEW x \in Range(all) PROVE x = Head(all) \/ x \in Range(t)
      OBVIOUS
    <3>1. PICK i \in 1..m : x = all[i]
      BY <2>5
    <3>2. i # 1 => x = t[i - 1] /\ i - 1 \in 1..m-1
      BY <2>1, <2>2, <3>1
    <3> QED
      BY <2>1, <2>5, <3>1, <3>2
  <2> QED
    BY <2>1, <2>4, <2>6, <2>7 DEF t
<1>5. Head(all).block \in 1..Len(blocks) /\ blocks[Head(all).block].key = response.key /\ FrameInv /\ BlockInv
  BY <1>2, <1>4 DEF StoreInv
<1>6. Head(all) = [block |-> Head(all).block, esi |-> Head(all).esi]
  BY <1>4 DEF Datagram
<1>7. FrameInv' /\ BlockInv'
  BY <1>1, <1>5, SymbolStep, PushBlock
<1>8. PromisesHold /\ WindowReachesBack => PromisesHold'
  <2>1. \A x \in Range(response.datagrams) :
          x = [block |-> Head(all).block, esi |-> Head(all).esi] \/ x \in Range(response'.datagrams)
    BY <1>3, <1>4, <1>6 DEF all
  <2> QED
    BY <1>1, <1>3, <1>5, <1>7, <2>1, PromiseStep
<1>9. CopiesFit' /\ ResponseFits' /\ StoreFits'
  <2>1. Keys' = Keys /\ UNCHANGED <<blocks, counts>>
    BY <1>1 DEF Keys, sender
  <2>2. CopiesFit'
    BY <1>1, <2>1 DEF StoreInv, CopiesFit, Fits, Covers, Sources
  <2>3. ResponseFits'
    BY <1>2, <1>3, <1>4, <2>1 DEF ResponseFits, Fits
  <2> QED
    BY <1>1, <2>2, <2>3, StoreStays DEF StoreInv
<1> QED
  BY <1>7, <1>8, <1>9 DEF StoreInv

(* A frame that is encoded goes into the store with every datagram of its   *)
(* plan, and what the reliable path brings is as good as before.            *)
LEMMA SendStep ==
  ASSUME StoreInv, FrameInv', NEW key \in KeyIds, NEW count \in Nat,
         EncodeFrame(key, count), Remember(key), key \in Keys', counts'[key] = count,
         \A c \in Keys : /\ c \in Keys' /\ counts'[c] = counts[c]
                         /\ decoded'[c] = decoded[c] /\ returned'[c] = returned[c]
  PROVE  StoreInv' /\ (PromisesHold => PromisesHold')
<1> DEFINE b == Len(blocks)
<1>1. PICK last : last = LastEncoded
  OBVIOUS
<1>2. PICK frame : frame = [key |-> key, datagrams |-> last]
  OBVIOUS
<1>3. /\ copies' = Append(copies, frame) /\ store' = Inserted(store, frame)
      /\ UNCHANGED <<response, promised, arrived>>
  BY <1>1, <1>2 DEF Remember, EncodeFrame
<1>4. /\ blocks' \in Seq(BlockType) /\ Len(blocks') = b + count /\ b \in Nat
      /\ \A n \in 1..b : blocks'[n] = blocks[n]
      /\ \A i \in 1..count : blocks'[b + i] = [key |-> key, index |-> i]
      /\ last \in Seq(Datagram)
      /\ \A x \in Range(last) : x.block \in b+1..b+count
      /\ \A i \in 1..count, e \in Sources : [block |-> b + i, esi |-> e] \in Range(last)
  <2>1. BlocksFit
    BY DEF StoreInv, FrameInv
  <2>2. b \in Nat
    BY <2>1 DEF BlocksFit
  <2> QED
    BY <1>1, <2>1, <2>2, EncodeIs
<1>5. FrameInv /\ BlocksFit /\ copies \in Seq(FrameType) /\ frame \in FrameType /\ frame.key = key /\ frame.datagrams = last
  BY <1>2, <1>4 DEF StoreInv, FrameInv, CopiesFit, FrameType
<1>6. /\ \A n \in b+1..b+count : n - b \in 1..count /\ b + (n - b) = n /\ n \in 1..b+count
      /\ \A n \in 1..b : n \in 1..b+count
      /\ \A i \in 1..count : b + i \in 1..b+count
  BY <1>4
<1> HIDE DEF b
<1>7. BlockInv'
  BY <1>5, EncodeBlock DEF StoreInv
<1>8. StoreFits'
  BY <1>3, <1>5, StoreStep DEF StoreInv
<1>9. \A n \in 1..Len(blocks) : n \in 1..Len(blocks') /\ blocks'[n] = blocks[n]
  BY <1>4, <1>6 DEF b
<1>10. \A c, datagrams : Fits(c, datagrams) => Fits(c, datagrams)'
  BY <1>9 DEF Fits
<1>11. ASSUME NEW c \in Keys, NEW datagrams, Covers(c, datagrams) PROVE Covers(c, datagrams)'
  <2>1. ASSUME NEW i \in 1..counts[c]
        PROVE  \E n \in 1..Len(blocks') :
                 /\ blocks'[n] = [key |-> c, index |-> i]
                 /\ \A e \in Sources : [block |-> n, esi |-> e] \in Range(datagrams)
    <3>1. PICK n \in 1..Len(blocks) :
            /\ blocks[n] = [key |-> c, index |-> i]
            /\ \A e \in Sources : [block |-> n, esi |-> e] \in Range(datagrams)
      BY <1>11 DEF Covers
    <3> QED
      BY <1>9, <3>1
  <2>2. counts'[c] = counts[c]
    OBVIOUS
  <2> QED
    BY <2>1, <2>2 DEF Covers, Sources
<1>12. Fits(key, last)' /\ Covers(key, last)'
  <2>1. ASSUME NEW n \in b+1..b+count PROVE n \in 1..Len(blocks') /\ blocks'[n].key = key
    <3>1. n - b \in 1..count /\ b + (n - b) = n /\ n \in 1..b+count
      BY <1>6
    <3>2. blocks'[b + (n - b)] = [key |-> key, index |-> n - b]
      BY <1>4, <3>1
    <3> QED
      BY <1>4, <3>1, <3>2
  <2>2. ASSUME NEW i \in 1..count
        PROVE  /\ b + i \in 1..Len(blocks') /\ blocks'[b + i] = [key |-> key, index |-> i]
               /\ \A e \in Sources : [block |-> b + i, esi |-> e] \in Range(last)
    <3>1. b + i \in 1..Len(blocks')
      BY <1>4, <1>6
    <3>2. blocks'[b + i] = [key |-> key, index |-> i]
      BY <1>4
    <3>3. \A e \in Sources : [block |-> b + i, esi |-> e] \in Range(last)
      BY <1>4
    <3> QED
      BY <3>1, <3>2, <3>3
  <2> QED
    BY <1>4, <2>1, <2>2 DEF Fits, Covers, Sources
<1>13. CopiesFit'
  <2>1. /\ copies' \in Seq(FrameType) /\ Len(copies') = Len(copies) + 1 /\ copies'[Len(copies) + 1] = frame
        /\ \A c \in 1..Len(copies) : copies'[c] = copies[c]
        /\ \A c \in 1..Len(copies') : c \in 1..Len(copies) \/ c = Len(copies) + 1
    BY <1>3, <1>5
  <2>2. ASSUME NEW c \in 1..Len(copies')
        PROVE  (/\ copies[c].key \in Keys
                /\ Fits(copies[c].key, copies[c].datagrams) /\ Covers(copies[c].key, copies[c].datagrams))'
    <3>1. CASE c \in 1..Len(copies)
      <4>1. PICK f : f = copies[c]
        OBVIOUS
      <4>2. f.key \in Keys /\ Fits(f.key, f.datagrams) /\ Covers(f.key, f.datagrams)
        BY <3>1, <4>1 DEF StoreInv, CopiesFit
      <4>3. f.key \in Keys' /\ Fits(f.key, f.datagrams)' /\ Covers(f.key, f.datagrams)'
        BY <1>10, <1>11, <4>2
      <4>4. copies'[c] = f
        BY <2>1, <3>1, <4>1
      <4> QED
        BY <4>3, <4>4 DEF Fits, Covers
    <3>2. CASE c = Len(copies) + 1
      <4>1. copies'[c] = frame
        BY <2>1, <3>2
      <4> QED
        BY <1>5, <1>12, <4>1 DEF Fits, Covers
    <3> QED
      BY <2>1, <3>1, <3>2
  <2> QED
    BY <2>1, <2>2 DEF CopiesFit
<1>14. ResponseFits'
  <2>1. PICK r : r = response
    OBVIOUS
  <2>2. r = [key |-> r.key, datagrams |-> r.datagrams] /\ Fits(r.key, r.datagrams)
    BY <2>1 DEF StoreInv, ResponseFits
  <2>3. Fits(r.key, r.datagrams)'
    BY <1>10, <2>2
  <2>4. response' = r
    BY <1>3, <2>1
  <2> QED
    BY <2>2, <2>3, <2>4 DEF ResponseFits, Fits
<1>15. ASSUME PromisesHold PROVE PromisesHold'
  <2> SUFFICES ASSUME NEW c \in promised
               PROVE  /\ c \in Keys'
                      /\ returned'[c] > 0 \/ (response'.key = c /\ response'.datagrams # <<>> /\ Comes(c)')
    BY <1>3 DEF PromisesHold
  <2>1. c \in Keys /\ (returned[c] > 0 \/ (response.key = c /\ response.datagrams # <<>> /\ Comes(c)))
    BY <1>15 DEF PromisesHold
  <2>2. ASSUME Comes(c), NEW i \in 1..counts[c], i \notin decoded'[c]
        PROVE  \E n \in 1..Len(blocks') :
                 /\ blocks'[n] = [key |-> c, index |-> i]
                 /\ ~(Sources \subseteq arrived'[n])
                 /\ \A e \in Sources \ arrived'[n] : [block |-> n, esi |-> e] \in Range(response'.datagrams)
    <3>1. PICK n \in 1..Len(blocks) :
            /\ blocks[n] = [key |-> c, index |-> i]
            /\ ~(Sources \subseteq arrived[n])
            /\ \A e \in Sources \ arrived[n] : [block |-> n, esi |-> e] \in Range(response.datagrams)
      BY <2>1, <2>2 DEF Comes
    <3> QED
      BY <1>3, <1>9, <3>1
  <2>3. Comes(c) => Comes(c)'
    BY <2>1, <2>2 DEF Comes, Sources
  <2> QED
    BY <1>3, <2>1, <2>3
<1> QED
  BY <1>7, <1>8, <1>13, <1>14, <1>15 DEF StoreInv

(* A new frame is such a frame.                                             *)
LEMMA SendNewFrameStep ==
  ASSUME StoreInv, NEW s \in Streams, NEW count \in Fragments, SendNewFrame(s, count)
  PROVE  StoreInv' /\ (PromisesHold => PromisesHold')
<1>1. PICK key : key = <<s, nextSeq[s]>>
  OBVIOUS
<1>2. /\ FrameInv /\ EncodeNewFrame(s, count) /\ EncodeFrame(key, count) /\ Remember(key)
      /\ counts' = Put(counts, key, count) /\ decoded' = Put(decoded, key, {}) /\ returned' = Put(returned, key, 0)
  BY <1>1 DEF StoreInv, SendNewFrame, EncodeNewFrame
<1>3. FrameInv'
  BY <1>2, NewFrameStep
<1>4. key \in KeyIds /\ key \notin Keys /\ DOMAIN decoded = Keys /\ DOMAIN returned = Keys
  BY <1>1, <1>2 DEF FrameInv, KeysAreOld, KeyIds
<1>5. count \in Nat
  BY MediaAssumption DEF MediaAssumption
<1>6. /\ key \in Keys' /\ counts'[key] = count
      /\ \A c \in Keys : /\ c \in Keys' /\ counts'[c] = counts[c]
                         /\ decoded'[c] = decoded[c] /\ returned'[c] = returned[c]
  BY <1>2, <1>4 DEF Put, Keys
<1> QED
  BY <1>2, <1>3, <1>4, <1>5, <1>6, SendStep

(* And so is a copy.                                                        *)
LEMMA SendAgainStep ==
  ASSUME StoreInv, NEW key \in Keys, SendAgain(key)
  PROVE  StoreInv' /\ (PromisesHold => PromisesHold')
<1>1. /\ FrameInv /\ EncodeAgain(key) /\ EncodeFrame(key, counts[key]) /\ Remember(key)
      /\ UNCHANGED <<counts, decoded, returned>>
  BY DEF StoreInv, SendAgain, EncodeAgain
<1>2. FrameInv'
  BY <1>1, CopyStep
<1>3. key \in KeyIds /\ counts[key] \in Nat /\ Keys' = Keys
  BY <1>1 DEF FrameInv, KeysAreOld, Keys
<1> QED
  BY <1>1, <1>2, <1>3, SendStep

(* Either request names each datagram that did not arrive.                  *)
LEMMA AskedIsMissing ==
  ASSUME StoreInv, NEW c \in 1..Len(copies), RequestFrame(c) \/ RequestDatagrams(c)
  PROVE  StoreInv' /\ (PromisesHold /\ WindowReachesBack => PromisesHold')
<1> DEFINE ds == copies[c].datagrams
           m == Len(ds)
<1>1. ds \in Seq(Datagram) /\ m \in Nat
  <2>1. copies[c] \in FrameType
    BY DEF StoreInv, CopiesFit
  <2> QED
    BY <2>1 DEF FrameType
<1>2. /\ Indices(c) \in Seq(Nat) /\ Len(Indices(c)) = m
      /\ \A j \in 1..m : j - 1 \in Range(Indices(c))
      /\ \A i \in Range(Indices(c)) : i \in Nat
  <2> DEFINE named == [i \in 1..m |-> i - 1]
  <2>1. Indices(c) = named
    BY <1>1 DEF Indices
  <2>2. \A i \in 1..m : i - 1 \in Nat
    BY <1>1
  <2>3. named \in Seq(Nat) /\ Len(named) = m /\ \A i \in 1..m : named[i] = i - 1
    BY <1>1, <2>2
  <2> HIDE DEF named, m
  <2>4. Range(named) = {named[i] : i \in 1..m}
    BY <2>3, RangeIs
  <2> QED
    BY <2>1, <2>2, <2>3, <2>4
<1>3. CASE RequestFrame(c)
  BY <1>2, <1>3, RequestStep DEF RequestFrame
<1>4. CASE RequestDatagrams(c)
  <2> DEFINE came == {i \in Range(Indices(c)) : ds[i + 1].esi \in arrived[ds[i + 1].block]}
             miss == Missing(c)
             asked == Append(miss, m)
  <2>1. miss \in Seq(Nat) /\ Range(miss) = Range(Indices(c)) \ came
    <3>1. miss = Kept(Indices(c), came)
      BY RetainedIs DEF Missing
    <3> HIDE DEF came, miss
    <3> QED
      BY <1>2, <3>1, RetainKeeps
  <2>2. Request(c, asked)
    BY <1>4 DEF RequestDatagrams
  <2>3. \A j \in 1..m : ds[j].esi \notin arrived[ds[j].block] => j - 1 \in Range(miss)
    <3> TAKE j \in 1..m
    <3>1. (j - 1) + 1 = j
      BY <1>1
    <3> QED
      BY <1>2, <2>1, <3>1
  <2> HIDE DEF miss
  <2>4. asked \in Seq(Nat) /\ Range(miss) \subseteq Range(asked)
    <3>1. /\ asked \in Seq(Nat) /\ Len(asked) = Len(miss) + 1
          /\ \A i \in 1..Len(miss) : asked[i] = miss[i] /\ i \in 1..Len(asked)
      BY <1>1, <2>1
    <3> HIDE DEF asked
    <3>2. Range(asked) = {asked[i] : i \in 1..Len(asked)} /\ Range(miss) = {miss[i] : i \in 1..Len(miss)}
      BY <2>1, <3>1, RangeIs
    <3> QED
      BY <3>1, <3>2
  <2> HIDE DEF asked
  <2> QED
    BY <2>2, <2>3, <2>4, RequestStep
<1> QED
  BY <1>3, <1>4

(* Each step leaves the store, the response and the frames in order, and    *)
(* keeps the promises if the window reaches back.                           *)
LEMMA BackfillStep ==
  StoreInv /\ [BackfillNext]_backfillVars => StoreInv' /\ (PromisesHold /\ WindowReachesBack => PromisesHold')
<1> SUFFICES ASSUME StoreInv, [BackfillNext]_backfillVars
             PROVE  StoreInv' /\ (PromisesHold /\ WindowReachesBack => PromisesHold')
  OBVIOUS
<1>1. CASE UNCHANGED backfillVars
  <2>1. /\ UNCHANGED <<nextSeq, blocks, counts, wire, newest, fec, partial, completed, arrived, decoded, returned>>
        /\ UNCHANGED <<copies, store, requests, response, promised>> /\ Keys' = Keys
    BY <1>1 DEF backfillVars, backfill, vars, sender, receiver, history, Keys
  <2>2. FrameInv'
    BY <1>1, FrameStep DEF backfillVars, StoreInv
  <2>3. BlockInv'
    BY <2>1 DEF StoreInv, BlockInv, FecFits, InFlight, BlocksAreLive, IsDecoded, Waits, Held, Sources
  <2>4. CopiesFit' /\ ResponseFits'
    BY <2>1 DEF StoreInv, CopiesFit, ResponseFits, Fits, Covers, Sources
  <2>5. StoreFits'
    BY <2>1, StoreStays DEF StoreInv
  <2>6. PromisesHold => PromisesHold'
    BY <2>1 DEF PromisesHold, Comes, Sources
  <2> QED
    BY <2>2, <2>3, <2>4, <2>5, <2>6 DEF StoreInv
<1>2. ASSUME NEW s \in Streams, NEW count \in Fragments, SendNewFrame(s, count)
      PROVE  StoreInv' /\ (PromisesHold => PromisesHold')
  BY <1>2, SendNewFrameStep
<1>3. ASSUME NEW key \in Keys, SendAgain(key) PROVE StoreInv' /\ (PromisesHold => PromisesHold')
  BY <1>3, SendAgainStep
<1>4. ASSUME NEW i \in 1..Len(wire), Arrive(i)
      PROVE  StoreInv' /\ (PromisesHold /\ WindowReachesBack => PromisesHold')
  BY <1>4, ArriveStep
<1>5. ASSUME NEW c \in DOMAIN copies, RequestFrame(c) \/ RequestDatagrams(c)
      PROVE  StoreInv' /\ (PromisesHold /\ WindowReachesBack => PromisesHold')
  <2>1. c \in 1..Len(copies)
    BY DEF StoreInv, CopiesFit
  <2> QED
    BY <1>5, <2>1, AskedIsMissing
<1>6. ASSUME Deliver PROVE StoreInv' /\ (PromisesHold /\ WindowReachesBack => PromisesHold')
  BY <1>6, DeliverStep
<1> QED
  BY <1>1, <1>2, <1>3, <1>4, <1>5, <1>6 DEF BackfillNext

(* The store and what it answers is in order in every state.                *)
LEMMA StoreAlways == BackfillSpec => []StoreInv
<1>1. BackfillInit => StoreInv
  BY StoreInit DEF BackfillInv
<1>2. StoreInv /\ [BackfillNext]_backfillVars => StoreInv'
  BY BackfillStep
<1> QED
  BY <1>1, <1>2, PTL DEF BackfillSpec

(* push_datagram returns a frame once however the response to a request is  *)
(* interleaved with the datagrams of the wire.                              *)
THEOREM BackfillReturnsOnce == BackfillSpec => []FramesAreReturnedOnce
<1>1. StoreInv => FramesAreReturnedOnce
  BY ToldFrames DEF StoreInv
<1> QED
  BY <1>1, StoreAlways, PTL

(* No datagram of a response opens a partial frame of a frame that was      *)
(* returned.                                                                *)
THEOREM BackfillLeavesNothing == BackfillSpec => []PartialsCanComplete
<1>1. StoreInv => PartialsCanComplete
  BY ToldFrames DEF StoreInv
<1> QED
  BY <1>1, StoreAlways, PTL

(* When the promises hold, a response that is delivered made up for what    *)
(* was lost.                                                                *)
LEMMA PromisesComplete == PromisesHold => BackfillCompletes
BY DEF PromisesHold, BackfillCompletes

(* fulfill makes up for any loss of a frame that the store has to keep:     *)
(* when the response to a request was delivered the frame was returned,     *)
(* while the window of the decoder below reaches back as far as the store   *)
(* and the response.                                                        *)
THEOREM BackfillMakesUp == BackfillSpec /\ []WindowReachesBack => []BackfillCompletes
<1>1. BackfillInit => BackfillInv
  BY StoreInit
<1>2. BackfillInv /\ WindowReachesBack /\ [BackfillNext]_backfillVars => BackfillInv'
  BY BackfillStep DEF BackfillInv
<1>3. BackfillInv => BackfillCompletes
  BY PromisesComplete DEF BackfillInv
<1> QED
  BY <1>1, <1>2, <1>3, PTL DEF BackfillSpec

(* Blocks are inside the window until there are more of them than it has    *)
(* places.                                                                  *)
LEMMA FewBlocks == MaxBlocks <= CompletedWindow /\ StoreInv => WindowReachesBack
<1> SUFFICES ASSUME MaxBlocks <= CompletedWindow, StoreInv PROVE WindowReachesBack
  OBVIOUS
<1>1. Len(blocks) \in Nat /\ Len(blocks) <= MaxBlocks
  BY DEF StoreInv, FrameInv, BlocksFit, BlockInv, FecFits
<1>2. \A n \in 1..Len(blocks) : Len(blocks) <= n + CompletedWindow
  BY <1>1, IdsSuffice
<1>3. ASSUME NEW f \in Range(store), NEW x \in Range(f.datagrams) PROVE x.block \in 1..Len(blocks)
  <2>1. PICK i \in 1..Len(store) : f = store[i]
    BY DEF Range, StoreInv, StoreFits
  <2>2. PICK place \in [1..Len(store) -> 1..Len(copies)] : StoreIs(place)
    BY DEF StoreInv, StoreFits
  <2>3. place[i] \in 1..Len(copies) /\ f = copies[place[i]]
    BY <2>1, <2>2 DEF StoreIs
  <2> QED
    BY <2>3 DEF StoreInv, CopiesFit, Fits
<1>4. \A x \in Range(response.datagrams) : x.block \in 1..Len(blocks)
  BY DEF StoreInv, ResponseFits, Fits
<1> QED
  BY <1>2, <1>3, <1>4 DEF WindowReachesBack

(* So no hypothesis is left for as many frames as fill the window once.     *)
THEOREM BackfillMakesUpFew == MaxBlocks <= CompletedWindow => (BackfillSpec => []BackfillCompletes)
<1> SUFFICES ASSUME MaxBlocks <= CompletedWindow PROVE BackfillSpec => []BackfillCompletes
  OBVIOUS
<1>1. StoreInv => WindowReachesBack
  BY FewBlocks
<1> QED
  BY <1>1, StoreAlways, BackfillMakesUp, PTL

=============================================================================
