--------------------------- MODULE MediaSenderProofs ---------------------------
(***************************************************************************)
(* Proofs about MediaSender, for every value of its constants.              *)
(***************************************************************************)
EXTENDS MediaSender, Facts

-----------------------------------------------------------------------------
(* The frames of a pass.                                                    *)

Content == [flags : SUBSET STRING, priority : Range(Kinds)]
BlockCounts == [source : Nat \ {0}, repair : Nat]
Frames == [n : Nat, stream : Nat, content : Content, deadline : Nat, blocks : Seq(BlockCounts)]
Roles == {"source", "repair"}

(* Frames of a pass have numbers of their own.                              *)
Distinct(fs) == \A f, g \in fs : f.n = g.n => f = g

(* Every frame has a kind.                                                  *)
LEMMA KindType == ASSUME NEW f \in Frames PROVE ObjectKind(f) \in 1..6
<1> DEFINE kind == IF "Initialization" \in f.content.flags THEN "Initialization"
                   ELSE IF "CodecConfig" \in f.content.flags THEN "CodecConfig"
                   ELSE f.content.priority
<1>1. DOMAIN Kinds = 1..6 /\ Kinds[1] = "Initialization" /\ Kinds[2] = "CodecConfig"
  BY DEF Kinds
<1>2. \E i \in DOMAIN Kinds : Kinds[i] = kind
  <2>1. f.content.priority \in Range(Kinds)
    BY DEF Frames, Content
  <2>2. \E i \in DOMAIN Kinds : Kinds[i] = f.content.priority
    BY <2>1 DEF Range
  <2> QED
    BY <1>1, <2>2
<1> HIDE DEF kind
<1>3. (CHOOSE i \in DOMAIN Kinds : Kinds[i] = kind) \in 1..6
  BY <1>1, <1>2
<1> QED
  BY <1>3 DEF ObjectKind, kind

-----------------------------------------------------------------------------
(* The order of the groups.                                                 *)

Keys == [1..6 -> Int]

Less(a, b) == \E i \in 1..6 : a[i] < b[i] /\ \A j \in 1..i-1 : a[j] = b[j]

(* Keys are compared from the left: a strict total order.                   *)
LEMMA KeysAreOrdered ==
  /\ \A a \in Keys : ~Less(a, a)
  /\ \A a, b, c \in Keys : Less(a, b) /\ Less(b, c) => Less(a, c)
  /\ \A a, b \in Keys : a # b => Less(a, b) \/ Less(b, a)
<1>1. ASSUME NEW a \in Keys PROVE ~Less(a, a)
  BY DEF Keys, Less
<1>2. ASSUME NEW a \in Keys, NEW b \in Keys, NEW c \in Keys, Less(a, b), Less(b, c)
      PROVE  Less(a, c)
  <2>1. PICK i \in 1..6 : a[i] < b[i] /\ \A j \in 1..i-1 : a[j] = b[j]
    BY <1>2 DEF Less
  <2>2. PICK k \in 1..6 : b[k] < c[k] /\ \A j \in 1..k-1 : b[j] = c[j]
    BY <1>2 DEF Less
  <2>3. \A j \in 1..6 : a[j] \in Int /\ b[j] \in Int /\ c[j] \in Int
    BY DEF Keys
  <2>4. CASE i < k
    <3>1. a[i] < c[i] /\ \A j \in 1..i-1 : a[j] = c[j]
      BY <2>1, <2>2, <2>3, <2>4
    <3> QED
      BY <3>1 DEF Less
  <2>5. CASE i >= k
    <3>1. a[k] < c[k] /\ \A j \in 1..k-1 : a[j] = c[j]
      BY <2>1, <2>2, <2>3, <2>5
    <3> QED
      BY <3>1 DEF Less
  <2> QED
    BY <2>4, <2>5
<1>3. ASSUME NEW a \in Keys, NEW b \in Keys, a # b
      PROVE  Less(a, b) \/ Less(b, a)
  <2> DEFINE Differs(i) == i \in 1..6 /\ a[i] # b[i] /\ \A j \in 1..i-1 : a[j] = b[j]
  <2>1. \E i \in 1..6 : a[i] # b[i]
    BY <1>3 DEF Keys
  <2>2. PICK i \in 1..6 : Differs(i)
    <3>1. CASE a[1] # b[1]
      BY <3>1
    <3>2. CASE a[1] = b[1] /\ a[2] # b[2]
      BY <3>2
    <3>3. CASE a[1] = b[1] /\ a[2] = b[2] /\ a[3] # b[3]
      BY <3>3
    <3>4. CASE a[1] = b[1] /\ a[2] = b[2] /\ a[3] = b[3] /\ a[4] # b[4]
      BY <3>4
    <3>5. CASE a[1] = b[1] /\ a[2] = b[2] /\ a[3] = b[3] /\ a[4] = b[4] /\ a[5] # b[5]
      BY <3>5
    <3>6. CASE a[1] = b[1] /\ a[2] = b[2] /\ a[3] = b[3] /\ a[4] = b[4] /\ a[5] = b[5] /\ a[6] # b[6]
      BY <3>6
    <3> QED
      BY <2>1, <3>1, <3>2, <3>3, <3>4, <3>5, <3>6
  <2>3. a[i] \in Int /\ b[i] \in Int
    BY DEF Keys
  <2>4. a[i] < b[i] \/ b[i] < a[i]
    BY <2>2, <2>3
  <2> QED
    BY <2>2, <2>4 DEF Less
<1> QED
  BY <1>1, <1>2, <1>3

GroupsOf(fs) == [frame : fs, role : Roles]

(* The sort key of a group is a key, and no two groups share one.           *)
LEMMA GroupKeys ==
  ASSUME NEW fs \in SUBSET Frames, Distinct(fs), NEW ready \in Nat
  PROVE  /\ \A g \in GroupsOf(fs) : SortKey(g, ready) \in Keys
         /\ \A g, h \in GroupsOf(fs) : SortKey(g, ready) = SortKey(h, ready) => g = h
<1>1. ASSUME NEW g \in GroupsOf(fs) PROVE SortKey(g, ready) \in Keys
  <2>1. g.frame \in Frames /\ ObjectKind(g.frame) \in 1..6
    BY KindType DEF GroupsOf
  <2>2. /\ SchedulingRank(g, ready) \in Int /\ g.frame.deadline \in Int
        /\ g.frame.stream \in Int /\ g.frame.n \in Int
    BY <2>1 DEF SchedulingRank, Frames
  <2> QED
    BY <2>1, <2>2 DEF SortKey, Keys
<1>2. ASSUME NEW g \in GroupsOf(fs), NEW h \in GroupsOf(fs), SortKey(g, ready) = SortKey(h, ready)
      PROVE  g = h
  <2>1. g.frame.n = h.frame.n
    BY <1>2 DEF SortKey
  <2>2. (IF g.role = "source" THEN 0 ELSE 1) = (IF h.role = "source" THEN 0 ELSE 1)
    BY <1>2 DEF SortKey
  <2>3. g.frame = h.frame
    BY <2>1 DEF Distinct, GroupsOf
  <2> QED
    BY <2>2, <2>3 DEF GroupsOf, Roles
<1> QED
  BY <1>1, <1>2

(* The range of a sequence is finite.                                       *)
LEMMA RangeIsFinite ==
  ASSUME NEW S, NEW s \in Seq(S)
  PROVE  /\ Range(s) \subseteq S /\ IsFiniteSet(Range(s)) /\ Cardinality(Range(s)) <= Len(s)
         /\ \A x : x \in Range(s) <=> \E i \in 1..Len(s) : s[i] = x
<1>1. Len(s) \in Nat /\ s \in [1..Len(s) -> S]
  OBVIOUS
<1>2. Range(s) = {s[i] : i \in 1..Len(s)}
  BY <1>1 DEF Range
<1>3. s \in Surjection(1..Len(s), Range(s))
  BY <1>1, <1>2 DEF Surjection
<1>4. ExistsSurjection(1..Len(s), Range(s))
  BY <1>3 DEF ExistsSurjection
<1>5. IsFiniteSet(Range(s)) /\ Cardinality(Range(s)) <= Len(s)
  BY <1>1, <1>4, FS_NatSurjection, FS_SurjCardinalityBound
<1> QED
  BY <1>1, <1>2, <1>5

(* The frames that a pass scans.                                            *)
LEMMA ScannedFrames ==
  ASSUME NEW fs \in Seq(Frames), Distinct(Range(fs))
  PROVE  /\ Range(Scanned(fs)) \subseteq Range(fs) /\ Range(Scanned(fs)) \in SUBSET Frames
         /\ Distinct(Range(Scanned(fs))) /\ IsFiniteSet(Range(Scanned(fs)))
<1> DEFINE m == Min({Len(fs), MaxScanned})
<1>1. m \in 0..Len(fs)
  <2>1. Len(fs) \in Nat /\ MaxScanned \in Nat
    BY ScheduleAssumption
  <2> QED
    BY <2>1, MinOfTwo
<1> HIDE DEF m
<1>2. /\ SubSeq(fs, 1, m) \in Seq(Frames) /\ Len(SubSeq(fs, 1, m)) = m
      /\ \A i \in 1..m : SubSeq(fs, 1, m)[i] = fs[i] /\ i \in 1..Len(fs)
  BY <1>1
<1>3. Scanned(fs) = SubSeq(fs, 1, m)
  BY DEF Scanned, m
<1>4. Range(Scanned(fs)) \subseteq Range(fs)
  <2>1. \A x : x \in Range(fs) <=> \E i \in 1..Len(fs) : fs[i] = x
    BY RangeIsFinite
  <2>2. \A x : x \in Range(SubSeq(fs, 1, m)) <=> \E i \in 1..m : SubSeq(fs, 1, m)[i] = x
    <3> DEFINE t == SubSeq(fs, 1, m)
    <3>1. t \in Seq(Frames) /\ Len(t) = m
      BY <1>2
    <3> HIDE DEF t
    <3>2. \A x : x \in Range(t) <=> \E i \in 1..m : t[i] = x
      BY <3>1, RangeIsFinite
    <3> QED
      BY <3>2 DEF t
  <2> QED
    BY <1>2, <1>3, <2>1, <2>2
<1>5. Range(Scanned(fs)) \in SUBSET Frames /\ IsFiniteSet(Range(Scanned(fs)))
  BY <1>2, <1>3, RangeIsFinite
<1> QED
  BY <1>4, <1>5 DEF Distinct

(* There are finitely many groups.                                          *)
LEMMA GroupsAreFinite ==
  ASSUME NEW fs, IsFiniteSet(fs)
  PROVE  IsFiniteSet(GroupsOf(fs))
<1> DEFINE make == [p \in fs \X Roles |-> [frame |-> p[1], role |-> p[2]]]
<1>1. IsFiniteSet(fs \X Roles)
  <2>1. IsFiniteSet({"source"}) /\ Roles = {"source"} \cup {"repair"}
    BY FS_Singleton DEF Roles
  <2>2. IsFiniteSet(Roles)
    BY <2>1, FS_AddElement
  <2> QED
    BY <2>2, FS_Product
<1>2. make \in Surjection(fs \X Roles, GroupsOf(fs))
  <2>1. make \in [fs \X Roles -> GroupsOf(fs)]
    BY DEF GroupsOf
  <2>2. ASSUME NEW g \in GroupsOf(fs) PROVE \E p \in fs \X Roles : make[p] = g
    <3>1. <<g.frame, g.role>> \in fs \X Roles /\ g = [frame |-> g.frame, role |-> g.role]
      BY DEF GroupsOf
    <3>2. make[<<g.frame, g.role>>] = g
      BY <3>1
    <3> QED
      BY <3>1, <3>2
  <2> HIDE DEF make
  <2> QED
    BY <2>1, <2>2 DEF Surjection
<1> HIDE DEF make
<1> QED
  BY <1>1, <1>2, FS_Surjection

(* A pass visits every group of the frames it scans, in the order of the    *)
(* keys.                                                                    *)
LEMMA GroupsAreSorted ==
  ASSUME NEW fs \in Seq(Frames), Distinct(Range(fs)), NEW ready \in Nat
  PROVE  LET gs == GroupsOf(Range(Scanned(fs)))
             G == Groups(fs, ready)
         IN /\ G \in Seq(gs)
            /\ \A g \in gs : \E i \in 1..Len(G) : G[i] = g
            /\ \A i, j \in 1..Len(G) : i < j => Less(SortKey(G[i], ready), SortKey(G[j], ready))
<1> DEFINE gs == GroupsOf(Range(Scanned(fs)))
           R == {p \in gs \X gs : Precedes(p[1], p[2], ready)}
           N == Cardinality(gs)
           G == Groups(fs, ready)
<1>1. /\ \A g \in gs : SortKey(g, ready) \in Keys
      /\ \A g, h \in gs : SortKey(g, ready) = SortKey(h, ready) => g = h
  <2>1. Range(Scanned(fs)) \in SUBSET Frames /\ Distinct(Range(Scanned(fs)))
    BY ScannedFrames
  <2> QED
    BY <2>1, GroupKeys
<1>2. IsFiniteSet(gs) /\ N \in Nat
  BY ScannedFrames, GroupsAreFinite, FS_CardinalityType
<1> HIDE DEF gs
<1>3. \A g, h \in gs : <<g, h>> \in R <=> Less(SortKey(g, ready), SortKey(h, ready))
  <2> TAKE g, h \in gs
  <2>1. DOMAIN SortKey(g, ready) = 1..6
    BY <1>1 DEF Keys
  <2> QED
    BY <2>1 DEF Precedes, Less
<1>4. \A g \in gs : {h \in gs : Precedes(h, g, ready)} = Below(gs, R, g)
  BY DEF Below
<1> DEFINE Place(i) == CHOOSE g \in gs : Cardinality({h \in gs : Precedes(h, g, ready)}) = i - 1
<1>5. G = [i \in 1..N |-> Place(i)]
  BY DEF Groups, gs, GroupsOf, Roles
<1> HIDE DEF R, G, N, Place
<1>6. /\ \A a, b \in gs : <<a, b>> \in R => Cardinality(Below(gs, R, a)) < Cardinality(Below(gs, R, b))
      /\ \A g \in gs : Cardinality(Below(gs, R, g)) \in 0..N-1
      /\ \A i \in 1..N : \E g \in gs : Cardinality(Below(gs, R, g)) = i - 1
  <2>1. \A a \in gs : <<a, a>> \notin R
    BY <1>1, <1>3, KeysAreOrdered
  <2>2. \A a, b, c \in gs : <<a, b>> \in R /\ <<b, c>> \in R => <<a, c>> \in R
    BY <1>1, <1>3, KeysAreOrdered
  <2>3. \A a, b \in gs : a # b => <<a, b>> \in R \/ <<b, a>> \in R
    BY <1>1, <1>3, KeysAreOrdered
  <2> QED
    BY <1>2, <2>1, <2>2, <2>3, Ranks DEF N
<1>7. G = [i \in 1..N |-> G[i]] /\ Len(G) = N
  BY <1>2, <1>5
<1>8. \A i \in 1..N : G[i] \in gs /\ Cardinality(Below(gs, R, G[i])) = i - 1
  <2> TAKE i \in 1..N
  <2>1. G[i] = CHOOSE g \in gs : Cardinality({h \in gs : Precedes(h, g, ready)}) = i - 1
    BY <1>5 DEF Place
  <2>2. \E g \in gs : Cardinality({h \in gs : Precedes(h, g, ready)}) = i - 1
    BY <1>4, <1>6
  <2>3. G[i] \in gs /\ Cardinality({h \in gs : Precedes(h, G[i], ready)}) = i - 1
    BY <2>1, <2>2
  <2> QED
    BY <1>4, <2>3
<1>9. G \in Seq(gs)
  BY <1>2, <1>7, <1>8
<1>10. ASSUME NEW i \in 1..N, NEW j \in 1..N, i < j
       PROVE  <<G[i], G[j]>> \in R
  <2>1. ~(<<G[j], G[i]>> \in R)
    <3>1. ~(j - 1 < i - 1)
      BY <1>2, <1>10
    <3> QED
      BY <1>6, <1>8, <3>1
  <2>2. G[i] # G[j]
    <3>1. i - 1 # j - 1
      BY <1>2, <1>10
    <3> QED
      BY <1>8, <3>1
  <2> QED
    BY <1>1, <1>3, <1>8, <2>1, <2>2, KeysAreOrdered
<1>11. ASSUME NEW g \in gs PROVE \E i \in 1..N : G[i] = g
  <2> DEFINE i == Cardinality(Below(gs, R, g)) + 1
  <2>1. i \in 1..N /\ Cardinality(Below(gs, R, g)) = i - 1
    BY <1>2, <1>6
  <2> HIDE DEF i
  <2>2. Cardinality(Below(gs, R, G[i])) = Cardinality(Below(gs, R, g)) /\ G[i] \in gs
    BY <1>8, <2>1
  <2>3. <<G[i], g>> \notin R /\ <<g, G[i]>> \notin R
    <3>1. Cardinality(Below(gs, R, g)) \in Int
      BY <1>2, <1>6
    <3> QED
      BY <1>6, <2>2, <3>1
  <2>4. G[i] = g
    BY <1>1, <1>3, <2>2, <2>3, KeysAreOrdered
  <2> QED
    BY <2>1, <2>4
<1> QED
  BY <1>3, <1>7, <1>8, <1>9, <1>10, <1>11 DEF gs, G

-----------------------------------------------------------------------------
(* What a pass goes through: visits of blocks, and their datagrams.         *)

VisitsOf(fs) ==
  {v \in [frame : fs, role : Roles, block : Nat \ {0}] : v.block \in 1..Len(v.frame.blocks)}

VisitOf(g, b) == [frame |-> g.frame, role |-> g.role, block |-> b]

(* Visit a of V is of block col[a] of group row[a] of G.                    *)
VisitPlaces(G, V, row, col) ==
  /\ \A a \in 1..Len(V) :
       /\ row[a] \in 1..Len(G) /\ col[a] \in 1..Len(G[row[a]].frame.blocks)
       /\ V[a] = VisitOf(G[row[a]], col[a])
  /\ \A a, b \in 1..Len(V) : a < b => row[a] < row[b] \/ (row[a] = row[b] /\ col[a] < col[b])
  /\ \A i \in 1..Len(G) : \A j \in 1..Len(G[i].frame.blocks) :
       \E a \in 1..Len(V) : row[a] = i /\ col[a] = j

(* The groups are visited block by block, in their order.                   *)
LEMMA VisitsInOrder ==
  ASSUME NEW fs \in SUBSET Frames, NEW G \in Seq(GroupsOf(fs))
  PROVE  /\ Visits(G) \in Seq(VisitsOf(fs))
         /\ \E row, col : VisitPlaces(G, Visits(G), row, col)
<1> DEFINE Line(g) == [b \in DOMAIN g.frame.blocks |-> VisitOf(g, b)]
           ss == [i \in DOMAIN G |-> Line(G[i])]
<1>1. Visits(G) = FlattenSeq(ss)
  BY DEF Visits, VisitOf
<1>2. ASSUME NEW g \in GroupsOf(fs)
      PROVE  /\ Line(g) \in Seq(VisitsOf(fs)) /\ Len(Line(g)) = Len(g.frame.blocks)
             /\ \A b \in 1..Len(g.frame.blocks) : Line(g)[b] = VisitOf(g, b)
  <2>1. g.frame \in fs /\ g.role \in Roles /\ g.frame.blocks \in Seq(BlockCounts)
    BY DEF GroupsOf, Frames
  <2>2. DOMAIN g.frame.blocks = 1..Len(g.frame.blocks) /\ Len(g.frame.blocks) \in Nat
    BY <2>1
  <2>3. \A b \in 1..Len(g.frame.blocks) : VisitOf(g, b) \in VisitsOf(fs)
    BY <2>1, <2>2 DEF VisitOf, VisitsOf
  <2> QED
    BY <2>2, <2>3
<1> HIDE DEF Line
<1>3. /\ ss \in Seq(Seq(VisitsOf(fs))) /\ Len(ss) = Len(G)
      /\ \A i \in 1..Len(G) : ss[i] = Line(G[i]) /\ G[i] \in GroupsOf(fs)
  <2>1. DOMAIN G = 1..Len(G) /\ Len(G) \in Nat /\ \A i \in 1..Len(G) : G[i] \in GroupsOf(fs)
    OBVIOUS
  <2>2. \A i \in 1..Len(G) : Line(G[i]) \in Seq(VisitsOf(fs))
    BY <1>2, <2>1
  <2> QED
    BY <2>1, <2>2
<1> HIDE DEF ss
<1>4. PICK row, col : Places(ss, Len(ss), FlattenSeq(ss), row, col)
  BY <1>3, FlattenPlaces
<1>5. FlattenSeq(ss) \in Seq(VisitsOf(fs))
  BY <1>3, FlattenPlaces
<1>6. \A a \in 1..Len(Visits(G)) :
        /\ row[a] \in 1..Len(G) /\ col[a] \in 1..Len(G[row[a]].frame.blocks)
        /\ Visits(G)[a] = VisitOf(G[row[a]], col[a])
  <2> TAKE a \in 1..Len(Visits(G))
  <2>1. row[a] \in 1..Len(G) /\ col[a] \in 1..Len(ss[row[a]]) /\ Visits(G)[a] = ss[row[a]][col[a]]
    BY <1>1, <1>3, <1>4 DEF Places
  <2> QED
    BY <1>2, <1>3, <2>1
<1>7. \A a, b \in 1..Len(Visits(G)) :
        a < b => row[a] < row[b] \/ (row[a] = row[b] /\ col[a] < col[b])
  BY <1>1, <1>4 DEF Places
<1>8. \A i \in 1..Len(G) : \A j \in 1..Len(G[i].frame.blocks) :
        \E a \in 1..Len(Visits(G)) : row[a] = i /\ col[a] = j
  <2> TAKE i \in 1..Len(G)
  <2> TAKE j \in 1..Len(G[i].frame.blocks)
  <2>1. j \in 1..Len(ss[i]) /\ i \in 1..Len(ss)
    BY <1>2, <1>3
  <2> QED
    BY <1>1, <1>4, <2>1 DEF Places
<1>9. VisitPlaces(G, Visits(G), row, col)
  BY <1>6, <1>7, <1>8 DEF VisitPlaces
<1> QED
  BY <1>1, <1>5, <1>9

Count(v) == v.frame.blocks[v.block][v.role]
First(v) == IF v.role = "source" THEN 0 ELSE v.frame.blocks[v.block].source
DatagramOf(v, j) == [n |-> v.frame.n, block |-> v.block, esi |-> First(v) + j - 1]
Item(v, j) == [dg |-> DatagramOf(v, j), frame |-> v.frame, role |-> v.role]

Datagrams == [n : Nat, block : Nat, esi : Nat]

(* The datagrams of a visit.                                                *)
LEMMA DatagramsOfVisit ==
  ASSUME NEW fs \in SUBSET Frames, NEW v \in VisitsOf(fs)
  PROVE  /\ Count(v) \in Nat /\ First(v) \in Nat
         /\ DatagramsOf(v.frame, v.block, v.role) = [j \in 1..Count(v) |-> DatagramOf(v, j)]
         /\ \A j \in 1..Count(v) : DatagramOf(v, j) \in Datagrams
<1>1. v.frame \in Frames /\ v.role \in Roles /\ v.block \in Nat
  BY DEF VisitsOf
<1>2. v.frame.n \in Nat /\ v.frame.blocks[v.block] \in BlockCounts
  BY <1>1 DEF VisitsOf, Frames
<1>3. Count(v) \in Nat /\ First(v) \in Nat
  BY <1>1, <1>2 DEF Count, First, Roles, BlockCounts
<1>4. DatagramsOf(v.frame, v.block, v.role) = [j \in 1..Count(v) |-> DatagramOf(v, j)]
  BY DEF DatagramsOf, Count, DatagramOf, First
<1>5. \A j \in 1..Count(v) : DatagramOf(v, j) \in Datagrams
  <2> TAKE j \in 1..Count(v)
  <2>1. First(v) + j - 1 \in Nat
    BY <1>3
  <2> QED
    BY <1>1, <1>2, <2>1 DEF DatagramOf, Datagrams
<1> QED
  BY <1>3, <1>4, <1>5

CandidatesOf(fs) ==
  {c \in [dg : Datagrams, frame : fs, role : Roles] :
     \E v \in VisitsOf(fs) : \E j \in 1..Count(v) : c = Item(v, j)}

(* Candidate k of C is datagram col[k] of visit row[k] of V.                *)
CandidatePlaces(V, C, row, col) ==
  /\ \A k \in 1..Len(C) :
       row[k] \in 1..Len(V) /\ col[k] \in 1..Count(V[row[k]]) /\ C[k] = Item(V[row[k]], col[k])
  /\ \A k, l \in 1..Len(C) : k < l => row[k] < row[l] \/ (row[k] = row[l] /\ col[k] < col[l])
  /\ \A a \in 1..Len(V) : \A j \in 1..Count(V[a]) :
       \E k \in 1..Len(C) : row[k] = a /\ col[k] = j

(* The datagrams of the visits are candidates visit by visit, each once.    *)
LEMMA CandidatesInOrder ==
  ASSUME NEW fs \in SUBSET Frames, NEW V \in Seq(VisitsOf(fs))
  PROVE  /\ Candidates(V) \in Seq(CandidatesOf(fs))
         /\ \E row, col : CandidatePlaces(V, Candidates(V), row, col)
<1> DEFINE Line(v) == LET dgs == DatagramsOf(v.frame, v.block, v.role)
                      IN [j \in DOMAIN dgs |-> [dg |-> dgs[j], frame |-> v.frame, role |-> v.role]]
           ss == [a \in DOMAIN V |-> Line(V[a])]
<1>1. Candidates(V) = FlattenSeq(ss)
  BY DEF Candidates
<1>2. ASSUME NEW v \in VisitsOf(fs)
      PROVE  /\ Line(v) \in Seq(CandidatesOf(fs)) /\ Len(Line(v)) = Count(v)
             /\ \A j \in 1..Count(v) : Line(v)[j] = Item(v, j)
  <2>1. /\ Count(v) \in Nat
        /\ DatagramsOf(v.frame, v.block, v.role) = [j \in 1..Count(v) |-> DatagramOf(v, j)]
        /\ \A j \in 1..Count(v) : DatagramOf(v, j) \in Datagrams
    BY DatagramsOfVisit
  <2>2. Line(v) = [j \in 1..Count(v) |-> Item(v, j)]
    <3> DEFINE dgs == DatagramsOf(v.frame, v.block, v.role)
    <3>1. DOMAIN dgs = 1..Count(v) /\ \A j \in 1..Count(v) : dgs[j] = DatagramOf(v, j)
      BY <2>1
    <3>2. Line(v) = [j \in DOMAIN dgs |-> [dg |-> dgs[j], frame |-> v.frame, role |-> v.role]]
      OBVIOUS
    <3> HIDE DEF dgs, Line
    <3> QED
      BY <3>1, <3>2 DEF Item
  <2>3. \A j \in 1..Count(v) : Item(v, j) \in CandidatesOf(fs)
    BY <2>1 DEF Item, CandidatesOf, VisitsOf
  <2> HIDE DEF Line
  <2> QED
    BY <2>1, <2>2, <2>3
<1> HIDE DEF Line
<1>3. /\ ss \in Seq(Seq(CandidatesOf(fs))) /\ Len(ss) = Len(V)
      /\ \A a \in 1..Len(V) : ss[a] = Line(V[a]) /\ V[a] \in VisitsOf(fs)
  <2>1. DOMAIN V = 1..Len(V) /\ Len(V) \in Nat /\ \A a \in 1..Len(V) : V[a] \in VisitsOf(fs)
    OBVIOUS
  <2>2. \A a \in 1..Len(V) : Line(V[a]) \in Seq(CandidatesOf(fs))
    BY <1>2, <2>1
  <2> QED
    BY <2>1, <2>2
<1> HIDE DEF ss
<1>4. PICK row, col : Places(ss, Len(ss), FlattenSeq(ss), row, col)
  BY <1>3, FlattenPlaces
<1>5. FlattenSeq(ss) \in Seq(CandidatesOf(fs))
  BY <1>3, FlattenPlaces
<1>6. \A k \in 1..Len(Candidates(V)) :
        /\ row[k] \in 1..Len(V) /\ col[k] \in 1..Count(V[row[k]])
        /\ Candidates(V)[k] = Item(V[row[k]], col[k])
  <2> TAKE k \in 1..Len(Candidates(V))
  <2>1. row[k] \in 1..Len(V) /\ col[k] \in 1..Len(ss[row[k]]) /\ Candidates(V)[k] = ss[row[k]][col[k]]
    BY <1>1, <1>3, <1>4 DEF Places
  <2> QED
    BY <1>2, <1>3, <2>1
<1>7. \A k, l \in 1..Len(Candidates(V)) :
        k < l => row[k] < row[l] \/ (row[k] = row[l] /\ col[k] < col[l])
  BY <1>1, <1>4 DEF Places
<1>8. \A a \in 1..Len(V) : \A j \in 1..Count(V[a]) :
        \E k \in 1..Len(Candidates(V)) : row[k] = a /\ col[k] = j
  <2> TAKE a \in 1..Len(V)
  <2> TAKE j \in 1..Count(V[a])
  <2>1. j \in 1..Len(ss[a]) /\ a \in 1..Len(ss)
    BY <1>2, <1>3
  <2> QED
    BY <1>1, <1>4, <2>1 DEF Places
<1>9. CandidatePlaces(V, Candidates(V), row, col)
  BY <1>6, <1>7, <1>8 DEF CandidatePlaces
<1> QED
  BY <1>1, <1>5, <1>9

-----------------------------------------------------------------------------
(* What a pass goes through, in its order.                                  *)

Given == [frames : Seq(Frames), ready : Nat, queueDelay : Nat, inFlight : Nat, maxInFlight : Nat]

FramesOf(p) == Range(Scanned(p.frames))
Toured(p) == Visits(Groups(p.frames, p.ready))
Visited(p) == SubSeq(Toured(p), 1, Min({Len(Toured(p)), MaxVisits}))
Queue(p) == Candidates(Visited(p))

KeyOf(x, p) == SortKey([frame |-> x.frame, role |-> x.role], p.ready)
NotAfter(a, b) == a = b \/ Less(a, b)

(* The blocks of a pass are visited in the order of the keys, each once,    *)
(* and those that the limit of visits cuts off come last.                   *)
LEMMA VisitedInOrder ==
  ASSUME NEW p \in Given, Distinct(Range(p.frames))
  PROVE  /\ Visited(p) \in Seq(VisitsOf(FramesOf(p)))
         /\ \A a, b \in 1..Len(Visited(p)) :
              a < b => /\ Visited(p)[a] # Visited(p)[b]
                       /\ NotAfter(KeyOf(Visited(p)[a], p), KeyOf(Visited(p)[b], p))
         /\ \A v \in VisitsOf(FramesOf(p)) :
              \/ \E a \in 1..Len(Visited(p)) : Visited(p)[a] = v
              \/ /\ Len(Toured(p)) > MaxVisits
                 /\ \A b \in 1..Len(Visited(p)) : NotAfter(KeyOf(Visited(p)[b], p), KeyOf(v, p))
<1> DEFINE fs == FramesOf(p)
           G == Groups(p.frames, p.ready)
           all == Toured(p)
           m == Min({Len(all), MaxVisits})
           V == Visited(p)
           K(g) == SortKey(g, p.ready)
<1>1. /\ p.frames \in Seq(Frames) /\ p.ready \in Nat /\ fs \in SUBSET Frames /\ Distinct(fs)
  BY ScannedFrames DEF Given, FramesOf
<1>2. /\ G \in Seq(GroupsOf(fs))
      /\ \A g \in GroupsOf(fs) : \E i \in 1..Len(G) : G[i] = g
      /\ \A i, j \in 1..Len(G) : i < j => Less(K(G[i]), K(G[j]))
  BY <1>1, GroupsAreSorted DEF FramesOf
<1>3. all \in Seq(VisitsOf(fs)) /\ \E row, col : VisitPlaces(G, all, row, col)
  BY <1>1, <1>2, VisitsInOrder DEF Toured
<1>4. PICK row, col : VisitPlaces(G, all, row, col)
  BY <1>3
<1>5. m \in 0..Len(all) /\ MaxVisits \in Nat /\ (m # Len(all) => Len(all) > MaxVisits)
  <2>1. Len(all) \in Nat /\ MaxVisits \in Nat
    BY <1>3, ScheduleAssumption
  <2> QED
    BY <2>1, MinOfTwo
<1>6. V = SubSeq(all, 1, m)
  BY DEF Visited
<1> HIDE DEF fs, G, all, m, V, K
<1>7. /\ V \in Seq(VisitsOf(fs)) /\ Len(V) = m
      /\ \A a \in 1..m : V[a] = all[a] /\ a \in 1..Len(all)
  BY <1>3, <1>5, <1>6
<1>8. \A a \in 1..Len(all) :
        /\ row[a] \in 1..Len(G) /\ col[a] \in 1..Len(G[row[a]].frame.blocks)
        /\ all[a] = VisitOf(G[row[a]], col[a]) /\ G[row[a]] \in GroupsOf(fs)
  BY <1>2, <1>4 DEF VisitPlaces
<1>9. \A a \in 1..Len(all) : /\ all[a].block = col[a]
                             /\ [frame |-> all[a].frame, role |-> all[a].role] = G[row[a]]
                             /\ KeyOf(all[a], p) = K(G[row[a]])
  <2> TAKE a \in 1..Len(all)
  <2>1. all[a] = VisitOf(G[row[a]], col[a]) /\ G[row[a]] \in GroupsOf(fs)
    BY <1>8
  <2>2. /\ all[a].block = col[a] /\ all[a].frame = G[row[a]].frame /\ all[a].role = G[row[a]].role
    BY <2>1 DEF VisitOf
  <2>3. [frame |-> G[row[a]].frame, role |-> G[row[a]].role] = G[row[a]]
    BY <2>1 DEF GroupsOf
  <2>4. [frame |-> all[a].frame, role |-> all[a].role] = G[row[a]]
    BY <2>2, <2>3
  <2>5. KeyOf(all[a], p) = K(G[row[a]])
    BY <2>4 DEF KeyOf, K
  <2> QED
    BY <2>2, <2>4, <2>5
<1>10. ASSUME NEW a \in 1..Len(all), NEW b \in 1..Len(all), a < b
       PROVE  all[a] # all[b] /\ NotAfter(KeyOf(all[a], p), KeyOf(all[b], p))
  <2>1. row[a] < row[b] \/ (row[a] = row[b] /\ col[a] < col[b])
    BY <1>4, <1>10 DEF VisitPlaces
  <2>2. CASE row[a] < row[b]
    <3>1. Less(K(G[row[a]]), K(G[row[b]]))
      BY <1>2, <1>8, <2>2
    <3>2. K(G[row[a]]) # K(G[row[b]])
      <4>1. K(G[row[a]]) \in Keys
        BY <1>1, <1>8, GroupKeys DEF K
      <4> QED
        BY <3>1, <4>1, KeysAreOrdered
    <3> QED
      BY <1>9, <3>1, <3>2 DEF NotAfter
  <2>3. CASE row[a] = row[b] /\ col[a] < col[b]
    <3>1. col[a] \in Int /\ col[b] \in Int
      BY <1>8
    <3>2. col[a] # col[b]
      BY <2>3, <3>1
    <3> QED
      BY <1>9, <2>3, <3>2 DEF NotAfter
  <2> QED
    BY <2>1, <2>2, <2>3
<1>11. ASSUME NEW v \in VisitsOf(fs)
       PROVE  \E a \in 1..Len(all) : all[a] = v
  <2>1. /\ [frame |-> v.frame, role |-> v.role] \in GroupsOf(fs)
        /\ v.block \in 1..Len(v.frame.blocks)
        /\ v = [frame |-> v.frame, role |-> v.role, block |-> v.block]
    BY DEF VisitsOf, GroupsOf
  <2>2. PICK i \in 1..Len(G) : G[i] = [frame |-> v.frame, role |-> v.role]
    BY <1>2, <2>1
  <2>3. v.block \in 1..Len(G[i].frame.blocks)
    BY <2>1, <2>2
  <2>4. PICK a \in 1..Len(all) : row[a] = i /\ col[a] = v.block
    BY <1>4, <2>3 DEF VisitPlaces
  <2>5. all[a] = VisitOf(G[i], v.block)
    BY <1>8, <2>4
  <2> QED
    BY <2>1, <2>2, <2>5 DEF VisitOf
<1>12. ASSUME NEW v \in VisitsOf(fs), \A a \in 1..m : V[a] # v
       PROVE  /\ Len(all) > MaxVisits
              /\ \A b \in 1..m : NotAfter(KeyOf(V[b], p), KeyOf(v, p))
  <2>1. PICK a \in 1..Len(all) : all[a] = v
    BY <1>11
  <2>2. a \notin 1..m
    BY <1>7, <1>12, <2>1
  <2>3. a > m /\ m # Len(all)
    BY <1>5, <2>2
  <2>4. \A b \in 1..m : b < a
    BY <1>5, <2>3
  <2> QED
    BY <1>5, <1>7, <1>10, <2>1, <2>3, <2>4
<1>13. \A a, b \in 1..m : a < b => V[a] # V[b] /\ NotAfter(KeyOf(V[a], p), KeyOf(V[b], p))
  BY <1>7, <1>10
<1>14. \A v \in VisitsOf(fs) :
         \/ \E a \in 1..m : V[a] = v
         \/ Len(all) > MaxVisits /\ \A b \in 1..m : NotAfter(KeyOf(V[b], p), KeyOf(v, p))
  BY <1>12
<1> QED
  BY <1>7, <1>13, <1>14 DEF fs, all, V

(* A datagram has one visit and one place in it.                            *)
LEMMA ItemsDiffer ==
  ASSUME NEW fs \in SUBSET Frames, Distinct(fs),
         NEW v \in VisitsOf(fs), NEW w \in VisitsOf(fs),
         NEW i \in 1..Count(v), NEW j \in 1..Count(w), Item(v, i).dg = Item(w, j).dg
  PROVE  v = w /\ i = j
<1>1. DatagramOf(v, i) = DatagramOf(w, j)
  BY DEF Item
<1>2. /\ v.frame.n = w.frame.n /\ v.block = w.block
      /\ First(v) + i - 1 = First(w) + j - 1
  BY <1>1 DEF DatagramOf
<1>3. /\ v.frame \in fs /\ w.frame \in fs /\ v.role \in Roles /\ w.role \in Roles
      /\ v = [frame |-> v.frame, role |-> v.role, block |-> v.block]
      /\ w = [frame |-> w.frame, role |-> w.role, block |-> w.block]
  BY DEF VisitsOf
<1>4. v.frame = w.frame
  BY <1>2, <1>3 DEF Distinct
<1> DEFINE counts == v.frame.blocks[v.block]
<1>5. counts \in BlockCounts
  BY DEF VisitsOf, Frames
<1>6. w.frame.blocks[w.block] = counts
  BY <1>2, <1>4
<1> HIDE DEF counts
<1>7. /\ Count(v) = counts[v.role] /\ First(v) = IF v.role = "source" THEN 0 ELSE counts.source
      /\ Count(w) = counts[w.role] /\ First(w) = IF w.role = "source" THEN 0 ELSE counts.source
  BY <1>6 DEF Count, First, counts
<1>8. counts.source \in Nat /\ counts.repair \in Nat
  BY <1>5 DEF BlockCounts
<1>9. v.role = w.role
  <2>1. ASSUME v.role = "source", w.role = "repair" PROVE FALSE
    BY <1>2, <1>7, <1>8, <2>1
  <2>2. ASSUME v.role = "repair", w.role = "source" PROVE FALSE
    BY <1>2, <1>7, <1>8, <2>2
  <2> QED
    BY <1>3, <2>1, <2>2 DEF Roles
<1>10. v = w
  BY <1>2, <1>3, <1>4, <1>9
<1>11. First(v) \in Nat /\ First(w) = First(v)
  BY <1>7, <1>8, <1>10
<1> QED
  BY <1>2, <1>10, <1>11

(* The datagrams of a frame that belong to a role.                          *)
OfRole(f, role) == UNION {Range(DatagramsOf(f, b, role)) : b \in 1..Len(f.blocks)}

(* They are those of its visits.                                            *)
LEMMA OfRoleIsVisited ==
  ASSUME NEW fs \in SUBSET Frames, NEW f \in fs, NEW role \in Roles, NEW x \in OfRole(f, role)
  PROVE  \E v \in VisitsOf(fs) : /\ v.frame = f /\ v.role = role
                                 /\ \E j \in 1..Count(v) : Item(v, j).dg = x
<1>1. PICK b \in 1..Len(f.blocks) : x \in Range(DatagramsOf(f, b, role))
  BY DEF OfRole
<1>2. f.blocks \in Seq(BlockCounts)
  BY DEF Frames
<1> DEFINE v == [frame |-> f, role |-> role, block |-> b]
<1>3. v \in VisitsOf(fs) /\ v.frame = f /\ v.role = role /\ v.block = b
  BY <1>2 DEF VisitsOf
<1> HIDE DEF v
<1>4. DatagramsOf(f, b, role) = [j \in 1..Count(v) |-> DatagramOf(v, j)]
  BY <1>3, DatagramsOfVisit
<1>5. PICK j \in 1..Count(v) : x = DatagramOf(v, j)
  BY <1>1, <1>4 DEF Range
<1> QED
  BY <1>3, <1>5 DEF Item

(* The datagrams of a pass come in the order of the keys, each once, and    *)
(* those that the limit of visits cuts off come last.                       *)
LEMMA QueueInOrder ==
  ASSUME NEW p \in Given, Distinct(Range(p.frames))
  PROVE  /\ Queue(p) \in Seq(CandidatesOf(FramesOf(p)))
         /\ \A k, l \in 1..Len(Queue(p)) : k < l => Queue(p)[k].dg # Queue(p)[l].dg
         /\ \A f \in FramesOf(p), role \in Roles : \A x \in OfRole(f, role) : \A l \in 1..Len(Queue(p)) :
              \/ \E k \in 1..l : Queue(p)[k].dg = x
              \/ NotAfter(KeyOf(Queue(p)[l], p), SortKey([frame |-> f, role |-> role], p.ready))
         /\ Len(Toured(p)) <= MaxVisits =>
              \A f \in FramesOf(p), role \in Roles : \A x \in OfRole(f, role) :
                \E k \in 1..Len(Queue(p)) : Queue(p)[k].dg = x
<1> DEFINE fs == FramesOf(p)
           V == Visited(p)
           C == Queue(p)
<1>1. fs \in SUBSET Frames /\ Distinct(fs)
  BY ScannedFrames DEF Given, FramesOf
<1>2. /\ V \in Seq(VisitsOf(fs))
      /\ \A a, b \in 1..Len(V) : a < b => V[a] # V[b] /\ NotAfter(KeyOf(V[a], p), KeyOf(V[b], p))
      /\ \A v \in VisitsOf(fs) :
           \/ \E a \in 1..Len(V) : V[a] = v
           \/ /\ Len(Toured(p)) > MaxVisits
              /\ \A b \in 1..Len(V) : NotAfter(KeyOf(V[b], p), KeyOf(v, p))
  BY VisitedInOrder
<1> HIDE DEF fs, V
<1>3. C \in Seq(CandidatesOf(fs)) /\ \E row, col : CandidatePlaces(V, C, row, col)
  BY <1>1, <1>2, CandidatesInOrder DEF Queue, V
<1> HIDE DEF C
<1>4. PICK row, col : CandidatePlaces(V, C, row, col)
  BY <1>3
<1>5. \A k \in 1..Len(C) : /\ row[k] \in 1..Len(V) /\ V[row[k]] \in VisitsOf(fs)
                           /\ col[k] \in 1..Count(V[row[k]]) /\ C[k] = Item(V[row[k]], col[k])
                           /\ KeyOf(C[k], p) = KeyOf(V[row[k]], p)
  <2> TAKE k \in 1..Len(C)
  <2>1. row[k] \in 1..Len(V) /\ col[k] \in 1..Count(V[row[k]]) /\ C[k] = Item(V[row[k]], col[k])
    BY <1>4 DEF CandidatePlaces
  <2>2. V[row[k]] \in VisitsOf(fs)
    BY <1>2, <2>1
  <2>3. C[k].frame = V[row[k]].frame /\ C[k].role = V[row[k]].role
    BY <2>1 DEF Item
  <2> QED
    BY <2>1, <2>2, <2>3 DEF KeyOf
<1>6. ASSUME NEW k \in 1..Len(C), NEW l \in 1..Len(C), k < l
      PROVE  C[k].dg # C[l].dg
  <2>1. SUFFICES ASSUME C[k].dg = C[l].dg PROVE FALSE
    OBVIOUS
  <2>2. V[row[k]] = V[row[l]] /\ col[k] = col[l]
    BY <1>1, <1>5, <2>1, ItemsDiffer
  <2>3. row[k] < row[l] \/ (row[k] = row[l] /\ col[k] < col[l])
    BY <1>4, <1>6 DEF CandidatePlaces
  <2>4. row[k] \in 1..Len(V) /\ row[l] \in 1..Len(V) /\ col[k] \in Int /\ col[l] \in Int
    BY <1>5
  <2> QED
    BY <1>2, <2>2, <2>3, <2>4
<1>7. ASSUME NEW v \in VisitsOf(fs), NEW j \in 1..Count(v), NEW a \in 1..Len(V), V[a] = v
      PROVE  \E k \in 1..Len(C) : row[k] = a /\ C[k].dg = Item(v, j).dg
  <2>1. PICK k \in 1..Len(C) : row[k] = a /\ col[k] = j
    BY <1>4, <1>7 DEF CandidatePlaces
  <2> QED
    BY <1>5, <1>7, <2>1
<1>8. ASSUME NEW f \in fs, NEW role \in Roles, NEW x \in OfRole(f, role), NEW l \in 1..Len(C)
      PROVE  \/ \E k \in 1..l : C[k].dg = x
             \/ NotAfter(KeyOf(C[l], p), SortKey([frame |-> f, role |-> role], p.ready))
  <2>1. PICK v \in VisitsOf(fs) : /\ v.frame = f /\ v.role = role
                                  /\ \E j \in 1..Count(v) : Item(v, j).dg = x
    BY <1>1, OfRoleIsVisited
  <2>2. PICK j \in 1..Count(v) : Item(v, j).dg = x
    BY <2>1
  <2>3. KeyOf(v, p) = SortKey([frame |-> f, role |-> role], p.ready)
    BY <2>1 DEF KeyOf
  <2>4. CASE \E a \in 1..Len(V) : V[a] = v
    <3>1. PICK a \in 1..Len(V) : V[a] = v
      BY <2>4
    <3>2. PICK k \in 1..Len(C) : row[k] = a /\ C[k].dg = x
      BY <1>7, <2>2, <3>1
    <3>3. k \in Int /\ l \in Int /\ a \in Int /\ row[l] \in 1..Len(V) /\ col[k] \in Int /\ col[l] \in Int
      BY <1>5
    <3>4. CASE k <= l
      <4>1. k \in 1..l
        BY <3>3, <3>4
      <4> QED
        BY <3>2, <4>1
    <3>5. CASE l < k
      <4>1. row[l] < row[k] \/ row[l] = row[k]
        BY <1>4, <3>5 DEF CandidatePlaces
      <4>2. NotAfter(KeyOf(V[row[l]], p), KeyOf(v, p))
        BY <1>2, <3>1, <3>2, <3>3, <4>1 DEF NotAfter
      <4> QED
        BY <1>5, <2>3, <4>2
    <3> QED
      BY <3>3, <3>4, <3>5
  <2>5. CASE \A b \in 1..Len(V) : NotAfter(KeyOf(V[b], p), KeyOf(v, p))
    BY <1>5, <2>3, <2>5
  <2> QED
    BY <1>2, <2>4, <2>5
<1>9. ASSUME Len(Toured(p)) <= MaxVisits, NEW f \in fs, NEW role \in Roles, NEW x \in OfRole(f, role)
      PROVE  \E k \in 1..Len(C) : C[k].dg = x
  <2>1. PICK v \in VisitsOf(fs) : \E j \in 1..Count(v) : Item(v, j).dg = x
    BY <1>1, OfRoleIsVisited
  <2>2. PICK j \in 1..Count(v) : Item(v, j).dg = x
    BY <2>1
  <2>3. ~(Len(Toured(p)) > MaxVisits)
    <3>1. Toured(p) \in Seq(VisitsOf(FramesOf(p)))
      <4>1. Groups(p.frames, p.ready) \in Seq(GroupsOf(FramesOf(p)))
        BY GroupsAreSorted DEF Given, FramesOf
      <4>2. FramesOf(p) \in SUBSET Frames
        BY <1>1 DEF fs
      <4> QED
        BY <4>1, <4>2, VisitsInOrder DEF Toured
    <3>2. Len(Toured(p)) \in Nat /\ MaxVisits \in Nat
      BY <3>1, ScheduleAssumption
    <3> QED
      BY <1>9, <3>2
  <2>4. PICK a \in 1..Len(V) : V[a] = v
    BY <1>2, <2>3
  <2> QED
    BY <1>7, <2>2, <2>4
<1> QED
  BY <1>3, <1>6, <1>8, <1>9 DEF fs, C

-----------------------------------------------------------------------------
(* The plan of a pass.                                                      *)

Slots(fs) == {s \in [dg : Datagrams, at : Nat] : \E f \in fs : s.dg.n = f.n /\ s.at < f.deadline}

PlanType(fs) == [scheduled : Seq(Slots(fs)), dropped : SUBSET Datagrams, blocked : Nat]

ScheduledIn(plan) == {plan.scheduled[t].dg : t \in 1..Len(plan.scheduled)}
Settled(plan) == ScheduledIn(plan) \cup plan.dropped
FirstOf(p, i) == {Queue(p)[j].dg : j \in 1..i}

(* What holds of the plan when i candidates have been considered.  Once one *)
(* was blocked nothing more is scheduled, so whatever is scheduled comes    *)
(* after candidates that are settled.                                       *)
Considered(p, i, plan) ==
  /\ plan \in PlanType(FramesOf(p))
  /\ Len(plan.scheduled) <= Capacity(p)
  /\ Settled(plan) \subseteq FirstOf(p, i)
  /\ Len(plan.scheduled) < Capacity(p) => FirstOf(p, i) \subseteq Settled(plan)
  /\ \A x \in ScheduledIn(plan) : \E l \in 1..i : Queue(p)[l].dg = x /\ FirstOf(p, l) \subseteq Settled(plan)
  /\ ScheduledIn(plan) \cap plan.dropped = {}
  /\ IsFiniteSet(Settled(plan)) /\ Cardinality(Settled(plan)) + plan.blocked = i
  /\ Cardinality(ScheduledIn(plan)) = Len(plan.scheduled)

(* One candidate more.                                                      *)
LEMMA ConsiderNext ==
  ASSUME NEW p \in Given, Distinct(Range(p.frames)), NEW i \in Nat, i + 1 \in 1..Len(Queue(p)),
         NEW plan, Considered(p, i, plan), Capacity(p) \in Nat, Spacing \in Nat
  PROVE  Considered(p, i + 1, Consider(plan, Queue(p)[i+1], p))
<1> DEFINE fs == FramesOf(p)
           C == Queue(p)
           c == Queue(p)[i+1]
           n == Len(plan.scheduled)
           x == c.dg
           new == Consider(plan, c, p)
           slot == [dg |-> x, at |-> p.ready + n * Spacing]
           drop == [plan EXCEPT !.dropped = @ \cup {x}]
           block == [plan EXCEPT !.blocked = @ + 1]
           add == [plan EXCEPT !.scheduled = Append(@, slot)]
<1>1. /\ C \in Seq(CandidatesOf(fs)) /\ \A k, l \in 1..Len(C) : k < l => C[k].dg # C[l].dg
  BY QueueInOrder
<1>2. c \in CandidatesOf(fs) /\ i + 1 \in 1..Len(C) /\ Len(C) \in Nat
  BY <1>1
<1>3. x \in Datagrams /\ c.frame \in fs /\ x.n = c.frame.n
  BY <1>2 DEF CandidatesOf, Item, DatagramOf, VisitsOf
<1>4. c.frame \in Frames /\ p.ready \in Nat
  <2>1. fs \in SUBSET Frames
    BY ScannedFrames DEF Given, FramesOf
  <2> QED
    BY <1>3, <2>1 DEF Given
<1>5. plan \in PlanType(fs) /\ n \in Nat /\ plan.scheduled \in Seq(Slots(fs))
  BY DEF Considered, PlanType
<1>6. /\ FirstOf(p, i + 1) = FirstOf(p, i) \cup {x} /\ x \notin FirstOf(p, i)
      /\ \A l \in 1..i : l \in 1..i+1
  <2>1. \A j \in 1..i+1 : j = i + 1 \/ j \in 1..i
    BY <1>2
  <2>2. \A j \in 1..i : j \in 1..Len(C) /\ j < i + 1
    BY <1>2
  <2>3. i + 1 \in 1..i+1 /\ \A j \in 1..i : j \in 1..i+1
    OBVIOUS
  <2>4. FirstOf(p, i + 1) = FirstOf(p, i) \cup {x}
    <3> HIDE DEF C
    <3> QED
      BY <2>1, <2>3 DEF FirstOf
  <2>5. \A j \in 1..i : C[j].dg # x
    BY <1>1, <1>2, <2>2
  <2>6. x \notin FirstOf(p, i)
    BY <2>5 DEF FirstOf
  <2> QED
    BY <2>3, <2>4, <2>6
<1>7. x \notin Settled(plan)
  BY <1>6 DEF Considered
<1>8. \/ new = drop
      \/ new = block /\ n = Capacity(p)
      \/ new = add /\ n # Capacity(p) /\ ~IsExpiredAt(c.frame.deadline, slot.at)
  BY DEF Consider
<1>9. /\ Len(plan.scheduled) <= Capacity(p)
      /\ Settled(plan) \subseteq FirstOf(p, i)
      /\ n < Capacity(p) => FirstOf(p, i) \subseteq Settled(plan)
      /\ \A y \in ScheduledIn(plan) : \E l \in 1..i : Queue(p)[l].dg = y /\ FirstOf(p, l) \subseteq Settled(plan)
      /\ ScheduledIn(plan) \cap plan.dropped = {}
      /\ IsFiniteSet(Settled(plan)) /\ Cardinality(Settled(plan)) + plan.blocked = i
      /\ Cardinality(ScheduledIn(plan)) = n
      /\ plan.blocked \in Nat /\ plan.dropped \in SUBSET Datagrams
  BY DEF Considered, PlanType
<1>10. /\ IsFiniteSet(Settled(plan) \cup {x})
       /\ Cardinality(Settled(plan) \cup {x}) = Cardinality(Settled(plan)) + 1
       /\ Cardinality(Settled(plan)) \in Nat
  BY <1>7, <1>9, FS_AddElement, FS_CardinalityType
<1>11. CASE new = drop
  <2>1. /\ new \in PlanType(fs) /\ new.scheduled = plan.scheduled /\ new.blocked = plan.blocked
        /\ new.dropped = plan.dropped \cup {x}
    BY <1>3, <1>5, <1>9, <1>11 DEF PlanType
  <2> HIDE DEF new
  <2>2. ScheduledIn(new) = ScheduledIn(plan) /\ Settled(new) = Settled(plan) \cup {x}
    BY <2>1 DEF ScheduledIn, Settled
  <2>3. ScheduledIn(new) \cap new.dropped = {}
    BY <1>7, <1>9, <2>1, <2>2 DEF Settled
  <2>4. Cardinality(Settled(new)) + new.blocked = i + 1
    BY <1>9, <1>10, <2>1, <2>2
  <2>5. \A y \in ScheduledIn(new) : \E l \in 1..i+1 : Queue(p)[l].dg = y /\ FirstOf(p, l) \subseteq Settled(new)
    BY <1>6, <1>9, <2>2
  <2>6. Settled(new) \subseteq FirstOf(p, i + 1)
    BY <1>6, <1>9, <2>2
  <2>7. Len(new.scheduled) < Capacity(p) => FirstOf(p, i + 1) \subseteq Settled(new)
    BY <1>6, <1>9, <2>1, <2>2
  <2>8. Cardinality(ScheduledIn(new)) = Len(new.scheduled) /\ Len(new.scheduled) <= Capacity(p)
    BY <1>9, <2>1, <2>2
  <2> QED
    BY <1>10, <2>1, <2>2, <2>3, <2>4, <2>5, <2>6, <2>7, <2>8 DEF Considered, new
<1>12. CASE new = block /\ n = Capacity(p)
  <2>1. /\ new \in PlanType(fs) /\ new.scheduled = plan.scheduled /\ new.blocked = plan.blocked + 1
        /\ new.dropped = plan.dropped
    BY <1>5, <1>9, <1>12 DEF PlanType
  <2> HIDE DEF new
  <2>2. ScheduledIn(new) = ScheduledIn(plan) /\ Settled(new) = Settled(plan)
    BY <2>1 DEF ScheduledIn, Settled
  <2>3. Cardinality(Settled(new)) + new.blocked = i + 1
    BY <1>9, <1>10, <2>1, <2>2
  <2>4. \A y \in ScheduledIn(new) : \E l \in 1..i+1 : Queue(p)[l].dg = y /\ FirstOf(p, l) \subseteq Settled(new)
    BY <1>6, <1>9, <2>2
  <2>5. Settled(new) \subseteq FirstOf(p, i + 1)
    BY <1>6, <1>9, <2>2
  <2>6. ~(Len(new.scheduled) < Capacity(p))
    BY <1>5, <1>12, <2>1
  <2>7. Cardinality(ScheduledIn(new)) = Len(new.scheduled) /\ Len(new.scheduled) <= Capacity(p)
    BY <1>9, <2>1, <2>2
  <2> QED
    BY <1>9, <2>1, <2>2, <2>3, <2>4, <2>5, <2>6, <2>7 DEF Considered, new
<1>13. CASE new = add /\ n # Capacity(p) /\ ~IsExpiredAt(c.frame.deadline, slot.at)
  <2>1. slot \in Slots(fs) /\ slot.dg = x
    <3>1. c.frame.deadline \in Nat
      BY <1>4 DEF Frames
    <3> DEFINE wait == n * Spacing
    <3>2. wait \in Nat
      BY <1>5
    <3>3. slot.at = p.ready + wait /\ ~(c.frame.deadline <= slot.at)
      BY <1>13 DEF IsExpiredAt
    <3> HIDE DEF wait, slot
    <3>4. slot.at \in Nat /\ slot.at < c.frame.deadline
      BY <1>4, <3>1, <3>2, <3>3
    <3>5. slot = [dg |-> x, at |-> slot.at] /\ slot.dg = x
      BY DEF slot
    <3> QED
      BY <1>3, <3>4, <3>5 DEF Slots
  <2> HIDE DEF slot
  <2>2. /\ new \in PlanType(fs) /\ new.scheduled = Append(plan.scheduled, slot)
        /\ new.blocked = plan.blocked /\ new.dropped = plan.dropped
    <3>1. Append(plan.scheduled, slot) \in Seq(Slots(fs))
      BY <1>5, <2>1
    <3> QED
      BY <1>5, <1>13, <3>1 DEF PlanType
  <2> HIDE DEF new
  <2>3. Len(new.scheduled) = n + 1 /\ ScheduledIn(new) = ScheduledIn(plan) \cup {x}
    <3>1. /\ Len(new.scheduled) = n + 1 /\ new.scheduled[n+1] = slot
          /\ \A t \in 1..n : new.scheduled[t] = plan.scheduled[t] /\ t \in 1..n+1
          /\ \A t \in 1..n+1 : t = n + 1 \/ t \in 1..n
          /\ n + 1 \in 1..n+1
      BY <1>5, <2>1, <2>2
    <3> HIDE DEF n
    <3>2. ScheduledIn(new) = {new.scheduled[t].dg : t \in 1..n+1}
      BY <3>1 DEF ScheduledIn
    <3>3. ScheduledIn(plan) = {plan.scheduled[t].dg : t \in 1..n}
      BY DEF ScheduledIn, n
    <3> QED
      BY <2>1, <3>1, <3>2, <3>3
  <2>4. Settled(new) = Settled(plan) \cup {x}
    BY <2>2, <2>3 DEF Settled
  <2>5. n < Capacity(p)
    BY <1>5, <1>9, <1>13
  <2>6. ScheduledIn(new) \cap new.dropped = {}
    BY <1>7, <1>9, <2>2, <2>3 DEF Settled
  <2>7. Cardinality(Settled(new)) + new.blocked = i + 1
    <3>1. Cardinality(Settled(new)) = Cardinality(Settled(plan)) + 1
      BY <1>10, <2>4
    <3>2. new.blocked = plan.blocked /\ plan.blocked \in Nat
      BY <1>9, <2>2
    <3>3. Cardinality(Settled(plan)) \in Nat /\ Cardinality(Settled(plan)) + plan.blocked = i
      BY <1>9, <1>10
    <3> HIDE DEF n, x, c
    <3> QED
      BY <3>1, <3>2, <3>3
  <2>8. Settled(new) = FirstOf(p, i + 1)
    BY <1>6, <1>9, <2>4, <2>5
  <2>9. \A y \in ScheduledIn(new) : \E l \in 1..i+1 : Queue(p)[l].dg = y /\ FirstOf(p, l) \subseteq Settled(new)
    <3>1. i + 1 \in 1..i+1 /\ Queue(p)[i+1].dg = x
      BY <1>2
    <3> QED
      BY <1>6, <1>9, <2>3, <2>4, <2>8, <3>1
  <2>10. Cardinality(ScheduledIn(new)) = Len(new.scheduled)
    <3>1. ScheduledIn(plan) \in SUBSET Settled(plan) /\ x \notin ScheduledIn(plan)
      BY <1>7 DEF Settled
    <3>2. IsFiniteSet(ScheduledIn(plan))
      BY <1>9, <3>1, FS_Subset
    <3>3. /\ Cardinality(ScheduledIn(plan) \cup {x}) = Cardinality(ScheduledIn(plan)) + 1
          /\ Cardinality(ScheduledIn(plan)) = n
      BY <1>9, <3>1, <3>2, FS_AddElement
    <3> HIDE DEF n, x, c
    <3> QED
      BY <2>3, <3>3
  <2>11. Len(new.scheduled) <= Capacity(p)
    BY <1>5, <2>3, <2>5
  <2> QED
    BY <1>10, <2>2, <2>4, <2>6, <2>7, <2>8, <2>9, <2>10, <2>11 DEF Considered, new
<1> QED
  BY <1>8, <1>11, <1>12, <1>13

NoneYet == [scheduled |-> <<>>, dropped |-> {}, blocked |-> 0]
PlanItem(p, f, i) == IF i = 0 THEN NoneYet ELSE Consider(f[i-1], Queue(p)[i], p)
PlanStep(p, m, f) == f = [i \in 0..m |-> PlanItem(p, f, i)]
Admitted(p) == Min({Len(Queue(p)), PlanLimit})
Steps(p) == CHOOSE f : PlanStep(p, Admitted(p), f)

(* The recursive definition of the plan has a solution.                     *)
LEMMA PlanExists ==
  ASSUME NEW p
  PROVE  \A m \in Nat : \E f : PlanStep(p, m, f)
<1> DEFINE S == {m \in Nat : \E f : PlanStep(p, m, f)}
<1>1. 0 \in S
  <2> DEFINE f == [i \in 0..0 |-> NoneYet]
  <2>1. \A i \in 0..0 : i = 0
    OBVIOUS
  <2>2. PlanStep(p, 0, f)
    BY <2>1 DEF PlanStep, PlanItem
  <2> QED
    BY <2>2
<1>2. ASSUME NEW m \in Nat, m \in S
      PROVE  m + 1 \in S
  <2>1. PICK f : PlanStep(p, m, f)
    BY <1>2
  <2> DEFINE g == [i \in 0..m+1 |-> PlanItem(p, f, i)]
  <2>2. \A i \in 0..m : f[i] = PlanItem(p, f, i) /\ i \in 0..m+1
    BY <2>1 DEF PlanStep
  <2>3. \A i \in 0..m+1 : i # 0 => i - 1 \in 0..m
    OBVIOUS
  <2>4. \A i \in 0..m+1 : i # 0 => g[i-1] = f[i-1]
    <3>1. \A i \in 0..m : g[i] = f[i]
      BY <2>2
    <3> QED
      BY <2>3, <3>1
  <2>5. PlanStep(p, m + 1, g)
    <3>1. \A i \in 0..m+1 : PlanItem(p, g, i) = PlanItem(p, f, i)
      <4> HIDE DEF g
      <4> QED
        BY <2>4, Zenon DEF PlanItem
    <3> QED
      BY <3>1 DEF PlanStep
  <2> HIDE DEF g
  <2> QED
    BY <2>5
<1> HIDE DEF S
<1>3. Nat \subseteq S
  BY <1>1, <1>2, Induction
<1> QED
  BY <1>3 DEF S

(* The plan of a pass is the last of its steps.                             *)
LEMMA PlanIsLastStep ==
  ASSUME NEW p
  PROVE  Plan(p) = [scheduled |-> Steps(p)[Admitted(p)].scheduled, dropped |-> Steps(p)[Admitted(p)].dropped,
                    blocked |-> Steps(p)[Admitted(p)].blocked,
                    limit |-> LimitReached(p, Toured(p), Queue(p))]
BY Zenon DEF Plan, Steps, PlanStep, PlanItem, NoneYet, Admitted, Queue, Visited, Toured

(* What a pass may still send is a number.                                  *)
LEMMA CapacityType ==
  ASSUME NEW p \in Given
  PROVE  /\ PlanLimit \in Nat \ {0} /\ Capacity(p) \in Nat
         /\ Capacity(p) + p.inFlight <= p.maxInFlight \/ Capacity(p) = 0
<1>1. MaxPerPlan \in Nat /\ HardPerPlan \in Nat \ {0} /\ p.inFlight \in Nat /\ p.maxInFlight \in Nat
  BY ScheduleAssumption DEF Given
<1>2. PlanLimit \in Nat \ {0}
  <2>1. Max({MaxPerPlan, 1}) \in Nat \ {0}
    BY <1>1, MaxOfTwo
  <2> QED
    BY <1>1, <2>1, MinOfTwo DEF PlanLimit
<1>3. InFlightLimit(p) \in Nat /\ InFlightLimit(p) <= p.maxInFlight
  BY <1>1, <1>2, MinOfTwo DEF InFlightLimit
<1>4. Capacity(p) = IF InFlightLimit(p) - p.inFlight >= 0 THEN InFlightLimit(p) - p.inFlight ELSE 0
  BY <1>1, <1>3, MaxOfTwo DEF Capacity
<1> QED
  BY <1>1, <1>2, <1>3, <1>4

(* What holds of a plan when all its candidates have been considered.       *)
LEMMA PlanIsConsidered ==
  ASSUME NEW p \in Given, Distinct(Range(p.frames))
  PROVE  /\ Admitted(p) \in 0..Len(Queue(p))
         /\ Considered(p, Admitted(p), Steps(p)[Admitted(p)])
         /\ ~LimitReached(p, Toured(p), Queue(p)) => Admitted(p) = Len(Queue(p))
<1> DEFINE m == Admitted(p)
           f == Steps(p)
           S == {i \in Nat : i <= m => Considered(p, i, f[i])}
<1>1. Len(Queue(p)) \in Nat /\ Queue(p) \in Seq(CandidatesOf(FramesOf(p)))
  BY QueueInOrder
<1>2. PlanLimit \in Nat /\ Capacity(p) \in Nat /\ Spacing \in Nat
  BY CapacityType, ScheduleAssumption
<1>3. m \in 0..Len(Queue(p)) /\ (~(Len(Queue(p)) > PlanLimit) => m = Len(Queue(p)))
  BY <1>1, <1>2, MinOfTwo DEF Admitted
<1>4. PlanStep(p, m, f)
  <2>1. \E g : PlanStep(p, m, g)
    <3> HIDE DEF f, m, S
    <3>1. m \in Nat
      BY <1>1, <1>3
    <3> QED
      BY <3>1, PlanExists
  <2> QED
    BY <2>1, Zenon DEF Steps
<1>5. \A i \in 0..m : f[i] = PlanItem(p, f, i)
  <2> HIDE DEF f, m
  <2> QED
    BY <1>4 DEF PlanStep
<1> HIDE DEF f, m
<1>6. 0 \in S
  <2>1. f[0] = NoneYet
    BY <1>3, <1>5 DEF PlanItem
  <2>2. /\ Len(<<>>) = 0 /\ <<>> \in Seq(Slots(FramesOf(p)))
        /\ FirstOf(p, 0) = {}
    BY DEF FirstOf
  <2>3. NoneYet \in PlanType(FramesOf(p)) /\ ScheduledIn(NoneYet) = {} /\ Settled(NoneYet) = {}
    BY <2>2 DEF NoneYet, PlanType, ScheduledIn, Settled
  <2>4. IsFiniteSet({}) /\ Cardinality({}) = 0
    BY FS_EmptySet
  <2>5. NoneYet.scheduled = <<>> /\ NoneYet.dropped = {} /\ NoneYet.blocked = 0
    BY DEF NoneYet
  <2>6. Considered(p, 0, NoneYet)
    BY <1>2, <2>2, <2>3, <2>4, <2>5 DEF Considered
  <2> QED
    BY <2>1, <2>6
<1>7. ASSUME NEW i \in Nat, i \in S
      PROVE  i + 1 \in S
  <2> SUFFICES ASSUME i + 1 <= m PROVE Considered(p, i + 1, f[i+1])
    OBVIOUS
  <2>1. i \in 0..m /\ i + 1 \in 0..m /\ i + 1 # 0 /\ i + 1 - 1 = i /\ i + 1 \in 1..Len(Queue(p))
    BY <1>3
  <2>2. Considered(p, i, f[i])
    BY <1>7, <2>1
  <2>3. f[i+1] = Consider(f[i], Queue(p)[i+1], p)
    BY <1>5, <2>1 DEF PlanItem
  <2>4. Considered(p, i + 1, Consider(f[i], Queue(p)[i+1], p))
    BY <1>2, <2>1, <2>2, ConsiderNext
  <2> QED
    BY <2>3, <2>4
<1> HIDE DEF S
<1>8. m \in S
  BY <1>3, <1>6, <1>7, Induction
<1> QED
  BY <1>3, <1>8 DEF S, m, f, LimitReached

-----------------------------------------------------------------------------
(* The frames given, the pass just made and what is in flight.              *)

FramesAreNumbered ==
  now \in Nat /\ frames \in Seq(Frames) /\ \A n \in 1..Len(frames) : frames[n].n = n

(* The frames of a pass are frames given, unchanged.                        *)
IsPassOf(p, fs) ==
  p \in Given /\ \A f \in Range(p.frames) : f.n \in 1..Len(fs) /\ fs[f.n] = f

PassIsOfFrames == pass = PassOf(pass.given) /\ IsPassOf(pass.given, frames)

IsTimely(x, fs) ==
  x \in [dg : Datagrams, at : Nat] /\ x.dg.n \in 1..Len(fs) /\ x.at < fs[x.dg.n].deadline

FlightIsTimely == IsFiniteSet(flight) /\ \A x \in flight : IsTimely(x, frames)

PassInv == FramesAreNumbered /\ PassIsOfFrames /\ FlightIsTimely

(* No pass is a pass that was given nothing.                                *)
LEMMA NoPassGiven ==
  NoPass = PassOf(NoPass.given) /\ NoPass.given \in Given /\ Range(NoPass.given.frames) = {}
<1> DEFINE nothing == [frames |-> <<>>, ready |-> 0, queueDelay |-> 0, inFlight |-> 0, maxInFlight |-> 0]
<1>1. NoPass = PassOf(nothing) /\ NoPass.given = nothing
  BY DEF NoPass, PassOf
<1>2. nothing \in Given /\ nothing.frames = <<>> /\ Range(<<>>) = {}
  BY DEF Given, Range
<1> HIDE DEF nothing
<1> QED
  BY <1>1, <1>2

(* A sender that has sent nothing.                                          *)
LEMMA InitPass == Init => PassInv
<1> SUFFICES ASSUME Init PROVE PassInv
  OBVIOUS
<1>1. FramesAreNumbered /\ FlightIsTimely
  BY FS_EmptySet DEF Init, FramesAreNumbered, FlightIsTimely
<1>2. pass = NoPass
  BY DEF Init
<1>3. PassIsOfFrames
  BY <1>2, NoPassGiven DEF PassIsOfFrames, IsPassOf
<1> QED
  BY <1>1, <1>3 DEF PassInv

(* The frames of a pass have numbers of their own.                          *)
LEMMA PassIsDistinct ==
  ASSUME NEW p, NEW fs, IsPassOf(p, fs)
  PROVE  Distinct(Range(p.frames))
BY DEF IsPassOf, Distinct

(* A pass numbers its frames on from the frames given before.               *)
LEMMA PlanPassFrames ==
  ASSUME FramesAreNumbered, FlightIsTimely,
         NEW batch \in Batches, NEW delay \in QueueDelays, NEW limit \in InFlightLimits,
         PlanPass(batch, delay, limit)
  PROVE  /\ FramesAreNumbered' /\ PassIsOfFrames'
         /\ Len(frames') >= Len(frames) /\ \A n \in 1..Len(frames) : frames'[n] = frames[n]
         /\ pass'.given.inFlight = Cardinality(flight) /\ pass'.given.maxInFlight = limit
         /\ \A f \in Range(pass'.given.frames) : f.n \notin 1..Len(frames)
<1> DEFINE B == Numbered(batch)
           given == [frames |-> B, ready |-> now + delay, queueDelay |-> delay,
                     inFlight |-> Cardinality(flight), maxInFlight |-> limit]
           Batch == [stream : Nat, latency : Nat, blocks : Seq(BlockCounts), content : Content]
<1>1. now \in Nat /\ frames \in Seq(Frames) /\ Len(frames) \in Nat /\ \A n \in 1..Len(frames) : frames[n].n = n
  BY DEF FramesAreNumbered
<1>2. batch \in Seq(Batch) /\ delay \in Nat /\ limit \in Nat
  BY SenderAssumption DEF BlockCounts, Content
<1>3. /\ pass' = PassOf(given) /\ frames' = frames \o B /\ now' = now
  BY DEF PlanPass
<1>4. \A i \in 1..Len(batch) : B[i] \in Frames /\ B[i].n = Len(frames) + i
  <2> SUFFICES ASSUME NEW i \in 1..Len(batch) PROVE B[i] \in Frames /\ B[i].n = Len(frames) + i
    OBVIOUS
  <2>1. batch[i] \in Batch
    <3> HIDE DEF Batch, B, given
    <3> QED
      BY <1>2
  <2>2. B[i] = [n |-> Len(frames) + i, stream |-> batch[i].stream, content |-> batch[i].content,
                deadline |-> now + batch[i].latency, blocks |-> batch[i].blocks]
    BY <1>2 DEF Numbered
  <2>3. Len(frames) + i \in Nat /\ now + batch[i].latency \in Nat
    <3>1. batch[i].latency \in Nat
      BY <2>1
    <3> HIDE DEF Batch, B, given
    <3>2. Len(batch) \in Nat
      BY <1>2
    <3> QED
      BY <1>1, <3>1, <3>2
  <2> HIDE DEF B
  <2> QED
    BY <2>1, <2>2, <2>3 DEF Frames
<1>5. B \in Seq(Frames) /\ Len(B) = Len(batch) /\ Len(B) \in Nat
  <2>1. DOMAIN B = 1..Len(batch) /\ Len(batch) \in Nat /\ B = [i \in 1..Len(batch) |-> B[i]]
    BY <1>2 DEF Numbered
  <2> HIDE DEF B
  <2> QED
    BY <1>4, <2>1
<1>6. given \in Given /\ given.frames = B /\ given.inFlight = Cardinality(flight) /\ given.maxInFlight = limit
  <2>1. Cardinality(flight) \in Nat
    BY FS_CardinalityType DEF FlightIsTimely
  <2> HIDE DEF B
  <2> QED
    BY <1>1, <1>2, <1>5, <2>1 DEF Given
<1> HIDE DEF given, B
<1>7. pass'.given = given
  BY <1>3 DEF PassOf
<1>8. /\ frames' \in Seq(Frames) /\ Len(frames') = Len(frames) + Len(B)
      /\ \A n \in 1..Len(frames) : frames'[n] = frames[n]
      /\ \A i \in 1..Len(B) : frames'[Len(frames) + i] = B[i] /\ Len(frames) + i \in 1..Len(frames')
      /\ \A n \in 1..Len(frames') : n \in 1..Len(frames) \/ \E i \in 1..Len(B) : n = Len(frames) + i
  <2>1. /\ frames' \in Seq(Frames) /\ Len(frames') = Len(frames) + Len(B)
        /\ \A n \in 1..Len(frames) : frames'[n] = frames[n]
        /\ \A n \in 1..Len(frames)+Len(B) : n > Len(frames) => frames'[n] = B[n - Len(frames)]
    <3>1. frames' = frames \o B /\ frames \in Seq(Frames) /\ B \in Seq(Frames)
      BY <1>1, <1>3, <1>5
    <3>2. frames' \in Seq(Frames) /\ Len(frames') = Len(frames) + Len(B)
      BY <3>1
    <3>3. \A n \in 1..Len(frames)+Len(B) : frames'[n] = IF n <= Len(frames) THEN frames[n] ELSE B[n - Len(frames)]
      BY <3>1
    <3>4. \A n \in 1..Len(frames) : n \in 1..Len(frames)+Len(B) /\ n <= Len(frames)
      BY <1>1, <1>5
    <3>5. \A n \in 1..Len(frames)+Len(B) : n > Len(frames) => ~(n <= Len(frames))
      BY <1>1, <1>5
    <3> QED
      BY <3>2, <3>3, <3>4, <3>5
  <2>2. \A i \in 1..Len(B) : /\ Len(frames) + i \in 1..Len(frames)+Len(B) /\ Len(frames) + i > Len(frames)
                             /\ Len(frames) + i - Len(frames) = i
    BY <1>1, <1>5
  <2>3. \A n \in 1..Len(frames)+Len(B) :
          n \in 1..Len(frames) \/ (n - Len(frames) \in 1..Len(B) /\ n = Len(frames) + (n - Len(frames)))
    BY <1>1, <1>5
  <2>4. \A i \in 1..Len(B) : frames'[Len(frames) + i] = B[i]
    BY <2>1, <2>2
  <2> QED
    BY <2>1, <2>2, <2>3, <2>4
<1>9. \A n \in 1..Len(frames') : frames'[n].n = n
  <2> SUFFICES ASSUME NEW n \in 1..Len(frames') PROVE frames'[n].n = n
    OBVIOUS
  <2>1. CASE n \in 1..Len(frames)
    BY <1>1, <1>8, <2>1
  <2>2. CASE \E i \in 1..Len(B) : n = Len(frames) + i
    <3>1. PICK i \in 1..Len(B) : n = Len(frames) + i
      BY <2>2
    <3>2. frames'[n] = B[i]
      BY <1>8, <3>1
    <3> QED
      BY <1>4, <1>5, <3>1, <3>2
  <2> QED
    BY <1>8, <2>1, <2>2
<1>10. \A f \in Range(B) : f.n \in 1..Len(frames') /\ frames'[f.n] = f
  <2> SUFFICES ASSUME NEW f \in Range(B) PROVE f.n \in 1..Len(frames') /\ frames'[f.n] = f
    OBVIOUS
  <2>1. PICK i \in 1..Len(B) : f = B[i]
    BY <1>5 DEF Range
  <2> QED
    BY <1>4, <1>5, <1>8, <2>1
<1>11. FramesAreNumbered'
  BY <1>1, <1>3, <1>8, <1>9 DEF FramesAreNumbered
<1>12. PassIsOfFrames'
  BY <1>3, <1>6, <1>7, <1>10 DEF PassIsOfFrames, IsPassOf
<1>13. \A f \in Range(B) : f.n \notin 1..Len(frames)
  <2> SUFFICES ASSUME NEW f \in Range(B) PROVE f.n \notin 1..Len(frames)
    OBVIOUS
  <2>1. PICK i \in 1..Len(B) : f = B[i]
    BY <1>5 DEF Range
  <2>2. f.n = Len(frames) + i /\ i > 0
    BY <1>4, <1>5, <2>1
  <2> QED
    BY <1>1, <2>2
<1> QED
  BY <1>1, <1>5, <1>6, <1>7, <1>8, <1>11, <1>12, <1>13

(* What a pass schedules, for frames that are given.                        *)
LEMMA PlanIsTimely ==
  ASSUME NEW p, NEW fs, IsPassOf(p, fs)
  PROVE  /\ Plan(p).scheduled \in Seq([dg : Datagrams, at : Nat]) /\ Len(Plan(p).scheduled) <= Capacity(p)
         /\ \A x \in Range(Plan(p).scheduled) : IsTimely(x, fs)
<1>1. p \in Given /\ Distinct(Range(p.frames))
  BY PassIsDistinct DEF IsPassOf
<1> DEFINE s == Plan(p).scheduled
<1>2. s = Steps(p)[Admitted(p)].scheduled
  BY PlanIsLastStep
<1>3. s \in Seq(Slots(FramesOf(p))) /\ Len(s) <= Capacity(p)
  BY <1>1, <1>2, PlanIsConsidered DEF Considered, PlanType
<1> HIDE DEF s
<1>4. \A x \in Slots(FramesOf(p)) : IsTimely(x, fs) /\ x \in [dg : Datagrams, at : Nat]
  <2>1. FramesOf(p) \subseteq Range(p.frames)
    BY <1>1, ScannedFrames DEF FramesOf, Given
  <2> QED
    BY <2>1 DEF Slots, IsPassOf, IsTimely
<1>5. s \in Seq([dg : Datagrams, at : Nat])
  BY <1>3, <1>4, SeqOfSubset
<1>6. \A x \in Range(s) : x \in Slots(FramesOf(p))
  BY <1>3, RangeIsFinite
<1> QED
  BY <1>3, <1>4, <1>5, <1>6 DEF s

(* A step that gives no frames and puts nothing in flight.                  *)
LEMMA QuietStep ==
  ASSUME PassInv, frames' = frames, pass' = pass \/ pass' = NoPass, flight' \subseteq flight, now' \in Nat
  PROVE  PassInv'
<1>1. FramesAreNumbered'
  BY DEF PassInv, FramesAreNumbered
<1>2. FlightIsTimely'
  BY FS_Subset DEF PassInv, FlightIsTimely, IsTimely
<1>3. CASE pass' = pass
  <2>1. PassIsOfFrames'
    BY <1>3 DEF PassInv, PassIsOfFrames, IsPassOf
  <2> QED
    BY <1>1, <1>2, <2>1 DEF PassInv
<1>4. CASE pass' = NoPass
  <2>1. PassIsOfFrames'
    BY <1>4, NoPassGiven DEF PassIsOfFrames, IsPassOf
  <2> QED
    BY <1>1, <1>2, <2>1 DEF PassInv
<1> QED
  BY <1>3, <1>4

(* The steps of the sender but a pass are quiet.                            *)
LEMMA OthersAreQuiet ==
  ASSUME PassInv,
         \/ \E x \in flight : Arrive(x) \/ Lose(x)
         \/ \E id \in Blocks, path \in Paths, fetch \in Fetches : Recover(id, path, fetch)
         \/ \E r \in recovery : RecoveryArrives(r)
         \/ Tick
         \/ UNCHANGED vars
  PROVE  /\ frames' = frames /\ (pass' = pass \/ pass' = NoPass) /\ flight' \subseteq flight /\ now' \in Nat
         /\ now' # now => Tick
<1>1. now \in Nat
  BY DEF PassInv, FramesAreNumbered
<1>2. ASSUME NEW x \in flight, Arrive(x) \/ Lose(x)
      PROVE  frames' = frames /\ pass' = NoPass /\ flight' \subseteq flight /\ now' = now
  BY <1>2 DEF Arrive, Lose
<1>3. ASSUME NEW id, NEW path, NEW fetch, Recover(id, path, fetch)
      PROVE  frames' = frames /\ pass' = NoPass /\ flight' \subseteq flight /\ now' = now
  BY <1>3 DEF Recover
<1>4. ASSUME NEW r, RecoveryArrives(r)
      PROVE  frames' = frames /\ pass' = NoPass /\ flight' \subseteq flight /\ now' = now
  BY <1>4 DEF RecoveryArrives
<1>5. ASSUME Tick
      PROVE  frames' = frames /\ pass' = NoPass /\ flight' \subseteq flight /\ now' \in Nat
  BY <1>1, <1>5 DEF Tick
<1>6. UNCHANGED vars => frames' = frames /\ pass' = pass /\ flight' \subseteq flight /\ now' = now
  BY DEF vars
<1> QED
  BY <1>1, <1>2, <1>3, <1>4, <1>5, <1>6

(* A pass leaves what is in flight timely.                                  *)
LEMMA PlanPassFlight ==
  ASSUME PassInv,
         NEW batch \in Batches, NEW delay \in QueueDelays, NEW limit \in InFlightLimits,
         PlanPass(batch, delay, limit)
  PROVE  PassInv'
<1>1. /\ FramesAreNumbered' /\ PassIsOfFrames'
      /\ Len(frames') >= Len(frames) /\ \A n \in 1..Len(frames) : frames'[n] = frames[n]
  BY PlanPassFrames DEF PassInv
<1>2. Len(frames) \in Nat /\ Len(frames') \in Nat
  BY <1>1 DEF PassInv, FramesAreNumbered
<1>3. pass'.plan = Plan(pass'.given) /\ IsPassOf(pass'.given, frames')
  BY <1>1 DEF PassIsOfFrames, PassOf
<1> DEFINE s == Plan(pass'.given).scheduled
<1>4. /\ s \in Seq([dg : Datagrams, at : Nat])
      /\ \A x \in Range(s) : IsTimely(x, frames')
  BY <1>3, PlanIsTimely
<1>5. flight' = flight \cup Range(s)
  BY <1>3 DEF PlanPass
<1> HIDE DEF s
<1>6. IsFiniteSet(Range(s))
  BY <1>4, RangeIsFinite
<1>7. IsFiniteSet(flight')
  BY <1>5, <1>6, FS_Union DEF PassInv, FlightIsTimely
<1>8. \A x \in flight : IsTimely(x, frames')
  <2> SUFFICES ASSUME NEW x \in flight PROVE IsTimely(x, frames')
    OBVIOUS
  <2>1. IsTimely(x, frames)
    BY DEF PassInv, FlightIsTimely
  <2>2. x.dg.n \in 1..Len(frames) /\ x.dg.n \in 1..Len(frames')
    BY <1>1, <1>2, <2>1 DEF IsTimely
  <2> QED
    BY <1>1, <2>1, <2>2 DEF IsTimely
<1>9. FlightIsTimely'
  BY <1>4, <1>5, <1>7, <1>8 DEF FlightIsTimely
<1> QED
  BY <1>1, <1>9 DEF PassInv

(* Every step preserves the invariant of the passes.                        *)
LEMMA NextPass == PassInv /\ [Next]_vars => PassInv'
<1> SUFFICES ASSUME PassInv, [Next]_vars PROVE PassInv'
  OBVIOUS
<1>1. CASE \E batch \in Batches, delay \in QueueDelays, limit \in InFlightLimits : PlanPass(batch, delay, limit)
  BY <1>1, PlanPassFlight
<1>2. CASE \/ \E x \in flight : Arrive(x) \/ Lose(x)
           \/ \E id \in Blocks, path \in Paths, fetch \in Fetches : Recover(id, path, fetch)
           \/ \E r \in recovery : RecoveryArrives(r)
           \/ Tick
           \/ UNCHANGED vars
  BY <1>2, OthersAreQuiet, QuietStep
<1> QED
  BY <1>1, <1>2 DEF Next

(* What is in flight leaves before its frame expires, in every reachable    *)
(* state: schedule.rs compares the deadline with the time a datagram of the *)
(* paced burst is due, and no later pass changes a frame already given.     *)
THEOREM PassesAreSound == Spec => []PassInv
<1>1. Init => PassInv
  BY InitPass
<1>2. PassInv /\ [Next]_vars => PassInv'
  BY NextPass
<1> QED
  BY <1>1, <1>2, PTL DEF Spec

(* SentInTime, for every batch, queue delay, pacing and in-flight limit.    *)
THEOREM EverythingLeavesInTime == Spec => []SentInTime
<1>1. PassInv => SentInTime
  BY DEF PassInv, FlightIsTimely, IsTimely, SentInTime
<1> QED
  BY <1>1, PassesAreSound, PTL

(* CarrierIsNotOverrun: a pass that schedules anything has, with what was   *)
(* in flight before it, at most its max_in_flight_datagrams there.          *)
THEOREM CarrierKeepsItsLimit == Spec => CarrierIsNotOverrun
<1>1. ASSUME PassInv, [Next]_vars
      PROVE  flight' \subseteq flight \/ Cardinality(flight') <= pass'.given.maxInFlight
  <2>1. CASE \E batch \in Batches, delay \in QueueDelays, limit \in InFlightLimits : PlanPass(batch, delay, limit)
    <3>1. PICK batch \in Batches, delay \in QueueDelays, limit \in InFlightLimits : PlanPass(batch, delay, limit)
      BY <2>1
    <3> DEFINE p == pass'.given
               s == Plan(p).scheduled
    <3>2. PassIsOfFrames' /\ p.inFlight = Cardinality(flight)
      BY <1>1, <3>1, PlanPassFrames DEF PassInv
    <3>3. pass'.plan = Plan(p) /\ IsPassOf(p, frames') /\ p \in Given
      BY <3>2 DEF PassIsOfFrames, PassOf, IsPassOf
    <3>4. flight' = flight \cup Range(s)
      BY <3>1, <3>3 DEF PlanPass
    <3>5. s \in Seq([dg : Datagrams, at : Nat]) /\ Len(s) <= Capacity(p)
      BY <3>3, PlanIsTimely
    <3>6. Capacity(p) \in Nat /\ (Capacity(p) + p.inFlight <= p.maxInFlight \/ Capacity(p) = 0)
      BY <3>3, CapacityType
    <3> HIDE DEF s
    <3>7. CASE Len(s) = 0
      <4>1. Range(s) = {}
        BY <3>5, <3>7 DEF Range
      <4> QED
        BY <3>4, <4>1
    <3>8. CASE Len(s) # 0
      <4>1. IsFiniteSet(flight)
        BY <1>1 DEF PassInv, FlightIsTimely
      <4>2. IsFiniteSet(Range(s)) /\ Cardinality(Range(s)) <= Len(s)
        BY <3>5, RangeIsFinite
      <4>3. Cardinality(flight') = Cardinality(flight) + Cardinality(Range(s)) - Cardinality(flight \cap Range(s))
        BY <3>4, <4>1, <4>2, FS_Union
      <4>4. IsFiniteSet(flight \cap Range(s))
        BY <4>1, FS_Intersection
      <4>5. /\ Cardinality(flight) \in Nat /\ Cardinality(Range(s)) \in Nat
            /\ Cardinality(flight \cap Range(s)) \in Nat
        BY <4>1, <4>2, <4>4, FS_CardinalityType
      <4>6. Len(s) \in Nat /\ p.maxInFlight \in Nat
        BY <3>3, <3>5 DEF Given
      <4>7. Capacity(p) + Cardinality(flight) <= p.maxInFlight
        BY <3>2, <3>5, <3>6, <3>8, <4>6
      <4> HIDE DEF p
      <4>8. Cardinality(flight') <= p.maxInFlight
        BY <3>5, <3>6, <4>2, <4>3, <4>5, <4>6, <4>7
      <4> QED
        BY <4>8 DEF p
    <3> QED
      BY <3>7, <3>8
  <2>2. CASE \/ \E x \in flight : Arrive(x) \/ Lose(x)
             \/ \E id \in Blocks, path \in Paths, fetch \in Fetches : Recover(id, path, fetch)
             \/ \E r \in recovery : RecoveryArrives(r)
             \/ Tick
             \/ UNCHANGED vars
    BY <1>1, <2>2, OthersAreQuiet
  <2> QED
    BY <1>1, <2>1, <2>2 DEF Next
<1> QED
  BY <1>1, PassesAreSound, PTL DEF Spec, CarrierIsNotOverrun

-----------------------------------------------------------------------------
(* What becomes of the datagrams of a pass.                                 *)

(* The datagrams of a frame, and which of them are source.                  *)
LEMMA RoleOfDatagram ==
  ASSUME NEW f \in Frames, NEW role \in Roles, NEW x \in OfRole(f, role)
  PROVE  /\ x.n = f.n /\ x.block \in 1..Len(f.blocks)
         /\ x.esi < f.blocks[x.block].source <=> role = "source"
<1>1. PICK v \in VisitsOf({f}) : v.frame = f /\ v.role = role /\ \E j \in 1..Count(v) : Item(v, j).dg = x
  BY OfRoleIsVisited
<1>2. PICK j \in 1..Count(v) : Item(v, j).dg = x
  BY <1>1
<1>3. x.n = f.n /\ x.block = v.block /\ x.esi = First(v) + j - 1
  BY <1>1, <1>2 DEF Item, DatagramOf
<1>4. v.block \in 1..Len(f.blocks) /\ Count(v) = f.blocks[v.block][role]
  BY <1>1 DEF VisitsOf, Count
<1>5. f.blocks[v.block] \in BlockCounts
  BY <1>4 DEF Frames
<1>6. CASE role = "source"
  <2>1. First(v) = 0 /\ Count(v) = f.blocks[v.block].source
    BY <1>1, <1>4, <1>6 DEF First
  <2>2. x.esi < f.blocks[x.block].source
    BY <1>3, <1>5, <2>1 DEF BlockCounts
  <2> QED
    BY <1>3, <1>4, <1>6, <2>2
<1>7. CASE role = "repair"
  <2>1. First(v) = f.blocks[v.block].source
    BY <1>1, <1>7 DEF First
  <2>2. ~(x.esi < f.blocks[x.block].source)
    BY <1>3, <1>4, <1>5, <1>7, <2>1 DEF BlockCounts
  <2> QED
    BY <1>3, <1>4, <1>7, <2>2
<1> QED
  BY <1>6, <1>7 DEF Roles

(* A candidate is a datagram of its frame, of its role.                     *)
LEMMA CandidateIsOfRole ==
  ASSUME NEW fs \in SUBSET Frames, NEW c \in CandidatesOf(fs)
  PROVE  c.dg \in OfRole(c.frame, c.role) /\ c.frame \in fs /\ c.role \in Roles
<1>1. PICK v \in VisitsOf(fs) : \E j \in 1..Count(v) : c = Item(v, j)
  BY DEF CandidatesOf
<1>2. PICK j \in 1..Count(v) : c = Item(v, j)
  BY <1>1
<1>3. /\ v.frame \in fs /\ v.role \in Roles /\ v.block \in 1..Len(v.frame.blocks)
      /\ c.dg = DatagramOf(v, j) /\ c.frame = v.frame /\ c.role = v.role
  BY <1>2 DEF VisitsOf, Item
<1>4. DatagramsOf(v.frame, v.block, v.role) = [k \in 1..Count(v) |-> DatagramOf(v, k)]
  BY DatagramsOfVisit
<1>5. c.dg \in Range(DatagramsOf(v.frame, v.block, v.role))
  BY <1>2, <1>3, <1>4 DEF Range
<1> QED
  BY <1>3, <1>5 DEF OfRole

(* The datagrams of a frame are its source and its repair.                  *)
LEMMA AllOfFrame ==
  ASSUME NEW f \in Frames
  PROVE  \A x : x \in AllOf(f) <=> \E role \in Roles : x \in OfRole(f, role)
<1>1. DOMAIN f.blocks = 1..Len(f.blocks)
  BY DEF Frames
<1>2. AllOf(f) = UNION {Range(DatagramsOf(f, b, role)) : b \in 1..Len(f.blocks), role \in Roles}
  BY <1>1 DEF AllOf, Roles
<1> QED
  BY <1>2 DEF OfRole

(* What the properties say of the pass just made, in the terms above.       *)
LEMMA PassIsConsidered ==
  ASSUME PassInv
  PROVE  LET p == pass.given
             q == Steps(p)[Admitted(p)]
         IN /\ p \in Given /\ Distinct(Range(p.frames))
            /\ GivenFrames = FramesOf(p) /\ FramesOf(p) \in SUBSET Frames /\ Distinct(FramesOf(p))
            /\ \A f \in FramesOf(p) : frames[f.n] = f
            /\ Scheduled = ScheduledIn(q) /\ Len(pass.plan.scheduled) = Len(q.scheduled)
            /\ pass.plan.dropped = q.dropped /\ pass.plan.blocked = q.blocked
            /\ pass.plan.limit = LimitReached(p, Toured(p), Queue(p))
            /\ Admitted(p) \in 0..Len(Queue(p)) /\ Considered(p, Admitted(p), q)
            /\ ~pass.plan.limit => Admitted(p) = Len(Queue(p))
<1> DEFINE p == pass.given
           q == Steps(p)[Admitted(p)]
<1>1. pass.plan = Plan(p) /\ IsPassOf(p, frames)
  BY DEF PassInv, PassIsOfFrames, PassOf
<1>2. p \in Given /\ Distinct(Range(p.frames)) /\ \A f \in Range(p.frames) : frames[f.n] = f
  BY <1>1, PassIsDistinct DEF IsPassOf
<1> HIDE DEF p
<1>3. /\ pass.plan.scheduled = q.scheduled /\ pass.plan.dropped = q.dropped
      /\ pass.plan.blocked = q.blocked
      /\ pass.plan.limit = LimitReached(p, Toured(p), Queue(p))
  BY <1>1, PlanIsLastStep
<1>4. Admitted(p) \in 0..Len(Queue(p)) /\ Considered(p, Admitted(p), q)
  BY <1>2, PlanIsConsidered
<1>5. ~pass.plan.limit => Admitted(p) = Len(Queue(p))
  BY <1>2, <1>3, PlanIsConsidered
<1>6. /\ FramesOf(p) \subseteq Range(p.frames) /\ FramesOf(p) \in SUBSET Frames
      /\ Distinct(FramesOf(p))
  BY <1>2, ScannedFrames DEF FramesOf, Given
<1>7. GivenFrames = FramesOf(p)
  BY DEF GivenFrames, FramesOf, p
<1>8. Scheduled = ScheduledIn(q)
  <2>1. q.scheduled \in Seq(Slots(FramesOf(p)))
    BY <1>4 DEF Considered, PlanType
  <2>2. \A s : s \in Range(q.scheduled) <=> \E t \in 1..Len(q.scheduled) : q.scheduled[t] = s
    BY <2>1, RangeIsFinite
  <2> QED
    BY <1>3, <2>2 DEF Scheduled, ScheduledIn
<1> QED
  BY <1>2, <1>3, <1>4, <1>5, <1>6, <1>7, <1>8 DEF p

(* IsSource tells the source datagrams of a pass from the repair.           *)
LEMMA SourceOfPass ==
  ASSUME NEW f \in Frames, frames[f.n] = f, NEW role \in Roles, NEW x \in OfRole(f, role)
  PROVE  IsSource(x) <=> role = "source"
BY RoleOfDatagram DEF IsSource, SourceCount

(* A key that is not after another, in what it says of the two groups.      *)
LEMMA KeysTell ==
  ASSUME NEW f \in Frames, NEW g \in Frames, NEW r \in Roles, NEW ready \in Nat,
         NotAfter(SortKey([frame |-> g, role |-> r], ready), SortKey([frame |-> f, role |-> "source"], ready))
  PROVE  /\ Important(f) => r = "source" /\ ObjectKind(g) <= ObjectKind(f)
         /\ r = "source" \/ UrgentRepair(g, ready)
         /\ r = "source" /\ ObjectKind(f) = ObjectKind(g) => g.deadline <= f.deadline
<1> DEFINE G == [frame |-> g, role |-> r]
           F == [frame |-> f, role |-> "source"]
           a == SortKey(G, ready)
           b == SortKey(F, ready)
<1>1. ObjectKind(f) \in 1..6 /\ ObjectKind(g) \in 1..6 /\ f.deadline \in Nat /\ g.deadline \in Nat
  BY KindType DEF Frames
<1>2. /\ a[1] = SchedulingRank(G, ready) /\ a[2] = ObjectKind(g) /\ a[3] = g.deadline
      /\ b[1] = SchedulingRank(F, ready) /\ b[2] = ObjectKind(f) /\ b[3] = f.deadline
  BY DEF SortKey
<1>3. SchedulingRank(F, ready) = IF Important(f) THEN 0 ELSE 2
  BY DEF SchedulingRank
<1>4. /\ r = "source" => SchedulingRank(G, ready) = IF Important(g) THEN 0 ELSE 2
      /\ r # "source" => SchedulingRank(G, ready) = IF UrgentRepair(g, ready) THEN 1 ELSE 3
  BY DEF SchedulingRank
<1>5. ObjectKind(f) = ObjectKind(g) => (Important(f) <=> Important(g))
  BY DEF Important
<1>6. NotAfter(a, b)
  OBVIOUS
<1> HIDE DEF a, b, G, F
<1>7. \/ a[1] < b[1]
      \/ a[1] = b[1] /\ a[2] < b[2]
      \/ a[1] = b[1] /\ a[2] = b[2] /\ a[3] <= b[3]
  <2>1. CASE a = b
    BY <1>1, <1>2, <2>1
  <2>2. CASE Less(a, b)
    <3>1. PICK i \in 1..6 : a[i] < b[i] /\ \A j \in 1..i-1 : a[j] = b[j]
      BY <2>2 DEF Less
    <3>2. \/ i = 1
          \/ i = 2 /\ 1 \in 1..i-1
          \/ i = 3 /\ 1 \in 1..i-1 /\ 2 \in 1..i-1
          \/ i > 3 /\ 1 \in 1..i-1 /\ 2 \in 1..i-1 /\ 3 \in 1..i-1
      OBVIOUS
    <3>3. CASE i = 1
      BY <3>1, <3>3
    <3>4. CASE i = 2 /\ 1 \in 1..i-1
      BY <3>1, <3>4
    <3>5. CASE i = 3 /\ 1 \in 1..i-1 /\ 2 \in 1..i-1
      BY <1>1, <1>2, <3>1, <3>5
    <3>6. CASE i > 3 /\ 1 \in 1..i-1 /\ 2 \in 1..i-1 /\ 3 \in 1..i-1
      BY <1>1, <1>2, <3>1, <3>6
    <3> QED
      BY <3>2, <3>3, <3>4, <3>5, <3>6
  <2> QED
    BY <1>6, <2>1, <2>2 DEF NotAfter
<1>8. Important(f) => r = "source" /\ ObjectKind(g) <= ObjectKind(f)
  BY <1>1, <1>2, <1>3, <1>4, <1>7
<1>9. r = "source" \/ UrgentRepair(g, ready)
  BY <1>2, <1>3, <1>4, <1>7
<1>10. r = "source" /\ ObjectKind(f) = ObjectKind(g) => g.deadline <= f.deadline
  BY <1>1, <1>2, <1>3, <1>4, <1>5, <1>7
<1> QED
  BY <1>8, <1>9, <1>10

(* DeferredGaveWay: the candidates are considered in the order of the sort  *)
(* keys, and once one found no room nothing after it is scheduled, so what  *)
(* is scheduled comes before all that a pass defers or does not reach.      *)
THEOREM NothingWorseGoesFirst == Spec => []DeferredGaveWay
<1>1. ASSUME PassInv PROVE DeferredGaveWay
  <2> DEFINE p == pass.given
             q == Steps(p)[Admitted(p)]
             C == Queue(p)
             fs == FramesOf(p)
  <2>1. /\ p \in Given /\ Distinct(Range(p.frames))
        /\ GivenFrames = fs /\ fs \in SUBSET Frames /\ Distinct(fs)
        /\ \A f \in fs : frames[f.n] = f
        /\ Scheduled = ScheduledIn(q) /\ pass.plan.dropped = q.dropped
        /\ Admitted(p) \in 0..Len(C) /\ Considered(p, Admitted(p), q)
    BY <1>1, PassIsConsidered
  <2>2. p.ready \in Nat
    BY <2>1 DEF Given
  <2> HIDE DEF p, q, fs
  <2> SUFFICES ASSUME NEW f \in fs, NEW g \in fs,
                      NEW x \in AllOf(f) \ Settled(q), NEW y \in AllOf(g) \cap ScheduledIn(q), IsSource(x)
               PROVE  /\ Important(f) => IsSource(y) /\ ObjectKind(g) <= ObjectKind(f)
                      /\ IsSource(y) \/ UrgentRepair(g, p.ready)
                      /\ IsSource(y) /\ ObjectKind(f) = ObjectKind(g) => g.deadline <= f.deadline
    BY <2>1 DEF DeferredGaveWay, Settled, p
  <2>3. f \in Frames /\ g \in Frames /\ frames[f.n] = f /\ frames[g.n] = g
    BY <2>1
  <2>4. x \in OfRole(f, "source")
    <3>1. PICK role \in Roles : x \in OfRole(f, role)
      BY <2>3, AllOfFrame
    <3> QED
      BY <2>3, <3>1, SourceOfPass
  <2>5. PICK l \in 1..Admitted(p) : C[l].dg = y /\ FirstOf(p, l) \subseteq Settled(q)
    BY <2>1 DEF Considered
  <2>6. l \in 1..Len(C) /\ Len(C) \in Nat /\ C \in Seq(CandidatesOf(fs))
    <3>1. C \in Seq(CandidatesOf(fs))
      BY <2>1, QueueInOrder DEF fs
    <3> HIDE DEF C
    <3>2. Len(C) \in Nat
      BY <3>1
    <3> QED
      BY <2>1, <3>1, <3>2
  <2>7. C[l] \in CandidatesOf(fs)
    BY <2>6
  <2> DEFINE r == C[l].role
  <2>8. r \in Roles /\ C[l].frame \in fs /\ y \in OfRole(C[l].frame, r)
    BY <2>1, <2>5, <2>7, CandidateIsOfRole
  <2>9. C[l].frame = g
    <3>1. y.n = C[l].frame.n
      BY <2>1, <2>8, RoleOfDatagram
    <3>2. PICK role \in Roles : y \in OfRole(g, role)
      BY <2>3, AllOfFrame
    <3>3. y.n = g.n
      BY <2>3, <3>2, RoleOfDatagram
    <3> QED
      BY <2>1, <2>8, <3>1, <3>3 DEF Distinct
  <2>10. IsSource(y) <=> r = "source"
    BY <2>3, <2>8, <2>9, SourceOfPass
  <2>11. NotAfter(KeyOf(C[l], p), SortKey([frame |-> f, role |-> "source"], p.ready))
    <3>1. ~ \E k \in 1..l : C[k].dg = x
      BY <2>5 DEF FirstOf
    <3>2. "source" \in Roles
      BY DEF Roles
    <3> QED
      BY <2>1, <2>4, <2>6, <3>1, <3>2, QueueInOrder DEF fs
  <2>12. NotAfter(SortKey([frame |-> g, role |-> r], p.ready), SortKey([frame |-> f, role |-> "source"], p.ready))
    BY <2>9, <2>11 DEF KeyOf
  <2> HIDE DEF r
  <2> QED
    BY <2>2, <2>3, <2>8, <2>10, <2>12, KeysTell
<1> QED
  BY <1>1, PassesAreSound, PTL

(* As many datagrams as candidates.                                         *)
LEMMA FirstAreAsMany ==
  ASSUME NEW p \in Given, Distinct(Range(p.frames))
  PROVE  Cardinality(FirstOf(p, Len(Queue(p)))) = Len(Queue(p))
<1> DEFINE C == Queue(p)
           n == Len(C)
           e == [j \in 1..n |-> C[j].dg]
<1>1. n \in Nat /\ \A k, l \in 1..n : k < l => C[k].dg # C[l].dg
  BY QueueInOrder
<1>2. \A k, l \in 1..n : e[k] = e[l] => k = l
  <2> SUFFICES ASSUME NEW k \in 1..n, NEW l \in 1..n, C[k].dg = C[l].dg PROVE k = l
    OBVIOUS
  <2>1. k < l \/ l < k \/ k = l
    BY <1>1
  <2> QED
    BY <1>1, <2>1
<1>3. e \in [1..n -> FirstOf(p, n)] /\ \A x \in FirstOf(p, n) : \E j \in 1..n : e[j] = x
  BY DEF FirstOf
<1> HIDE DEF e, n, C
<1>4. e \in Bijection(1..n, FirstOf(p, n))
  BY <1>2, <1>3 DEF Bijection, Injection, Surjection, IsInjective
<1> QED
  BY <1>1, <1>4, FS_CountingElements DEF ExistsBijection, n, C

(* PassIsAccounted: a candidate is scheduled, dropped or deferred, once, and *)
(* without the limit every datagram of the frames is a candidate.           *)
THEOREM NothingIsForgotten == Spec => []PassIsAccounted
<1>1. ASSUME PassInv PROVE PassIsAccounted
  <2> DEFINE p == pass.given
             q == Steps(p)[Admitted(p)]
             C == Queue(p)
             fs == FramesOf(p)
             all == UNION {AllOf(f) : f \in fs}
             dropped == pass.plan.dropped
             s == pass.plan.scheduled
  <2>1. /\ p \in Given /\ Distinct(Range(p.frames))
        /\ GivenFrames = fs /\ fs \in SUBSET Frames /\ Distinct(fs)
        /\ Scheduled = ScheduledIn(q) /\ Len(s) = Len(q.scheduled)
        /\ dropped = q.dropped /\ pass.plan.blocked = q.blocked
        /\ pass.plan.limit = LimitReached(p, Toured(p), Queue(p))
        /\ Considered(p, Admitted(p), q)
        /\ ~pass.plan.limit => Admitted(p) = Len(C)
    BY <1>1, PassIsConsidered
  <2> HIDE DEF p, q, fs
  <2>2. /\ Cardinality(Scheduled) = Len(s) /\ Scheduled \cap dropped = {}
        /\ Settled(q) = Scheduled \cup dropped
        /\ IsFiniteSet(Settled(q)) /\ Cardinality(Settled(q)) + pass.plan.blocked = Admitted(p)
        /\ Settled(q) \subseteq FirstOf(p, Admitted(p))
    BY <2>1 DEF Considered, Settled
  <2>3. Cardinality(Settled(q)) = Len(s) + Cardinality(dropped)
    <3>1. IsFiniteSet(Scheduled) /\ IsFiniteSet(dropped)
      <4>1. Scheduled \in SUBSET Settled(q) /\ dropped \in SUBSET Settled(q)
        BY <2>2
      <4> QED
        BY <2>2, <4>1, FS_Subset
    <3>2. Cardinality(Scheduled) \in Nat /\ Cardinality(dropped) \in Nat
      BY <3>1, FS_CardinalityType
    <3>3. Cardinality({}) = 0
      BY FS_EmptySet
    <3>4. /\ Cardinality(Scheduled \cup dropped) =
             Cardinality(Scheduled) + Cardinality(dropped) - Cardinality(Scheduled \cap dropped)
      BY <3>1, FS_Union
    <3> HIDE DEF dropped
    <3>5. Cardinality(Scheduled \cap dropped) = 0
      BY <2>2, <3>3
    <3>6. Cardinality(Scheduled \cup dropped) = Cardinality(Scheduled) + Cardinality(dropped)
      BY <3>2, <3>4, <3>5
    <3> QED
      BY <2>2, <3>6
  <2>4. ASSUME ~pass.plan.limit
        PROVE  Len(s) + Cardinality(dropped) + pass.plan.blocked = Cardinality(all)
    <3>1. Len(Toured(p)) <= MaxVisits
      <4>1. ~(Len(Toured(p)) > MaxVisits)
        BY <2>1, <2>4 DEF LimitReached
      <4>2. Len(Toured(p)) \in Nat /\ MaxVisits \in Nat
        <5>1. Groups(p.frames, p.ready) \in Seq(GroupsOf(fs))
          BY <2>1, GroupsAreSorted DEF Given, FramesOf, fs
        <5>2. Toured(p) \in Seq(VisitsOf(fs))
          BY <2>1, <5>1, VisitsInOrder DEF Toured
        <5> QED
          BY <5>2, ScheduleAssumption
      <4> QED
        BY <4>1, <4>2
    <3>2. /\ C \in Seq(CandidatesOf(fs))
          /\ \A f \in fs, role \in Roles : \A x \in OfRole(f, role) : \E k \in 1..Len(C) : C[k].dg = x
      BY <2>1, <3>1, QueueInOrder DEF fs
    <3>3. all \subseteq FirstOf(p, Len(C))
      <4> SUFFICES ASSUME NEW f \in fs, NEW x \in AllOf(f) PROVE x \in FirstOf(p, Len(C))
        OBVIOUS
      <4>1. PICK role \in Roles : x \in OfRole(f, role)
        BY <2>1, AllOfFrame
      <4>2. PICK k \in 1..Len(C) : C[k].dg = x
        BY <3>2, <4>1
      <4> QED
        BY <4>2 DEF FirstOf
    <3>4. FirstOf(p, Len(C)) \subseteq all
      <4> SUFFICES ASSUME NEW k \in 1..Len(C) PROVE C[k].dg \in all
        BY DEF FirstOf
      <4>1. C[k] \in CandidatesOf(fs)
        BY <3>2
      <4>2. C[k].dg \in OfRole(C[k].frame, C[k].role) /\ C[k].frame \in fs /\ C[k].role \in Roles
        BY <2>1, <4>1, CandidateIsOfRole
      <4>3. C[k].dg \in AllOf(C[k].frame)
        BY <2>1, <4>2, AllOfFrame
      <4> QED
        BY <4>2, <4>3
    <3>5. Cardinality(all) = Len(C)
      <4>1. all = FirstOf(p, Len(C))
        BY <3>3, <3>4
      <4> QED
        BY <2>1, <4>1, FirstAreAsMany
    <3> QED
      BY <2>1, <2>2, <2>3, <2>4, <3>5
  <2> QED
    BY <2>1, <2>2, <2>4 DEF PassIsAccounted, p
<1> QED
  BY <1>1, PassesAreSound, PTL

-----------------------------------------------------------------------------
(* Recovery.                                                                *)

Margin == Max({SafetyMargin, 1})

(* The margin that EstimateFits leaves is at least one unit of time.        *)
LEMMA MarginType == SafetyMargin \in Nat /\ Margin \in Nat \ {0}
<1>1. SafetyMargin \in Nat
  BY ScheduleAssumption
<1> QED
  BY <1>1, MaxOfTwo DEF Margin

(* A recovery that is decided is expected a margin before the deadline, and *)
(* a repair asks for the deficit at least.                                  *)
LEMMA DecisionFits ==
  ASSUME NEW t \in Nat, NEW deadline \in Nat, NEW deficit \in Nat, NEW path \in Paths, NEW fetch \in Fetches
  PROVE  LET d == DecideRecovery(t, deadline, deficit, path, fetch)
         IN /\ d.action \in {"repair", "fetch"} => d.at \in Nat /\ t <= d.at /\ d.at + Margin <= deadline
            /\ d.action = "repair" => d.symbols \in Nat /\ d.symbols >= deficit
<1> DEFINE remaining == RemainingAt(deadline, t)
           symbols == RepairSymbols(deficit)
           estimate == RepairEstimate(path.rtt, path.queueDelay, path.spacing, symbols)
           d == DecideRecovery(t, deadline, deficit, path, fetch)
<1>1. path.rtt \in Nat /\ path.queueDelay \in Nat /\ path.spacing \in Nat
  BY SenderAssumption
<1>2. remaining = IF deadline - t >= 0 THEN deadline - t ELSE 0
  BY MaxOfTwo DEF RemainingAt
<1>3. symbols \in Nat /\ symbols >= deficit
  <2>1. SafetySymbols \in Nat /\ HardExtra \in Nat
    BY ScheduleAssumption
  <2>2. Min({SafetySymbols, HardExtra}) \in Nat
    BY <2>1, MinOfTwo
  <2> QED
    BY <2>2 DEF RepairSymbols
<1>4. \A e \in Nat : remaining > 0 /\ EstimateFits(e, remaining) =>
                       t + e \in Nat /\ t <= t + e /\ t + e + Margin <= deadline
  <2> SUFFICES ASSUME NEW e \in Nat, remaining > 0, e + Margin <= remaining
               PROVE  t + e \in Nat /\ t <= t + e /\ t + e + Margin <= deadline
    BY DEF EstimateFits, Margin
  <2>1. Margin \in Nat
    BY MarginType
  <2> HIDE DEF remaining
  <2> QED
    BY <1>2, <2>1
<1>5. deficit # 0 => estimate \in Nat
  <2> SUFFICES ASSUME deficit # 0 PROVE estimate \in Nat
    OBVIOUS
  <2>1. symbols - 1 \in Nat
    BY <1>3
  <2> HIDE DEF symbols
  <2>2. (symbols - 1) * path.spacing \in Nat
    BY <1>1, <2>1
  <2> QED
    BY <1>1, <2>2 DEF RepairEstimate
<1>6. fetch # {} => Min(fetch) \in Nat
  <2> SUFFICES ASSUME NEW a \in fetch PROVE Min(fetch) \in Nat
    OBVIOUS
  <2>1. a \in Nat /\ fetch = {a}
    BY SenderAssumption
  <2> QED
    BY <2>1, MinOfOne
<1> HIDE DEF remaining, symbols, estimate
<1>7. \/ d.action \in {"none", "expire"}
      \/ /\ d.action = "repair" /\ d.symbols = symbols /\ d.at = t + estimate
         /\ deficit # 0 /\ remaining > 0 /\ EstimateFits(estimate, remaining)
      \/ /\ d.action = "fetch" /\ d.at = t + Min(fetch)
         /\ remaining > 0 /\ fetch # {} /\ EstimateFits(Min(fetch), remaining)
  BY DEF DecideRecovery, remaining, symbols, estimate
<1> HIDE DEF d
<1>8. CASE d.action \in {"none", "expire"}
  BY <1>8 DEF d
<1>9. CASE /\ d.action = "repair" /\ d.symbols = symbols /\ d.at = t + estimate
           /\ deficit # 0 /\ remaining > 0 /\ EstimateFits(estimate, remaining)
  BY <1>3, <1>4, <1>5, <1>9 DEF d
<1>10. CASE /\ d.action = "fetch" /\ d.at = t + Min(fetch)
            /\ remaining > 0 /\ fetch # {} /\ EstimateFits(Min(fetch), remaining)
  BY <1>4, <1>6, <1>10 DEF d
<1> QED
  BY <1>7, <1>8, <1>9, <1>10

(* What came and what is in flight are different datagrams, and a datagram  *)
(* is in flight once.                                                       *)
ReceivedApart ==
  /\ IsFiniteSet(received) /\ \A dg \in received : dg.n \in 1..Len(frames)
  /\ \A x \in flight : x.dg \notin received /\ \A y \in flight : x.dg = y.dg => x = y

(* A recovery under way at time t, when rec has come: it is due a margin    *)
(* before the deadline, and what it asked for makes up, with what has come  *)
(* and what was counted, for the whole block.                               *)
IsRecovery(r, fs, t, rec) ==
  /\ r.id.n \in 1..Len(fs) /\ fs[r.id.n].blocks[r.id.block].source \in Nat
  /\ r.decision.action \in {"repair", "fetch"} /\ r.decision.at \in Nat
  /\ r.decision.at + Margin <= fs[r.id.n].deadline /\ t < r.decision.at + Margin
  /\ IsFiniteSet(r.counted)
  /\ r.decision.action = "repair" =>
       /\ r.decision.symbols \in Nat
       /\ r.decision.symbols + Cardinality(OfBlock(rec \cup r.counted, r.id)) >= fs[r.id.n].blocks[r.id.block].source

RecoveriesFit == \A r \in recovery : IsRecovery(r, frames, now, received)

SenderInv == PassInv /\ ReceivedApart /\ RecoveriesFit /\ RecoveryIsInTime /\ RecoveryCovers

(* A recovery stays one while time is kept and more datagrams come.         *)
LEMMA RecoveryStays ==
  ASSUME NEW r, NEW fs, NEW t, NEW rec, IsRecovery(r, fs, t, rec), IsFiniteSet(rec),
         NEW fs2, NEW t2, NEW rec2, IsFiniteSet(rec2), rec \subseteq rec2,
         t2 < r.decision.at + Margin,
         r.id.n \in 1..Len(fs2), fs2[r.id.n] = fs[r.id.n]
  PROVE  IsRecovery(r, fs2, t2, rec2)
<1> DEFINE A == OfBlock(rec \cup r.counted, r.id)
           B == OfBlock(rec2 \cup r.counted, r.id)
<1>1. IsFiniteSet(rec2 \cup r.counted)
  BY FS_Union DEF IsRecovery
<1>2. B \in SUBSET (rec2 \cup r.counted) /\ A \in SUBSET B
  BY DEF OfBlock
<1> HIDE DEF A, B
<1>3. IsFiniteSet(B) /\ IsFiniteSet(A) /\ Cardinality(A) <= Cardinality(B)
  BY <1>1, <1>2, FS_Subset
<1>4. Cardinality(A) \in Nat /\ Cardinality(B) \in Nat
  BY <1>3, FS_CardinalityType
<1>5. r.decision.action = "repair" => r.decision.symbols + Cardinality(B) >= fs2[r.id.n].blocks[r.id.block].source
  <2> DEFINE k == r.decision.symbols
             n == fs[r.id.n].blocks[r.id.block].source
  <2>1. n \in Nat /\ (r.decision.action = "repair" => k \in Nat /\ k + Cardinality(A) >= n)
    BY DEF IsRecovery, A
  <2>2. fs2[r.id.n].blocks[r.id.block].source = n
    OBVIOUS
  <2> HIDE DEF k, n
  <2>3. r.decision.action = "repair" => k + Cardinality(B) >= n
    BY <1>3, <1>4, <2>1
  <2> QED
    BY <2>2, <2>3 DEF k
<1> QED
  BY <1>5 DEF IsRecovery, B

(* The datagrams in flight are finitely many.                               *)
LEMMA InFlightIsFinite == FlightIsTimely => IsFiniteSet(InFlight)
<1> SUFFICES ASSUME IsFiniteSet(flight) PROVE IsFiniteSet(InFlight)
  BY DEF FlightIsTimely
<1> DEFINE f == [x \in flight |-> x.dg]
<1>1. f \in Surjection(flight, InFlight)
  BY DEF Surjection, InFlight
<1> QED
  BY <1>1, FS_Surjection

(* The deficit is the number of the source symbols of a block that neither  *)
(* came nor are in flight.                                                  *)
LEMMA DeficitCounts ==
  ASSUME PassInv, ReceivedApart, NEW id, SourceCount(id) \in Nat
  PROVE  /\ Deficit(id) \in Nat
         /\ IsFiniteSet(OfBlock(InFlight, id))
         /\ Deficit(id) + Cardinality(OfBlock(received \cup OfBlock(InFlight, id), id)) >= SourceCount(id)
<1> DEFINE A == OfBlock(received, id)
           B == OfBlock(InFlight, id)
           n == SourceCount(id)
<1>1. IsFiniteSet(received) /\ IsFiniteSet(InFlight)
  BY InFlightIsFinite DEF PassInv, ReceivedApart
<1>2. A \in SUBSET received /\ B \in SUBSET InFlight /\ A \cap B = {}
  BY DEF OfBlock, ReceivedApart, InFlight
<1>3. OfBlock(received \cup B, id) = A \cup B
  BY DEF OfBlock
<1> HIDE DEF A, B, n
<1>4. IsFiniteSet(A) /\ IsFiniteSet(B)
  BY <1>1, <1>2, FS_Subset
<1>5. Cardinality(A) \in Nat /\ Cardinality(B) \in Nat /\ Cardinality({}) = 0
  BY <1>4, FS_CardinalityType, FS_EmptySet
<1>6. Cardinality(A \cup B) = Cardinality(A) + Cardinality(B) - Cardinality(A \cap B)
  BY <1>4, FS_Union
<1>7. Cardinality(A \cup B) = Cardinality(A) + Cardinality(B)
  <2>1. Cardinality(A \cap B) = 0
    BY <1>2, <1>5
  <2> QED
    BY <1>5, <1>6, <2>1
<1>8. n \in Nat /\ Deficit(id) = Max({n - Cardinality(A) - Cardinality(B), 0})
  BY DEF Deficit, n, A, B
<1>9. Deficit(id) = IF n - Cardinality(A) - Cardinality(B) >= 0 THEN n - Cardinality(A) - Cardinality(B) ELSE 0
  BY <1>5, <1>8, MaxOfTwo
<1>10. Deficit(id) \in Nat /\ Deficit(id) + Cardinality(A) + Cardinality(B) >= n
  BY <1>5, <1>8, <1>9
<1>11. Deficit(id) + Cardinality(A \cup B) >= n
  BY <1>5, <1>7, <1>10
<1> QED
  BY <1>3, <1>4, <1>10, <1>11 DEF n, B

(* A block that a recovery may be decided for is one of a frame given.      *)
LEMMA BlockIsOfFrame ==
  ASSUME FramesAreNumbered, NEW id \in Blocks
  PROVE  /\ id.n \in 1..Len(frames) /\ frames[id.n].deadline \in Nat
         /\ frames[id.n].blocks[id.block].source \in Nat
<1>1. PICK n \in DOMAIN frames : id \in BlocksOf(frames[n])
  BY DEF Blocks
<1>2. n \in 1..Len(frames) /\ frames[n] \in Frames /\ frames[n].n = n
  BY <1>1 DEF FramesAreNumbered
<1>3. id.n = n /\ id.block \in DOMAIN frames[n].blocks
  BY <1>1, <1>2 DEF BlocksOf
<1>4. frames[n].blocks[id.block] \in BlockCounts /\ frames[n].deadline \in Nat
  BY <1>2, <1>3 DEF Frames
<1> QED
  BY <1>2, <1>3, <1>4 DEF BlockCounts

(* What a step that lets nothing fly and leaves received alone keeps.       *)
LEMMA ApartStays ==
  ASSUME ReceivedApart, flight' \subseteq flight, received' = received, frames' = frames
  PROVE  ReceivedApart'
BY DEF ReceivedApart

(* Every recovery stays one in a step that starts none.                     *)
LEMMA RecoveriesStay ==
  ASSUME RecoveriesFit, ReceivedApart, FramesAreNumbered,
         recovery' \subseteq recovery, received \subseteq received', IsFiniteSet(received'),
         \A r \in recovery' : now' < r.decision.at + Margin,
         Len(frames') \in Nat, Len(frames') >= Len(frames), \A n \in 1..Len(frames) : frames'[n] = frames[n]
  PROVE  RecoveriesFit'
<1> SUFFICES ASSUME NEW r \in recovery' PROVE IsRecovery(r, frames', now', received')
  BY DEF RecoveriesFit
<1>1. IsRecovery(r, frames, now, received)
  BY DEF RecoveriesFit
<1>2. Len(frames) \in Nat
  BY DEF FramesAreNumbered
<1>3. r.id.n \in 1..Len(frames)
  BY <1>1 DEF IsRecovery
<1>4. r.id.n \in 1..Len(frames') /\ frames'[r.id.n] = frames[r.id.n]
  BY <1>2, <1>3
<1>5. IsFiniteSet(received)
  BY DEF ReceivedApart
<1>6. now' < r.decision.at + Margin
  OBVIOUS
<1> QED
  BY <1>1, <1>4, <1>5, <1>6, RecoveryStays

(* A sender that has sent nothing recovers nothing.                         *)
LEMMA InitSender == Init => SenderInv
<1> SUFFICES ASSUME Init PROVE SenderInv
  OBVIOUS
<1>1. PassInv
  BY InitPass
<1>2. ReceivedApart /\ RecoveriesFit /\ RecoveryIsInTime /\ RecoveryCovers
  BY FS_EmptySet DEF Init, ReceivedApart, RecoveriesFit, RecoveryIsInTime, RecoveryCovers
<1> QED
  BY <1>1, <1>2 DEF SenderInv

(* A decision starts a recovery that fits.                                  *)
LEMMA RecoverKeeps ==
  ASSUME SenderInv, NEW id \in Blocks, NEW path \in Paths, NEW fetch \in Fetches, Recover(id, path, fetch)
  PROVE  ReceivedApart' /\ RecoveriesFit' /\ RecoveryIsInTime' /\ RecoveryCovers'
<1> DEFINE d == DecideRecovery(now, frames[id.n].deadline, Deficit(id), path, fetch)
           r == [id |-> id, decision |-> d, counted |-> OfBlock(InFlight, id)]
<1>1. /\ now' = now /\ frames' = frames /\ flight' = flight /\ received' = received
      /\ done' = done /\ shortfalls' = shortfalls
      /\ recovery' = recovery \/ (d.action \in {"repair", "fetch"} /\ recovery' = recovery \cup {r})
  BY DEF Recover
<1>2. PassInv /\ ReceivedApart /\ RecoveriesFit /\ now \in Nat /\ FramesAreNumbered
  BY DEF SenderInv, PassInv, FramesAreNumbered
<1>3. /\ id.n \in 1..Len(frames) /\ frames[id.n].deadline \in Nat
      /\ frames[id.n].blocks[id.block].source \in Nat
  BY <1>2, BlockIsOfFrame
<1>4. SourceCount(id) \in Nat /\ SourceCount(id) = frames[id.n].blocks[id.block].source
  BY <1>3 DEF SourceCount
<1>5. /\ Deficit(id) \in Nat /\ IsFiniteSet(OfBlock(InFlight, id))
      /\ Deficit(id) + Cardinality(OfBlock(received \cup OfBlock(InFlight, id), id)) >= SourceCount(id)
  BY <1>2, <1>4, DeficitCounts
<1>6. /\ d.action \in {"repair", "fetch"} => d.at \in Nat /\ now <= d.at /\ d.at + Margin <= frames[id.n].deadline
      /\ d.action = "repair" => d.symbols \in Nat /\ d.symbols >= Deficit(id)
  BY <1>2, <1>3, <1>5, DecisionFits
<1> HIDE DEF d
<1>7. d.action \in {"repair", "fetch"} => IsRecovery(r, frames, now, received)
  <2> SUFFICES ASSUME d.action \in {"repair", "fetch"} PROVE IsRecovery(r, frames, now, received)
    OBVIOUS
  <2>1. r.id = id /\ r.decision = d /\ r.counted = OfBlock(InFlight, id)
    OBVIOUS
  <2>2. now < d.at + Margin
    BY <1>2, <1>6, MarginType
  <2>3. IsFiniteSet(OfBlock(received \cup OfBlock(InFlight, id), id))
    <3>1. IsFiniteSet(received \cup OfBlock(InFlight, id))
      BY <1>2, <1>5, FS_Union DEF ReceivedApart
    <3>2. OfBlock(received \cup OfBlock(InFlight, id), id) \in SUBSET (received \cup OfBlock(InFlight, id))
      BY DEF OfBlock
    <3> QED
      BY <3>1, <3>2, FS_Subset
  <2>4. d.action = "repair" =>
          d.symbols + Cardinality(OfBlock(received \cup OfBlock(InFlight, id), id)) >= SourceCount(id)
    <3> DEFINE k == Cardinality(OfBlock(received \cup OfBlock(InFlight, id), id))
    <3>1. k \in Nat
      BY <2>3, FS_CardinalityType
    <3> HIDE DEF k
    <3>2. d.action = "repair" => d.symbols + k >= SourceCount(id)
      <4>1. Deficit(id) + k >= SourceCount(id)
        BY <1>5 DEF k
      <4> QED
        BY <1>4, <1>5, <1>6, <3>1, <4>1
    <3> QED
      BY <3>2 DEF k
  <2> HIDE DEF r
  <2> QED
    BY <1>3, <1>4, <1>5, <1>6, <2>1, <2>2, <2>4 DEF IsRecovery
<1> HIDE DEF r
<1>8. RecoveriesFit'
  BY <1>1, <1>2, <1>7 DEF RecoveriesFit
<1>9. ReceivedApart'
  BY <1>1, <1>2, ApartStays
<1> QED
  BY <1>1, <1>8, <1>9 DEF SenderInv, RecoveryIsInTime, RecoveryCovers

(* A recovery that comes finds its block with time left, and leaves it      *)
(* incomplete only if something counted has not come.                       *)
LEMMA RecoveryArrivesKeeps ==
  ASSUME SenderInv, NEW r \in recovery, RecoveryArrives(r)
  PROVE  ReceivedApart' /\ RecoveriesFit' /\ RecoveryIsInTime' /\ RecoveryCovers'
<1>1. /\ now' = now /\ frames' = frames /\ flight' = flight /\ received' = received
      /\ recovery' = recovery \ {r}
      /\ done' = done \/ done' = Completes(r.id, "recovery")
      /\ \/ shortfalls' = shortfalls
         \/ /\ r.decision.action = "repair"
            /\ Cardinality(OfBlock(received, r.id)) + r.decision.symbols < SourceCount(r.id)
            /\ shortfalls' = shortfalls \cup {[id |-> r.id, missing |-> r.counted \ received]}
  BY DEF RecoveryArrives
<1>2. PassInv /\ ReceivedApart /\ RecoveriesFit /\ now \in Nat /\ FramesAreNumbered
  BY DEF SenderInv, PassInv, FramesAreNumbered
<1>3. IsRecovery(r, frames, now, received)
  BY <1>2 DEF RecoveriesFit
<1>4. RecoveriesFit'
  BY <1>1, <1>2 DEF RecoveriesFit
<1>5. RecoveryIsInTime'
  <2>1. frames[r.id.n].deadline \in Nat
    <3>1. r.id.n \in 1..Len(frames) /\ frames \in Seq(Frames)
      BY <1>2, <1>3 DEF IsRecovery, FramesAreNumbered
    <3>2. frames[r.id.n] \in Frames
      BY <3>1
    <3> QED
      BY <3>2 DEF Frames
  <2>2. now < frames[r.id.n].deadline
    <3> DEFINE due == r.decision.at + Margin
    <3>1. now < due /\ due <= frames[r.id.n].deadline
      BY <1>3 DEF IsRecovery
    <3>2. now \in Nat /\ due \in Nat
      BY <1>2, <1>3, MarginType DEF IsRecovery
    <3> HIDE DEF due
    <3> QED
      BY <2>1, <3>1, <3>2
  <2> DEFINE o == ObserveCompletion(frames[r.id.n].deadline, now)
             new == [id |-> r.id, via |-> "recovery", outcome |-> o]
  <2>3. done' \subseteq done \cup {new}
    BY <1>1 DEF Completes
  <2>4. o.hit
    BY <2>2 DEF ObserveCompletion
  <2> HIDE DEF o
  <2>5. new.outcome.hit
    BY <2>4
  <2> HIDE DEF new
  <2> QED
    BY <2>3, <2>5 DEF SenderInv, RecoveryIsInTime
<1>6. RecoveryCovers'
  <2> SUFFICES ASSUME /\ r.decision.action = "repair"
                      /\ Cardinality(OfBlock(received, r.id)) + r.decision.symbols < SourceCount(r.id)
               PROVE  r.counted \ received # {}
    BY <1>1 DEF SenderInv, RecoveryCovers
  <2> SUFFICES ASSUME r.counted \subseteq received PROVE FALSE
    OBVIOUS
  <2>1. received \cup r.counted = received
    OBVIOUS
  <2>2. r.decision.symbols + Cardinality(OfBlock(received, r.id)) >= SourceCount(r.id)
    BY <1>3, <2>1 DEF IsRecovery, SourceCount
  <2>3. r.decision.symbols \in Nat /\ SourceCount(r.id) \in Nat
    BY <1>3 DEF IsRecovery, SourceCount
  <2>4. Cardinality(OfBlock(received, r.id)) \in Nat
    <3>1. OfBlock(received, r.id) \in SUBSET received
      BY DEF OfBlock
    <3>2. IsFiniteSet(OfBlock(received, r.id))
      BY <1>2, <3>1, FS_Subset DEF ReceivedApart
    <3> QED
      BY <3>2, FS_CardinalityType
  <2> QED
    BY <2>2, <2>3, <2>4
<1>7. ReceivedApart'
  BY <1>1, <1>2, ApartStays
<1> QED
  BY <1>4, <1>5, <1>6, <1>7

(* What comes was in flight once.                                           *)
LEMMA ArriveKeeps ==
  ASSUME SenderInv, NEW x \in flight, Arrive(x)
  PROVE  ReceivedApart' /\ RecoveriesFit' /\ RecoveryIsInTime' /\ RecoveryCovers'
<1>1. /\ now' = now /\ frames' = frames /\ flight' = flight \ {x} /\ received' = received \cup {x.dg}
      /\ recovery' = recovery /\ shortfalls' = shortfalls
      /\ done' = done \/ \E id : done' = Completes(id, "wire")
  BY DEF Arrive
<1>2. PassInv /\ ReceivedApart /\ RecoveriesFit /\ FramesAreNumbered /\ FlightIsTimely
  BY DEF SenderInv, PassInv
<1>3. IsFiniteSet(received') /\ \A dg \in received' : dg.n \in 1..Len(frames)
  BY <1>1, <1>2, FS_AddElement DEF ReceivedApart, FlightIsTimely, IsTimely
<1>4. ReceivedApart'
  BY <1>1, <1>2, <1>3 DEF ReceivedApart
<1>5. Len(frames) \in Nat
  BY <1>2 DEF FramesAreNumbered
<1>6. \A r \in recovery' : now' < r.decision.at + Margin
  BY <1>1, <1>2 DEF RecoveriesFit, IsRecovery
<1>7. RecoveriesFit'
  BY <1>1, <1>2, <1>3, <1>5, <1>6, RecoveriesStay
<1>8. \A d \in done' : d \in done \/ d.via = "wire"
  BY <1>1 DEF Completes
<1>9. RecoveryIsInTime' /\ RecoveryCovers'
  BY <1>1, <1>8 DEF SenderInv, RecoveryIsInTime, RecoveryCovers
<1> QED
  BY <1>4, <1>7, <1>9

(* Time stops for a recovery that has used up its margin.                   *)
LEMMA TickKeeps ==
  ASSUME SenderInv, Tick
  PROVE  ReceivedApart' /\ RecoveriesFit' /\ RecoveryIsInTime' /\ RecoveryCovers'
<1>1. /\ now' = now + 1 /\ frames' = frames /\ flight' = flight /\ received' = received
      /\ recovery' = recovery /\ done' = done /\ shortfalls' = shortfalls
      /\ \A r \in recovery : now + 1 < r.decision.at + Margin
  BY DEF Tick, Margin
<1>2. PassInv /\ ReceivedApart /\ RecoveriesFit /\ FramesAreNumbered /\ IsFiniteSet(received)
  BY DEF SenderInv, PassInv, ReceivedApart
<1>3. Len(frames) \in Nat
  BY <1>2 DEF FramesAreNumbered
<1>4. RecoveriesFit'
  BY <1>1, <1>2, <1>3, RecoveriesStay
<1>5. ReceivedApart'
  BY <1>1, <1>2, ApartStays
<1> QED
  BY <1>1, <1>4, <1>5 DEF SenderInv, RecoveryIsInTime, RecoveryCovers

(* A datagram lost, and a step of no actor.                                 *)
LEMMA LoseKeeps ==
  ASSUME SenderInv, (\E x \in flight : Lose(x)) \/ UNCHANGED vars
  PROVE  ReceivedApart' /\ RecoveriesFit' /\ RecoveryIsInTime' /\ RecoveryCovers'
<1>1. /\ now' = now /\ frames' = frames /\ flight' \subseteq flight /\ received' = received
      /\ recovery' = recovery /\ done' = done /\ shortfalls' = shortfalls
  BY DEF Lose, vars
<1>2. ReceivedApart'
  BY <1>1, ApartStays DEF SenderInv
<1> QED
  BY <1>1, <1>2 DEF SenderInv, RecoveriesFit, RecoveryIsInTime, RecoveryCovers

(* A plan schedules a datagram once, and only of the frames it was given.   *)
LEMMA PlanIsApart ==
  ASSUME NEW p \in Given, Distinct(Range(p.frames))
  PROVE  LET s == Plan(p).scheduled
         IN /\ \A x, y \in Range(s) : x.dg = y.dg => x = y
            /\ \A x \in Range(s) : \E f \in Range(p.frames) : x.dg.n = f.n
<1> DEFINE q == Steps(p)[Admitted(p)]
           s == q.scheduled
           e == [t \in 1..Len(s) |-> s[t].dg]
<1>1. Plan(p).scheduled = s
  BY PlanIsLastStep
<1>2. /\ s \in Seq(Slots(FramesOf(p))) /\ Cardinality(ScheduledIn(q)) = Len(s)
  BY PlanIsConsidered DEF Considered, PlanType
<1> HIDE DEF q
<1>3. Len(s) \in Nat /\ ScheduledIn(q) = {s[t].dg : t \in 1..Len(s)}
  BY <1>2 DEF ScheduledIn
<1> HIDE DEF s
<1>4. e \in Surjection(1..Len(s), ScheduledIn(q))
  BY <1>3 DEF Surjection
<1>5. e \in Injection(1..Len(s), ScheduledIn(q))
  <2>1. IsFiniteSet(1..Len(s)) /\ Cardinality(1..Len(s)) = Len(s)
    BY <1>3, FS_Interval
  <2> HIDE DEF e
  <2> QED
    BY <1>2, <1>4, <2>1, FS_SurjSameCardinalityImpliesInj
<1>6. \A t, u \in 1..Len(s) : s[t].dg = s[u].dg => t = u
  BY <1>5 DEF Injection, IsInjective
<1>7. \A x : x \in Range(s) <=> \E t \in 1..Len(s) : s[t] = x
  BY <1>2, RangeIsFinite
<1>8. \A x, y \in Range(s) : x.dg = y.dg => x = y
  BY <1>6, <1>7
<1>9. \A x \in Range(s) : \E f \in Range(p.frames) : x.dg.n = f.n
  <2>1. FramesOf(p) \subseteq Range(p.frames)
    BY ScannedFrames DEF FramesOf, Given
  <2>2. \A x \in Range(s) : x \in Slots(FramesOf(p))
    BY <1>2, RangeIsFinite
  <2> QED
    BY <2>1, <2>2 DEF Slots
<1> QED
  BY <1>1, <1>8, <1>9

(* A pass puts new datagrams in flight, each once.                          *)
LEMMA PlanPassKeeps ==
  ASSUME SenderInv,
         NEW batch \in Batches, NEW delay \in QueueDelays, NEW limit \in InFlightLimits,
         PlanPass(batch, delay, limit)
  PROVE  ReceivedApart' /\ RecoveriesFit' /\ RecoveryIsInTime' /\ RecoveryCovers'
<1> DEFINE p == pass'.given
           s == Plan(p).scheduled
<1>1. PassInv /\ ReceivedApart /\ RecoveriesFit /\ FramesAreNumbered /\ FlightIsTimely
  BY DEF SenderInv, PassInv
<1>2. /\ FramesAreNumbered' /\ PassIsOfFrames'
      /\ Len(frames') >= Len(frames) /\ \A n \in 1..Len(frames) : frames'[n] = frames[n]
      /\ \A f \in Range(p.frames) : f.n \notin 1..Len(frames)
  BY <1>1, PlanPassFrames
<1>3. /\ now' = now /\ received' = received /\ recovery' = recovery /\ done' = done
      /\ shortfalls' = shortfalls
  BY DEF PlanPass
<1>4. pass'.plan = Plan(p) /\ IsPassOf(p, frames')
  BY <1>2 DEF PassIsOfFrames, PassOf
<1>5. p \in Given /\ Distinct(Range(p.frames))
  BY <1>4, PassIsDistinct DEF IsPassOf
<1>6. flight' = flight \cup Range(s)
  BY <1>4 DEF PlanPass
<1>7. /\ \A x, y \in Range(s) : x.dg = y.dg => x = y
      /\ \A x \in Range(s) : \E f \in Range(p.frames) : x.dg.n = f.n
  BY <1>5, PlanIsApart
<1>8. \A x \in Range(s) : x.dg.n \notin 1..Len(frames)
  BY <1>2, <1>7
<1> HIDE DEF s, p
<1>9. \A x \in flight : x.dg.n \in 1..Len(frames)
  BY <1>1 DEF FlightIsTimely, IsTimely
<1>10. /\ IsFiniteSet(received) /\ \A dg \in received : dg.n \in 1..Len(frames)
       /\ \A x \in flight : x.dg \notin received /\ \A y \in flight : x.dg = y.dg => x = y
  BY <1>1 DEF ReceivedApart
<1>11. \A x \in flight' : x.dg \notin received
  BY <1>6, <1>8, <1>10
<1>12. \A x, y \in flight' : x.dg = y.dg => x = y
  BY <1>6, <1>7, <1>8, <1>9, <1>10
<1>13. Len(frames) \in Nat /\ Len(frames') \in Nat
  BY <1>1, <1>2 DEF FramesAreNumbered
<1>14. \A n \in 1..Len(frames) : n \in 1..Len(frames')
  BY <1>2, <1>13
<1>15. ReceivedApart'
  BY <1>3, <1>10, <1>11, <1>12, <1>14 DEF ReceivedApart
<1>16. \A r \in recovery' : now' < r.decision.at + Margin
  BY <1>1, <1>3 DEF RecoveriesFit, IsRecovery
<1>17. RecoveriesFit'
  BY <1>1, <1>2, <1>3, <1>10, <1>13, <1>16, RecoveriesStay
<1> QED
  BY <1>3, <1>15, <1>17 DEF SenderInv, RecoveryIsInTime, RecoveryCovers

(* Every step preserves the invariant of the sender.                        *)
LEMMA NextSender == SenderInv /\ [Next]_vars => SenderInv'
<1> SUFFICES ASSUME SenderInv, [Next]_vars PROVE SenderInv'
  OBVIOUS
<1>1. PassInv'
  BY NextPass DEF SenderInv
<1>2. CASE \E batch \in Batches, delay \in QueueDelays, limit \in InFlightLimits : PlanPass(batch, delay, limit)
  BY <1>1, <1>2, PlanPassKeeps DEF SenderInv
<1>3. CASE \E x \in flight : Arrive(x)
  BY <1>1, <1>3, ArriveKeeps DEF SenderInv
<1>4. CASE (\E x \in flight : Lose(x)) \/ UNCHANGED vars
  BY <1>1, <1>4, LoseKeeps DEF SenderInv
<1>5. CASE \E id \in Blocks, path \in Paths, fetch \in Fetches : Recover(id, path, fetch)
  BY <1>1, <1>5, RecoverKeeps DEF SenderInv
<1>6. CASE \E r \in recovery : RecoveryArrives(r)
  BY <1>1, <1>6, RecoveryArrivesKeeps DEF SenderInv
<1>7. CASE Tick
  BY <1>1, <1>7, TickKeeps DEF SenderInv
<1> QED
  BY <1>2, <1>3, <1>4, <1>5, <1>6, <1>7 DEF Next

(* What came, what is in flight and the recoveries under way fit together   *)
(* in every reachable state.                                                *)
THEOREM RecoveriesAreSound == Spec => []SenderInv
<1>1. Init => SenderInv
  BY InitSender
<1>2. SenderInv /\ [Next]_vars => SenderInv'
  BY NextSender
<1> QED
  BY <1>1, <1>2, PTL DEF Spec

(* RecoveryIsInTime: decide_media_recovery leaves deadline_safety_margin_us *)
(* and at least one unit between the estimate and the deadline.             *)
THEOREM RecoveryMakesTheDeadline == Spec => []RecoveryIsInTime
<1>1. SenderInv => RecoveryIsInTime
  BY DEF SenderInv
<1> QED
  BY <1>1, RecoveriesAreSound, PTL

(* RecoveryCovers: the repair asked for is never less than the deficit that *)
(* uncovered_source_symbols computes, and what has come never leaves.       *)
THEOREM RecoveryMakesUpForTheDeficit == Spec => []RecoveryCovers
<1>1. SenderInv => RecoveryCovers
  BY DEF SenderInv
<1> QED
  BY <1>1, RecoveriesAreSound, PTL

-----------------------------------------------------------------------------
(* What the wire completes.                                                 *)

(* A datagram of one of the frames given.                                   *)
ComesOf(dg, fs) == dg.n \in 1..Len(fs) /\ dg \in AllOf(fs[dg.n])

BlocksIn(fs) == {id \in [n : Nat, block : Nat] : id.n \in 1..Len(fs) /\ id.block \in 1..Len(fs[id.n].blocks)}

HasCome(id) == Cardinality(OfBlock(received, id)) >= SourceCount(id)

(* What comes is of a block, and the wire completes a block exactly when as *)
(* many of its datagrams have come as it has source symbols.                *)
WireInv ==
  /\ \A dg \in received : ComesOf(dg, frames)
  /\ \A x \in flight : ComesOf(x.dg, frames)
  /\ \A d \in done : /\ d.via \in {"wire", "recovery"}
                     /\ d.via = "wire" => d.id \in BlocksIn(frames) /\ HasCome(d.id)
  /\ \A id \in BlocksIn(frames) : HasCome(id) => IsDone(id)

(* A block has a source symbol.                                             *)
LEMMA BlocksHaveSource ==
  ASSUME NEW fs \in Seq(Frames), NEW id \in BlocksIn(fs)
  PROVE  fs[id.n] \in Frames /\ fs[id.n].blocks[id.block] \in BlockCounts
<1>1. id.n \in 1..Len(fs) /\ id.block \in 1..Len(fs[id.n].blocks)
  BY DEF BlocksIn
<1>2. fs[id.n] \in Frames
  BY <1>1
<1>3. fs[id.n].blocks \in Seq(BlockCounts)
  BY <1>2 DEF Frames
<1> QED
  BY <1>1, <1>2, <1>3

(* What a pass schedules is of its frames.                                  *)
LEMMA PlanIsOfFrames ==
  ASSUME NEW p, NEW fs, IsPassOf(p, fs)
  PROVE  \A x \in Range(Plan(p).scheduled) : ComesOf(x.dg, fs)
<1>1. p \in Given /\ Distinct(Range(p.frames))
  BY PassIsDistinct DEF IsPassOf
<1> DEFINE q == Steps(p)[Admitted(p)]
           m == Admitted(p)
<1>2. Plan(p).scheduled = q.scheduled
  BY PlanIsLastStep
<1>3. /\ q.scheduled \in Seq(Slots(FramesOf(p))) /\ Settled(q) \subseteq FirstOf(p, m)
      /\ m \in 0..Len(Queue(p))
  BY <1>1, PlanIsConsidered DEF Considered, PlanType
<1>4. Queue(p) \in Seq(CandidatesOf(FramesOf(p)))
  BY <1>1, QueueInOrder
<1>5. FramesOf(p) \subseteq Range(p.frames) /\ FramesOf(p) \in SUBSET Frames
  BY <1>1, ScannedFrames DEF FramesOf, Given
<1> HIDE DEF q, m
<1> SUFFICES ASSUME NEW x \in Range(q.scheduled) PROVE ComesOf(x.dg, fs)
  BY <1>2
<1>6. PICK t \in 1..Len(q.scheduled) : q.scheduled[t] = x
  BY <1>3, RangeIsFinite
<1>7. x.dg \in FirstOf(p, m)
  BY <1>3, <1>6 DEF Settled, ScheduledIn
<1>8. PICK j \in 1..m : Queue(p)[j].dg = x.dg
  BY <1>7 DEF FirstOf
<1>9. PICK c \in CandidatesOf(FramesOf(p)) : c.dg = x.dg
  <2>1. j \in 1..Len(Queue(p))
    BY <1>3
  <2>2. Queue(p)[j] \in CandidatesOf(FramesOf(p))
    BY <1>4, <2>1
  <2> QED
    BY <1>8, <2>2
<1>10. c.dg \in OfRole(c.frame, c.role) /\ c.frame \in FramesOf(p) /\ c.role \in Roles
  BY <1>5, CandidateIsOfRole
<1>11. c.frame \in Frames /\ c.frame \in Range(p.frames)
  BY <1>5, <1>10
<1>12. c.dg.n = c.frame.n /\ c.dg \in AllOf(c.frame)
  BY <1>10, <1>11, RoleOfDatagram, AllOfFrame
<1>13. c.frame.n \in 1..Len(fs) /\ fs[c.frame.n] = c.frame
  BY <1>11 DEF IsPassOf
<1> QED
  BY <1>9, <1>12, <1>13 DEF ComesOf

(* What has come for a block is not lost.                                   *)
LEMMA ComeStays ==
  ASSUME IsFiniteSet(received'), received \subseteq received', NEW id,
         SourceCount(id) \in Nat, SourceCount(id)' = SourceCount(id), HasCome(id)
  PROVE  HasCome(id)'
<1>1. OfBlock(received, id) \subseteq OfBlock(received', id) /\ OfBlock(received', id) \subseteq received'
  BY DEF OfBlock
<1>2. IsFiniteSet(OfBlock(received', id))
  BY <1>1, FS_Subset
<1>3. /\ Cardinality(OfBlock(received, id)) \in Nat /\ Cardinality(OfBlock(received', id)) \in Nat
      /\ Cardinality(OfBlock(received, id)) <= Cardinality(OfBlock(received', id))
  BY <1>1, <1>2, FS_Subset, FS_CardinalityType
<1>4. Cardinality(OfBlock(received', id)) >= SourceCount(id)
  BY <1>3 DEF HasCome
<1> QED
  BY <1>4 DEF HasCome

(* Nothing was sent yet.                                                    *)
LEMMA InitWire == Init => WireInv
BY DEF Init, WireInv, BlocksIn

(* A pass gives new blocks, of which nothing has come.                      *)
LEMMA PlanPassWire ==
  ASSUME SenderInv, WireInv,
         NEW batch \in Batches, NEW delay \in QueueDelays, NEW limit \in InFlightLimits,
         PlanPass(batch, delay, limit)
  PROVE  WireInv'
<1> DEFINE p == pass'.given
<1>1. PassInv /\ ReceivedApart /\ FramesAreNumbered /\ FlightIsTimely
  BY DEF SenderInv, PassInv
<1>2. /\ FramesAreNumbered' /\ PassIsOfFrames'
      /\ Len(frames') >= Len(frames) /\ \A n \in 1..Len(frames) : frames'[n] = frames[n]
  BY <1>1, PlanPassFrames
<1>3. received' = received /\ done' = done /\ flight' = flight \cup Range(pass'.plan.scheduled)
  BY DEF PlanPass
<1>4. pass'.plan = Plan(p) /\ IsPassOf(p, frames')
  BY <1>2 DEF PassIsOfFrames, PassOf
<1> HIDE DEF p
<1>5. \A x \in Range(pass'.plan.scheduled) : ComesOf(x.dg, frames')
  BY <1>4, PlanIsOfFrames
<1>6. /\ Len(frames) \in Nat /\ Len(frames') \in Nat /\ frames \in Seq(Frames) /\ frames' \in Seq(Frames)
      /\ 1..Len(frames) \subseteq 1..Len(frames')
  BY <1>1, <1>2 DEF FramesAreNumbered
<1>7. \A dg : ComesOf(dg, frames) => ComesOf(dg, frames')
  BY <1>2, <1>6 DEF ComesOf
<1>8. ASSUME NEW id \in BlocksIn(frames)
      PROVE  id \in BlocksIn(frames') /\ SourceCount(id)' = SourceCount(id) /\ SourceCount(id) \in Nat
  <2>1. id.n \in 1..Len(frames) /\ frames'[id.n] = frames[id.n]
    BY <1>2 DEF BlocksIn
  <2>2. id \in BlocksIn(frames')
    BY <1>6, <2>1 DEF BlocksIn
  <2>3. frames[id.n].blocks[id.block] \in BlockCounts
    BY <1>6, BlocksHaveSource
  <2> QED
    BY <2>1, <2>2, <2>3 DEF SourceCount, BlockCounts
<1>9. IsFiniteSet(received)
  BY <1>1 DEF ReceivedApart
<1>10. \A id \in BlocksIn(frames) : HasCome(id)' <=> HasCome(id)
  BY <1>3, <1>8 DEF HasCome
<1>11. \A id \in BlocksIn(frames') : HasCome(id)' => id \in BlocksIn(frames)
  <2> SUFFICES ASSUME NEW id \in BlocksIn(frames'), HasCome(id)', id \notin BlocksIn(frames) PROVE FALSE
    OBVIOUS
  <2>1. id.n \notin 1..Len(frames)
    BY <1>2 DEF BlocksIn
  <2>2. OfBlock(received, id) = {}
    BY <1>1, <2>1 DEF OfBlock, ReceivedApart
  <2>3. frames'[id.n].blocks[id.block] \in BlockCounts
    BY <1>6, BlocksHaveSource
  <2>4. SourceCount(id)' \in Nat \ {0}
    BY <2>3 DEF SourceCount, BlockCounts
  <2>5. Cardinality(OfBlock(received', id)) = 0
    BY <1>3, <2>2, FS_EmptySet
  <2> QED
    BY <2>4, <2>5 DEF HasCome
<1>12. \A id : IsDone(id)' <=> IsDone(id)
  BY <1>3 DEF IsDone
<1>13. \A dg \in received' : ComesOf(dg, frames')
  BY <1>3, <1>7 DEF WireInv
<1>14. \A x \in flight' : ComesOf(x.dg, frames')
  BY <1>3, <1>5, <1>7 DEF WireInv
<1>15. \A d \in done' : /\ d.via \in {"wire", "recovery"}
                        /\ d.via = "wire" => d.id \in BlocksIn(frames') /\ HasCome(d.id)'
  BY <1>3, <1>8, <1>10 DEF WireInv
<1>16. \A id \in BlocksIn(frames') : HasCome(id)' => IsDone(id)'
  BY <1>10, <1>11, <1>12 DEF WireInv
<1> QED
  BY <1>13, <1>14, <1>15, <1>16 DEF WireInv

(* A datagram that comes counts for its own block only.                     *)
LEMMA ArriveWire ==
  ASSUME SenderInv, WireInv, NEW x \in flight, Arrive(x)
  PROVE  WireInv'
<1> DEFINE own == [n |-> x.dg.n, block |-> x.dg.block]
<1>1. /\ frames' = frames /\ flight' = flight \ {x} /\ received' = received \cup {x.dg}
      /\ done' = IF HasCome(own)' THEN Completes(own, "wire") ELSE done
  BY DEF Arrive, HasCome, SourceCount
<1>2. PassInv /\ ReceivedApart /\ FramesAreNumbered
  BY DEF SenderInv, PassInv
<1>3. IsFiniteSet(received') /\ received \subseteq received' /\ frames \in Seq(Frames)
  BY <1>1, <1>2, FS_AddElement DEF ReceivedApart, FramesAreNumbered
<1>4. ComesOf(x.dg, frames)
  BY DEF WireInv
<1>5. own \in BlocksIn(frames)
  <2>1. x.dg.n \in 1..Len(frames) /\ x.dg \in AllOf(frames[x.dg.n]) /\ frames[x.dg.n] \in Frames
    BY <1>3, <1>4 DEF ComesOf
  <2>2. PICK role \in Roles : x.dg \in OfRole(frames[x.dg.n], role)
    BY <2>1, AllOfFrame
  <2>3. x.dg.block \in 1..Len(frames[x.dg.n].blocks)
    BY <2>1, <2>2, RoleOfDatagram
  <2>4. x.dg.n \in Nat /\ x.dg.block \in Nat
    BY <2>1, <2>3
  <2> QED
    BY <2>1, <2>3, <2>4 DEF BlocksIn
<1>6. \A id : SourceCount(id)' = SourceCount(id)
  BY <1>1 DEF SourceCount
<1>7. \A id \in BlocksIn(frames) : SourceCount(id) \in Nat
  BY <1>3, BlocksHaveSource DEF SourceCount, BlockCounts
<1>8. \A id \in BlocksIn(frames) : HasCome(id) => HasCome(id)'
  BY <1>3, <1>6, <1>7, ComeStays
<1>9. \A id \in BlocksIn(frames) : HasCome(id)' => HasCome(id) \/ id = own
  <2> SUFFICES ASSUME NEW id \in BlocksIn(frames), id # own, HasCome(id)' PROVE HasCome(id)
    OBVIOUS
  <2>1. ~(x.dg.n = id.n /\ x.dg.block = id.block)
    BY DEF BlocksIn
  <2>2. OfBlock(received', id) = OfBlock(received, id)
    BY <1>1, <2>1 DEF OfBlock
  <2> QED
    BY <1>6, <2>2 DEF HasCome
<1> DEFINE new == [id |-> own, via |-> "wire", outcome |-> ObserveCompletion(frames[own.n].deadline, now)]
<1>10. /\ done \subseteq done' /\ done' \subseteq done \cup {new}
       /\ HasCome(own)' => \E d \in done' : d.id = own
       /\ new \in done' => new \in done \/ HasCome(own)'
  BY <1>1 DEF Completes, IsDone
<1>11. new.id = own /\ new.via = "wire"
  OBVIOUS
<1> HIDE DEF new, own
<1>12. \A id : IsDone(id) => IsDone(id)'
  BY <1>10 DEF IsDone
<1>13. HasCome(own)' => IsDone(own)'
  BY <1>10 DEF IsDone
<1>14. \A id \in BlocksIn(frames') : HasCome(id)' => IsDone(id)'
  BY <1>1, <1>9, <1>12, <1>13 DEF WireInv
<1>15. \A d \in done' : /\ d.via \in {"wire", "recovery"}
                        /\ d.via = "wire" => d.id \in BlocksIn(frames') /\ HasCome(d.id)'
  <2> TAKE d \in done'
  <2>1. CASE d \in done
    BY <1>1, <1>8, <2>1 DEF WireInv
  <2>2. CASE d = new /\ HasCome(own)'
    BY <1>1, <1>5, <1>11, <2>2
  <2> QED
    BY <1>10, <2>1, <2>2
<1>16. /\ \A dg \in received' : ComesOf(dg, frames')
       /\ \A y \in flight' : ComesOf(y.dg, frames')
  BY <1>1, <1>4 DEF WireInv
<1> QED
  BY <1>14, <1>15, <1>16 DEF WireInv

(* The other steps bring nothing of the wire.                               *)
LEMMA OthersWire ==
  ASSUME WireInv, frames' = frames, flight' \subseteq flight, received' = received,
         done \subseteq done', \A d \in done' : d \in done \/ d.via = "recovery"
  PROVE  WireInv'
<1>1. \A id : HasCome(id)' <=> HasCome(id)
  BY DEF HasCome, SourceCount
<1>2. \A id : IsDone(id) => IsDone(id)'
  BY DEF IsDone
<1> QED
  BY <1>1, <1>2 DEF WireInv

(* Every step preserves what the wire completes.                            *)
LEMMA NextWire == SenderInv /\ WireInv /\ [Next]_vars => WireInv'
<1> SUFFICES ASSUME SenderInv, WireInv, [Next]_vars PROVE WireInv'
  OBVIOUS
<1>1. CASE \E batch \in Batches, delay \in QueueDelays, limit \in InFlightLimits : PlanPass(batch, delay, limit)
  BY <1>1, PlanPassWire
<1>2. CASE \E x \in flight : Arrive(x)
  BY <1>2, ArriveWire
<1>3. CASE \/ \E x \in flight : Lose(x)
           \/ UNCHANGED vars
           \/ \E id \in Blocks, path \in Paths, fetch \in Fetches : Recover(id, path, fetch)
           \/ Tick
  <2>1. frames' = frames /\ flight' \subseteq flight /\ received' = received /\ done' = done
    BY <1>3 DEF Lose, Recover, Tick, vars
  <2> QED
    BY <2>1, OthersWire
<1>4. CASE \E r \in recovery : RecoveryArrives(r)
  <2>1. PICK r \in recovery : RecoveryArrives(r)
    BY <1>4
  <2>2. /\ frames' = frames /\ flight' = flight /\ received' = received
        /\ done' = done \/ done' = Completes(r.id, "recovery")
    BY <2>1 DEF RecoveryArrives
  <2>3. done \subseteq done' /\ \A d \in done' : d \in done \/ d.via = "recovery"
    BY <2>2 DEF Completes
  <2> QED
    BY <2>2, <2>3, OthersWire
<1> QED
  BY <1>1, <1>2, <1>3, <1>4 DEF Next

(* The wire completes a block exactly when enough of it has come.           *)
THEOREM WireIsSound == Spec => []WireInv
<1>1. Init => WireInv
  BY InitWire
<1>2. SenderInv /\ WireInv /\ [Next]_vars => WireInv'
  BY NextWire
<1> QED
  BY <1>1, <1>2, RecoveriesAreSound, PTL DEF Spec

-----------------------------------------------------------------------------
(* The loss outcome of a frame.                                             *)

SourcesOf(f, b) == Range(DatagramsOf(f, b, "source"))
RepairsOf(f, b) == Range(DatagramsOf(f, b, "repair"))
AllSources(f) == UNION {SourcesOf(f, b) : b \in 1..Len(f.blocks)}
AllRepairs(f) == UNION {RepairsOf(f, b) : b \in 1..Len(f.blocks)}

(* The datagrams of a block and a role.                                     *)
LEMMA RoleOfBlock ==
  ASSUME NEW f \in Frames, NEW b \in 1..Len(f.blocks), NEW role \in Roles
  PROVE  LET dgs == Range(DatagramsOf(f, b, role))
         IN /\ IsFiniteSet(dgs) /\ Cardinality(dgs) = f.blocks[b][role] /\ f.blocks[b][role] \in Nat
            /\ \A x \in dgs : x.n = f.n /\ x.block = b /\ x \in OfRole(f, role)
<1> DEFINE v == [frame |-> f, role |-> role, block |-> b]
           s == DatagramsOf(f, b, role)
<1>1. v \in VisitsOf({f}) /\ v.frame = f /\ v.role = role /\ v.block = b
  BY DEF VisitsOf, Frames
<1> HIDE DEF v
<1>2. /\ Count(v) \in Nat /\ First(v) \in Nat
      /\ s = [j \in 1..Count(v) |-> DatagramOf(v, j)]
      /\ \A j \in 1..Count(v) : DatagramOf(v, j) \in Datagrams
  BY <1>1, DatagramsOfVisit
<1> HIDE DEF s
<1>3. s \in Seq(Datagrams) /\ Len(s) = Count(v) /\ \A j \in 1..Count(v) : s[j] = DatagramOf(v, j)
  BY <1>2
<1>4. \A i, j \in 1..Len(s) : s[i] = s[j] => i = j
  BY <1>2, <1>3 DEF DatagramOf
<1>5. /\ Range(s) = {s[i] : i \in 1..Len(s)} /\ IsFiniteSet(Range(s)) /\ Cardinality(Range(s)) = Len(s)
  BY <1>3, <1>4, RangeIs
<1>6. Count(v) = f.blocks[b][role]
  BY <1>1 DEF Count
<1>7. \A x \in Range(s) : x.n = f.n /\ x.block = b
  BY <1>1, <1>3, <1>5 DEF DatagramOf
<1>8. Range(s) \subseteq OfRole(f, role)
  BY DEF OfRole, s
<1> QED
  BY <1>2, <1>3, <1>5, <1>6, <1>7, <1>8 DEF s

(* The datagrams of a frame, by their blocks.                               *)
LEMMA FrameIsItsBlocks ==
  ASSUME NEW f \in Frames
  PROVE  /\ AllOf(f) = AllSources(f) \cup AllRepairs(f)
         /\ \A b \in 1..Len(f.blocks) : \A x \in SourcesOf(f, b) :
              x.n = f.n /\ x.block = b /\ x.esi < f.blocks[b].source
         /\ \A b \in 1..Len(f.blocks) : \A x \in RepairsOf(f, b) :
              x.n = f.n /\ x.block = b /\ ~(x.esi < f.blocks[b].source)
<1>1. DOMAIN f.blocks = 1..Len(f.blocks) /\ "source" \in Roles /\ "repair" \in Roles
  BY DEF Frames, Roles
<1>2. AllOf(f) = AllSources(f) \cup AllRepairs(f)
  <2>1. OfRole(f, "source") = AllSources(f) /\ OfRole(f, "repair") = AllRepairs(f)
    BY DEF OfRole, SourcesOf, RepairsOf, AllSources, AllRepairs
  <2>2. \A x : x \in AllOf(f) <=> x \in OfRole(f, "source") \/ x \in OfRole(f, "repair")
    BY AllOfFrame DEF Roles
  <2> QED
    BY <2>1, <2>2
<1>3. ASSUME NEW b \in 1..Len(f.blocks), NEW x \in SourcesOf(f, b)
      PROVE  x.n = f.n /\ x.block = b /\ x.esi < f.blocks[b].source
  <2>1. x.n = f.n /\ x.block = b /\ x \in OfRole(f, "source")
    BY <1>1, <1>3, RoleOfBlock DEF SourcesOf
  <2> QED
    BY <1>1, <2>1, RoleOfDatagram
<1>4. ASSUME NEW b \in 1..Len(f.blocks), NEW x \in RepairsOf(f, b)
      PROVE  x.n = f.n /\ x.block = b /\ ~(x.esi < f.blocks[b].source)
  <2>1. x.n = f.n /\ x.block = b /\ x \in OfRole(f, "repair")
    BY <1>1, <1>4, RoleOfBlock DEF RepairsOf
  <2>2. x.esi < f.blocks[x.block].source <=> "repair" = "source"
    BY <1>1, <2>1, RoleOfDatagram
  <2> QED
    BY <2>1, <2>2
<1> QED
  BY <1>2, <1>3, <1>4

(* The outcome of one block: a symbol lost needs a repair symbol that came, *)
(* so the block fails exactly when fewer than its source symbols came.      *)
LEMMA OutcomeOfBlock ==
  ASSUME NEW f \in Frames, NEW b \in 1..Len(f.blocks), NEW rec
  PROVE  LET lost == AllOf(f) \ rec
             came == (SourcesOf(f, b) \cup RepairsOf(f, b)) \cap rec
         IN /\ LostSource(f, b, lost) = Cardinality(SourcesOf(f, b) \ rec) /\ LostSource(f, b, lost) \in Nat
            /\ LostRepair(f, b, lost) = Cardinality(RepairsOf(f, b) \ rec) /\ LostRepair(f, b, lost) \in Nat
            /\ AvailableRepair(f, b, lost) = Cardinality(RepairsOf(f, b) \cap rec)
            /\ AvailableRepair(f, b, lost) \in Nat
            /\ LostSource(f, b, lost) > AvailableRepair(f, b, lost)
                 <=> ~(Cardinality(came) >= f.blocks[b].source)
<1> DEFINE lost == AllOf(f) \ rec
           came == (SourcesOf(f, b) \cup RepairsOf(f, b)) \cap rec
           S == SourcesOf(f, b)
           R == RepairsOf(f, b)
<1>1. /\ IsFiniteSet(S) /\ Cardinality(S) = f.blocks[b].source /\ f.blocks[b].source \in Nat
      /\ IsFiniteSet(R) /\ Cardinality(R) = f.blocks[b].repair /\ f.blocks[b].repair \in Nat
  BY RoleOfBlock DEF SourcesOf, RepairsOf, Roles
<1>2. S \subseteq AllOf(f) /\ R \subseteq AllOf(f) /\ S \cap R = {}
  <2>1. /\ AllOf(f) = AllSources(f) \cup AllRepairs(f)
        /\ \A x \in S : x.esi < f.blocks[b].source
        /\ \A x \in R : ~(x.esi < f.blocks[b].source)
    BY FrameIsItsBlocks
  <2>2. S \subseteq AllOf(f) /\ R \subseteq AllOf(f)
    <3>1. S \subseteq AllSources(f) /\ R \subseteq AllRepairs(f)
      BY DEF AllSources, AllRepairs
    <3> QED
      BY <2>1, <3>1
  <2> HIDE DEF S, R
  <2> QED
    BY <2>1, <2>2
<1>3. S \cap lost = S \ rec /\ R \cap lost = R \ rec
  BY <1>2
<1>4. LostSource(f, b, lost) = Cardinality(S \ rec) /\ LostRepair(f, b, lost) = Cardinality(R \ rec)
  BY <1>3 DEF LostSource, LostRepair, SourcesOf, RepairsOf
<1>5. AvailableRepair(f, b, lost) = f.blocks[b].repair - Cardinality(R \ rec)
  BY <1>4 DEF AvailableRepair
<1> HIDE DEF S, R, lost
<1>6. /\ Cardinality(S \ rec) \in Nat /\ Cardinality(S \cap rec) \in Nat
      /\ Cardinality(S \ rec) + Cardinality(S \cap rec) = Cardinality(S) /\ IsFiniteSet(S \cap rec)
  BY <1>1, PartSizes
<1>7. /\ Cardinality(R \ rec) \in Nat /\ Cardinality(R \cap rec) \in Nat
      /\ Cardinality(R \ rec) + Cardinality(R \cap rec) = Cardinality(R) /\ IsFiniteSet(R \cap rec)
  BY <1>1, PartSizes
<1>8. Cardinality((S \cap rec) \cup (R \cap rec)) = Cardinality(S \cap rec) + Cardinality(R \cap rec)
  <2>1. (S \cap rec) \cap (R \cap rec) = {}
    BY <1>2
  <2> QED
    BY <1>6, <1>7, <2>1, SizeOfBoth
<1>9. came = (S \cap rec) \cup (R \cap rec)
  BY DEF S, R
<1>10. AvailableRepair(f, b, lost) = Cardinality(R \cap rec)
  BY <1>1, <1>5, <1>7
<1>11. Cardinality(S \ rec) > Cardinality(R \cap rec)
         <=> ~(Cardinality(S \cap rec) + Cardinality(R \cap rec) >= f.blocks[b].source)
  BY <1>1, <1>6, <1>7
<1> HIDE DEF came
<1> QED
  BY <1>4, <1>6, <1>7, <1>8, <1>9, <1>10, <1>11 DEF S, R, lost, came

(* Datagrams of the blocks of a frame, counted block by block.              *)
LEMMA BlockSizes ==
  ASSUME NEW f \in Frames, NEW s,
         \A b \in 1..Len(f.blocks) : IsFiniteSet(s[b]) /\ \A x \in s[b] : x.block = b
  PROVE  LET all == UNION {s[b] : b \in 1..Len(f.blocks)}
         IN IsFiniteSet(all) /\ Cardinality(all) = SumOf([b \in 1..Len(f.blocks) |-> Cardinality(s[b])])
<1>1. Len(f.blocks) \in Nat
  BY DEF Frames
<1>2. \A b \in 1..Len(f.blocks) : IsFiniteSet(s[b])
  OBVIOUS
<1>3. \A b, c \in 1..Len(f.blocks) : b # c => s[b] \cap s[c] = {}
  OBVIOUS
<1> QED
  BY <1>1, <1>2, <1>3, SumOfSizes

(* The sums of a loss outcome are numbers of datagrams.                     *)
LEMMA SumsOfBlocks ==
  ASSUME NEW f \in Frames, NEW rec
  PROVE  LET blocks == 1..Len(f.blocks)
             lost == AllOf(f) \ rec
         IN /\ IsFiniteSet(AllOf(f))
            /\ SumOf([b \in blocks |-> LostSource(f, b, lost)]) = Cardinality(AllSources(f) \ rec)
            /\ SumOf([b \in blocks |-> LostRepair(f, b, lost)]) = Cardinality(AllRepairs(f) \ rec)
            /\ SumOf([b \in blocks |-> AvailableRepair(f, b, lost)]) = Cardinality(AllRepairs(f) \cap rec)
            /\ AllSources(f) \cap AllRepairs(f) = {}
<1> DEFINE blocks == 1..Len(f.blocks)
           lost == AllOf(f) \ rec
<1>1. \A b \in blocks : /\ IsFiniteSet(SourcesOf(f, b)) /\ IsFiniteSet(RepairsOf(f, b))
                        /\ \A x \in SourcesOf(f, b) \cup RepairsOf(f, b) : x.block = b
  BY RoleOfBlock DEF SourcesOf, RepairsOf, Roles
<1>2. \A b \in blocks : /\ LostSource(f, b, lost) = Cardinality(SourcesOf(f, b) \ rec)
                        /\ LostRepair(f, b, lost) = Cardinality(RepairsOf(f, b) \ rec)
                        /\ AvailableRepair(f, b, lost) = Cardinality(RepairsOf(f, b) \cap rec)
  <2> TAKE b \in blocks
  <2>1. LostSource(f, b, AllOf(f) \ rec) = Cardinality(SourcesOf(f, b) \ rec)
    BY OutcomeOfBlock
  <2>2. LostRepair(f, b, AllOf(f) \ rec) = Cardinality(RepairsOf(f, b) \ rec)
    BY OutcomeOfBlock
  <2>3. AvailableRepair(f, b, AllOf(f) \ rec) = Cardinality(RepairsOf(f, b) \cap rec)
    BY OutcomeOfBlock
  <2> QED
    BY <2>1, <2>2, <2>3
<1>3. SumOf([b \in blocks |-> LostSource(f, b, lost)]) = Cardinality(AllSources(f) \ rec)
  <2> DEFINE s == [b \in blocks |-> SourcesOf(f, b) \ rec]
  <2>1. \A b \in blocks : s[b] = SourcesOf(f, b) \ rec
    OBVIOUS
  <2>2. UNION {s[b] : b \in blocks} = AllSources(f) \ rec
    BY <2>1 DEF AllSources
  <2> HIDE DEF s, lost
  <2>3. ASSUME NEW b \in blocks PROVE IsFiniteSet(s[b]) /\ \A x \in s[b] : x.block = b
    <3>1. s[b] = SourcesOf(f, b) \ rec /\ IsFiniteSet(SourcesOf(f, b))
      BY <1>1, <2>1
    <3>2. IsFiniteSet(s[b])
      BY <3>1, FS_Difference
    <3> QED
      BY <1>1, <3>1, <3>2
  <2>4. Cardinality(UNION {s[b] : b \in blocks}) = SumOf([b \in blocks |-> Cardinality(s[b])])
    BY <2>3, BlockSizes
  <2>5. [b \in blocks |-> LostSource(f, b, lost)] = [b \in blocks |-> Cardinality(s[b])]
    BY <1>2, <2>1
  <2> QED
    BY <2>2, <2>4, <2>5
<1>4. SumOf([b \in blocks |-> LostRepair(f, b, lost)]) = Cardinality(AllRepairs(f) \ rec)
  <2> DEFINE s == [b \in blocks |-> RepairsOf(f, b) \ rec]
  <2>1. \A b \in blocks : s[b] = RepairsOf(f, b) \ rec
    OBVIOUS
  <2>2. UNION {s[b] : b \in blocks} = AllRepairs(f) \ rec
    BY <2>1 DEF AllRepairs
  <2> HIDE DEF s, lost
  <2>3. ASSUME NEW b \in blocks PROVE IsFiniteSet(s[b]) /\ \A x \in s[b] : x.block = b
    <3>1. s[b] = RepairsOf(f, b) \ rec /\ IsFiniteSet(RepairsOf(f, b))
      BY <1>1, <2>1
    <3>2. IsFiniteSet(s[b])
      BY <3>1, FS_Difference
    <3> QED
      BY <1>1, <3>1, <3>2
  <2>4. Cardinality(UNION {s[b] : b \in blocks}) = SumOf([b \in blocks |-> Cardinality(s[b])])
    BY <2>3, BlockSizes
  <2>5. [b \in blocks |-> LostRepair(f, b, lost)] = [b \in blocks |-> Cardinality(s[b])]
    BY <1>2, <2>1
  <2> QED
    BY <2>2, <2>4, <2>5
<1>5. SumOf([b \in blocks |-> AvailableRepair(f, b, lost)]) = Cardinality(AllRepairs(f) \cap rec)
  <2> DEFINE s == [b \in blocks |-> RepairsOf(f, b) \cap rec]
  <2>1. \A b \in blocks : s[b] = RepairsOf(f, b) \cap rec
    OBVIOUS
  <2>2. UNION {s[b] : b \in blocks} = AllRepairs(f) \cap rec
    BY <2>1 DEF AllRepairs
  <2> HIDE DEF s, lost
  <2>3. ASSUME NEW b \in blocks PROVE IsFiniteSet(s[b]) /\ \A x \in s[b] : x.block = b
    <3>1. s[b] = RepairsOf(f, b) \cap rec /\ IsFiniteSet(RepairsOf(f, b))
      BY <1>1, <2>1
    <3>2. IsFiniteSet(s[b])
      BY <3>1, FS_Intersection
    <3> QED
      BY <1>1, <3>1, <3>2
  <2>4. Cardinality(UNION {s[b] : b \in blocks}) = SumOf([b \in blocks |-> Cardinality(s[b])])
    BY <2>3, BlockSizes
  <2>5. [b \in blocks |-> AvailableRepair(f, b, lost)] = [b \in blocks |-> Cardinality(s[b])]
    BY <1>2, <2>1
  <2> QED
    BY <2>2, <2>4, <2>5
<1>6. IsFiniteSet(AllOf(f))
  <2> DEFINE s == [b \in blocks |-> SourcesOf(f, b) \cup RepairsOf(f, b)]
  <2>1. \A b \in blocks : s[b] = SourcesOf(f, b) \cup RepairsOf(f, b)
    OBVIOUS
  <2>2. AllOf(f) = UNION {s[b] : b \in blocks}
    <3>1. \A x : x \in AllOf(f) <=> x \in AllSources(f) \/ x \in AllRepairs(f)
      BY FrameIsItsBlocks
    <3>2. \A x : x \in AllSources(f) \/ x \in AllRepairs(f) <=> \E b \in blocks : x \in s[b]
      BY <2>1 DEF AllSources, AllRepairs
    <3> HIDE DEF s, blocks
    <3>3. \A x : x \in AllOf(f) <=> x \in UNION {s[b] : b \in blocks}
      BY <3>1, <3>2
    <3> QED
      BY <3>3
  <2> HIDE DEF s
  <2>3. ASSUME NEW b \in blocks PROVE IsFiniteSet(s[b]) /\ \A x \in s[b] : x.block = b
    <3>1. s[b] = SourcesOf(f, b) \cup RepairsOf(f, b)
      BY <2>1
    <3>2. IsFiniteSet(s[b])
      <4>1. IsFiniteSet(SourcesOf(f, b)) /\ IsFiniteSet(RepairsOf(f, b))
        BY <1>1
      <4> QED
        BY <3>1, <4>1, FS_Union
    <3> QED
      BY <1>1, <3>1, <3>2
  <2>4. \A b \in 1..Len(f.blocks) : IsFiniteSet(s[b]) /\ \A x \in s[b] : x.block = b
    BY <2>3
  <2>5. /\ IsFiniteSet(UNION {s[b] : b \in 1..Len(f.blocks)})
        /\ Cardinality(UNION {s[b] : b \in 1..Len(f.blocks)})
             = SumOf([b \in 1..Len(f.blocks) |-> Cardinality(s[b])])
    BY <2>4, BlockSizes
  <2> QED
    BY <2>2, <2>5
<1>7. AllSources(f) \cap AllRepairs(f) = {}
  <2> SUFFICES ASSUME NEW x \in AllSources(f), x \in AllRepairs(f) PROVE FALSE
    OBVIOUS
  <2>1. PICK b \in blocks : x \in SourcesOf(f, b)
    BY DEF AllSources
  <2>2. PICK c \in blocks : x \in RepairsOf(f, c)
    BY DEF AllRepairs
  <2>3. x.block = b /\ x.block = c /\ x.esi < f.blocks[b].source /\ ~(x.esi < f.blocks[c].source)
    BY <2>1, <2>2, FrameIsItsBlocks
  <2> QED
    BY <2>3
<1> HIDE DEF lost
<1> QED
  BY <1>3, <1>4, <1>5, <1>6, <1>7 DEF lost

(* The outcome of a frame of which rec has come.                            *)
LEMMA OutcomeOfFrame ==
  ASSUME NEW f \in Frames, NEW rec, NEW decoded \in BOOLEAN
  PROVE  LET o == LossOutcome(f, AllOf(f) \ rec, decoded)
             Came(b) == (SourcesOf(f, b) \cup RepairsOf(f, b)) \cap rec
         IN /\ \A b \in 1..Len(f.blocks) : b \in o.failed <=> ~(Cardinality(Came(b)) >= f.blocks[b].source)
            /\ o.failed \subseteq 1..Len(f.blocks)
            /\ o.lostSource + o.lostRepair + Cardinality(AllOf(f) \cap rec) = Cardinality(AllOf(f))
            /\ decoded /\ o.failed = {} => o.repaired + o.unused = Cardinality(AllRepairs(f) \cap rec)
<1> DEFINE n == Len(f.blocks)
           lost == AllOf(f) \ rec
           o == LossOutcome(f, lost, decoded)
           Came(b) == (SourcesOf(f, b) \cup RepairsOf(f, b)) \cap rec
           source == [b \in 1..n |-> LostSource(f, b, lost)]
           repair == [b \in 1..n |-> LostRepair(f, b, lost)]
           spare == [b \in 1..n |-> Max({AvailableRepair(f, b, lost) - LostSource(f, b, lost), 0})]
           available == [b \in 1..n |-> AvailableRepair(f, b, lost)]
<1>1. n \in Nat /\ DOMAIN f.blocks = 1..n
  BY DEF Frames
<1>2. \A b \in 1..n :
        /\ LostSource(f, b, lost) \in Nat /\ LostRepair(f, b, lost) \in Nat
        /\ AvailableRepair(f, b, lost) \in Nat
        /\ LostSource(f, b, lost) > AvailableRepair(f, b, lost)
             <=> ~(Cardinality(Came(b)) >= f.blocks[b].source)
  BY OutcomeOfBlock
<1>3. /\ o.lostSource = SumOf(source) /\ o.lostRepair = SumOf(repair)
      /\ o.failed = {b \in 1..n : LostSource(f, b, lost) > AvailableRepair(f, b, lost)}
      /\ decoded => o.repaired = SumOf(source) /\ o.unused = SumOf(spare)
  BY <1>1 DEF LossOutcome, SumOf, FailedBlocks
<1>4. /\ IsFiniteSet(AllOf(f))
      /\ SumOf(source) = Cardinality(AllSources(f) \ rec)
      /\ SumOf(repair) = Cardinality(AllRepairs(f) \ rec)
      /\ SumOf(available) = Cardinality(AllRepairs(f) \cap rec)
      /\ AllSources(f) \cap AllRepairs(f) = {}
  BY SumsOfBlocks
<1> HIDE DEF o, Came, n
<1>5. /\ \A b \in 1..n : b \in o.failed <=> ~(Cardinality(Came(b)) >= f.blocks[b].source)
      /\ o.failed \subseteq 1..n
  BY <1>2, <1>3
<1>6. o.lostSource + o.lostRepair + Cardinality(AllOf(f) \cap rec) = Cardinality(AllOf(f))
  <2>1. AllOf(f) = AllSources(f) \cup AllRepairs(f)
    BY FrameIsItsBlocks
  <2>2. IsFiniteSet(AllSources(f) \ rec) /\ IsFiniteSet(AllRepairs(f) \ rec)
    <3>1. AllSources(f) \ rec \subseteq AllOf(f) /\ AllRepairs(f) \ rec \subseteq AllOf(f)
      BY <2>1
    <3> QED
      BY <1>4, <3>1, FS_Subset
  <2>3. (AllSources(f) \ rec) \cap (AllRepairs(f) \ rec) = {}
    BY <1>4
  <2>4. (AllSources(f) \ rec) \cup (AllRepairs(f) \ rec) = AllOf(f) \ rec
    BY <2>1
  <2>5. Cardinality(AllOf(f) \ rec) = Cardinality(AllSources(f) \ rec) + Cardinality(AllRepairs(f) \ rec)
    BY <2>2, <2>3, <2>4, SizeOfBoth
  <2>6. Cardinality(AllOf(f) \ rec) + Cardinality(AllOf(f) \cap rec) = Cardinality(AllOf(f))
    BY <1>4, PartSizes
  <2> QED
    BY <1>3, <1>4, <2>5, <2>6
<1>7. ASSUME decoded, o.failed = {}
      PROVE  o.repaired + o.unused = Cardinality(AllRepairs(f) \cap rec)
  <2>1. \A b \in 1..n : ~(LostSource(f, b, lost) > AvailableRepair(f, b, lost))
    BY <1>3, <1>7
  <2>2. /\ \A b \in 1..n : source[b] = LostSource(f, b, lost) /\ available[b] = AvailableRepair(f, b, lost)
        /\ \A b \in 1..n : spare[b] = Max({AvailableRepair(f, b, lost) - LostSource(f, b, lost), 0})
        /\ source \in [1..n -> Nat] /\ available \in [1..n -> Nat] /\ DOMAIN spare = 1..n
    BY <1>2
  <2>3. spare = [b \in DOMAIN spare |-> spare[b]]
    OBVIOUS
  <2> HIDE DEF source, available, spare, lost
  <2>4. \A b \in 1..n : spare[b] \in Nat /\ available[b] = source[b] + spare[b]
    <3> TAKE b \in 1..n
    <3> DEFINE s == LostSource(f, b, lost)
               a == AvailableRepair(f, b, lost)
    <3>1. s \in Nat /\ a \in Nat /\ ~(s > a)
      BY <1>2, <2>1
    <3> HIDE DEF s, a
    <3>2. a - s \in Int /\ 0 \in Int /\ a - s >= 0 /\ a - s \in Nat
      BY <3>1
    <3>3. Max({a - s, 0}) = a - s
      BY <3>2, MaxOfTwo
    <3>4. a = s + (a - s)
      BY <3>1
    <3>5. spare[b] = a - s /\ available[b] = a /\ source[b] = s
      BY <2>2, <3>3 DEF a, s
    <3> QED
      BY <3>2, <3>4, <3>5
  <2>5. spare \in [1..n -> Nat]
    BY <2>2, <2>3, <2>4
  <2>6. SumOf(available) = SumOf(source) + SumOf(spare)
    BY <1>1, <2>2, <2>4, <2>5, SumAdds
  <2> QED
    BY <1>3, <1>4, <1>7, <2>6
<1> QED
  BY <1>5, <1>6, <1>7 DEF o, Came, n

(* What has come of a block, as the outcome counts it.                      *)
LEMMA BlockHasCome ==
  ASSUME SenderInv, WireInv, NEW n \in 1..Len(frames), NEW b \in 1..Len(frames[n].blocks)
  PROVE  LET f == frames[n]
             id == [n |-> f.n, block |-> b]
         IN /\ f \in Frames /\ f.n = n /\ id \in BlocksIn(frames)
            /\ HasCome(id)
                 <=> Cardinality((SourcesOf(f, b) \cup RepairsOf(f, b)) \cap received) >= f.blocks[b].source
<1> DEFINE f == frames[n]
           id == [n |-> f.n, block |-> b]
           came == (SourcesOf(f, b) \cup RepairsOf(f, b)) \cap received
<1>1. frames \in Seq(Frames) /\ f \in Frames /\ f.n = n
  BY DEF SenderInv, PassInv, FramesAreNumbered
<1>2. id \in BlocksIn(frames)
  BY <1>1 DEF BlocksIn, Frames
<1>3. OfBlock(received, id) = came
  <2>1. ASSUME NEW x \in received, x.n = n, x.block = b PROVE x \in came
    <3>1. x \in AllOf(f)
      BY <2>1 DEF WireInv, ComesOf
    <3>2. x \in AllSources(f) \/ x \in AllRepairs(f)
      BY <1>1, <3>1, FrameIsItsBlocks
    <3>3. PICK c \in 1..Len(f.blocks) : x \in SourcesOf(f, c) \/ x \in RepairsOf(f, c)
      BY <3>2 DEF AllSources, AllRepairs
    <3>4. c = b
      BY <1>1, <2>1, <3>3, FrameIsItsBlocks
    <3> QED
      BY <3>3, <3>4
  <2>2. ASSUME NEW x \in came PROVE x \in received /\ x.n = n /\ x.block = b
    BY <1>1, FrameIsItsBlocks
  <2>3. id.n = n /\ id.block = b
    BY <1>1
  <2> HIDE DEF came, id
  <2>4. \A x : x \in OfBlock(received, id) <=> x \in received /\ x.n = n /\ x.block = b
    BY <2>3 DEF OfBlock
  <2>5. \A x : x \in came <=> x \in received /\ x.n = n /\ x.block = b
    BY <2>1, <2>2
  <2> QED
    BY <2>4, <2>5
<1>4. SourceCount(id) = f.blocks[b].source
  BY <1>1 DEF SourceCount
<1> HIDE DEF came
<1>5. HasCome(id) <=> Cardinality(came) >= f.blocks[b].source
  BY <1>3, <1>4 DEF HasCome
<1> QED
  BY <1>1, <1>2, <1>5 DEF came

(* LossIsAccounted: loss_outcome sees only what was lost, and says of each  *)
(* block what the decoder did with what came.                               *)
THEOREM OutcomesAreTrue == Spec => []LossIsAccounted
<1>1. SenderInv /\ WireInv => LossIsAccounted
  <2> SUFFICES ASSUME SenderInv, WireInv, NEW n \in DOMAIN frames
               PROVE  LET f == frames[n]
                          came == AllOf(f) \cap received
                          decoded == \A id \in BlocksOf(f) : \E d \in done : d.id = id /\ d.via = "wire"
                          outcome == LossOutcome(f, AllOf(f) \ received, decoded)
                      IN /\ \A id \in BlocksOf(f) :
                              /\ id.block \in outcome.failed => \A d \in done : d.id = id => d.via = "recovery"
                              /\ id.block \notin outcome.failed => IsDone(id)
                         /\ outcome.lostSource + outcome.lostRepair + Cardinality(came) = Cardinality(AllOf(f))
                         /\ decoded => /\ outcome.failed = {}
                                       /\ outcome.repaired + outcome.unused
                                            = Cardinality({dg \in came : ~IsSource(dg)})
    BY DEF LossIsAccounted
  <2> DEFINE f == frames[n]
             came == AllOf(f) \cap received
             decoded == \A id \in BlocksOf(f) : \E d \in done : d.id = id /\ d.via = "wire"
             outcome == LossOutcome(f, AllOf(f) \ received, decoded)
             Came(b) == (SourcesOf(f, b) \cup RepairsOf(f, b)) \cap received
  <2>1. n \in 1..Len(frames) /\ f \in Frames /\ f.n = n /\ DOMAIN f.blocks = 1..Len(f.blocks)
    <3>1. frames \in Seq(Frames) /\ \A m \in 1..Len(frames) : frames[m].n = m
      BY DEF SenderInv, PassInv, FramesAreNumbered
    <3>2. n \in 1..Len(frames)
      BY <3>1
    <3>3. f \in Frames /\ f.n = n
      BY <3>1, <3>2
    <3>4. f.blocks \in Seq(BlockCounts)
      BY <3>3 DEF Frames
    <3> HIDE DEF f
    <3> QED
      BY <3>2, <3>3, <3>4
  <2>2. decoded \in BOOLEAN
    OBVIOUS
  <2> HIDE DEF decoded
  <2>3. /\ \A b \in 1..Len(f.blocks) : b \in outcome.failed <=> ~(Cardinality(Came(b)) >= f.blocks[b].source)
        /\ outcome.failed \subseteq 1..Len(f.blocks)
        /\ outcome.lostSource + outcome.lostRepair + Cardinality(came) = Cardinality(AllOf(f))
        /\ decoded /\ outcome.failed = {}
             => outcome.repaired + outcome.unused = Cardinality(AllRepairs(f) \cap received)
    BY <2>1, <2>2, OutcomeOfFrame
  <2> HIDE DEF outcome
  <2>4. ASSUME NEW id \in BlocksOf(f)
        PROVE  id \in BlocksIn(frames) /\ (id.block \in outcome.failed <=> ~HasCome(id))
    <3>1. PICK b \in 1..Len(f.blocks) : id = [n |-> f.n, block |-> b]
      BY <2>1 DEF BlocksOf
    <3>2. id \in BlocksIn(frames) /\ (HasCome(id) <=> Cardinality(Came(b)) >= f.blocks[b].source)
      BY <2>1, <3>1, BlockHasCome
    <3>3. id.block = b
      BY <3>1
    <3> HIDE DEF Came
    <3> QED
      BY <2>3, <3>2, <3>3
  <2>5. \A d \in done : /\ d.via \in {"wire", "recovery"}
                        /\ d.via = "wire" => HasCome(d.id)
    BY DEF WireInv
  <2>6. ASSUME NEW id \in BlocksOf(f)
        PROVE  /\ id.block \in outcome.failed => \A d \in done : d.id = id => d.via = "recovery"
               /\ id.block \notin outcome.failed => IsDone(id)
    <3>1. HasCome(id) => IsDone(id)
      BY <2>4 DEF WireInv
    <3> QED
      BY <2>4, <2>5, <3>1
  <2>7. ASSUME decoded PROVE outcome.failed = {}
    <3> SUFFICES ASSUME NEW b \in outcome.failed PROVE FALSE
      OBVIOUS
    <3> DEFINE id == [n |-> f.n, block |-> b]
    <3>1. id \in BlocksOf(f) /\ id.block = b
      BY <2>1, <2>3 DEF BlocksOf
    <3> HIDE DEF id
    <3>2. PICK d \in done : d.id = id /\ d.via = "wire"
      BY <2>7, <3>1 DEF decoded
    <3> QED
      BY <2>4, <2>5, <3>1, <3>2
  <2>8. {dg \in came : ~IsSource(dg)} = AllRepairs(f) \cap received
    <3>1. ASSUME NEW x \in AllSources(f) PROVE IsSource(x)
      <4>1. PICK b \in 1..Len(f.blocks) : x \in SourcesOf(f, b)
        BY DEF AllSources
      <4>2. x.n = n /\ x.block = b /\ x.esi < f.blocks[b].source
        BY <2>1, <4>1, FrameIsItsBlocks
      <4> QED
        BY <4>2 DEF IsSource, SourceCount
    <3>2. ASSUME NEW x \in AllRepairs(f) PROVE ~IsSource(x)
      <4>1. PICK b \in 1..Len(f.blocks) : x \in RepairsOf(f, b)
        BY DEF AllRepairs
      <4>2. x.n = n /\ x.block = b /\ ~(x.esi < f.blocks[b].source)
        BY <2>1, <4>1, FrameIsItsBlocks
      <4> QED
        BY <4>2 DEF IsSource, SourceCount
    <3>3. AllOf(f) = AllSources(f) \cup AllRepairs(f)
      BY <2>1, FrameIsItsBlocks
    <3> HIDE DEF f
    <3> QED
      BY <3>1, <3>2, <3>3
  <2> HIDE DEF f, came, Came
  <2>9. decoded => /\ outcome.failed = {}
                   /\ outcome.repaired + outcome.unused = Cardinality({dg \in came : ~IsSource(dg)})
    BY <2>3, <2>7, <2>8
  <2> QED
    BY <2>3, <2>6, <2>9 DEF f, came, decoded, outcome
<1> QED
  BY <1>1, RecoveriesAreSound, WireIsSound, PTL

=============================================================================
