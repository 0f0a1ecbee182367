--------------------------------- MODULE Facts ---------------------------------
(***************************************************************************)
(* Facts about numbers and sequences that the proofs need.                  *)
(***************************************************************************)
EXTENDS Integers, SequencesExt, FiniteSetTheorems, WellFoundedInduction, TLAPS

(* The larger of two integers.                                              *)
LEMMA MaxOfTwo ==
  ASSUME NEW a \in Int, NEW b \in Int
  PROVE  Max({a, b}) = IF a >= b THEN a ELSE b
BY DEF Max

(* The smaller of two integers.                                             *)
LEMMA MinOfTwo ==
  ASSUME NEW a \in Int, NEW b \in Int
  PROVE  Min({a, b}) = IF a <= b THEN a ELSE b
BY DEF Min

(* The smallest of one integer is that integer.                            *)
LEMMA MinOfOne ==
  ASSUME NEW a \in Int
  PROVE  Min({a}) = a
BY DEF Min

-----------------------------------------------------------------------------
(* Induction, stated with the set of the numbers that have a property.      *)

(* A set that has 0, and with a number the next one, has every number.      *)
LEMMA Induction ==
  ASSUME NEW S, 0 \in S, \A n \in Nat : n \in S => n + 1 \in S
  PROVE  Nat \subseteq S
<1> SUFFICES ASSUME Nat \ S # {} PROVE FALSE
  OBVIOUS
<1> DEFINE R == OpToRel(<, Nat)
           T == Nat \ S
<1>1. IsWellFoundedOn(R, Nat)
  BY NatLessThanWellFounded
<1>2. \A y, x \in Nat : y < x => <<y, x>> \in R
  BY DEF OpToRel
<1> HIDE DEF R
<1>3. T \subseteq Nat /\ T # {}
  OBVIOUS
<1> HIDE DEF T
<1>4. PICK x \in T : \A y \in T : ~(<<y, x>> \in R)
  BY <1>1, <1>3, WFMin
<1> USE DEF T
<1>5. x - 1 \in Nat /\ x - 1 < x
  OBVIOUS
<1>6. <<x - 1, x>> \in R
  BY <1>2, <1>5
<1>7. x - 1 \in S
  BY <1>4, <1>5, <1>6
<1>8. (x - 1) + 1 \in S /\ (x - 1) + 1 = x
  BY <1>5, <1>7
<1> QED
  BY <1>8

(* A set of positive numbers that has every smaller one of its elements is  *)
(* an interval as long as it is large.                                      *)
LEMMA ClosedIsInterval ==
  ASSUME NEW m \in Nat, NEW R \in SUBSET (1..m), \A n \in R : 1..n \subseteq R
  PROVE  Cardinality(R) \in 0..m /\ R = 1..Cardinality(R)
<1> DEFINE S == R \cup {0}
<1>1. PICK n \in Nat : n \in S /\ n + 1 \notin S
  <2>1. m + 1 \in Nat /\ m + 1 \notin S
    OBVIOUS
  <2> HIDE DEF S
  <2>2. 0 \in S => \E n \in Nat : n \in S /\ n + 1 \notin S
    BY <2>1, Induction
  <2> QED
    BY <2>2 DEF S
<1>2. R = 1..n
  <2>1. 1..n \subseteq R
    BY <1>1
  <2>2. ASSUME NEW k \in R, k > n
        PROVE  FALSE
    <3>1. n + 1 \in 1..k
      BY <2>2
    <3> QED
      BY <1>1, <3>1
  <2>3. \A k \in R : k \in 1..n
    BY <2>2
  <2> QED
    BY <2>1, <2>3
<1>3. Cardinality(R) = n
  BY <1>2, FS_Interval
<1> QED
  BY <1>1, <1>2, <1>3

-----------------------------------------------------------------------------
(* Finite orders.                                                           *)

Below(S, R, g) == {h \in S : <<h, g>> \in R}

(* In a finite set with a strict total order R, the greater element has     *)
(* more elements below it, and every number of elements below occurs once.  *)
LEMMA Ranks ==
  ASSUME NEW S, IsFiniteSet(S), NEW R,
         \A a \in S : <<a, a>> \notin R,
         \A a, b, c \in S : <<a, b>> \in R /\ <<b, c>> \in R => <<a, c>> \in R,
         \A a, b \in S : a # b => <<a, b>> \in R \/ <<b, a>> \in R
  PROVE  /\ \A a, b \in S : <<a, b>> \in R => Cardinality(Below(S, R, a)) < Cardinality(Below(S, R, b))
         /\ \A g \in S : Cardinality(Below(S, R, g)) \in 0..Cardinality(S)-1
         /\ \A i \in 1..Cardinality(S) : \E g \in S : Cardinality(Below(S, R, g)) = i - 1
<1> DEFINE N == Cardinality(S)
           rank == [g \in S |-> Cardinality(Below(S, R, g))]
<1>1. \A g \in S : IsFiniteSet(Below(S, R, g)) /\ Cardinality(Below(S, R, g)) \in Nat
  <2> TAKE g \in S
  <2>1. Below(S, R, g) \in SUBSET S
    BY DEF Below
  <2> QED
    BY <2>1, FS_Subset, FS_CardinalityType
<1>2. ASSUME NEW a \in S, NEW b \in S, <<a, b>> \in R
      PROVE  rank[a] < rank[b]
  <2>1. Below(S, R, a) \in SUBSET Below(S, R, b)
    BY <1>2 DEF Below
  <2>2. a \in Below(S, R, b) /\ a \notin Below(S, R, a)
    BY <1>2 DEF Below
  <2>3. /\ Cardinality(Below(S, R, a)) <= Cardinality(Below(S, R, b))
        /\ Cardinality(Below(S, R, a)) # Cardinality(Below(S, R, b))
    BY <1>1, <2>1, <2>2, FS_Subset
  <2> QED
    BY <1>1, <2>3
<1>3. N \in Nat
  BY FS_CardinalityType
<1>4. \A g \in S : rank[g] \in 0..N-1
  <2> TAKE g \in S
  <2>1. Below(S, R, g) \in SUBSET S /\ g \notin Below(S, R, g)
    BY DEF Below
  <2>2. Cardinality(Below(S, R, g)) <= N /\ Cardinality(Below(S, R, g)) # N
    BY <2>1, FS_Subset
  <2> QED
    BY <1>1, <1>3, <2>2
<1>5. IsFiniteSet(0..N-1) /\ Cardinality(0..N-1) = N
  <2>1. 0 \in Int /\ N - 1 \in Int
    BY <1>3
  <2> HIDE DEF N
  <2> QED
    BY <1>3, <2>1, FS_Interval
<1>6. rank \in Injection(S, 0..N-1)
  <2>1. \A a, b \in S : rank[a] = rank[b] => a = b
    <3> HIDE DEF rank
    <3> TAKE a, b \in S
    <3>1. rank[a] \in Int /\ rank[b] \in Int
      BY <1>4
    <3>2. <<a, b>> \in R => rank[a] < rank[b]
      BY <1>2
    <3>3. <<b, a>> \in R => rank[b] < rank[a]
      BY <1>2
    <3> QED
      BY <3>1, <3>2, <3>3
  <2>2. rank \in [S -> 0..N-1]
    BY <1>4
  <2> HIDE DEF rank
  <2> QED
    BY <2>1, <2>2 DEF Injection, IsInjective
<1>7. rank \in Surjection(S, 0..N-1)
  <2> HIDE DEF rank
  <2> QED
    BY <1>5, <1>6, FS_Injection
<1>8. ASSUME NEW i \in 1..N PROVE \E g \in S : rank[g] = i - 1
  <2>1. i - 1 \in 0..N-1
    BY <1>3
  <2> HIDE DEF rank
  <2> QED
    BY <1>7, <2>1 DEF Surjection
<1> QED
  BY <1>2, <1>4, <1>8

-----------------------------------------------------------------------------
(* Sequences.                                                               *)

(* A sequence over a set is one over every larger set.                      *)
LEMMA SeqOfSubset ==
  ASSUME NEW A, NEW B, A \subseteq B
  PROVE  Seq(A) \subseteq Seq(B)
<1> SUFFICES ASSUME NEW s \in Seq(A) PROVE s \in Seq(B)
  OBVIOUS
<1>1. Len(s) \in Nat /\ s = [i \in 1..Len(s) |-> s[i]] /\ \A i \in 1..Len(s) : s[i] \in B
  OBVIOUS
<1> QED
  BY <1>1

-----------------------------------------------------------------------------
(* FlattenSeq, by the first m of the sequences ss.                          *)

FlattenItem(ss, f, i) == IF i = 1 THEN ss[i] ELSE f[i-1] \o ss[i]
FlattenStep(ss, m, f) == f = [i \in 1..m |-> FlattenItem(ss, f, i)]

(* The recursive function that FlattenSeq is defined by exists.             *)
LEMMA FlattenExists ==
  ASSUME NEW ss
  PROVE  \A m \in Nat : \E f : FlattenStep(ss, m, f)
<1> DEFINE S == {m \in Nat : \E f : FlattenStep(ss, m, f)}
<1>1. 0 \in S
  <2>1. FlattenStep(ss, 0, [i \in 1..0 |-> 0])
    BY DEF FlattenStep
  <2> QED
    BY <2>1
<1>2. ASSUME NEW m \in Nat, m \in S
      PROVE  m + 1 \in S
  <2>1. PICK f : FlattenStep(ss, m, f)
    BY <1>2
  <2> DEFINE g == [i \in 1..m+1 |-> FlattenItem(ss, f, i)]
  <2>2. \A i \in 1..m : f[i] = FlattenItem(ss, f, i) /\ i \in 1..m+1
    BY <2>1 DEF FlattenStep
  <2>3. \A i \in 1..m+1 : i # 1 => i - 1 \in 1..m
    OBVIOUS
  <2>4. \A i \in 1..m+1 : i # 1 => g[i-1] = f[i-1]
    <3>1. \A i \in 1..m : g[i] = f[i]
      BY <2>2
    <3> QED
      BY <2>3, <3>1
  <2>5. FlattenStep(ss, m + 1, g)
    <3>1. \A i \in 1..m+1 : FlattenItem(ss, g, i) = FlattenItem(ss, f, i)
      <4> HIDE DEF g
      <4> QED
        BY <2>4, Zenon DEF FlattenItem
    <3> QED
      BY <3>1 DEF FlattenStep
  <2> HIDE DEF g
  <2> QED
    BY <2>5
<1> HIDE DEF S
<1>3. Nat \subseteq S
  BY <1>1, <1>2, Induction
<1> QED
  BY <1>3 DEF S

(* What that function returns is the sequences put one behind the other.    *)
LEMMA FlattenUnfolds ==
  ASSUME NEW A, NEW ss \in Seq(Seq(A)), Len(ss) # 0
  PROVE  \E f : /\ FlattenSeq(ss) = f[Len(ss)] /\ f[1] = ss[1]
                /\ \A i \in 1..Len(ss) : i + 1 \in 1..Len(ss) => f[i+1] = f[i] \o ss[i+1]
<1> DEFINE n == Len(ss)
           flatten == CHOOSE f : FlattenStep(ss, n, f)
<1>1. n \in Nat /\ n # 0
  OBVIOUS
<1>2. FlattenStep(ss, n, flatten)
  <2>1. \E f : FlattenStep(ss, n, f)
    BY <1>1, FlattenExists
  <2> HIDE DEF n
  <2> QED
    BY <2>1
<1>3. FlattenSeq(ss) = flatten[n]
  BY <1>1 DEF FlattenSeq, FlattenStep, FlattenItem
<1> HIDE DEF flatten
<1>4. \A i \in 1..n : flatten[i] = FlattenItem(ss, flatten, i)
  BY <1>2 DEF FlattenStep
<1>5. flatten[1] = ss[1]
  <2>1. 1 \in 1..n
    BY <1>1
  <2> QED
    BY <1>4, <2>1 DEF FlattenItem
<1>6. ASSUME NEW i \in 1..n, i + 1 \in 1..n PROVE flatten[i+1] = flatten[i] \o ss[i+1]
  <2>1. i + 1 # 1 /\ (i + 1) - 1 = i
    BY <1>1
  <2>2. flatten[i+1] = flatten[(i+1)-1] \o ss[i+1]
    BY <1>4, <1>6, <2>1, Zenon DEF FlattenItem
  <2> QED
    BY <2>1, <2>2
<1> QED
  BY <1>3, <1>5, <1>6

(* Where the elements of flat come from in the first m sequences of ss: the *)
(* k-th is element col[k] of sequence row[k].                               *)
Places(ss, m, flat, row, col) ==
  /\ \A k \in 1..Len(flat) :
       /\ row[k] \in 1..m /\ col[k] \in 1..Len(ss[row[k]])
       /\ flat[k] = ss[row[k]][col[k]]
  /\ \A k, l \in 1..Len(flat) : k < l => row[k] < row[l] \/ (row[k] = row[l] /\ col[k] < col[l])
  /\ \A i \in 1..m : \A j \in 1..Len(ss[i]) : \E k \in 1..Len(flat) : row[k] = i /\ col[k] = j

(* One sequence more.                                                       *)
LEMMA PlacesAppend ==
  ASSUME NEW A, NEW ss \in Seq(Seq(A)), NEW m \in Nat, m + 1 \in 1..Len(ss),
         NEW flat \in Seq(A), NEW row, NEW col, Places(ss, m, flat, row, col)
  PROVE  \E row2, col2 : Places(ss, m + 1, flat \o ss[m+1], row2, col2)
<1> DEFINE n == Len(flat)
           next == ss[m+1]
           r2 == [k \in 1..n+Len(next) |-> IF k <= n THEN row[k] ELSE m + 1]
           c2 == [k \in 1..n+Len(next) |-> IF k <= n THEN col[k] ELSE k - n]
           flat2 == flat \o next
<1>1. n \in Nat /\ next \in Seq(A) /\ Len(next) \in Nat
  OBVIOUS
<1>2. /\ Len(flat2) = n + Len(next)
      /\ \A k \in 1..n : flat2[k] = flat[k] /\ k \in 1..Len(flat2)
      /\ \A k \in 1..Len(flat2) : k > n => k - n \in 1..Len(next) /\ flat2[k] = next[k-n]
  BY <1>1
<1> HIDE DEF flat2
<1>3. \A k \in 1..Len(flat2) :
        /\ k \in 1..n => r2[k] = row[k] /\ c2[k] = col[k]
        /\ k \notin 1..n => r2[k] = m + 1 /\ c2[k] = k - n /\ k > n
  BY <1>1, <1>2
<1> HIDE DEF r2, c2
<1>4. ASSUME NEW k \in 1..Len(flat2)
      PROVE  /\ r2[k] \in 1..m+1 /\ c2[k] \in 1..Len(ss[r2[k]])
             /\ flat2[k] = ss[r2[k]][c2[k]]
  <2>1. CASE k \in 1..n
    <3>1. r2[k] = row[k] /\ c2[k] = col[k] /\ flat2[k] = flat[k]
      BY <1>2, <1>3, <2>1
    <3>2. row[k] \in 1..m /\ col[k] \in 1..Len(ss[row[k]]) /\ flat[k] = ss[row[k]][col[k]]
      BY <2>1 DEF Places
    <3>3. row[k] \in 1..m+1
      BY <3>2
    <3> QED
      BY <3>1, <3>2, <3>3
  <2>2. CASE k \notin 1..n
    <3>1. r2[k] = m + 1 /\ c2[k] = k - n /\ k > n
      BY <1>3, <2>2
    <3>2. k - n \in 1..Len(next) /\ flat2[k] = next[k-n]
      BY <1>2, <3>1
    <3> QED
      BY <3>1, <3>2
  <2> QED
    BY <2>1, <2>2
<1>5. ASSUME NEW k \in 1..Len(flat2), NEW l \in 1..Len(flat2), k < l
      PROVE  r2[k] < r2[l] \/ (r2[k] = r2[l] /\ c2[k] < c2[l])
  <2>1. CASE l \in 1..n
    <3>1. k \in 1..n
      BY <1>1, <1>5, <2>1
    <3> QED
      BY <1>3, <1>5, <2>1, <3>1 DEF Places
  <2>2. CASE l \notin 1..n /\ k \in 1..n
    <3>1. row[k] \in 1..m
      BY <2>2 DEF Places
    <3> QED
      BY <1>3, <2>2, <3>1
  <2>3. CASE l \notin 1..n /\ k \notin 1..n
    BY <1>1, <1>3, <1>5, <2>3
  <2> QED
    BY <2>1, <2>2, <2>3
<1>6. ASSUME NEW i \in 1..m+1, NEW j \in 1..Len(ss[i])
      PROVE  \E k \in 1..Len(flat2) : r2[k] = i /\ c2[k] = j
  <2>1. CASE i \in 1..m
    <3>1. PICK k \in 1..n : row[k] = i /\ col[k] = j
      BY <2>1 DEF Places
    <3> QED
      BY <1>2, <1>3, <3>1
  <2>2. CASE i = m + 1
    <3>1. n + j \in 1..Len(flat2) /\ n + j \notin 1..n /\ (n + j) - n = j
      BY <1>1, <1>2, <2>2
    <3> QED
      BY <1>3, <2>2, <3>1
  <2> QED
    BY <2>1, <2>2
<1>7. Places(ss, m + 1, flat2, r2, c2)
  BY <1>4, <1>5, <1>6 DEF Places
<1> QED
  BY <1>7 DEF flat2

(* Flattening sequences over a set yields a sequence over that set, of      *)
(* their elements, in their order and each once.                            *)
LEMMA FlattenPlaces ==
  ASSUME NEW A, NEW ss \in Seq(Seq(A))
  PROVE  /\ FlattenSeq(ss) \in Seq(A)
         /\ \E row, col : Places(ss, Len(ss), FlattenSeq(ss), row, col)
<1>1. CASE Len(ss) = 0
  <2>1. FlattenSeq(ss) = <<>>
    BY <1>1 DEF FlattenSeq
  <2>2. Places(ss, 0, <<>>, <<>>, <<>>)
    BY DEF Places
  <2> QED
    BY <1>1, <2>1, <2>2
<1>2. CASE Len(ss) # 0
  <2>1. PICK f : /\ FlattenSeq(ss) = f[Len(ss)] /\ f[1] = ss[1]
                 /\ \A i \in 1..Len(ss) : i + 1 \in 1..Len(ss) => f[i+1] = f[i] \o ss[i+1]
    BY <1>2, FlattenUnfolds
  <2> DEFINE n == Len(ss)
             Good(i) == f[i] \in Seq(A) /\ \E row, col : Places(ss, i, f[i], row, col)
             T == {i \in Nat : i \in 1..n => Good(i)}
  <2>2. n \in Nat /\ n # 0
    BY <1>2
  <2>3. 0 \in T
    OBVIOUS
  <2>4. Good(1)
    <3>1. ss[1] \in Seq(A) /\ <<>> \in Seq(A) /\ <<>> \o ss[1] = ss[1] /\ 0 + 1 = 1 /\ 0 + 1 \in 1..Len(ss)
      BY <2>2
    <3>2. Places(ss, 0, <<>>, <<>>, <<>>)
      BY DEF Places
    <3>3. \E row, col : Places(ss, 0 + 1, <<>> \o ss[0+1], row, col)
      BY <3>1, <3>2, PlacesAppend
    <3> QED
      BY <2>1, <3>1, <3>3
  <2>5. ASSUME NEW i \in 1..n, i + 1 \in 1..n, Good(i) PROVE Good(i + 1)
    <3>1. i \in Nat /\ f[i+1] = f[i] \o ss[i+1] /\ ss[i+1] \in Seq(A)
      <4>1. i \in 1..Len(ss) /\ i + 1 \in 1..Len(ss)
        BY <2>5
      <4>2. ss[i+1] \in Seq(A)
        BY <4>1
      <4>3. f[i+1] = f[i] \o ss[i+1]
        BY <2>1, <4>1, Zenon
      <4>4. i \in Nat
        BY <4>1
      <4> QED
        BY <4>2, <4>3, <4>4
    <3>2. f[i+1] \in Seq(A)
      BY <2>5, <3>1
    <3>3. PICK row, col : Places(ss, i, f[i], row, col)
      BY <2>5
    <3>4. \E row2, col2 : Places(ss, i + 1, f[i] \o ss[i+1], row2, col2)
      BY <2>5, <3>1, <3>3, PlacesAppend
    <3> QED
      BY <3>1, <3>2, <3>4
  <2> HIDE DEF Good, n
  <2>6. \A i \in Nat : i \in T => i + 1 \in T
    <3> TAKE i \in Nat
    <3> HAVE i \in T
    <3>1. CASE i = 0
      BY <2>4, <3>1
    <3>2. CASE i # 0
      <4>1. i + 1 \in 1..n => i \in 1..n
        BY <2>2, <3>2
      <4> QED
        BY <2>5, <4>1
    <3> QED
      BY <3>1, <3>2
  <2>7. Nat \subseteq T
    <3> HIDE DEF T
    <3> QED
      BY <2>3, <2>6, Induction
  <2>8. Good(n)
    BY <2>2, <2>7
  <2> QED
    BY <2>1, <2>8 DEF Good, n
<1> QED
  BY <1>1, <1>2

-----------------------------------------------------------------------------
(* Folds over the numbers from 1 to n, the largest first.                   *)

(* A finite set of integers that is not empty has a largest element.        *)
LEMMA MaxOfFinite ==
  ASSUME NEW s \in SUBSET Int, IsFiniteSet(s), s # {}
  PROVE  Max(s) \in s /\ \A y \in s : y <= Max(s)
<1> DEFINE Has(m) == \A t \in SUBSET Int : IsFiniteSet(t) /\ Cardinality(t) = m /\ t # {} =>
                        \E x \in t : \A y \in t : x >= y
           S == {m \in Nat : Has(m)}
<1>1. Has(0)
  BY FS_EmptySet
<1>2. ASSUME NEW m \in Nat, Has(m) PROVE Has(m + 1)
  <2> SUFFICES ASSUME NEW t \in SUBSET Int, IsFiniteSet(t), Cardinality(t) = m + 1, t # {}
               PROVE  \E x \in t : \A y \in t : x >= y
    OBVIOUS
  <2>1. PICK z \in t : TRUE
    OBVIOUS
  <2>2. IsFiniteSet(t \ {z}) /\ Cardinality(t \ {z}) = m
    <3>1. IsFiniteSet(t \ {z}) /\ Cardinality(t \ {z}) = Cardinality(t) - 1
      BY <2>1, FS_RemoveElement
    <3> QED
      BY <3>1
  <2>3. CASE t \ {z} = {}
    BY <2>1, <2>3
  <2>4. CASE t \ {z} # {}
    <3>1. PICK x \in t \ {z} : \A y \in t \ {z} : x >= y
      BY <1>2, <2>2, <2>4
    <3>2. CASE x >= z
      BY <3>1, <3>2
    <3>3. CASE ~(x >= z)
      <4>1. \A y \in t : z >= y
        BY <3>1, <3>3
      <4> QED
        BY <4>1
    <3> QED
      BY <3>2, <3>3
  <2> QED
    BY <2>3, <2>4
<1> HIDE DEF Has
<1>3. \A m \in Nat : m \in S => m + 1 \in S
  BY <1>2
<1>4. Nat \subseteq S
  <2>1. 0 \in S
    BY <1>1
  <2> HIDE DEF S
  <2> QED
    BY <1>3, <2>1, Induction
<1>5. Cardinality(s) \in Nat
  BY FS_CardinalityType
<1>6. Has(Cardinality(s))
  BY <1>4, <1>5
<1>7. \E x \in s : \A y \in s : x >= y
  BY <1>6 DEF Has
<1> QED
  BY <1>7 DEF Max

(* A set of numbers up to n that is not empty has a largest element.        *)
LEMMA MaxOfNumbers ==
  ASSUME NEW n \in Nat, NEW s \in SUBSET (1..n), s # {}
  PROVE  Max(s) \in s /\ \A y \in s : y <= Max(s)
<1>1. IsFiniteSet(1..n) /\ s \in SUBSET Int
  BY FS_Interval
<1>2. IsFiniteSet(s)
  BY <1>1, FS_Subset
<1> QED
  BY <1>1, <1>2, MaxOfFinite

(* iter is the fold over sets of numbers up to n that starts from base and  *)
(* applies step to the largest number and to what the others fold to.       *)
IsFold(n, base, step, iter) ==
  iter = [s \in SUBSET (1..n) |->
            IF s = {} THEN base ELSE step[<<Max(s), iter[s \ {Max(s)}]>>]]

(* It exists.                                                               *)
LEMMA FoldExists ==
  ASSUME NEW T, NEW base \in T, NEW n \in Nat, NEW step \in [(1..n) \X T -> T]
  PROVE  \E iter \in [SUBSET (1..n) -> T] : IsFold(n, base, step, iter)
<1> DEFINE Has(m) == m \in 0..n => \E iter \in [SUBSET (1..m) -> T] : IsFold(m, base, step, iter)
           S == {m \in Nat : Has(m)}
<1>1. 0 \in S
  <2> DEFINE iter == [s \in SUBSET (1..0) |-> base]
  <2>1. \A s \in SUBSET (1..0) : s = {}
    OBVIOUS
  <2>2. iter \in [SUBSET (1..0) -> T] /\ IsFold(0, base, step, iter)
    BY <2>1 DEF IsFold
  <2> HIDE DEF iter
  <2> QED
    BY <2>2
<1>2. ASSUME NEW m \in Nat, Has(m), m + 1 \in 0..n
      PROVE  \E iter \in [SUBSET (1..m+1) -> T] : IsFold(m + 1, base, step, iter)
  <2>1. PICK g \in [SUBSET (1..m) -> T] : IsFold(m, base, step, g)
    <3>1. m \in 0..n
      BY <1>2
    <3> QED
      BY <1>2, <3>1
  <2> DEFINE f == [s \in SUBSET (1..m+1) |->
                     IF m + 1 \in s THEN step[<<m + 1, g[s \ {m + 1}]>>] ELSE g[s]]
  <2>2. \A s \in SUBSET (1..m+1) : s \ {m + 1} \in SUBSET (1..m)
    OBVIOUS
  <2>3. \A s \in SUBSET (1..m+1) : m + 1 \notin s => s \in SUBSET (1..m)
    BY <2>2
  <2>4. m + 1 \in 1..n
    BY <1>2
  <2>5. f \in [SUBSET (1..m+1) -> T]
    <3> SUFFICES ASSUME NEW s \in SUBSET (1..m+1)
                 PROVE  f[s] \in T
      OBVIOUS
    <3>1. CASE m + 1 \in s
      <4>1. g[s \ {m + 1}] \in T
        BY <2>2
      <4> QED
        BY <2>4, <3>1, <4>1
    <3>2. CASE m + 1 \notin s
      <4>1. g[s] \in T
        BY <2>3, <3>2
      <4> QED
        BY <3>2, <4>1
    <3> QED
      BY <3>1, <3>2
  <2>6. \A s \in SUBSET (1..m) : f[s] = g[s]
    <3> TAKE s \in SUBSET (1..m)
    <3>1. m + 1 \notin s /\ s \in SUBSET (1..m+1)
      OBVIOUS
    <3> QED
      BY <3>1
  <2>7. ASSUME NEW s \in SUBSET (1..m+1), s # {}
        PROVE  f[s] = step[<<Max(s), f[s \ {Max(s)}]>>]
    <3>1. Max(s) \in s /\ \A y \in s : y <= Max(s)
      BY <2>7, MaxOfNumbers, m + 1 \in Nat
    <3>2. CASE m + 1 \in s
      <4>1. Max(s) = m + 1
        <5>1. Max(s) \in 1..m+1 /\ m + 1 <= Max(s)
          BY <3>1, <3>2
        <5> QED
          BY <5>1
      <4>2. f[s] = step[<<m + 1, g[s \ {m + 1}]>>]
        BY <3>2
      <4>3. f[s \ {m + 1}] = g[s \ {m + 1}]
        BY <2>2, <2>6
      <4> QED
        BY <4>1, <4>2, <4>3
    <3>3. CASE m + 1 \notin s
      <4>1. s \in SUBSET (1..m) /\ s \ {Max(s)} \in SUBSET (1..m)
        BY <2>3, <3>3
      <4>2. g[s] = step[<<Max(s), g[s \ {Max(s)}]>>]
        BY <2>1, <2>7, <4>1 DEF IsFold
      <4> QED
        BY <2>6, <4>1, <4>2
    <3> QED
      BY <3>2, <3>3
  <2>8. f[{}] = base
    <3>1. {} \in SUBSET (1..m) /\ g[{}] = base
      BY <2>1 DEF IsFold
    <3> QED
      BY <2>6, <3>1
  <2> HIDE DEF f
  <2>9. IsFold(m + 1, base, step, f)
    <3>1. \A s \in SUBSET (1..m+1) :
             f[s] = IF s = {} THEN base ELSE step[<<Max(s), f[s \ {Max(s)}]>>]
      BY <2>7, <2>8
    <3>2. f = [s \in SUBSET (1..m+1) |-> f[s]]
      BY <2>5
    <3> QED
      BY <3>1, <3>2, Zenon DEF IsFold
  <2> QED
    BY <2>5, <2>9
<1>3. ASSUME NEW m \in Nat, Has(m) PROVE Has(m + 1)
  BY <1>2, <1>3
<1> HIDE DEF Has
<1>6. \A m \in Nat : m \in S => m + 1 \in S
  BY <1>3
<1>4. Nat \subseteq S
  <2> HIDE DEF S
  <2> QED
    BY <1>1, <1>6, Induction
<1>5. Has(n) /\ n \in 0..n
  BY <1>4
<1> QED
  BY <1>5 DEF Has

(* The largest of the first numbers, and the others.                        *)
LEMMA IntervalTop ==
  ASSUME NEW i \in Nat
  PROVE  Max(1..i+1) = i + 1 /\ (1..i+1) \ {i + 1} = 1..i
<1>1. 1..i+1 # {} /\ i + 1 \in 1..i+1 /\ i + 1 \in Nat
  OBVIOUS
<1>2. Max(1..i+1) \in 1..i+1 /\ \A y \in 1..i+1 : y <= Max(1..i+1)
  BY <1>1, MaxOfNumbers
<1>3. Max(1..i+1) = i + 1
  BY <1>1, <1>2
<1>4. (1..i+1) \ {i + 1} = 1..i
  OBVIOUS
<1> QED
  BY <1>3, <1>4

-----------------------------------------------------------------------------
(* What stays of a sequence when some values are taken out of it.           *)

(* part holds, in their order, the values of the first i elements of whole  *)
(* that are not gone: its j-th element is element place[j] of whole.        *)
Picks(whole, gone, i, part, place) ==
  /\ \A j \in 1..Len(part) : place[j] \in 1..i /\ part[j] = whole[place[j]] /\ part[j] \notin gone
  /\ \A j, l \in 1..Len(part) : j < l => place[j] < place[l]
  /\ \A m \in 1..i : whole[m] \in gone \/ \E j \in 1..Len(part) : place[j] = m

(* One element more.                                                        *)
LEMMA PicksAppend ==
  ASSUME NEW A, NEW whole \in Seq(A), NEW gone, NEW i \in Nat, i + 1 \in 1..Len(whole),
         NEW part \in Seq(A), NEW place, Picks(whole, gone, i, part, place)
  PROVE  /\ whole[i+1] \in gone => Picks(whole, gone, i + 1, part, place)
         /\ whole[i+1] \notin gone =>
              \E place2 : Picks(whole, gone, i + 1, Append(part, whole[i+1]), place2)
<1> DEFINE n == Len(part)
           x == whole[i+1]
           p2 == [j \in 1..n+1 |-> IF j = n + 1 THEN i + 1 ELSE place[j]]
           part2 == Append(part, x)
<1>0. n \in Nat /\ x \in A
  OBVIOUS
<1>1. ASSUME x \in gone PROVE Picks(whole, gone, i + 1, part, place)
  <2>1. \A m \in 1..i+1 : m \in 1..i \/ m = i + 1
    OBVIOUS
  <2>2. 1..i \subseteq 1..i+1
    OBVIOUS
  <2> QED
    BY <1>1, <2>1, <2>2 DEF Picks
<1>2. ASSUME x \notin gone PROVE Picks(whole, gone, i + 1, part2, p2)
  <2>1. Len(part2) = n + 1 /\ part2[n+1] = x /\ \A j \in 1..n : part2[j] = part[j]
    BY <1>0
  <2>2. p2[n+1] = i + 1 /\ \A j \in 1..n : p2[j] = place[j]
    BY <1>0
  <2>3. \A j \in 1..n : place[j] \in 1..i /\ part[j] = whole[place[j]] /\ part[j] \notin gone
    BY DEF Picks
  <2>4. \A j, l \in 1..n : j < l => place[j] < place[l]
    BY DEF Picks
  <2>5. \A m \in 1..i : whole[m] \in gone \/ \E j \in 1..n : place[j] = m
    BY DEF Picks
  <2>6. \A j \in 1..n+1 : j \in 1..n \/ j = n + 1
    BY <1>0
  <2>7. \A m \in 1..i+1 : m \in 1..i \/ m = i + 1
    OBVIOUS
  <2>8. 1..n \subseteq 1..n+1 /\ n + 1 \in 1..n+1 /\ 1..i \subseteq 1..i+1 /\ i + 1 \in 1..i+1
    BY <1>0
  <2> HIDE DEF p2, part2, n, x
  <2>9. \A j \in 1..n+1 : p2[j] \in 1..i+1 /\ part2[j] = whole[p2[j]] /\ part2[j] \notin gone
    <3>1. part2[n+1] = whole[i+1]
      BY <2>1 DEF x
    <3> QED
      BY <1>2, <2>1, <2>2, <2>3, <2>6, <2>8, <3>1
  <2>10. \A j, l \in 1..n+1 : j < l => p2[j] < p2[l]
    <3> TAKE j, l \in 1..n+1
    <3> HAVE j < l
    <3>1. j \in 1..n
      BY <1>0
    <3>2. CASE l \in 1..n
      BY <2>2, <2>4, <3>1, <3>2
    <3>3. CASE l = n + 1
      BY <2>2, <2>3, <3>1, <3>3
    <3> QED
      BY <2>6, <3>2, <3>3
  <2>11. \A m \in 1..i+1 : whole[m] \in gone \/ \E j \in 1..n+1 : p2[j] = m
    BY <2>2, <2>5, <2>7, <2>8
  <2> QED
    BY <2>1, <2>9, <2>10, <2>11 DEF Picks
<1> HIDE DEF p2
<1> QED
  BY <1>1, <1>2

(* The elements of a sequence that are not gone, as a fold.                 *)
Kept(whole, gone) ==
  FoldLeft(LAMBDA part, x : IF x \in gone THEN part ELSE Append(part, x), <<>>, whole)

(* It is what its name says.                                                *)
LEMMA RetainPicks ==
  ASSUME NEW A, NEW whole \in Seq(A), NEW gone
  PROVE  Kept(whole, gone) \in Seq(A) /\ \E place : Picks(whole, gone, Len(whole), Kept(whole, gone), place)
<1> DEFINE n == Len(whole)
           step == [p \in (1..n) \X Seq(A) |->
                      IF whole[p[1]] \in gone THEN p[2] ELSE Append(p[2], whole[p[1]])]
           iter == CHOOSE f : f = [s \in SUBSET (DOMAIN whole) |->
                      IF s = {} THEN <<>>
                      ELSE IF whole[Max(s)] \in gone THEN f[s \ {Max(s)}]
                           ELSE Append(f[s \ {Max(s)}], whole[Max(s)])]
           kept == Kept(whole, gone)
<1>1. n \in Nat /\ DOMAIN whole = 1..n /\ <<>> \in Seq(A)
  OBVIOUS
<1>2. kept = iter[DOMAIN whole]
  BY DEF Kept, FoldLeft, MapThenFoldSet
<1>3. step \in [(1..n) \X Seq(A) -> Seq(A)]
  OBVIOUS
<1>4. PICK g \in [SUBSET (1..n) -> Seq(A)] : IsFold(n, <<>>, step, g)
  <2> HIDE DEF step, n
  <2> QED
    BY <1>1, <1>3, FoldExists
<1>5. g = [s \in SUBSET (DOMAIN whole) |->
             IF s = {} THEN <<>>
             ELSE IF whole[Max(s)] \in gone THEN g[s \ {Max(s)}]
                  ELSE Append(g[s \ {Max(s)}], whole[Max(s)])]
  <2>1. ASSUME NEW s \in SUBSET (1..n), s # {}
        PROVE  step[<<Max(s), g[s \ {Max(s)}]>>]
                 = IF whole[Max(s)] \in gone THEN g[s \ {Max(s)}]
                   ELSE Append(g[s \ {Max(s)}], whole[Max(s)])
    <3>1. Max(s) \in 1..n /\ g[s \ {Max(s)}] \in Seq(A)
      BY <1>1, <2>1, MaxOfNumbers
    <3> QED
      BY <3>1
  <2> HIDE DEF step
  <2> QED
    BY <1>1, <1>4, <2>1 DEF IsFold
<1>6. iter = [s \in SUBSET (DOMAIN whole) |->
                IF s = {} THEN <<>>
                ELSE IF whole[Max(s)] \in gone THEN iter[s \ {Max(s)}]
                     ELSE Append(iter[s \ {Max(s)}], whole[Max(s)])]
  BY <1>5
<1> HIDE DEF iter, step
<1>7. iter[1..0] = <<>>
  <2>1. 1..0 = {} /\ {} \in SUBSET (DOMAIN whole)
    OBVIOUS
  <2>2. iter[{}] = <<>>
    BY <1>6, <2>1
  <2> QED
    BY <2>1, <2>2
<1>8. ASSUME NEW i \in 0..n-1
      PROVE  iter[1..i+1] = IF whole[i+1] \in gone THEN iter[1..i] ELSE Append(iter[1..i], whole[i+1])
  <2>1. 1..i+1 \subseteq 1..n /\ i + 1 \in 1..i+1 /\ i \in Nat
    BY <1>1
  <2>2. Max(1..i+1) = i + 1 /\ (1..i+1) \ {i + 1} = 1..i
    BY <2>1, IntervalTop
  <2>3. 1..i+1 \in SUBSET (DOMAIN whole) /\ 1..i+1 # {}
    BY <1>1, <2>1
  <2> QED
    BY <1>6, <2>2, <2>3
<1> DEFINE Good(i) == i \in 0..n =>
             iter[1..i] \in Seq(A) /\ \E place : Picks(whole, gone, i, iter[1..i], place)
           S == {i \in Nat : Good(i)}
<1>9. Good(0)
  <2>1. Picks(whole, gone, 0, <<>>, <<>>)
    BY DEF Picks
  <2> QED
    BY <1>1, <1>7, <2>1
<1>10. ASSUME NEW i \in Nat, Good(i) PROVE Good(i + 1)
  <2> SUFFICES ASSUME i + 1 \in 0..n
               PROVE  iter[1..i+1] \in Seq(A)
                      /\ \E place : Picks(whole, gone, i + 1, iter[1..i+1], place)
    OBVIOUS
  <2>1. i \in 0..n-1 /\ i \in 0..n /\ i + 1 \in 1..n
    BY <1>1
  <2>2. PICK place : iter[1..i] \in Seq(A) /\ Picks(whole, gone, i, iter[1..i], place)
    BY <1>10, <2>1
  <2>3. /\ whole[i+1] \in gone => Picks(whole, gone, i + 1, iter[1..i], place)
        /\ whole[i+1] \notin gone =>
             \E place2 : Picks(whole, gone, i + 1, Append(iter[1..i], whole[i+1]), place2)
    BY <2>1, <2>2, PicksAppend
  <2>4. whole[i+1] \in A
    BY <2>1
  <2>5. iter[1..i+1] = IF whole[i+1] \in gone THEN iter[1..i] ELSE Append(iter[1..i], whole[i+1])
    BY <1>8, <2>1
  <2>6. CASE whole[i+1] \in gone
    <3>1. iter[1..i+1] = iter[1..i]
      BY <2>5, <2>6
    <3> QED
      BY <2>2, <2>3, <2>6, <3>1
  <2>7. CASE whole[i+1] \notin gone
    <3>1. iter[1..i+1] = Append(iter[1..i], whole[i+1])
      BY <2>5, <2>7
    <3>2. Append(iter[1..i], whole[i+1]) \in Seq(A)
      BY <2>2, <2>4
    <3> QED
      BY <2>3, <2>7, <3>1, <3>2
  <2> QED
    BY <2>6, <2>7
<1> HIDE DEF Good
<1>11. \A i \in Nat : i \in S => i + 1 \in S
  BY <1>10
<1>12. Nat \subseteq S
  <2>1. 0 \in S
    BY <1>9
  <2> HIDE DEF S
  <2> QED
    BY <1>11, <2>1, Induction
<1>13. Good(n) /\ n \in 0..n
  BY <1>1, <1>12
<1>14. iter[DOMAIN whole] \in Seq(A) /\ \E place : Picks(whole, gone, n, iter[DOMAIN whole], place)
  BY <1>1, <1>13 DEF Good
<1> HIDE DEF kept
<1>15. kept \in Seq(A) /\ \E place : Picks(whole, gone, n, kept, place)
  BY <1>2, <1>14
<1> QED
  BY <1>15 DEF kept

(* What a sequence of distinct elements keeps.                              *)
LEMMA RetainKeeps ==
  ASSUME NEW A, NEW whole \in Seq(A), NEW gone
  PROVE  /\ Kept(whole, gone) \in Seq(A)
         /\ Range(Kept(whole, gone)) = Range(whole) \ gone
         /\ IsInjective(whole) => IsInjective(Kept(whole, gone))
         /\ Len(Kept(whole, gone)) <= Len(whole)
<1> DEFINE kept == Kept(whole, gone)
           n == Len(whole)
           m == Len(kept)
<1>1. PICK place : kept \in Seq(A) /\ Picks(whole, gone, n, kept, place)
  BY RetainPicks
<1> HIDE DEF kept
<1>2. n \in Nat /\ m \in Nat /\ DOMAIN whole = 1..n /\ DOMAIN kept = 1..m
  BY <1>1
<1>3. \A j \in 1..m : place[j] \in 1..n /\ kept[j] = whole[place[j]] /\ kept[j] \notin gone
  BY <1>1 DEF Picks
<1>4. \A j, l \in 1..m : j < l => place[j] < place[l]
  BY <1>1 DEF Picks
<1>5. \A i \in 1..n : whole[i] \in gone \/ \E j \in 1..m : place[j] = i
  BY <1>1 DEF Picks
<1>6. Range(kept) = Range(whole) \ gone
  <2>1. Range(kept) = {kept[j] : j \in 1..m} /\ Range(whole) = {whole[i] : i \in 1..n}
    BY <1>2 DEF Range
  <2>2. \A j \in 1..m : kept[j] \in {whole[i] : i \in 1..n} \ gone
    BY <1>3
  <2>3. \A i \in 1..n : whole[i] \in gone \/ whole[i] \in {kept[j] : j \in 1..m}
    <3> TAKE i \in 1..n
    <3>1. CASE whole[i] \notin gone
      <4>1. PICK j \in 1..m : place[j] = i
        BY <1>5, <3>1
      <4>2. kept[j] = whole[i]
        BY <1>3, <4>1
      <4> QED
        BY <4>2
    <3> QED
      BY <3>1
  <2> HIDE DEF m, n
  <2>4. {kept[j] : j \in 1..m} = {whole[i] : i \in 1..n} \ gone
    BY <2>2, <2>3
  <2> QED
    BY <2>1, <2>4
<1>7. ASSUME IsInjective(whole) PROVE IsInjective(kept)
  <2> SUFFICES ASSUME NEW j \in 1..m, NEW l \in 1..m, kept[j] = kept[l], j # l
               PROVE  FALSE
    BY <1>2 DEF IsInjective
  <2>1. place[j] # place[l]
    BY <1>3, <1>4
  <2> QED
    BY <1>2, <1>3, <1>7, <2>1 DEF IsInjective
<1>8. m <= n
  <2> DEFINE f == [j \in 1..m |-> place[j]]
  <2>1. IsFiniteSet(1..m) /\ Cardinality(1..m) = m /\ IsFiniteSet(1..n) /\ Cardinality(1..n) = n
    <3> HIDE DEF m, n
    <3> QED
      BY <1>2, FS_Interval
  <2>2. f \in Injection(1..m, 1..n)
    <3>1. f \in [1..m -> 1..n]
      BY <1>3
    <3>2. \A j, l \in 1..m : place[j] = place[l] => j = l
      BY <1>3, <1>4
    <3>3. \A j, l \in 1..m : f[j] = f[l] => j = l
      BY <3>2
    <3> HIDE DEF f
    <3> QED
      BY <3>1, <3>3 DEF Injection, IsInjective
  <2> HIDE DEF f
  <2> QED
    BY <2>1, <2>2, FS_Injection
<1> QED
  BY <1>1, <1>6, <1>7, <1>8 DEF kept

-----------------------------------------------------------------------------
(* Queues of distinct elements.                                             *)

(* The elements of a sequence.                                              *)
LEMMA RangeIs ==
  ASSUME NEW A, NEW s \in Seq(A)
  PROVE  /\ Range(s) = {s[i] : i \in 1..Len(s)} /\ Range(s) \subseteq A
         /\ IsFiniteSet(Range(s))
         /\ IsInjective(s) <=> \A i, j \in 1..Len(s) : s[i] = s[j] => i = j
         /\ IsInjective(s) => Cardinality(Range(s)) = Len(s)
<1> DEFINE n == Len(s)
           f == [i \in 1..n |-> s[i]]
<1>1. n \in Nat /\ DOMAIN s = 1..n /\ \A i \in 1..n : s[i] \in A
  OBVIOUS
<1>2. Range(s) = {s[i] : i \in 1..n} /\ Range(s) \subseteq A
  BY <1>1 DEF Range
<1>3. IsInjective(s) <=> \A i, j \in 1..n : s[i] = s[j] => i = j
  BY <1>1 DEF IsInjective
<1> HIDE DEF n
<1>4. IsFiniteSet(1..n) /\ Cardinality(1..n) = n
  BY <1>1, FS_Interval
<1>5. f \in Surjection(1..n, Range(s))
  BY <1>2 DEF Surjection
<1>6. IsFiniteSet(Range(s))
  <2> HIDE DEF f
  <2> QED
    BY <1>4, <1>5, FS_Surjection
<1>7. ASSUME IsInjective(s) PROVE Cardinality(Range(s)) = n
  <2>1. f \in Bijection(1..n, Range(s))
    BY <1>3, <1>5, <1>7 DEF Bijection, Injection, Surjection, IsInjective
  <2>2. Cardinality(1..n) = Cardinality(Range(s))
    <3> HIDE DEF f
    <3> QED
      <4>1. ExistsBijection(1..n, Range(s))
        BY <2>1 DEF ExistsBijection
      <4> QED
        BY <1>4, <4>1, FS_Bijection
  <2> QED
    BY <1>4, <2>2
<1> QED
  BY <1>2, <1>3, <1>6, <1>7 DEF n

(* One element more at the end.                                             *)
LEMMA AppendQueue ==
  ASSUME NEW A, NEW s \in Seq(A), NEW x \in A
  PROVE  /\ Append(s, x) \in Seq(A) /\ Len(Append(s, x)) = Len(s) + 1
         /\ Range(Append(s, x)) = Range(s) \cup {x}
         /\ IsInjective(s) /\ x \notin Range(s) => IsInjective(Append(s, x))
<1> DEFINE t == Append(s, x)
           n == Len(s)
<1>1. n \in Nat /\ t \in Seq(A) /\ Len(t) = n + 1 /\ t[n+1] = x /\ \A i \in 1..n : t[i] = s[i]
  OBVIOUS
<1>2. \A i \in 1..n+1 : i \in 1..n \/ i = n + 1
  BY <1>1
<1>3. 1..n \subseteq 1..n+1 /\ n + 1 \in 1..n+1 /\ n + 1 \notin 1..n
  BY <1>1
<1>4. Range(t) = {t[i] : i \in 1..n+1} /\ Range(s) = {s[i] : i \in 1..n}
  BY <1>1, RangeIs
<1> HIDE DEF t, n
<1>5. Range(t) = Range(s) \cup {x}
  BY <1>1, <1>2, <1>3, <1>4
<1>6. ASSUME IsInjective(s), x \notin Range(s) PROVE IsInjective(t)
  <2>1. \A i, j \in 1..n : s[i] = s[j] => i = j
    BY <1>6, RangeIs DEF n
  <2>2. \A i \in 1..n : s[i] # x
    BY <1>4, <1>6
  <2>3. \A i, j \in 1..n+1 : t[i] = t[j] => i = j
    BY <1>1, <1>2, <2>1, <2>2
  <2> QED
    BY <1>1, <2>3, RangeIs
<1> QED
  BY <1>1, <1>5, <1>6 DEF t, n

(* One element less at the front.                                           *)
LEMMA TailQueue ==
  ASSUME NEW A, NEW s \in Seq(A), s # <<>>, IsInjective(s)
  PROVE  /\ Head(s) \in Range(s) /\ Head(s) = s[1]
         /\ Tail(s) \in Seq(A) /\ Len(Tail(s)) = Len(s) - 1
         /\ Range(Tail(s)) = Range(s) \ {Head(s)}
         /\ IsInjective(Tail(s))
<1> DEFINE t == Tail(s)
           n == Len(s)
<1>1. /\ n \in Nat /\ n >= 1 /\ t \in Seq(A) /\ Len(t) = n - 1 /\ Head(s) = s[1]
      /\ \A i \in 1..n-1 : t[i] = s[i+1]
  OBVIOUS
<1>2. /\ \A i \in 1..n-1 : i + 1 \in 1..n /\ i + 1 # 1
      /\ \A j \in 1..n : j = 1 \/ (j - 1 \in 1..n-1 /\ (j - 1) + 1 = j)
      /\ 1 \in 1..n
  BY <1>1
<1>3. Range(t) = {t[i] : i \in 1..n-1} /\ Range(s) = {s[i] : i \in 1..n}
  <2>1. Range(s) = {s[i] : i \in 1..n}
    BY RangeIs
  <2>2. t \in Seq(A) /\ Len(t) = n - 1
    BY <1>1
  <2> HIDE DEF t, n
  <2>3. Range(t) = {t[i] : i \in 1..n-1}
    BY <2>2, RangeIs
  <2> QED
    BY <2>1, <2>3
<1>4. \A i, j \in 1..n : s[i] = s[j] => i = j
  BY RangeIs
<1> HIDE DEF t, n
<1>5. Range(t) \subseteq Range(s) \ {s[1]}
  <2>1. ASSUME NEW i \in 1..n-1 PROVE t[i] \in Range(s) \ {s[1]}
    <3>1. s[i+1] # s[1] /\ s[i+1] \in Range(s)
      BY <1>2, <1>3, <1>4
    <3> QED
      BY <1>1, <3>1
  <2> QED
    BY <1>3, <2>1
<1>6. Range(s) \ {s[1]} \subseteq Range(t)
  <2>1. ASSUME NEW j \in 1..n, j # 1 PROVE s[j] \in Range(t)
    <3>1. j - 1 \in 1..n-1 /\ (j - 1) + 1 = j
      BY <1>2, <2>1
    <3>2. t[j-1] = s[j]
      BY <1>1, <3>1
    <3> QED
      BY <1>3, <3>1, <3>2
  <2> QED
    BY <1>3, <2>1
<1>7. IsInjective(t)
  <2>1. \A i, j \in 1..n-1 : t[i] = t[j] => i = j
    <3> TAKE i, j \in 1..n-1
    <3> HAVE t[i] = t[j]
    <3>1. i + 1 = j + 1
      BY <1>1, <1>2, <1>4
    <3> QED
      BY <3>1
  <2> QED
    BY <1>1, <2>1, RangeIs
<1> QED
  BY <1>1, <1>2, <1>3, <1>5, <1>6, <1>7 DEF t, n

-----------------------------------------------------------------------------
(* Ceilings and sums.                                                       *)

(* A ceiling is the least multiplier that reaches.                          *)
LEMMA CeilingIs ==
  ASSUME NEW a \in Nat, NEW b \in Nat \ {0}
  PROVE  LET c == (a + b - 1) \div b IN
         /\ c \in Nat
         /\ a <= c * b
         /\ (c - 1) * b < a
         /\ \A q \in Nat : a <= q * b => c <= q
<1> DEFINE c == (a + b - 1) \div b
           r == (a + b - 1) % b
<1>1. c \in Nat /\ r \in 0..b-1 /\ a + b - 1 = b * c + r
  <2>1. a + b - 1 \in Nat
    OBVIOUS
  <2> QED
    BY <2>1
<1> HIDE DEF c, r
<1>2. (c - 1) * b = b * c - b /\ c * b = b * c
  BY <1>1
<1>3. ASSUME NEW q \in Nat, a <= q * b PROVE c <= q
  <2> SUFFICES ASSUME c > q PROVE FALSE
    BY <1>1
  <2>1. PICK e \in Nat : c = q + 1 + e
    BY <1>1
  <2>2. b * c = q * b + b + e * b /\ e * b \in Nat /\ q * b \in Nat
    BY <2>1
  <2> QED
    BY <1>1, <1>3, <2>2
<1>4. b * c \in Int
  BY <1>1
<1>5. c \in Nat /\ a <= c * b /\ (c - 1) * b < a
  BY <1>1, <1>2, <1>4
<1> QED
  BY <1>3, <1>5 DEF c

(* The sum of a sequence, as a fold.                                        *)
SumOf(counts) == FoldLeft(+, 0, counts)

(* It grows by one element after the other.                                 *)
LEMMA SumUnfolds ==
  ASSUME NEW n \in Nat, NEW counts \in [1..n -> Nat]
  PROVE  \E total \in [0..n -> Nat] :
           /\ total[0] = 0 /\ SumOf(counts) = total[n]
           /\ \A i \in 0..n-1 : total[i+1] = total[i] + counts[i+1]
<1> DEFINE step == [p \in (1..n) \X Nat |-> p[2] + counts[p[1]]]
           iter == CHOOSE f : f = [s \in SUBSET (DOMAIN counts) |->
                      IF s = {} THEN 0 ELSE f[s \ {Max(s)}] + counts[Max(s)]]
<1>1. SumOf(counts) = iter[DOMAIN counts] /\ DOMAIN counts = 1..n
  BY DEF SumOf, FoldLeft, MapThenFoldSet
<1>2. step \in [(1..n) \X Nat -> Nat]
  OBVIOUS
<1>3. PICK g \in [SUBSET (1..n) -> Nat] : IsFold(n, 0, step, g)
  <2>1. 0 \in Nat
    OBVIOUS
  <2> HIDE DEF step
  <2> QED
    BY <1>2, <2>1, FoldExists
<1>4. g = [s \in SUBSET (DOMAIN counts) |->
             IF s = {} THEN 0 ELSE g[s \ {Max(s)}] + counts[Max(s)]]
  <2>1. ASSUME NEW s \in SUBSET (1..n), s # {}
        PROVE  step[<<Max(s), g[s \ {Max(s)}]>>] = g[s \ {Max(s)}] + counts[Max(s)]
    <3>1. Max(s) \in 1..n /\ g[s \ {Max(s)}] \in Nat
      BY <2>1, MaxOfNumbers
    <3> QED
      BY <3>1
  <2> HIDE DEF step
  <2> QED
    BY <1>1, <1>3, <2>1 DEF IsFold
<1>5. iter = [s \in SUBSET (DOMAIN counts) |->
                IF s = {} THEN 0 ELSE iter[s \ {Max(s)}] + counts[Max(s)]]
  BY <1>4
<1> HIDE DEF iter, step
<1>6. iter[1..0] = 0
  <2>1. 1..0 = {} /\ {} \in SUBSET (DOMAIN counts)
    OBVIOUS
  <2>2. iter[{}] = 0
    BY <1>5, <2>1
  <2> QED
    BY <2>1, <2>2
<1>7. ASSUME NEW i \in 0..n-1 PROVE iter[1..i+1] = iter[1..i] + counts[i+1]
  <2>1. 1..i+1 \subseteq 1..n /\ i + 1 \in 1..i+1 /\ i \in Nat
    OBVIOUS
  <2>2. Max(1..i+1) = i + 1 /\ (1..i+1) \ {i + 1} = 1..i
    BY <2>1, IntervalTop
  <2>3. 1..i+1 \in SUBSET (DOMAIN counts) /\ 1..i+1 # {}
    BY <1>1, <2>1
  <2>4. ASSUME NEW s \in SUBSET (DOMAIN counts), s # {}
        PROVE  iter[s] = iter[s \ {Max(s)}] + counts[Max(s)]
    BY <1>5, <2>4
  <2>5. iter[1..i+1] = iter[(1..i+1) \ {Max(1..i+1)}] + counts[Max(1..i+1)]
    BY <2>3, <2>4
  <2> QED
    BY <2>2, <2>5
<1> DEFINE S == {i \in Nat : i <= n => iter[1..i] \in Nat}
<1>8. 0 \in S
  BY <1>6
<1>9. ASSUME NEW i \in Nat, i \in S PROVE i + 1 \in S
  <2> SUFFICES ASSUME i + 1 <= n PROVE iter[1..i+1] \in Nat
    OBVIOUS
  <2>1. i \in 0..n-1 /\ i <= n /\ i + 1 \in 1..n
    OBVIOUS
  <2>2. iter[1..i] \in Nat
    BY <1>9, <2>1
  <2>3. counts[i+1] \in Nat
    BY <2>1
  <2> QED
    BY <1>7, <2>1, <2>2, <2>3
<1>10. Nat \subseteq S
  <2> HIDE DEF S
  <2> QED
    BY <1>8, <1>9, Induction
<1> DEFINE total == [i \in 0..n |-> iter[1..i]]
<1>11. total \in [0..n -> Nat]
  BY <1>10
<1>12. /\ total[0] = 0 /\ total[n] = iter[1..n]
       /\ \A i \in 0..n-1 : total[i+1] = iter[1..i+1] /\ total[i] = iter[1..i]
  BY <1>6
<1> HIDE DEF total
<1> QED
  BY <1>1, <1>7, <1>11, <1>12

(* A sum is no less than any element of it.                                 *)
LEMMA SumBounds ==
  ASSUME NEW n \in Nat, NEW counts \in [1..n -> Nat]
  PROVE  SumOf(counts) \in Nat /\ \A i \in 1..n : counts[i] <= SumOf(counts)
<1>1. PICK total \in [0..n -> Nat] :
        /\ total[0] = 0 /\ SumOf(counts) = total[n]
        /\ \A i \in 0..n-1 : total[i+1] = total[i] + counts[i+1]
  BY SumUnfolds
<1> DEFINE S == {m \in Nat : m <= n => \A i \in 1..m : counts[i] <= total[m]}
<1>2. 0 \in S
  OBVIOUS
<1>3. ASSUME NEW m \in Nat, m \in S PROVE m + 1 \in S
  <2> SUFFICES ASSUME m + 1 <= n, NEW i \in 1..m+1 PROVE counts[i] <= total[m+1]
    OBVIOUS
  <2>1. m \in 0..n-1 /\ m \in 0..n /\ m + 1 \in 1..n /\ m <= n
    OBVIOUS
  <2>2. total[m+1] = total[m] + counts[m+1] /\ total[m] \in Nat /\ counts[m+1] \in Nat
    BY <1>1, <2>1
  <2>3. CASE i = m + 1
    BY <2>2, <2>3
  <2>4. CASE i \in 1..m
    <3>1. counts[i] <= total[m]
      BY <1>3, <2>1, <2>4
    <3>2. counts[i] \in Nat
      BY <2>1, <2>4
    <3> QED
      BY <2>2, <3>1, <3>2
  <2> QED
    BY <2>3, <2>4
<1>4. n \in S
  <2> HIDE DEF S
  <2> QED
    BY <1>2, <1>3, Induction
<1> QED
  BY <1>1, <1>4

(* Sums are added term by term.                                             *)
LEMMA SumAdds ==
  ASSUME NEW n \in Nat, NEW a \in [1..n -> Nat], NEW b \in [1..n -> Nat], NEW c \in [1..n -> Nat],
         \A i \in 1..n : c[i] = a[i] + b[i]
  PROVE  SumOf(a) \in Nat /\ SumOf(b) \in Nat /\ SumOf(c) = SumOf(a) + SumOf(b)
<1>1. PICK x \in [0..n -> Nat] :
        x[0] = 0 /\ SumOf(a) = x[n] /\ \A i \in 0..n-1 : x[i+1] = x[i] + a[i+1]
  BY SumUnfolds
<1>2. PICK y \in [0..n -> Nat] :
        y[0] = 0 /\ SumOf(b) = y[n] /\ \A i \in 0..n-1 : y[i+1] = y[i] + b[i+1]
  BY SumUnfolds
<1>3. PICK z \in [0..n -> Nat] :
        z[0] = 0 /\ SumOf(c) = z[n] /\ \A i \in 0..n-1 : z[i+1] = z[i] + c[i+1]
  BY SumUnfolds
<1> DEFINE S == {m \in Nat : m <= n => z[m] = x[m] + y[m]}
<1>4. 0 \in S
  BY <1>1, <1>2, <1>3
<1>5. ASSUME NEW m \in Nat, m \in S PROVE m + 1 \in S
  <2> SUFFICES ASSUME m + 1 <= n PROVE z[m+1] = x[m+1] + y[m+1]
    OBVIOUS
  <2>1. m \in 0..n-1 /\ m \in 0..n /\ m + 1 \in 1..n /\ m <= n
    OBVIOUS
  <2>2. z[m] = x[m] + y[m] /\ x[m] \in Nat /\ y[m] \in Nat
    BY <1>5, <2>1
  <2>3. c[m+1] = a[m+1] + b[m+1] /\ a[m+1] \in Nat /\ b[m+1] \in Nat
    BY <2>1
  <2>4. /\ x[m+1] = x[m] + a[m+1] /\ y[m+1] = y[m] + b[m+1] /\ z[m+1] = z[m] + c[m+1]
    BY <1>1, <1>2, <1>3, <2>1
  <2>5. z[m] + c[m+1] = (x[m] + a[m+1]) + (y[m] + b[m+1])
    <3> DEFINE u == x[m]
               v == y[m]
               w == a[m+1]
               t == b[m+1]
    <3>1. u \in Nat /\ v \in Nat /\ w \in Nat /\ t \in Nat /\ z[m] = u + v /\ c[m+1] = w + t
      BY <2>2, <2>3
    <3> HIDE DEF u, v, w, t
    <3>2. (u + v) + (w + t) = (u + w) + (v + t)
      BY <3>1
    <3>3. z[m] + c[m+1] = (u + w) + (v + t)
      BY <3>1, <3>2, Zenon
    <3> QED
      BY <3>3 DEF u, v, w, t
  <2> QED
    BY <2>4, <2>5, Zenon
<1>6. n \in S
  <2> HIDE DEF S
  <2> QED
    BY <1>4, <1>5, Induction
<1>7. z[n] = x[n] + y[n] /\ x[n] \in Nat /\ y[n] \in Nat
  BY <1>6
<1> QED
  BY <1>1, <1>2, <1>3, <1>7

(* Two finite sets without a common element.                                *)
LEMMA SizeOfBoth ==
  ASSUME NEW a, NEW b, IsFiniteSet(a), IsFiniteSet(b), a \cap b = {}
  PROVE  IsFiniteSet(a \cup b) /\ Cardinality(a \cup b) = Cardinality(a) + Cardinality(b)
<1>1. /\ IsFiniteSet(a \cup b)
      /\ Cardinality(a \cup b) = Cardinality(a) + Cardinality(b) - Cardinality(a \cap b)
  BY FS_Union
<1>2. Cardinality(a \cap b) = 0 /\ Cardinality(a) \in Nat /\ Cardinality(b) \in Nat
  BY FS_CardinalityType, FS_EmptySet
<1> QED
  BY <1>1, <1>2

(* A finite set in two parts.                                               *)
LEMMA PartSizes ==
  ASSUME NEW a, NEW b, IsFiniteSet(a)
  PROVE  /\ IsFiniteSet(a \ b) /\ IsFiniteSet(a \cap b)
         /\ Cardinality(a \ b) \in Nat /\ Cardinality(a \cap b) \in Nat
         /\ Cardinality(a \ b) + Cardinality(a \cap b) = Cardinality(a)
<1>1. IsFiniteSet(a \ b) /\ IsFiniteSet(a \cap b)
  BY FS_Difference, FS_Intersection
<1>2. (a \ b) \cup (a \cap b) = a /\ (a \ b) \cap (a \cap b) = {}
  OBVIOUS
<1>3. Cardinality((a \ b) \cup (a \cap b)) = Cardinality(a \ b) + Cardinality(a \cap b)
  BY <1>1, <1>2, SizeOfBoth
<1> QED
  BY <1>1, <1>2, <1>3, FS_CardinalityType

(* As many as there are in sets that are pairwise disjoint.                 *)
LEMMA SumOfSizes ==
  ASSUME NEW n \in Nat, NEW s, \A i \in 1..n : IsFiniteSet(s[i]),
         \A i, j \in 1..n : i # j => s[i] \cap s[j] = {}
  PROVE  LET all == UNION {s[i] : i \in 1..n}
         IN IsFiniteSet(all) /\ Cardinality(all) = SumOf([i \in 1..n |-> Cardinality(s[i])])
<1> DEFINE size == [i \in 1..n |-> Cardinality(s[i])]
           Upto(m) == UNION {s[i] : i \in 1..m}
<1>1. size \in [1..n -> Nat]
  BY FS_CardinalityType
<1>2. \A i \in 1..n : size[i] = Cardinality(s[i])
  OBVIOUS
<1> HIDE DEF size
<1>3. PICK x \in [0..n -> Nat] :
        x[0] = 0 /\ SumOf(size) = x[n] /\ \A i \in 0..n-1 : x[i+1] = x[i] + size[i+1]
  BY <1>1, SumUnfolds
<1> DEFINE S == {m \in Nat : m <= n => IsFiniteSet(Upto(m)) /\ Cardinality(Upto(m)) = x[m]}
<1>4. 0 \in S
  <2>1. Upto(0) = {}
    OBVIOUS
  <2> QED
    BY <1>3, <2>1, FS_EmptySet
<1>5. ASSUME NEW m \in Nat, m \in S PROVE m + 1 \in S
  <2> SUFFICES ASSUME m + 1 <= n PROVE IsFiniteSet(Upto(m+1)) /\ Cardinality(Upto(m+1)) = x[m+1]
    OBVIOUS
  <2>1. m \in 0..n-1 /\ m + 1 \in 1..n /\ m <= n
    OBVIOUS
  <2>2. IsFiniteSet(Upto(m)) /\ Cardinality(Upto(m)) = x[m]
    BY <1>5, <2>1
  <2>3. Upto(m+1) = Upto(m) \cup s[m+1]
    <3>1. \A i : i \in 1..m+1 <=> i \in 1..m \/ i = m + 1
      BY <2>1
    <3> QED
      BY <3>1
  <2>4. Upto(m) \cap s[m+1] = {}
    <3>1. \A i \in 1..m : i \in 1..n /\ i # m + 1
      BY <2>1
    <3>2. \A i \in 1..m : s[i] \cap s[m+1] = {}
      BY <2>1, <3>1
    <3> QED
      BY <3>2
  <2> HIDE DEF Upto, S
  <2>5. IsFiniteSet(s[m+1]) /\ Cardinality(s[m+1]) \in Nat /\ size[m+1] = Cardinality(s[m+1])
    BY <1>2, <2>1, FS_CardinalityType
  <2>6. x[m+1] = x[m] + size[m+1] /\ x[m] \in Nat
    BY <1>3, <2>1
  <2>7. /\ IsFiniteSet(Upto(m) \cup s[m+1])
        /\ Cardinality(Upto(m) \cup s[m+1]) = Cardinality(Upto(m)) + Cardinality(s[m+1])
    BY <2>2, <2>4, <2>5, SizeOfBoth
  <2>8. Cardinality(Upto(m) \cup s[m+1]) = x[m+1]
    BY <2>2, <2>5, <2>6, <2>7, Zenon
  <2> QED
    BY <2>3, <2>7, <2>8, Zenon
<1>6. n \in S
  <2> HIDE DEF S
  <2> QED
    BY <1>4, <1>5, Induction
<1> HIDE DEF Upto
<1>7. IsFiniteSet(Upto(n)) /\ Cardinality(Upto(n)) = SumOf(size)
  BY <1>3, <1>6
<1> QED
  BY <1>7 DEF Upto, size

(* Flattened sequences are as long as all of them together.                 *)
LEMMA FlattenLength ==
  ASSUME NEW A, NEW ss \in Seq(Seq(A))
  PROVE  Len(FlattenSeq(ss)) = SumOf([i \in 1..Len(ss) |-> Len(ss[i])])
<1> DEFINE n == Len(ss)
           counts == [i \in 1..n |-> Len(ss[i])]
<1>1. n \in Nat /\ counts \in [1..n -> Nat] /\ \A i \in 1..n : counts[i] = Len(ss[i]) /\ ss[i] \in Seq(A)
  OBVIOUS
<1> HIDE DEF counts
<1>2. PICK total \in [0..n -> Nat] :
        /\ total[0] = 0 /\ SumOf(counts) = total[n]
        /\ \A i \in 0..n-1 : total[i+1] = total[i] + counts[i+1]
  BY <1>1, SumUnfolds
<1>3. CASE n = 0
  <2>1. FlattenSeq(ss) = <<>>
    BY <1>3 DEF FlattenSeq
  <2> QED
    BY <1>2, <1>3, <2>1 DEF counts
<1>4. CASE n # 0
  <2>1. PICK f : /\ FlattenSeq(ss) = f[n] /\ f[1] = ss[1]
                 /\ \A i \in 1..n : i + 1 \in 1..n => f[i+1] = f[i] \o ss[i+1]
    BY <1>4, FlattenUnfolds
  <2> DEFINE T == {i \in Nat : i \in 1..n => f[i] \in Seq(A) /\ Len(f[i]) = total[i]}
  <2> HIDE DEF n
  <2>2. 0 \in T
    OBVIOUS
  <2>3. ASSUME NEW i \in Nat, i \in T PROVE i + 1 \in T
    <3> SUFFICES ASSUME i + 1 \in 1..n PROVE f[i+1] \in Seq(A) /\ Len(f[i+1]) = total[i+1]
      OBVIOUS
    <3>1. i \in 0..n-1 /\ ss[i+1] \in Seq(A) /\ counts[i+1] = Len(ss[i+1])
      BY <1>1
    <3>2. total[i+1] = total[i] + Len(ss[i+1])
      BY <1>2, <3>1
    <3>3. CASE i = 0
      <4>1. f[1] = ss[1] /\ total[1] = 0 + Len(ss[1])
        BY <1>2, <2>1, <3>2, <3>3
      <4> QED
        BY <3>1, <3>3, <4>1
    <3>4. CASE i # 0
      <4>1. i \in 1..n
        BY <1>1, <3>1, <3>4
      <4>2. f[i] \in Seq(A) /\ Len(f[i]) = total[i] /\ f[i+1] = f[i] \o ss[i+1]
        BY <2>1, <2>3, <4>1
      <4> DEFINE s == f[i]
                 t == ss[i+1]
      <4>3. s \in Seq(A) /\ t \in Seq(A)
        BY <3>1, <4>2
      <4> HIDE DEF s, t
      <4>4. s \o t \in Seq(A) /\ Len(s \o t) = Len(s) + Len(t)
        BY <4>3
      <4> QED
        BY <3>2, <4>2, <4>4 DEF s, t
    <3> QED
      BY <3>3, <3>4
  <2>4. Nat \subseteq T
    <3> HIDE DEF T
    <3> QED
      BY <2>2, <2>3, Induction
  <2>5. n \in T /\ n \in 1..n
    BY <1>1, <1>4, <2>4
  <2>6. Len(f[n]) = total[n]
    BY <2>5
  <2> QED
    BY <1>2, <2>1, <2>6 DEF counts, n
<1> QED
  BY <1>3, <1>4

(* The numbers own are given the numbers 1 to m in their order.             *)
RankedBy(own, m, col) ==
  /\ own \in SUBSET Nat /\ m \in Nat
  /\ \A k \in own : col[k] \in 1..m
  /\ \A k, l \in own : k < l => col[k] < col[l]
  /\ \A c \in 1..m : \E k \in own : col[k] = c

(* How many they are, and how many are below one of them.                   *)
LEMMA RanksAreCounts ==
  ASSUME NEW own, NEW m, NEW col, RankedBy(own, m, col)
  PROVE  /\ Cardinality(own) = m
         /\ \A k \in own : Cardinality({j \in own : j < k}) = col[k] - 1
<1> USE DEF RankedBy
<1>1. \A k, l \in own : k < l <=> col[k] < col[l]
  <2> TAKE k, l \in own
  <2>1. k \in Nat /\ l \in Nat /\ col[k] \in Int /\ col[l] \in Int
    OBVIOUS
  <2>2. l < k => col[l] < col[k]
    OBVIOUS
  <2> QED
    BY <2>1, <2>2
<1>2. ASSUME NEW q \in 0..m PROVE Cardinality({j \in own : col[j] <= q}) = q
  <2> DEFINE T == {j \in own : col[j] <= q}
             f == [c \in 1..q |-> CHOOSE k \in own : col[k] = c]
  <2>1. \A c \in 1..q : f[c] \in own /\ col[f[c]] = c
    <3>1. \A c \in 1..q : c \in 1..m
      OBVIOUS
    <3> QED
      BY <3>1
  <2>2. DOMAIN f = 1..q /\ f = [c \in 1..q |-> f[c]]
    OBVIOUS
  <2> HIDE DEF f
  <2>3. \A c \in 1..q : f[c] \in T
    BY <2>1
  <2>4. \A k \in T : col[k] \in 1..q /\ f[col[k]] = k
    <3> SUFFICES ASSUME NEW k \in T PROVE col[k] \in 1..q /\ f[col[k]] = k
      OBVIOUS
    <3>1. col[k] \in 1..q /\ k \in own /\ k \in Nat
      OBVIOUS
    <3>2. f[col[k]] \in own /\ col[f[col[k]]] = col[k] /\ f[col[k]] \in Nat
      BY <2>1, <3>1
    <3> DEFINE l == f[col[k]]
    <3> HIDE DEF l
    <3>3. ~(l < k) /\ ~(k < l)
      BY <1>1, <3>1, <3>2 DEF l
    <3>4. l = k
      BY <3>1, <3>2, <3>3 DEF l
    <3> QED
      BY <3>1, <3>4 DEF l
  <2> HIDE DEF T
  <2>5. f \in Bijection(1..q, T)
    <3>1. f \in [1..q -> T]
      BY <2>2, <2>3
    <3>2. IsInjective(f)
      BY <2>1, <2>2 DEF IsInjective
    <3> QED
      BY <2>4, <3>1, <3>2 DEF Bijection, Injection, Surjection
  <2>6. IsFiniteSet(1..q) /\ Cardinality(1..q) = q
    <3>1. 1 \in Int /\ q \in Int
      OBVIOUS
    <3> QED
      BY <3>1, FS_Interval
  <2>7. ExistsBijection(1..q, T)
    BY <2>5 DEF ExistsBijection
  <2>8. Cardinality(1..q) = Cardinality(T)
    BY <2>6, <2>7, FS_Bijection
  <2> QED
    BY <2>6, <2>8 DEF T
<1>3. Cardinality(own) = m
  <2>1. {j \in own : col[j] <= m} = own
    <3>1. \A j \in own : col[j] \in 1..m
      OBVIOUS
    <3>2. \A j \in own : col[j] <= m
      BY <3>1
    <3> QED
      BY <3>2
  <2>2. Cardinality({j \in own : col[j] <= m}) = m
    <3>1. m \in 0..m
      OBVIOUS
    <3> QED
      BY <1>2, <3>1
  <2> QED
    BY <2>1, <2>2
<1>4. ASSUME NEW k \in own PROVE Cardinality({j \in own : j < k}) = col[k] - 1
  <2>1. col[k] - 1 \in 0..m
    <3>1. col[k] \in 1..m
      OBVIOUS
    <3> QED
      BY <3>1
  <2>2. {j \in own : j < k} = {j \in own : col[j] <= col[k] - 1}
    <3>1. \A j \in own : j < k <=> col[j] <= col[k] - 1
      <4> TAKE j \in own
      <4>1. col[j] \in 1..m /\ col[k] \in 1..m
        OBVIOUS
      <4> QED
        BY <1>1, <4>1
    <3> QED
      BY <3>1
  <2>3. Cardinality({j \in own : col[j] <= col[k] - 1}) = col[k] - 1
    BY <1>2, <2>1
  <2> QED
    BY <2>2, <2>3
<1> QED
  BY <1>3, <1>4

(* A set of naturals that is not empty has a least element.                 *)
LEMMA LeastExists ==
  ASSUME NEW S \in SUBSET Nat, S # {}
  PROVE  \E x \in S : \A y \in S : x <= y
<1> SUFFICES ASSUME \A x \in S : \E y \in S : y < x PROVE FALSE
  OBVIOUS
<1> DEFINE T == {m \in Nat : \A y \in S : y >= m}
<1>1. 0 \in T
  OBVIOUS
<1>2. \A m \in Nat : m \in T => m + 1 \in T
  OBVIOUS
<1>3. Nat \subseteq T
  <2> HIDE DEF T
  <2> QED
    BY <1>1, <1>2, Induction
<1>4. PICK y \in S : TRUE
  OBVIOUS
<1>5. y + 1 \in T
  BY <1>3
<1> QED
  BY <1>5

=============================================================================
