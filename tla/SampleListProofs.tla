-------------------------- MODULE SampleListProofs --------------------------
(***************************************************************************)
(* What the operators on sample lists return, for lists of any length.     *)
(*                                                                         *)
(* The numbers and sets they count and fold over are finite, so each proof *)
(* by induction is one by a least counterexample: finite sets are well     *)
(* founded under strict inclusion (FS_StrictSubsetOrderingWellFounded).    *)
(***************************************************************************)
EXTENDS SampleList, FiniteSetTheorems, SequenceTheorems, TLAPS

-----------------------------------------------------------------------------
(* Least counterexamples *)

\* Among finite sets, some have no proper subset among them.
LEMMA SmallestSet ==
  ASSUME NEW U, NEW T, T \subseteq FiniteSubsetsOf(U), T # {}
  PROVE  \E x \in T : \A y \in T : y \subseteq x => y = x
<1>1. IsWellFoundedOn(StrictSubsetOrdering(U), FiniteSubsetsOf(U))
  BY FS_StrictSubsetOrderingWellFounded
<1>2. PICK x \in T : \A y \in T : ~(<<y, x>> \in StrictSubsetOrdering(U))
  BY <1>1, WFMin, Zenon
<1>3. \A y \in T : y \in SUBSET U
  BY DEF FiniteSubsetsOf
<1>4. ASSUME NEW y \in T, y \subseteq x, y # x PROVE FALSE
  <2>1. <<y, x>> \in (SUBSET U) \X (SUBSET U)
    BY <1>3
  <2>2. <<y, x>> \in StrictSubsetOrdering(U)
    BY <1>4, <2>1 DEF StrictSubsetOrdering
  <2> QED BY <1>2, <2>2
<1> QED BY <1>4

\* A set of naturals has a least element.
LEMMA Least ==
  ASSUME NEW S, S \subseteq Nat, S # {}
  PROVE  \E m \in S : \A n \in S : m <= n
<1> DEFINE T == {0..m : m \in S}
<1>1. T \subseteq FiniteSubsetsOf(Nat)
  <2> SUFFICES ASSUME NEW m \in S PROVE 0..m \in FiniteSubsetsOf(Nat)
    OBVIOUS
  <2>1. IsFiniteSet(0..m)
    BY FS_Interval
  <2> QED BY <2>1 DEF FiniteSubsetsOf
<1>2. T # {}
  OBVIOUS
<1> HIDE DEF T
<1>3. PICK x \in T : \A y \in T : y \subseteq x => y = x
  BY <1>1, <1>2, SmallestSet
<1>4. PICK m \in S : x = 0..m
  BY DEF T
<1>5. ASSUME NEW n \in S, n < m PROVE FALSE
  <2>1. 0..n \in T
    BY DEF T
  <2>2. 0..n \subseteq 0..m /\ m \in 0..m /\ m \notin 0..n
    BY <1>5
  <2> QED BY <2>1, <2>2, <1>3, <1>4
<1> QED BY <1>5

\* The least of a non-empty set of numbers is in it, and no member is less.
LEMMA MinIn ==
  ASSUME NEW S, S \subseteq Nat, S # {}
  PROVE  Min(S) \in S /\ \A y \in S : Min(S) <= y
<1>1. \E x \in S : \A y \in S : x <= y
  BY Least
<1> QED BY <1>1 DEF Min

\* A finite set of naturals has a greatest element.
LEMMA Greatest ==
  ASSUME NEW S, S \subseteq Nat, S # {}, IsFiniteSet(S)
  PROVE  \E m \in S : \A n \in S : n <= m
<1> DEFINE Endless(X) == X # {} /\ \A m \in X : \E n \in X : ~(n <= m)
           Bad == {X \in FiniteSubsetsOf(Nat) : Endless(X)}
<1> SUFFICES ASSUME ~\E m \in S : \A n \in S : n <= m PROVE FALSE
  OBVIOUS
<1>0. S \in Bad
  <2>1. S \in FiniteSubsetsOf(Nat)
    BY DEF FiniteSubsetsOf
  <2>2. Endless(S)
    OBVIOUS
  <2> HIDE DEF Endless
  <2> QED BY <2>1, <2>2
<1>1. Bad \subseteq FiniteSubsetsOf(Nat)
  OBVIOUS
<1> HIDE DEF Bad
<1>2. PICK X \in Bad : \A Y \in Bad : Y \subseteq X => Y = X
  <2>1. Bad # {}
    BY <1>0
  <2> QED BY <1>1, <2>1, SmallestSet
<1>3. /\ X \subseteq Nat /\ IsFiniteSet(X) /\ X # {}
      /\ ~\E m \in X : \A n \in X : n <= m
  BY DEF Bad, FiniteSubsetsOf
<1>4. PICK a \in X : TRUE
  BY <1>3
<1> DEFINE R == X \ {a}
<1>5. R \subseteq Nat /\ IsFiniteSet(R) /\ R # X
  BY <1>3, <1>4, FS_RemoveElement
<1>6. R \notin Bad
  BY <1>2, <1>5
<1>7. CASE R = {}
  BY <1>3, <1>4, <1>7
<1>8. CASE R # {}
  <2>1. PICK m \in R : \A n \in R : n <= m
    BY <1>5, <1>6, <1>8 DEF Bad, FiniteSubsetsOf
  <2>2. a <= m \/ m <= a
    BY <1>3, <1>4, <2>1
  <2>3. CASE a <= m
    BY <2>1, <2>3, <1>3
  <2>4. CASE m <= a
    <3>1. \A n \in X : n <= a
      BY <2>1, <2>4, <1>3
    <3> QED BY <3>1, <1>3, <1>4
  <2> QED BY <2>2, <2>3, <2>4
<1> QED BY <1>7, <1>8

\* The greatest of a non-empty finite set of numbers is in it, and none is greater.
LEMMA MaxIn ==
  ASSUME NEW S, S \subseteq Nat, S # {}, IsFiniteSet(S)
  PROVE  Max(S) \in S /\ \A y \in S : Max(S) >= y
<1>1. \E x \in S : \A y \in S : x >= y
  BY Greatest
<1> QED BY <1>1 DEF Max

\* The positions of a list are finite in number.
LEMMA Positions ==
  ASSUME NEW n \in Nat, NEW S, S \subseteq 1..n
  PROVE  /\ IsFiniteSet(S) /\ S \subseteq Nat
         /\ Cardinality(S) \in Nat /\ Cardinality(S) <= n
<1>1. IsFiniteSet(1..n) /\ Cardinality(1..n) = n
  <2>1. IsFiniteSet(1..n) /\ Cardinality(1..n) = IF 1 > n THEN 0 ELSE n - 1 + 1
    BY FS_Interval
  <2> QED BY <2>1
<1>2. IsFiniteSet(S) /\ Cardinality(S) <= n
  BY <1>1, FS_Subset
<1>3. Cardinality(S) \in Nat
  BY <1>2, FS_CardinalityType
<1> QED BY <1>2, <1>3

-----------------------------------------------------------------------------
(* Sorted *)

\* A finite set of positions has one of each rank.
LEMMA Ranked ==
  ASSUME NEW S, S \subseteq Nat, IsFiniteSet(S), NEW k \in 1..Cardinality(S)
  PROVE  \E i \in S : Cardinality({j \in S : j <= i}) = k
<1> DEFINE Missing(X) == \E r \in 1..Cardinality(X) :
                           \A i \in X : Cardinality({j \in X : j <= i}) # r
           Bad == {X \in FiniteSubsetsOf(Nat) : Missing(X)}
<1> SUFFICES ASSUME ~\E i \in S : Cardinality({j \in S : j <= i}) = k PROVE FALSE
  OBVIOUS
<1>1. S \in Bad
  <2>1. S \in FiniteSubsetsOf(Nat)
    BY DEF FiniteSubsetsOf
  <2>2. Missing(S)
    OBVIOUS
  <2> HIDE DEF Missing
  <2> QED BY <2>1, <2>2
<1>2. Bad \subseteq FiniteSubsetsOf(Nat)
  OBVIOUS
<1>3. ASSUME NEW X, X \subseteq Nat, IsFiniteSet(X), Missing(X) PROVE X \in Bad
  BY <1>3 DEF FiniteSubsetsOf
<1>4. \A X \in Bad : X \subseteq Nat /\ IsFiniteSet(X) /\ Missing(X)
  BY DEF FiniteSubsetsOf
<1> HIDE DEF Bad
<1>5. PICK X \in Bad : \A Y \in Bad : Y \subseteq X => Y = X
  <2>1. Bad # {}
    BY <1>1
  <2> QED BY <1>2, <2>1, SmallestSet
<1>6. X \subseteq Nat /\ IsFiniteSet(X)
  BY <1>4
<1>7. PICK r \in 1..Cardinality(X) : \A i \in X : Cardinality({j \in X : j <= i}) # r
  BY <1>4
<1>8. Cardinality(X) \in Nat
  BY <1>6, FS_CardinalityType
<1>9. X # {}
  BY <1>7, <1>8, FS_EmptySet
<1>10. PICK m \in X : \A n \in X : n <= m
  BY <1>6, <1>9, Greatest
<1> DEFINE R == X \ {m}
<1>11. IsFiniteSet(R) /\ Cardinality(R) = Cardinality(X) - 1
  BY <1>6, FS_RemoveElement
<1>12. r # Cardinality(X)
  <2>1. {j \in X : j <= m} = X
    BY <1>10
  <2> QED BY <2>1, <1>7
<1>13. r \in 1..Cardinality(R)
  BY <1>8, <1>11, <1>12
<1>14. ASSUME NEW i \in R PROVE Cardinality({j \in R : j <= i}) # r
  <2>1. ~(m <= i)
    BY <1>6, <1>10, <1>14
  <2>2. {j \in R : j <= i} = {j \in X : j <= i}
    BY <2>1
  <2> QED BY <2>2, <1>7
<1>15. Missing(R)
  BY <1>13, <1>14
<1>16. R \in Bad
  <2> HIDE DEF Missing
  <2> QED BY <1>3, <1>6, <1>11, <1>15
<1> QED BY <1>5, <1>16

\* Sorted lists elements of the set.
LEMMA SortedIn ==
  ASSUME NEW S, S \subseteq Nat, IsFiniteSet(S)
  PROVE  /\ Cardinality(S) \in Nat
         /\ \A k \in 1..Cardinality(S) : Sorted(S)[k] \in S
<1>1. Cardinality(S) \in Nat
  BY FS_CardinalityType
<1>2. ASSUME NEW k \in 1..Cardinality(S) PROVE Sorted(S)[k] \in S
  <2>1. \E i \in S : Cardinality({j \in S : j <= i}) = k
    BY Ranked
  <2>2. Sorted(S)[k] = CHOOSE i \in S : Cardinality({j \in S : j <= i}) = k
    BY DEF Sorted
  <2> QED BY <2>1, <2>2
<1> QED BY <1>1, <1>2

-----------------------------------------------------------------------------
(* Kinds of samples *)

\* The kind depends on the marker bits only.
LEMMA SameKind ==
  ASSUME NEW s, NEW r, \A i \in DOMAIN Priority : Has(s, Priority[i]) <=> Has(r, Priority[i])
  PROVE  Kind(s) = Kind(r)
<1>1. {i \in DOMAIN Priority : Has(s, Priority[i])} = {i \in DOMAIN Priority : Has(r, Priority[i])}
  OBVIOUS
<1> QED BY <1>1, Zenon DEF Kind

\* What carries one marker bit is of that kind.
LEMMA KindOfMarker ==
  ASSUME NEW s, NEW n \in DOMAIN Priority,
         \A i \in DOMAIN Priority : Has(s, Priority[i]) <=> i = n
  PROVE  Kind(s) = Priority[n]
<1> DEFINE bits == {i \in DOMAIN Priority : Has(s, Priority[i])}
<1>1. bits = {n}
  OBVIOUS
<1>2. n \in Nat
  BY DEF Priority
<1>3. Min({n}) = n
  BY <1>2, MinIn
<1> QED BY <1>1, <1>3 DEF Kind

-----------------------------------------------------------------------------
(* SetPosition *)

\* A marker that is kept stays a sample of its kind.
LEMMA StampedIn ==
  ASSUME NEW list \in Seq(Sample), NEW p \in 1..(Len(list) + 1), NEW s \in Sample
  PROVE  Stamped(s, list, p) \in Sample /\ Kind(Stamped(s, list, p)) = Kind(s)
<1> DEFINE time == IF p > Len(list) \/ list[p].time = 0 THEN 0 ELSE list[p].time - 1
           stamped == [s EXCEPT !.time = time]
<1>1. time \in Nat
  <2>1. CASE p > Len(list)
    BY <2>1
  <2>2. CASE ~(p > Len(list))
    <3>1. list[p] \in Sample
      BY <2>2
    <3>2. list[p].time \in Nat
      BY <3>1 DEF Sample
    <3> QED BY <3>2
  <2> QED BY <2>1, <2>2
<1>2. stamped \in Sample /\ stamped.flags = s.flags
  <2> HIDE DEF time
  <2> QED BY <1>1 DEF Sample
<1>3. Kind(stamped) = Kind(s)
  BY <1>2, SameKind DEF Has
<1> QED BY <1>2, <1>3 DEF Stamped

\* SetPosition puts markers, and no end of the stream, before the rest.
LEMMA SetPositionIs ==
  ASSUME NEW list \in Seq(Sample), NEW p \in 1..(Len(list) + 1)
  PROVE  \E b \in Seq(Sample) :
           /\ SetPosition(list, p) = b \o SubSeq(list, p, Len(list))
           /\ Len(b) <= p - 1 /\ \A k \in 1..Len(b) : Kind(b[k]) \notin {"frame", "eos"}
<1> DEFINE K == Unrepeated(list, p, Kept(list, p))
           b == [k \in 1..Cardinality(K) |-> Stamped(list[Sorted(K)[k]], list, p)]
<1>1. K \subseteq 1..(p - 1) /\ \A i \in K : Kind(list[i]) \notin {"frame", "eos"}
  BY DEF Unrepeated, Kept
<1>2. SetPosition(list, p) = b \o SubSeq(list, p, Len(list))
  BY DEF SetPosition
<1> HIDE DEF K
<1>3. IsFiniteSet(K) /\ K \subseteq Nat /\ Cardinality(K) \in Nat /\ Cardinality(K) <= p - 1
  <2>1. p - 1 \in Nat
    OBVIOUS
  <2> QED BY <1>1, <2>1, Positions
<1>4. \A k \in 1..Cardinality(K) : Sorted(K)[k] \in K
  BY <1>3, SortedIn
<1>5. \A k \in 1..Cardinality(K) : list[Sorted(K)[k]] \in Sample
  <2>1. \A i \in 1..Len(list) : list[i] \in Sample
    OBVIOUS
  <2>2. \A i \in K : i \in 1..Len(list)
    BY <1>1
  <2> QED BY <1>4, <2>1, <2>2
<1>6. \A k \in 1..Cardinality(K) :
        b[k] \in Sample /\ Kind(b[k]) = Kind(list[Sorted(K)[k]])
  BY <1>5, StampedIn
<1>7. b \in Seq(Sample) /\ Len(b) = Cardinality(K)
  <2>1. b \in [1..Cardinality(K) -> Sample]
    BY <1>6
  <2> HIDE DEF b
  <2> QED BY <1>3, <2>1
<1>8. \A k \in 1..Len(b) : Kind(b[k]) \notin {"frame", "eos"}
  <2> HIDE DEF b
  <2> QED BY <1>1, <1>4, <1>6, <1>7
<1> HIDE DEF b
<1> QED BY <1>2, <1>3, <1>7, <1>8

\* A list without the end-of-stream marker, one without a frame, and one in which
\* no frame follows the marker
Unended(list) == \A i \in 1..Len(list) : Kind(list[i]) # "eos"
Frameless(list) == \A i \in 1..Len(list) : Kind(list[i]) # "frame"
EndsOnce(list) ==
  \A i, j \in 1..Len(list) : i < j /\ Kind(list[i]) = "eos" => Kind(list[j]) # "frame"

\* A list with no end, no frame, and no frame after the end that another has not
Within(a, b) ==
  /\ Unended(b) => Unended(a)
  /\ Frameless(b) => Frameless(a)
  /\ EndsOnce(b) => EndsOnce(a)

\* A cut list is a list, and has nothing the list has not.
LEMMA SetPositionIn ==
  ASSUME NEW list \in Seq(Sample), NEW p \in 1..(Len(list) + 1)
  PROVE  /\ SetPosition(list, p) \in Seq(Sample)
         /\ p <= Len(list) => SetPosition(list, p) # <<>>
         /\ Within(SetPosition(list, p), list) /\ Len(SetPosition(list, p)) <= Len(list)
<1> DEFINE rest == SubSeq(list, p, Len(list))
           cut  == SetPosition(list, p)
<1>1. PICK b \in Seq(Sample) : /\ cut = b \o rest /\ Len(b) <= p - 1
                               /\ \A k \in 1..Len(b) : Kind(b[k]) \notin {"frame", "eos"}
  BY SetPositionIs
<1>2. /\ rest \in Seq(Sample) /\ Len(rest) = Len(list) - p + 1
      /\ \A k \in 1..Len(rest) : rest[k] = list[p + k - 1]
  OBVIOUS
<1> HIDE DEF rest, cut
<1>3. /\ cut \in Seq(Sample) /\ Len(cut) = Len(b) + Len(rest)
      /\ \A k \in 1..Len(cut) : cut[k] = IF k <= Len(b) THEN b[k] ELSE rest[k - Len(b)]
  <2>1. b \in Seq(Sample) /\ rest \in Seq(Sample)
    BY <1>1, <1>2
  <2>2. /\ b \o rest \in Seq(Sample) /\ Len(b \o rest) = Len(b) + Len(rest)
        /\ \A k \in 1..(Len(b) + Len(rest)) :
             (b \o rest)[k] = IF k <= Len(b) THEN b[k] ELSE rest[k - Len(b)]
    BY <2>1, ConcatProperties
  <2> QED BY <1>1, <2>2
<1>4. \A k \in 1..Len(cut) :
        \/ Kind(cut[k]) \notin {"frame", "eos"}
        \/ k > Len(b) /\ cut[k] = list[p + k - Len(b) - 1] /\ p + k - Len(b) - 1 \in 1..Len(list)
  <2> TAKE k \in 1..Len(cut)
  <2>1. CASE k <= Len(b)
    BY <1>1, <1>3, <2>1
  <2>2. CASE k > Len(b)
    <3>1. k - Len(b) \in 1..Len(rest) /\ p + (k - Len(b)) - 1 = p + k - Len(b) - 1
      BY <1>3, <2>2
    <3>2. cut[k] = list[p + (k - Len(b)) - 1]
      BY <1>2, <1>3, <2>2, <3>1
    <3>3. p + k - Len(b) - 1 \in 1..Len(list)
      BY <1>2, <3>1
    <3> QED BY <2>2, <3>1, <3>2, <3>3
  <2> QED BY <2>1, <2>2
<1>5. (p <= Len(list) => cut # <<>>) /\ Len(cut) <= Len(list)
  <2>1. Len(b) \in Nat /\ Len(list) \in Nat /\ p \in Nat
    OBVIOUS
  <2> QED BY <1>1, <1>2, <1>3, <2>1
<1>6. ASSUME Unended(list) PROVE Unended(cut)
  BY <1>4, <1>6 DEF Unended
<1>8. ASSUME Frameless(list) PROVE Frameless(cut)
  BY <1>4, <1>8 DEF Frameless
<1>7. ASSUME EndsOnce(list) PROVE EndsOnce(cut)
  <2> SUFFICES ASSUME NEW i \in 1..Len(cut), NEW j \in 1..Len(cut), i < j, Kind(cut[i]) = "eos",
                      Kind(cut[j]) = "frame"
               PROVE  FALSE
    BY DEF EndsOnce
  <2>1. i > Len(b) /\ cut[i] = list[p + i - Len(b) - 1] /\ p + i - Len(b) - 1 \in 1..Len(list)
    BY <1>4
  <2>2. cut[j] = list[p + j - Len(b) - 1] /\ p + j - Len(b) - 1 \in 1..Len(list)
    BY <1>4
  <2>3. p + i - Len(b) - 1 < p + j - Len(b) - 1
    BY <1>1
  <2> QED BY <1>7, <2>1, <2>2, <2>3 DEF EndsOnce
<1> QED BY <1>3, <1>5, <1>6, <1>7, <1>8 DEF cut, Within

\* So has the rest of a list,
LEMMA SubWithin ==
  ASSUME NEW list \in Seq(Sample), NEW p \in 1..(Len(list) + 1)
  PROVE  LET rest == SubSeq(list, p, Len(list))
         IN  /\ rest \in Seq(Sample) /\ Len(rest) = Len(list) - p + 1
             /\ Within(rest, list)
<1> DEFINE rest == SubSeq(list, p, Len(list))
<1>1. /\ rest \in Seq(Sample) /\ Len(rest) = Len(list) - p + 1
      /\ \A k \in 1..Len(rest) : rest[k] = list[p + k - 1] /\ p + k - 1 \in 1..Len(list)
  OBVIOUS
<1> HIDE DEF rest
<1>2. Unended(list) => Unended(rest)
  BY <1>1 DEF Unended
<1>3. Frameless(list) => Frameless(rest)
  BY <1>1 DEF Frameless
<1>4. ASSUME EndsOnce(list) PROVE EndsOnce(rest)
  <2> SUFFICES ASSUME NEW i \in 1..Len(rest), NEW j \in 1..Len(rest), i < j,
                      Kind(rest[i]) = "eos", Kind(rest[j]) = "frame"
               PROVE  FALSE
    BY DEF EndsOnce
  <2>1. p + i - 1 \in 1..Len(list) /\ p + j - 1 \in 1..Len(list) /\ p + i - 1 < p + j - 1
    BY <1>1
  <2> QED BY <1>1, <1>4, <2>1 DEF EndsOnce
<1> QED BY <1>1, <1>2, <1>3, <1>4 DEF rest, Within

\* and a list whose samples are of the same kinds.
LEMMA SameKinds ==
  ASSUME NEW a \in Seq(Sample), NEW b \in Seq(Sample), Len(a) = Len(b),
         \A i \in 1..Len(b) : Kind(a[i]) = Kind(b[i])
  PROVE  Within(a, b)
  BY DEF Within, Unended, Frameless, EndsOnce

\* The tail of a list, and what its head was
LEMMA TailWithin ==
  ASSUME NEW q \in Seq(Sample), q # <<>>
  PROVE  /\ Tail(q) \in Seq(Sample) /\ Len(Tail(q)) = Len(q) - 1 /\ Within(Tail(q), q)
         /\ EndsOnce(q) /\ Kind(q[1]) = "eos" => Frameless(Tail(q))
<1>1. /\ Tail(q) \in Seq(Sample) /\ Len(Tail(q)) = Len(q) - 1 /\ Len(q) \in Nat \ {0}
      /\ \A k \in 1..Len(Tail(q)) : Tail(q)[k] = q[k + 1] /\ k + 1 \in 1..Len(q)
  OBVIOUS
<1>2. Tail(q) = SubSeq(q, 2, Len(q)) /\ 2 \in 1..(Len(q) + 1)
  BY <1>1
<1>3. Within(Tail(q), q)
  <2>1. Within(SubSeq(q, 2, Len(q)), q)
    BY <1>2, SubWithin
  <2> QED BY <2>1, <1>2
<1>4. EndsOnce(q) /\ Kind(q[1]) = "eos" => Frameless(Tail(q))
  BY <1>1 DEF EndsOnce, Frameless
<1> QED BY <1>1, <1>3, <1>4

\* A list that another follows, and one that its end marker follows
LEMMA Joined ==
  ASSUME NEW a \in Seq(Sample), NEW b \in Seq(Sample)
  PROVE  a \o b \in Seq(Sample) /\ (Unended(a) /\ Unended(b) => Unended(a \o b))
<1>1. /\ a \o b \in Seq(Sample) /\ Len(a \o b) = Len(a) + Len(b)
      /\ \A k \in 1..(Len(a) + Len(b)) :
           (a \o b)[k] = IF k <= Len(a) THEN a[k] ELSE b[k - Len(a)]
  BY ConcatProperties
<1>2. \A k \in 1..(Len(a) + Len(b)) : k <= Len(a) => k \in 1..Len(a)
  OBVIOUS
<1>3. \A k \in 1..(Len(a) + Len(b)) : ~(k <= Len(a)) => k - Len(a) \in 1..Len(b)
  OBVIOUS
<1> QED BY <1>1, <1>2, <1>3 DEF Unended

LEMMA AppendedMarker ==
  ASSUME NEW q \in Seq(Sample), NEW s \in Sample, Kind(s) # "frame"
  PROVE  /\ EndsOnce(q) => EndsOnce(Append(q, s))
         /\ Frameless(q) => Frameless(Append(q, s))
<1>1. /\ Append(q, s) \in Seq(Sample) /\ Len(Append(q, s)) = Len(q) + 1
      /\ \A k \in 1..Len(q) : Append(q, s)[k] = q[k]
      /\ Append(q, s)[Len(q) + 1] = s
  OBVIOUS
<1>2. \A k \in 1..(Len(q) + 1) : k \in 1..Len(q) \/ k = Len(q) + 1
  OBVIOUS
<1>3. Frameless(q) => Frameless(Append(q, s))
  BY <1>1, <1>2 DEF Frameless
<1>4. ASSUME EndsOnce(q), NEW i \in 1..(Len(q) + 1), NEW j \in 1..(Len(q) + 1), i < j,
             Kind(Append(q, s)[i]) = "eos", Kind(Append(q, s)[j]) = "frame"
      PROVE  FALSE
  <2>1. j \in 1..Len(q)
    BY <1>1, <1>2, <1>4
  <2>2. i \in 1..Len(q)
    BY <2>1, <1>4
  <2> QED BY <1>1, <1>4, <2>1, <2>2 DEF EndsOnce
<1> QED BY <1>1, <1>3, <1>4 DEF EndsOnce

-----------------------------------------------------------------------------
(* SpanOf *)

\* How MapThenSumSet adds up the values of f on a set
AnyOf(s) == CHOOSE x \in s : TRUE
Adds(f, g, s) == g[s] = IF s = {} THEN 0 ELSE f[AnyOf(s)] + g[s \ {AnyOf(s)}]

\* There is a sum for each subset of a finite set.
LEMMA Summable ==
  ASSUME NEW S, IsFiniteSet(S), NEW f \in [S -> Nat]
  PROVE  \E g \in [SUBSET S -> Nat] : \A s \in SUBSET S : Adds(f, g, s)
<1> DEFINE UpTo(n) == \E g \in [SUBSET S -> Nat] :
                        \A s \in SUBSET S : Cardinality(s) <= n => Adds(f, g, s)
           Bad == {n \in Nat : ~UpTo(n)}
<1>1. \A s \in SUBSET S : /\ IsFiniteSet(s) /\ Cardinality(s) \in Nat
                          /\ Cardinality(s) <= Cardinality(S)
  BY FS_Subset, FS_CardinalityType
<1>2. \A s \in SUBSET S : s # {} => /\ AnyOf(s) \in s
                                  /\ Cardinality(s \ {AnyOf(s)}) = Cardinality(s) - 1
  <2> TAKE s \in SUBSET S
  <2> HAVE s # {}
  <2>1. AnyOf(s) \in s
    BY DEF AnyOf
  <2> QED BY <1>1, <2>1, FS_RemoveElement
<1>3. UpTo(0)
  <2> DEFINE g == [s \in SUBSET S |-> 0]
  <2>1. g \in [SUBSET S -> Nat]
    OBVIOUS
  <2>2. ASSUME NEW s \in SUBSET S, Cardinality(s) <= 0 PROVE Adds(f, g, s)
    <3>1. s = {}
      BY <1>1, <2>2, FS_EmptySet
    <3> QED BY <3>1 DEF Adds
  <2> QED BY <2>1, <2>2
<1>4. ASSUME NEW n \in Nat, UpTo(n) PROVE UpTo(n + 1)
  <2>1. PICK g \in [SUBSET S -> Nat] : \A s \in SUBSET S : Cardinality(s) <= n => Adds(f, g, s)
    BY <1>4
  <2> DEFINE Next(s) == IF s = {} THEN 0 ELSE f[AnyOf(s)] + g[s \ {AnyOf(s)}]
             h == [s \in SUBSET S |-> Next(s)]
  <2>2. \A s \in SUBSET S : Next(s) \in Nat
    <3> TAKE s \in SUBSET S
    <3>1. CASE s = {}
      BY <3>1
    <3>2. CASE s # {}
      <4>1. f[AnyOf(s)] \in Nat /\ g[s \ {AnyOf(s)}] \in Nat
        BY <1>2, <3>2
      <4> QED BY <3>2, <4>1
    <3> QED BY <3>1, <3>2
  <2>3. h \in [SUBSET S -> Nat]
    BY <2>2
  <2>4. \A s \in SUBSET S : Cardinality(s) <= n => h[s] = g[s]
    BY <2>1 DEF Adds
  <2>5. ASSUME NEW s \in SUBSET S, Cardinality(s) <= n + 1 PROVE Adds(f, h, s)
    <3>1. CASE s = {}
      BY <3>1 DEF Adds
    <3>2. CASE s # {}
      <4>1. s \ {AnyOf(s)} \in SUBSET S /\ Cardinality(s \ {AnyOf(s)}) <= n
        BY <1>1, <1>2, <2>5, <3>2
      <4>2. h[s \ {AnyOf(s)}] = g[s \ {AnyOf(s)}]
        BY <2>4, <4>1
      <4>3. h[s] = f[AnyOf(s)] + g[s \ {AnyOf(s)}]
        BY <3>2
      <4> QED BY <3>2, <4>2, <4>3 DEF Adds
    <3> QED BY <3>1, <3>2
  <2> HIDE DEF h
  <2> QED BY <2>3, <2>5
<1>5. Bad = {}
  <2> SUFFICES ASSUME Bad # {} PROVE FALSE
    OBVIOUS
  <2>1. PICK m \in Bad : \A n \in Bad : m <= n
    <3>1. Bad \subseteq Nat
      OBVIOUS
    <3> HIDE DEF Bad
    <3> QED BY <3>1, Least
  <2> HIDE DEF UpTo
  <2>2. m # 0
    BY <1>3
  <2>3. m - 1 \in Nat /\ m - 1 \notin Bad
    BY <2>1, <2>2
  <2>4. UpTo(m - 1 + 1)
    BY <1>4, <2>3
  <2> QED BY <2>1, <2>4
<1>6. UpTo(Cardinality(S))
  <2> HIDE DEF UpTo
  <2> QED BY <1>1, <1>5
<1> QED BY <1>1, <1>6

\* A sum of naturals is one.
LEMMA SumIn ==
  ASSUME NEW S, IsFiniteSet(S), NEW f \in [S -> Nat], NEW g,
         \A s \in SUBSET S : Adds(f, g, s)
  PROVE  g[S] \in Nat
<1> DEFINE Bad == {s \in FiniteSubsetsOf(S) : g[s] \notin Nat}
<1> SUFFICES ASSUME g[S] \notin Nat PROVE FALSE
  OBVIOUS
<1>1. S \in Bad
  BY DEF FiniteSubsetsOf
<1>2. Bad \subseteq FiniteSubsetsOf(S)
  OBVIOUS
<1>3. \A s \in SUBSET S : g[s] \notin Nat => s \in Bad
  BY FS_Subset DEF FiniteSubsetsOf
<1>4. \A s \in Bad : s \in SUBSET S /\ g[s] \notin Nat
  BY DEF FiniteSubsetsOf
<1> HIDE DEF Bad
<1>5. PICK s \in Bad : \A r \in Bad : r \subseteq s => r = s
  <2>1. Bad # {}
    BY <1>1
  <2> QED BY <1>2, <2>1, SmallestSet
<1>6. s # {}
  <2>1. Adds(f, g, {})
    OBVIOUS
  <2>2. g[{}] = 0
    BY <2>1 DEF Adds
  <2> QED BY <1>4, <2>2
<1>7. AnyOf(s) \in s
  BY <1>6 DEF AnyOf
<1>8. s \ {AnyOf(s)} \notin Bad
  BY <1>5, <1>7
<1>9. g[s \ {AnyOf(s)}] \in Nat
  BY <1>3, <1>4, <1>8
<1>10. f[AnyOf(s)] \in Nat
  BY <1>4, <1>7
<1>11. g[s] = f[AnyOf(s)] + g[s \ {AnyOf(s)}]
  BY <1>4, <1>6 DEF Adds
<1> QED BY <1>4, <1>9, <1>10, <1>11

LEMMA ApartIn ==
  ASSUME NEW a \in Nat, NEW b \in Nat
  PROVE  Apart(a, b) \in Nat
  BY DEF Apart

\* The duration of a list, recalculated, is a natural.
LEMMA SpanIn ==
  ASSUME NEW list \in Seq(Sample), NEW gap \in Nat
  PROVE  SpanOf(list, gap) \in Nat
<1> DEFINE starts == {i \in DOMAIN list :
                        i = 1 \/ Apart(list[i].time, list[i - 1].time) > gap}
           Ends(i) == {j \in i..Len(list) : j = Len(list) \/ j + 1 \in starts}
           Run(i) == Apart(list[Min(Ends(i))].time, list[i].time)
           Body(g) == [s \in SUBSET starts |->
                         IF s = {} THEN 0 ELSE Run(AnyOf(s)) + g[s \ {AnyOf(s)}]]
           sum == CHOOSE g : g = Body(g)
<1>1. SpanOf(list, gap) = sum[starts]
  BY DEF SpanOf, MapThenSumSet, MapThenFoldSet, AnyOf
<1>2. starts \subseteq 1..Len(list)
  OBVIOUS
<1>3. IsFiniteSet(starts)
  <2>1. Len(list) \in Nat
    OBVIOUS
  <2> HIDE DEF starts
  <2> QED BY <1>2, <2>1, Positions
<1> HIDE DEF starts
<1>4. ASSUME NEW i \in starts PROVE Run(i) \in Nat
  <2>1. \A k \in 1..Len(list) : list[k].time \in Nat
    BY DEF Sample
  <2>2. Len(list) \in Ends(i) /\ Ends(i) \subseteq 1..Len(list)
    BY <1>2, <1>4
  <2>3. Min(Ends(i)) \in 1..Len(list)
    <3> HIDE DEF Ends
    <3> QED BY <2>2, MinIn
  <2> HIDE DEF Ends
  <2> QED BY <1>2, <1>4, <2>1, <2>3, ApartIn
<1> HIDE DEF Run
<1> DEFINE f == [i \in starts |-> Run(i)]
<1>5. f \in [starts -> Nat]
  BY <1>4
<1>6. ASSUME NEW g, NEW s \in SUBSET starts
      PROVE  Body(g)[s] = IF s = {} THEN 0 ELSE f[AnyOf(s)] + g[s \ {AnyOf(s)}]
  BY DEF AnyOf
<1>7. \E g : g = Body(g)
  <2>1. PICK g \in [SUBSET starts -> Nat] : \A s \in SUBSET starts : Adds(f, g, s)
    BY <1>3, <1>5, Summable
  <2>2. \A s \in SUBSET starts : g[s] = Body(g)[s]
    BY <1>6, <2>1 DEF Adds
  <2>3. g = [s \in SUBSET starts |-> g[s]] /\ Body(g) = [s \in SUBSET starts |-> Body(g)[s]]
    OBVIOUS
  <2> HIDE DEF Body
  <2> QED BY <2>2, <2>3
<1>8. sum = Body(sum)
  <2> HIDE DEF Body
  <2> QED BY <1>7
<1>9. \A s \in SUBSET starts : Adds(f, sum, s)
  <2> HIDE DEF Body, sum
  <2> QED BY <1>6, <1>8 DEF Adds
<1> HIDE DEF f, sum
<1> QED BY <1>1, <1>3, <1>5, <1>9, SumIn

-----------------------------------------------------------------------------
(* Frames and the markers of their encodings *)

\* Where a position of a list of three parts lies
LEMMA Parts ==
  ASSUME NEW x \in Seq(Sample), NEW h \in Seq(Sample), NEW s \in Seq(Sample)
  PROVE  /\ x \o h \o s \in Seq(Sample)
         /\ Len(x \o h \o s) = Len(x) + Len(h) + Len(s)
         /\ \A k \in 1..Len(x) : (x \o h \o s)[k] = x[k]
         /\ \A k \in 1..Len(h) : (x \o h \o s)[Len(x) + k] = h[k]
         /\ \A k \in 1..Len(s) : (x \o h \o s)[Len(x) + Len(h) + k] = s[k]
<1> DEFINE a == x \o h
<1>1. /\ a \in Seq(Sample) /\ Len(a) = Len(x) + Len(h)
      /\ \A k \in 1..(Len(x) + Len(h)) : a[k] = IF k <= Len(x) THEN x[k] ELSE h[k - Len(x)]
  BY ConcatProperties
<1>2. Len(x) \in Nat /\ Len(h) \in Nat /\ Len(s) \in Nat
  OBVIOUS
<1> HIDE DEF a
<1>3. /\ a \o s \in Seq(Sample) /\ Len(a \o s) = Len(a) + Len(s)
      /\ \A k \in 1..(Len(a) + Len(s)) : (a \o s)[k] = IF k <= Len(a) THEN a[k] ELSE s[k - Len(a)]
  <2>1. a \in Seq(Sample) /\ s \in Seq(Sample)
    BY <1>1
  <2> QED BY <2>1, ConcatProperties
<1>4. \A k \in 1..Len(x) : (a \o s)[k] = x[k]
  BY <1>1, <1>2, <1>3
<1>5. \A k \in 1..Len(h) : (a \o s)[Len(x) + k] = h[k]
  <2> TAKE k \in 1..Len(h)
  <2>1. Len(x) + k \in 1..(Len(x) + Len(h)) /\ ~(Len(x) + k <= Len(x)) /\ Len(x) + k - Len(x) = k
    BY <1>2
  <2>2. a[Len(x) + k] = h[k]
    BY <1>1, <2>1
  <2>3. Len(x) + k \in 1..(Len(a) + Len(s)) /\ Len(x) + k <= Len(a)
    BY <1>1, <1>2, <2>1
  <2> QED BY <1>3, <2>2, <2>3
<1>6. \A k \in 1..Len(s) : (a \o s)[Len(x) + Len(h) + k] = s[k]
  <2> TAKE k \in 1..Len(s)
  <2>1. Len(x) + Len(h) + k \in 1..(Len(a) + Len(s)) /\ ~(Len(x) + Len(h) + k <= Len(a))
        /\ Len(x) + Len(h) + k - Len(a) = k
    BY <1>1, <1>2
  <2> QED BY <1>3, <2>1
<1> QED BY <1>1, <1>3, <1>4, <1>5, <1>6 DEF a

\* The format in force at the end of a list, and a list with no turn
Ends(list, f) == \E j \in 1..Len(list) :
                   /\ Kind(list[j]) = "format" /\ list[j].fmt = f
                   /\ \A k \in (j + 1)..Len(list) : Kind(list[k]) \notin Turns
Unturned(list) == \A k \in 1..Len(list) : Kind(list[k]) \notin Turns

\* What stands before a list may be exchanged for what leaves the same format in
\* force, or for anything when the list begins with a turn.
LEMMA Exchanged ==
  ASSUME NEW x \in Seq(Sample), NEW h \in Seq(Sample), NEW b \in Seq(Sample),
         NEW s \in Seq(Sample), Introduced(x \o h \o s), Frameless(b),
         s = <<>> \/ Kind(s[1]) \notin Turns =>
           \A f : Ends(h, f) => Ends(b, f),
         Unturned(h) => Unturned(b)
  PROVE  Introduced(x \o b \o s)
<1> DEFINE X == x \o h \o s
           Z == x \o b \o s
           n == Len(x)  H == Len(h)  B == Len(b)
<1>0. n \in Nat /\ H \in Nat /\ B \in Nat /\ Len(s) \in Nat
  OBVIOUS
<1>1. /\ X \in Seq(Sample) /\ Len(X) = n + H + Len(s)
      /\ \A k \in 1..n : X[k] = x[k]
      /\ \A k \in 1..H : X[n + k] = h[k]
      /\ \A k \in 1..Len(s) : X[n + H + k] = s[k]
  BY Parts
<1>2. /\ Z \in Seq(Sample) /\ Len(Z) = n + B + Len(s)
      /\ \A k \in 1..n : Z[k] = x[k]
      /\ \A k \in 1..B : Z[n + k] = b[k]
      /\ \A k \in 1..Len(s) : Z[n + B + k] = s[k]
  BY Parts
<1>3. Introduced(X)
  OBVIOUS
<1> HIDE DEF X, Z, n, H, B
<1>4. DOMAIN X = 1..Len(X) /\ DOMAIN Z = 1..Len(Z)
  BY <1>1, <1>2
<1>5. ASSUME NEW i \in 1..Len(Z), Kind(Z[i]) = "frame"
      PROVE  \E j \in 1..(i - 1) :
               /\ Kind(Z[j]) = "format" /\ Z[j].fmt = Z[i].fmt
               /\ \A k \in (j + 1)..(i - 1) : Kind(Z[k]) \notin Turns
  <2>1. CASE i <= n
    <3>1. i \in 1..Len(X) /\ X[i] = Z[i]
      BY <1>0, <1>1, <1>2, <2>1
    <3>2. PICK j \in 1..(i - 1) : /\ Kind(X[j]) = "format" /\ X[j].fmt = X[i].fmt
                                  /\ \A k \in (j + 1)..(i - 1) : Kind(X[k]) \notin Turns
      BY <1>3, <1>4, <1>5, <3>1 DEF Introduced
    <3>3. ASSUME NEW k \in 1..(i - 1) PROVE X[k] = Z[k]
      <4>1. k \in 1..n
        BY <1>0, <1>2, <2>1
      <4> QED BY <1>1, <1>2, <4>1
    <3> QED BY <3>1, <3>2, <3>3
  <2>2. CASE i > n /\ i <= n + B
    <3>1. i - n \in 1..B /\ n + (i - n) = i
      BY <1>0, <2>2
    <3>2. Kind(b[i - n]) = "frame"
      BY <1>2, <1>5, <3>1
    <3> QED BY <3>1, <3>2 DEF Frameless, B
  <2>3. CASE i > n + B
    <3> DEFINE e == i - n - B
    <3>1. e \in 1..Len(s) /\ i = n + B + e
      BY <1>0, <1>2, <2>3
    <3> HIDE DEF e
    <3>2. /\ Z[i] = s[e] /\ n + H + e \in 1..Len(X) /\ X[n + H + e] = s[e]
          /\ Kind(s[e]) = "frame"
      <4>1. Z[n + B + e] = s[e] /\ X[n + H + e] = s[e]
        BY <1>1, <1>2, <3>1
      <4>2. n + H + e \in 1..Len(X)
        BY <1>0, <1>1, <3>1
      <4> QED BY <1>5, <3>1, <4>1, <4>2
    <3>3. PICK j \in 1..(n + H + e - 1) :
            /\ Kind(X[j]) = "format" /\ X[j].fmt = s[e].fmt
            /\ \A k \in (j + 1)..(n + H + e - 1) : Kind(X[k]) \notin Turns
      <4> DEFINE m == n + H + e
      <4>1. m \in DOMAIN X /\ X[m] = s[e] /\ Kind(X[m]) = "frame"
        BY <1>4, <3>2
      <4> HIDE DEF m
      <4>2. PICK j \in 1..(m - 1) : /\ Kind(X[j]) = "format" /\ X[j].fmt = X[m].fmt
                                    /\ \A k \in (j + 1)..(m - 1) : Kind(X[k]) \notin Turns
        BY <1>3, <4>1, Zenon DEF Introduced
      <4>3. m = n + H + e /\ X[m].fmt = s[e].fmt /\ m \in Nat /\ e \in Nat
        BY <1>0, <3>1, <4>1 DEF m
      <4>4. j \in 1..(n + H + e - 1) /\ X[j].fmt = s[e].fmt
        BY <1>0, <4>2, <4>3
      <4>5. \A k \in (j + 1)..(n + H + e - 1) : Kind(X[k]) \notin Turns
        <5>1. (j + 1)..(n + H + e - 1) = (j + 1)..(m - 1)
          BY <1>0, <4>3
        <5> QED BY <4>2, <5>1
      <4> QED BY <4>2, <4>4, <4>5
    <3>4. CASE j > n + H
      <4> DEFINE d == j - n - H
      <4>1. d \in 1..(e - 1) /\ j = n + H + d
        BY <1>0, <3>1, <3>3, <3>4
      <4> HIDE DEF d
      <4>2. n + B + d \in 1..(i - 1) /\ Z[n + B + d] = s[d] /\ X[j] = s[d]
        BY <1>0, <1>1, <1>2, <3>1, <4>1
      <4>3. ASSUME NEW k \in (n + B + d + 1)..(i - 1) PROVE Kind(Z[k]) \notin Turns
        <5> DEFINE c == k - n - B
        <5>1. c \in (d + 1)..(e - 1) /\ k = n + B + c
          BY <1>0, <3>1, <4>1
        <5> HIDE DEF c
        <5>2. c \in 1..Len(s) /\ n + H + c \in (j + 1)..(n + H + e - 1)
          BY <1>0, <3>1, <4>1, <5>1
        <5>3. Z[k] = s[c] /\ X[n + H + c] = s[c]
          BY <1>1, <1>2, <5>1, <5>2
        <5> QED BY <3>3, <5>2, <5>3
      <4> QED BY <3>2, <3>3, <4>2, <4>3
    <3>5. ASSUME j <= n + H, NEW c \in 1..(e - 1) PROVE Kind(s[c]) \notin Turns
      <4>1. c \in 1..Len(s) /\ n + H + c \in (j + 1)..(n + H + e - 1)
        BY <1>0, <3>1, <3>5, <3>3
      <4>2. X[n + H + c] = s[c]
        BY <1>1, <4>1
      <4> QED BY <3>3, <4>1, <4>2
    <3>6. CASE j > n /\ j <= n + H
      <4> DEFINE d == j - n
      <4>1. d \in 1..H /\ j = n + d
        BY <1>0, <3>6
      <4> HIDE DEF d
      <4>2. \A k \in (d + 1)..H : Kind(h[k]) \notin Turns
        <5> TAKE k \in (d + 1)..H
        <5>1. k \in 1..H /\ n + k \in (j + 1)..(n + H + e - 1)
          BY <1>0, <3>1, <4>1
        <5> QED BY <1>1, <3>3, <5>1
      <4>3. Ends(h, s[e].fmt)
        BY <1>1, <3>3, <4>1, <4>2 DEF Ends, H
      <4>4. s = <<>> \/ Kind(s[1]) \notin Turns
        <5>1. CASE e = 1
          <6>1. Kind(s[1]) = "frame"
            BY <1>5, <3>2, <5>1
          <6> QED BY <6>1 DEF Turns
        <5>2. CASE e # 1
          <6>1. 1 \in 1..(e - 1)
            BY <3>1, <5>2
          <6> QED BY <3>5, <3>6, <6>1
        <5> QED BY <5>1, <5>2
      <4>5. PICK l \in 1..B : /\ Kind(b[l]) = "format" /\ b[l].fmt = s[e].fmt
                              /\ \A k \in (l + 1)..B : Kind(b[k]) \notin Turns
        BY <4>3, <4>4 DEF Ends, B
      <4>6. n + l \in 1..(i - 1) /\ Z[n + l] = b[l]
        BY <1>0, <1>2, <3>1
      <4>7. ASSUME NEW k \in (n + l + 1)..(i - 1) PROVE Kind(Z[k]) \notin Turns
        <5>1. CASE k <= n + B
          <6>1. k - n \in (l + 1)..B /\ k - n \in 1..B /\ n + (k - n) = k
            BY <1>0, <5>1
          <6> QED BY <1>2, <4>5, <6>1
        <5>2. CASE k > n + B
          <6>1. k - n - B \in 1..(e - 1) /\ k - n - B \in 1..Len(s) /\ n + B + (k - n - B) = k
            BY <1>0, <3>1, <5>2
          <6>2. Z[k] = s[k - n - B]
            BY <1>2, <6>1
          <6> QED BY <3>5, <3>6, <6>1, <6>2
        <5> QED BY <1>0, <5>1, <5>2
      <4> QED BY <3>2, <4>5, <4>6, <4>7
    <3>7. CASE j <= n
      <4>1. \A k \in 1..H : Kind(h[k]) \notin Turns
        <5> TAKE k \in 1..H
        <5>1. n + k \in (j + 1)..(n + H + e - 1)
          BY <1>0, <3>1, <3>7, <3>3
        <5> QED BY <1>1, <3>3, <5>1
      <4>2. \A k \in 1..B : Kind(b[k]) \notin Turns
        BY <4>1 DEF Unturned, H, B
      <4>3. j \in 1..(i - 1) /\ j \in 1..n /\ Z[j] = X[j]
        BY <1>0, <1>1, <1>2, <3>1, <3>3, <3>7
      <4>4. ASSUME NEW k \in (j + 1)..(i - 1) PROVE Kind(Z[k]) \notin Turns
        <5>1. CASE k <= n
          <6>1. k \in (j + 1)..(n + H + e - 1) /\ k \in 1..n
            BY <1>0, <3>1, <3>3, <5>1
          <6> QED BY <1>1, <1>2, <3>3, <6>1
        <5>2. CASE k > n /\ k <= n + B
          <6>1. k - n \in 1..B /\ n + (k - n) = k
            BY <1>0, <5>2
          <6> QED BY <1>2, <4>2, <6>1
        <5>3. CASE k > n + B
          <6>1. k - n - B \in 1..(e - 1) /\ k - n - B \in 1..Len(s) /\ n + B + (k - n - B) = k
            BY <1>0, <3>1, <5>3
          <6>2. Z[k] = s[k - n - B]
            BY <1>2, <6>1
          <6>3. j <= n + H
            BY <1>0, <3>7
          <6> QED BY <3>5, <6>1, <6>2, <6>3
        <5> QED BY <1>0, <5>1, <5>2, <5>3
      <4> QED BY <3>2, <3>3, <4>3, <4>4
    <3> QED BY <1>0, <3>3, <3>4, <3>6, <3>7
  <2> QED BY <1>0, <2>1, <2>2, <2>3
<1> QED BY <1>4, <1>5 DEF Introduced, Z

\* Sorted lists every element, in order.
LEMMA SortedAll ==
  ASSUME NEW S, S \subseteq Nat, IsFiniteSet(S)
  PROVE  /\ \A i \in S : \E k \in 1..Cardinality(S) : Sorted(S)[k] = i
         /\ \A k, l \in 1..Cardinality(S) : k < l => Sorted(S)[k] < Sorted(S)[l]
<1> DEFINE Below(i) == {j \in S : j <= i}
           rank(i) == Cardinality(Below(i))
           n == Cardinality(S)
<1>1. n \in Nat /\ \A i \in S : IsFiniteSet(Below(i)) /\ rank(i) \in 1..n
  <2>1. n \in Nat
    BY FS_CardinalityType
  <2>2. ASSUME NEW i \in S PROVE IsFiniteSet(Below(i)) /\ rank(i) \in 1..n
    <3>1. IsFiniteSet(Below(i)) /\ rank(i) <= n
      BY FS_Subset
    <3>2. rank(i) \in Nat /\ (rank(i) = 0 <=> Below(i) = {})
      BY <3>1, FS_CardinalityType, FS_EmptySet
    <3>3. i \in Below(i)
      BY <2>2
    <3> QED BY <2>1, <3>1, <3>2, <3>3
  <2> QED BY <2>1, <2>2
<1>2. ASSUME NEW i \in S, NEW j \in S, i < j PROVE rank(i) < rank(j)
  <2>0. i \in Nat /\ j \in Nat /\ \A k \in S : k \in Nat
    OBVIOUS
  <2>1. Below(i) \in SUBSET Below(j) /\ j \in Below(j) /\ j \notin Below(i)
    <3>1. \A k \in S : k <= i => k <= j
      BY <1>2, <2>0
    <3>2. j <= j /\ ~(j <= i)
      BY <1>2, <2>0
    <3> QED BY <3>1, <3>2
  <2> HIDE DEF Below
  <2>2. rank(i) <= rank(j) /\ (rank(j) = rank(i) => Below(j) = Below(i))
    BY <1>1, <2>1, FS_Subset
  <2>3. rank(j) # rank(i)
    BY <2>1, <2>2
  <2>4. rank(i) \in Nat /\ rank(j) \in Nat
    BY <1>1
  <2> HIDE DEF rank
  <2> QED BY <2>2, <2>3, <2>4
<1>3. ASSUME NEW k \in 1..n PROVE Sorted(S)[k] \in S /\ rank(Sorted(S)[k]) = k
  <2>1. \E i \in S : rank(i) = k
    BY Ranked
  <2>2. Sorted(S)[k] = CHOOSE i \in S : rank(i) = k
    BY DEF Sorted
  <2> HIDE DEF rank
  <2> QED BY <2>1, <2>2
<1> HIDE DEF rank
<1>4. ASSUME NEW i \in S PROVE \E k \in 1..n : Sorted(S)[k] = i
  <2>1. rank(i) \in 1..n
    BY <1>1
  <2>2. Sorted(S)[rank(i)] \in S /\ rank(Sorted(S)[rank(i)]) = rank(i)
    BY <1>3, <2>1
  <2> DEFINE o == Sorted(S)[rank(i)]
  <2>3. o \in S /\ rank(o) = rank(i)
    BY <2>2
  <2> HIDE DEF o
  <2>4. o \in Nat /\ i \in Nat /\ rank(i) \in Nat
    <3>1. rank(i) \in Nat
      BY <2>1
    <3> QED BY <2>3, <3>1
  <2>5. o < i => rank(o) < rank(i)
    BY <1>2, <2>3
  <2>6. i < o => rank(i) < rank(o)
    BY <1>2, <2>3
  <2>7. o = i
    BY <2>3, <2>4, <2>5, <2>6
  <2> QED BY <2>1, <2>7 DEF o
<1>5. ASSUME NEW k \in 1..n, NEW l \in 1..n, k < l PROVE Sorted(S)[k] < Sorted(S)[l]
  <2> DEFINE a == Sorted(S)[k]
             b == Sorted(S)[l]
  <2>1. a \in S /\ rank(a) = k /\ b \in S /\ rank(b) = l /\ a \in Nat /\ b \in Nat
    BY <1>3
  <2> HIDE DEF a, b
  <2>2. a # b /\ ~(b < a)
    BY <1>2, <1>5, <2>1
  <2>3. a < b
    BY <2>1, <2>2
  <2> QED BY <2>3 DEF a, b
<1> QED BY <1>4, <1>5

\* The first bits in the order decide the kind.
LEMMA KindFirst ==
  ASSUME NEW s
  PROVE  /\ Has(s, "program") => Kind(s) = "program"
         /\ Has(s, "format") => Kind(s) \in {"program", "format"}
         /\ Has(s, "unavail") => Kind(s) \in {"program", "format", "unavail"}
<1> DEFINE bits == {i \in DOMAIN Priority : Has(s, Priority[i])}
<1>1. /\ DOMAIN Priority = 1..6 /\ Priority[1] = "program" /\ Priority[2] = "format"
      /\ Priority[3] = "unavail"
  BY DEF Priority
<1>2. bits \subseteq Nat
  BY <1>1
<1>3. Kind(s) = IF bits = {} THEN "frame" ELSE Priority[Min(bits)]
  BY DEF Kind
<1>4. /\ Has(s, "program") => 1 \in bits
      /\ Has(s, "format") => 2 \in bits
      /\ Has(s, "unavail") => 3 \in bits
  BY <1>1
<1>5. bits # {} => Min(bits) \in 1..6 /\ \A y \in bits : Min(bits) <= y
  <2>1. bits \subseteq 1..6
    BY <1>1
  <2> HIDE DEF bits
  <2> QED BY <1>2, <2>1, MinIn
<1> HIDE DEF bits
<1>6. Has(s, "program") => bits # {} /\ Min(bits) = 1
  BY <1>4, <1>5
<1>7. Has(s, "format") => bits # {} /\ Min(bits) \in {1, 2}
  BY <1>4, <1>5
<1>8. Has(s, "unavail") => bits # {} /\ Min(bits) \in {1, 2, 3}
  BY <1>4, <1>5
<1> QED BY <1>1, <1>3, <1>6, <1>7, <1>8

\* A frame carries no marker bit.
LEMMA FrameBits ==
  ASSUME NEW s, Kind(s) = "frame"
  PROVE  \A i \in DOMAIN Priority : ~Has(s, Priority[i])
<1> DEFINE bits == {i \in DOMAIN Priority : Has(s, Priority[i])}
<1> SUFFICES ASSUME bits # {} PROVE FALSE
  OBVIOUS
<1>1. bits \subseteq 1..6
  BY DEF Priority
<1>2. Kind(s) = Priority[Min(bits)]
  BY DEF Kind
<1> HIDE DEF bits
<1>3. Min(bits) \in 1..6
  <2>1. bits \subseteq Nat
    BY <1>1
  <2> QED BY <1>1, <2>1, MinIn
<1> QED BY <1>2, <1>3 DEF Priority

\* What SetPosition puts before the rest is as good for it as what it drops.
LEMMA KeptFormat ==
  ASSUME NEW list \in Seq(Sample), NEW p \in 1..(Len(list) + 1)
  PROVE  \E b \in Seq(Sample) :
           /\ SetPosition(list, p) = b \o SubSeq(list, p, Len(list)) /\ Frameless(b)
           /\ p > Len(list) \/ Kind(list[p]) \notin Turns =>
                \A f : Ends(SubSeq(list, 1, p - 1), f) => Ends(b, f)
           /\ Unturned(SubSeq(list, 1, p - 1)) => Unturned(b)
<1> DEFINE head == SubSeq(list, 1, p - 1)
           K == Unrepeated(list, p, Kept(list, p))
           N == Cardinality(K)
           b == [k \in 1..N |-> Stamped(list[Sorted(K)[k]], list, p)]
<1>0. Len(list) \in Nat /\ p \in Nat
  OBVIOUS
<1>1. K \subseteq 1..(p - 1) /\ \A i \in K : Kind(list[i]) \notin {"frame", "eos"}
  BY DEF Unrepeated, Kept
<1>2. SetPosition(list, p) = b \o SubSeq(list, p, Len(list))
  BY DEF SetPosition
<1>3. /\ Len(head) = p - 1 /\ \A k \in 1..(p - 1) : head[k] = list[k]
  BY <1>0
<1>4. \A i \in 1..(p - 1) : i \in 1..Len(list) /\ list[i] \in Sample
  BY <1>0
<1>5. \A i \in 1..(p - 1) :
        (/\ Kind(list[i]) = "format" /\ \A k \in (i + 1)..(p - 1) : Kind(list[k]) \notin Turns
         /\ p > Len(list) \/ Kind(list[p]) \notin Turns) => i \in K
  <2> SUFFICES ASSUME NEW i \in 1..(p - 1), Kind(list[i]) = "format",
                      \A k \in (i + 1)..(p - 1) : Kind(list[k]) \notin Turns,
                      p > Len(list) \/ Kind(list[p]) \notin Turns
               PROVE  i \in K
    OBVIOUS
  <2>1. i \in Kept(list, p)
    BY DEF Kept, Turns, Clears
  <2>2. p > Len(list) \/ list[i].flags \cap list[p].flags \cap {"program", "format"} = {}
    <3> SUFFICES ASSUME ~(p > Len(list))
                 PROVE  list[i].flags \cap list[p].flags \cap {"program", "format"} = {}
      OBVIOUS
    <3>1. ~Has(list[p], "program") /\ ~Has(list[p], "format")
      BY KindFirst DEF Turns
    <3> QED BY <3>1 DEF Has
  <2> QED BY <2>1, <2>2 DEF Unrepeated
<1> HIDE DEF K, head
<1>6. IsFiniteSet(K) /\ K \subseteq Nat /\ N \in Nat
  <2>1. p - 1 \in Nat
    BY <1>0
  <2> QED BY <1>1, <2>1, Positions
<1> HIDE DEF N
<1>7. /\ \A i \in K : \E k \in 1..N : Sorted(K)[k] = i
      /\ \A k, l \in 1..N : k < l => Sorted(K)[k] < Sorted(K)[l]
      /\ \A k \in 1..N : Sorted(K)[k] \in K
  BY <1>6, SortedAll, SortedIn DEF N
<1>8. \A k \in 1..N : /\ b[k] \in Sample /\ Kind(b[k]) = Kind(list[Sorted(K)[k]])
                      /\ b[k].fmt = list[Sorted(K)[k]].fmt
  <2> TAKE k \in 1..N
  <2> DEFINE s == list[Sorted(K)[k]]
  <2>1. s \in Sample
    BY <1>1, <1>4, <1>7
  <2>2. b[k] = Stamped(s, list, p)
    OBVIOUS
  <2> HIDE DEF s, b
  <2>3. b[k] \in Sample /\ Kind(b[k]) = Kind(s)
    BY <2>1, <2>2, StampedIn
  <2>4. b[k].fmt = s.fmt
    BY <2>1, <2>2 DEF Stamped, Sample
  <2> QED BY <2>3, <2>4 DEF s
<1>9. b \in Seq(Sample) /\ Len(b) = N
  <2>1. b \in [1..N -> Sample]
    BY <1>8
  <2> HIDE DEF b
  <2> QED BY <1>6, <2>1
<1> HIDE DEF b
<1>10. Frameless(b)
  <2>1. ASSUME NEW k \in 1..N PROVE Kind(b[k]) # "frame"
    <3>1. Sorted(K)[k] \in K
      BY <1>7
    <3>2. Kind(list[Sorted(K)[k]]) # "frame"
      BY <1>1, <3>1
    <3> QED BY <1>8, <3>2
  <2> QED BY <1>9, <2>1 DEF Frameless
<1>11. ASSUME p > Len(list) \/ Kind(list[p]) \notin Turns, NEW f, Ends(head, f)
       PROVE  Ends(b, f)
  <2>1. PICK j \in 1..(p - 1) : /\ Kind(list[j]) = "format" /\ list[j].fmt = f
                                /\ \A k \in (j + 1)..(p - 1) : Kind(list[k]) \notin Turns
    <3>1. PICK j \in 1..Len(head) : /\ Kind(head[j]) = "format" /\ head[j].fmt = f
                                    /\ \A k \in (j + 1)..Len(head) : Kind(head[k]) \notin Turns
      BY <1>11 DEF Ends
    <3>2. \A k \in (j + 1)..(p - 1) : k \in 1..(p - 1)
      BY <1>0, <1>3
    <3> QED BY <1>3, <3>1, <3>2
  <2>2. PICK k \in 1..N : Sorted(K)[k] = j
    BY <1>5, <1>7, <1>11, <2>1
  <2>3. ASSUME NEW l \in (k + 1)..N PROVE Kind(b[l]) \notin Turns
    <3>1. l \in 1..N /\ k < l
      BY <1>6
    <3>2. j < Sorted(K)[l] /\ Sorted(K)[l] \in 1..(p - 1)
      BY <1>1, <1>7, <2>2, <3>1
    <3>3. Sorted(K)[l] \in (j + 1)..(p - 1)
      BY <1>0, <3>2
    <3> QED BY <1>8, <2>1, <3>1, <3>3
  <2> QED BY <1>8, <1>9, <2>1, <2>2, <2>3 DEF Ends
<1>12. ASSUME Unturned(head) PROVE Unturned(b)
  <2>1. \A k \in 1..(p - 1) : Kind(list[k]) \notin Turns
    BY <1>3, <1>12 DEF Unturned
  <2> QED BY <1>1, <1>7, <1>8, <1>9, <2>1 DEF Unturned
<1>13. p > Len(list) \/ Kind(list[p]) \notin Turns => \A f : Ends(head, f) => Ends(b, f)
  BY <1>11
<1>14. Unturned(head) => Unturned(b)
  BY <1>12
<1> QED BY <1>2, <1>9, <1>10, <1>13, <1>14, Zenon DEF head

-----------------------------------------------------------------------------
(* Lists that may stand in for others *)

\* Concatenation, under a name the provers do not take apart
Cat(u, v) == u \o v

\* Concatenation of lists of samples is one, and associative.
LEMMA Cats ==
  \A u, v, w \in Seq(Sample) : Cat(u, v) \in Seq(Sample) /\ Cat(Cat(u, v), w) = Cat(u, Cat(v, w))
<1> TAKE u, v, w \in Seq(Sample)
<1>1. u \o v \in Seq(Sample)
  BY ConcatProperties
<1>2. (u \o v) \o w = u \o (v \o w)
  BY ConcatAssociative
<1> QED BY <1>1, <1>2 DEF Cat

\* Where b may stand, so may a: no frame loses the marker of its encoding.
Replaces(a, b) ==
  \A x, y \in Seq(Sample) : Introduced(Cat(Cat(x, b), y)) => Introduced(Cat(Cat(x, a), y))

\* A list that replaces one that replaces a third replaces the third.
LEMMA ReplacesTwice ==
  ASSUME NEW a, NEW b, NEW c, Replaces(a, b), Replaces(b, c)
  PROVE  Replaces(a, c)
  BY DEF Replaces

\* Two lists replaced one by one are replaced in a row.
LEMMA ReplacesBoth ==
  ASSUME NEW a \in Seq(Sample), NEW b \in Seq(Sample), NEW c \in Seq(Sample),
         NEW d \in Seq(Sample), Replaces(a, b), Replaces(c, d)
  PROVE  Replaces(Cat(a, c), Cat(b, d))
<1> SUFFICES ASSUME NEW x \in Seq(Sample), NEW y \in Seq(Sample),
                    Introduced(Cat(Cat(x, Cat(b, d)), y))
             PROVE  Introduced(Cat(Cat(x, Cat(a, c)), y))
  BY DEF Replaces
<1>1. Introduced(Cat(Cat(x, b), Cat(d, y))) /\ Cat(d, y) \in Seq(Sample)
  BY Cats
<1>2. Introduced(Cat(Cat(x, a), Cat(d, y)))
  BY <1>1, Zenon DEF Replaces
<1>3. Introduced(Cat(Cat(Cat(x, a), d), y)) /\ Cat(x, a) \in Seq(Sample)
  BY <1>2, Cats
<1>4. Introduced(Cat(Cat(Cat(x, a), c), y))
  BY <1>3, Zenon DEF Replaces
<1> QED BY <1>4, Cats

\* The front of a list may go if what is left begins with a turn, or if what takes
\* its place leaves the same format in force.
LEMMA FrontReplaced ==
  ASSUME NEW h \in Seq(Sample), NEW b \in Seq(Sample), NEW r \in Seq(Sample),
         Frameless(b), Unturned(h) => Unturned(b),
         r = <<>> \/ Kind(r[1]) \notin Turns => \A f : Ends(h, f) => Ends(b, f)
  PROVE  Replaces(Cat(b, r), Cat(h, r))
<1> SUFFICES ASSUME NEW x \in Seq(Sample), NEW y \in Seq(Sample),
                    Introduced(Cat(Cat(x, Cat(h, r)), y))
             PROVE  Introduced(Cat(Cat(x, Cat(b, r)), y))
  BY DEF Replaces
<1> DEFINE s == Cat(r, y)
<1>1. s \in Seq(Sample) /\ Introduced(Cat(Cat(x, h), s))
  BY Cats
<1>2. r # <<>> => s # <<>> /\ s[1] = r[1]
  <2>1. Len(r) \in Nat /\ Len(y) \in Nat /\ (r # <<>> => Len(r) >= 1)
    OBVIOUS
  <2>2. /\ r \o y \in Seq(Sample) /\ Len(r \o y) = Len(r) + Len(y)
        /\ \A k \in 1..(Len(r) + Len(y)) : (r \o y)[k] = IF k <= Len(r) THEN r[k] ELSE y[k - Len(r)]
    BY ConcatProperties
  <2>3. s = r \o y
    BY DEF Cat
  <2> HIDE DEF s
  <2>4. Len(s) = Len(r) + Len(y) /\ (Len(r) >= 1 => s[1] = r[1])
    BY <2>1, <2>2, <2>3
  <2> QED BY <2>1, <2>4
<1> HIDE DEF s
<1>3. s = <<>> \/ Kind(s[1]) \notin Turns => \A f : Ends(h, f) => Ends(b, f)
  BY <1>2
<1>4. Introduced(x \o h \o s)
  BY <1>1 DEF Cat
<1>5. Introduced(x \o b \o s)
  BY <1>1, <1>3, <1>4, Exchanged
<1>6. Introduced(Cat(Cat(x, b), Cat(r, y)))
  BY <1>5 DEF Cat, s
<1> QED BY <1>6, Cats

\* A list is what comes before a place and what comes from it on.
LEMMA SplitAt ==
  ASSUME NEW list \in Seq(Sample), NEW p \in 1..(Len(list) + 1)
  PROVE  LET h == SubSeq(list, 1, p - 1)
             r == SubSeq(list, p, Len(list))
         IN  /\ h \in Seq(Sample) /\ r \in Seq(Sample) /\ list = h \o r
             /\ Len(h) = p - 1 /\ \A k \in 1..Len(h) : h[k] = list[k]
             /\ p <= Len(list) => r # <<>> /\ r[1] = list[p]
<1> DEFINE h == SubSeq(list, 1, p - 1)
           r == SubSeq(list, p, Len(list))
<1>1. Len(list) \in Nat /\ p \in Nat
  OBVIOUS
<1>2. h \in Seq(Sample) /\ r \in Seq(Sample) /\ Len(h) = p - 1 /\ Len(r) = Len(list) - p + 1
      /\ (\A k \in 1..Len(h) : h[k] = list[k]) /\ (\A k \in 1..Len(r) : r[k] = list[p + k - 1])
  OBVIOUS
<1>3. list = h \o r
  <2>1. /\ h \o r \in Seq(Sample) /\ Len(h \o r) = Len(h) + Len(r)
        /\ \A k \in 1..(Len(h) + Len(r)) : (h \o r)[k] = IF k <= Len(h) THEN h[k] ELSE r[k - Len(h)]
    BY <1>2, ConcatProperties
  <2> HIDE DEF h, r
  <2>2. Len(h \o r) = Len(list)
    BY <1>1, <1>2, <2>1
  <2>3. ASSUME NEW k \in 1..Len(list) PROVE (h \o r)[k] = list[k]
    <3>1. CASE k <= Len(h)
      BY <1>1, <1>2, <2>1, <2>2, <3>1
    <3>2. CASE ~(k <= Len(h))
      <4>1. k - Len(h) \in 1..Len(r) /\ p + (k - Len(h)) - 1 = k
        BY <1>1, <1>2, <2>1, <2>2, <3>2
      <4> QED BY <1>2, <2>1, <2>2, <3>2, <4>1
    <3> QED BY <3>1, <3>2
  <2> QED BY <2>1, <2>2, <2>3, SeqEqual
<1>4. p <= Len(list) => r # <<>> /\ r[1] = list[p]
  <2> HIDE DEF h, r
  <2> QED BY <1>1, <1>2
<1> QED BY <1>2, <1>3, <1>4

\* So a list may be cut by SetPosition,
LEMMA CutReplaces ==
  ASSUME NEW list \in Seq(Sample), NEW p \in 1..(Len(list) + 1)
  PROVE  Replaces(SetPosition(list, p), list)
<1> DEFINE h == SubSeq(list, 1, p - 1)
           r == SubSeq(list, p, Len(list))
<1>1. PICK b \in Seq(Sample) :
        /\ SetPosition(list, p) = b \o r /\ Frameless(b)
        /\ p > Len(list) \/ Kind(list[p]) \notin Turns => \A f : Ends(h, f) => Ends(b, f)
        /\ Unturned(h) => Unturned(b)
  BY KeptFormat
<1>2. /\ h \in Seq(Sample) /\ r \in Seq(Sample) /\ list = h \o r
      /\ p <= Len(list) => r # <<>> /\ r[1] = list[p]
  BY SplitAt
<1> HIDE DEF h, r
<1>3. r = <<>> \/ Kind(r[1]) \notin Turns => \A f : Ends(h, f) => Ends(b, f)
  <2>1. Len(list) \in Nat /\ p \in Nat
    OBVIOUS
  <2> QED BY <1>1, <1>2, <2>1
<1>4. Replaces(Cat(b, r), Cat(h, r))
  BY <1>1, <1>2, <1>3, FrontReplaced
<1> QED BY <1>1, <1>2, <1>4 DEF Cat

\* lose a first sample that a turn follows and that is one itself,
LEMMA HeadReplaced ==
  ASSUME NEW list \in Seq(Sample), Len(list) >= 2, Kind(list[1]) \in Turns,
         Kind(list[2]) \in Turns
  PROVE  Replaces(SubSeq(list, 2, Len(list)), list)
<1> DEFINE h == SubSeq(list, 1, 2 - 1)
           r == SubSeq(list, 2, Len(list))
<1>1. /\ h \in Seq(Sample) /\ r \in Seq(Sample) /\ list = h \o r
      /\ r # <<>> /\ r[1] = list[2] /\ Len(h) = 1 /\ h[1] = list[1]
  <2>1. 2 \in 1..(Len(list) + 1) /\ 1 \in 1..1
    OBVIOUS
  <2>2. /\ h \in Seq(Sample) /\ r \in Seq(Sample) /\ list = h \o r
        /\ Len(h) = 2 - 1 /\ \A k \in 1..Len(h) : h[k] = list[k]
        /\ 2 <= Len(list) => r # <<>> /\ r[1] = list[2]
    BY <2>1, SplitAt
  <2> HIDE DEF h, r
  <2> QED BY <2>1, <2>2
<1> HIDE DEF h, r
<1>2. Frameless(<<>>) /\ ~Unturned(h) /\ <<>> \in Seq(Sample)
  BY <1>1 DEF Frameless, Unturned
<1>3. Replaces(Cat(<<>>, r), Cat(h, r))
  BY <1>1, <1>2, FrontReplaced
<1>4. Cat(<<>>, r) = r /\ Cat(h, r) = list
  BY <1>1, ConcatEmptySeq DEF Cat
<1> QED BY <1>3, <1>4 DEF r

\* or keep its kinds and encodings only.
LEMMA AlikeReplaces ==
  ASSUME NEW a \in Seq(Sample), NEW b \in Seq(Sample), Len(a) = Len(b),
         \A i \in 1..Len(b) : Kind(a[i]) = Kind(b[i]) /\ a[i].fmt = b[i].fmt
  PROVE  Replaces(a, b)
<1> SUFFICES ASSUME NEW x \in Seq(Sample), NEW y \in Seq(Sample), Introduced(Cat(Cat(x, b), y))
             PROVE  Introduced(Cat(Cat(x, a), y))
  BY DEF Replaces
<1> DEFINE X == x \o b \o y
           Z == x \o a \o y
<1>1. /\ X \in Seq(Sample) /\ Len(X) = Len(x) + Len(b) + Len(y)
      /\ \A k \in 1..Len(x) : X[k] = x[k]
      /\ \A k \in 1..Len(b) : X[Len(x) + k] = b[k]
      /\ \A k \in 1..Len(y) : X[Len(x) + Len(b) + k] = y[k]
  BY Parts
<1>2. /\ Z \in Seq(Sample) /\ Len(Z) = Len(x) + Len(a) + Len(y)
      /\ \A k \in 1..Len(x) : Z[k] = x[k]
      /\ \A k \in 1..Len(a) : Z[Len(x) + k] = a[k]
      /\ \A k \in 1..Len(y) : Z[Len(x) + Len(a) + k] = y[k]
  BY Parts
<1>3. Introduced(X)
  BY DEF Cat
<1>4. Introduced(Z) => Introduced(Cat(Cat(x, a), y))
  BY DEF Cat
<1>5. Len(x) \in Nat /\ Len(b) \in Nat /\ Len(y) \in Nat
  OBVIOUS
<1> HIDE DEF X, Z
<1>6. DOMAIN X = DOMAIN Z /\ DOMAIN X = 1..Len(X)
  BY <1>1, <1>2
<1>7. ASSUME NEW k \in DOMAIN X PROVE Kind(Z[k]) = Kind(X[k]) /\ Z[k].fmt = X[k].fmt
  <2>1. CASE k <= Len(x)
    <3>1. k \in 1..Len(x)
      BY <1>5, <1>6, <2>1
    <3> QED BY <1>1, <1>2, <3>1
  <2>2. CASE k > Len(x) /\ k <= Len(x) + Len(b)
    <3>1. k - Len(x) \in 1..Len(b) /\ Len(x) + (k - Len(x)) = k
      BY <1>5, <1>6, <2>2
    <3>2. X[k] = b[k - Len(x)] /\ Z[k] = a[k - Len(x)]
      BY <1>1, <1>2, <3>1
    <3> QED BY <3>1, <3>2
  <2>3. CASE k > Len(x) + Len(b)
    <3> DEFINE d == k - (Len(x) + Len(b))
    <3>1. d \in 1..Len(y) /\ k = Len(x) + Len(b) + d
      <4>1. k \in 1..Len(X)
        BY <1>6
      <4> QED BY <1>1, <1>5, <2>3, <4>1
    <3> HIDE DEF d
    <3>2. X[k] = y[d]
      BY <1>1, <3>1
    <3>3. Z[k] = y[d]
      BY <1>2, <3>1
    <3> QED BY <3>2, <3>3
  <2> QED BY <1>1, <1>5, <1>6, <2>1, <2>2, <2>3
<1>8. Introduced(Z)
  <2> SUFFICES ASSUME NEW i \in DOMAIN Z, Kind(Z[i]) = "frame"
               PROVE  \E j \in 1..(i - 1) :
                        /\ Kind(Z[j]) = "format" /\ Z[j].fmt = Z[i].fmt
                        /\ \A k \in (j + 1)..(i - 1) : Kind(Z[k]) \notin Turns
    BY DEF Introduced
  <2>1. PICK j \in 1..(i - 1) :
          /\ Kind(X[j]) = "format" /\ X[j].fmt = X[i].fmt
          /\ \A k \in (j + 1)..(i - 1) : Kind(X[k]) \notin Turns
    BY <1>3, <1>6, <1>7 DEF Introduced
  <2>2. \A k \in 1..(i - 1) : k \in DOMAIN X
    BY <1>1, <1>5, <1>6
  <2>3. \A k \in (j + 1)..(i - 1) : k \in 1..(i - 1)
    BY <1>6
  <2> QED BY <1>6, <1>7, <2>1, <2>2, <2>3
<1> QED BY <1>4, <1>8

\* What replaces a list does so too when nothing follows.
LEMMA ReplacesAlone ==
  ASSUME NEW a \in Seq(Sample), NEW b \in Seq(Sample), NEW x \in Seq(Sample), Replaces(a, b)
  PROVE  Introduced(Cat(x, b)) => Introduced(Cat(x, a))
<1>1. \A u \in Seq(Sample) : Cat(u, <<>>) = u
  BY ConcatEmptySeq DEF Cat
<1>2. Cat(x, b) \in Seq(Sample) /\ Cat(x, a) \in Seq(Sample) /\ <<>> \in Seq(Sample)
  BY Cats
<1>3. Introduced(Cat(Cat(x, b), <<>>)) => Introduced(Cat(Cat(x, a), <<>>))
  BY <1>2, Zenon DEF Replaces
<1> QED BY <1>1, <1>2, <1>3

\* The parts of a concatenation
LEMMA CatParts ==
  ASSUME NEW x \in Seq(Sample), NEW y \in Seq(Sample)
  PROVE  /\ Cat(x, y) \in Seq(Sample) /\ Len(Cat(x, y)) = Len(x) + Len(y)
         /\ Len(x) \in Nat /\ Len(y) \in Nat
         /\ \A k \in 1..Len(x) : Cat(x, y)[k] = x[k]
         /\ \A k \in 1..Len(y) : Cat(x, y)[Len(x) + k] = y[k]
<1>1. Len(x) \in Nat /\ Len(y) \in Nat
  OBVIOUS
<1>2. /\ x \o y \in Seq(Sample) /\ Len(x \o y) = Len(x) + Len(y)
      /\ \A k \in 1..(Len(x) + Len(y)) : (x \o y)[k] = IF k <= Len(x) THEN x[k] ELSE y[k - Len(x)]
  BY ConcatProperties
<1>3. \A k \in 1..Len(x) : (x \o y)[k] = x[k]
  BY <1>1, <1>2
<1>4. \A k \in 1..Len(y) : (x \o y)[Len(x) + k] = y[k]
  <2> TAKE k \in 1..Len(y)
  <2>1. Len(x) + k \in 1..(Len(x) + Len(y)) /\ ~(Len(x) + k <= Len(x)) /\ Len(x) + k - Len(x) = k
    BY <1>1
  <2> QED BY <1>2, <2>1
<1> QED BY <1>1, <1>2, <1>3, <1>4 DEF Cat

\* A list goes on with frames of the encoding in force, until one is announced.
LEMMA GoesOn ==
  ASSUME NEW x \in Seq(Sample), NEW y \in Seq(Sample), Introduced(x),
         \A i \in 1..Len(y) : Kind(y[i]) = "frame" =>
           \/ \E j \in 1..(i - 1) : /\ Kind(y[j]) = "format" /\ y[j].fmt = y[i].fmt
                                    /\ \A k \in (j + 1)..(i - 1) : Kind(y[k]) \notin Turns
           \/ Ends(x, y[i].fmt) /\ \A k \in 1..(i - 1) : Kind(y[k]) \notin Turns
  PROVE  Introduced(Cat(x, y))
<1> DEFINE Z == Cat(x, y)
           n == Len(x)
<1>1. /\ Z \in Seq(Sample) /\ Len(Z) = n + Len(y) /\ n \in Nat /\ Len(y) \in Nat
      /\ \A k \in 1..n : Z[k] = x[k]
      /\ \A k \in 1..Len(y) : Z[n + k] = y[k]
  BY CatParts
<1>2. DOMAIN x = 1..n
  OBVIOUS
<1> HIDE DEF Z, n
<1>3. DOMAIN Z = 1..Len(Z)
  BY <1>1
<1> SUFFICES ASSUME NEW i \in 1..Len(Z), Kind(Z[i]) = "frame"
             PROVE  \E j \in 1..(i - 1) :
                      /\ Kind(Z[j]) = "format" /\ Z[j].fmt = Z[i].fmt
                      /\ \A k \in (j + 1)..(i - 1) : Kind(Z[k]) \notin Turns
  BY <1>3 DEF Introduced, Z
<1>4. CASE i <= n
  <2>1. i \in 1..n /\ Z[i] = x[i]
    BY <1>1, <1>4
  <2>2. PICK j \in 1..(i - 1) : /\ Kind(x[j]) = "format" /\ x[j].fmt = x[i].fmt
                                /\ \A k \in (j + 1)..(i - 1) : Kind(x[k]) \notin Turns
    BY <1>2, <2>1 DEF Introduced
  <2>3. \A k \in 1..(i - 1) : k \in 1..n
    BY <1>1, <2>1
  <2>4. \A k \in (j + 1)..(i - 1) : k \in 1..(i - 1)
    BY <2>1
  <2> QED BY <1>1, <2>1, <2>2, <2>3, <2>4
<1>5. CASE i > n
  <2> DEFINE e == i - n
  <2>1. e \in 1..Len(y) /\ i = n + e
    BY <1>1, <1>5
  <2> HIDE DEF e
  <2>2. Z[i] = y[e] /\ Kind(y[e]) = "frame"
    BY <1>1, <2>1
  <2>3. CASE \E j \in 1..(e - 1) : /\ Kind(y[j]) = "format" /\ y[j].fmt = y[e].fmt
                                   /\ \A k \in (j + 1)..(e - 1) : Kind(y[k]) \notin Turns
    <3>1. PICK j \in 1..(e - 1) : /\ Kind(y[j]) = "format" /\ y[j].fmt = y[e].fmt
                                  /\ \A k \in (j + 1)..(e - 1) : Kind(y[k]) \notin Turns
      BY <2>3
    <3>2. n + j \in 1..(i - 1) /\ Z[n + j] = y[j]
      BY <1>1, <2>1
    <3>3. ASSUME NEW k \in (n + j + 1)..(i - 1) PROVE Kind(Z[k]) \notin Turns
      <4> DEFINE c == k - n
      <4>1. c \in (j + 1)..(e - 1) /\ c \in 1..Len(y) /\ k = n + c
        BY <1>1, <2>1
      <4> HIDE DEF c
      <4> QED BY <1>1, <3>1, <4>1
    <3> QED BY <2>2, <3>1, <3>2, <3>3
  <2>4. CASE Ends(x, y[e].fmt) /\ \A k \in 1..(e - 1) : Kind(y[k]) \notin Turns
    <3>1. PICK j \in 1..n : /\ Kind(x[j]) = "format" /\ x[j].fmt = y[e].fmt
                            /\ \A k \in (j + 1)..n : Kind(x[k]) \notin Turns
      BY <2>4 DEF Ends, n
    <3>2. j \in 1..(i - 1) /\ Z[j] = x[j]
      BY <1>1, <2>1
    <3>3. ASSUME NEW k \in (j + 1)..(i - 1) PROVE Kind(Z[k]) \notin Turns
      <4>1. CASE k <= n
        <5>1. k \in 1..n /\ k \in (j + 1)..n
          BY <1>1, <4>1
        <5> QED BY <1>1, <3>1, <5>1
      <4>2. CASE k > n
        <5> DEFINE c == k - n
        <5>1. c \in 1..(e - 1) /\ c \in 1..Len(y) /\ k = n + c
          BY <1>1, <2>1, <4>2
        <5> HIDE DEF c
        <5> QED BY <1>1, <2>4, <5>1
      <4> QED BY <1>1, <4>1, <4>2
    <3> QED BY <2>2, <3>1, <3>2, <3>3
  <2> QED BY <2>1, <2>2, <2>3, <2>4
<1> QED BY <1>1, <1>4, <1>5

\* What a list begins with
LEMMA BeginsIntroduced ==
  ASSUME NEW x \in Seq(Sample), NEW y \in Seq(Sample), Introduced(Cat(x, y))
  PROVE  /\ Introduced(x)
         /\ \A i \in 1..Len(y) : Kind(y[i]) = "frame" =>
              \/ \E j \in 1..(i - 1) : /\ Kind(y[j]) = "format" /\ y[j].fmt = y[i].fmt
                                       /\ \A k \in (j + 1)..(i - 1) : Kind(y[k]) \notin Turns
              \/ Ends(x, y[i].fmt) /\ \A k \in 1..(i - 1) : Kind(y[k]) \notin Turns
<1> DEFINE Z == Cat(x, y)
           n == Len(x)
<1>1. /\ Z \in Seq(Sample) /\ Len(Z) = n + Len(y) /\ n \in Nat /\ Len(y) \in Nat
      /\ \A k \in 1..n : Z[k] = x[k]
      /\ \A k \in 1..Len(y) : Z[n + k] = y[k]
  BY CatParts
<1>2. DOMAIN x = 1..n /\ Introduced(Z)
  OBVIOUS
<1> HIDE DEF Z, n
<1>3. DOMAIN Z = 1..Len(Z)
  BY <1>1
<1>4. Introduced(x)
  <2> SUFFICES ASSUME NEW i \in 1..n, Kind(x[i]) = "frame"
               PROVE  \E j \in 1..(i - 1) :
                        /\ Kind(x[j]) = "format" /\ x[j].fmt = x[i].fmt
                        /\ \A k \in (j + 1)..(i - 1) : Kind(x[k]) \notin Turns
    BY <1>2 DEF Introduced
  <2>1. i \in 1..Len(Z) /\ Z[i] = x[i]
    BY <1>1
  <2>2. PICK j \in 1..(i - 1) : /\ Kind(Z[j]) = "format" /\ Z[j].fmt = Z[i].fmt
                                /\ \A k \in (j + 1)..(i - 1) : Kind(Z[k]) \notin Turns
    BY <1>2, <1>3, <2>1 DEF Introduced
  <2>3. \A k \in 1..(i - 1) : k \in 1..n
    BY <1>1
  <2>4. \A k \in (j + 1)..(i - 1) : k \in 1..(i - 1)
    BY <2>1
  <2> QED BY <1>1, <2>1, <2>2, <2>3, <2>4
<1>5. ASSUME NEW e \in 1..Len(y), Kind(y[e]) = "frame"
      PROVE  \/ \E j \in 1..(e - 1) : /\ Kind(y[j]) = "format" /\ y[j].fmt = y[e].fmt
                                      /\ \A k \in (j + 1)..(e - 1) : Kind(y[k]) \notin Turns
             \/ Ends(x, y[e].fmt) /\ \A k \in 1..(e - 1) : Kind(y[k]) \notin Turns
  <2> DEFINE i == n + e
  <2>1. i \in 1..Len(Z) /\ Z[i] = y[e] /\ i = n + e
    BY <1>1
  <2> HIDE DEF i
  <2>2. PICK j \in 1..(i - 1) : /\ Kind(Z[j]) = "format" /\ Z[j].fmt = Z[i].fmt
                                /\ \A k \in (j + 1)..(i - 1) : Kind(Z[k]) \notin Turns
    BY <1>2, <1>3, <1>5, <2>1 DEF Introduced
  <2>3. CASE j > n
    <3> DEFINE d == j - n
    <3>1. d \in 1..(e - 1) /\ j = n + d
      BY <1>1, <2>1, <2>3
    <3> HIDE DEF d
    <3>2. d \in 1..Len(y) /\ Z[j] = y[d]
      BY <1>1, <3>1
    <3>3. ASSUME NEW k \in (d + 1)..(e - 1) PROVE Kind(y[k]) \notin Turns
      <4>1. k \in 1..Len(y) /\ n + k \in (j + 1)..(i - 1)
        BY <1>1, <2>1, <3>1
      <4> QED BY <1>1, <2>2, <4>1
    <3> QED BY <2>1, <2>2, <3>1, <3>2, <3>3
  <2>4. CASE j <= n
    <3>1. j \in 1..n /\ Z[j] = x[j]
      BY <1>1, <2>4
    <3>2. ASSUME NEW k \in (j + 1)..n PROVE Kind(x[k]) \notin Turns
      <4>1. k \in 1..n /\ k \in (j + 1)..(i - 1)
        BY <1>1, <2>1
      <4> QED BY <1>1, <2>2, <4>1
    <3>3. ASSUME NEW k \in 1..(e - 1) PROVE Kind(y[k]) \notin Turns
      <4>1. k \in 1..Len(y) /\ n + k \in (j + 1)..(i - 1)
        BY <1>1, <2>1, <2>4
      <4> QED BY <1>1, <2>2, <4>1
    <3>4. Ends(x, y[e].fmt)
      BY <2>1, <2>2, <3>1, <3>2 DEF Ends, n
    <3> QED BY <3>3, <3>4
  <2> QED BY <1>1, <2>1, <2>3, <2>4
<1> QED BY <1>4, <1>5

\* A marker is a format sample of its encoding.
LEMMA MarkerFormat ==
  ASSUME NEW f \in Encoding
  PROVE  /\ Marker(f) \in Seq(Sample) /\ Len(Marker(f)) = 1
         /\ Kind(Marker(f)[1]) = "format" /\ Marker(f)[1].fmt = f
         /\ \A g : Ends(Marker(f), g) <=> g = f
<1> DEFINE s == [flags |-> {"format"}, time |-> 0, fmt |-> f]
<1>1. s \in Sample /\ s.flags = {"format"} /\ s.fmt = f
  BY DEF Sample, Flag, Priority
<1>2. 2 \in DOMAIN Priority /\ Priority[2] = "format"
      /\ \A i \in DOMAIN Priority : Has(s, Priority[i]) <=> i = 2
  BY DEF Priority, Has
<1> HIDE DEF s
<1>3. Kind(s) = "format"
  BY <1>2, KindOfMarker
<1>4. Marker(f) = <<s>>
  BY DEF Marker, s
<1>5. Marker(f) \in Seq(Sample) /\ Len(Marker(f)) = 1 /\ Marker(f)[1] = s
  BY <1>1, <1>4
<1>6. \A g : Ends(Marker(f), g) <=> g = f
  BY <1>1, <1>3, <1>5 DEF Ends
<1> QED BY <1>1, <1>3, <1>5, <1>6

\* The player takes the first sample, and knows the encoding it announces.
LEMMA PopReplaces ==
  ASSUME NEW f \in Encoding, NEW q \in Seq(Sample), q # <<>>
  PROVE  LET g == IF Kind(q[1]) = "format" THEN q[1].fmt ELSE f
         IN  g \in Encoding /\ Replaces(Cat(Marker(g), Tail(q)), Cat(Marker(f), q))
<1> DEFINE g == IF Kind(q[1]) = "format" THEN q[1].fmt ELSE f
           one == SubSeq(q, 1, 2 - 1)
           h == Cat(Marker(f), one)
           r == SubSeq(q, 2, Len(q))
<1>1. Len(q) \in Nat /\ Len(q) >= 1 /\ q[1] \in Sample
  OBVIOUS
<1>2. g \in Encoding
  BY <1>1 DEF Sample
<1> HIDE DEF g
<1>3. /\ one \in Seq(Sample) /\ r \in Seq(Sample) /\ q = Cat(one, r)
      /\ Len(one) = 1 /\ one[1] = q[1] /\ Tail(q) = r
  <2>1. 2 \in 1..(Len(q) + 1) /\ 1 \in 1..1 /\ 2 - 1 = 1
    BY <1>1
  <2>2. /\ one \in Seq(Sample) /\ r \in Seq(Sample) /\ q = one \o r
        /\ Len(one) = 2 - 1 /\ \A k \in 1..Len(one) : one[k] = q[k]
    BY <2>1, SplitAt
  <2>3. Tail(q) = r
    BY <1>1
  <2> HIDE DEF one, r
  <2> QED BY <2>1, <2>2, <2>3 DEF Cat
<1> HIDE DEF one, r
<1>4. /\ Marker(f) \in Seq(Sample) /\ Len(Marker(f)) = 1
      /\ Kind(Marker(f)[1]) = "format" /\ Marker(f)[1].fmt = f
  BY MarkerFormat
<1>5. /\ Marker(g) \in Seq(Sample) /\ Len(Marker(g)) = 1 /\ Kind(Marker(g)[1]) = "format"
      /\ \A e : Ends(Marker(g), e) <=> e = g
  BY <1>2, MarkerFormat
<1>6. /\ h \in Seq(Sample) /\ Len(h) = 2
      /\ Kind(h[1]) = "format" /\ h[1].fmt = f /\ h[2] = q[1]
  <2>1. /\ h \in Seq(Sample) /\ Len(h) = Len(Marker(f)) + Len(one)
        /\ \A k \in 1..Len(Marker(f)) : h[k] = Marker(f)[k]
        /\ \A k \in 1..Len(one) : h[Len(Marker(f)) + k] = one[k]
    BY <1>3, <1>4, CatParts
  <2> HIDE DEF h
  <2>2. 1 \in 1..Len(Marker(f)) /\ 1 \in 1..Len(one) /\ Len(Marker(f)) + 1 = 2
    BY <1>3, <1>4
  <2> QED BY <1>3, <1>4, <2>1, <2>2
<1>7. Cat(h, r) = Cat(Marker(f), q)
  BY <1>3, <1>4, Cats
<1> HIDE DEF h
<1>8. Frameless(Marker(g)) /\ ~Unturned(h)
  BY <1>5, <1>6 DEF Frameless, Unturned, Turns
<1>9. \A e : Ends(h, e) => Ends(Marker(g), e)
  <2> SUFFICES ASSUME NEW e, Ends(h, e) PROVE e = g
    BY <1>5
  <2>1. PICK j \in 1..2 : /\ Kind(h[j]) = "format" /\ h[j].fmt = e
                          /\ \A k \in (j + 1)..2 : Kind(h[k]) \notin Turns
    BY <1>6 DEF Ends
  <2>2. CASE j = 1
    BY <1>6, <2>1, <2>2 DEF Turns, g
  <2>3. CASE j = 2
    BY <1>6, <2>1, <2>3 DEF g
  <2> QED BY <2>2, <2>3
<1>10. Replaces(Cat(Marker(g), r), Cat(h, r))
  BY <1>3, <1>5, <1>6, <1>8, <1>9, FrontReplaced
<1> QED BY <1>2, <1>3, <1>7, <1>10 DEF g

\* A marker may come last.
LEMMA MarkerLast ==
  ASSUME NEW x \in Seq(Sample), NEW q \in Seq(Sample), NEW s \in Sample, Kind(s) # "frame",
         Introduced(Cat(x, q))
  PROVE  Introduced(Cat(x, Append(q, s)))
<1> DEFINE y == <<s>>
<1>1. y \in Seq(Sample) /\ Len(y) = 1 /\ y[1] = s /\ Append(q, s) = Cat(q, y)
  BY DEF Cat
<1> HIDE DEF y
<1>2. Cat(x, Append(q, s)) = Cat(Cat(x, q), y) /\ Cat(x, q) \in Seq(Sample)
  BY <1>1, Cats
<1>3. \A i \in 1..Len(y) : Kind(y[i]) # "frame"
  BY <1>1
<1>4. Introduced(Cat(Cat(x, q), y))
  BY <1>1, <1>2, <1>3, GoesOn
<1> QED BY <1>2, <1>4

\* The tip of a list is a list of samples.
LEMMA TipIn ==
  ASSUME NEW list \in Seq(Sample)
  PROVE  /\ Tip(list) \in Seq(Sample) /\ Carried(list) \in Seq(Sample)
         /\ \/ Tip(list) = <<>> /\ Carried(list) = <<>>
            \/ /\ list # <<>> /\ Kind(list[Len(list)]) = "frame" /\ list[Len(list)] \in Sample
               /\ Tip(list) = <<list[Len(list)]>> /\ Carried(list) = Marker(list[Len(list)].fmt)
<1>1. list # <<>> => list[Len(list)] \in Sample
  OBVIOUS
<1>2. CASE list = <<>> \/ Kind(list[Len(list)]) # "frame"
  BY <1>2 DEF Tip, Carried
<1>3. CASE ~(list = <<>> \/ Kind(list[Len(list)]) # "frame")
  <2>1. Tip(list) = <<list[Len(list)]>> /\ list[Len(list)] \in Sample
    BY <1>1, <1>3 DEF Tip
  <2>2. Tip(list) # <<>> /\ Tip(list) \in Seq(Sample)
    BY <2>1
  <2>3. Carried(list) = Marker(list[Len(list)].fmt)
    BY <2>2 DEF Carried
  <2>4. Carried(list) \in Seq(Sample)
    BY <2>1, <2>3, MarkerFormat DEF Sample
  <2> QED BY <1>3, <2>1, <2>2, <2>3, <2>4
<1> QED BY <1>2, <1>3

\* A list may follow what its predecessor's last frame may.
LEMMA Fetched ==
  ASSUME NEW x \in Seq(Sample), NEW c \in Seq(Sample), NEW y \in Seq(Sample),
         Introduced(Cat(x, Tip(c))), Introduced(Cat(Carried(c), y))
  PROVE  Introduced(Cat(x, y))
<1>1. \A u \in Seq(Sample) : Cat(u, <<>>) = u /\ Cat(<<>>, u) = u
  BY ConcatEmptySeq DEF Cat
<1>2. CASE Tip(c) = <<>> /\ Carried(c) = <<>>
  <2>1. Introduced(x) /\ Introduced(y)
    BY <1>1, <1>2
  <2>2. \A i \in 1..Len(y) : Kind(y[i]) = "frame" =>
           \E j \in 1..(i - 1) : /\ Kind(y[j]) = "format" /\ y[j].fmt = y[i].fmt
                                 /\ \A k \in (j + 1)..(i - 1) : Kind(y[k]) \notin Turns
    BY <2>1 DEF Introduced
  <2> QED BY <2>1, <2>2, GoesOn
<1>3. CASE /\ Kind(c[Len(c)]) = "frame" /\ c[Len(c)] \in Sample
           /\ Tip(c) = <<c[Len(c)]>> /\ Carried(c) = Marker(c[Len(c)].fmt)
  <2> DEFINE l == c[Len(c)]
  <2>1. Tip(c) \in Seq(Sample) /\ Len(Tip(c)) = 1 /\ Tip(c)[1] = l
    BY <1>3
  <2>2. l \in Sample /\ Kind(l) = "frame" /\ l.fmt \in Encoding
    BY <1>3 DEF Sample
  <2>3. Carried(c) = Marker(l.fmt)
    BY <1>3
  <2> HIDE DEF l
  <2>4. Introduced(x) /\ Ends(x, l.fmt)
    <3>1. /\ Introduced(x)
          /\ \A i \in 1..Len(Tip(c)) : Kind(Tip(c)[i]) = "frame" =>
              \/ \E j \in 1..(i - 1) : /\ Kind(Tip(c)[j]) = "format" /\ Tip(c)[j].fmt = Tip(c)[i].fmt
                                       /\ \A k \in (j + 1)..(i - 1) : Kind(Tip(c)[k]) \notin Turns
              \/ Ends(x, Tip(c)[i].fmt) /\ \A k \in 1..(i - 1) : Kind(Tip(c)[k]) \notin Turns
      BY <2>1, BeginsIntroduced
    <3>2. 1 \in 1..Len(Tip(c)) /\ 1..(1 - 1) = {}
      BY <2>1
    <3> QED BY <2>1, <2>2, <3>1, <3>2
  <2>5. Marker(l.fmt) \in Seq(Sample) /\ \A g : Ends(Marker(l.fmt), g) <=> g = l.fmt
    BY <2>2, MarkerFormat
  <2>6. \A i \in 1..Len(y) : Kind(y[i]) = "frame" =>
              \/ \E j \in 1..(i - 1) : /\ Kind(y[j]) = "format" /\ y[j].fmt = y[i].fmt
                                       /\ \A k \in (j + 1)..(i - 1) : Kind(y[k]) \notin Turns
              \/ Ends(Marker(l.fmt), y[i].fmt) /\ \A k \in 1..(i - 1) : Kind(y[k]) \notin Turns
    BY <2>3, <2>5, BeginsIntroduced
  <2>7. \A i \in 1..Len(y) : Kind(y[i]) = "frame" =>
              \/ \E j \in 1..(i - 1) : /\ Kind(y[j]) = "format" /\ y[j].fmt = y[i].fmt
                                       /\ \A k \in (j + 1)..(i - 1) : Kind(y[k]) \notin Turns
              \/ Ends(x, y[i].fmt) /\ \A k \in 1..(i - 1) : Kind(y[k]) \notin Turns
    BY <2>4, <2>5, <2>6
  <2> QED BY <2>4, <2>7, GoesOn
<1> QED BY <1>2, <1>3, TipIn

\* Its own last frame may come again.
LEMMA TipAgain ==
  ASSUME NEW x \in Seq(Sample), NEW y \in Seq(Sample), Introduced(Cat(x, y))
  PROVE  Introduced(Cat(Cat(x, y), Tip(y)))
<1> DEFINE z == Cat(x, y)
<1>1. /\ z \in Seq(Sample) /\ Len(z) = Len(x) + Len(y) /\ Len(x) \in Nat /\ Len(y) \in Nat
      /\ \A k \in 1..Len(y) : z[Len(x) + k] = y[k]
  BY CatParts
<1>2. Introduced(z)
  OBVIOUS
<1> HIDE DEF z
<1>3. CASE Tip(y) = <<>>
  BY <1>1, <1>2, <1>3, ConcatEmptySeq DEF Cat, z
<1>4. CASE y # <<>> /\ Kind(y[Len(y)]) = "frame" /\ y[Len(y)] \in Sample /\ Tip(y) = <<y[Len(y)]>>
  <2> DEFINE l == y[Len(y)]
             n == Len(z)
  <2>1. Len(y) >= 1
    BY <1>1, <1>4
  <2>2. n \in 1..n /\ z[n] = l /\ n \in Nat
    <3>1. Len(y) \in 1..Len(y)
      BY <1>1, <2>1
    <3> QED BY <1>1, <2>1, <3>1
  <2>3. Tip(y) \in Seq(Sample) /\ Len(Tip(y)) = 1 /\ Tip(y)[1] = l /\ Kind(l) = "frame"
    BY <1>4
  <2> HIDE DEF l
  <2>4. Ends(z, l.fmt)
    <3>1. DOMAIN z = 1..n
      BY <1>1
    <3>2. PICK j \in 1..(n - 1) : /\ Kind(z[j]) = "format" /\ z[j].fmt = l.fmt
                                  /\ \A k \in (j + 1)..(n - 1) : Kind(z[k]) \notin Turns
      BY <1>2, <2>2, <2>3, <3>1 DEF Introduced
    <3> HIDE DEF n
    <3>3. ASSUME NEW k \in (j + 1)..n PROVE Kind(z[k]) \notin Turns
      <4>1. CASE k = n
        BY <2>2, <2>3, <4>1 DEF Turns
      <4>2. CASE k # n
        <5>1. k \in (j + 1)..(n - 1)
          BY <2>2, <4>2
        <5> QED BY <3>2, <5>1
      <4> QED BY <4>1, <4>2
    <3>4. j \in 1..n
      BY <2>2
    <3> QED BY <3>2, <3>3, <3>4 DEF Ends, n
  <2>5. \A i \in 1..Len(Tip(y)) :
          Ends(z, Tip(y)[i].fmt) /\ \A k \in 1..(i - 1) : Kind(Tip(y)[k]) \notin Turns
    <3>1. \A i \in 1..Len(Tip(y)) : i = 1 /\ 1..(i - 1) = {}
      BY <2>3
    <3> QED BY <2>3, <2>4, <3>1
  <2>6. Introduced(Cat(z, Tip(y)))
    BY <1>1, <1>2, <2>3, <2>5, GoesOn
  <2> QED BY <2>6 DEF z
<1> QED BY <1>3, <1>4, TipIn

\* A list with a frame that is introduced, after the encoding in force
LEMMA LastAnnounced ==
  ASSUME NEW f \in Encoding, NEW q \in Seq(Sample), Introduced(Cat(Marker(f), q))
  PROVE  LET announced(i) == {j \in 1..(i - 1) : Kind(q[j]) = "format"}
         IN  \A i \in DOMAIN q : Kind(q[i]) = "frame" =>
               q[i].fmt = IF announced(i) = {} THEN f ELSE q[Max(announced(i))].fmt
<1> DEFINE announced(i) == {j \in 1..(i - 1) : Kind(q[j]) = "format"}
<1> SUFFICES ASSUME NEW i \in 1..Len(q), Kind(q[i]) = "frame"
             PROVE  q[i].fmt = IF announced(i) = {} THEN f ELSE q[Max(announced(i))].fmt
  OBVIOUS
<1>1. \/ \E j \in 1..(i - 1) : /\ Kind(q[j]) = "format" /\ q[j].fmt = q[i].fmt
                               /\ \A k \in (j + 1)..(i - 1) : Kind(q[k]) \notin Turns
      \/ Ends(Marker(f), q[i].fmt) /\ \A k \in 1..(i - 1) : Kind(q[k]) \notin Turns
  BY MarkerFormat, BeginsIntroduced
<1>2. CASE \E j \in 1..(i - 1) : /\ Kind(q[j]) = "format" /\ q[j].fmt = q[i].fmt
                                 /\ \A k \in (j + 1)..(i - 1) : Kind(q[k]) \notin Turns
  <2>1. PICK j \in 1..(i - 1) : /\ Kind(q[j]) = "format" /\ q[j].fmt = q[i].fmt
                                /\ \A k \in (j + 1)..(i - 1) : Kind(q[k]) \notin Turns
    BY <1>2
  <2>2. j \in announced(i)
    BY <2>1
  <2>3. \A k \in announced(i) : k <= j
    BY <2>1 DEF Turns
  <2>4. IsFiniteSet(announced(i)) /\ announced(i) \subseteq Nat /\ announced(i) # {}
    <3>1. i - 1 \in Nat /\ announced(i) \subseteq 1..(i - 1)
      OBVIOUS
    <3> HIDE DEF announced
    <3> QED BY <2>2, <3>1, Positions
  <2> HIDE DEF announced
  <2>5. Max(announced(i)) \in announced(i) /\ \A y \in announced(i) : Max(announced(i)) >= y
    BY <2>4, MaxIn
  <2>6. Max(announced(i)) = j
    BY <2>2, <2>3, <2>4, <2>5
  <2> QED BY <2>1, <2>2, <2>6
<1>3. CASE Ends(Marker(f), q[i].fmt) /\ \A k \in 1..(i - 1) : Kind(q[k]) \notin Turns
  <2>1. announced(i) = {}
    BY <1>3 DEF Turns
  <2>2. q[i].fmt = f
    BY <1>3, MarkerFormat
  <2> QED BY <2>1, <2>2
<1> QED BY <1>1, <1>2, <1>3
=============================================================================
