-------------------------- MODULE ChunkAlignProofs --------------------------
(***************************************************************************)
(* What TLAPS proves about ChunkAlign, for chunks of any length.           *)
(*                                                                         *)
(* Each track is gone over twice, so what it holds is one of three things: *)
(* what came in, what the first loop makes of it (Merged and Rest), or     *)
(* what the second does (Whole).  The properties are then about two lists: *)
(* what goes out is what is left of the old one, followed by a cut of the  *)
(* new one (Halves).                                                       *)
(***************************************************************************)
EXTENDS ChunkAlign, SampleListProofs

Played == {"audio", "video"}

-----------------------------------------------------------------------------
(* The lists of a track *)

Matched(track) ==
    /\ old[track] # <<>> /\ new[track] # <<>>
    /\ Points(track, new[track], old[track][1].time) # {}
Point(track) == Min(Points(track, new[track], old[track][1].time))

Joint(track) ==
    CutOld(track, old[track], new[track][Point(track)].time)
        \o SetPosition(new[track], Point(track))
Merged(track) == IF Matched(track) THEN Joint(track) ELSE old[track]
Rest(track) == IF Matched(track) THEN <<>> ELSE new[track]

Abandoned(track) ==
    /\ old[track] # <<>> /\ new[track] # <<>>
    /\ ~Marked(old[track][1]) /\ ~Marked(new[track][1])
    /\ new[track][1].time < old[track][1].time
Whole(track) ==
    CASE Matched(track) -> Joint(track)
      [] ~Matched(track) /\ Abandoned(track) -> new[track]
      [] OTHER -> old[track] \o new[track]

Passed(n) ==
    LET track == Order[n] IN
    /\ at <= n => from[track] = old[track] /\ to[track] = new[track]
    /\ n < at /\ at <= n + 3 => from[track] = Merged(track) /\ to[track] = Rest(track)
    /\ n + 3 < at => from[track] = Whole(track) /\ to[track] = <<>>

AlignInv ==
    /\ old \in Old /\ new \in New /\ at \in 1 .. 7
    /\ DOMAIN from = Track /\ DOMAIN to = Track
    /\ \A n \in 1 .. 3 : Passed(n)

\* The lists that come in are lists of samples.
LEMMA ListsIn ==
    ASSUME old \in Old, new \in New, NEW track \in Track
    PROVE  old[track] \in Seq(Sample) /\ new[track] \in Seq(Sample)
<1>1. old \in [Track -> Seq(Sample)] /\ new \in [Track -> Seq(Sample)]
  BY ChunkAssumption
<1> QED BY <1>1

\* At the start nothing has been done.
LEMMA InitAlign == Init => AlignInv
<1> SUFFICES ASSUME Init PROVE AlignInv
  OBVIOUS
<1>1. old \in Old /\ new \in New /\ at = 1 /\ from = old /\ to = new
  BY DEF Init
<1>2. from \in [Track -> Seq(Sample)] /\ to \in [Track -> Seq(Sample)]
  BY <1>1, ChunkAssumption
<1>3. \A n \in 1 .. 3 : Passed(n)
  BY <1>1 DEF Passed
<1> QED BY <1>1, <1>2, <1>3 DEF AlignInv

\* Each turn makes of its track what is said of it, and leaves the others alone.
LEMMA TurnPasses ==
    ASSUME AlignInv, NEW n \in 1 .. 3, UNCHANGED <<old, new>>, at' = at + 1,
           at \in {n, n + 3}, DOMAIN from' = Track, DOMAIN to' = Track,
           \A track \in Track \ {Order[n]} : from'[track] = from[track] /\ to'[track] = to[track],
           at = n => from'[Order[n]] = Merged(Order[n]) /\ to'[Order[n]] = Rest(Order[n]),
           at = n + 3 => from'[Order[n]] = Whole(Order[n]) /\ to'[Order[n]] = <<>>
    PROVE  AlignInv'
<1>1. \A track : /\ Merged(track)' = Merged(track) /\ Rest(track)' = Rest(track)
                 /\ Whole(track)' = Whole(track)
  BY DEF Merged, Rest, Whole, Joint, Matched, Point, Abandoned
<1>2. at \in 1 .. 7 /\ \A m \in 1 .. 3 : Passed(m)
  BY DEF AlignInv
<1>3. Passed(n)'
  BY <1>1, <1>2 DEF Passed
<1>4. ASSUME NEW m \in 1 .. 3, m # n PROVE Passed(m)'
  <2>1. Order[m] \in Track \ {Order[n]}
    BY <1>4 DEF Order, Track
  <2>2. from'[Order[m]] = from[Order[m]] /\ to'[Order[m]] = to[Order[m]]
    BY <2>1
  <2>3. (at <= m <=> at' <= m) /\ (at <= m + 3 <=> at' <= m + 3)
    BY <1>2, <1>4
  <2> QED BY <1>1, <1>2, <2>2, <2>3 DEF Passed
<1>5. at' \in 1 .. 7
  BY <1>2
<1> QED BY <1>3, <1>4, <1>5 DEF AlignInv

\* Every step is a turn.
LEMMA NextAlign == AlignInv /\ [Next]_vars => AlignInv'
<1> SUFFICES ASSUME AlignInv, [Next]_vars PROVE AlignInv'
  OBVIOUS
<1>1. /\ at \in 1 .. 7 /\ \A n \in 1 .. 3 : Passed(n) /\ Order[n] \in Track
      /\ DOMAIN from = Track /\ DOMAIN to = Track
      /\ old \in Old /\ new \in New
  BY DEF AlignInv, Order, Track
<1>2. CASE AlignTrack
  <2> DEFINE track == Order[at]
  <2>1. at \in 1 .. 3 /\ at' = at + 1 /\ UNCHANGED <<old, new>> /\ track \in Track
    BY <1>1, <1>2 DEF AlignTrack
  <2>2. from[track] = old[track] /\ to[track] = new[track]
    BY <1>1, <2>1 DEF Passed
  <2>3. CASE Matched(track)
    <3>1. Align(track)
      BY <1>2, <2>2, <2>3 DEF AlignTrack, Matched
    <3>2. /\ from' = [from EXCEPT ![track] = Joint(track)]
          /\ to' = [to EXCEPT ![track] = <<>>]
      BY <2>2, <3>1 DEF Align, Joint, Point
    <3> HIDE DEF track
    <3> QED BY <1>1, <2>1, <2>3, <3>2, TurnPasses DEF Merged, Rest, track
  <2>4. CASE ~Matched(track)
    <3>1. UNCHANGED <<from, to>>
      BY <1>2, <2>2, <2>4 DEF AlignTrack, Matched
    <3> QED BY <1>1, <2>1, <2>2, <2>4, <3>1, TurnPasses DEF Merged, Rest
  <2> QED BY <2>3, <2>4
<1>3. CASE AppendTrack
  <2> DEFINE n == at - 3
             track == Order[n]
  <2>1. n \in 1 .. 3 /\ at = n + 3 /\ at' = at + 1 /\ UNCHANGED <<old, new>> /\ track \in Track
    BY <1>1, <1>3 DEF AppendTrack
  <2>2. from[track] = Merged(track) /\ to[track] = Rest(track)
    BY <1>1, <2>1 DEF Passed
  <2>3. old[track] \in Seq(Sample) /\ new[track] \in Seq(Sample)
    BY <1>1, <2>1, ListsIn
  <2>4. CASE to[track] = <<>>
    <3>1. UNCHANGED <<from, to>>
      BY <1>3, <2>4 DEF AppendTrack
    <3>2. Matched(track) \/ new[track] = <<>>
      BY <2>2, <2>4 DEF Rest
    <3>3. Merged(track) = Whole(track)
      <4>1. old[track] \o <<>> = old[track]
        BY <2>3, ConcatEmptySeq
      <4> QED BY <3>2, <4>1 DEF Merged, Whole, Abandoned
    <3> HIDE DEF track
    <3> QED BY <1>1, <2>1, <2>2, <2>4, <3>1, <3>3, TurnPasses DEF track
  <2>5. CASE to[track] # <<>>
    <3>1. ~Matched(track) /\ from[track] = old[track] /\ to[track] = new[track]
      BY <2>2, <2>5 DEF Rest, Merged
    <3>2. GivenUp(track) <=> Abandoned(track)
      BY <2>5, <3>1 DEF GivenUp, Abandoned
    <3>3. /\ from' = [from EXCEPT ![track] = Whole(track)]
          /\ to' = [to EXCEPT ![track] = <<>>]
      BY <1>3, <2>5, <3>1, <3>2 DEF AppendTrack, Whole
    <3> HIDE DEF track
    <3> QED BY <1>1, <2>1, <3>3, TurnPasses DEF track
  <2> QED BY <2>4, <2>5
<1>4. CASE UNCHANGED vars
  <2>1. UNCHANGED <<from, to, at, old, new>>
    BY <1>4 DEF vars
  <2> QED BY <2>1 DEF AlignInv, Passed, Merged, Rest, Whole, Joint, Matched, Point, Abandoned
<1> QED BY <1>2, <1>3, <1>4 DEF Next

\* When both loops are through, each track is whole.
LEMMA AlignCorrect == Spec => [](AlignInv /\ (Aligned =>
        \A track \in Track : from[track] = Whole(track) /\ to[track] = <<>>))
<1>1. AlignInv => (Aligned => \A track \in Track : from[track] = Whole(track) /\ to[track] = <<>>)
  <2> SUFFICES ASSUME AlignInv, Aligned, NEW track \in Track
               PROVE  from[track] = Whole(track) /\ to[track] = <<>>
    OBVIOUS
  <2>1. PICK n \in 1 .. 3 : track = Order[n]
    BY DEF Track, Order
  <2> QED BY <2>1 DEF AlignInv, Passed, Aligned
<1> QED BY <1>1, InitAlign, NextAlign, PTL DEF Spec

-----------------------------------------------------------------------------
(* What the cuts leave *)

\* In a list whose frames ascend no sample is later than one after it.
LEMMA StampsAscend ==
    ASSUME NEW list \in Seq(Sample), Stamps(list), Ascending(list),
           NEW i \in DOMAIN list, NEW j \in DOMAIN list, i < j
    PROVE  list[i].time <= list[j].time
<1>1. list[i].time \in Nat /\ list[j].time \in Nat
  BY DEF Sample
<1>2. CASE IsFrame(list[i]) /\ IsFrame(list[j])
  BY <1>1, <1>2 DEF Ascending, FramesAt
<1>3. CASE ~(IsFrame(list[i]) /\ IsFrame(list[j]))
  BY <1>3 DEF Stamps
<1> QED BY <1>2, <1>3

\* The old list is cut to its first samples, and if its frames ascend to those
\* before the point.
LEMMA CutOldIs ==
    ASSUME NEW track, NEW list \in Seq(Sample), NEW time \in Nat
    PROVE  \E p \in 1 .. Len(list) + 1 :
             /\ CutOld(track, list, time) = SubSeq(list, 1, p - 1)
             /\ Stamps(list) /\ Ascending(list) =>
                  /\ \A k \in 1 .. p - 1 : list[k].time < time
                  /\ \A k \in p .. Len(list) : list[k].time >= time
<1> DEFINE late == {i \in DOMAIN list : list[i].time >= time}
           Follows(j) == \A k \in Min(late) + 1 .. j : list[k].time < time
           ends == {j \in Min(late) .. Len(list) : Follows(j)}
           cut == IF track = "video" THEN Max(ends) ELSE Min(late)
<1>1. Len(list) \in Nat /\ DOMAIN list = 1 .. Len(list) /\ \A i \in 1 .. Len(list) : list[i].time \in Nat
  BY DEF Sample
<1>2. CutOld(track, list, time) = IF late = {} THEN list ELSE SubSeq(list, 1, cut - 1)
  BY DEF CutOld
<1>3. CASE late = {}
  <2>1. SubSeq(list, 1, Len(list) + 1 - 1) = list
    BY <1>1
  <2>2. \A k \in 1 .. Len(list) + 1 - 1 : list[k].time < time
    BY <1>1, <1>3
  <2>3. Len(list) + 1 \in 1 .. Len(list) + 1 /\ Len(list) + 1 .. Len(list) = {}
    BY <1>1
  <2> HIDE DEF late
  <2> QED BY <1>2, <1>3, <2>1, <2>2, <2>3
<1>4. CASE late # {}
  <2> DEFINE m == Min(late)
  <2>1. late \subseteq Nat /\ late \subseteq 1 .. Len(list)
    BY <1>1
  <2>2. m \in late /\ \A y \in late : m <= y
    <3> HIDE DEF late
    <3> QED BY <1>4, <2>1, MinIn
  <2>3. m \in 1 .. Len(list) /\ list[m].time >= time
    BY <1>1, <2>2
  <2>4. \A k \in 1 .. m - 1 : list[k].time < time
    <3> SUFFICES ASSUME NEW k \in 1 .. m - 1, ~(list[k].time < time) PROVE FALSE
      OBVIOUS
    <3>1. k \in 1 .. Len(list) /\ k < m
      BY <1>1, <2>3
    <3>2. k \in late
      BY <1>1, <3>1
    <3>3. m <= k /\ m \in Nat /\ k \in Nat
      BY <1>1, <2>2, <2>3, <3>1, <3>2
    <3> QED BY <3>1, <3>3
  <2>5. m \in ends /\ ends \subseteq 1 .. Len(list)
    <3> HIDE DEF m
    <3>1. m \in m .. Len(list) /\ m + 1 .. m = {} /\ m .. Len(list) \subseteq 1 .. Len(list)
      BY <1>1, <2>3
    <3>2. ends = {j \in m .. Len(list) : \A k \in m + 1 .. j : list[k].time < time}
      BY DEF m
    <3> HIDE DEF ends
    <3> QED BY <3>1, <3>2
  <2>6. cut \in m .. Len(list) /\ (cut = m \/ cut \in ends)
    <3>1. IsFiniteSet(ends) /\ ends \subseteq Nat
      BY <1>1, <2>5, Positions
    <3>2. Max(ends) \in ends /\ \A y \in ends : Max(ends) >= y
      <4> HIDE DEF ends
      <4> QED BY <2>5, <3>1, MaxIn
    <3> QED BY <1>1, <2>3, <2>5, <3>2
  <2>7. ASSUME Stamps(list), Ascending(list) PROVE cut = m
    <3> SUFFICES ASSUME cut # m PROVE FALSE
      OBVIOUS
    <3>1. m + 1 \in 1 .. Len(list) /\ m < m + 1 /\ m + 1 \in m + 1 .. cut
      BY <1>1, <2>3, <2>6
    <3>2. list[m + 1].time < time
      BY <2>6, <3>1
    <3>3. list[m].time <= list[m + 1].time
      BY <1>1, <2>3, <2>7, <3>1, StampsAscend
    <3> QED BY <1>1, <2>3, <3>1, <3>2, <3>3
  <2>8. cut \in 1 .. Len(list) + 1
    BY <1>1, <2>3, <2>6
  <2>9. ASSUME Stamps(list), Ascending(list), NEW k \in m .. Len(list)
        PROVE  list[k].time >= time
    <3>1. m \in DOMAIN list /\ k \in DOMAIN list /\ (k = m \/ m < k)
      BY <1>1, <2>3
    <3>2. m < k => list[m].time <= list[k].time
      BY <2>9, <3>1, StampsAscend
    <3> QED BY <1>1, <2>3, <3>1, <3>2
  <2> HIDE DEF late, cut, m
  <2> QED BY <1>2, <1>4, <2>4, <2>7, <2>8, <2>9
<1> QED BY <1>3, <1>4

\* A marker has the bit it is named for.
LEMMA KindHas ==
    ASSUME NEW s, Kind(s) # "frame"
    PROVE  Has(s, Kind(s))
<1> DEFINE bits == {i \in DOMAIN Priority : Has(s, Priority[i])}
<1>1. bits # {} /\ Kind(s) = Priority[Min(bits)]
  BY DEF Kind
<1>2. bits \subseteq Nat
  BY DEF Priority
<1>3. Min(bits) \in bits
  <2> HIDE DEF bits
  <2> QED BY <1>1, <1>2, MinIn
<1> QED BY <1>1, <1>3

\* Every marker of a list is in what SetPosition makes of it.
Announces(a, b) ==
    \A i \in 1 .. Len(b) : ~IsFrame(b[i]) => \E k \in 1 .. Len(a) : a[k].flags = b[i].flags

LEMMA MarkersKept ==
    ASSUME NEW list \in Seq(Sample), NEW p \in 1 .. Len(list), Lasting(list),
           \A i \in DOMAIN list : Kind(list[i]) # "eos"
    PROVE  Announces(SetPosition(list, p), list)
<1> DEFINE K == Unrepeated(list, p, Kept(list, p))
           N == Cardinality(K)
           b == [k \in 1 .. N |-> Stamped(list[Sorted(K)[k]], list, p)]
           r == SubSeq(list, p, Len(list))
<1>0. Len(list) \in Nat /\ DOMAIN list = 1 .. Len(list) /\ p \in Nat
  OBVIOUS
<1>1. SetPosition(list, p) = Cat(b, r)
  BY DEF SetPosition, Cat
<1>2. ASSUME NEW i \in 1 .. p - 1, ~IsFrame(list[i]) PROVE i \in K
  <2>1. i \in DOMAIN list /\ Kind(list[i]) \notin {"frame", "eos"}
    BY <1>0, <1>2 DEF IsFrame
  <2>2. ASSUME NEW j \in i + 1 .. p - 1
        PROVE  Kind(list[j]) # Kind(list[i]) /\ Kind(list[i]) \notin Clears(Kind(list[j]))
    <3>1. i < j /\ j \in DOMAIN list
      BY <1>0, <2>2
    <3>2. CASE IsFrame(list[j])
      BY <2>1, <3>2 DEF IsFrame, Clears
    <3>3. CASE ~IsFrame(list[j])
      <4>1. /\ list[i].flags \cap list[j].flags = {}
            /\ Kind(list[i]) \notin Clears(Kind(list[j]))
        BY <1>2, <2>1, <3>1, <3>3 DEF Lasting
      <4>2. Has(list[i], Kind(list[i])) /\ Has(list[j], Kind(list[j]))
        BY <2>1, <3>3, KindHas DEF IsFrame
      <4> QED BY <4>1, <4>2 DEF Has
    <3> QED BY <3>2, <3>3
  <2>3. i \in Kept(list, p)
    BY <2>1, <2>2 DEF Kept
  <2>4. list[i].flags \cap list[p].flags \cap {"program", "format"} = {}
    <3>1. CASE IsFrame(list[p])
      <4>1. ~Has(list[p], "program") /\ ~Has(list[p], "format")
        BY <3>1, KindFirst DEF IsFrame
      <4> QED BY <4>1 DEF Has
    <3>2. CASE ~IsFrame(list[p])
      BY <1>0, <1>2, <2>1, <3>2 DEF Lasting
    <3> QED BY <3>1, <3>2
  <2> QED BY <2>3, <2>4 DEF Unrepeated
<1>3. K \subseteq 1 .. p - 1
  BY DEF Unrepeated, Kept
<1> HIDE DEF K
<1>4. IsFiniteSet(K) /\ K \subseteq Nat /\ N \in Nat
  <2>1. p - 1 \in Nat
    BY <1>0
  <2> QED BY <1>3, <2>1, Positions
<1>5. \A i \in K : \E k \in 1 .. N : Sorted(K)[k] = i
  BY <1>4, SortedAll
<1>6. \A k \in 1 .. N : Sorted(K)[k] \in K
  BY <1>4, SortedIn
<1> HIDE DEF N
<1>7. \A k \in 1 .. N : b[k] \in Sample /\ b[k].flags = list[Sorted(K)[k]].flags
  <2> TAKE k \in 1 .. N
  <2> DEFINE s == list[Sorted(K)[k]]
  <2>1. s \in Sample /\ p \in 1 .. Len(list) + 1
    <3>1. Sorted(K)[k] \in 1 .. p - 1
      BY <1>3, <1>6
    <3>2. Sorted(K)[k] \in DOMAIN list
      BY <1>0, <3>1
    <3> QED BY <1>0, <3>2
  <2>2. b[k] = Stamped(s, list, p)
    OBVIOUS
  <2> HIDE DEF s, b
  <2> QED BY <2>1, <2>2, StampedIn DEF Stamped, Sample, s
<1>8. b \in Seq(Sample) /\ Len(b) = N
  <2>1. b \in [1 .. N -> Sample]
    BY <1>7
  <2> HIDE DEF b
  <2> QED BY <1>4, <2>1
<1>9. r \in Seq(Sample) /\ Len(r) = Len(list) - p + 1 /\ \A k \in 1 .. Len(r) : r[k] = list[p + k - 1]
  BY <1>0
<1> HIDE DEF b, r
<1>10. /\ Len(Cat(b, r)) = N + Len(r)
       /\ \A k \in 1 .. N : Cat(b, r)[k] = b[k]
       /\ \A k \in 1 .. Len(r) : Cat(b, r)[N + k] = r[k]
  BY <1>8, <1>9, CatParts
<1>11. ASSUME NEW i \in 1 .. Len(list), ~IsFrame(list[i])
       PROVE  \E k \in 1 .. Len(Cat(b, r)) : Cat(b, r)[k].flags = list[i].flags
  <2>1. CASE i < p
    <3>1. PICK k \in 1 .. N : Sorted(K)[k] = i
      BY <1>0, <1>2, <1>5, <1>11, <2>1
    <3>2. k \in 1 .. Len(Cat(b, r))
      BY <1>0, <1>4, <1>9, <1>10
    <3> QED BY <1>7, <1>10, <3>1, <3>2
  <2>2. CASE i >= p
    <3>1. i - p + 1 \in 1 .. Len(r) /\ p + (i - p + 1) - 1 = i
      BY <1>0, <1>9, <2>2
    <3>2. N + (i - p + 1) \in 1 .. Len(Cat(b, r))
      BY <1>0, <1>4, <1>9, <1>10, <3>1
    <3>3. Cat(b, r)[N + (i - p + 1)] = list[i]
      BY <1>9, <1>10, <3>1
    <3> QED BY <3>2, <3>3
  <2> QED BY <1>0, <2>1, <2>2
<1> QED BY <1>1, <1>11 DEF Announces

-----------------------------------------------------------------------------
(* What goes out is what is left of the old list and what is left of the new *)

\* A list has a frame of that time, at the place given or after it.
Gives(list, first, t) ==
    \E k \in first .. Len(list) : IsFrame(list[k]) /\ list[k].time = t

\* Of the old list the first samples (a), of the new one its samples from the qth
\* on, behind the markers that stay in force (b).  The second has all that was
\* announced, its frames are later than the first's, and between them they have every
\* moment that can be played.
Halves(track, a, b, q) ==
    /\ Whole(track) = Cat(a, b)
    /\ \A i \in 1 .. Len(a) : i \in DOMAIN old[track] /\ a[i] = old[track][i]
    /\ \E d \in Int :
        /\ \A i \in 1 .. Len(b) : IsFrame(b[i]) =>
                i - d \in q .. Len(new[track]) /\ b[i] = new[track][i - d]
        /\ \A k \in q .. Len(new[track]) : k + d \in 1 .. Len(b) /\ b[k + d] = new[track][k]
    /\ track = "video" /\ q # 1 => q <= Len(new[track]) /\ Has(new[track][q], "key")
    /\ Replaces(b, new[track])
    /\ Announces(b, new[track])
    /\ track \in Played /\ Ascending(old[track]) /\ Ascending(new[track]) =>
        \A i \in 1 .. Len(a), k \in q .. Len(new[track]) :
            IsFrame(a[i]) /\ IsFrame(new[track][k]) => a[i].time < new[track][k].time
    /\ track \in Played /\ Ascending(old[track]) /\ Ascending(new[track]) =>
        \A t \in Playable(track) : Gives(a, 1, t) \/ Gives(new[track], q, t)

\* The head of a list is a list.
LEMMA PrefixIn ==
    ASSUME NEW list \in Seq(Sample), NEW c \in 1 .. Len(list) + 1
    PROVE  LET a == SubSeq(list, 1, c - 1)
           IN  /\ a \in Seq(Sample) /\ Len(a) = c - 1
               /\ \A i \in 1 .. Len(a) : i \in DOMAIN list /\ i \in 1 .. c - 1 /\ a[i] = list[i]
<1>1. Len(list) \in Nat /\ c \in Nat /\ DOMAIN list = 1 .. Len(list)
  OBVIOUS
<1> QED BY <1>1

\* With the whole list there is nothing to shift.
LEMMA NotCut ==
    ASSUME NEW list \in Seq(Sample)
    PROVE  /\ Replaces(list, list) /\ Announces(list, list) /\ 0 \in Int
           /\ \A i \in 1 .. Len(list) : i - 0 \in 1 .. Len(list) /\ list[i] = list[i - 0]
           /\ \A k \in 1 .. Len(list) : k + 0 \in 1 .. Len(list) /\ list[k + 0] = list[k]
<1>1. Len(list) \in Nat
  OBVIOUS
<1> QED BY <1>1 DEF Replaces, Announces

\* Where an old frame falls into the new list, the new list has one, and the reverse.
LEMMA Shared ==
    ASSUME old \in Old, new \in New, NEW track \in Played
    PROVE  Includes(old[track], new[track]) /\ Includes(new[track], old[track])
<1> QED BY SameFrames DEF Played

\* A time of a list is that of one of its frames.
LEMMA TimeGiven ==
    ASSUME NEW list \in Seq(Sample), NEW t \in Times(list)
    PROVE  \E k \in 1 .. Len(list) : k \in FramesAt(list) /\ IsFrame(list[k]) /\ list[k].time = t
<1> QED BY DEF Times, FramesAt

\* No frame is before the first sample.
LEMMA NotBeforeFirst ==
    ASSUME NEW list \in Seq(Sample), Stamps(list), Ascending(list), NEW t \in Times(list)
    PROVE  list[1].time <= t /\ t \in Nat /\ list[1].time \in Nat
<1>1. PICK k \in 1 .. Len(list) : IsFrame(list[k]) /\ list[k].time = t
  BY TimeGiven
<1>2. 1 \in DOMAIN list /\ k \in DOMAIN list /\ (k = 1 \/ 1 < k)
  BY <1>1
<1>3. list[1].time \in Nat /\ list[k].time \in Nat
  BY <1>2 DEF Sample
<1>4. 1 < k => list[1].time <= list[k].time
  BY <1>2, StampsAscend
<1> QED BY <1>1, <1>2, <1>3, <1>4

\* A track that is cut at its point gives every moment that can be played: those
\* of the old list before the point, those of the new one from it on.  What the
\* new one has before it is the old one's too, or cannot be decoded.
LEMMA PointGives ==
    ASSUME old \in Old, new \in New, NEW track \in Played, Matched(track),
           Ascending(old[track]), Ascending(new[track]),
           NEW c \in 1 .. Len(old[track]) + 1,
           \A k \in c .. Len(old[track]) :
                old[track][k].time >= new[track][Point(track)].time,
           NEW t \in Playable(track)
    PROVE  \/ \E k \in 1 .. c - 1 : IsFrame(old[track][k]) /\ old[track][k].time = t
           \/ Gives(new[track], Point(track), t)
<1> DEFINE O == old[track]
           N == new[track]
           P == Points(track, N, O[1].time)
           p == Point(track)
           T == N[p].time
<1>0. track \in Track
  BY DEF Played, Track
<1>1. /\ O \in Seq(Sample) /\ N \in Seq(Sample) /\ Len(N) \in Nat /\ Len(O) \in Nat
      /\ DOMAIN N = 1 .. Len(N) /\ DOMAIN O = 1 .. Len(O)
  BY <1>0, ListsIn
<1>2. Stamps(O) /\ Stamps(N) /\ Includes(O, N) /\ Includes(N, O)
  BY ChunkAssumption, Shared DEF Played
<1>3. /\ t \in Times(O) \/ t \in Times(N)
      /\ \E b \in Times(O) : b <= t
      /\ \E e \in Times(N) : t <= e
      /\ \/ track = "audio"
         \/ \E e \in Times(O) : t <= e
         \/ \E k \in FramesAt(N) : /\ Has(N[k], "key") /\ N[k].time <= t
                                   /\ \E b \in Times(O) : b <= N[k].time
  BY DEF Playable
<1>4. P # {} /\ P \subseteq DOMAIN N
  BY DEF Matched, Points
<1>5. p \in P /\ \A y \in P : p <= y
  <2>1. P \subseteq Nat /\ p = Min(P)
    BY <1>1, <1>4 DEF Point
  <2> HIDE DEF P, p
  <2> QED BY <1>4, <2>1, MinIn
<1>6. p \in 1 .. Len(N) /\ T \in Nat /\ t \in Nat /\ O[1].time \in Nat /\ O[1].time <= t
  <2>1. p \in DOMAIN N
    BY <1>4, <1>5
  <2>2. p \in 1 .. Len(N) /\ T \in Nat
    <3>1. N[p] \in Sample
      BY <1>1, <2>1
    <3> QED BY <1>1, <2>1, <3>1 DEF Sample
  <2>3. t \in Nat
    BY <1>1, <1>2, <1>3, NotBeforeFirst
  <2>4. PICK b \in Times(O) : b <= t
    BY <1>3
  <2>5. O[1].time <= b /\ b \in Nat /\ O[1].time \in Nat
    BY <1>1, <1>2, NotBeforeFirst
  <2> HIDE DEF O, N, p, T
  <2> QED BY <2>2, <2>3, <2>4, <2>5
<1>7. ASSUME NEW k \in 1 .. Len(N), IsFrame(N[k]), N[k].time = t, k >= p
      PROVE  Gives(N, p, t)
  <2>1. k \in p .. Len(N)
    BY <1>1, <1>6, <1>7
  <2> HIDE DEF N, p
  <2> QED BY <1>7, <2>1 DEF Gives
<1>8. ASSUME NEW k \in 1 .. Len(O), IsFrame(O[k]), O[k].time = t, t < T
      PROVE  \E l \in 1 .. c - 1 : IsFrame(O[l]) /\ O[l].time = t
  <2>1. k \notin c .. Len(O)
    BY <1>6, <1>8
  <2>2. k \in 1 .. c - 1
    BY <1>1, <2>1
  <2> QED BY <1>8, <2>2
\* A frame of the new list at or after the point in time is not before it in place.
<1>9. ASSUME NEW k \in 1 .. Len(N), IsFrame(N[k]), N[k].time = t, k < p
      PROVE  track = "video" /\ t < T /\ ~Has(N[k], "key")
  <2>1. k \in DOMAIN N /\ k \notin P
    BY <1>1, <1>5, <1>6, <1>9
  <2>2. N[k].time >= O[1].time
    BY <1>6, <1>9
  <2>3. track = "video" /\ ~Has(N[k], "key")
    BY <2>1, <2>2 DEF Points, Played
  <2>4. Has(N[p], "key") /\ Keyed(N)
    BY <1>5, <2>3, ChunkAssumption DEF Points
  <2>5. p \in FramesAt(N) /\ k \in FramesAt(N)
    BY <1>1, <1>6, <1>9, <2>1, <2>4 DEF Keyed, FramesAt
  <2> HIDE DEF N, p
  <2> QED BY <1>9, <2>3, <2>5 DEF Ascending, N
<1>10. CASE t \in Times(O) /\ t < T
  <2>1. PICK k \in 1 .. Len(O) : IsFrame(O[k]) /\ O[k].time = t
    BY <1>1, <1>10, TimeGiven
  <2> QED BY <1>8, <1>10, <2>1
<1>11. CASE t \in Times(O) /\ t >= T
  <2>1. t \in Times(N)
    BY <1>1, <1>2, <1>3, <1>6, <1>11 DEF Includes
  <2>2. PICK k \in 1 .. Len(N) : IsFrame(N[k]) /\ N[k].time = t
    BY <1>1, <2>1, TimeGiven
  <2>3. k >= p
    BY <1>1, <1>6, <1>9, <1>11, <2>2
  <2> QED BY <1>7, <2>2, <2>3
<1>12. CASE t \notin Times(O)
  <2>1. t \in Times(N)
    BY <1>3, <1>12
  <2>2. PICK k \in 1 .. Len(N) : IsFrame(N[k]) /\ N[k].time = t /\ k \in FramesAt(N)
    BY <1>1, <2>1, TimeGiven
  <2>3. k >= p
    <3> SUFFICES ASSUME k < p PROVE FALSE
      BY <1>1, <1>6, <2>2
    <3>1. track = "video" /\ t < T /\ ~Has(N[k], "key")
      BY <1>9, <2>2
    <3>2. ~\E e \in Times(O) : t <= e
      <4> SUFFICES ASSUME \E e \in Times(O) : t <= e PROVE FALSE
        OBVIOUS
      <4>1. \E i \in DOMAIN O : O[i].time <= t
        <5>1. PICK b \in Times(O) : b <= t
          BY <1>3
        <5>2. PICK i \in 1 .. Len(O) : O[i].time = b
          BY <1>1, TimeGiven
        <5> QED BY <1>1, <5>1, <5>2
      <4> QED BY <1>2, <1>12, <2>1, <4>1 DEF Includes
    <3>3. PICK j \in FramesAt(N) : /\ Has(N[j], "key") /\ N[j].time <= t
                                   /\ \E b \in Times(O) : b <= N[j].time
      BY <1>3, <3>1, <3>2
    <3>4. j \in DOMAIN N /\ N[j].time \in Nat
      <4>1. j \in DOMAIN N
        BY <3>3 DEF FramesAt
      <4> QED BY <1>1, <4>1 DEF Sample
    <3>5. O[1].time <= N[j].time
      <4>1. PICK b \in Times(O) : b <= N[j].time
        BY <3>3
      <4>2. O[1].time <= b /\ b \in Nat /\ O[1].time \in Nat
        BY <1>1, <1>2, NotBeforeFirst
      <4> QED BY <3>4, <4>1, <4>2
    <3>6. j \in P
      BY <3>1, <3>3, <3>4, <3>5 DEF Points
    <3>7. p <= j /\ p \in DOMAIN N
      BY <1>1, <1>5, <1>6, <3>6
    <3>8. T <= N[j].time
      <4> HIDE DEF p, N, O
      <4>1. p = j \/ p < j
        BY <1>1, <3>4, <3>7
      <4>2. p < j => N[p].time <= N[j].time
        BY <1>1, <1>2, <3>4, <3>7, StampsAscend DEF N
      <4> QED BY <1>6, <4>1, <4>2
    <3> QED BY <1>6, <3>1, <3>3, <3>4, <3>8
  <2> QED BY <1>7, <2>2, <2>3
<1> QED BY <1>6, <1>10, <1>11, <1>12

\* A track with a point is cut in both lists.
LEMMA JointHalves ==
    ASSUME old \in Old, new \in New, NEW track \in Track, Matched(track)
    PROVE  \E a, b \in Seq(Sample), q \in 1 .. Len(new[track]) + 1 : Halves(track, a, b, q)
<1> DEFINE O == old[track]
           N == new[track]
           P == Points(track, N, O[1].time)
           p == Point(track)
           T == N[p].time
<1>1. O \in Seq(Sample) /\ N \in Seq(Sample) /\ Len(N) \in Nat /\ DOMAIN N = 1 .. Len(N)
  BY ListsIn
<1>2. P # {} /\ P \subseteq DOMAIN N /\ (track = "video" => \A i \in P : Has(N[i], "key"))
  BY DEF Matched, Points
<1>3. p \in P
  <2>1. P \subseteq Nat /\ p = Min(P)
    BY <1>1, <1>2 DEF Point
  <2> HIDE DEF P, p
  <2> QED BY <1>2, <2>1, MinIn
<1>4. p \in 1 .. Len(N) /\ p \in 1 .. Len(N) + 1 /\ T \in Nat
  <2>1. p \in 1 .. Len(N)
    BY <1>1, <1>2, <1>3
  <2>2. N[p] \in Sample
    BY <1>1, <2>1
  <2> QED BY <1>1, <2>1, <2>2 DEF Sample
<1>5. PICK c \in 1 .. Len(O) + 1 :
        /\ CutOld(track, O, T) = SubSeq(O, 1, c - 1)
        /\ Stamps(O) /\ Ascending(O) =>
              /\ \A k \in 1 .. c - 1 : O[k].time < T
              /\ \A k \in c .. Len(O) : O[k].time >= T
  BY <1>1, <1>4, CutOldIs
<1> DEFINE a == SubSeq(O, 1, c - 1)
           b == SetPosition(N, p)
           r == SubSeq(N, p, Len(N))
<1>6. Whole(track) = Cat(a, b)
  BY <1>5 DEF Whole, Joint, Cat
<1>7. /\ a \in Seq(Sample) /\ \A i \in 1 .. Len(a) : i \in DOMAIN O /\ i \in 1 .. c - 1 /\ a[i] = O[i]
  BY <1>1, PrefixIn
<1>8. b \in Seq(Sample) /\ Replaces(b, N)
  BY <1>1, <1>4, SetPositionIn, CutReplaces
<1>9. Lasting(N) /\ \A i \in DOMAIN N : Kind(N[i]) # "eos"
  BY ChunkAssumption
<1>10. Announces(b, N)
  BY <1>1, <1>4, <1>9, MarkersKept
<1>11. PICK m \in Seq(Sample) : b = Cat(m, r) /\ Frameless(m)
  BY <1>1, <1>4, KeptFormat DEF Cat
<1>12. r \in Seq(Sample) /\ Len(r) = Len(N) - p + 1 /\ \A k \in 1 .. Len(r) : r[k] = N[p + k - 1]
  BY <1>1, <1>4
<1> DEFINE d == Len(m) - p + 1
<1>13. /\ d \in Int
       /\ \A i \in 1 .. Len(b) : IsFrame(b[i]) => i - d \in p .. Len(N) /\ b[i] = N[i - d]
       /\ \A k \in p .. Len(N) : k + d \in 1 .. Len(b) /\ b[k + d] = N[k]
  <2> HIDE DEF b, r, p, N
  <2>1. /\ Len(b) = Len(m) + Len(r) /\ Len(m) \in Nat /\ Len(r) \in Nat
        /\ \A k \in 1 .. Len(m) : b[k] = m[k]
        /\ \A k \in 1 .. Len(r) : b[Len(m) + k] = r[k]
    BY <1>11, <1>12, CatParts
  <2>2. p \in Nat /\ Len(N) \in Nat /\ p >= 1 /\ p <= Len(N)
    BY <1>1, <1>4
  <2>3. d \in Int
    BY <2>1, <2>2
  <2>4. ASSUME NEW i \in 1 .. Len(b), IsFrame(b[i])
        PROVE  i - d \in p .. Len(N) /\ b[i] = N[i - d]
    <3>1. i \notin 1 .. Len(m)
      BY <1>11, <2>1, <2>4 DEF Frameless, IsFrame
    <3>2. i - Len(m) \in 1 .. Len(r) /\ Len(m) + (i - Len(m)) = i
      BY <2>1, <3>1
    <3>3. b[i] = r[i - Len(m)] /\ r[i - Len(m)] = N[p + (i - Len(m)) - 1]
      BY <1>12, <2>1, <3>2
    <3>4. p + (i - Len(m)) - 1 = i - d
      BY <2>1, <2>2
    <3>5. i - d \in p .. Len(N)
      BY <1>12, <2>1, <2>2, <3>2
    <3> QED BY <3>3, <3>4, <3>5
  <2>5. ASSUME NEW k \in p .. Len(N) PROVE k + d \in 1 .. Len(b) /\ b[k + d] = N[k]
    <3>0. k \in Nat /\ p <= k /\ k <= Len(N)
      BY <2>2
    <3>1. k - p + 1 \in 1 .. Len(r) /\ p + (k - p + 1) - 1 = k /\ Len(m) + (k - p + 1) = k + d
      <4>1. k - p + 1 \in 1 .. Len(r)
        BY <1>12, <2>1, <2>2, <3>0
      <4>2. p + (k - p + 1) - 1 = k /\ Len(m) + (k - p + 1) = k + d
        BY <2>1, <2>2, <3>0
      <4> QED BY <4>1, <4>2
    <3>2. b[Len(m) + (k - p + 1)] = r[k - p + 1] /\ r[k - p + 1] = N[p + (k - p + 1) - 1]
      BY <1>12, <2>1, <3>1
    <3>3. k + d \in 1 .. Len(b)
      BY <1>12, <2>1, <2>2
    <3> QED BY <3>1, <3>2, <3>3
  <2> QED BY <2>3, <2>4, <2>5
<1>14. ASSUME track \in Played, Ascending(O), Ascending(N),
              NEW i \in 1 .. Len(a), NEW k \in p .. Len(N)
       PROVE  a[i].time < N[k].time
  <2>1. Stamps(O) /\ Stamps(N)
    BY <1>14, ChunkAssumption DEF Played
  <2>2. a[i] = O[i] /\ O[i].time < T /\ O[i].time \in Nat
    <3>1. i \in 1 .. c - 1 /\ O[i] \in Sample /\ a[i] = O[i]
      BY <1>1, <1>7
    <3> QED BY <1>5, <1>14, <2>1, <3>1 DEF Sample
  <2>3. k \in DOMAIN N /\ p \in DOMAIN N /\ (k = p \/ p < k)
    BY <1>1, <1>4
  <2>4. T <= N[k].time /\ N[k].time \in Nat
    <3>1. N[k].time \in Nat
      BY <1>1, <2>3 DEF Sample
    <3>2. p < k => T <= N[k].time
      BY <1>1, <1>14, <2>1, <2>3, StampsAscend
    <3> QED BY <1>4, <2>3, <3>1, <3>2
  <2> HIDE DEF T, a
  <2> QED BY <1>4, <2>2, <2>4
<1>15. track = "video" => Has(N[p], "key")
  BY <1>2, <1>3
<1>16. p <= Len(N)
  BY <1>1, <1>4
<1>18. ASSUME track \in Played, Ascending(O), Ascending(N), NEW t \in Playable(track)
       PROVE  Gives(a, 1, t) \/ Gives(N, p, t)
  <2>1. Stamps(O)
    BY <1>18, ChunkAssumption DEF Played
  <2>2. \A k \in c .. Len(O) : O[k].time >= T
    BY <1>5, <1>18, <2>1
  <2>3. \/ \E k \in 1 .. c - 1 : IsFrame(O[k]) /\ O[k].time = t
        \/ Gives(N, p, t)
    BY <1>18, <2>2, PointGives
  <2>4. ASSUME NEW k \in 1 .. c - 1, IsFrame(O[k]), O[k].time = t PROVE Gives(a, 1, t)
    <3>1. Len(a) = c - 1
      BY <1>1, PrefixIn
    <3>2. k \in 1 .. Len(a) /\ a[k] = O[k]
      BY <1>7, <2>4, <3>1
    <3> HIDE DEF a
    <3> QED BY <2>4, <3>2 DEF Gives
  <2> QED BY <2>3, <2>4
<1> HIDE DEF a, b, p, d
<1>17. Halves(track, a, b, p)
  BY <1>6, <1>7, <1>8, <1>10, <1>13, <1>14, <1>15, <1>16, <1>18 DEF Halves
<1> QED BY <1>4, <1>7, <1>8, <1>17

\* A track without one keeps both lists, unless the old one is given up; then
\* either all of the old one is before the new one, or one of them has no frame.
LEMMA WholeHalves ==
    ASSUME old \in Old, new \in New, NEW track \in Track
    PROVE  \E a, b \in Seq(Sample), q \in 1 .. Len(new[track]) + 1 : Halves(track, a, b, q)
<1> DEFINE O == old[track]
           N == new[track]
<1>1. /\ O \in Seq(Sample) /\ N \in Seq(Sample) /\ Len(N) \in Nat /\ Len(O) \in Nat
      /\ DOMAIN N = 1 .. Len(N) /\ DOMAIN O = 1 .. Len(O) /\ <<>> \in Seq(Sample) /\ Len(<<>>) = 0
      /\ 1 \in 1 .. Len(N) + 1
  BY ListsIn
<1>2. CASE Matched(track)
  BY <1>2, JointHalves
<1>3. CASE ~Matched(track) /\ Abandoned(track)
  <2>1. Whole(track) = Cat(<<>>, N)
    BY <1>1, <1>3, ConcatEmptySeq DEF Whole, Cat
  <2>2. ASSUME track \in Played, Ascending(O), NEW t \in Playable(track) PROVE Gives(N, 1, t)
    <3>1. Includes(N, O) /\ (t \in Times(O) \/ t \in Times(N))
      BY <2>2, Shared DEF Playable
    <3>2. PICK b \in Times(O), e \in Times(N) : b <= t /\ t <= e
      BY <2>2 DEF Playable
    <3>3. t \in Times(N)
      <4> SUFFICES ASSUME t \in Times(O) PROVE t \in Times(N)
        BY <3>1
      <4>1. N[1].time < O[1].time /\ 1 \in DOMAIN N /\ 1 \in DOMAIN O
        BY <1>1, <1>3 DEF Abandoned
      <4>2. N[1].time \in Nat /\ O[1].time \in Nat
        BY <1>1, <4>1 DEF Sample
      <4>3. O[1].time <= t /\ t \in Nat
        <5>1. Stamps(O)
          BY <2>2, ChunkAssumption DEF Played
        <5> QED BY <1>1, <2>2, <5>1, NotBeforeFirst
      <4> QED BY <3>1, <3>2, <4>1, <4>2, <4>3 DEF Includes
    <3> QED BY <1>1, <3>3, TimeGiven DEF Gives
  <2>4. track \in Played /\ Ascending(O) /\ Ascending(N) =>
            \A t \in Playable(track) : Gives(<<>>, 1, t) \/ Gives(N, 1, t)
    BY <2>2
  <2>5. /\ \A i \in 1 .. Len(<<>>) : i \in DOMAIN O /\ <<>>[i] = O[i]
        /\ \A i \in 1 .. Len(<<>>), k \in 1 .. Len(N) :
                IsFrame(<<>>[i]) /\ IsFrame(N[k]) => <<>>[i].time < N[k].time
    BY <1>1
  <2>6. \E d \in Int :
          /\ \A i \in 1 .. Len(N) : IsFrame(N[i]) => i - d \in 1 .. Len(N) /\ N[i] = N[i - d]
          /\ \A k \in 1 .. Len(N) : k + d \in 1 .. Len(N) /\ N[k + d] = N[k]
    BY <1>1, NotCut
  <2>7. Replaces(N, N) /\ Announces(N, N)
    BY <1>1, NotCut
  <2>3. Halves(track, <<>>, N, 1)
    BY <2>1, <2>4, <2>5, <2>6, <2>7 DEF Halves
  <2> QED BY <1>1, <2>3
<1>4. CASE ~Matched(track) /\ ~Abandoned(track)
  <2>1. Whole(track) = Cat(O, N)
    BY <1>4 DEF Whole, Cat
  <2>2. ASSUME track \in Played, Ascending(N), NEW i \in 1 .. Len(O), NEW k \in 1 .. Len(N),
               IsFrame(O[i]), IsFrame(N[k])
        PROVE  FALSE
    <3>1. Stamps(O) /\ Stamps(N)
      BY <2>2, ChunkAssumption DEF Played
    <3>2. O # <<>> /\ N # <<>> /\ 1 \in DOMAIN N /\ 1 \in DOMAIN O
      BY <1>1, <2>2
    <3>3. ~Marked(O[1]) /\ ~Marked(N[1])
      BY <1>1, <2>2, <3>1, <3>2 DEF Stamps
    <3>4. N[1].time >= O[1].time /\ N[1].time \in Nat /\ O[1].time \in Nat
      <4>1. N[1].time \in Nat /\ O[1].time \in Nat
        BY <1>1, <3>2 DEF Sample
      <4> QED BY <1>4, <3>2, <3>3, <4>1 DEF Abandoned
    <3>5. Points(track, N, O[1].time) = {}
      BY <1>4, <3>2 DEF Matched
    <3>6. CASE track = "audio"
      BY <3>2, <3>4, <3>5, <3>6 DEF Points
    <3>7. CASE track = "video"
      <4> DEFINE f == Min(FramesAt(N))
      <4>1. FramesAt(N) # {} /\ FramesAt(N) \subseteq Nat
        BY <1>1, <2>2 DEF FramesAt
      <4>2. f \in FramesAt(N) /\ \A y \in FramesAt(N) : f <= y
        BY <4>1, MinIn
      <4>3. f \in DOMAIN N /\ IsFrame(N[f]) /\ f \in Nat /\ f >= 1
        BY <1>1, <4>2 DEF FramesAt
      <4>4. Keyed(N)
        BY <3>7, ChunkAssumption
      <4>5. Has(N[f], "key")
        <5> SUFFICES ASSUME ~Has(N[f], "key") PROVE FALSE
          OBVIOUS
        <5>1. PICK j \in 1 .. f - 1 : IsFrame(N[j])
          BY <4>3, <4>4 DEF Keyed
        <5>2. j \in FramesAt(N) /\ j < f
          BY <1>1, <4>3, <5>1 DEF FramesAt
        <5>3. f <= j
          BY <4>2, <5>2
        <5> HIDE DEF f
        <5> QED BY <4>3, <5>1, <5>2, <5>3
      <4>6. N[1].time <= N[f].time /\ N[f].time \in Nat
        <5>1. N[f].time \in Nat
          BY <1>1, <4>3 DEF Sample
        <5>2. CASE f = 1
          BY <3>4, <5>2
        <5>3. CASE f # 1
          <6>1. 1 < f
            BY <4>3, <5>3
          <6> HIDE DEF f
          <6> QED BY <1>1, <2>2, <3>1, <3>2, <4>3, <5>1, <6>1, StampsAscend
        <5> QED BY <5>2, <5>3
      <4>7. f \in Points(track, N, O[1].time)
        <5>1. N[f].time >= O[1].time
          BY <3>4, <4>6
        <5> HIDE DEF f
        <5> QED BY <3>7, <4>3, <4>5, <5>1 DEF Points
      <4> QED BY <3>5, <4>7
    <3> QED BY <2>2, <3>6, <3>7 DEF Played
  <2>4. ASSUME track \in Played, NEW t \in Playable(track) PROVE Gives(O, 1, t) \/ Gives(N, 1, t)
    <3>1. t \in Times(O) \/ t \in Times(N)
      BY DEF Playable
    <3> QED BY <1>1, <3>1, TimeGiven DEF Gives
  <2>3. Halves(track, O, N, 1)
    BY <1>1, <2>1, <2>2, <2>4, NotCut DEF Halves
  <2> QED BY <1>1, <2>3
<1> QED BY <1>2, <1>3, <1>4

-----------------------------------------------------------------------------
(* Theorems *)

\* Nothing of the new chunk is left behind in the chunk that is freed next, and all
\* that it announces, markers and subtitles included, is in what is pushed.
THEOREM AllIsPushed == Spec => []NothingBehind
<1>1. ASSUME AlignInv, Aligned, NEW track \in Track, from[track] = Whole(track)
      PROVE  {s.flags : s \in {m \in Range(new[track]) : ~IsFrame(m)}}
               \subseteq {s.flags : s \in Range(from[track])}
  <2>1. old \in Old /\ new \in New
    BY <1>1 DEF AlignInv
  <2>2. new[track] \in Seq(Sample)
    BY <2>1, ListsIn
  <2>3. PICK a, b \in Seq(Sample), q \in 1 .. Len(new[track]) + 1 : Halves(track, a, b, q)
    BY <2>1, WholeHalves
  <2> DEFINE list == Cat(a, b)
  <2>4. /\ Len(list) = Len(a) + Len(b) /\ Len(a) \in Nat /\ Len(b) \in Nat /\ list \in Seq(Sample)
        /\ \A k \in 1 .. Len(b) : list[Len(a) + k] = b[k]
    BY CatParts
  <2>5. from[track] = list /\ Announces(b, new[track])
    BY <1>1, <2>3 DEF Halves
  <2> HIDE DEF list
  <2>6. ASSUME NEW i \in DOMAIN new[track], ~IsFrame(new[track][i])
        PROVE  \E k \in DOMAIN list : list[k].flags = new[track][i].flags
    <3>1. PICK k \in 1 .. Len(b) : b[k].flags = new[track][i].flags
      BY <2>2, <2>5, <2>6 DEF Announces
    <3>2. Len(a) + k \in DOMAIN list
      BY <2>4
    <3> QED BY <2>4, <3>1, <3>2
  <2> QED BY <2>5, <2>6 DEF Range
<1>2. AlignInv /\ (Aligned => \A track \in Track : from[track] = Whole(track) /\ to[track] = <<>>)
        => NothingBehind
  BY <1>1 DEF NothingBehind
<1> QED BY <1>2, AlignCorrect, PTL

\* Where the frames of both lists ascend, those of what comes out of them do: no
\* moment is given twice, whichever frame the new list takes over at.
THEOREM TimeGoesUp == Spec => []StillAscending
<1>1. ASSUME AlignInv, Aligned, NEW track \in Played, from[track] = Whole(track),
             Ascending(old[track]), Ascending(new[track])
      PROVE  Ascending(from[track])
  <2> DEFINE O == old[track]
             N == new[track]
  <2>1. old \in Old /\ new \in New /\ track \in Track
    BY <1>1 DEF AlignInv, Played, Track
  <2>2. O \in Seq(Sample) /\ N \in Seq(Sample)
    BY <2>1, ListsIn
  <2>3. PICK a, b \in Seq(Sample), q \in 1 .. Len(N) + 1 : Halves(track, a, b, q)
    BY <2>1, WholeHalves
  <2>4. PICK d \in Int : \A i \in 1 .. Len(b) : IsFrame(b[i]) =>
            i - d \in q .. Len(N) /\ b[i] = N[i - d]
    BY <2>3 DEF Halves
  <2>5. /\ \A i \in 1 .. Len(a) : i \in DOMAIN O /\ a[i] = O[i]
        /\ \A i \in 1 .. Len(a), k \in q .. Len(N) :
              IsFrame(a[i]) /\ IsFrame(N[k]) => a[i].time < N[k].time
    BY <1>1, <2>3 DEF Halves
  <2> DEFINE list == Cat(a, b)
  <2>6. /\ Len(list) = Len(a) + Len(b) /\ Len(a) \in Nat /\ Len(b) \in Nat /\ list \in Seq(Sample)
        /\ \A k \in 1 .. Len(a) : list[k] = a[k]
        /\ \A k \in 1 .. Len(b) : list[Len(a) + k] = b[k]
    BY CatParts
  <2>7. from[track] = list
    BY <1>1, <2>3 DEF Halves
  <2> HIDE DEF list
  <2>8. q \in Nat /\ q >= 1 /\ Len(N) \in Nat /\ DOMAIN N = 1 .. Len(N)
    BY <2>2
  <2>9. ASSUME NEW i \in DOMAIN list, NEW j \in DOMAIN list, IsFrame(list[i]), IsFrame(list[j]), i < j
        PROVE  list[i].time < list[j].time
    <3>1. i \in 1 .. Len(a) + Len(b) /\ j \in 1 .. Len(a) + Len(b)
      BY <2>6
    <3>2. CASE j <= Len(a)
      <4>1. i \in 1 .. Len(a) /\ j \in 1 .. Len(a)
        BY <2>6, <2>9, <3>1, <3>2
      <4>2. i \in FramesAt(O) /\ j \in FramesAt(O) /\ list[i] = O[i] /\ list[j] = O[j]
        BY <2>5, <2>6, <2>9, <4>1 DEF FramesAt
      <4> HIDE DEF O
      <4> QED BY <1>1, <2>9, <4>2 DEF Ascending, O
    <3>3. CASE j > Len(a)
      <4>1. j - Len(a) \in 1 .. Len(b) /\ Len(a) + (j - Len(a)) = j
        BY <2>6, <3>1, <3>3
      <4>2. list[j] = b[j - Len(a)]
        BY <2>6, <4>1
      <4>3. j - Len(a) - d \in q .. Len(N) /\ list[j] = N[j - Len(a) - d]
        BY <2>4, <2>9, <4>1, <4>2
      <4>4. CASE i <= Len(a)
        <5>1. i \in 1 .. Len(a) /\ list[i] = a[i]
          BY <2>6, <3>1, <4>4
        <5> HIDE DEF N
        <5> QED BY <2>5, <2>9, <4>3, <5>1
      <4>5. CASE i > Len(a)
        <5>1. i - Len(a) \in 1 .. Len(b) /\ Len(a) + (i - Len(a)) = i
          BY <2>6, <3>1, <4>5
        <5>2. list[i] = b[i - Len(a)]
          BY <2>6, <5>1
        <5>3. i - Len(a) - d \in q .. Len(N) /\ list[i] = N[i - Len(a) - d]
          BY <2>4, <2>9, <5>1, <5>2
        <5>4. i - Len(a) - d < j - Len(a) - d
          BY <2>6, <2>9, <3>1
        <5>5. i - Len(a) - d \in FramesAt(N) /\ j - Len(a) - d \in FramesAt(N)
          BY <2>8, <2>9, <4>3, <5>3 DEF FramesAt
        <5> HIDE DEF N
        <5> QED BY <1>1, <4>3, <5>3, <5>4, <5>5 DEF Ascending, N
      <4> QED BY <2>6, <3>1, <4>4, <4>5
    <3> QED BY <2>6, <3>1, <3>2, <3>3
  <2> QED BY <2>7, <2>9 DEF Ascending, FramesAt
<1>2. AlignInv /\ (Aligned => \A track \in Track : from[track] = Whole(track) /\ to[track] = <<>>)
        => StillAscending
  BY <1>1 DEF StillAscending, Played, Track
<1> QED BY <1>2, AlignCorrect, PTL

\* The player is given every moment that the two chunks cover and that can be decoded,
\* wherever the lists are cut, if the frames of both ascend: the cuts leave no hole.
THEOREM LeavesNoHole == Spec => []NoHole
<1>1. ASSUME AlignInv, NEW track \in Played, from[track] = Whole(track),
             Ascending(old[track]), Ascending(new[track]), NEW t \in Playable(track)
      PROVE  t \in Times(from[track])
  <2>1. old \in Old /\ new \in New /\ track \in Track
    BY <1>1 DEF AlignInv, Played, Track
  <2>2. new[track] \in Seq(Sample) /\ Len(new[track]) \in Nat
    BY <2>1, ListsIn
  <2>3. PICK a, b \in Seq(Sample), q \in 1 .. Len(new[track]) + 1 : Halves(track, a, b, q)
    BY <2>1, WholeHalves
  <2> DEFINE list == Cat(a, b)
  <2>4. /\ Len(list) = Len(a) + Len(b) /\ Len(a) \in Nat /\ Len(b) \in Nat /\ list \in Seq(Sample)
        /\ \A k \in 1 .. Len(a) : list[k] = a[k]
        /\ \A k \in 1 .. Len(b) : list[Len(a) + k] = b[k]
    BY CatParts
  <2>5. PICK d \in Int : \A k \in q .. Len(new[track]) :
            k + d \in 1 .. Len(b) /\ b[k + d] = new[track][k]
    BY <2>3 DEF Halves
  <2>6. from[track] = list /\ (Gives(a, 1, t) \/ Gives(new[track], q, t))
    BY <1>1, <2>3 DEF Halves
  <2> HIDE DEF list
  <2>7. \E i \in DOMAIN list : IsFrame(list[i]) /\ list[i].time = t
    <3>1. CASE Gives(a, 1, t)
      <4>1. PICK k \in 1 .. Len(a) : IsFrame(a[k]) /\ a[k].time = t
        BY <3>1 DEF Gives
      <4>2. k \in DOMAIN list /\ list[k] = a[k]
        BY <2>4, <4>1
      <4> QED BY <4>1, <4>2
    <3>2. CASE Gives(new[track], q, t)
      <4>1. PICK k \in q .. Len(new[track]) : IsFrame(new[track][k]) /\ new[track][k].time = t
        BY <3>2 DEF Gives
      <4>2. k + d \in 1 .. Len(b) /\ b[k + d] = new[track][k]
        BY <2>5
      <4>3. Len(a) + (k + d) \in DOMAIN list /\ list[Len(a) + (k + d)] = new[track][k]
        BY <2>4, <4>2
      <4> QED BY <4>1, <4>3
    <3> QED BY <2>6, <3>1, <3>2
  <2> QED BY <2>6, <2>7 DEF Times, FramesAt
<1>2. AlignInv /\ (Aligned => \A track \in Track : from[track] = Whole(track) /\ to[track] = <<>>)
        => NoHole
  BY <1>1 DEF NoHole, Played, Track
<1> QED BY <1>2, AlignCorrect, PTL

\* The decoder can go from the old bitrate to the new one: the first frame of the new
\* one comes after its format marker, and of video it is a key frame, wherever the
\* lists were cut.
THEOREM SwitchIsDecodable == Spec => []SwitchDecodable
<1>1. ASSUME AlignInv, Aligned, NEW track \in Played, from[track] = Whole(track),
             NEW j \in DOMAIN from[track], IsFrame(from[track][j]),
             NEW last, last = LET before == {i \in 1 .. j - 1 : IsFrame(from[track][i])}
                              IN  IF before = {} THEN 0 ELSE Max(before),
             from[track][j].fmt # IF last = 0 THEN OldEncoding ELSE from[track][last].fmt
      PROVE  /\ track = "video" => Has(from[track][j], "key")
             /\ \E i \in last + 1 .. j - 1 :
                  Has(from[track][i], "format") /\ from[track][i].fmt = from[track][j].fmt
  <2> DEFINE O == old[track]
             N == new[track]
             before == {i \in 1 .. j - 1 : IsFrame(from[track][i])}
  <2>1. old \in Old /\ new \in New /\ track \in Track
    BY <1>1 DEF AlignInv, Played, Track
  <2>2. /\ O \in Seq(Sample) /\ N \in Seq(Sample) /\ <<>> \in Seq(Sample)
        /\ Len(N) \in Nat /\ DOMAIN N = 1 .. Len(N)
    BY <2>1, ListsIn
  <2>3. PICK a, b \in Seq(Sample), q \in 1 .. Len(N) + 1 : Halves(track, a, b, q)
    BY <2>1, WholeHalves
  <2>4. PICK d \in Int :
          /\ \A i \in 1 .. Len(b) : IsFrame(b[i]) => i - d \in q .. Len(N) /\ b[i] = N[i - d]
          /\ \A k \in q .. Len(N) : k + d \in 1 .. Len(b) /\ b[k + d] = N[k]
    BY <2>3 DEF Halves
  <2> DEFINE list == Cat(a, b)
  <2>5. /\ Len(list) = Len(a) + Len(b) /\ Len(a) \in Nat /\ Len(b) \in Nat /\ list \in Seq(Sample)
        /\ \A k \in 1 .. Len(a) : list[k] = a[k]
        /\ \A k \in 1 .. Len(b) : list[Len(a) + k] = b[k]
    BY CatParts
  <2>6. from[track] = list
    BY <1>1, <2>3 DEF Halves
  <2> HIDE DEF list
  <2>7. q \in Nat /\ q >= 1 /\ j \in 1 .. Len(a) + Len(b) /\ IsFrame(list[j])
    BY <1>1, <2>2, <2>5, <2>6
  <2>8. /\ Introduced(N)
        /\ \A i, k \in DOMAIN N : IsFrame(N[i]) /\ IsFrame(N[k]) => N[i].fmt = N[k].fmt
    BY <2>1, ChunkAssumption DEF Played
  <2>9. Introduced(b)
    <3>1. Cat(<<>>, b) = b /\ Cat(<<>>, N) = N
      BY <2>2, ConcatEmptySeq DEF Cat
    <3>2. Replaces(b, N)
      BY <2>3 DEF Halves
    <3> HIDE DEF N
    <3> QED BY <2>2, <2>8, <3>1, <3>2, ReplacesAlone
  <2>10. /\ before \subseteq Nat
         /\ IF before = {} THEN last = 0
                           ELSE last \in before /\ \A y \in before : last >= y
    <3>1. j - 1 \in Nat /\ before \subseteq 1 .. j - 1
      BY <2>5, <2>7
    <3>2. last = IF before = {} THEN 0 ELSE Max(before)
      BY <1>1
    <3> HIDE DEF before
    <3> QED BY <3>1, <3>2, Positions, MaxIn
  <2>11. \A i \in 1 .. Len(a) : IsFrame(list[i]) => list[i].fmt = OldEncoding
    <3>1. \A i \in 1 .. Len(a) : i \in DOMAIN O /\ a[i] = O[i]
      BY <2>3 DEF Halves
    <3>2. \A i \in DOMAIN O : IsFrame(O[i]) => O[i].fmt = OldEncoding
      BY <2>1, ChunkAssumption DEF Played
    <3> QED BY <2>5, <3>1, <3>2
  <2>12. j > Len(a)
    <3> SUFFICES ASSUME j <= Len(a) PROVE FALSE
      BY <2>5, <2>7
    <3>1. list[j].fmt = OldEncoding
      BY <2>5, <2>7, <2>11
    <3>2. last # 0 => last \in 1 .. Len(a) /\ IsFrame(list[last])
      BY <2>5, <2>6, <2>7, <2>10
    <3> QED BY <1>1, <2>6, <2>11, <3>1, <3>2
  <2> DEFINE l == j - Len(a)
  <2>13. l \in 1 .. Len(b) /\ j = Len(a) + l /\ list[j] = b[l] /\ IsFrame(b[l])
    <3>1. l \in 1 .. Len(b) /\ j = Len(a) + l
      BY <2>5, <2>7, <2>12
    <3> HIDE DEF l
    <3>2. list[j] = b[l]
      BY <2>5, <3>1
    <3> QED BY <2>7, <3>1, <3>2
  <2> HIDE DEF l
  <2>14. l - d \in q .. Len(N) /\ b[l] = N[l - d]
    BY <2>4, <2>13
  <2>15. \A i \in 1 .. l - 1 : ~IsFrame(b[i])
    <3> SUFFICES ASSUME NEW i \in 1 .. l - 1, IsFrame(b[i]) PROVE FALSE
      OBVIOUS
    <3>1. i \in 1 .. Len(b) /\ Len(a) + i \in 1 .. j - 1 /\ list[Len(a) + i] = b[i]
      BY <2>5, <2>13
    <3>2. Len(a) + i \in before
      BY <2>6, <3>1
    <3>3. last \in before /\ last >= Len(a) + i
      BY <2>10, <3>2
    <3>4. last \in 1 .. j - 1 /\ IsFrame(list[last]) /\ last # 0
      BY <2>6, <3>3
    <3>5. last - Len(a) \in 1 .. Len(b) /\ Len(a) + (last - Len(a)) = last
      BY <2>5, <2>7, <3>1, <3>3, <3>4
    <3>6. list[last] = b[last - Len(a)]
      BY <2>5, <3>5
    <3>7. last - Len(a) - d \in q .. Len(N) /\ list[last] = N[last - Len(a) - d]
      BY <2>4, <3>4, <3>5, <3>6
    <3>8. last - Len(a) - d \in DOMAIN N /\ l - d \in DOMAIN N
      BY <2>2, <2>7, <2>14, <3>7
    <3> HIDE DEF N, before
    <3>9. list[last].fmt = list[j].fmt
      BY <2>8, <2>13, <2>14, <3>4, <3>7, <3>8
    <3> QED BY <1>1, <2>6, <3>4, <3>9
  <2>16. last <= Len(a) /\ last \in Nat
    <3> SUFFICES ASSUME last # 0 PROVE last <= Len(a) /\ last \in Nat
      BY <2>5
    <3>1. last \in 1 .. j - 1 /\ IsFrame(list[last])
      BY <2>6, <2>10
    <3> SUFFICES ASSUME last > Len(a) PROVE FALSE
      BY <2>5, <2>7, <3>1
    <3>2. last - Len(a) \in 1 .. l - 1 /\ last - Len(a) \in 1 .. Len(b)
          /\ Len(a) + (last - Len(a)) = last
      BY <2>5, <2>13, <3>1
    <3>3. list[last] = b[last - Len(a)]
      BY <2>5, <3>2
    <3> QED BY <2>15, <3>1, <3>2, <3>3
  <2>17. \E i \in last + 1 .. j - 1 : Has(list[i], "format") /\ list[i].fmt = list[j].fmt
    <3>1. PICK i \in 1 .. l - 1 : Kind(b[i]) = "format" /\ b[i].fmt = b[l].fmt
      BY <2>9, <2>13 DEF Introduced, IsFrame
    <3>2. Has(b[i], "format")
      BY <3>1, KindHas
    <3>3. i \in 1 .. Len(b) /\ Len(a) + i \in last + 1 .. j - 1
      BY <2>5, <2>13, <2>16, <3>1
    <3>4. list[Len(a) + i] = b[i]
      BY <2>5, <3>3
    <3> QED BY <2>13, <3>1, <3>2, <3>3, <3>4
  <2>18. ASSUME track = "video" PROVE Has(list[j], "key")
    <3> SUFFICES ASSUME ~Has(N[l - d], "key") PROVE FALSE
      BY <2>13, <2>14
    <3>1. Keyed(N) /\ l - d \in DOMAIN N /\ IsFrame(N[l - d])
      <4>1. Keyed(N)
        BY <2>1, <2>18, ChunkAssumption
      <4> QED BY <2>2, <2>7, <2>13, <2>14, <4>1
    <3>2. \A k \in q .. Len(N) : k < l - d => ~IsFrame(N[k])
      <4> SUFFICES ASSUME NEW k \in q .. Len(N), k < l - d PROVE ~IsFrame(N[k])
        OBVIOUS
      <4>1. k + d \in 1 .. Len(b) /\ b[k + d] = N[k]
        BY <2>4
      <4>2. k + d \in 1 .. l - 1
        BY <2>13, <4>1
      <4> QED BY <2>15, <4>1, <4>2
    <3> HIDE DEF N
    <3>3. CASE q = 1
      <4>1. PICK k \in 1 .. l - d - 1 : IsFrame(N[k])
        BY <3>1 DEF Keyed
      <4>2. k \in q .. Len(N) /\ k < l - d
        BY <2>2, <2>14, <3>3, <4>1
      <4> QED BY <3>2, <4>1, <4>2
    <3>4. CASE q # 1
      <4>1. q <= Len(N) /\ Has(N[q], "key")
        BY <2>3, <2>18, <3>4 DEF Halves, N
      <4>2. q \in DOMAIN N /\ q \in q .. Len(N)
        BY <2>2, <2>7, <4>1
      <4>3. IsFrame(N[q]) /\ q # l - d
        BY <3>1, <4>1, <4>2 DEF Keyed
      <4>4. q < l - d
        BY <2>7, <2>14, <4>3
      <4> QED BY <3>2, <4>2, <4>3, <4>4
    <3> QED BY <3>3, <3>4
  <2> QED BY <2>6, <2>17, <2>18
<1>2. ASSUME AlignInv, Aligned => \A track \in Track : from[track] = Whole(track) /\ to[track] = <<>>
      PROVE  SwitchDecodable
  <2> SUFFICES ASSUME Aligned, NEW track \in Played, NEW j \in DOMAIN from[track]
               PROVE  LET list == from[track]
                          before == {i \in 1 .. j - 1 : IsFrame(list[i])}
                          last == IF before = {} THEN 0 ELSE Max(before)
                          encoding == IF last = 0 THEN OldEncoding ELSE list[last].fmt
                      IN  IsFrame(list[j]) /\ list[j].fmt # encoding =>
                            /\ track = "video" => Has(list[j], "key")
                            /\ \E i \in last + 1 .. j - 1 :
                                 Has(list[i], "format") /\ list[i].fmt = list[j].fmt
    BY DEF SwitchDecodable, Played
  <2>1. from[track] = Whole(track)
    BY <1>2 DEF Played, Track
  <2> QED BY <1>1, <1>2, <2>1
<1>3. AlignInv /\ (Aligned => \A track \in Track : from[track] = Whole(track) /\ to[track] = <<>>)
        => SwitchDecodable
  BY <1>2
<1> QED BY <1>3, AlignCorrect, PTL
=============================================================================
