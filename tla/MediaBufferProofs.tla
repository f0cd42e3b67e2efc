-------------------------- MODULE MediaBufferProofs --------------------------
(***************************************************************************)
(* What each method of MediaBuffer returns, for lists of any length: an    *)
(* object again, with the members the method does not write unchanged.     *)
(***************************************************************************)
EXTENDS MediaBuffer, SampleListProofs

\* Two objects that differ in their tracks and the position of a seek only.
SameGate(m, n) == n.state = m.state /\ n.style = m.style /\ n.limit = m.limit

LEMMA Product ==
  ASSUME NEW a \in Nat, NEW b \in Nat, NEW c \in Nat
  PROVE  a * c \in Nat /\ (a <= b => a * c <= b * c)
  OBVIOUS

\* The parts of an object
LEMMA MediaParts ==
  ASSUME NEW m \in Media, NEW t \in Track
  PROVE  /\ Queue(m, t) \in Seq(Sample) /\ m.track[t].dur \in Nat
         /\ WillAvailable(m, t) \in BOOLEAN /\ Duration(m, t) \in Nat
         /\ Queue(m, t) = <<>> => Duration(m, t) = 0
         /\ m.track \in [Track -> TrackBuffer] /\ m.track[t] \in TrackBuffer
         /\ m.limit.max \in Nat /\ m.limit.buffering \in Nat /\ m.limit.quick \in Nat
         /\ m.wanted \in Nat /\ m.actual \in Nat /\ m.sought \in BOOLEAN
         /\ m.state \in BufferState /\ m.style \in Style
<1>1. /\ m.track \in [Track -> TrackBuffer] /\ m.track[t] \in TrackBuffer
      /\ m.limit.max \in Nat /\ m.limit.buffering \in Nat /\ m.limit.quick \in Nat
      /\ m.wanted \in Nat /\ m.actual \in Nat /\ m.sought \in BOOLEAN
      /\ m.state \in BufferState /\ m.style \in Style
  BY DEF Media
<1>2. /\ Queue(m, t) \in Seq(Sample) /\ m.track[t].dur \in Nat
      /\ WillAvailable(m, t) \in BOOLEAN
      /\ Queue(m, t) = <<>> => m.track[t].dur = 0
  BY <1>1 DEF TrackBuffer, Queue, WillAvailable
<1>3. FrameInterval \in Nat
  BY MediaBufferAssumption
<1>4. Len(Queue(m, t)) \in Nat /\ (Queue(m, t) = <<>> => Len(Queue(m, t)) = 0)
  BY <1>2
<1>5. Len(Queue(m, t)) * FrameInterval \in Nat
  BY <1>3, <1>4, Product
<1>6. Duration(m, t) \in Nat /\ (Queue(m, t) = <<>> => Duration(m, t) = 0)
  BY <1>2, <1>3, <1>4, <1>5 DEF Duration
<1> QED BY <1>1, <1>2, <1>6

\* An object whose track t is replaced
LEMMA TrackPut ==
  ASSUME NEW m \in Media, NEW t \in Track, NEW b \in TrackBuffer
  PROVE  LET n == [m EXCEPT !.track[t] = b]
         IN  /\ n \in Media /\ n.track[t] = b /\ SameGate(m, n)
             /\ \A u \in Track \ {t} : n.track[u] = m.track[u]
             /\ n.wanted = m.wanted /\ n.actual = m.actual /\ n.sought = m.sought
  BY DEF Media, SameGate

\* Nothing but track t and what a seek is about
OnlyTrack(m, n, t) ==
  n \in Media /\ SameGate(m, n) /\ \A u \in Track \ {t} : n.track[u] = m.track[u]

LEMMA ExtentIn ==
  ASSUME NEW list \in Seq(Sample), list # <<>>
  PROVE  Extent(list) \in Nat
<1>1. list[1].time \in Nat /\ list[Len(list)].time \in Nat
  BY DEF Sample
<1> QED BY <1>1, ApartIn DEF Extent

\* A longer queue lasts no shorter on video.
LEMMA VideoGrows ==
  ASSUME NEW m \in Media, NEW n \in Media,
         Len(Queue(m, "video")) <= Len(Queue(n, "video"))
  PROVE  Duration(m, "video") <= Duration(n, "video")
<1>1. "video" \in Track
  BY DEF Track
<1>2. Len(Queue(m, "video")) \in Nat /\ Len(Queue(n, "video")) \in Nat
  BY <1>1, MediaParts
<1>3. FrameInterval \in Nat
  BY MediaBufferAssumption
<1>4. Len(Queue(m, "video")) * FrameInterval <= Len(Queue(n, "video")) * FrameInterval
  BY <1>2, <1>3, Product
<1> QED BY <1>4 DEF Duration

\* A list that goes in: the track lasts as much longer, on audio by its extent.
LEMMA SplicedIn ==
  ASSUME NEW m \in Media, NEW t \in Track, NEW list \in Seq(Sample), list # <<>>
  PROVE  LET n == Spliced(m, t, list)
         IN  /\ OnlyTrack(m, n, t)
             /\ Queue(n, t) = Queue(m, t) \o list
             /\ Duration(n, t) >= Duration(m, t)
             /\ t # "video" => Duration(n, t) = Duration(m, t) + Extent(list)
             /\ n.wanted = m.wanted /\ n.actual = m.actual /\ n.sought = m.sought
<1> DEFINE dur == IF t = "video" THEN 0 ELSE m.track[t].dur + Extent(list)
           use == list[Len(list)].flags \cap {"unavail", "eos"} = {}
           q   == Queue(m, t) \o list
           b   == [q |-> q, dur |-> dur, use |-> use]
           n   == [m EXCEPT !.track[t] = b]
<1>1. Queue(m, t) \in Seq(Sample) /\ m.track[t].dur \in Nat /\ Extent(list) \in Nat
  BY MediaParts, ExtentIn
<1>2. q \in Seq(Sample) /\ q # <<>> /\ Len(q) >= Len(Queue(m, t))
  BY <1>1
<1>3. dur \in Nat /\ use \in BOOLEAN
  BY <1>1
<1>4. b \in TrackBuffer
  <2> HIDE DEF q, dur, use
  <2> QED BY <1>2, <1>3 DEF TrackBuffer
<1>5. Spliced(m, t, list) = n
  <2>1. m \in [state : BufferState, track : [Track -> TrackBuffer], wanted : Nat, actual : Nat,
               sought : BOOLEAN, limit : [max : Nat, buffering : Nat, quick : Nat], style : Style]
    BY DEF Media
  <2> QED BY <2>1 DEF Spliced, Queue
<1> HIDE DEF b
<1>6. /\ n \in Media /\ n.track[t] = b /\ SameGate(m, n)
      /\ \A u \in Track \ {t} : n.track[u] = m.track[u]
      /\ n.wanted = m.wanted /\ n.actual = m.actual /\ n.sought = m.sought
  BY <1>4, TrackPut
<1> HIDE DEF n, q
<1>7. Queue(n, t) = q /\ n.track[t].dur = dur
  BY <1>6 DEF Queue, b
<1>8. t = "video" => Duration(n, t) >= Duration(m, t)
  <2> HAVE t = "video"
  <2>1. Duration(m, "video") \in Nat /\ Duration(n, "video") \in Nat
    BY <1>6, MediaParts
  <2>2. Duration(m, "video") <= Duration(n, "video")
    BY <1>2, <1>6, <1>7, VideoGrows
  <2> QED BY <2>1, <2>2
<1>9. t # "video" => Duration(n, t) = Duration(m, t) + Extent(list)
  BY <1>7 DEF Duration
<1>10. Duration(n, t) >= Duration(m, t)
  <2>1. Duration(m, t) \in Nat
    BY MediaParts
  <2> QED BY <2>1, <1>1, <1>8, <1>9
<1> QED BY <1>5, <1>6, <1>7, <1>9, <1>10 DEF OnlyTrack, q

-----------------------------------------------------------------------------
(* Seeking in the queues *)

\* What is left of a list: nothing new, and no frame without its marker
Cut(a, b) == Within(a, b) /\ Replaces(a, b)

\* A list is a cut of itself.
LEMMA CutSame ==
  ASSUME NEW a
  PROVE  Cut(a, a)
<1>1. Within(a, a)
  BY DEF Within
<1>2. Replaces(a, a)
  BY DEF Replaces
<1> QED BY <1>1, <1>2 DEF Cut

\* A cut of a cut is a cut.
LEMMA CutTwice ==
  ASSUME NEW a, NEW b, NEW c, Cut(a, b), Cut(b, c)
  PROVE  Cut(a, c)
<1>1. Within(a, c)
  BY DEF Cut, Within
<1>2. Replaces(a, c)
  BY ReplacesTwice DEF Cut
<1> QED BY <1>1, <1>2 DEF Cut

\* An empty list adds nothing to a line.
LEMMA CatEmpty ==
  ASSUME NEW a \in Seq(Sample)
  PROVE  Cat(a, <<>>) = a /\ Cat(<<>>, a) = a
  BY ConcatEmptySeq DEF Cat

\* What SetPosition leaves of a list is a cut of it.
LEMMA CutAt ==
  ASSUME NEW list \in Seq(Sample), NEW p \in 1..(Len(list) + 1)
  PROVE  Cut(SetPosition(list, p), list)
  BY SetPositionIn, CutReplaces DEF Cut

\* Nothing has come in, and no parameter was set.
Trimmed(m, n) ==
  /\ n \in Media /\ n.style = m.style /\ n.limit = m.limit
  /\ \A t \in Track : Cut(Queue(n, t), Queue(m, t))

LEMMA TrimmedTwice ==
  ASSUME NEW m, NEW n, NEW o, Trimmed(m, n), Trimmed(n, o)
  PROVE  Trimmed(m, o)
  BY CutTwice DEF Trimmed

LEMMA SameTracks ==
  ASSUME NEW m, NEW n \in Media, n.track = m.track, n.style = m.style, n.limit = m.limit
  PROVE  Trimmed(m, n)
  BY CutSame DEF Trimmed, Queue

\* The first of the latest samples exists.
LEMMA LatestIn ==
  ASSUME NEW q \in Seq(Sample), NEW S, S \subseteq 1..Len(q), S # {}
  PROVE  LatestOf(q, S) \in S /\ LatestOf(q, S) \in 1..Len(q)
<1> DEFINE T == {q[i].time : i \in S}
           L == {i \in S : \A j \in S : q[j].time <= q[i].time}
<1>1. IsFiniteSet(S) /\ S \subseteq Nat
  <2>1. Len(q) \in Nat
    OBVIOUS
  <2> QED BY <2>1, Positions
<1>2. \A i \in S : q[i].time \in Nat
  BY DEF Sample
<1>3. IsFiniteSet(T)
  <2>1. [i \in S |-> q[i].time] \in Surjection(S, T)
    BY DEF Surjection
  <2> HIDE DEF T
  <2> QED BY <1>1, <2>1, FS_Surjection
<1>4. T \subseteq Nat /\ T # {}
  BY <1>2
<1>5. PICK x \in T : \A n \in T : n <= x
  <2> HIDE DEF T
  <2> QED BY <1>3, <1>4, Greatest
<1>6. L # {} /\ L \subseteq Nat /\ L \subseteq S
  BY <1>1, <1>5
<1>7. LatestOf(q, S) = Min(L)
  BY DEF LatestOf
<1> HIDE DEF L
<1> QED BY <1>6, <1>7, MinIn

\* SetPos on audio: samples go, or the point moves.
LEMMA AudioSetPosIn ==
  ASSUME NEW m \in Media
  PROVE  /\ Trimmed(m, AudioSetPos(m)) /\ AudioSetPos(m).state = m.state
         /\ AudioSetPos(m).track["video"] = m.track["video"]
         /\ AudioSetPos(m).wanted = m.wanted /\ AudioSetPos(m).sought = m.sought
<1> DEFINE q      == Queue(m, "audio")
           before == {i \in DOMAIN q : q[i].time <= m.actual}
           rest   == SetPosition(q, LatestOf(q, before))
           b      == [m.track["audio"] EXCEPT !.q = rest, !.dur = SpanOf(rest, SampleMaxDuration)]
           n      == AudioSetPos(m)
<1>1. "audio" \in Track /\ "video" \in Track /\ "video" # "audio"
  BY DEF Track
<1>2. q \in Seq(Sample) /\ m.track["audio"] \in TrackBuffer
  BY <1>1, MediaParts
<1>3. CASE q = <<>>
  <2>1. n = m
    BY <1>3 DEF AudioSetPos
  <2>2. Trimmed(m, m)
    BY SameTracks
  <2> QED BY <2>1, <2>2
<1>4. CASE q # <<>> /\ before = {}
  <2>1. n = [m EXCEPT !.actual = q[1].time]
    BY <1>4 DEF AudioSetPos
  <2>2. q[1].time \in Nat
    BY <1>2, <1>4 DEF Sample
  <2> HIDE DEF q, n
  <2>3. n \in Media /\ n.track = m.track /\ n.style = m.style /\ n.limit = m.limit
    BY <2>1, <2>2 DEF Media
  <2>4. Trimmed(m, n)
    BY <2>3, SameTracks
  <2>5. n.state = m.state /\ n.wanted = m.wanted /\ n.sought = m.sought
    BY <2>1, <2>2 DEF Media
  <2> QED BY <2>3, <2>4, <2>5 DEF n
<1>5. CASE q # <<>> /\ before # {}
  <2>1. LatestOf(q, before) \in 1..Len(q)
    <3>1. before \subseteq 1..Len(q)
      BY <1>2
    <3> HIDE DEF before, q
    <3> QED BY <1>2, <1>5, <3>1, LatestIn
  <2>2. rest \in Seq(Sample) /\ rest # <<>> /\ Cut(rest, q)
    <3> HIDE DEF q, before
    <3>1. LatestOf(q, before) \in 1..(Len(q) + 1) /\ LatestOf(q, before) <= Len(q)
      BY <1>2, <2>1
    <3> QED BY <1>2, <3>1, SetPositionIn, CutAt
  <2>3. SpanOf(rest, SampleMaxDuration) \in Nat
    <3> HIDE DEF rest
    <3> QED BY <2>2, SpanIn, MediaBufferAssumption
  <2>4. n = [m EXCEPT !.track["audio"] = b]
    <3>1. n = [m EXCEPT !.track["audio"].q = rest, !.track["audio"].dur = SpanOf(rest, SampleMaxDuration)]
      BY <1>5 DEF AudioSetPos
    <3> HIDE DEF n, rest
    <3>2. m.track \in [Track -> TrackBuffer]
      BY <1>1, MediaParts
    <3> QED BY <1>1, <3>1, <3>2 DEF Media, TrackBuffer
  <2>5. b \in TrackBuffer /\ b.q = rest
    <3> HIDE DEF rest
    <3> QED BY <1>2, <2>2, <2>3 DEF TrackBuffer
  <2> HIDE DEF b, n, rest
  <2>6. /\ n \in Media /\ n.track["audio"] = b /\ SameGate(m, n)
        /\ \A u \in Track \ {"audio"} : n.track[u] = m.track[u]
        /\ n.wanted = m.wanted /\ n.sought = m.sought
    BY <1>1, <2>4, <2>5, TrackPut
  <2>7. \A t \in Track : Cut(Queue(n, t), Queue(m, t))
    BY <2>2, <2>5, <2>6, CutSame DEF Queue
  <2> QED BY <1>1, <2>6, <2>7 DEF Trimmed, SameGate, n
<1> QED BY <1>3, <1>4, <1>5

\* SetPos on video: to a key frame.
LEMMA VideoSetPosIn ==
  ASSUME NEW m \in Media
  PROVE  /\ Trimmed(m, VideoSetPos(m)) /\ VideoSetPos(m).state = m.state
         /\ VideoSetPos(m).wanted = m.wanted /\ VideoSetPos(m).actual = m.actual
         /\ VideoSetPos(m).sought = m.sought
         /\ Len(Queue(VideoSetPos(m), "video")) <= Len(Queue(m, "video"))
<1> DEFINE q      == Queue(m, "video")
           keys   == {i \in DOMAIN q : Has(q[i], "key")}
           before == {i \in keys : q[i].time <= m.actual}
           p      == IF before # {} THEN LatestOf(q, before) ELSE Min(keys)
           rest   == SetPosition(q, p)
           b      == [m.track["video"] EXCEPT !.q = rest]
           n      == VideoSetPos(m)
<1>1. "video" \in Track
  BY DEF Track
<1>2. q \in Seq(Sample) /\ m.track["video"] \in TrackBuffer
  BY <1>1, MediaParts
<1>3. CASE keys = {}
  <2>1. n = m
    BY <1>3 DEF VideoSetPos
  <2>2. Len(q) \in Nat
    BY <1>2
  <2>3. Trimmed(m, m)
    BY SameTracks
  <2> QED BY <2>1, <2>2, <2>3
<1>4. CASE keys # {}
  <2>1. p \in 1..Len(q)
    <3>1. keys \subseteq 1..Len(q) /\ before \subseteq 1..Len(q)
      BY <1>2
    <3> HIDE DEF keys, before, q
    <3>2. before # {} => LatestOf(q, before) \in 1..Len(q)
      BY <1>2, <3>1, LatestIn
    <3>3. Min(keys) \in keys
      <4>1. keys \subseteq Nat
        BY <1>2, <3>1
      <4> QED BY <4>1, <1>4, MinIn
    <3> QED BY <3>1, <3>2, <3>3
  <2>2. rest \in Seq(Sample) /\ rest # <<>> /\ Cut(rest, q) /\ Len(rest) <= Len(q)
    <3> HIDE DEF q, p
    <3>1. p \in 1..(Len(q) + 1) /\ p <= Len(q)
      BY <1>2, <2>1
    <3> QED BY <1>2, <3>1, SetPositionIn, CutAt
  <2>3. n = [m EXCEPT !.track["video"] = b]
    <3>1. n = [m EXCEPT !.track["video"].q = rest]
      BY <1>4 DEF VideoSetPos
    <3> HIDE DEF n, rest
    <3>2. m.track \in [Track -> TrackBuffer]
      BY <1>1, MediaParts
    <3> QED BY <1>1, <3>1, <3>2 DEF Media, TrackBuffer
  <2>4. b \in TrackBuffer /\ b.q = rest
    <3> HIDE DEF rest
    <3> QED BY <1>2, <2>2 DEF TrackBuffer
  <2> HIDE DEF b, n, rest, p, keys
  <2>5. /\ n \in Media /\ n.track["video"] = b /\ SameGate(m, n)
        /\ \A u \in Track \ {"video"} : n.track[u] = m.track[u]
        /\ n.wanted = m.wanted /\ n.actual = m.actual /\ n.sought = m.sought
    BY <1>1, <2>3, <2>4, TrackPut
  <2>6. \A t \in Track : Cut(Queue(n, t), Queue(m, t))
    BY <2>2, <2>4, <2>5, CutSame DEF Queue
  <2>7. Len(Queue(n, "video")) <= Len(Queue(m, "video"))
    BY <2>2, <2>4, <2>5 DEF Queue
  <2> QED BY <2>5, <2>6, <2>7 DEF Trimmed, SameGate, n
<1> QED BY <1>3, <1>4

-----------------------------------------------------------------------------
(* The gate *)

\* Whether both tracks have what On asks for
Fills(m) == Filled(m, "audio") /\ Filled(m, "video")
Shut(m) == m.state \in {"Starting", "Buffering"}

\* On writes the state only, and opens a filled gate.
LEMMA OnIn ==
  ASSUME NEW m \in Media
  PROVE  LET n == On(m)
         IN  /\ n \in Media /\ Trimmed(m, n) /\ n.track = m.track
             /\ n.wanted = m.wanted /\ n.actual = m.actual /\ n.sought = m.sought
             /\ n.state = IF Shut(m) /\ Fills(m) THEN "Running" ELSE m.state
<1>1. CASE Shut(m) /\ Fills(m)
  <2> DEFINE n == [m EXCEPT !.state = "Running"]
  <2>1. On(m) = n
    BY <1>1 DEF On, Shut, Fills
  <2>2. n \in Media /\ n.track = m.track /\ n.style = m.style /\ n.limit = m.limit
        /\ n.wanted = m.wanted /\ n.actual = m.actual /\ n.sought = m.sought
        /\ n.state = "Running"
    BY DEF Media, BufferState
  <2> HIDE DEF n
  <2> QED BY <1>1, <2>1, <2>2, SameTracks
<1>2. CASE ~(Shut(m) /\ Fills(m))
  <2>1. On(m) = m
    BY <1>2 DEF On, Shut, Fills
  <2> QED BY <1>2, <2>1, SameTracks
<1> QED BY <1>1, <1>2

\* Off writes the state only, and closes an open gate.
LEMMA OffIn ==
  ASSUME NEW m \in Media, NEW t \in Track
  PROVE  LET n == Off(m, t)
         IN  /\ n \in Media /\ Trimmed(m, n) /\ n.track = m.track
             /\ \/ n = m
                \/ /\ n.state = "Buffering" /\ t # "subtitle"
                   /\ WillAvailable(m, t)
                   /\ \/ m.style = "AV"
                      \/ m.style = "A" /\ (t = "audio" \/ ~WillAvailable(m, "audio"))
                      \/ m.style = "V" /\ (t = "video" \/ ~WillAvailable(m, "video"))
<1> DEFINE n == [m EXCEPT !.state = "Buffering"]
<1>1. n \in Media /\ n.track = m.track /\ n.style = m.style /\ n.limit = m.limit
      /\ n.state = "Buffering"
  BY DEF Media, BufferState
<1> HIDE DEF n
<1>2. Trimmed(m, n) /\ Trimmed(m, m)
  BY <1>1, SameTracks
<1>3. m.style \in Style /\ t \in {"audio", "video", "subtitle"}
  BY MediaParts DEF Track
<1>4. CASE Off(m, t) = m
  BY <1>2, <1>4
<1>5. CASE Off(m, t) # m
  <2>1. Off(m, t) = n /\ t # "subtitle" /\ WillAvailable(m, t)
        /\ \/ m.style = "AV"
           \/ m.style = "A" /\ (t = "audio" \/ ~WillAvailable(m, "audio"))
           \/ m.style = "V" /\ (t = "video" \/ ~WillAvailable(m, "video"))
    BY <1>3, <1>5 DEF Off, n, Style
  <2> QED BY <1>1, <1>2, <2>1
<1> QED BY <1>4, <1>5

-----------------------------------------------------------------------------
(* Single samples *)

\* A sample that goes in; the end-of-stream marker says that no more will come.
LEMMA AppendOneIn ==
  ASSUME NEW m \in Media, NEW t \in Track, NEW s \in Sample
  PROVE  LET n == AppendOne(m, t, s)
         IN  /\ OnlyTrack(m, n, t) /\ Queue(n, t) = Append(Queue(m, t), s)
             /\ Duration(n, t) >= Duration(m, t)
             /\ s.flags = {"eos"} => WillAvailable(n, t) = FALSE
             /\ n.wanted = m.wanted /\ n.actual = m.actual /\ n.sought = m.sought
<1> DEFINE q   == Queue(m, t)
           gap == IF q = <<>> THEN 0 ELSE Apart(s.time, q[Len(q)].time)
           dur == IF t # "video" /\ gap < SampleMaxDuration THEN m.track[t].dur + gap
                                                            ELSE m.track[t].dur
           use == CASE Has(s, "format") -> TRUE
                    [] ~Has(s, "format") /\ s.flags \cap {"unavail", "eos"} # {} -> FALSE
                    [] OTHER -> m.track[t].use
           b   == [q |-> Append(q, s), dur |-> dur, use |-> use]
           n   == AppendOne(m, t, s)
<1>1. q \in Seq(Sample) /\ m.track[t].dur \in Nat /\ m.track[t].use \in BOOLEAN
  BY MediaParts DEF WillAvailable
<1>2. gap \in Nat
  <2>1. CASE q = <<>>
    BY <2>1
  <2>2. CASE q # <<>>
    <3>1. s.time \in Nat /\ q[Len(q)].time \in Nat
      BY <1>1, <2>2 DEF Sample
    <3> QED BY <2>2, <3>1, ApartIn
  <2> QED BY <2>1, <2>2
<1>3. Append(q, s) \in Seq(Sample) /\ Append(q, s) # <<>> /\ Len(Append(q, s)) >= Len(q)
  <2> HIDE DEF q
  <2>1. Len(q) \in Nat
    BY <1>1
  <2> QED BY <1>1, <2>1, AppendProperties
<1>4. dur \in Nat /\ dur >= m.track[t].dur
  <2>1. \A x, y \in Nat : x + y \in Nat /\ x + y >= x
    OBVIOUS
  <2> HIDE DEF gap
  <2> QED BY <1>1, <1>2, <2>1
<1>5. use \in BOOLEAN /\ (s.flags = {"eos"} => use = FALSE)
  BY <1>1 DEF Has
<1>6. n = [m EXCEPT !.track[t] = b]
  <2>1. m.track \in [Track -> TrackBuffer] /\ m.track[t].q = q
    BY MediaParts DEF Queue
  <2>2. n = [m EXCEPT !.track[t] = [q |-> Append(q, s), dur |-> IF t # "video" /\ gap < SampleMaxDuration
                                                  THEN @.dur + gap ELSE @.dur,
                 use |-> CASE Has(s, "format") -> TRUE
                    [] ~Has(s, "format") /\ s.flags \cap {"unavail", "eos"} # {} -> FALSE
                    [] OTHER -> @.use]]
    BY DEF AppendOne
  <2> HIDE DEF q, gap, n
  <2> QED BY <2>1, <2>2 DEF Media
<1> HIDE DEF dur, use, gap
<1>7. b \in TrackBuffer
  <2> HIDE DEF q
  <2> QED BY <1>3, <1>4, <1>5 DEF TrackBuffer
<1> HIDE DEF b, n
<1>8. /\ n \in Media /\ n.track[t] = b /\ SameGate(m, n)
      /\ \A u \in Track \ {t} : n.track[u] = m.track[u]
      /\ n.wanted = m.wanted /\ n.actual = m.actual /\ n.sought = m.sought
  BY <1>6, <1>7, TrackPut
<1>9. Queue(n, t) = Append(q, s) /\ n.track[t].dur = dur /\ WillAvailable(n, t) = use
  BY <1>8 DEF Queue, b, WillAvailable
<1> HIDE DEF q
<1>10. Duration(n, t) >= Duration(m, t)
  <2>1. CASE t = "video"
    <3>1. Len(Queue(m, "video")) <= Len(Queue(n, "video"))
      BY <1>3, <1>9, <2>1 DEF q
    <3>2. Duration(m, "video") <= Duration(n, "video")
      BY <1>8, <3>1, VideoGrows
    <3>3. Duration(m, "video") \in Nat /\ Duration(n, "video") \in Nat
      BY <2>1, <1>8, MediaParts
    <3> QED BY <2>1, <3>2, <3>3
  <2>2. CASE t # "video"
    BY <1>4, <1>9, <2>2 DEF Duration
  <2> QED BY <2>1, <2>2
<1> QED BY <1>5, <1>8, <1>9, <1>10 DEF OnlyTrack, q, n

\* A sample that goes out: the track lasts no longer.
LEMMA PopIn ==
  ASSUME NEW m \in Media, NEW t \in Track, Queue(m, t) # <<>>
  PROVE  LET n == Pop(m, t)
         IN  /\ OnlyTrack(m, n, t) /\ Queue(n, t) = Tail(Queue(m, t))
             /\ Duration(n, t) <= Duration(m, t) /\ WillAvailable(n, t) = WillAvailable(m, t)
             /\ n.wanted = m.wanted /\ n.actual = m.actual /\ n.sought = m.sought
<1> DEFINE q   == Queue(m, t)
           gap == IF Len(q) = 1 THEN 0 ELSE Apart(q[1].time, q[2].time)
           old == m.track[t].dur
           dur == IF Len(q) = 1 THEN 0
                  ELSE IF gap < SampleMaxDuration /\ gap < old THEN old - gap
                  ELSE old
           b   == [m.track[t] EXCEPT !.q = Tail(q), !.dur = dur]
           n   == Pop(m, t)
<1>1. q \in Seq(Sample) /\ old \in Nat /\ m.track[t] \in TrackBuffer
  BY MediaParts
<1>2. Len(q) \in Nat \ {0} /\ Tail(q) \in Seq(Sample) /\ Len(Tail(q)) = Len(q) - 1
  BY <1>1
<1>3. gap \in Nat
  <2>1. CASE Len(q) = 1
    BY <2>1
  <2>2. CASE Len(q) # 1
    <3>1. q[1] \in Sample /\ q[2] \in Sample
      BY <1>1, <1>2, <2>2
    <3>2. q[1].time \in Nat /\ q[2].time \in Nat
      BY <3>1 DEF Sample
    <3> QED BY <2>2, <3>2, ApartIn
  <2> QED BY <2>1, <2>2
<1>4. SampleMaxDuration \in Nat
  BY MediaBufferAssumption
<1>5. dur \in Nat /\ dur <= old /\ (Len(q) = 1 => dur = 0)
  <2> HIDE DEF gap, old, q
  <2> QED BY <1>1, <1>2, <1>3, <1>4
<1>6. n = [m EXCEPT !.track[t] = b]
  <2>1. m.track \in [Track -> TrackBuffer] /\ m.track[t] \in TrackBuffer
    BY MediaParts
  <2>2. n = [m EXCEPT !.track[t] =
         [@ EXCEPT !.q = Tail(q),
                   !.dur = dur]]
    BY DEF Pop
  <2> HIDE DEF q, dur, n
  <2> QED BY <2>1, <2>2 DEF Media
<1> HIDE DEF dur, gap
<1>7. b \in TrackBuffer /\ b.q = Tail(q) /\ b.dur = dur /\ b.use = m.track[t].use
  <2>1. Tail(q) = <<>> => Len(q) = 1
    <3>1. Tail(q) = <<>> <=> Len(Tail(q)) = 0
      <4> HIDE DEF q
      <4> QED BY <1>2, EmptySeq
    <3> HIDE DEF q
    <3> QED BY <1>2, <3>1
  <2> HIDE DEF q
  <2> QED BY <1>1, <1>2, <1>5, <2>1 DEF TrackBuffer
<1> HIDE DEF b, n
<1>8. /\ n \in Media /\ n.track[t] = b /\ SameGate(m, n)
      /\ \A u \in Track \ {t} : n.track[u] = m.track[u]
      /\ n.wanted = m.wanted /\ n.actual = m.actual /\ n.sought = m.sought
  BY <1>6, <1>7, TrackPut
<1>9. Queue(n, t) = Tail(q) /\ n.track[t].dur = dur /\ WillAvailable(n, t) = WillAvailable(m, t)
  BY <1>7, <1>8 DEF Queue, WillAvailable
<1> HIDE DEF q
<1>10. Duration(n, t) <= Duration(m, t)
  <2>1. CASE t = "video"
    <3>1. Len(Queue(n, "video")) <= Len(Queue(m, "video"))
      BY <1>2, <1>9, <2>1 DEF q
    <3>2. Duration(n, "video") <= Duration(m, "video")
      BY <1>8, <3>1, VideoGrows
    <3> QED BY <2>1, <3>2
  <2>2. CASE t # "video"
    BY <1>5, <1>9, <2>2 DEF Duration
  <2> QED BY <2>1, <2>2
<1> QED BY <1>8, <1>9, <1>10 DEF OnlyTrack, q, n

-----------------------------------------------------------------------------
(* Putting lists *)

\* A list that arrives while Seeking is cut, and may move the point.
LEMMA SeekCutIn ==
  ASSUME NEW m \in Media, NEW t \in Track, NEW list \in Seq(Sample)
  PROVE  LET c == SeekCut(m, t, list)
         IN  /\ c = [list |-> c.list, m |-> c.m]
             /\ c.list \in Seq(Sample) /\ Cut(c.list, list)
             /\ list = <<>> => c.list = <<>>
             /\ c.m \in Media /\ Trimmed(m, c.m)
             /\ c.m.track = m.track /\ c.m.state = m.state
<1> DEFINE point  == IF t = "video" THEN m.wanted ELSE m.actual
           beyond == {i \in DOMAIN list : point < list[i].time}
           passed == t = "video" /\ beyond # {}
           drop   == IF /\ passed /\ Len(list) >= 2
                        /\ Has(list[1], "unavail") /\ Has(list[2], "format")
                     THEN 1 ELSE 0
           rest   == SubSeq(list, 1 + drop, Len(list))
           stop   == Min(beyond \cup {Len(list) + 1})
           L      == Landings(t, list, stop)
           cut    == IF L = {} THEN rest ELSE SetPosition(rest, Max(L) - drop)
           n      == [m EXCEPT !.sought = @ \/ passed,
                               !.actual = IF t = "video" /\ L # {}
                                          THEN list[Max(L)].time ELSE @]
<1>1. SeekCut(m, t, list) = [list |-> cut, m |-> n]
  BY DEF SeekCut
<1>2. Len(list) \in Nat /\ DOMAIN list = 1..Len(list)
  OBVIOUS
<1>3. stop \in 1..(Len(list) + 1)
  <2>1. beyond \cup {Len(list) + 1} \subseteq 1..(Len(list) + 1)
    BY <1>2
  <2>2. beyond \cup {Len(list) + 1} \subseteq Nat /\ beyond \cup {Len(list) + 1} # {}
    BY <2>1
  <2> HIDE DEF beyond
  <2>3. Min(beyond \cup {Len(list) + 1}) \in beyond \cup {Len(list) + 1}
    BY <2>2, MinIn
  <2> QED BY <2>1, <2>3 DEF stop
<1>4. L \subseteq 1..Len(list)
  <2> HIDE DEF stop
  <2> QED BY <1>2, <1>3 DEF Landings
<1>5. L # {} => Max(L) \in L /\ Max(L) \in 1..Len(list)
  <2> HIDE DEF L
  <2>1. IsFiniteSet(L) /\ L \subseteq Nat
    BY <1>2, <1>4, Positions
  <2> QED BY <1>4, <2>1, MaxIn
<1>6. drop \in {0, 1} /\ (drop = 1 => Len(list) >= 2 /\ t = "video"
                                       /\ Has(list[1], "unavail") /\ Has(list[2], "format"))
  <2> HIDE DEF beyond
  <2> QED OBVIOUS
<1>7. drop = 1 /\ L # {} => Max(L) # 1
  <2> SUFFICES ASSUME drop = 1, L # {}, Max(L) = 1
               PROVE  FALSE
    OBVIOUS
  <2>1. Has(list[Max(L)], "key")
    <3>1. t = "video" /\ Max(L) \in L
      BY <1>5, <1>6
    <3> HIDE DEF stop
    <3> QED BY <3>1 DEF Landings
  <2>2. {"key", "unavail"} \subseteq list[1].flags
    <3> HIDE DEF L, drop
    <3> QED BY <1>6, <2>1 DEF Has
  <2>3. list[1] \in Sample
    <3> HIDE DEF L, drop
    <3> QED BY <1>2, <1>5, <1>6
  <2> QED BY <2>2, <2>3 DEF Sample
<1> HIDE DEF drop, L
<1>8. rest \in Seq(Sample) /\ Len(rest) = Len(list) - drop /\ Cut(rest, list)
  <2>1. 1 + drop \in 1..(Len(list) + 1)
    BY <1>2, <1>6
  <2>2. /\ rest \in Seq(Sample) /\ Len(rest) = Len(list) - (1 + drop) + 1 /\ Within(rest, list)
    BY <2>1, SubWithin
  <2>3. CASE drop = 0
    <3>1. SubSeq(list, 1, Len(list)) = list
      OBVIOUS
    <3>2. rest = list
      BY <2>3, <3>1
    <3> HIDE DEF rest
    <3> QED BY <1>2, <1>6, <2>2, <2>3, <3>2, CutSame
  <2>4. CASE drop = 1
    <3>1. Kind(list[1]) \in Turns /\ Kind(list[2]) \in Turns /\ Len(list) >= 2
      BY <1>6, <2>4, KindFirst DEF Turns
    <3>2. rest = SubSeq(list, 2, Len(list))
      BY <2>4
    <3>3. Replaces(rest, list)
      BY <3>1, <3>2, HeadReplaced
    <3> HIDE DEF rest
    <3> QED BY <1>2, <2>2, <2>4, <3>3 DEF Cut
  <2> QED BY <1>6, <2>3, <2>4
<1> HIDE DEF rest
<1>9. cut \in Seq(Sample) /\ Cut(cut, list)
  <2>1. CASE L = {}
    BY <1>8, <2>1
  <2>2. CASE L # {}
    <3>1. Max(L) - drop \in 1..(Len(rest) + 1)
      BY <1>2, <1>5, <1>6, <1>7, <1>8, <2>2
    <3>2. SetPosition(rest, Max(L) - drop) \in Seq(Sample)
          /\ Cut(SetPosition(rest, Max(L) - drop), rest)
      BY <1>8, <3>1, SetPositionIn, CutAt
    <3> QED BY <1>8, <2>2, <3>2, CutTwice
  <2> QED BY <2>1, <2>2
<1>10. /\ n \in Media /\ n.track = m.track /\ n.state = m.state
       /\ n.style = m.style /\ n.limit = m.limit
  <2>1. L # {} => list[Max(L)].time \in Nat
    BY <1>5 DEF Sample
  <2>2. passed \in BOOLEAN
    OBVIOUS
  <2> HIDE DEF passed
  <2> QED BY <2>1, <2>2 DEF Media
<1>11. list = <<>> => cut = <<>>
  <2> HAVE list = <<>>
  <2>1. Len(list) = 0
    OBVIOUS
  <2>2. L = {}
    BY <1>4, <2>1
  <2>3. Len(rest) = 0
    BY <1>6, <1>8, <2>1
  <2> QED BY <1>8, <2>2, <2>3
<1> HIDE DEF cut, n
<1>12. Trimmed(m, n)
  BY <1>10, SameTracks
<1> QED BY <1>1, <1>9, <1>10, <1>11, <1>12

LEMMA QueueSetPosIn ==
  ASSUME NEW m \in Media, NEW t \in Track
  PROVE  Trimmed(m, QueueSetPos(m, t)) /\ QueueSetPos(m, t).state = m.state
  BY AudioSetPosIn, VideoSetPosIn DEF QueueSetPos

\* A pending seek may trim the audio queue and start the buffer.
LEMMA SeekProgressIn ==
  ASSUME NEW m \in Media, NEW t \in Track, NEW refused \in BOOLEAN
  PROVE  LET n == SeekProgress(m, t, refused)
         IN  /\ Trimmed(m, n)
             /\ m.state # "Seeking" => n = m
             /\ m.state = "Seeking" => n.state \in {"Seeking", "Starting"}
<1> DEFINE n == SeekProgress(m, t, refused)
           started == ~VideoPending(m) /\ (WillAvailable(m, "audio") => AudioReached(m))
           sought  == [m EXCEPT !.sought = TRUE]
           moved   == [AudioSetPos(m) EXCEPT !.state = IF started THEN "Starting" ELSE @]
<1>1. n = m \/ (m.state = "Seeking" /\ n \in {sought, moved})
  <2> HIDE DEF moved, sought
  <2> QED BY DEF SeekProgress, moved, sought
<1>2. m.state # "Seeking" => n = m
  BY DEF SeekProgress
<1>3. sought \in Media /\ sought.track = m.track /\ sought.state = m.state
      /\ sought.style = m.style /\ sought.limit = m.limit
  BY DEF Media
<1>4. Trimmed(m, sought) /\ Trimmed(m, m)
  <2> HIDE DEF sought
  <2> QED BY <1>3, SameTracks
<1>5. Trimmed(m, moved) /\ moved.state \in {m.state, "Starting"}
  <2> DEFINE a == AudioSetPos(m)
  <2>1. Trimmed(m, a) /\ a.state = m.state /\ a \in Media
    BY AudioSetPosIn DEF Trimmed
  <2> HIDE DEF a, started
  <2>2. /\ moved \in Media /\ moved.track = a.track /\ moved.style = a.style
        /\ moved.limit = a.limit /\ moved.state \in {a.state, "Starting"}
    BY <2>1 DEF Media, BufferState, a
  <2> HIDE DEF moved
  <2>3. Trimmed(a, moved)
    BY <2>2, SameTracks
  <2> QED BY <2>1, <2>2, <2>3, TrimmedTwice
<1> HIDE DEF n, moved, sought
<1> QED BY <1>1, <1>2, <1>3, <1>4, <1>5 DEF n

\* The buffer comes out of what the list was offered to: outside a seek the list
\* is in as a whole or not at all; a seek may cut it and start the buffer.
LEMMA PutSamplesIn ==
  ASSUME NEW m \in Media, NEW t \in Track, NEW list \in Seq(Sample)
  PROVE  LET r == PutSamplesResult(m, t, list)
         IN  /\ r.list \in Seq(Sample) /\ Within(r.list, list) /\ r.refused \in BOOLEAN
             /\ list = <<>> => r.list = <<>>
             /\ ~r.refused => r.list = <<>>
             /\ \A u \in Track \ {t} : Replaces(Queue(r.m, u), Queue(m, u))
             /\ Replaces(Cat(Queue(r.m, t), r.list), Cat(Queue(m, t), list))
             /\ r.m.style = m.style /\ r.m.limit = m.limit /\ r.m \in Media
             /\ Unended(list) =>
                  \A u \in Track : Unended(Queue(m, u)) => Unended(Queue(r.m, u))
             /\ m.state # "Seeking" =>
                  LET refused == list # <<>> /\ ~Admits(m, t, list, Forced(m, t))
                  IN  /\ r.refused = refused
                      /\ r.m = On(IF list = <<>> \/ refused THEN m ELSE Spliced(m, t, list))
             /\ m.state = "Seeking" =>
                  \E x \in Media : /\ r.m = On(x) /\ x.state \in {"Seeking", "Starting"}
                                   /\ x.style = m.style /\ x.limit = m.limit
<1> DEFINE o       == IF m.state = "Seeking"
                      THEN [SeekCut(m, t, list) EXCEPT !.m = QueueSetPos(@, t)]
                      ELSE [list |-> list, m |-> m]
           refused == o.list # <<>> /\ ~Admits(o.m, t, o.list, Forced(o.m, t))
           after   == IF o.list = <<>> \/ refused THEN o.m ELSE Spliced(o.m, t, o.list)
           x       == SeekProgress(after, t, refused)
           left    == IF refused THEN o.list ELSE <<>>
<1>1. PutSamplesResult(m, t, list) = [m |-> On(x), list |-> left, refused |-> refused]
  BY DEF PutSamplesResult
<1>2. /\ o.list \in Seq(Sample) /\ Cut(o.list, list)
      /\ Trimmed(m, o.m) /\ o.m \in Media /\ o.m.state = m.state
      /\ list = <<>> => o.list = <<>>
  <2>1. CASE m.state = "Seeking"
    <3> DEFINE c == SeekCut(m, t, list)
    <3>1. /\ c = [list |-> c.list, m |-> c.m]
          /\ c.list \in Seq(Sample) /\ Cut(c.list, list)
          /\ c.m \in Media /\ Trimmed(m, c.m) /\ c.m.state = m.state
          /\ list = <<>> => c.list = <<>>
      BY SeekCutIn
    <3>2. o = [c EXCEPT !.m = QueueSetPos(@, t)]
      BY <2>1
    <3> HIDE DEF c, o
    <3>3. o.list = c.list /\ o.m = QueueSetPos(c.m, t)
      BY <3>1, <3>2
    <3>4. Trimmed(c.m, o.m) /\ o.m.state = m.state
      BY <3>1, <3>3, QueueSetPosIn
    <3>5. Trimmed(m, o.m)
      BY <3>1, <3>4, TrimmedTwice
    <3> QED BY <3>1, <3>3, <3>4, <3>5 DEF Trimmed
  <2>2. CASE m.state # "Seeking"
    <3>1. o.list = list /\ o.m = m
      BY <2>2
    <3> HIDE DEF o
    <3>2. Trimmed(m, m) /\ Cut(list, list)
      BY SameTracks, CutSame
    <3> QED BY <3>1, <3>2
  <2> QED BY <2>1, <2>2
<1>3. m.state # "Seeking" => o.list = list /\ o.m = m
  OBVIOUS
<1> HIDE DEF o
<1>4. refused \in BOOLEAN
  OBVIOUS
<1> HIDE DEF refused
<1>5. /\ after \in Media /\ after.state = m.state
      /\ after.style = m.style /\ after.limit = m.limit
      /\ Unended(list) =>
           \A u \in Track : Unended(Queue(m, u)) => Unended(Queue(after, u))
      /\ \A u \in Track \ {t} : Replaces(Queue(after, u), Queue(m, u))
      /\ left \in Seq(Sample)
      /\ Replaces(Cat(Queue(after, t), left), Cat(Queue(m, t), list))
  <2>0. /\ Queue(m, t) \in Seq(Sample) /\ Queue(o.m, t) \in Seq(Sample) /\ <<>> \in Seq(Sample)
        /\ Replaces(Cat(Queue(o.m, t), o.list), Cat(Queue(m, t), list))
        /\ \A u \in Track : Replaces(Queue(o.m, u), Queue(m, u))
    <3>1. Queue(m, t) \in Seq(Sample) /\ Queue(o.m, t) \in Seq(Sample) /\ <<>> \in Seq(Sample)
      BY <1>2, MediaParts
    <3>2. \A u \in Track : Replaces(Queue(o.m, u), Queue(m, u))
      BY <1>2 DEF Trimmed, Cut
    <3> QED BY <1>2, <3>1, <3>2, ReplacesBoth DEF Cut
  <2>1. CASE o.list = <<>> \/ refused
    <3>1. after = o.m /\ left = o.list
      BY <2>1
    <3> HIDE DEF after, left
    <3>2. Unended(list) =>
            \A u \in Track : Unended(Queue(m, u)) => Unended(Queue(after, u))
      BY <1>2, <3>1 DEF Trimmed, Cut, Within
    <3> QED BY <1>2, <2>0, <3>1, <3>2 DEF Trimmed
  <2>2. CASE ~(o.list = <<>> \/ refused)
    <3>1. after = Spliced(o.m, t, o.list) /\ o.list # <<>> /\ left = <<>>
      BY <2>2
    <3> HIDE DEF after, left
    <3>2. OnlyTrack(o.m, after, t) /\ Queue(after, t) = Queue(o.m, t) \o o.list
      BY <1>2, <3>1, SplicedIn
    <3>3. /\ after \in Media /\ after.state = m.state
          /\ after.style = m.style /\ after.limit = m.limit
      BY <1>2, <3>2 DEF OnlyTrack, SameGate, Trimmed
    <3>4. ASSUME Unended(list), NEW u \in Track, Unended(Queue(m, u))
          PROVE  Unended(Queue(after, u))
      <4>1. Unended(Queue(o.m, u)) /\ Unended(o.list)
        BY <1>2, <3>4 DEF Trimmed, Cut, Within
      <4>2. Queue(o.m, t) \in Seq(Sample)
        BY <1>2, MediaParts
      <4>3. CASE u = t
        BY <1>2, <3>2, <4>1, <4>2, <4>3, Joined
      <4>4. CASE u # t
        BY <3>2, <4>1, <4>4 DEF OnlyTrack, Queue
      <4> QED BY <4>3, <4>4
    <3>5. \A u \in Track \ {t} : Queue(after, u) = Queue(o.m, u)
      BY <3>2 DEF OnlyTrack, Queue
    <3>6. Cat(Queue(after, t), left) = Cat(Queue(o.m, t), o.list)
      <4>1. Queue(after, t) \in Seq(Sample)
        BY <3>3, MediaParts
      <4>2. Cat(Queue(after, t), left) = Queue(after, t)
        BY <3>1, <4>1, CatEmpty
      <4> QED BY <3>2, <4>2 DEF Cat
    <3> QED BY <2>0, <3>1, <3>3, <3>4, <3>5, <3>6
  <2> QED BY <2>1, <2>2
<1>6. /\ Trimmed(after, x) /\ (m.state # "Seeking" => x = after)
      /\ m.state = "Seeking" => x.state \in {"Seeking", "Starting"}
  <2> HIDE DEF after
  <2> QED BY <1>4, <1>5, SeekProgressIn
<1>7. x \in Media /\ x.style = m.style /\ x.limit = m.limit
  <2> HIDE DEF x, after
  <2> QED BY <1>5, <1>6 DEF Trimmed
<1> DEFINE n == On(x)
<1>8. n \in Media /\ n.style = m.style /\ n.limit = m.limit /\ n.track = x.track
  <2> HIDE DEF x
  <2>1. n \in Media /\ Trimmed(x, n) /\ n.track = x.track
    BY <1>7, OnIn
  <2> HIDE DEF n
  <2> QED BY <1>7, <2>1 DEF Trimmed
<1>9. Unended(list) => \A u \in Track : Unended(Queue(m, u)) => Unended(Queue(n, u))
  <2> HIDE DEF x, n, after
  <2> QED BY <1>5, <1>6, <1>8 DEF Trimmed, Cut, Within, Queue
<1>10. left \in Seq(Sample) /\ Within(left, list)
  <2>1. Within(<<>>, list) /\ <<>> \in Seq(Sample)
    BY DEF Within, Unended, EndsOnce, Frameless
  <2> QED BY <1>2, <2>1 DEF Cut
<1>11. m.state # "Seeking" =>
         /\ refused = (list # <<>> /\ ~Admits(m, t, list, Forced(m, t)))
         /\ n = On(IF list = <<>> \/ refused THEN m ELSE Spliced(m, t, list))
  <2> HAVE m.state # "Seeking"
  <2>1. refused = (list # <<>> /\ ~Admits(m, t, list, Forced(m, t)))
    BY <1>3 DEF refused
  <2>2. x = after
    <3> HIDE DEF x, after
    <3> QED BY <1>6
  <2>3. after = IF list = <<>> \/ refused THEN m ELSE Spliced(m, t, list)
    BY <1>3
  <2> QED BY <2>1, <2>2, <2>3
<1>12. list = <<>> => left = <<>>
  BY <1>2 DEF left
<1>13. ~refused => left = <<>>
  BY DEF left
<1>14. /\ \A u \in Track \ {t} : Replaces(Queue(n, u), Queue(m, u))
       /\ Replaces(Cat(Queue(n, t), left), Cat(Queue(m, t), list))
  <2> HIDE DEF left, x, n, after
  <2>1. \A u \in Track : Queue(n, u) = Queue(x, u) /\ Replaces(Queue(x, u), Queue(after, u))
    BY <1>6, <1>8 DEF Trimmed, Cut, Queue
  <2>2. /\ Queue(x, t) \in Seq(Sample) /\ Queue(after, t) \in Seq(Sample)
        /\ left \in Seq(Sample) /\ Replaces(left, left)
    BY <1>5, <1>7, MediaParts DEF Replaces
  <2>3. Replaces(Cat(Queue(x, t), left), Cat(Queue(after, t), left))
    BY <2>1, <2>2, ReplacesBoth
  <2>4. Replaces(Cat(Queue(x, t), left), Cat(Queue(m, t), list))
    BY <1>5, <2>3, ReplacesTwice
  <2>5. \A u \in Track \ {t} : Replaces(Queue(x, u), Queue(m, u))
    BY <1>5, <2>1, ReplacesTwice
  <2> QED BY <2>1, <2>4, <2>5
<1> HIDE DEF left, x, n
<1> DEFINE r == PutSamplesResult(m, t, list)
<1>15. r.m = n /\ r.list = left /\ r.refused = refused
  BY <1>1 DEF n
<1> HIDE DEF r
<1>16. m.state = "Seeking" =>
         \E y \in Media : /\ r.m = On(y) /\ y.state \in {"Seeking", "Starting"}
                          /\ y.style = m.style /\ y.limit = m.limit
  BY <1>6, <1>7, <1>15 DEF n
<1> QED BY <1>4, <1>8, <1>9, <1>10, <1>11, <1>12, <1>13, <1>14, <1>15, <1>16 DEF r

\* What a pending seek has video wait for is let in, also after the cut.
LEMMA VideoSought ==
  ASSUME NEW m \in Media, NEW list \in Seq(Sample), m.state = "Seeking",
         Duration(m, "video") < m.limit.buffering
  PROVE  PutSamplesResult(m, "video", list).refused = FALSE
<1> DEFINE c == SeekCut(m, "video", list)
           n == VideoSetPos(c.m)
           o == [c EXCEPT !.m = QueueSetPos(@, "video")]
<1>1. "video" \in Track
  BY DEF Track
<1>2. /\ c = [list |-> c.list, m |-> c.m] /\ c.m \in Media
      /\ c.m.track = m.track /\ c.m.state = m.state /\ c.m.limit = m.limit
  BY <1>1, SeekCutIn DEF Trimmed
<1> HIDE DEF c
<1>3. /\ n \in Media /\ n.state = "Seeking" /\ n.limit = m.limit
      /\ Len(Queue(n, "video")) <= Len(Queue(m, "video"))
  BY <1>2, VideoSetPosIn DEF Trimmed, Queue
<1>4. Duration(n, "video") < m.limit.buffering
  <2>1. Duration(n, "video") <= Duration(m, "video")
    BY <1>3, VideoGrows
  <2>2. Duration(n, "video") \in Nat /\ Duration(m, "video") \in Nat /\ m.limit.buffering \in Nat
    BY <1>1, <1>3, MediaParts
  <2> QED BY <2>1, <2>2
<1>5. o.m = n
  BY <1>2 DEF QueueSetPos
<1> HIDE DEF n
<1>6. Forced(o.m, "video")
  BY <1>3, <1>4, <1>5 DEF Forced
<1>7. PutSamplesResult(m, "video", list).refused
        = (o.list # <<>> /\ ~Admits(o.m, "video", o.list, Forced(o.m, "video")))
  BY DEF PutSamplesResult, c
<1> QED BY <1>6, <1>7 DEF Admits

\* A sample may move a pending seek's point, trim the queues, start the buffer.
LEMMA SeekSampleIn ==
  ASSUME NEW m \in Media, NEW t \in Track, NEW s \in Sample, NEW refused \in BOOLEAN
  PROVE  LET n == SeekSample(m, t, s, refused)
         IN  /\ Trimmed(m, n)
             /\ m.state # "Seeking" => n = m
             /\ m.state = "Seeking" => n.state \in {"Seeking", "Starting"}
<1> DEFINE n == SeekSample(m, t, s, refused)
           atKey   == [m EXCEPT !.actual = s.time]
           started == WillAvailable(m, "audio") => AudioReached(m)
           sought  == [m EXCEPT !.sought = TRUE]
           both    == AudioSetPos(VideoSetPos(atKey))
           moved   == [AudioSetPos(m) EXCEPT
                         !.state = IF ~VideoPending(m) /\ started THEN "Starting" ELSE @]
<1>1. n = m \/ (m.state = "Seeking" /\ n \in {sought, both, moved})
  <2> HIDE DEF moved, sought, both
  <2> QED BY DEF SeekSample, moved, sought, both
<1>2. m.state # "Seeking" => n = m
  BY DEF SeekSample
<1>3. sought \in Media /\ sought.track = m.track /\ sought.state = m.state
      /\ sought.style = m.style /\ sought.limit = m.limit
  BY DEF Media
<1>4. Trimmed(m, sought) /\ Trimmed(m, m)
  <2> HIDE DEF sought
  <2> QED BY <1>3, SameTracks
<1>5. Trimmed(m, moved) /\ moved.state \in {m.state, "Starting"}
  <2> DEFINE a == AudioSetPos(m)
  <2>1. Trimmed(m, a) /\ a.state = m.state /\ a \in Media
    BY AudioSetPosIn DEF Trimmed
  <2> HIDE DEF a, started
  <2>2. /\ moved \in Media /\ moved.track = a.track /\ moved.style = a.style
        /\ moved.limit = a.limit /\ moved.state \in {a.state, "Starting"}
    BY <2>1 DEF Media, BufferState, a
  <2> HIDE DEF moved
  <2>3. Trimmed(a, moved)
    BY <2>2, SameTracks
  <2> QED BY <2>1, <2>2, <2>3, TrimmedTwice
<1>6. Trimmed(m, both) /\ both.state = m.state
  <2>1. /\ atKey \in Media /\ atKey.track = m.track /\ atKey.state = m.state
        /\ atKey.style = m.style /\ atKey.limit = m.limit
    BY DEF Media, Sample
  <2> HIDE DEF atKey
  <2>2. Trimmed(m, atKey)
    BY <2>1, SameTracks
  <2> DEFINE v == VideoSetPos(atKey)
  <2>3. Trimmed(atKey, v) /\ v.state = m.state /\ v \in Media
    BY <2>1, VideoSetPosIn DEF Trimmed
  <2> HIDE DEF v
  <2>4. Trimmed(v, both) /\ both.state = m.state
    BY <2>3, AudioSetPosIn DEF v
  <2> HIDE DEF both
  <2> QED BY <2>2, <2>3, <2>4, TrimmedTwice
<1> HIDE DEF n, moved, sought, both
<1> QED BY <1>1, <1>2, <1>3, <1>4, <1>5, <1>6 DEF n

\* The end-of-stream marker is no frame.
LEMMA EosKind ==
  ASSUME NEW s \in Sample, s.flags = {"eos"}
  PROVE  Kind(s) = "eos"
<1>1. 4 \in DOMAIN Priority /\ Priority[4] = "eos"
  BY DEF Priority
<1>2. \A i \in DOMAIN Priority : Has(s, Priority[i]) <=> i = 4
  BY DEF Priority, Has
<1> QED BY <1>1, <1>2, KindOfMarker

\* The marker goes in unless the track is full; a seek may trim the queues.
LEMMA PutSampleIn ==
  ASSUME NEW m \in Media, NEW t \in Track, NEW s \in Sample, s.flags = {"eos"}
  PROVE  LET r == PutSampleResult(m, t, s)
         IN  /\ r.refused = (t # "subtitle" /\ Duration(m, t) >= m.limit.max)
             /\ r.m.style = m.style /\ r.m.limit = m.limit /\ r.m \in Media
             /\ \A u \in Track : /\ EndsOnce(Queue(m, u)) => EndsOnce(Queue(r.m, u))
                                 /\ Frameless(Queue(m, u)) => Frameless(Queue(r.m, u))
                                 /\ \A z \in Seq(Sample) : Introduced(Cat(z, Queue(m, u))) =>
                                                           Introduced(Cat(z, Queue(r.m, u)))
             /\ m.state # "Seeking" =>
                  r.m = On(IF r.refused THEN m ELSE AppendOne(m, t, s))
             /\ m.state = "Seeking" =>
                  \E x \in Media : /\ r.m = On(x) /\ x.state \in {"Seeking", "Starting"}
                                   /\ x.style = m.style /\ x.limit = m.limit
<1> DEFINE refused == t # "subtitle" /\ Duration(m, t) >= m.limit.max
           after   == IF refused THEN m ELSE AppendOne(m, t, s)
           x       == SeekSample(after, t, s, refused)
           n       == On(x)
           r       == PutSampleResult(m, t, s)
<1>1. r.m = n /\ r.refused = refused /\ refused \in BOOLEAN
  BY DEF PutSampleResult
<1> HIDE DEF r
<1>2. /\ after \in Media /\ after.state = m.state
      /\ after.style = m.style /\ after.limit = m.limit
      /\ \A u \in Track : /\ EndsOnce(Queue(m, u)) => EndsOnce(Queue(after, u))
                          /\ Frameless(Queue(m, u)) => Frameless(Queue(after, u))
                          /\ \A z \in Seq(Sample) : Introduced(Cat(z, Queue(m, u))) =>
                                                    Introduced(Cat(z, Queue(after, u)))
  <2>1. CASE refused
    BY <2>1
  <2>2. CASE ~refused
    <3>1. after = AppendOne(m, t, s)
      BY <2>2
    <3> HIDE DEF after
    <3>2. OnlyTrack(m, after, t) /\ Queue(after, t) = Append(Queue(m, t), s)
      BY <3>1, AppendOneIn
    <3>3. Kind(s) # "frame" /\ Queue(m, t) \in Seq(Sample)
      BY EosKind, MediaParts
    <3>4. /\ EndsOnce(Queue(m, t)) => EndsOnce(Queue(after, t))
          /\ Frameless(Queue(m, t)) => Frameless(Queue(after, t))
      BY <3>2, <3>3, AppendedMarker
    <3>6. \A z \in Seq(Sample) : Introduced(Cat(z, Queue(m, t))) =>
                                 Introduced(Cat(z, Queue(after, t)))
      BY <3>2, <3>3, MarkerLast
    <3>5. \A u \in Track \ {t} : Queue(after, u) = Queue(m, u)
      BY <3>2 DEF OnlyTrack, Queue
    <3> QED BY <3>2, <3>4, <3>5, <3>6 DEF OnlyTrack, SameGate
  <2> QED BY <2>1, <2>2
<1> HIDE DEF refused, after
<1>3. /\ Trimmed(after, x) /\ (m.state # "Seeking" => x = after)
      /\ m.state = "Seeking" => x.state \in {"Seeking", "Starting"}
  BY <1>1, <1>2, SeekSampleIn
<1> HIDE DEF x
<1>4. x \in Media /\ x.style = m.style /\ x.limit = m.limit
  BY <1>2, <1>3 DEF Trimmed
<1>5. n \in Media /\ n.style = m.style /\ n.limit = m.limit /\ n.track = x.track
  <2>1. n \in Media /\ Trimmed(x, n) /\ n.track = x.track
    BY <1>4, OnIn
  <2> HIDE DEF n
  <2> QED BY <1>4, <2>1 DEF Trimmed
<1>6. \A u \in Track : /\ EndsOnce(Queue(m, u)) => EndsOnce(Queue(n, u))
                       /\ Frameless(Queue(m, u)) => Frameless(Queue(n, u))
  <2> HIDE DEF n
  <2> QED BY <1>2, <1>3, <1>5 DEF Trimmed, Cut, Within, Queue
<1>7. \A u \in Track : \A z \in Seq(Sample) : Introduced(Cat(z, Queue(m, u))) =>
                                              Introduced(Cat(z, Queue(n, u)))
  <2> HIDE DEF n
  <2>1. \A u \in Track : /\ Queue(after, u) \in Seq(Sample) /\ Queue(n, u) \in Seq(Sample)
                         /\ Replaces(Queue(n, u), Queue(after, u))
    BY <1>2, <1>3, <1>5, MediaParts DEF Trimmed, Cut, Queue
  <2>2. \A u \in Track : \A z \in Seq(Sample) : Introduced(Cat(z, Queue(after, u))) =>
                                                Introduced(Cat(z, Queue(n, u)))
    BY <2>1, ReplacesAlone
  <2> QED BY <1>2, <2>2
<1>8. m.state # "Seeking" => r.m = On(IF r.refused THEN m ELSE AppendOne(m, t, s))
  BY <1>1, <1>3 DEF n, after
<1>9. m.state = "Seeking" =>
        \E y \in Media : /\ r.m = On(y) /\ y.state \in {"Seeking", "Starting"}
                         /\ y.style = m.style /\ y.limit = m.limit
  BY <1>1, <1>3, <1>4 DEF n
<1> HIDE DEF n
<1> QED BY <1>1, <1>5, <1>6, <1>7, <1>8, <1>9 DEF r, refused

-----------------------------------------------------------------------------
(* Getting samples *)

\* A marked frame stays a sample of its kind and encoding.
LEMMA MarkLateIn ==
  ASSUME NEW m \in Media, NEW want \in Nat
  PROVE  LET n == MarkLate(m, want)
         IN  /\ OnlyTrack(m, n, "video") /\ Len(Queue(n, "video")) = Len(Queue(m, "video"))
             /\ Within(Queue(n, "video"), Queue(m, "video"))
             /\ \A i \in 1..Len(Queue(m, "video")) :
                  /\ Kind(Queue(n, "video")[i]) = Kind(Queue(m, "video")[i])
                  /\ Queue(n, "video")[i].fmt = Queue(m, "video")[i].fmt
             /\ WillAvailable(n, "video") = WillAvailable(m, "video")
<1> DEFINE q == Queue(m, "video")
           p == IF want > 0 /\ q[1].time + Late < want THEN NextKeyFrame(q, want) ELSE 0
           a == [i \in DOMAIN q |-> IF i < p THEN [q[i] EXCEPT !.flags = @ \cup {"drop"}]
                                             ELSE q[i]]
           b == [m.track["video"] EXCEPT !.q = a]
           n == MarkLate(m, want)
<1>1. "video" \in Track
  BY DEF Track
<1>2. q \in Seq(Sample) /\ m.track["video"] \in TrackBuffer
  BY <1>1, MediaParts
<1>3. Len(q) \in Nat /\ DOMAIN q = 1..Len(q)
  BY <1>2
<1>4. ASSUME NEW s \in Sample
      PROVE  LET r == [s EXCEPT !.flags = @ \cup {"drop"}]
             IN  r \in Sample /\ Kind(r) = Kind(s) /\ r.fmt = s.fmt
  <2> DEFINE r == [s EXCEPT !.flags = @ \cup {"drop"}]
  <2>1. r \in Sample /\ r.flags = s.flags \cup {"drop"} /\ r.fmt = s.fmt
    BY DEF Sample, Flag
  <2> HIDE DEF r
  <2>2. \A i \in DOMAIN Priority : Has(r, Priority[i]) <=> Has(s, Priority[i])
    BY <2>1 DEF Priority, Has
  <2>3. Kind(r) = Kind(s)
    BY <2>2, SameKind
  <2> QED BY <2>1, <2>3 DEF r
<1> HIDE DEF p
<1>5. \A i \in 1..Len(q) : a[i] \in Sample /\ Kind(a[i]) = Kind(q[i]) /\ a[i].fmt = q[i].fmt
  <2> SUFFICES ASSUME NEW i \in 1..Len(q)
               PROVE  a[i] \in Sample /\ Kind(a[i]) = Kind(q[i]) /\ a[i].fmt = q[i].fmt
    OBVIOUS
  <2>1. q[i] \in Sample
    BY <1>2, <1>3
  <2>2. a[i] = q[i] \/ a[i] = [q[i] EXCEPT !.flags = @ \cup {"drop"}]
    BY <1>3
  <2> HIDE DEF a, q
  <2> QED BY <2>1, <2>2, <1>4
<1>6. a \in Seq(Sample) /\ Len(a) = Len(q)
  <2>1. a \in [1..Len(q) -> Sample]
    BY <1>3, <1>5
  <2> HIDE DEF a, q
  <2> QED BY <1>3, <2>1
<1>7. Within(a, q)
  <2> HIDE DEF a, q
  <2> QED BY <1>2, <1>5, <1>6, SameKinds
<1>8. n = [m EXCEPT !.track["video"] = b]
  <2>1. n = [m EXCEPT !.track["video"].q = a]
    BY DEF MarkLate, p
  <2>2. m.track \in [Track -> TrackBuffer]
    BY <1>1, MediaParts
  <2> HIDE DEF n, a
  <2> QED BY <1>1, <2>1, <2>2 DEF Media
<1> HIDE DEF a
<1>9. b \in TrackBuffer /\ b.q = a /\ b.use = m.track["video"].use
  <2>1. a = <<>> => q = <<>>
    <3> HIDE DEF q
    <3>1. (a = <<>> <=> Len(a) = 0) /\ (q = <<>> <=> Len(q) = 0)
      BY <1>2, <1>6, EmptySeq
    <3> QED BY <1>6, <3>1
  <2> QED BY <1>2, <1>6, <2>1 DEF TrackBuffer, Queue
<1> HIDE DEF b, n
<1>10. /\ n \in Media /\ n.track["video"] = b /\ SameGate(m, n)
       /\ \A u \in Track \ {"video"} : n.track[u] = m.track[u]
  BY <1>1, <1>8, <1>9, TrackPut
<1>11. Queue(n, "video") = a /\ WillAvailable(n, "video") = WillAvailable(m, "video")
  BY <1>9, <1>10 DEF Queue, WillAvailable
<1> HIDE DEF q
<1> QED BY <1>5, <1>6, <1>7, <1>10, <1>11 DEF OnlyTrack, n, q

LEMMA DueIn ==
  ASSUME NEW q \in Seq(Sample), NEW want \in Nat
  PROVE  Due(q, want) \in Nat /\ Due(q, want) <= Len(q)
<1> DEFINE later == {i \in DOMAIN q : q[i].time > want}
<1>1. Len(q) \in Nat /\ DOMAIN q = 1..Len(q) /\ (q # <<>> => Len(q) >= 1)
  OBVIOUS
<1>2. later # {} => Min(later) \in 1..Len(q)
  <2>1. later \subseteq 1..Len(q) /\ later \subseteq Nat
    BY <1>1
  <2> HIDE DEF later
  <2>2. later # {} => Min(later) \in later
    BY <2>1, MinIn
  <2> QED BY <2>1, <2>2
<1> HIDE DEF later
<1>3. CASE q = <<>>
  <2>1. Due(q, want) = 0
    BY <1>3 DEF Due
  <2> QED BY <1>1, <2>1
<1>4. CASE q # <<>>
  <2>1. Due(q, want) \in {0, 1, Len(q)} \/ (later # {} /\ Due(q, want) = Min(later) - 1)
    BY DEF Due, later
  <2> QED BY <1>1, <1>2, <1>4, <2>1
<1> QED BY <1>3, <1>4

-----------------------------------------------------------------------------
(* Several samples that go out *)

\* Emptying one track twice touches no other.
LEMMA OnlyTwice ==
  ASSUME NEW m, NEW n, NEW o, NEW t, OnlyTrack(m, n, t), OnlyTrack(n, o, t)
  PROVE  OnlyTrack(m, o, t)
  BY DEF OnlyTrack, SameGate

\* The results of up to n samples, each from the one before
Pops(m, t, n, f) == [k \in 0..n |-> IF k = 0 THEN m ELSE Pop(f[k - 1], t)]

LEMMA PoppedIn ==
  ASSUME NEW m \in Media, NEW t \in Track, NEW n \in Nat, n <= Len(Queue(m, t)),
         NEW f, f = Pops(m, t, n, f)
  PROVE  \A k \in 0..n : OnlyTrack(m, f[k], t) /\ Len(Queue(f[k], t)) = Len(Queue(m, t)) - k
<1> DEFINE Holds(k) == OnlyTrack(m, f[k], t) /\ Len(Queue(f[k], t)) = Len(Queue(m, t)) - k
           Bad == {k \in 0..n : ~Holds(k)}
<1> SUFFICES ASSUME Bad # {} PROVE FALSE
  OBVIOUS
<1>1. Bad \subseteq Nat
  OBVIOUS
<1> HIDE DEF Bad
<1>2. PICK k \in Bad : \A j \in Bad : k <= j
  BY <1>1, Least
<1>3. k \in 0..n /\ ~Holds(k)
  BY <1>2 DEF Bad
<1>4. Queue(m, t) \in Seq(Sample)
  BY MediaParts
<1>5. Len(Queue(m, t)) \in Nat
  BY <1>4
<1>6. k # 0
  <2> SUFFICES ASSUME k = 0 PROVE FALSE
    OBVIOUS
  <2>1. f[0] = m
    <3>1. 0 \in 0..n
      OBVIOUS
    <3> QED BY <3>1 DEF Pops
  <2>2. Holds(0)
    BY <1>5, <2>1 DEF OnlyTrack, SameGate
  <2> QED BY <1>3, <2>2
<1>7. k - 1 \in 0..n /\ k - 1 < k
  BY <1>3, <1>6
<1>8. Holds(k - 1)
  <2>1. k - 1 \notin Bad
    <3>1. k \in Nat /\ k - 1 \in Nat
      BY <1>3, <1>7
    <3> HIDE DEF Holds
    <3> QED BY <1>2, <1>7, <3>1
  <2> QED BY <1>7, <2>1 DEF Bad
<1>9. f[k] = Pop(f[k - 1], t)
  BY <1>3, <1>6 DEF Pops
<1>10. f[k - 1] \in Media /\ Queue(f[k - 1], t) \in Seq(Sample)
       /\ Len(Queue(f[k - 1], t)) >= 1
  <2>1. f[k - 1] \in Media
    BY <1>8 DEF OnlyTrack
  <2>2. Queue(f[k - 1], t) \in Seq(Sample)
    BY <2>1, MediaParts
  <2>3. Len(Queue(f[k - 1], t)) = Len(Queue(m, t)) - (k - 1)
    BY <1>8
  <2> HIDE DEF Holds
  <2> QED BY <1>3, <1>5, <1>6, <2>1, <2>2, <2>3
<1>11. Queue(f[k - 1], t) # <<>>
  <2> HIDE DEF Holds
  <2> QED BY <1>10
<1>12. OnlyTrack(f[k - 1], f[k], t) /\ Queue(f[k], t) = Tail(Queue(f[k - 1], t))
  BY <1>9, <1>10, <1>11, PopIn
<1>13. Len(Queue(f[k], t)) = Len(Queue(m, t)) - k
  <2>1. Len(Tail(Queue(f[k - 1], t))) = Len(Queue(f[k - 1], t)) - 1
    BY <1>10, <1>11, TailWithin
  <2>2. Len(Queue(f[k - 1], t)) = Len(Queue(m, t)) - (k - 1)
    BY <1>8
  <2> HIDE DEF Holds
  <2> QED BY <1>3, <1>5, <1>12, <2>1, <2>2
<1>14. OnlyTrack(m, f[k], t)
  BY <1>8, <1>12, OnlyTwice
<1> QED BY <1>3, <1>13, <1>14

\* There is a result after any number of samples.
LEMMA Poppable ==
  ASSUME NEW m, NEW t, NEW n \in Nat
  PROVE  \E f : f = Pops(m, t, n, f)
<1> USE DEF Pops
<1> DEFINE Has0(i) == \E f : f = [k \in 0..i |-> IF k = 0 THEN m ELSE Pop(f[k - 1], t)]
           Bad == {i \in Nat : ~Has0(i)}
<1> SUFFICES ASSUME Bad # {} PROVE FALSE
  OBVIOUS
<1>1. Bad \subseteq Nat
  OBVIOUS
<1> HIDE DEF Bad
<1>2. PICK i \in Bad : \A j \in Bad : i <= j
  BY <1>1, Least
<1>3. i \in Nat /\ ~Has0(i)
  BY <1>2 DEF Bad
<1>4. CASE i = 0
  <2> DEFINE f == [k \in 0..0 |-> m]
  <2>1. f = [k \in 0..0 |-> IF k = 0 THEN m ELSE Pop(f[k - 1], t)]
    OBVIOUS
  <2> HIDE DEF f
  <2>2. Has0(0)
    BY <2>1
  <2> QED BY <1>3, <1>4, <2>2
<1>5. CASE i # 0
  <2>1. i - 1 \in Nat /\ i - 1 < i
    BY <1>3, <1>5
  <2>2. i - 1 \notin Bad
    BY <1>2, <2>1, <1>3
  <2>3. Has0(i - 1)
    BY <2>1, <2>2 DEF Bad
  <2>4. PICK g : g = [k \in 0..(i - 1) |-> IF k = 0 THEN m ELSE Pop(g[k - 1], t)]
    BY <2>3
  <2> DEFINE f == [k \in 0..i |-> IF k = i THEN Pop(g[k - 1], t) ELSE g[k]]
  <2>5. \A k \in 0..(i - 1) : f[k] = g[k]
    BY <1>3
  <2>6. \A k \in 0..i : f[k] = IF k = 0 THEN m ELSE Pop(f[k - 1], t)
    <3> SUFFICES ASSUME NEW k \in 0..i
                 PROVE  f[k] = IF k = 0 THEN m ELSE Pop(f[k - 1], t)
      OBVIOUS
    <3>1. CASE k = i
      <4>1. k # 0 /\ k - 1 \in 0..(i - 1) /\ f[k] = Pop(g[k - 1], t)
        BY <1>3, <1>5, <3>1
      <4>2. f[k - 1] = g[k - 1]
        BY <2>5, <4>1
      <4> HIDE DEF f
      <4> QED BY <4>1, <4>2
    <3>2. CASE k # i
      <4>1. k \in 0..(i - 1) /\ (k # 0 => k - 1 \in 0..(i - 1))
        BY <1>3, <3>2
      <4>2. f[k] = g[k] /\ (k # 0 => f[k - 1] = g[k - 1])
        BY <2>5, <4>1
      <4>3. g[k] = IF k = 0 THEN m ELSE Pop(g[k - 1], t)
        BY <2>4, <4>1
      <4> HIDE DEF f
      <4> QED BY <4>2, <4>3
    <3> QED BY <3>1, <3>2
  <2>7. f = [k \in 0..i |-> IF k = 0 THEN m ELSE Pop(f[k - 1], t)]
    <3>1. f = [k \in 0..i |-> f[k]]
      OBVIOUS
    <3> HIDE DEF f
    <3> QED BY <2>6, <3>1
  <2> HIDE DEF f
  <2>8. Has0(i)
    BY <2>7
  <2> QED BY <1>3, <2>8
<1> QED BY <1>4, <1>5

\* GetSample: nothing, the gate closed on an empty track, or samples of this track
\* only, on audio and video at most one and no more than the gate lets out.
LEMMA GetSampleIn ==
  ASSUME NEW m \in Media, NEW t \in Track, NEW want \in Nat
  PROVE  LET r == GetSampleResult(m, t, want)
             q == Queue(m, t)
         IN  /\ r.m \in Media /\ r.m.limit = m.limit /\ r.m.style = m.style
             /\ \/ r.m = m /\ r.taken = <<>>
                \/ /\ r.m = Off(m, t) /\ r.taken = <<>>
                   /\ t # "subtitle" => m.state = "Running" /\ Duration(m, t) = 0
                \/ t = "subtitle" /\ OnlyTrack(m, r.m, t)
                \/ /\ t # "subtitle" /\ OnlyTrack(m, r.m, t)
                   /\ m.state = "Running" \/ t = "audio"
                   /\ WillAvailable(r.m, t) = WillAvailable(m, t)
                   /\ Duration(r.m, t) <= Duration(m, t)
                   /\ q # <<>> /\ r.taken \in Seq(Sample) /\ Len(r.taken) = 1
                   /\ Kind(r.taken[1]) = Kind(q[1]) /\ r.taken[1].fmt = q[1].fmt
                   /\ \A f \in Encoding :
                        LET g == IF Kind(q[1]) = "format" THEN q[1].fmt ELSE f
                        IN  /\ g \in Encoding
                            /\ Replaces(Cat(Marker(g), Queue(r.m, t)), Cat(Marker(f), q))
                   /\ Within(Queue(r.m, t), q)
                   /\ EndsOnce(q) /\ Kind(q[1]) = "eos" => Frameless(Queue(r.m, t))
<1> DEFINE q     == Queue(m, t)
           count == CASE t = "subtitle" -> Due(q, want)
                      [] t # "subtitle" /\ q = <<>> -> 0
                      [] OTHER -> 1
           m1    == IF t = "video" /\ count = 1 THEN MarkLate(m, want) ELSE m
           pop   == CHOOSE f : f = Pops(m1, t, count, f)
           r     == GetSampleResult(m, t, want)
           some  == [m |-> pop[count], taken |-> SubSeq(Queue(m1, t), 1, count)]
<1>1. r = CASE ~MayGet(m, t)              -> [m |-> m, taken |-> <<>>]
            [] MayGet(m, t) /\ count = 0  -> [m |-> Off(m, t), taken |-> <<>>]
            [] OTHER -> some
  BY DEF GetSampleResult, Pops
<1> HIDE DEF some, r
<1>2. q \in Seq(Sample) /\ Len(q) \in Nat /\ (q = <<>> <=> Len(q) = 0)
  <2>1. q \in Seq(Sample)
    BY MediaParts
  <2> HIDE DEF q
  <2> QED BY <2>1, EmptySeq
<1>3. t # "subtitle" => count = IF q = <<>> THEN 0 ELSE 1
  OBVIOUS
<1>4. t = "subtitle" => count = Due(q, want)
  OBVIOUS
<1> HIDE DEF count
<1>5. count \in Nat /\ count <= Len(q)
  <2>1. Due(q, want) \in Nat /\ Due(q, want) <= Len(q)
    BY <1>2, DueIn
  <2> HIDE DEF q
  <2> QED BY <1>2, <1>3, <1>4, <2>1
<1>6. CASE ~MayGet(m, t)
  <2>1. r = [m |-> m, taken |-> <<>>]
    BY <1>1, <1>6
  <2> QED BY <2>1 DEF r
<1>7. CASE MayGet(m, t) /\ count = 0
  <2>1. r = [m |-> Off(m, t), taken |-> <<>>]
    BY <1>1, <1>7
  <2>2. Off(m, t) \in Media /\ Off(m, t).limit = m.limit /\ Off(m, t).style = m.style
    BY OffIn DEF Trimmed
  <2>3. t # "subtitle" => m.state = "Running" /\ Duration(m, t) = 0
    <3> HAVE t # "subtitle"
    <3>1. Queue(m, t) = <<>>
      BY <1>3, <1>7
    <3>2. Duration(m, t) = 0
      BY <3>1, MediaParts
    <3> QED BY <1>7, <3>1, <3>2 DEF MayGet
  <2> QED BY <2>1, <2>2, <2>3 DEF r
<1>8. CASE MayGet(m, t) /\ count # 0
  <2>1. r.m = pop[count] /\ r.taken = SubSeq(Queue(m1, t), 1, count)
    BY <1>1, <1>8 DEF some
  <2> HIDE DEF pop
  <2>2. /\ OnlyTrack(m, m1, t) /\ Within(Queue(m1, t), q) /\ Len(Queue(m1, t)) = Len(q)
        /\ \A i \in 1..Len(q) : /\ Kind(Queue(m1, t)[i]) = Kind(q[i])
                                /\ Queue(m1, t)[i].fmt = q[i].fmt
        /\ WillAvailable(m1, t) = WillAvailable(m, t)
        /\ t # "video" => m1 = m
    <3>1. CASE t = "video" /\ count = 1
      <4>1. m1 = MarkLate(m, want)
        BY <3>1
      <4> HIDE DEF m1
      <4> QED BY <3>1, <4>1, MarkLateIn
    <3>2. CASE ~(t = "video" /\ count = 1)
      <4>1. m1 = m
        BY <3>2
      <4> HIDE DEF m1
      <4>2. Within(q, q) /\ OnlyTrack(m, m, t)
        BY DEF Within, OnlyTrack, SameGate
      <4> QED BY <4>1, <4>2
    <3> QED BY <3>1, <3>2
  <2> HIDE DEF m1
  <2>3. m1 \in Media /\ Queue(m1, t) \in Seq(Sample)
    <3>1. m1 \in Media
      BY <2>2 DEF OnlyTrack
    <3> QED BY <3>1, MediaParts
  <2>4. pop = Pops(m1, t, count, pop)
    <3>1. \E f : f = Pops(m1, t, count, f)
      BY <1>5, Poppable
    <3> QED BY <3>1 DEF pop
  <2>5. \A k \in 0..count : OnlyTrack(m1, pop[k], t)
    <3>1. count <= Len(Queue(m1, t))
      BY <1>5, <2>2
    <3> HIDE DEF q
    <3> QED BY <1>5, <2>3, <2>4, <3>1, PoppedIn
  <2>6. OnlyTrack(m, r.m, t)
    <3>1. OnlyTrack(m1, pop[count], t)
      BY <1>5, <2>5
    <3> QED BY <2>1, <2>2, <3>1, OnlyTwice
  <2>7. r.m \in Media /\ r.m.limit = m.limit /\ r.m.style = m.style
    BY <2>6 DEF OnlyTrack, SameGate
  <2>8. CASE t = "subtitle"
    BY <2>6, <2>7, <2>8 DEF r
  <2>9. CASE t # "subtitle"
    <3>1. count = 1 /\ q # <<>>
      BY <1>3, <1>8, <2>9
    <3>2. pop[1] = Pop(m1, t)
      <4>1. 0 \in 0..count /\ 1 \in 0..count
        BY <3>1
      <4> QED BY <2>4, <4>1 DEF Pops
    <3>3. r.m = Pop(m1, t)
      BY <2>1, <3>1, <3>2
    <3>4. Queue(m1, t) # <<>> /\ Len(Queue(m1, t)) >= 1
      <4>1. Queue(m1, t) = <<>> <=> Len(Queue(m1, t)) = 0
        BY <2>3, EmptySeq
      <4> HIDE DEF q
      <4> QED BY <1>2, <2>2, <3>1, <4>1
    <3>5. /\ Queue(r.m, t) = Tail(Queue(m1, t)) /\ Duration(r.m, t) <= Duration(m1, t)
          /\ WillAvailable(r.m, t) = WillAvailable(m1, t)
      BY <2>3, <3>3, <3>4, PopIn
    <3>6. Duration(m1, t) = Duration(m, t)
      BY <2>2 DEF Duration
    <3>7. /\ r.taken \in Seq(Sample) /\ Len(r.taken) = 1 /\ r.taken[1] = Queue(m1, t)[1]
      <4>1. r.taken = SubSeq(Queue(m1, t), 1, 1)
        BY <2>1, <3>1
      <4> QED BY <2>3, <3>4, <4>1
    <3>8. /\ Kind(r.taken[1]) = Kind(q[1]) /\ Kind(Queue(m1, t)[1]) = Kind(q[1])
          /\ r.taken[1].fmt = q[1].fmt /\ Queue(m1, t)[1].fmt = q[1].fmt
      <4>1. 1 \in 1..Len(q)
        BY <1>5, <3>1
      <4> QED BY <2>2, <3>7, <4>1
    <3>9. /\ Within(Queue(r.m, t), Queue(m1, t))
          /\ EndsOnce(Queue(m1, t)) /\ Kind(Queue(m1, t)[1]) = "eos" => Frameless(Queue(r.m, t))
      BY <2>3, <3>4, <3>5, TailWithin
    <3>10. Within(Queue(r.m, t), q)
      BY <2>2, <3>9 DEF Within
    <3>11. EndsOnce(q) /\ Kind(q[1]) = "eos" => Frameless(Queue(r.m, t))
      BY <2>2, <3>8, <3>9 DEF Within
    <3>12. m.state = "Running" \/ t = "audio"
      BY <1>8 DEF MayGet
    <3>13. Duration(r.m, t) <= Duration(m, t) /\ WillAvailable(r.m, t) = WillAvailable(m, t)
      BY <2>2, <3>5, <3>6
    <3>14. ASSUME NEW f \in Encoding
           PROVE  LET g == IF Kind(q[1]) = "format" THEN q[1].fmt ELSE f
                  IN  /\ g \in Encoding
                      /\ Replaces(Cat(Marker(g), Queue(r.m, t)), Cat(Marker(f), q))
      <4> HIDE DEF q
      <4> DEFINE p == Queue(m1, t)
                 g == IF Kind(q[1]) = "format" THEN q[1].fmt ELSE f
      <4>1. g = IF Kind(p[1]) = "format" THEN p[1].fmt ELSE f
        BY <3>8
      <4>2. p \in Seq(Sample) /\ p # <<>> /\ Replaces(p, q)
        BY <1>2, <2>2, <2>3, <3>4, AlikeReplaces
      <4> HIDE DEF p, g
      <4>3. g \in Encoding /\ Replaces(Cat(Marker(g), Tail(p)), Cat(Marker(f), p))
        BY <4>1, <4>2, PopReplaces
      <4>4. Marker(f) \in Seq(Sample) /\ Replaces(Marker(f), Marker(f))
        BY MarkerFormat DEF Replaces
      <4>5. Replaces(Cat(Marker(f), p), Cat(Marker(f), q))
        BY <1>2, <4>2, <4>4, ReplacesBoth
      <4>6. Replaces(Cat(Marker(g), Tail(p)), Cat(Marker(f), q))
        BY <4>3, <4>5, ReplacesTwice
      <4>7. Queue(r.m, t) = Tail(p)
        BY <3>5 DEF p
      <4> QED BY <4>3, <4>6, <4>7 DEF g
    <3> QED BY <2>6, <2>7, <2>9, <3>1, <3>7, <3>8, <3>10, <3>11, <3>12, <3>13, <3>14
            DEF r, q
  <2> QED BY <2>8, <2>9
<1> QED BY <1>6, <1>7, <1>8

-----------------------------------------------------------------------------
(* Emptying, and what a list brings in *)

LEMMA FlushedIn ==
  ASSUME NEW m \in Media
  PROVE  LET n == Flushed(m)
         IN  /\ n \in Media /\ n.style = m.style /\ n.limit = m.limit /\ n.state = "Starting"
             /\ \A t \in Track : Queue(n, t) = <<>> /\ Duration(n, t) = 0 /\ WillAvailable(n, t)
<1> DEFINE n == Flushed(m)
<1>1. EmptyTrack \in TrackBuffer
  BY DEF EmptyTrack, TrackBuffer
<1>2. /\ n \in Media /\ n.style = m.style /\ n.limit = m.limit /\ n.state = "Starting"
      /\ n.track = [t \in Track |-> EmptyTrack]
  BY <1>1 DEF Flushed, Media, BufferState
<1> HIDE DEF n
<1>3. \A t \in Track : Queue(n, t) = <<>> /\ WillAvailable(n, t)
  BY <1>2 DEF EmptyTrack, Queue, WillAvailable
<1>4. \A t \in Track : Duration(n, t) = 0
  BY <1>2, <1>3, MediaParts
<1> QED BY <1>2, <1>3, <1>4 DEF n

LEMMA SeekMarkedIn ==
  ASSUME NEW m \in Media, NEW point \in Nat
  PROVE  LET n == SeekMarked(m, point)
         IN  /\ n \in Media /\ n.style = m.style /\ n.limit = m.limit /\ n.state = "Seeking"
             /\ n.track = m.track
  BY DEF SeekMarked, Media, BufferState

\* The times of the first and the last sample that carries media
LEMMA BareTimesIn ==
  ASSUME NEW list \in Seq(Sample), BareTimes(list) # <<>>
  PROVE  BareTimes(list)[1] \in Nat /\ BareTimes(list)[2] \in Nat
<1> DEFINE at == {i \in DOMAIN list : Bare(list[i])}
<1>1. at # {} /\ BareTimes(list) = <<list[Min(at)].time, list[Max(at)].time>>
  BY DEF BareTimes
<1>2. at \subseteq 1..Len(list) /\ Len(list) \in Nat
  OBVIOUS
<1> HIDE DEF at
<1>3. IsFiniteSet(at) /\ at \subseteq Nat
  BY <1>2, Positions
<1>4. Min(at) \in 1..Len(list) /\ Max(at) \in 1..Len(list)
  BY <1>1, <1>2, <1>3, MinIn, MaxIn
<1>5. list[Min(at)].time \in Nat /\ list[Max(at)].time \in Nat
  BY <1>4 DEF Sample
<1> QED BY <1>1, <1>5

LEMMA HeardIn ==
  ASSUME NEW list \in Seq(Sample), lastAudio \in Nat
  PROVE  Heard(list) \in Nat
  BY BareTimesIn DEF Heard

\* What AddBuffers leaves of a list is a list with nothing new in it.
LEMMA WithoutHeardIn ==
  ASSUME NEW list \in Seq(Sample), lastAudio \in Nat
  PROVE  WithoutHeard(list) \in Seq(Sample) /\ Cut(WithoutHeard(list), list)
<1> DEFINE times  == BareTimes(list)
           before == IF lastAudio = 0 THEN 0 ELSE lastAudio - 1
           p      == Min(Unheard(list) \cup {Len(list) + 1})
           rest   == SetPosition(list, p)
           fresh  == IF Unheard(list) = {} /\ rest # <<>> /\ Has(rest[1], "format")
                     THEN [rest EXCEPT ![1].time = before] ELSE rest
<1>1. WithoutHeard(list) = IF times = <<>> \/ times[1] >= lastAudio THEN list ELSE fresh
  BY DEF WithoutHeard
<1>2. Len(list) \in Nat /\ DOMAIN list = 1..Len(list)
  OBVIOUS
<1>3. p \in 1..(Len(list) + 1)
  <2>1. Unheard(list) \subseteq 1..Len(list)
    BY <1>2 DEF Unheard
  <2>2. Unheard(list) \cup {Len(list) + 1} \subseteq 1..(Len(list) + 1)
    BY <1>2, <2>1
  <2>3. Unheard(list) \cup {Len(list) + 1} \subseteq Nat
        /\ Unheard(list) \cup {Len(list) + 1} # {}
    BY <2>2
  <2>4. p \in Unheard(list) \cup {Len(list) + 1}
    BY <2>3, MinIn
  <2> QED BY <2>2, <2>4
<1> HIDE DEF p
<1>4. rest \in Seq(Sample) /\ Cut(rest, list)
  BY <1>3, SetPositionIn, CutAt
<1> HIDE DEF rest
<1>5. before \in Nat
  OBVIOUS
<1> HIDE DEF before
<1>6. fresh \in Seq(Sample) /\ Cut(fresh, list)
  <2>1. CASE fresh = rest
    BY <1>4, <2>1
  <2>2. CASE fresh # rest
    <3>1. rest # <<>> /\ fresh = [rest EXCEPT ![1].time = before]
      BY <2>2
    <3> HIDE DEF fresh
    <3>2. 1 \in 1..Len(rest) /\ DOMAIN rest = 1..Len(rest) /\ Len(rest) \in Nat
      BY <1>4, <3>1
    <3> DEFINE s == [rest[1] EXCEPT !.time = before]
    <3>3. rest[1] \in Sample
      BY <1>4, <3>2
    <3>4. s \in Sample /\ s.flags = rest[1].flags /\ s.fmt = rest[1].fmt
      BY <1>5, <3>3 DEF Sample
    <3>5. fresh = [rest EXCEPT ![1] = s]
      BY <3>1, <3>2
    <3>6. Kind(s) = Kind(rest[1])
      <4> HIDE DEF s
      <4>1. \A i \in DOMAIN Priority : Has(s, Priority[i]) <=> Has(rest[1], Priority[i])
        BY <3>4 DEF Has
      <4> QED BY <4>1, SameKind
    <3> HIDE DEF s
    <3>7. /\ fresh \in Seq(Sample) /\ Len(fresh) = Len(rest)
          /\ \A i \in 1..Len(rest) : fresh[i] = IF i = 1 THEN s ELSE rest[i]
      BY <1>4, <3>2, <3>4, <3>5
    <3>8. \A i \in 1..Len(rest) : Kind(fresh[i]) = Kind(rest[i]) /\ fresh[i].fmt = rest[i].fmt
      BY <3>4, <3>6, <3>7
    <3>9. Cut(fresh, rest)
      BY <1>4, <3>7, <3>8, SameKinds, AlikeReplaces DEF Cut
    <3> QED BY <1>4, <3>7, <3>9, CutTwice
  <2> QED BY <2>1, <2>2
<1>7. Cut(list, list)
  BY CutSame
<1> HIDE DEF fresh, times
<1> QED BY <1>1, <1>6, <1>7

-----------------------------------------------------------------------------
(* The frames a cut leaves *)

\* Lists whose frames go up, whose samples are no later than a frame that follows,
\* with nothing for forced output; no sample of which is later than all of S; the
\* last of whose media is a frame, if there are frames; and without media
Rising(list) ==
  \A i, j \in 1..Len(list) : i < j /\ Kind(list[i]) = "frame" /\ Kind(list[j]) = "frame" =>
    list[i].time < list[j].time
Steady(list) ==
  \A i, j \in 1..Len(list) : i < j /\ Kind(list[j]) = "frame" => list[i].time <= list[j].time
Unforced(list) == \A i \in 1..Len(list) : ~Has(list[i], "force")
Upto(list, S) == \A i \in 1..Len(list) : \E y \in S : list[i].time <= y
Told(list) ==
  FrameTimes(list) # {} => \A i \in 1..Len(list) : Bare(list[i]) =>
                             \E j \in i..Len(list) : Kind(list[j]) = "frame"
Mute(list) == \A i \in 1..Len(list) : ~Bare(list[i])

\* B is what A has from some moment on.
LaterPart(B, A) == B \subseteq A /\ \A x \in B, y \in A : x <= y => y \in B

\* b is what is left of a when its front is cut off, at some frame of it.
Shed(b, a) ==
  /\ Rising(a) => Rising(b) /\ LaterPart(FrameTimes(b), FrameTimes(a))
  /\ Steady(a) => Steady(b)
  /\ Unforced(a) => Unforced(b)
  /\ Told(a) => Told(b)
  /\ Mute(a) => Mute(b)

\* No sample of b is later than all those of a.
Lower(b, a) == \A S \in SUBSET Nat : Upto(a, S) => Upto(b, S)

LEMMA FrameTimesIn ==
  ASSUME NEW list \in Seq(Sample)
  PROVE  /\ FrameTimes(list) \subseteq Nat
         /\ \A x : x \in FrameTimes(list) <=>
                     \E i \in 1..Len(list) : Kind(list[i]) = "frame" /\ list[i].time = x
         /\ Frameless(list) <=> FrameTimes(list) = {}
         /\ \A i \in 1..Len(list) : list[i].time \in Nat
<1>1. DOMAIN list = 1..Len(list)
  OBVIOUS
<1>2. \A x : x \in FrameTimes(list) <=>
               \E i \in 1..Len(list) : Kind(list[i]) = "frame" /\ list[i].time = x
  BY <1>1 DEF FrameTimes
<1>3. \A i \in 1..Len(list) : list[i].time \in Nat
  BY DEF Sample
<1>4. Frameless(list) <=> FrameTimes(list) = {}
  BY <1>2 DEF Frameless
<1> QED BY <1>2, <1>3, <1>4

LEMMA ShedSame ==
  ASSUME NEW a
  PROVE  Shed(a, a) /\ Lower(a, a)
  BY DEF Shed, Lower, LaterPart

LEMMA ShedTwice ==
  ASSUME NEW a, NEW b, NEW c, Shed(b, a), Shed(c, b)
  PROVE  Shed(c, a)
<1>1. ASSUME Rising(a) PROVE Rising(c) /\ LaterPart(FrameTimes(c), FrameTimes(a))
  <2>1. Rising(b) /\ LaterPart(FrameTimes(b), FrameTimes(a))
    BY <1>1 DEF Shed
  <2>2. Rising(c) /\ LaterPart(FrameTimes(c), FrameTimes(b))
    BY <2>1 DEF Shed
  <2> QED BY <2>1, <2>2 DEF LaterPart
<1> QED BY <1>1 DEF Shed

LEMMA LowerTwice ==
  ASSUME NEW a, NEW b, NEW c, Lower(b, a), Lower(c, b)
  PROVE  Lower(c, a)
  BY DEF Lower

\* What SetPosition puts before the rest, and when that is
LEMMA SetPositionTimes ==
  ASSUME NEW list \in Seq(Sample), NEW p \in 1..(Len(list) + 1)
  PROVE  \E b \in Seq(Sample) :
           /\ SetPosition(list, p) = Cat(b, SubSeq(list, p, Len(list))) /\ Frameless(b)
           /\ \A k \in 1..Len(b) : \E i \in 1..Len(list) :
                /\ i < p /\ b[k].flags = list[i].flags
                /\ \/ b[k].time = list[i].time \/ b[k].time = 0
                   \/ p <= Len(list) /\ b[k].time <= list[p].time
<1> DEFINE K == Unrepeated(list, p, Kept(list, p))
           N == Cardinality(K)
           b == [k \in 1..N |-> Stamped(list[Sorted(K)[k]], list, p)]
<1>1. K \subseteq 1..(p - 1) /\ \A i \in K : Kind(list[i]) # "frame"
  BY DEF Unrepeated, Kept
<1>2. SetPosition(list, p) = Cat(b, SubSeq(list, p, Len(list)))
  BY DEF SetPosition, Cat
<1> HIDE DEF K
<1>3. IsFiniteSet(K) /\ K \subseteq Nat /\ N \in Nat
  <2>1. p - 1 \in Nat
    OBVIOUS
  <2> QED BY <1>1, <2>1, Positions
<1>4. \A k \in 1..N : Sorted(K)[k] \in K
  BY <1>3, SortedIn
<1>5. \A i \in K : i \in 1..Len(list) /\ i < p /\ list[i] \in Sample
  BY <1>1
<1>6. \A k \in 1..N : b[k] \in Sample /\ Kind(b[k]) # "frame"
  <2>1. \A k \in 1..N : list[Sorted(K)[k]] \in Sample /\ Kind(list[Sorted(K)[k]]) # "frame"
    BY <1>1, <1>4, <1>5
  <2> QED BY <2>1, StampedIn
<1> HIDE DEF N
<1>7. b \in Seq(Sample) /\ Len(b) = N
  <2>1. b \in [1..N -> Sample]
    BY <1>6
  <2> HIDE DEF b
  <2> QED BY <1>3, <2>1
<1>8. ASSUME NEW k \in 1..N
      PROVE  \E i \in 1..Len(list) :
               /\ i < p /\ b[k].flags = list[i].flags
               /\ \/ b[k].time = list[i].time \/ b[k].time = 0
                  \/ p <= Len(list) /\ b[k].time <= list[p].time
  <2> DEFINE i == Sorted(K)[k]
             s == list[i]
             time == IF p > Len(list) \/ list[p].time = 0 THEN 0 ELSE list[p].time - 1
  <2>1. i \in 1..Len(list) /\ i < p /\ s \in Sample
    BY <1>4, <1>5
  <2>2. b[k] = Stamped(s, list, p)
    OBVIOUS
  <2> HIDE DEF b, i
  <2>3. CASE Kind(s) # "format"
    BY <2>1, <2>2, <2>3 DEF Stamped
  <2>4. CASE Kind(s) = "format"
    <3>1. b[k] = [s EXCEPT !.time = time]
      BY <2>2, <2>4 DEF Stamped
    <3>2. time = 0 \/ (p <= Len(list) /\ time <= list[p].time)
      <4>1. p <= Len(list) => list[p].time \in Nat
        BY DEF Sample
      <4> QED BY <4>1
    <3> HIDE DEF time, s
    <3>3. b[k].flags = s.flags /\ b[k].time = time
      BY <2>1, <3>1 DEF Sample
    <3> QED BY <2>1, <3>2, <3>3 DEF s
  <2> QED BY <2>3, <2>4
<1>9. Frameless(b)
  <2> HIDE DEF b
  <2> QED BY <1>6, <1>7 DEF Frameless
<1> HIDE DEF b
<1> QED BY <1>2, <1>7, <1>8, <1>9
\* What SetPosition leaves has the frames from the position on.
LEMMA SetPositionShed ==
  ASSUME NEW list \in Seq(Sample), NEW p \in 1..(Len(list) + 1)
  PROVE  LET c == SetPosition(list, p)
         IN  /\ Shed(c, list) /\ Lower(c, list)
             /\ \A i \in p..Len(list) : Kind(list[i]) = "frame" => list[i].time \in FrameTimes(c)
             /\ \A x \in FrameTimes(c) : \E i \in p..Len(list) :
                  Kind(list[i]) = "frame" /\ list[i].time = x
<1> DEFINE rest == SubSeq(list, p, Len(list))
           c == SetPosition(list, p)
<1>1. PICK b \in Seq(Sample) :
        /\ c = Cat(b, rest) /\ Frameless(b)
        /\ \A k \in 1..Len(b) : \E i \in 1..Len(list) :
             /\ i < p /\ b[k].flags = list[i].flags
             /\ \/ b[k].time = list[i].time \/ b[k].time = 0
                \/ p <= Len(list) /\ b[k].time <= list[p].time
  BY SetPositionTimes
<1>2. /\ rest \in Seq(Sample) /\ Len(rest) = Len(list) - p + 1 /\ Len(list) \in Nat /\ p \in Nat
      /\ \A k \in 1..Len(rest) : rest[k] = list[p + k - 1]
  OBVIOUS
<1> HIDE DEF rest, c
<1> DEFINE At(k) == k - Len(b) + p - 1
<1>3. /\ c \in Seq(Sample) /\ Len(c) = Len(b) + Len(rest) /\ Len(b) \in Nat /\ Len(rest) \in Nat
      /\ \A k \in 1..Len(b) : c[k] = b[k]
      /\ \A k \in 1..Len(rest) : c[Len(b) + k] = rest[k]
  BY <1>1, <1>2, CatParts
<1>4. \A k \in 1..Len(c) : k > Len(b) => At(k) \in p..Len(list) /\ c[k] = list[At(k)]
  <2> TAKE k \in 1..Len(c)
  <2> HAVE k > Len(b)
  <2>1. k - Len(b) \in 1..Len(rest) /\ Len(b) + (k - Len(b)) = k /\ p + (k - Len(b)) - 1 = At(k)
    BY <1>2, <1>3
  <2>2. At(k) \in p..Len(list)
    BY <1>2, <2>1
  <2> HIDE DEF At
  <2> QED BY <1>2, <1>3, <2>1, <2>2
<1>5. \A i \in p..Len(list) : \E k \in 1..Len(c) : k > Len(b) /\ At(k) = i
  <2> TAKE i \in p..Len(list)
  <2>1. Len(b) + (i - p + 1) \in 1..Len(c)
    BY <1>2, <1>3
  <2>2. Len(b) + (i - p + 1) > Len(b) /\ At(Len(b) + (i - p + 1)) = i
    BY <1>2, <1>3
  <2> QED BY <2>1, <2>2
<1>6. \A k \in 1..Len(c) : Kind(c[k]) = "frame" => k > Len(b)
  <2> TAKE k \in 1..Len(c)
  <2>1. k > Len(b) \/ k \in 1..Len(b)
    BY <1>3
  <2> QED BY <1>1, <1>3, <2>1 DEF Frameless
<1>7. \A k, l \in 1..Len(c) : k < l => At(k) < At(l)
  BY <1>2, <1>3
<1> HIDE DEF At
<1>8. \A k \in 1..Len(b) : \E i \in 1..Len(list) :
        /\ i < p /\ c[k].flags = list[i].flags
        /\ \/ c[k].time = list[i].time \/ c[k].time = 0
           \/ p <= Len(list) /\ c[k].time <= list[p].time
  BY <1>1, <1>3
<1>9. /\ \A i \in p..Len(list) : Kind(list[i]) = "frame" => list[i].time \in FrameTimes(c)
      /\ \A x \in FrameTimes(c) : \E i \in p..Len(list) : Kind(list[i]) = "frame" /\ list[i].time = x
  <2>1. ASSUME NEW i \in p..Len(list), Kind(list[i]) = "frame"
        PROVE  list[i].time \in FrameTimes(c)
    <3>1. PICK k \in 1..Len(c) : k > Len(b) /\ At(k) = i
      BY <1>5
    <3>2. c[k] = list[i]
      BY <1>4, <3>1
    <3>3. Kind(c[k]) = "frame" /\ c[k].time = list[i].time
      BY <2>1, <3>2
    <3>4. c \in Seq(Sample) /\ k \in 1..Len(c)
      BY <1>3
    <3> HIDE DEF c
    <3> QED BY <3>3, <3>4, FrameTimesIn
  <2>2. ASSUME NEW x \in FrameTimes(c)
        PROVE  \E i \in p..Len(list) : Kind(list[i]) = "frame" /\ list[i].time = x
    <3>1. PICK k \in 1..Len(c) : Kind(c[k]) = "frame" /\ c[k].time = x
      BY <1>3, FrameTimesIn
    <3>2. At(k) \in p..Len(list) /\ c[k] = list[At(k)]
      BY <1>4, <1>6, <3>1
    <3> QED BY <3>1, <3>2
  <2> QED BY <2>1, <2>2
<1>10. \A k \in 1..Len(c) : k \in 1..Len(b) \/ k > Len(b)
  BY <1>3
<1>11. \A i \in p..Len(list) : i \in 1..Len(list)
  BY <1>2
<1>12. ASSUME Rising(list) PROVE Rising(c) /\ LaterPart(FrameTimes(c), FrameTimes(list))
  <2>1. Rising(c)
    BY <1>4, <1>6, <1>7, <1>11, <1>12 DEF Rising
  <2>2. FrameTimes(c) \subseteq FrameTimes(list)
    BY <1>9, <1>11, FrameTimesIn
  <2>3. ASSUME NEW x \in FrameTimes(c), NEW y \in FrameTimes(list), x <= y
        PROVE  y \in FrameTimes(c)
    <3>1. PICK j \in p..Len(list) : Kind(list[j]) = "frame" /\ list[j].time = x
      BY <1>9
    <3>2. PICK i \in 1..Len(list) : Kind(list[i]) = "frame" /\ list[i].time = y
      BY FrameTimesIn
    <3>3. CASE i \in p..Len(list)
      BY <1>9, <3>2, <3>3
    <3>4. CASE i \notin p..Len(list)
      <4>1. i < j
        BY <1>2, <3>4
      <4>2. list[i].time < list[j].time
        BY <1>11, <1>12, <3>1, <3>2, <4>1 DEF Rising
      <4>3. x \in Nat /\ y \in Nat
        BY <2>2, FrameTimesIn
      <4> QED BY <2>3, <3>1, <3>2, <4>2, <4>3
    <3> QED BY <3>3, <3>4
  <2> QED BY <2>1, <2>2, <2>3 DEF LaterPart
<1>13. ASSUME Steady(list) PROVE Steady(c)
  <2> SUFFICES ASSUME NEW k \in 1..Len(c), NEW l \in 1..Len(c), k < l, Kind(c[l]) = "frame"
               PROVE  c[k].time <= c[l].time
    BY DEF Steady
  <2>1. At(l) \in p..Len(list) /\ c[l] = list[At(l)] /\ At(l) \in 1..Len(list)
    BY <1>4, <1>6, <1>11
  <2>2. CASE k > Len(b)
    <3>1. At(k) \in 1..Len(list) /\ c[k] = list[At(k)] /\ At(k) < At(l)
      BY <1>4, <1>7, <1>11, <2>2
    <3> QED BY <1>13, <2>1, <3>1 DEF Steady
  <2>3. CASE k \in 1..Len(b)
    <3>1. PICK i \in 1..Len(list) :
            /\ i < p
            /\ \/ c[k].time = list[i].time \/ c[k].time = 0
               \/ p <= Len(list) /\ c[k].time <= list[p].time
      BY <1>8, <2>3
    <3>2. c[l].time \in Nat /\ c[k].time \in Nat
      BY <1>3, FrameTimesIn
    <3>3. list[i].time <= c[l].time
      <4>1. i < At(l)
        BY <1>2, <2>1, <3>1
      <4> QED BY <1>13, <2>1, <4>1 DEF Steady
    <3>4. p <= Len(list) => list[p].time \in Nat /\ list[p].time <= c[l].time
      <4> HAVE p <= Len(list)
      <4>1. p \in 1..Len(list) /\ (p = At(l) \/ p < At(l))
        BY <1>2, <2>1
      <4>2. list[p].time \in Nat
        BY <4>1, FrameTimesIn
      <4>3. CASE p = At(l)
        BY <2>1, <4>2, <4>3
      <4>4. CASE p < At(l)
        BY <1>13, <2>1, <4>1, <4>2, <4>4 DEF Steady
      <4> QED BY <4>1, <4>2, <4>3, <4>4
    <3>5. list[i].time \in Nat
      BY FrameTimesIn
    <3> HIDE DEF c
    <3>6. CASE c[k].time = list[i].time
      BY <3>3, <3>6
    <3>7. CASE c[k].time = 0
      BY <3>2, <3>7
    <3>8. CASE p <= Len(list) /\ c[k].time <= list[p].time
      BY <3>2, <3>4, <3>8
    <3> QED BY <3>1, <3>6, <3>7, <3>8
  <2> QED BY <1>10, <2>2, <2>3
<1>14. \A k \in 1..Len(c) : \E i \in 1..Len(list) : c[k].flags = list[i].flags
  BY <1>4, <1>8, <1>10, <1>11
<1>15. Unforced(list) => Unforced(c)
  BY <1>14 DEF Unforced, Has
<1>16. Mute(list) => Mute(c)
  BY <1>14 DEF Mute, Bare
<1>17. ASSUME Told(list), FrameTimes(c) # {}, NEW k \in 1..Len(c), Bare(c[k])
       PROVE  \E l \in k..Len(c) : Kind(c[l]) = "frame"
  <2>1. PICK x \in FrameTimes(c) : TRUE
    BY <1>17
  <2>2. PICK j \in p..Len(list) : Kind(list[j]) = "frame"
    BY <1>9, <2>1
  <2>3. FrameTimes(list) # {}
    BY <1>11, <2>2, FrameTimesIn
  <2>4. CASE k > Len(b)
    <3>1. At(k) \in p..Len(list) /\ c[k] = list[At(k)] /\ At(k) \in 1..Len(list)
      BY <1>4, <1>11, <2>4
    <3>2. PICK i \in At(k)..Len(list) : Kind(list[i]) = "frame"
      BY <1>17, <2>3, <3>1 DEF Told
    <3>3. i \in p..Len(list)
      BY <1>2, <3>1
    <3>4. PICK l \in 1..Len(c) : l > Len(b) /\ At(l) = i
      BY <1>5, <3>3
    <3>5. l \in k..Len(c)
      <4>1. ~(l < k)
        BY <1>7, <3>1, <3>2, <3>4
      <4> QED BY <1>3, <4>1
    <3> QED BY <1>4, <3>2, <3>4, <3>5
  <2>5. CASE k \in 1..Len(b)
    <3>1. PICK l \in 1..Len(c) : l > Len(b) /\ At(l) = j
      BY <1>5
    <3>2. l \in k..Len(c)
      BY <1>3, <2>5, <3>1
    <3> QED BY <1>4, <2>2, <3>1, <3>2
  <2> QED BY <1>10, <2>4, <2>5
<1>18. Told(list) => Told(c)
  BY <1>17 DEF Told
<1>19. Lower(c, list)
  <2> SUFFICES ASSUME NEW S \in SUBSET Nat, Upto(list, S), NEW k \in 1..Len(c)
               PROVE  \E y \in S : c[k].time <= y
    BY DEF Lower, Upto
  <2>1. CASE k > Len(b)
    BY <1>4, <1>11, <2>1 DEF Upto
  <2>2. CASE k \in 1..Len(b)
    <3>1. PICK i \in 1..Len(list) :
            \/ c[k].time = list[i].time \/ c[k].time = 0
            \/ p <= Len(list) /\ c[k].time <= list[p].time
      BY <1>8, <2>2
    <3>2. CASE c[k].time = list[i].time
      BY <3>2 DEF Upto
    <3>3. CASE c[k].time = 0
      <4>1. PICK y \in S : list[i].time <= y
        BY DEF Upto
      <4>2. c[k].time <= y
        BY <3>3
      <4> QED BY <4>2
    <3>4. CASE p <= Len(list) /\ c[k].time <= list[p].time
      <4>1. p \in 1..Len(list)
        BY <1>2, <3>4
      <4>2. PICK y \in S : list[p].time <= y
        BY <4>1 DEF Upto
      <4>3. list[p].time \in Nat /\ c[k].time \in Nat /\ y \in Nat
        BY <1>3, <4>1, FrameTimesIn
      <4> QED BY <3>4, <4>2, <4>3
    <3> QED BY <3>1, <3>2, <3>3, <3>4
  <2> QED BY <1>10, <2>1, <2>2
<1> QED BY <1>9, <1>12, <1>13, <1>15, <1>16, <1>18, <1>19 DEF Shed, c

\* What AddBuffers leaves of a list has all frames it has not had, and none that it
\* has had if it cuts the list.
LEMMA WithoutHeardShed ==
  ASSUME NEW list \in Seq(Sample), list # <<>>, lastAudio \in Nat
  PROVE  LET l == WithoutHeard(list)
         IN  /\ Shed(l, list) /\ l \in Seq(Sample)
             /\ \A S \in SUBSET Nat :
                  Upto(list, S) /\ (lastAudio = 0 \/ \E y \in S : lastAudio <= y) => Upto(l, S)
             /\ \A x \in FrameTimes(list) : lastAudio < x => x \in FrameTimes(l)
             /\ \/ l = list /\ (BareTimes(list) # <<>> => lastAudio <= BareTimes(list)[1])
                \/ Steady(list) => \A x \in FrameTimes(l) : lastAudio < x
<1> DEFINE times  == BareTimes(list)
           before == IF lastAudio = 0 THEN 0 ELSE lastAudio - 1
           p      == Min(Unheard(list) \cup {Len(list) + 1})
           rest   == SetPosition(list, p)
           fresh  == IF Unheard(list) = {} /\ rest # <<>> /\ Has(rest[1], "format")
                     THEN [rest EXCEPT ![1].time = before] ELSE rest
           l      == WithoutHeard(list)
<1>1. l = IF times = <<>> \/ times[1] >= lastAudio THEN list ELSE fresh
  BY DEF WithoutHeard
<1>2. Len(list) \in Nat /\ DOMAIN list = 1..Len(list) /\ 1 \in 1..Len(list)
  OBVIOUS
<1>3. l \in Seq(Sample)
  BY WithoutHeardIn
<1>4. CASE times = <<>> \/ times[1] >= lastAudio
  <2>1. l = list
    BY <1>1, <1>4
  <2>2. times # <<>> => lastAudio <= times[1]
    BY <1>4, BareTimesIn
  <2> HIDE DEF l, times
  <2> QED BY <1>3, <2>1, <2>2, ShedSame DEF l, times
<1>5. CASE ~(times = <<>> \/ times[1] >= lastAudio)
  <2>1. l = fresh
    BY <1>1, <1>5
  <2>2. /\ p \in 1..(Len(list) + 1)
        /\ \A i \in Unheard(list) : p <= i
        /\ p <= Len(list) => p \in Unheard(list)
        /\ Unheard(list) \subseteq 1..Len(list)
        /\ Unheard(list) = {} => p = Len(list) + 1
    <3>1. Unheard(list) \subseteq 1..Len(list)
      BY <1>2 DEF Unheard
    <3>2. Unheard(list) \cup {Len(list) + 1} \subseteq 1..(Len(list) + 1)
      BY <1>2, <3>1
    <3>3. Unheard(list) \cup {Len(list) + 1} \subseteq Nat
          /\ Unheard(list) \cup {Len(list) + 1} # {}
      BY <3>2
    <3>4. p \in Unheard(list) \cup {Len(list) + 1}
          /\ \A i \in Unheard(list) \cup {Len(list) + 1} : p <= i
      BY <3>3, MinIn
    <3> HIDE DEF p
    <3> QED BY <1>2, <3>1, <3>2, <3>4
  <2> HIDE DEF l, times, p
  <2>3. /\ rest \in Seq(Sample) /\ Shed(rest, list) /\ Lower(rest, list)
        /\ \A i \in p..Len(list) : Kind(list[i]) = "frame" => list[i].time \in FrameTimes(rest)
        /\ \A x \in FrameTimes(rest) : \E i \in p..Len(list) :
             Kind(list[i]) = "frame" /\ list[i].time = x
    BY <2>2, SetPositionIn, SetPositionShed
  <2> HIDE DEF rest, fresh
  <2>4. \A x \in FrameTimes(list) : lastAudio < x => x \in FrameTimes(rest)
    <3> TAKE x \in FrameTimes(list)
    <3> HAVE lastAudio < x
    <3>1. PICK i \in 1..Len(list) : Kind(list[i]) = "frame" /\ list[i].time = x
      BY FrameTimesIn
    <3>2. i \in Unheard(list)
      BY <1>2, <3>1 DEF Unheard
    <3>3. i \in p..Len(list)
      BY <2>2, <3>2
    <3> QED BY <2>3, <3>1, <3>3
  <2>5. Steady(list) => \A x \in FrameTimes(rest) : lastAudio < x
    <3> SUFFICES ASSUME Steady(list), NEW x \in FrameTimes(rest) PROVE lastAudio < x
      OBVIOUS
    <3>1. PICK i \in p..Len(list) : Kind(list[i]) = "frame" /\ list[i].time = x
      BY <2>3
    <3>2. i \in 1..Len(list) /\ p \in 1..Len(list) /\ p <= i
      BY <1>2, <2>2
    <3>3. lastAudio < list[p].time
      BY <2>2, <3>2 DEF Unheard
    <3>4. p = i \/ list[p].time <= list[i].time
      BY <3>1, <3>2 DEF Steady
    <3>5. list[p].time \in Nat /\ list[i].time \in Nat
      BY <3>2, FrameTimesIn
    <3> QED BY <3>1, <3>3, <3>4, <3>5
  <2>6. CASE fresh = rest
    BY <1>3, <2>1, <2>3, <2>4, <2>5, <2>6 DEF l, Lower
  <2>7. CASE fresh # rest
    <3>1. /\ Unheard(list) = {} /\ rest # <<>> /\ Has(rest[1], "format")
          /\ fresh = [rest EXCEPT ![1].time = before]
      BY <2>7 DEF fresh
    <3>2. before \in Nat /\ before <= lastAudio
      OBVIOUS
    <3> HIDE DEF before
    <3>3. Len(rest) \in Nat /\ 1 \in 1..Len(rest) /\ DOMAIN rest = 1..Len(rest) /\ rest[1] \in Sample
      BY <2>3, <3>1
    <3>4. /\ fresh \in Seq(Sample) /\ Len(fresh) = Len(rest)
          /\ \A i \in 1..Len(rest) : fresh[i].flags = rest[i].flags
          /\ \A i \in 1..Len(rest) : fresh[i].time = rest[i].time \/ fresh[i].time = before
      <4> DEFINE s == [rest[1] EXCEPT !.time = before]
      <4>1. s \in Sample /\ s.flags = rest[1].flags /\ s.time = before
        BY <3>2, <3>3 DEF Sample
      <4>2. fresh = [rest EXCEPT ![1] = s]
        BY <3>1, <3>3
      <4> HIDE DEF s
      <4> QED BY <2>3, <3>3, <4>1, <4>2
    <3>5. FrameTimes(rest) = {}
      <4>1. p..Len(list) = {}
        BY <1>2, <2>2, <3>1
      <4> QED BY <2>3, <4>1
    <3>6. FrameTimes(fresh) = {} /\ Frameless(fresh)
      <4>1. Frameless(rest)
        BY <2>3, <3>5, FrameTimesIn
      <4>2. \A i \in 1..Len(rest) : Kind(fresh[i]) = Kind(rest[i])
        <5> TAKE i \in 1..Len(rest)
        <5>1. \A k \in DOMAIN Priority : Has(fresh[i], Priority[k]) <=> Has(rest[i], Priority[k])
          BY <3>4 DEF Has
        <5> QED BY <5>1, SameKind
      <4>3. Frameless(fresh)
        BY <3>4, <4>1, <4>2 DEF Frameless
      <4> QED BY <3>4, <4>3, FrameTimesIn
    <3>7. Rising(fresh) /\ Steady(fresh) /\ Told(fresh)
      BY <3>6 DEF Rising, Steady, Told, Frameless
    <3>8. Unforced(list) => Unforced(fresh)
      BY <2>3, <3>4 DEF Shed, Unforced, Has
    <3>9. Mute(list) => Mute(fresh)
      BY <2>3, <3>4 DEF Shed, Mute, Bare
    <3>10. Shed(fresh, list)
      BY <3>6, <3>7, <3>8, <3>9 DEF Shed, LaterPart
    <3>11. ASSUME NEW S \in SUBSET Nat, Upto(list, S),
                  lastAudio = 0 \/ \E y \in S : lastAudio <= y
           PROVE  Upto(fresh, S)
      <4>1. Upto(rest, S)
        BY <2>3, <3>11 DEF Lower
      <4>2. \E y \in S : before <= y
        <5>1. CASE lastAudio = 0
          <6>1. PICK y \in S : list[1].time <= y
            BY <1>2, <3>11 DEF Upto
          <6> QED BY <3>2, <5>1, <6>1
        <5>2. CASE \E y \in S : lastAudio <= y
          BY <3>2, <5>2
        <5> QED BY <3>11, <5>1, <5>2
      <4> QED BY <3>4, <4>1, <4>2 DEF Upto
    <3> QED BY <2>1, <2>4, <3>4, <3>5, <3>6, <3>10, <3>11 DEF l
  <2> QED BY <2>6, <2>7
<1> HIDE DEF l, fresh, times
<1> QED BY <1>4, <1>5 DEF l

\* The latest of some moments
Top(S, e) == e \in S /\ \A x \in S : x <= e

\* The last that AddBuffers notes of a list is its last frame.
LEMMA HeardLast ==
  ASSUME NEW list \in Seq(Sample), Told(list), Rising(list), Steady(list),
         FrameTimes(list) # {}
  PROVE  /\ BareTimes(list) # <<>> /\ Top(FrameTimes(list), BareTimes(list)[2])
         /\ BareTimes(list)[1] <= BareTimes(list)[2]
<1> DEFINE at == {i \in DOMAIN list : Bare(list[i])}
           frames == {i \in 1..Len(list) : Kind(list[i]) = "frame"}
           a == Min(at)
           z == Max(at)
<1>1. Len(list) \in Nat /\ DOMAIN list = 1..Len(list)
  OBVIOUS
<1>2. frames \subseteq at
  <2> SUFFICES ASSUME NEW i \in 1..Len(list), Kind(list[i]) = "frame" PROVE Bare(list[i])
    BY <1>1
  <2>1. ~Has(list[i], "unavail") /\ ~Has(list[i], "eos")
    <3>1. 3 \in DOMAIN Priority /\ Priority[3] = "unavail" /\ 4 \in DOMAIN Priority
          /\ Priority[4] = "eos"
      BY DEF Priority
    <3>2. ~Has(list[i], Priority[3]) /\ ~Has(list[i], Priority[4])
      BY <3>1, FrameBits
    <3> QED BY <3>1, <3>2
  <2> QED BY <2>1 DEF Bare, Has
<1>3. \A x \in FrameTimes(list) : \E i \in frames : list[i].time = x
  BY FrameTimesIn
<1>4. at # {} /\ at \subseteq 1..Len(list) /\ frames \subseteq 1..Len(list)
  BY <1>1, <1>2, <1>3
<1>5. BareTimes(list) # <<>> /\ BareTimes(list)[1] = list[a].time
      /\ BareTimes(list)[2] = list[z].time
  <2>1. BareTimes(list) = <<list[a].time, list[z].time>>
    BY <1>4 DEF BareTimes
  <2> HIDE DEF a, z
  <2> QED BY <2>1
<1>6. \A i \in at : \E j \in i..Len(list) : j \in frames
  <2> TAKE i \in at
  <2>1. \E j \in i..Len(list) : Kind(list[j]) = "frame"
    BY <1>1 DEF Told
  <2> QED BY <1>1, <2>1
<1> HIDE DEF at
<1>7. a \in at /\ z \in at /\ (\A i \in at : a <= i /\ i <= z)
  <2>1. IsFiniteSet(at) /\ at \subseteq Nat
    BY <1>1, <1>4, Positions
  <2> QED BY <1>4, <2>1, MinIn, MaxIn
<1> HIDE DEF a, z
<1>8. z \in frames
  <2>1. PICK j \in z..Len(list) : j \in frames
    BY <1>6, <1>7
  <2>2. j <= z
    BY <1>2, <1>7, <2>1
  <2>3. j = z
    BY <1>4, <1>7, <2>1, <2>2
  <2> QED BY <2>1, <2>3
<1>9. Kind(list[z]) = "frame" /\ z \in 1..Len(list) /\ a \in 1..Len(list) /\ a <= z
  BY <1>4, <1>7, <1>8
<1>10. list[a].time <= list[z].time
  <2>1. list[a].time \in Nat
    BY <1>9, FrameTimesIn
  <2>2. a = z \/ list[a].time <= list[z].time
    BY <1>9 DEF Steady
  <2> QED BY <2>1, <2>2
<1>11. Top(FrameTimes(list), list[z].time)
  <2>1. list[z].time \in FrameTimes(list)
    BY <1>9, FrameTimesIn
  <2>2. ASSUME NEW x \in FrameTimes(list) PROVE x <= list[z].time
    <3>1. PICK i \in frames : list[i].time = x
      BY <1>3
    <3>2. i \in 1..Len(list) /\ Kind(list[i]) = "frame" /\ i <= z /\ list[i].time \in Nat
      BY <1>2, <1>7, <3>1, FrameTimesIn
    <3>3. i = z \/ list[i].time < list[z].time
      BY <1>9, <3>2 DEF Rising
    <3>4. list[z].time \in Nat
      BY <1>9, FrameTimesIn
    <3> QED BY <3>1, <3>2, <3>3, <3>4
  <2> QED BY <2>1, <2>2 DEF Top
<1> QED BY <1>5, <1>10, <1>11

\* A list without media leaves nothing to note.
LEMMA MuteTimes ==
  ASSUME NEW list \in Seq(Sample), Mute(list)
  PROVE  BareTimes(list) = <<>>
<1>1. {i \in DOMAIN list : Bare(list[i])} = {}
  BY DEF Mute
<1> QED BY <1>1 DEF BareTimes

\* The first media is no later than any other.
LEMMA BareFirst ==
  ASSUME NEW list \in Seq(Sample), NEW i \in 1..Len(list), Bare(list[i]),
         \A j, k \in 1..Len(list) : j < k => list[j].time <= list[k].time
  PROVE  BareTimes(list) # <<>> /\ BareTimes(list)[1] <= list[i].time
<1> DEFINE at == {k \in DOMAIN list : Bare(list[k])}
           a == Min(at)
           z == Max(at)
<1>1. Len(list) \in Nat /\ DOMAIN list = 1..Len(list)
  OBVIOUS
<1>2. i \in at /\ at # {} /\ at \subseteq 1..Len(list)
  BY <1>1
<1>3. BareTimes(list) # <<>> /\ BareTimes(list)[1] = list[a].time
  <2>1. BareTimes(list) = <<list[a].time, list[z].time>>
    BY <1>2 DEF BareTimes
  <2> HIDE DEF a, z
  <2> QED BY <2>1
<1> HIDE DEF at
<1>4. a \in at /\ a <= i
  <2>1. at \subseteq Nat
    BY <1>1, <1>2
  <2> QED BY <1>2, <2>1, MinIn
<1> HIDE DEF a
<1>5. a \in 1..Len(list) /\ list[i].time \in Nat
  BY <1>2, <1>4, FrameTimesIn
<1>6. a = i \/ list[a].time <= list[i].time
  BY <1>4, <1>5
<1> QED BY <1>3, <1>5, <1>6

-----------------------------------------------------------------------------
(* What the buffer does to the audio track *)

\* Nothing is later than all of S but a position that is the wanted one.
Near(m, S) ==
  Upto(Queue(m, "audio"), S) /\ (m.actual <= m.wanted \/ \E y \in S : m.actual <= y)

\* Of audio only the front has gone, and that during a seek.
AudioLess(m, n) ==
  /\ n.wanted = m.wanted /\ (n.state = "Seeking" => m.state = "Seeking")
  /\ Shed(Queue(n, "audio"), Queue(m, "audio"))
  /\ m.state # "Seeking" => FrameTimes(Queue(n, "audio")) = FrameTimes(Queue(m, "audio"))
AudioHeld(m, n) == AudioLess(m, n) /\ \A S \in SUBSET Nat : Near(m, S) => Near(n, S)

LEMMA LessTwice ==
  ASSUME NEW m, NEW n, NEW o, AudioLess(m, n), AudioLess(n, o)
  PROVE  AudioLess(m, o)
  BY ShedTwice DEF AudioLess

LEMMA HeldTwice ==
  ASSUME NEW m, NEW n, NEW o, AudioHeld(m, n), AudioHeld(n, o)
  PROVE  AudioHeld(m, o)
  BY LessTwice DEF AudioHeld

LEMMA HeldSame ==
  ASSUME NEW m, NEW n, Queue(n, "audio") = Queue(m, "audio"), n.wanted = m.wanted,
         n.actual = m.actual \/ n.actual <= n.wanted, n.state = "Seeking" => m.state = "Seeking"
  PROVE  AudioHeld(m, n)
  BY ShedSame DEF AudioHeld, AudioLess, Near

\* The queue is cut to a sample, or the position moves to one.
LEMMA AudioSetPosHeld ==
  ASSUME NEW m \in Media, m.state = "Seeking"
  PROVE  AudioHeld(m, AudioSetPos(m))
<1> DEFINE q      == Queue(m, "audio")
           before == {i \in DOMAIN q : q[i].time <= m.actual}
           p      == LatestOf(q, before)
           n      == AudioSetPos(m)
<1>1. /\ q \in Seq(Sample) /\ m.track \in [Track -> TrackBuffer] /\ "audio" \in Track
      /\ m.wanted \in Nat /\ m.actual \in Nat
  BY MediaParts DEF Track
<1>2. n.wanted = m.wanted /\ n.state = m.state /\ n \in Media
  BY AudioSetPosIn DEF Trimmed
<1>3. CASE q = <<>>
  <2>1. n = m
    BY <1>3 DEF AudioSetPos
  <2> HIDE DEF n, q
  <2> QED BY <2>1, HeldSame DEF n
<1>4. CASE q # <<>> /\ before = {}
  <2>1. n = [m EXCEPT !.actual = q[1].time]
    BY <1>4 DEF AudioSetPos
  <2>2. 1 \in 1..Len(q) /\ q[1].time \in Nat
    <3>1. 1 \in 1..Len(q)
      BY <1>1, <1>4
    <3> QED BY <1>1, <3>1, FrameTimesIn
  <2> HIDE DEF n
  <2>3. n.actual = q[1].time /\ Queue(n, "audio") = q
    BY <2>1 DEF Media, Queue
  <2>4. \A S \in SUBSET Nat : Upto(q, S) => \E y \in S : q[1].time <= y
    BY <2>2 DEF Upto
  <2> HIDE DEF q
  <2>5. \A S \in SUBSET Nat : Near(m, S) => Near(n, S)
    BY <2>3, <2>4 DEF Near, q
  <2>6. AudioLess(m, n)
    BY <1>2, <2>3, ShedSame DEF AudioLess, q
  <2> QED BY <2>5, <2>6 DEF AudioHeld, n
<1>5. CASE q # <<>> /\ before # {}
  <2>1. p \in 1..Len(q)
    <3>1. before \subseteq 1..Len(q)
      BY <1>1
    <3> HIDE DEF before, q
    <3> QED BY <1>1, <1>5, <3>1, LatestIn
  <2>2. Queue(n, "audio") = SetPosition(q, p) /\ n.actual = m.actual
    <3>1. n = [m EXCEPT !.track["audio"].q = SetPosition(q, p),
                        !.track["audio"].dur = SpanOf(SetPosition(q, p), SampleMaxDuration)]
      BY <1>5 DEF AudioSetPos
    <3> HIDE DEF n, p, q
    <3> QED BY <1>1, <3>1 DEF Media, TrackBuffer, Queue
  <2> HIDE DEF n, p, q, before
  <2>3. p \in 1..(Len(q) + 1)
    BY <1>1, <2>1
  <2>4. Shed(SetPosition(q, p), q) /\ Lower(SetPosition(q, p), q)
    BY <1>1, <2>3, SetPositionShed
  <2>5. AudioLess(m, n)
    BY <1>2, <2>2, <2>4 DEF AudioLess, q
  <2>6. \A S \in SUBSET Nat : Near(m, S) => Near(n, S)
    BY <1>2, <2>2, <2>4 DEF Near, Lower, q
  <2> QED BY <2>5, <2>6 DEF AudioHeld, n
<1> QED BY <1>3, <1>4, <1>5

\* The video track's queue is not the audio track's.
LEMMA VideoSetPosHeld ==
  ASSUME NEW m \in Media
  PROVE  AudioHeld(m, VideoSetPos(m))
<1> DEFINE n == VideoSetPos(m)
<1>1. n.wanted = m.wanted /\ n.actual = m.actual /\ n.state = m.state
  BY VideoSetPosIn
<1>2. Queue(n, "audio") = Queue(m, "audio")
  <2>1. n = m \/ \E rest : n = [m EXCEPT !.track["video"].q = rest]
    BY DEF VideoSetPos
  <2> HIDE DEF n
  <2>2. m.track \in [Track -> TrackBuffer] /\ "audio" \in Track
    BY MediaParts DEF Track
  <2> QED BY <2>1, <2>2 DEF Media, Queue
<1> HIDE DEF n
<1> QED BY <1>1, <1>2, HeldSame DEF n

LEMMA QueueSetPosHeld ==
  ASSUME NEW m \in Media, NEW t \in Track, m.state = "Seeking"
  PROVE  AudioHeld(m, QueueSetPos(m, t))
  BY AudioSetPosHeld, VideoSetPosHeld DEF QueueSetPos

LEMMA OnHeld ==
  ASSUME NEW m \in Media
  PROVE  AudioHeld(m, On(m))
<1> DEFINE n == On(m)
<1>1. n = m \/ n = [m EXCEPT !.state = "Running"]
  BY DEF On
<1> HIDE DEF n
<1>2. n.wanted = m.wanted /\ n.actual = m.actual /\ n.track = m.track
      /\ (n.state = "Seeking" => m.state = "Seeking")
  BY <1>1 DEF Media
<1> QED BY <1>2, HeldSame DEF n, Queue

LEMMA SeekProgressHeld ==
  ASSUME NEW m \in Media, NEW t \in Track, NEW refused \in BOOLEAN
  PROVE  AudioHeld(m, SeekProgress(m, t, refused))
<1> DEFINE n == SeekProgress(m, t, refused)
           started == ~VideoPending(m) /\ (WillAvailable(m, "audio") => AudioReached(m))
           sought  == [m EXCEPT !.sought = TRUE]
           moved   == [AudioSetPos(m) EXCEPT !.state = IF started THEN "Starting" ELSE @]
<1>1. n = m \/ n = sought \/ (m.state = "Seeking" /\ n = moved)
  <2> HIDE DEF moved, sought
  <2> QED BY DEF SeekProgress, moved, sought
<1>2. AudioHeld(m, m)
  BY HeldSame
<1>3. AudioHeld(m, sought)
  <2>1. sought.wanted = m.wanted /\ sought.actual = m.actual /\ sought.track = m.track
        /\ sought.state = m.state
    BY DEF Media
  <2> HIDE DEF sought
  <2> QED BY <2>1, HeldSame DEF Queue
<1>4. ASSUME m.state = "Seeking" PROVE AudioHeld(m, moved)
  <2> DEFINE a == AudioSetPos(m)
  <2>1. AudioHeld(m, a) /\ a \in Media
    BY <1>4, AudioSetPosHeld, AudioSetPosIn DEF Trimmed
  <2> HIDE DEF a, started
  <2>2. /\ moved.track = a.track /\ moved.wanted = a.wanted /\ moved.actual = a.actual
        /\ moved.state = "Seeking" => a.state = "Seeking"
    BY <2>1 DEF Media, a
  <2> HIDE DEF moved
  <2>3. AudioHeld(a, moved)
    BY <2>2, HeldSame DEF Queue
  <2> QED BY <2>1, <2>3, HeldTwice
<1> HIDE DEF moved, sought, n
<1> QED BY <1>1, <1>2, <1>3, <1>4 DEF n

\* A list of audio that arrives during a seek keeps what lies beyond the position.
LEMMA SeekCutHeld ==
  ASSUME NEW m \in Media, NEW t \in Track, NEW list \in Seq(Sample)
  PROVE  LET c == SeekCut(m, t, list)
         IN  /\ AudioHeld(m, c.m)
             /\ t = "audio" =>
                  /\ Shed(c.list, list) /\ Lower(c.list, list)
                  /\ \A x \in FrameTimes(list) : m.actual < x => x \in FrameTimes(c.list)
<1> DEFINE point  == IF t = "video" THEN m.wanted ELSE m.actual
           beyond == {i \in DOMAIN list : point < list[i].time}
           passed == t = "video" /\ beyond # {}
           drop   == IF /\ passed /\ Len(list) >= 2
                        /\ Has(list[1], "unavail") /\ Has(list[2], "format")
                     THEN 1 ELSE 0
           rest   == SubSeq(list, 1 + drop, Len(list))
           stop   == Min(beyond \cup {Len(list) + 1})
           L      == Landings(t, list, stop)
           cut    == IF L = {} THEN rest ELSE SetPosition(rest, Max(L) - drop)
           n      == [m EXCEPT !.sought = @ \/ passed,
                               !.actual = IF t = "video" /\ L # {}
                                          THEN list[Max(L)].time ELSE @]
           c      == SeekCut(m, t, list)
<1>1. c = [list |-> cut, m |-> n]
  BY DEF SeekCut
<1>2. Len(list) \in Nat /\ DOMAIN list = 1..Len(list) /\ m.wanted \in Nat /\ m.actual \in Nat
  BY MediaParts
<1>3. stop \in 1..(Len(list) + 1) /\ (\A i \in beyond : stop <= i)
  <2>1. beyond \cup {Len(list) + 1} \subseteq 1..(Len(list) + 1)
    BY <1>2
  <2>2. beyond \cup {Len(list) + 1} \subseteq Nat /\ beyond \cup {Len(list) + 1} # {}
    BY <2>1
  <2> HIDE DEF beyond
  <2>3. /\ Min(beyond \cup {Len(list) + 1}) \in beyond \cup {Len(list) + 1}
        /\ \A i \in beyond \cup {Len(list) + 1} : Min(beyond \cup {Len(list) + 1}) <= i
    BY <2>2, MinIn
  <2> QED BY <2>1, <2>3 DEF stop
<1>4. L \subseteq 1..Len(list) /\ (\A i \in L : i < stop)
  <2> HIDE DEF stop
  <2> QED BY <1>2, <1>3 DEF Landings
<1>5. L # {} => Max(L) \in 1..Len(list) /\ Max(L) < stop
  <2> HIDE DEF L, stop
  <2>1. IsFiniteSet(L) /\ L \subseteq Nat
    BY <1>2, <1>4, Positions
  <2> QED BY <1>4, <2>1, MaxIn
<1> HIDE DEF stop, L
<1>6. AudioHeld(m, c.m)
  <2>1. c.m = n
    <3> HIDE DEF cut, n
    <3> QED BY <1>1
  <2>2. n.wanted = m.wanted /\ n.track = m.track /\ n.state = m.state
        /\ n.actual = IF t = "video" /\ L # {} THEN list[Max(L)].time ELSE m.actual
    <3> HIDE DEF passed
    <3> QED BY DEF Media
  <2>3. t = "video" /\ L # {} => list[Max(L)].time <= m.wanted
    <3> HAVE t = "video" /\ L # {}
    <3>1. Max(L) \notin beyond /\ Max(L) \in 1..Len(list)
      BY <1>2, <1>3, <1>5
    <3>2. list[Max(L)].time \in Nat
      BY <3>1, FrameTimesIn
    <3> QED BY <1>2, <3>1, <3>2
  <2> HIDE DEF c, n
  <2>4. n.actual = m.actual \/ n.actual <= n.wanted
    BY <2>2, <2>3
  <2> QED BY <2>1, <2>2, <2>4, HeldSame DEF Queue
<1>7. ASSUME t = "audio"
      PROVE  /\ Shed(c.list, list) /\ Lower(c.list, list)
             /\ \A x \in FrameTimes(list) : m.actual < x => x \in FrameTimes(c.list)
  <2>1. drop = 0 /\ point = m.actual
    BY <1>7
  <2>2. rest = list
    BY <1>2, <2>1
  <2>3. c.list = IF L = {} THEN list ELSE SetPosition(list, Max(L))
    <3>1. L # {} => Max(L) - drop = Max(L)
      BY <1>5, <2>1
    <3>2. c.list = cut
      <4> HIDE DEF cut, n
      <4> QED BY <1>1
    <3> HIDE DEF drop, rest, c
    <3> QED BY <2>2, <3>1, <3>2
  <2> HIDE DEF c, drop
  <2>4. CASE L = {}
    <3> HIDE DEF L
    <3> QED BY <2>3, <2>4, ShedSame
  <2>5. CASE L # {}
    <3> DEFINE p == Max(L)
    <3>1. p \in 1..(Len(list) + 1) /\ p \in 1..Len(list) /\ p < stop
      BY <1>2, <1>5, <2>5
    <3> HIDE DEF p
    <3>2. /\ Shed(SetPosition(list, p), list) /\ Lower(SetPosition(list, p), list)
          /\ \A i \in p..Len(list) : Kind(list[i]) = "frame" =>
               list[i].time \in FrameTimes(SetPosition(list, p))
      BY <3>1, SetPositionShed
    <3>3. c.list = SetPosition(list, p)
      BY <2>3, <2>5 DEF p
    <3>4. ASSUME NEW x \in FrameTimes(list), m.actual < x PROVE x \in FrameTimes(c.list)
      <4>1. PICK i \in 1..Len(list) : Kind(list[i]) = "frame" /\ list[i].time = x
        BY FrameTimesIn
      <4>2. i \in beyond
        BY <1>2, <2>1, <3>4, <4>1
      <4>3. i \in p..Len(list)
        BY <1>2, <1>3, <3>1, <4>1, <4>2
      <4> QED BY <3>2, <3>3, <4>1, <4>3
    <3> QED BY <3>2, <3>3, <3>4
  <2> QED BY <2>4, <2>5
<1> HIDE DEF c
<1> QED BY <1>6, <1>7 DEF c

\* What PutSamples does to the audio track: what is ready stays, and the list comes
\* after it, both but for their fronts if a seek is pending; or the list is refused.
LEMMA PutSamplesAudio ==
  ASSUME NEW m \in Media, NEW t \in Track, NEW list \in Seq(Sample)
  PROVE  LET r == PutSamplesResult(m, t, list)
         IN  /\ t # "audio" \/ list = <<>> => AudioHeld(m, r.m)
             /\ t = "audio" => \E n \in Media, c \in Seq(Sample) :
                  /\ AudioHeld(m, n) /\ Shed(c, list) /\ Lower(c, list)
                  /\ \A x \in FrameTimes(list) :
                       (m.state = "Seeking" => m.actual < x) => x \in FrameTimes(c)
                  /\ r.refused => r.list = c /\ c # <<>> /\ AudioHeld(n, r.m)
                  /\ ~r.refused => \E o \in Media :
                       /\ Queue(o, "audio") = Cat(Queue(n, "audio"), c)
                       /\ o.wanted = n.wanted /\ o.actual = n.actual /\ o.state = n.state
                       /\ AudioHeld(o, r.m)
<1> DEFINE o       == IF m.state = "Seeking"
                      THEN [SeekCut(m, t, list) EXCEPT !.m = QueueSetPos(@, t)]
                      ELSE [list |-> list, m |-> m]
           refused == o.list # <<>> /\ ~Admits(o.m, t, o.list, Forced(o.m, t))
           after   == IF o.list = <<>> \/ refused THEN o.m ELSE Spliced(o.m, t, o.list)
           x       == SeekProgress(after, t, refused)
           left    == IF refused THEN o.list ELSE <<>>
           n       == On(x)
           r       == PutSamplesResult(m, t, list)
<1>1. r.m = n /\ r.list = left /\ r.refused = refused
  <2>1. r = [m |-> n, list |-> left, refused |-> refused]
    BY DEF PutSamplesResult
  <2> HIDE DEF r, n, left, refused
  <2> QED BY <2>1
<1>2. /\ o.list \in Seq(Sample) /\ o.m \in Media /\ AudioHeld(m, o.m)
      /\ list = <<>> => o.list = <<>>
      /\ t = "audio" =>
           /\ Shed(o.list, list) /\ Lower(o.list, list)
           /\ \A y \in FrameTimes(list) :
                (m.state = "Seeking" => m.actual < y) => y \in FrameTimes(o.list)
  <2>1. CASE m.state = "Seeking"
    <3> DEFINE c == SeekCut(m, t, list)
    <3>1. /\ c = [list |-> c.list, m |-> c.m]
          /\ c.list \in Seq(Sample) /\ c.m \in Media /\ c.m.state = m.state
          /\ list = <<>> => c.list = <<>>
      BY SeekCutIn
    <3>2. /\ AudioHeld(m, c.m)
          /\ t = "audio" =>
               /\ Shed(c.list, list) /\ Lower(c.list, list)
               /\ \A y \in FrameTimes(list) : m.actual < y => y \in FrameTimes(c.list)
      BY SeekCutHeld
    <3>3. o = [c EXCEPT !.m = QueueSetPos(@, t)]
      BY <2>1
    <3> HIDE DEF c, o
    <3>4. o.list = c.list /\ o.m = QueueSetPos(c.m, t)
      BY <3>1, <3>3
    <3>5. o.m \in Media
      BY <3>1, <3>4, QueueSetPosIn DEF Trimmed
    <3>6. AudioHeld(c.m, o.m)
      BY <2>1, <3>1, <3>4, QueueSetPosHeld
    <3>7. AudioHeld(m, o.m)
      BY <3>2, <3>6, HeldTwice
    <3> QED BY <2>1, <3>1, <3>2, <3>4, <3>5, <3>7
  <2>2. CASE m.state # "Seeking"
    <3>1. o.list = list /\ o.m = m
      BY <2>2
    <3> HIDE DEF o
    <3> QED BY <2>2, <3>1, HeldSame, ShedSame
  <2> QED BY <2>1, <2>2
<1> HIDE DEF o
<1>3. refused \in BOOLEAN
  OBVIOUS
<1>4. o.list = <<>> => ~refused
  OBVIOUS
<1> HIDE DEF refused
<1>5. \A y \in Media : AudioHeld(y, On(SeekProgress(y, t, refused)))
  <2> TAKE y \in Media
  <2> DEFINE z == SeekProgress(y, t, refused)
  <2>1. AudioHeld(y, z) /\ z \in Media
    BY <1>3, SeekProgressHeld, SeekProgressIn DEF Trimmed
  <2> HIDE DEF z
  <2>2. AudioHeld(z, On(z))
    BY <2>1, OnHeld
  <2> QED BY <2>1, <2>2, HeldTwice DEF z
<1>6. CASE o.list = <<>> \/ refused
  <2>1. after = o.m
    BY <1>6
  <2>2. AudioHeld(o.m, r.m)
    <3> HIDE DEF after
    <3> QED BY <1>1, <1>2, <1>5, <2>1
  <2>3. refused => r.list = o.list /\ o.list # <<>>
    BY <1>1, <1>4
  <2>4. ~refused => Queue(o.m, "audio") = Cat(Queue(o.m, "audio"), o.list)
    <3>1. ~refused => o.list = <<>>
      BY <1>6
    <3>2. Queue(o.m, "audio") \in Seq(Sample)
      BY <1>2, MediaParts DEF Track
    <3> QED BY <3>1, <3>2, CatEmpty
  <2> HIDE DEF r, n, x, after, left
  <2>5. r.refused = refused
    BY <1>1
  <2>6. AudioHeld(m, r.m)
    BY <1>2, <2>2, HeldTwice
  <2> QED BY <1>2, <2>2, <2>3, <2>4, <2>5, <2>6 DEF r
<1>7. CASE ~(o.list = <<>> \/ refused)
  <2>1. after = Spliced(o.m, t, o.list) /\ o.list # <<>> /\ ~refused
    BY <1>7
  <2>2. r.m = On(SeekProgress(after, t, refused))
    BY <1>1
  <2> HIDE DEF after
  <2>3. OnlyTrack(o.m, after, t) /\ Queue(after, t) = Queue(o.m, t) \o o.list
    BY <1>2, <2>1, SplicedIn
  <2>4. after \in Media /\ after.state = o.m.state
    BY <2>3 DEF OnlyTrack, SameGate
  <2>5. after.wanted = o.m.wanted /\ after.actual = o.m.actual
    BY <1>2, <2>1 DEF Spliced, Media
  <2>6. AudioHeld(after, r.m)
    BY <1>5, <2>2, <2>4
  <2> HIDE DEF r, n, x, left
  <2>7. t # "audio" \/ list = <<>> => AudioHeld(m, r.m)
    <3> HAVE t # "audio" \/ list = <<>>
    <3>0. t # "audio"
      BY <1>2, <2>1
    <3>1. Queue(after, "audio") = Queue(o.m, "audio")
      BY <2>3, <3>0 DEF OnlyTrack, Track, Queue
    <3>2. AudioHeld(o.m, after)
      BY <2>4, <2>5, <3>1, HeldSame
    <3> QED BY <1>2, <2>6, <3>2, HeldTwice
  <2>8. r.refused = FALSE
    BY <1>1, <1>3, <2>1
  <2>9. t = "audio" => Queue(after, "audio") = Cat(Queue(o.m, "audio"), o.list)
    BY <2>3 DEF Cat
  <2> QED BY <1>2, <2>4, <2>5, <2>6, <2>7, <2>8, <2>9 DEF r
<1> HIDE DEF r
<1> QED BY <1>6, <1>7 DEF r

\* The end-of-stream marker adds no frame, and takes only the front.
LEMMA PutSampleAudio ==
  ASSUME NEW m \in Media, NEW t \in Track, NEW s \in Sample, s.flags = {"eos"}
  PROVE  AudioLess(m, PutSampleResult(m, t, s).m)
<1> DEFINE refused == t # "subtitle" /\ Duration(m, t) >= m.limit.max
           after   == IF refused THEN m ELSE AppendOne(m, t, s)
           atKey   == [after EXCEPT !.actual = s.time]
           started == WillAvailable(after, "audio") => AudioReached(after)
           sought  == [after EXCEPT !.sought = TRUE]
           both    == AudioSetPos(VideoSetPos(atKey))
           moved   == [AudioSetPos(after) EXCEPT
                         !.state = IF ~VideoPending(after) /\ started THEN "Starting" ELSE @]
           x       == SeekSample(after, t, s, refused)
           n       == On(x)
<1>1. PutSampleResult(m, t, s).m = n /\ refused \in BOOLEAN
  BY DEF PutSampleResult
<1>2. after \in Media /\ AudioLess(m, after)
  <2>0. AudioLess(m, m)
    BY HeldSame DEF AudioHeld
  <2>1. CASE refused
    BY <2>0, <2>1
  <2>2. CASE ~refused
    <3>1. after = AppendOne(m, t, s)
      BY <2>2
    <3> HIDE DEF after
    <3>2. OnlyTrack(m, after, t) /\ Queue(after, t) = Append(Queue(m, t), s)
      BY <3>1, AppendOneIn
    <3>3. after.wanted = m.wanted /\ after.state = m.state /\ after \in Media
      BY <3>1, <3>2 DEF AppendOne, Media, OnlyTrack
    <3>4. CASE t = "audio"
      <4> DEFINE q == Queue(m, "audio")
                 a == Append(q, s)
      <4>1. q \in Seq(Sample) /\ Len(q) \in Nat
        BY <3>4, MediaParts
      <4> HIDE DEF q
      <4>2. a \in Seq(Sample) /\ Len(a) = Len(q) + 1
            /\ (\A i \in 1..Len(q) : a[i] = q[i]) /\ a[Len(q) + 1] = s
        BY <4>1
      <4>3. Kind(s) # "frame" /\ ~Bare(s) /\ ~Has(s, "force")
        BY EosKind DEF Bare, Has
      <4> HIDE DEF a
      <4>4. \A i \in 1..Len(a) : Kind(a[i]) = "frame" \/ Bare(a[i]) \/ Has(a[i], "force") =>
                                   i \in 1..Len(q) /\ a[i] = q[i]
        BY <4>1, <4>2, <4>3
      <4>5. FrameTimes(a) = FrameTimes(q)
        <5>1. \A i \in 1..Len(q) : i \in 1..Len(a)
          BY <4>1, <4>2
        <5>2. ASSUME NEW e, e \in FrameTimes(a) PROVE e \in FrameTimes(q)
          <6>1. PICK i \in 1..Len(a) : Kind(a[i]) = "frame" /\ a[i].time = e
            BY <4>2, <5>2, FrameTimesIn
          <6> QED BY <4>1, <4>4, <6>1, FrameTimesIn
        <5>3. ASSUME NEW e, e \in FrameTimes(q) PROVE e \in FrameTimes(a)
          <6>1. PICK i \in 1..Len(q) : Kind(q[i]) = "frame" /\ q[i].time = e
            BY <4>1, <5>3, FrameTimesIn
          <6> QED BY <4>2, <5>1, <6>1, FrameTimesIn
        <5> QED BY <5>2, <5>3
      <4>6. Rising(q) => Rising(a)
        BY <4>4 DEF Rising
      <4>7. Steady(q) => Steady(a)
        <5> SUFFICES ASSUME Steady(q), NEW i \in 1..Len(a), NEW j \in 1..Len(a), i < j,
                            Kind(a[j]) = "frame"
                     PROVE  a[i].time <= a[j].time
          BY DEF Steady
        <5>1. j \in 1..Len(q) /\ a[j] = q[j]
          BY <4>4
        <5>2. i \in 1..Len(q) /\ a[i] = q[i]
          BY <4>1, <4>2, <5>1
        <5> QED BY <5>1, <5>2 DEF Steady
      <4>8. (Unforced(q) => Unforced(a)) /\ (Mute(q) => Mute(a))
        BY <4>4 DEF Unforced, Mute
      <4>9. Told(q) => Told(a)
        <5> SUFFICES ASSUME Told(q), FrameTimes(a) # {}, NEW i \in 1..Len(a), Bare(a[i])
                     PROVE  \E j \in i..Len(a) : Kind(a[j]) = "frame"
          BY DEF Told
        <5>1. i \in 1..Len(q) /\ a[i] = q[i]
          BY <4>4
        <5>2. PICK j \in i..Len(q) : Kind(q[j]) = "frame"
          BY <4>5, <5>1 DEF Told
        <5>3. j \in 1..Len(q) /\ j \in i..Len(a)
          BY <4>1, <4>2, <5>1
        <5> QED BY <4>2, <5>2, <5>3
      <4>10. Shed(a, q)
        BY <4>5, <4>6, <4>7, <4>8, <4>9 DEF Shed, LaterPart
      <4> QED BY <3>2, <3>3, <3>4, <4>5, <4>10 DEF AudioLess, a, q
    <3>5. CASE t # "audio"
      <4>1. Queue(after, "audio") = Queue(m, "audio")
        BY <3>2, <3>5 DEF OnlyTrack, Track, Queue
      <4> QED BY <3>3, <4>1, ShedSame DEF AudioLess
    <3> QED BY <3>3, <3>4, <3>5
  <2> QED BY <2>1, <2>2
<1> HIDE DEF after, refused
<1>3. /\ x = after \/ x = sought \/ (after.state = "Seeking" /\ (x = both \/ x = moved))
      /\ x \in Media
  <2>1. x \in Media
    BY <1>1, <1>2, SeekSampleIn DEF Trimmed
  <2> HIDE DEF moved, sought, both
  <2>2. x = after \/ x = sought \/ (after.state = "Seeking" /\ (x = both \/ x = moved))
    BY DEF SeekSample, moved, sought, both
  <2> QED BY <2>1, <2>2
<1>4. AudioLess(after, after)
  BY HeldSame DEF AudioHeld
<1>5. AudioLess(after, sought)
  <2>1. sought.track = after.track /\ sought.wanted = after.wanted /\ sought.state = after.state
    BY <1>2 DEF Media
  <2> HIDE DEF sought
  <2> QED BY <2>1, ShedSame DEF AudioLess, Queue
<1>6. ASSUME after.state = "Seeking" PROVE AudioLess(after, both)
  <2>1. atKey \in Media /\ atKey.track = after.track /\ atKey.wanted = after.wanted
        /\ atKey.state = after.state
    BY <1>2 DEF Media, Sample
  <2> HIDE DEF atKey
  <2>2. AudioLess(after, atKey)
    BY <2>1, ShedSame DEF AudioLess, Queue
  <2> DEFINE v == VideoSetPos(atKey)
  <2>3. AudioLess(atKey, v) /\ v \in Media /\ v.state = atKey.state
    BY <2>1, VideoSetPosIn, VideoSetPosHeld DEF Trimmed, AudioHeld
  <2> HIDE DEF v
  <2>4. AudioLess(v, both)
    BY <1>6, <2>1, <2>3, AudioSetPosHeld DEF v, AudioHeld
  <2> HIDE DEF both
  <2> QED BY <2>2, <2>3, <2>4, LessTwice
<1>7. ASSUME after.state = "Seeking" PROVE AudioLess(after, moved)
  <2> DEFINE a == AudioSetPos(after)
  <2>1. AudioLess(after, a) /\ a \in Media
    BY <1>2, <1>7, AudioSetPosIn, AudioSetPosHeld DEF Trimmed, AudioHeld
  <2> HIDE DEF a, started
  <2>2. moved.track = a.track /\ moved.wanted = a.wanted
        /\ (moved.state = "Seeking" => a.state = "Seeking")
    BY <2>1 DEF Media, a
  <2> HIDE DEF moved
  <2>3. AudioLess(a, moved)
    BY <2>2, ShedSame DEF AudioLess, Queue
  <2> QED BY <2>1, <2>3, LessTwice
<1> HIDE DEF x, sought, both, moved
<1>8. AudioLess(after, x)
  BY <1>3, <1>4, <1>5, <1>6, <1>7
<1>9. AudioLess(x, n)
  BY <1>3, OnHeld DEF AudioHeld
<1> HIDE DEF n
<1> QED BY <1>1, <1>2, <1>8, <1>9, LessTwice

\* What GetSample takes off the audio track: nothing while the gate is shut.
LEMMA GetAudioIn ==
  ASSUME NEW m \in Media, NEW t \in Track, NEW want \in Nat, Unforced(Queue(m, "audio"))
  PROVE  LET r == GetSampleResult(m, t, want)
             q == Queue(m, "audio")
         IN  \/ r.m = m /\ r.taken = <<>>
             \/ /\ m.state = "Running" /\ r.m.state # "Seeking"
                /\ \/ Queue(r.m, "audio") = q /\ (t = "audio" => r.taken = <<>>)
                   \/ /\ t = "audio" /\ q \in Seq(Sample) /\ q # <<>>
                      /\ r.taken \in Seq(Sample) /\ Len(r.taken) = 1 /\ r.taken[1] = q[1]
                      /\ Queue(r.m, "audio") = Tail(q)
<1> DEFINE q     == Queue(m, t)
           count == CASE t = "subtitle" -> Due(q, want)
                      [] t # "subtitle" /\ q = <<>> -> 0
                      [] OTHER -> 1
           m1    == IF t = "video" /\ count = 1 THEN MarkLate(m, want) ELSE m
           pop   == CHOOSE f : f = Pops(m1, t, count, f)
           r     == GetSampleResult(m, t, want)
           some  == [m |-> pop[count], taken |-> SubSeq(Queue(m1, t), 1, count)]
<1>1. r = CASE ~MayGet(m, t)              -> [m |-> m, taken |-> <<>>]
            [] MayGet(m, t) /\ count = 0  -> [m |-> Off(m, t), taken |-> <<>>]
            [] OTHER -> some
  BY DEF GetSampleResult, Pops
<1> HIDE DEF some, r
<1>2. q \in Seq(Sample) /\ Len(q) \in Nat /\ (q = <<>> <=> Len(q) = 0)
  <2>1. q \in Seq(Sample)
    BY MediaParts
  <2> HIDE DEF q
  <2> QED BY <2>1, EmptySeq
<1>3. MayGet(m, t) => m.state = "Running"
  <2>1. t = "audio" /\ q # <<>> => 1 \in 1..Len(q) /\ q = Queue(m, "audio")
    <3> HIDE DEF q
    <3>1. q # <<>> => 1 \in 1..Len(q)
      BY <1>2
    <3> QED BY <3>1 DEF q
  <2> HIDE DEF r, some, pop, m1, count
  <2> QED BY <2>1 DEF MayGet, Unforced
<1>4. CASE ~MayGet(m, t)
  <2>1. r = [m |-> m, taken |-> <<>>]
    BY <1>1, <1>4
  <2> QED BY <2>1 DEF r
<1>5. CASE MayGet(m, t) /\ count = 0
  <2>1. r = [m |-> Off(m, t), taken |-> <<>>]
    BY <1>1, <1>5
  <2>2. Off(m, t).track = m.track /\ Off(m, t).state # "Seeking"
    <3>1. Off(m, t) = m \/ Off(m, t) = [m EXCEPT !.state = "Buffering"]
      BY DEF Off
    <3> DEFINE o == Off(m, t)
    <3> HIDE DEF o
    <3>2. o = m \/ o = [m EXCEPT !.state = "Buffering"]
      BY <3>1 DEF o
    <3>3. o.track = m.track /\ o.state # "Seeking"
      BY <1>3, <1>5, <3>2 DEF Media
    <3> QED BY <3>3 DEF o
  <2> QED BY <1>3, <1>5, <2>1, <2>2 DEF r, Queue
<1>6. CASE MayGet(m, t) /\ count # 0
  <2>1. r.m = pop[count] /\ r.taken = SubSeq(Queue(m1, t), 1, count) /\ m.state = "Running"
    BY <1>1, <1>3, <1>6 DEF some
  <2>2. r.m.state # "Seeking"
    <3>1. \/ r.m = m \/ r.m = Off(m, t) \/ OnlyTrack(m, r.m, t)
      <4> HIDE DEF r, pop, m1, count
      <4> QED BY GetSampleIn DEF r
    <3>2. Off(m, t) = m \/ Off(m, t) = [m EXCEPT !.state = "Buffering"]
      BY DEF Off
    <3> HIDE DEF r, pop, m1, count
    <3>3. Off(m, t).state # "Seeking"
      BY <2>1, <3>2 DEF Media
    <3> QED BY <2>1, <3>1, <3>3 DEF OnlyTrack, SameGate
  <2>3. CASE t = "audio"
    <3>1. m1 = m /\ count = 1 /\ q # <<>> /\ q = Queue(m, "audio")
      BY <1>6, <2>3
    <3>2. pop = Pops(m, t, 1, pop)
      <4>1. pop = CHOOSE f : f = Pops(m, t, 1, f)
        BY <3>1
      <4> HIDE DEF pop
      <4>2. \E f : f = Pops(m, t, 1, f)
        BY Poppable
      <4> QED BY <4>1, <4>2
    <3> HIDE DEF pop, m1, count, r
    <3>3. r.m = Pop(m, t) /\ r.taken = SubSeq(q, 1, 1)
      <4>1. 0 \in 0..1 /\ 1 \in 0..1 /\ 1 # 0 /\ 1 - 1 = 0
        OBVIOUS
      <4>2. pop[0] = m /\ pop[1] = Pop(pop[0], t)
        BY <3>2, <4>1 DEF Pops
      <4> QED BY <2>1, <3>1, <4>2
    <3>4. r.taken \in Seq(Sample) /\ Len(r.taken) = 1 /\ r.taken[1] = q[1]
      <4> HIDE DEF q
      <4> QED BY <1>2, <3>1, <3>3
    <3>5. Queue(r.m, t) = Tail(q)
      <4>1. Len(q) >= 1 /\ Queue(m, t) # <<>>
        <5>1. q # <<>> => Len(q) >= 1
          <6> HIDE DEF q
          <6> QED BY <1>2
        <5> QED BY <3>1, <5>1
      <4> QED BY <3>1, <3>3, <4>1, PopIn
    <3> QED BY <1>2, <2>1, <2>2, <2>3, <3>1, <3>4, <3>5 DEF r
  <2>4. CASE t # "audio"
    <3>1. \/ r.m = m \/ r.m = Off(m, t) \/ OnlyTrack(m, r.m, t)
      <4> HIDE DEF r, pop, m1, count
      <4> QED BY GetSampleIn DEF r
    <3>2. Off(m, t).track = m.track
      BY OffIn
    <3> HIDE DEF r, pop, m1, count
    <3>3. Queue(r.m, "audio") = Queue(m, "audio")
      BY <2>4, <3>1, <3>2 DEF OnlyTrack, Track, Queue
    <3> QED BY <2>1, <2>2, <2>4, <3>3 DEF r
  <2> QED BY <2>3, <2>4
<1> QED BY <1>4, <1>5, <1>6

-----------------------------------------------------------------------------
(* Lists one after the other *)

\* What comes after rising frames, with later ones, rises with them.
LEMMA CatAudio ==
  ASSUME NEW q \in Seq(Sample), NEW c \in Seq(Sample)
  PROVE  /\ FrameTimes(Cat(q, c)) = FrameTimes(q) \cup FrameTimes(c)
         /\ Rising(q) /\ Rising(c) /\ (\A x \in FrameTimes(q), y \in FrameTimes(c) : x < y)
              => Rising(Cat(q, c))
         /\ Unforced(q) /\ Unforced(c) => Unforced(Cat(q, c))
         /\ \A S : Upto(q, S) /\ Upto(c, S) => Upto(Cat(q, c), S)
<1> DEFINE a == Cat(q, c)
<1>1. /\ a \in Seq(Sample) /\ Len(a) = Len(q) + Len(c)
      /\ Len(q) \in Nat /\ Len(c) \in Nat
      /\ \A k \in 1..Len(q) : a[k] = q[k]
      /\ \A k \in 1..Len(c) : a[Len(q) + k] = c[k]
  BY CatParts
<1> HIDE DEF a
<1>2. \A i \in 1..Len(a) : \/ i \in 1..Len(q) /\ a[i] = q[i]
                           \/ i - Len(q) \in 1..Len(c) /\ a[i] = c[i - Len(q)]
  <2> TAKE i \in 1..Len(a)
  <2>1. i \in 1..Len(q) \/ (i - Len(q) \in 1..Len(c) /\ Len(q) + (i - Len(q)) = i)
    BY <1>1
  <2> QED BY <1>1, <2>1
<1>in. /\ \A x : x \in FrameTimes(a) <=> \E i \in 1..Len(a) : Kind(a[i]) = "frame" /\ a[i].time = x
       /\ \A x : x \in FrameTimes(q) <=> \E i \in 1..Len(q) : Kind(q[i]) = "frame" /\ q[i].time = x
       /\ \A x : x \in FrameTimes(c) <=> \E i \in 1..Len(c) : Kind(c[i]) = "frame" /\ c[i].time = x
  BY <1>1, FrameTimesIn
<1>3. FrameTimes(a) = FrameTimes(q) \cup FrameTimes(c)
  <2>1. ASSUME NEW x \in FrameTimes(a) PROVE x \in FrameTimes(q) \cup FrameTimes(c)
    <3>1. PICK i \in 1..Len(a) : Kind(a[i]) = "frame" /\ a[i].time = x
      BY <1>in
    <3>2. CASE i \in 1..Len(q) /\ a[i] = q[i]
      BY <1>in, <3>1, <3>2
    <3>3. CASE i - Len(q) \in 1..Len(c) /\ a[i] = c[i - Len(q)]
      BY <1>in, <3>1, <3>3
    <3> QED BY <1>2, <3>2, <3>3
  <2>2. ASSUME NEW x \in FrameTimes(q) PROVE x \in FrameTimes(a)
    <3>1. PICK i \in 1..Len(q) : Kind(q[i]) = "frame" /\ q[i].time = x
      BY FrameTimesIn
    <3>2. i \in 1..Len(a) /\ a[i] = q[i]
      BY <1>1
    <3> QED BY <1>in, <3>1, <3>2
  <2>3. ASSUME NEW x \in FrameTimes(c) PROVE x \in FrameTimes(a)
    <3>1. PICK i \in 1..Len(c) : Kind(c[i]) = "frame" /\ c[i].time = x
      BY FrameTimesIn
    <3>2. Len(q) + i \in 1..Len(a) /\ a[Len(q) + i] = c[i]
      BY <1>1
    <3> QED BY <1>in, <3>1, <3>2
  <2> QED BY <2>1, <2>2, <2>3
<1>4. ASSUME Rising(q), Rising(c), \A x \in FrameTimes(q), y \in FrameTimes(c) : x < y
      PROVE  Rising(a)
  <2> SUFFICES ASSUME NEW i \in 1..Len(a), NEW j \in 1..Len(a), i < j,
                      Kind(a[i]) = "frame", Kind(a[j]) = "frame"
               PROVE  a[i].time < a[j].time
    BY DEF Rising
  <2>1. CASE j \in 1..Len(q) /\ a[j] = q[j]
    <3>1. i \in 1..Len(q) /\ a[i] = q[i]
      BY <1>1, <2>1
    <3> QED BY <1>4, <2>1, <3>1 DEF Rising
  <2>2. CASE j - Len(q) \in 1..Len(c) /\ a[j] = c[j - Len(q)]
    <3>1. CASE i \in 1..Len(q) /\ a[i] = q[i]
      <4>1. a[i].time \in FrameTimes(q) /\ a[j].time \in FrameTimes(c)
        BY <2>2, <3>1, FrameTimesIn
      <4> QED BY <1>4, <4>1
    <3>2. CASE i - Len(q) \in 1..Len(c) /\ a[i] = c[i - Len(q)]
      <4>1. i - Len(q) < j - Len(q)
        BY <1>1
      <4> QED BY <1>4, <2>2, <3>2, <4>1 DEF Rising
    <3> QED BY <1>2, <3>1, <3>2
  <2> QED BY <1>2, <2>1, <2>2
<1>5. Unforced(q) /\ Unforced(c) => Unforced(a)
  BY <1>2 DEF Unforced
<1>6. \A S : Upto(q, S) /\ Upto(c, S) => Upto(a, S)
  BY <1>2 DEF Upto
<1> QED BY <1>3, <1>4, <1>5, <1>6 DEF a

\* The first sample of a list that rises, and the others
LEMMA TailAudio ==
  ASSUME NEW q \in Seq(Sample), q # <<>>, Rising(q)
  PROVE  /\ Rising(Tail(q)) /\ (Unforced(q) => Unforced(Tail(q)))
         /\ FrameTimes(q) = FrameTimes(Tail(q)) \cup
                            (IF Kind(q[1]) = "frame" THEN {q[1].time} ELSE {})
         /\ Kind(q[1]) = "frame" => \A x \in FrameTimes(Tail(q)) : q[1].time < x
<1> DEFINE a == Tail(q)
<1>1. /\ a \in Seq(Sample) /\ Len(a) = Len(q) - 1 /\ Len(q) \in Nat /\ 1 \in 1..Len(q)
      /\ \A i \in 1..Len(a) : a[i] = q[i + 1] /\ i + 1 \in 2..Len(q) /\ i + 1 \in 1..Len(q)
  OBVIOUS
<1> HIDE DEF a
<1>2. \A i \in 2..Len(q) : i - 1 \in 1..Len(a) /\ a[i - 1] = q[i]
  <2> TAKE i \in 2..Len(q)
  <2>1. i - 1 \in 1..Len(a) /\ (i - 1) + 1 = i
    BY <1>1
  <2> QED BY <1>1, <2>1
<1>3. \A i \in 1..Len(q) : i = 1 \/ i \in 2..Len(q)
  BY <1>1
<1>in. /\ \A x : x \in FrameTimes(a) <=> \E i \in 1..Len(a) : Kind(a[i]) = "frame" /\ a[i].time = x
       /\ \A x : x \in FrameTimes(q) <=> \E i \in 1..Len(q) : Kind(q[i]) = "frame" /\ q[i].time = x
  BY <1>1, FrameTimesIn
<1>4. FrameTimes(q) = FrameTimes(a) \cup (IF Kind(q[1]) = "frame" THEN {q[1].time} ELSE {})
  <2>1. ASSUME NEW x \in FrameTimes(q)
        PROVE  x \in FrameTimes(a) \/ (Kind(q[1]) = "frame" /\ x = q[1].time)
    <3>1. PICK i \in 1..Len(q) : Kind(q[i]) = "frame" /\ q[i].time = x
      BY FrameTimesIn
    <3>2. CASE i = 1
      BY <3>1, <3>2
    <3>3. CASE i \in 2..Len(q)
      BY <1>in, <1>2, <3>1, <3>3
    <3> QED BY <1>3, <3>2, <3>3
  <2>2. ASSUME NEW x \in FrameTimes(a) PROVE x \in FrameTimes(q)
    <3>1. PICK i \in 1..Len(a) : Kind(a[i]) = "frame" /\ a[i].time = x
      BY <1>in
    <3> QED BY <1>1, <1>in, <3>1
  <2>3. Kind(q[1]) = "frame" => q[1].time \in FrameTimes(q)
    BY <1>1, FrameTimesIn
  <2> QED BY <2>1, <2>2, <2>3
<1>5. Rising(a)
  <2>1. \A i, j \in 1..Len(a) : i < j => i + 1 < j + 1
    BY <1>1
  <2> QED BY <1>1, <2>1 DEF Rising
<1>6. Kind(q[1]) = "frame" => \A x \in FrameTimes(a) : q[1].time < x
  <2> SUFFICES ASSUME Kind(q[1]) = "frame", NEW x \in FrameTimes(a) PROVE q[1].time < x
    OBVIOUS
  <2>1. PICK i \in 1..Len(a) : Kind(a[i]) = "frame" /\ a[i].time = x
    BY <1>1, FrameTimesIn
  <2>2. 1 < i + 1
    BY <1>1
  <2> QED BY <1>1, <2>1, <2>2 DEF Rising
<1>7. Unforced(q) => Unforced(a)
  BY <1>1 DEF Unforced
<1> QED BY <1>4, <1>5, <1>6, <1>7 DEF a

\* What AddBuffers notes of a list is the time of a sample of it.
LEMMA BareTimesOf ==
  ASSUME NEW list \in Seq(Sample), BareTimes(list) # <<>>
  PROVE  \E i \in 1..Len(list) : BareTimes(list)[2] = list[i].time
<1> DEFINE at == {i \in DOMAIN list : Bare(list[i])}
<1>1. at # {} /\ BareTimes(list) = <<list[Min(at)].time, list[Max(at)].time>>
  BY DEF BareTimes
<1>2. at \subseteq 1..Len(list) /\ Len(list) \in Nat
  OBVIOUS
<1> HIDE DEF at
<1>3. IsFiniteSet(at) /\ at \subseteq Nat
  BY <1>2, Positions
<1>4. Max(at) \in 1..Len(list)
  BY <1>1, <1>2, <1>3, MaxIn
<1> QED BY <1>1, <1>4
=============================================================================
