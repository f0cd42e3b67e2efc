------------------------- MODULE PlaybackBufferProofs -------------------------
(***************************************************************************)
(* What holds of the buffer and everybody who touches it for any streams,  *)
(* any number of item threads, seeks and parameter values.                 *)
(***************************************************************************)
EXTENDS PlaybackBuffer, MediaBufferProofs

-----------------------------------------------------------------------------
(* What the player has had *)

\* The fold over the samples that were taken, one step at a time
Folding(had, taken, g) ==
  [s \in SUBSET (DOMAIN taken) |->
     IF s = {} THEN had ELSE Seen(g[s \ {Max(s)}], taken[Max(s)])]

LEMMA NoneTaken ==
  ASSUME NEW had
  PROVE  FoldLeft(Seen, had, <<>>) = had
<1> DEFINE g == CHOOSE f : f = Folding(had, <<>>, f)
<1>1. FoldLeft(Seen, had, <<>>) = g[DOMAIN <<>>]
  BY DEF FoldLeft, MapThenFoldSet, Folding
<1>2. DOMAIN <<>> = {}
  OBVIOUS
<1>3. \E f : f = Folding(had, <<>>, f)
  <2> DEFINE f == [s \in SUBSET {} |-> had]
  <2>1. f = Folding(had, <<>>, f)
    BY <1>2 DEF Folding
  <2> QED BY <2>1
<1>4. g = Folding(had, <<>>, g)
  BY <1>3
<1> HIDE DEF g
<1> QED BY <1>1, <1>2, <1>4 DEF Folding

LEMMA OneTaken ==
  ASSUME NEW had, NEW taken \in Seq(Sample), Len(taken) = 1
  PROVE  FoldLeft(Seen, had, taken) = Seen(had, taken[1])
<1> DEFINE g == CHOOSE f : f = Folding(had, taken, f)
<1>1. FoldLeft(Seen, had, taken) = g[DOMAIN taken]
  BY DEF FoldLeft, MapThenFoldSet, Folding
<1>2. DOMAIN taken = {1}
  OBVIOUS
<1>3. Max({1}) = 1
  <2>1. {1} \subseteq Nat /\ {1} # {}
    OBVIOUS
  <2>3. IsFiniteSet({1})
    BY FS_Singleton, Zenon
  <2>2. Max({1}) \in {1}
    BY <2>1, <2>3, MaxIn
  <2> QED BY <2>2
<1>4. \A s \in SUBSET {1} : s # {} => s = {1}
  OBVIOUS
<1>5. \E f : f = Folding(had, taken, f)
  <2> DEFINE f == [s \in SUBSET {1} |-> IF s = {} THEN had ELSE Seen(had, taken[1])]
  <2>1. f[{}] = had
    OBVIOUS
  <2>2. \A s \in SUBSET {1} : f[s] = IF s = {} THEN had ELSE Seen(f[s \ {Max(s)}], taken[Max(s)])
    <3>1. {1} \ {1} = {}
      OBVIOUS
    <3>2. f[{1}] = Seen(had, taken[1])
      OBVIOUS
    <3> HIDE DEF f
    <3> TAKE s \in SUBSET {1}
    <3>3. CASE s = {}
      BY <2>1, <3>3
    <3>4. CASE s # {}
      <4>1. s = {1}
        BY <1>4, <3>4
      <4>2. Max(s) = 1 /\ s \ {Max(s)} = {}
        BY <1>3, <3>1, <4>1
      <4>3. f[s] = Seen(f[{}], taken[1])
        BY <2>1, <3>2, <4>1
      <4> QED BY <3>4, <4>2, <4>3
    <3> QED BY <3>3, <3>4
  <2>3. f = Folding(had, taken, f)
    <3>1. f = [s \in SUBSET {1} |-> f[s]]
      OBVIOUS
    <3> HIDE DEF f
    <3> QED BY <1>2, <2>2, <3>1 DEF Folding
  <2> QED BY <2>3
<1>6. g = Folding(had, taken, g)
  BY <1>5
<1> HIDE DEF g
<1>7. g[{}] = had
  BY <1>2, <1>6 DEF Folding
<1>8. g[{1}] = Seen(g[{}], taken[1])
  <2>1. g[{1}] = Seen(g[{1} \ {Max({1})}], taken[Max({1})])
    BY <1>2, <1>6 DEF Folding
  <2>2. {1} \ {1} = {}
    OBVIOUS
  <2> QED BY <1>3, <2>1, <2>2
<1> QED BY <1>1, <1>2, <1>7, <1>8

\* The end of the stream is had when its marker is.
LEMMA SeenIn ==
  ASSUME NEW g \in Had, NEW s \in Sample
  PROVE  /\ Seen(g, s) \in Had
         /\ Seen(g, s).eos # 0 => g.eos # 0 \/ Kind(s) = "eos"
<1>1. CASE Kind(s) = "frame"
  <2>1. Seen(g, s) = [g EXCEPT !.last = s, !.first = IF @ = NoFrame THEN s ELSE @]
    BY <1>1 DEF Seen
  <2> QED BY <2>1 DEF Had
<1>2. CASE Kind(s) = "format"
  <2>1. Seen(g, s) = [g EXCEPT !.fmt = s.fmt, !.off = FALSE]
    BY <1>2 DEF Seen
  <2>2. s.fmt \in Encoding
    BY DEF Sample
  <2> QED BY <2>1, <2>2 DEF Had
<1>3. CASE Kind(s) = "eos"
  <2>1. Seen(g, s) = [g EXCEPT !.eos = @ + 1, !.off = TRUE]
    BY <1>3 DEF Seen
  <2>2. g.eos + 1 \in Nat
    BY DEF Had
  <2>3. Seen(g, s) \in Had
    BY <2>1, <2>2 DEF Had
  <2> QED BY <1>3, <2>3
<1>4. CASE Kind(s) = "unavail"
  <2>1. Seen(g, s) = [g EXCEPT !.off = TRUE]
    BY <1>4 DEF Seen
  <2> QED BY <2>1 DEF Had
<1>5. CASE Kind(s) \notin {"frame", "format", "eos", "unavail"}
  <2>1. Seen(g, s) = g
    BY <1>5 DEF Seen
  <2> QED BY <2>1
<1> QED BY <1>1, <1>2, <1>3, <1>4, <1>5

\* What a GetSample call of a gated track does to what the player has had
LEMMA TakenIn ==
  ASSUME media \in Media, NEW t \in Gated, NEW want \in Nat, NEW had \in Had
  PROVE  LET r == GetSampleResult(media, t, want)
             h == FoldLeft(Seen, had, r.taken)
         IN  /\ h \in Had
             /\ h = had \/ (Queue(media, t) # <<>> /\ Within(Queue(r.m, t), Queue(media, t)))
             /\ h.eos # 0 => had.eos # 0
                             \/ /\ Queue(media, t) # <<>> /\ Kind(Queue(media, t)[1]) = "eos"
                                /\ EndsOnce(Queue(media, t)) => Frameless(Queue(r.m, t))
             /\ Within(Queue(r.m, t), Queue(media, t))
<1> DEFINE r == GetSampleResult(media, t, want)
           h == FoldLeft(Seen, had, r.taken)
           q == Queue(media, t)
<1>1. t \in Track /\ t # "subtitle"
  BY DEF Gated, Track
<1>2. CASE r.taken = <<>> /\ r.m.track = media.track
  <2>1. h = had
    BY <1>2, NoneTaken
  <2>2. Within(Queue(r.m, t), q)
    BY <1>2 DEF Within, Queue
  <2> QED BY <2>1, <2>2
<1>3. CASE ~(r.taken = <<>> /\ r.m.track = media.track)
  <2>1. \/ r.m = media /\ r.taken = <<>>
        \/ r.m = Off(media, t) /\ r.taken = <<>>
        \/ /\ q # <<>> /\ r.taken \in Seq(Sample) /\ Len(r.taken) = 1
           /\ Kind(r.taken[1]) = Kind(q[1])
           /\ Within(Queue(r.m, t), q)
           /\ EndsOnce(q) /\ Kind(q[1]) = "eos" => Frameless(Queue(r.m, t))
    BY <1>1, GetSampleIn
  <2>2. Off(media, t).track = media.track
    BY <1>1, OffIn
  <2>3. /\ q # <<>> /\ r.taken \in Seq(Sample) /\ Len(r.taken) = 1
        /\ Kind(r.taken[1]) = Kind(q[1])
        /\ Within(Queue(r.m, t), q)
        /\ EndsOnce(q) /\ Kind(q[1]) = "eos" => Frameless(Queue(r.m, t))
    BY <1>3, <2>1, <2>2
  <2> HIDE DEF r
  <2>4. h = Seen(had, r.taken[1])
    BY <2>3, OneTaken
  <2>5. r.taken[1] \in Sample
    BY <2>3
  <2>6. h \in Had /\ (h.eos # 0 => had.eos # 0 \/ Kind(r.taken[1]) = "eos")
    BY <2>4, <2>5, SeenIn
  <2> QED BY <2>3, <2>6 DEF r
<1> QED BY <1>2, <1>3

-----------------------------------------------------------------------------
(* Types *)

\* The seek thread has a target while it is at work.
Targeted == seek.pc # "idle" => seek.point \in SeekPoints
TypeInv == TypeOK /\ Targeted

\* A thread's record
LEMMA WorkerParts ==
  ASSUME TypeOK, NEW th \in Thread
  PROVE  /\ thread[th] \in Worker /\ thread[th].at \in ThreadAt /\ thread[th].next \in Nat
         /\ thread[th].note \in Nat /\ thread[th].refused \in BOOLEAN
         /\ thread[th].list \in [Track -> Seq(Sample)]
         /\ \A t \in Track : thread[th].list[t] \in Seq(Sample)
<1>1. thread[th] \in Worker
  BY DEF TypeOK
<1> QED BY <1>1 DEF Worker

LEMMA StartedIn ==
  ASSUME NEW n \in Nat
  PROVE  Started(n) \in Worker /\ [Started(n) EXCEPT !.at = "exited"] \in Worker
<1>1. NoChunk \in [Track -> Seq(Sample)]
  BY DEF NoChunk
<1> QED BY <1>1 DEF Started, Worker, ThreadAt

LEMMA NothingIn ==
  /\ DOMAIN Nothing = Track
  /\ \A t \in Gated : Nothing[t] \in Had /\ Nothing[t].eos = 0
<1> DEFINE none == [fmt |-> "none", first |-> NoFrame, last |-> NoFrame, off |-> FALSE, eos |-> 0]
<1>1. none \in Had /\ none.eos = 0
  <2>1. "none" \in Encoding
    BY EncodingAssumption
  <2>2. NoFrame \in Sample \cup {NoFrame} /\ 0 \in Nat /\ FALSE \in BOOLEAN
    OBVIOUS
  <2>3. none.eos = 0
    OBVIOUS
  <2>4. none \in Had
    BY <2>1, <2>2 DEF Had
  <2> QED BY <2>3, <2>4
<1>2. Nothing = [t \in Track |-> none]
  BY DEF Nothing
<1> HIDE DEF none
<1>3. Gated \subseteq Track
  BY DEF Gated, Track
<1> QED BY <1>1, <1>2, <1>3

LEMMA InitType == Init => TypeInv
<1> SUFFICES ASSUME Init PROVE TypeInv
  OBVIOUS
<1>1. media \in Media /\ lastAudio \in Nat
  <2>1. EmptyTrack \in TrackBuffer
    BY DEF EmptyTrack, TrackBuffer
  <2> QED BY <2>1, MediaBufferAssumption DEF Init, MediaInit, Media, BufferState, Style
<1>2. thread \in [Thread -> Worker]
  BY StartedIn DEF Init
<1>3. seek \in Seeker /\ Targeted
  BY PlaybackBufferAssumption DEF Init, Seeker, SeekAt, Targeted
<1>4. DOMAIN got = Track /\ \A t \in Gated : got[t] \in Had
  BY NothingIn DEF Init
<1> QED BY <1>1, <1>2, <1>3, <1>4 DEF Init, TypeInv, TypeOK

\* The format a new parser announces precedes the list.
LEMMA AnnouncedIn ==
  ASSUME NEW list \in Seq(Sample)
  PROVE  Announced(list) \in Seq(Sample) /\ (Unended(list) => Unended(Announced(list)))
<1> DEFINE s == [flags |-> {"format"}, fmt |-> list[1].fmt,
                 time |-> IF list[1].time = 0 THEN 0 ELSE list[1].time - 1]
<1>1. CASE Announced(list) = list
  BY <1>1
<1>2. CASE Announced(list) # list
  <2>1. list # <<>> /\ Announced(list) = <<s>> \o list
    BY <1>2 DEF Announced
  <2>2. list[1] \in Sample
    BY <2>1
  <2>3. list[1].time \in Nat /\ list[1].fmt \in Encoding
    BY <2>2 DEF Sample
  <2>4. s \in Sample /\ s.flags = {"format"}
    BY <2>3 DEF Sample, Flag, Priority
  <2> HIDE DEF s
  <2>5. Kind(s) = "format"
    <3>1. 2 \in DOMAIN Priority /\ Priority[2] = "format"
      BY DEF Priority
    <3>2. \A i \in DOMAIN Priority : Has(s, Priority[i]) <=> i = 2
      BY <2>4 DEF Priority, Has
    <3> QED BY <2>4, <3>1, <3>2, KindOfMarker
  <2>6. <<s>> \in Seq(Sample) /\ Unended(<<s>>)
    BY <2>4, <2>5 DEF Unended
  <2> QED BY <2>1, <2>6, Joined
<1> QED BY <1>1, <1>2

\* Chunks are lists of samples without an end.
LEMMA ChunkIn ==
  ASSUME NEW th \in Thread, NEW n \in DOMAIN Stream[th], NEW t \in Track
  PROVE  Stream[th][n] \in [Track -> Seq(Sample)] /\ Unended(Stream[th][n][t])
<1>1. Stream[th] \in Seq([Track -> Seq(Sample)])
  BY StreamAssumption
<1>2. Stream[th][n] \in [Track -> Seq(Sample)]
  BY <1>1
<1>3. \A i \in DOMAIN Stream[th][n][t] : Kind(Stream[th][n][t][i]) # "eos"
  BY StreamAssumption
<1>4. DOMAIN Stream[th][n][t] = 1..Len(Stream[th][n][t])
  BY <1>2
<1> QED BY <1>2, <1>3, <1>4 DEF Unended

\* The chunk a seek leads to has a number.
LEMMA ChunkAtIn ==
  ASSUME NEW th \in Thread, NEW point
  PROVE  ChunkAt(Stream[th], point) \in Nat
<1> DEFINE S == {1} \cup {n \in DOMAIN Stream[th] : ChunkStart(Stream[th][n]) <= point}
<1>1. Stream[th] \in Seq([Track -> Seq(Sample)])
  BY StreamAssumption
<1>2. Len(Stream[th]) \in Nat /\ DOMAIN Stream[th] = 1..Len(Stream[th])
  BY <1>1
<1>3. S \subseteq 1..(Len(Stream[th]) + 1) /\ Len(Stream[th]) + 1 \in Nat /\ S # {}
  BY <1>2
<1>4. ChunkAt(Stream[th], point) = Max(S)
  BY DEF ChunkAt
<1> HIDE DEF S
<1>5. IsFiniteSet(S) /\ S \subseteq Nat
  BY <1>3, Positions
<1>6. Max(S) \in S
  BY <1>3, <1>5, MaxIn
<1> QED BY <1>4, <1>5, <1>6

\* What AddBuffers hands to the buffer, for a thread's list
LEMMA AddBuffersIn ==
  ASSUME TypeOK, NEW t \in Track, NEW list \in Seq(Sample)
  PROVE  LET l == IF t = "audio" /\ list # <<>> THEN WithoutHeard(list) ELSE list
         IN  /\ AddBuffersResult(t, list) = PutSamplesResult(media, t, l)
             /\ l \in Seq(Sample) /\ Cut(l, list) /\ (list = <<>> => l = <<>>)
<1> DEFINE l == IF t = "audio" /\ list # <<>> THEN WithoutHeard(list) ELSE list
<1>1. lastAudio \in Nat
  BY DEF TypeOK
<1>2. WithoutHeard(list) \in Seq(Sample) /\ Cut(WithoutHeard(list), list)
  BY <1>1, WithoutHeardIn
<1>3. Cut(list, list)
  BY CutSame
<1>4. l \in Seq(Sample) /\ Cut(l, list) /\ (list = <<>> => l = <<>>)
  BY <1>2, <1>3
<1>5. AddBuffersResult(t, list) = PutSamplesResult(media, t, l)
  BY DEF AddBuffersResult
<1> QED BY <1>4, <1>5

\* What a call into the buffer returns, for the lists and markers of the threads
LEMMA OfferType ==
  ASSUME TypeOK, NEW th \in Thread, NEW t \in Track
  PROVE  LET r == AddBuffersResult(t, thread[th].list[t])
         IN  /\ r.m \in Media /\ r.list \in Seq(Sample) /\ r.refused \in BOOLEAN
             /\ Within(r.list, thread[th].list[t])
             /\ thread[th].list[t] = <<>> \/ ~r.refused => r.list = <<>>
             /\ \A u \in Track \ {t} : Replaces(Queue(r.m, u), Queue(media, u))
             /\ Replaces(Cat(Queue(r.m, t), r.list), Cat(Queue(media, t), thread[th].list[t]))
             /\ r.m.limit = media.limit /\ r.m.style = media.style
<1> DEFINE list == thread[th].list[t]
           l == IF t = "audio" /\ list # <<>> THEN WithoutHeard(list) ELSE list
<1>1. list \in Seq(Sample)
  BY WorkerParts
<1> HIDE DEF list
<1>2. /\ AddBuffersResult(t, list) = PutSamplesResult(media, t, l)
      /\ l \in Seq(Sample) /\ Cut(l, list) /\ (list = <<>> => l = <<>>)
  BY <1>1, AddBuffersIn
<1> HIDE DEF l
<1>3. media \in Media /\ Queue(media, t) \in Seq(Sample)
  BY MediaParts DEF TypeOK
<1> DEFINE r == PutSamplesResult(media, t, l)
<1>4. /\ r.list \in Seq(Sample) /\ Within(r.list, l) /\ r.refused \in BOOLEAN
      /\ r.m \in Media /\ r.m.limit = media.limit /\ r.m.style = media.style
      /\ l = <<>> \/ ~r.refused => r.list = <<>>
      /\ \A u \in Track \ {t} : Replaces(Queue(r.m, u), Queue(media, u))
      /\ Replaces(Cat(Queue(r.m, t), r.list), Cat(Queue(media, t), l))
  BY <1>2, <1>3, PutSamplesIn
<1> HIDE DEF r
<1>5. Within(r.list, list)
  BY <1>2, <1>4 DEF Cut, Within
<1>6. Replaces(Cat(Queue(r.m, t), r.list), Cat(Queue(media, t), list))
  <2>1. Replaces(Queue(media, t), Queue(media, t)) /\ Replaces(l, list)
    BY <1>2 DEF Replaces, Cut
  <2>2. Replaces(Cat(Queue(media, t), l), Cat(Queue(media, t), list))
    BY <1>1, <1>2, <1>3, <2>1, ReplacesBoth
  <2> QED BY <1>4, <2>2, ReplacesTwice
<1> QED BY <1>2, <1>4, <1>5, <1>6 DEF r, list

LEMMA MarkerIn ==
  ASSUME TypeOK, NEW th \in Thread
  PROVE  EosMarker(th) \in Sample /\ EosMarker(th).flags = {"eos"}
<1>1. thread[th].note \in Nat
  BY WorkerParts
<1> QED BY <1>1, EncodingAssumption DEF EosMarker, Sample, Flag, Priority

\* One thread's record replaced
LEMMA ThreadPut ==
  ASSUME TypeOK, NEW th \in Thread, NEW w \in Worker, thread' = [thread EXCEPT ![th] = w]
  PROVE  thread' \in [Thread -> Worker]
  BY DEF TypeOK

LEMMA FetchType ==
  ASSUME TypeInv, NEW th \in Thread, Fetch(th)
  PROVE  TypeInv'
<1> DEFINE chunk == Stream[th][thread[th].next]
           list == IF thread[th].fresh THEN [t \in Track |-> Announced(chunk[t])] ELSE chunk
           w == [thread[th] EXCEPT !.at = "video", !.next = thread[th].next + 1, !.fresh = FALSE, !.list = list]
<1>1. TypeOK
  BY DEF TypeInv
<1>2. thread[th] \in Worker /\ thread \in [Thread -> Worker]
  BY <1>1 DEF TypeOK
<1>3. chunk \in [Track -> Seq(Sample)]
  <2>1. "audio" \in Track
    BY DEF Track
  <2> QED BY <2>1, ChunkIn DEF Fetch
<1>4. list \in [Track -> Seq(Sample)]
  <2>1. \A t \in Track : Announced(chunk[t]) \in Seq(Sample)
    BY <1>3, AnnouncedIn
  <2> HIDE DEF chunk
  <2> QED BY <1>3, <2>1
<1>5. thread' = [thread EXCEPT ![th] = w]
  <2>1. thread' = [thread EXCEPT ![th].at = "video", ![th].next = @ + 1, ![th].fresh = FALSE,
           ![th].list = list]
    BY DEF Fetch
  <2> HIDE DEF list
  <2> QED BY <1>2, <2>1 DEF Worker
<1> HIDE DEF list, chunk
<1>6. w \in Worker
  <2>1. thread[th].next + 1 \in Nat
    BY <1>2 DEF Worker
  <2> QED BY <1>2, <1>4, <2>1 DEF Worker, ThreadAt
<1> HIDE DEF w
<1>7. thread' \in [Thread -> Worker]
  BY <1>1, <1>5, <1>6, ThreadPut
<1> QED BY <1>7 DEF TypeInv, TypeOK, Targeted, Fetch, bufferVars

LEMMA OfferedType ==
  ASSUME TypeInv, NEW th \in Thread, NEW t \in Track, Offer(th, t)
  PROVE  TypeInv'
<1> DEFINE list == thread[th].list[t]
           r == AddBuffersResult(t, list)
           pass == thread[th].refused \/ r.refused
           note == IF t = "audio" /\ ~r.refused THEN Heard(list) ELSE thread[th].note
           at == CASE t = "audio" /\ ~r.refused /\ BareTimes(list) # <<>> -> "remember"
                   [] t = "subtitle" -> IF pass THEN "video" ELSE "idle"
                   [] OTHER -> NextTrack[t]
           w == [thread[th] EXCEPT !.list = [@ EXCEPT ![t] = r.list],
                                   !.refused = pass /\ t # "subtitle",
                                   !.note = note, !.at = at]
<1>1. TypeOK
  BY DEF TypeInv
<1>2. thread[th] \in Worker /\ thread \in [Thread -> Worker] /\ list \in Seq(Sample)
  BY <1>1, WorkerParts DEF TypeOK
<1>3. r.m \in Media /\ r.list \in Seq(Sample) /\ r.refused \in BOOLEAN
  BY <1>1, OfferType
<1>4. /\ media' = r.m
      /\ thread' = [thread EXCEPT
              ![th].list[t] = r.list,
              ![th].refused = pass /\ t # "subtitle",
              ![th].note = IF t = "audio" /\ ~r.refused THEN Heard(list) ELSE @,
              ![th].at = at]
      /\ changed' = FALSE /\ UNCHANGED <<lastAudio, stop, ended, seek, inside, got>>
  BY DEF Offer
<1>5. note \in Nat
  <2>1. lastAudio \in Nat /\ thread[th].note \in Nat
    BY <1>1, <1>2 DEF TypeOK, Worker
  <2>2. Heard(list) \in Nat
    BY <1>2, <2>1, HeardIn
  <2> HIDE DEF list, r
  <2> QED BY <2>1, <2>2
<1>6. at \in ThreadAt
  <2>1. t \in {"audio", "video", "subtitle"}
    BY DEF Track
  <2>2. t # "subtitle" => NextTrack[t] \in ThreadAt
    BY <2>1 DEF NextTrack, ThreadAt
  <2> HIDE DEF r, list, pass
  <2> QED BY <2>2 DEF ThreadAt
<1> HIDE DEF at, list, r
<1>7. thread' = [thread EXCEPT ![th] = w]
  BY <1>2, <1>4 DEF Worker
<1> HIDE DEF note
<1>8. w \in Worker
  BY <1>2, <1>3, <1>5, <1>6 DEF Worker
<1> HIDE DEF w
<1>9. thread' \in [Thread -> Worker]
  BY <1>1, <1>7, <1>8, ThreadPut
<1> QED BY <1>3, <1>4, <1>9 DEF TypeInv, TypeOK, Targeted

LEMMA PutEosType ==
  ASSUME TypeInv, NEW th \in Thread, PutEos(th)
  PROVE  TypeInv'
<1> DEFINE r == PutSampleResult(media, EosTrack[thread[th].at], EosMarker(th))
           w == [thread[th] EXCEPT !.at = NextEos[@],
                                   !.note = IF thread[th].at = "eosSubtitle" THEN 0 ELSE @]
           over == [thread[th] EXCEPT !.at = "done", !.note = 0]
<1>1. TypeOK
  BY DEF TypeInv
<1>2. thread[th] \in Worker /\ thread \in [Thread -> Worker] /\ media \in Media
  BY <1>1 DEF TypeOK
<1>3. thread[th].at \in {"eosVideo", "eosAudio", "eosSubtitle"}
  BY DEF PutEos, EosTrack
<1>4. EosTrack[thread[th].at] \in Track /\ NextEos[thread[th].at] \in ThreadAt
  BY <1>3 DEF EosTrack, NextEos, Track, ThreadAt
<1>5. r.m \in Media
  BY <1>1, <1>2, <1>4, MarkerIn, PutSampleIn
<1>6. w \in Worker /\ over \in Worker
  BY <1>2, <1>4 DEF Worker, ThreadAt
<1> HIDE DEF r
<1>7. /\ media' \in {media, r.m} /\ changed' \in {changed, FALSE}
      /\ UNCHANGED <<lastAudio, stop, ended, seek, inside, got>>
      /\ \/ thread' = thread
         \/ thread' = [thread EXCEPT ![th].at = "done", ![th].note = 0]
         \/ thread' = [thread EXCEPT ![th].at = NextEos[@],
                                     ![th].note = IF thread[th].at = "eosSubtitle"
                                                  THEN 0 ELSE @]
  BY DEF PutEos, r
<1>8. thread' \in [Thread -> Worker]
  <2>1. \/ thread' = thread
        \/ thread' = [thread EXCEPT ![th] = over]
        \/ thread' = [thread EXCEPT ![th] = w]
    BY <1>2, <1>7 DEF Worker
  <2> HIDE DEF w, over
  <2> QED BY <1>1, <1>2, <1>6, <2>1, ThreadPut
<1> QED BY <1>1, <1>2, <1>5, <1>7, <1>8 DEF TypeInv, TypeOK, Targeted

LEMMA GetType ==
  ASSUME TypeInv, NEW t \in Track, NEW want \in Wants, Get(t, want)
  PROVE  TypeInv'
<1> DEFINE r == GetSampleResult(media, t, want)
<1>1. TypeOK
  BY DEF TypeInv
<1>2. media \in Media /\ want \in Nat
  BY <1>1, PlaybackBufferAssumption DEF TypeOK
<1>3. r.m \in Media
  BY <1>2, GetSampleIn
<1>4. /\ media' = r.m
      /\ got' = [got EXCEPT ![t] = FoldLeft(Seen, got[t], r.taken)]
      /\ inside' = inside \ {t}
      /\ UNCHANGED <<lastAudio, stop, thread, ended, seek, changed>>
  BY DEF Get
<1>5. DOMAIN got = Track /\ \A u \in Gated : got[u] \in Had
  BY <1>1 DEF TypeOK
<1>6. t \in Gated => FoldLeft(Seen, got[t], r.taken) \in Had
  BY <1>2, <1>5, TakenIn
<1> HIDE DEF r
<1>7. DOMAIN got' = Track /\ \A u \in Gated : got'[u] \in Had
  <2> DEFINE h == FoldLeft(Seen, got[t], r.taken)
  <2>1. t \in Gated => h \in Had
    BY <1>6
  <2>2. got' = [got EXCEPT ![t] = h]
    BY <1>4
  <2> HIDE DEF h
  <2>3. Gated \subseteq Track
    BY DEF Gated, Track
  <2> QED BY <1>5, <2>1, <2>2, <2>3
<1> QED BY <1>1, <1>3, <1>4, <1>7 DEF TypeInv, TypeOK, Targeted

\* The object once it was emptied
LEMMA EmptyType ==
  ASSUME TypeOK
  PROVE  /\ Flushed(media) \in Media
         /\ DOMAIN Nothing = Track /\ \A t \in Gated : Nothing[t] \in Had
  BY FlushedIn, NothingIn DEF TypeOK

LEMMA ConfigureType ==
  ASSUME TypeInv, Configure
  PROVE  TypeInv'
<1>1. media \in Media /\ changed \in BOOLEAN
  BY DEF TypeInv, TypeOK
<1>2. media' \in Media
  <2>1. CASE \E d \in NewMax : SetMaxDuration(d)
    <3>1. PICK d \in NewMax : media' = [media EXCEPT !.limit.max = d]
      BY <2>1 DEF SetMaxDuration
    <3>2. d \in Nat
      BY PlaybackBufferAssumption
    <3> QED BY <1>1, <3>1, <3>2 DEF Media
  <2>2. CASE \E d \in NewBuffering : SetBufferingDuration(d)
    <3>1. PICK d \in NewBuffering : media' = [media EXCEPT !.limit.buffering = d]
      BY <2>2 DEF SetBufferingDuration
    <3>2. d \in Nat
      BY PlaybackBufferAssumption
    <3> QED BY <1>1, <3>1, <3>2 DEF Media
  <2>3. CASE \E d \in NewQuick : SetQuickStartDuration(d)
    <3>1. PICK d \in NewQuick : media' = [media EXCEPT !.limit.quick = d]
      BY <2>3 DEF SetQuickStartDuration
    <3>2. d \in Nat
      BY PlaybackBufferAssumption
    <3> QED BY <1>1, <3>1, <3>2 DEF Media
  <2>4. CASE \E s \in NewStyle : SetBufferingStyle(s)
    <3>1. PICK s \in NewStyle : media' = [media EXCEPT !.style = s]
      BY <2>4 DEF SetBufferingStyle
    <3>2. s \in Style
      BY PlaybackBufferAssumption
    <3> QED BY <1>1, <3>1, <3>2 DEF Media
  <2> QED BY <2>1, <2>2, <2>3, <2>4 DEF Configure
<1>3. lastAudio' = lastAudio
  BY DEF Configure, SetMaxDuration, SetBufferingDuration, SetQuickStartDuration, SetBufferingStyle
<1>4. changed' \in BOOLEAN
  BY <1>1 DEF Configure
<1> QED BY <1>2, <1>3, <1>4 DEF TypeInv, TypeOK, Targeted, Configure

\* The steps of a thread that leave the buffer alone
LEMMA ThreadOnlyType ==
  ASSUME TypeInv, NEW th \in Thread, Remember(th) \/ Exit(th) \/ ReportEnd(th) \/ TestEnd(th)
  PROVE  TypeInv'
<1>1. TypeOK
  BY DEF TypeInv
<1>2. thread[th] \in Worker /\ thread \in [Thread -> Worker] /\ lastAudio \in Nat
  BY <1>1 DEF TypeOK
<1>3. CASE Remember(th)
  <2> DEFINE w == [thread[th] EXCEPT !.at = "subtitle", !.note = 0]
  <2>1. w \in Worker
    BY <1>2 DEF Worker, ThreadAt
  <2>2. thread' = [thread EXCEPT ![th] = w]
    BY <1>2, <1>3 DEF Remember, Worker
  <2> HIDE DEF w
  <2>3. thread' \in [Thread -> Worker]
    BY <1>1, <2>1, <2>2, ThreadPut
  <2>4. lastAudio' \in Nat
    BY <1>2, <1>3 DEF Remember, Worker
  <2> QED BY <1>3, <2>3, <2>4 DEF TypeInv, TypeOK, Targeted, Remember
<1>4. CASE Exit(th)
  <2>1. thread' \in [Thread -> Worker]
    BY <1>1, <1>4, StartedIn, ThreadPut DEF Exit
  <2> QED BY <1>4, <2>1 DEF TypeInv, TypeOK, Targeted, Exit, bufferVars
<1>5. CASE ReportEnd(th)
  <2> DEFINE w == [thread[th] EXCEPT !.at = "ending"]
  <2>1. w \in Worker
    BY <1>2 DEF Worker, ThreadAt
  <2>2. thread' = [thread EXCEPT ![th] = w]
    BY <1>2, <1>5 DEF ReportEnd, Worker
  <2> HIDE DEF w
  <2>3. thread' \in [Thread -> Worker]
    BY <1>1, <2>1, <2>2, ThreadPut
  <2>4. ended' \subseteq Thread
    BY <1>1, <1>5 DEF ReportEnd, TypeOK
  <2> QED BY <1>5, <2>3, <2>4 DEF TypeInv, TypeOK, Targeted, ReportEnd, bufferVars
<1>6. CASE TestEnd(th)
  <2>1. \E w \in Worker : thread' = [thread EXCEPT ![th] = w]
    <3>1. CASE thread' = [thread EXCEPT ![th].at = "done"]
      <4>1. [thread[th] EXCEPT !.at = "done"] \in Worker
        BY <1>2 DEF Worker, ThreadAt
      <4> QED BY <1>2, <3>1, <4>1 DEF Worker
    <3>2. CASE \E time \in EosTimes : thread' = [thread EXCEPT ![th].at = "eosVideo", ![th].note = time]
      <4>1. PICK time \in EosTimes : thread' = [thread EXCEPT ![th].at = "eosVideo", ![th].note = time]
        BY <3>2
      <4>2. time \in Nat
        BY PlaybackBufferAssumption
      <4>3. [thread[th] EXCEPT !.at = "eosVideo", !.note = time] \in Worker
        BY <1>2, <4>2 DEF Worker, ThreadAt
      <4> QED BY <1>2, <4>1, <4>3 DEF Worker
    <3> QED BY <1>6, <3>1, <3>2 DEF TestEnd
  <2>2. thread' \in [Thread -> Worker]
    BY <1>1, <2>1, ThreadPut
  <2> QED BY <1>6, <2>2 DEF TypeInv, TypeOK, Targeted, TestEnd, bufferVars
<1> QED BY <1>3, <1>4, <1>5, <1>6

LEMMA SeekStepType ==
  ASSUME TypeInv, SeekStep
  PROVE  TypeInv'
<1>1. /\ TypeOK /\ Targeted /\ seek \in Seeker /\ lastAudio \in Nat /\ media \in Media
      /\ seek.pc \in SeekAt /\ seek.point \in SeekPoints \cup {NoPoint}
      /\ seek.pending \in SeekPoints \cup {NoPoint} /\ seek.busy \in BOOLEAN
      /\ seek.asked \in 0..MaxSeeks
  BY DEF TypeInv, TypeOK, Seeker
<1>2. CASE CloseCache
  <2>1. seek' = [seek EXCEPT !.pc = "closing", !.point = seek.pending, !.pending = NoPoint]
        /\ seek.pending # NoPoint /\ stop' = TRUE
        /\ UNCHANGED <<media, lastAudio, thread, ended, inside, got, changed>>
    BY <1>2 DEF CloseCache, bufferVars
  <2>2. seek' \in Seeker /\ seek'.point \in SeekPoints
    BY <1>1, <2>1 DEF Seeker, SeekAt
  <2> QED BY <2>1, <2>2 DEF TypeInv, TypeOK, Targeted
<1>3. CASE FlushFirst
  <2>1. seek' = [seek EXCEPT !.pc = "joining"] /\ seek.pc = "closing"
        /\ media' = Flushed(media) /\ lastAudio' = 0 /\ got' = Nothing
        /\ UNCHANGED <<stop, thread, ended, inside, changed>>
    BY <1>3 DEF FlushFirst, EmptyBuffer
  <2>2. seek' \in Seeker /\ seek'.point = seek.point
    BY <1>1, <2>1 DEF Seeker, SeekAt
  <2> QED BY <1>1, <2>1, <2>2, EmptyType DEF TypeInv, TypeOK, Targeted
<1>4. CASE JoinAndFlush
  <2>1. seek' = [seek EXCEPT !.pc = "seeking"] /\ seek.pc = "joining" /\ stop' = FALSE
        /\ media' = Flushed(media) /\ lastAudio' = 0 /\ got' = Nothing
        /\ UNCHANGED <<thread, ended, inside, changed>>
    BY <1>4 DEF JoinAndFlush, EmptyBuffer
  <2>2. seek' \in Seeker /\ seek'.point = seek.point
    BY <1>1, <2>1 DEF Seeker, SeekAt
  <2> QED BY <1>1, <2>1, <2>2, EmptyType DEF TypeInv, TypeOK, Targeted
<1>5. CASE ParserFails
  <2>1. seek' = [seek EXCEPT !.pc = "finishing"] /\ seek.pc = "seeking"
        /\ UNCHANGED <<media, lastAudio, stop, thread, ended, inside, got, changed>>
    BY <1>5 DEF ParserFails, bufferVars
  <2>2. seek' \in Seeker /\ seek'.point = seek.point
    BY <1>1, <2>1 DEF Seeker, SeekAt
  <2> QED BY <1>1, <2>1, <2>2 DEF TypeInv, TypeOK, Targeted
<1>6. CASE SetPosFlush
  <2>1. seek' = [seek EXCEPT !.pc = "marking"] /\ seek.pc = "seeking"
        /\ media' = Flushed(media) /\ got' = Nothing
        /\ UNCHANGED <<lastAudio, stop, thread, ended, inside, changed>>
    BY <1>6 DEF SetPosFlush
  <2>2. seek' \in Seeker /\ seek'.point = seek.point
    BY <1>1, <2>1 DEF Seeker, SeekAt
  <2> QED BY <1>1, <2>1, <2>2, EmptyType DEF TypeInv, TypeOK, Targeted
<1>7. CASE SetPosMark
  <2>1. seek' = [seek EXCEPT !.pc = "resuming"] /\ seek.pc = "marking"
        /\ media' = SeekMarked(media, seek.point)
        /\ UNCHANGED <<lastAudio, stop, thread, ended, inside, got, changed>>
    BY <1>7 DEF SetPosMark
  <2>2. seek' \in Seeker /\ seek'.point = seek.point
    BY <1>1, <2>1 DEF Seeker, SeekAt
  <2>3. seek.point \in Nat
    BY <1>1, <2>1, PlaybackBufferAssumption DEF Targeted
  <2>4. media' \in Media
    BY <1>1, <2>1, <2>3, SeekMarkedIn
  <2> QED BY <1>1, <2>1, <2>2, <2>4 DEF TypeInv, TypeOK, Targeted
<1>8. CASE ResumeThreads
  <2>1. seek' = [seek EXCEPT !.pc = "finishing"] /\ seek.pc = "resuming" /\ ended' = {}
        /\ thread' = [th \in Thread |-> Started(ChunkAt(Stream[th], seek.point))]
        /\ UNCHANGED <<media, lastAudio, stop, inside, got, changed>>
    BY <1>8 DEF ResumeThreads, bufferVars
  <2>2. seek' \in Seeker /\ seek'.point = seek.point
    BY <1>1, <2>1 DEF Seeker, SeekAt
  <2>3. thread' \in [Thread -> Worker]
    BY <2>1, ChunkAtIn, StartedIn
  <2> QED BY <1>1, <2>1, <2>2, <2>3 DEF TypeInv, TypeOK, Targeted
<1>9. CASE FinishSeek
  <2>1. seek' = [seek EXCEPT !.pc = "idle", !.busy = seek.pending # NoPoint,
                          !.point = IF seek.pending # NoPoint THEN @ ELSE NoPoint]
        /\ UNCHANGED <<media, lastAudio, stop, thread, ended, inside, got, changed>>
    BY <1>9 DEF FinishSeek, bufferVars
  <2>2. seek' \in Seeker /\ seek'.pc = "idle"
    BY <1>1, <2>1 DEF Seeker, SeekAt
  <2> QED BY <2>1, <2>2 DEF TypeInv, TypeOK, Targeted
<1> QED BY <1>2, <1>3, <1>4, <1>5, <1>6, <1>7, <1>8, <1>9 DEF SeekStep

LEMMA AskType ==
  ASSUME TypeInv, NEW p \in SeekPoints, AskSeek(p)
  PROVE  TypeInv'
<1>1. /\ seek \in Seeker /\ seek.asked \in 0..MaxSeeks /\ inside \subseteq Track
  BY DEF TypeInv, TypeOK, Seeker
<1>2. seek' = [seek EXCEPT !.pending = p, !.busy = TRUE, !.asked = @ + 1]
      /\ seek.asked < MaxSeeks
      /\ UNCHANGED <<media, lastAudio, stop, thread, ended, got, changed>>
  BY DEF AskSeek, bufferVars
<1>3. seek.asked + 1 \in 0..MaxSeeks
  BY <1>1, <1>2, PlaybackBufferAssumption
<1>4. seek' \in Seeker /\ seek'.point = seek.point /\ seek'.pc = seek.pc
  BY <1>1, <1>2, <1>3 DEF Seeker
<1>5. inside' \subseteq Track
  BY <1>1 DEF AskSeek
<1> QED BY <1>2, <1>4, <1>5 DEF TypeInv, TypeOK, Targeted

LEMMA NextType == TypeInv /\ [Next]_vars => TypeInv'
<1> SUFFICES ASSUME TypeInv, [Next]_vars PROVE TypeInv'
  OBVIOUS
<1>1. CASE \E th \in Thread : ThreadStep(th)
  BY <1>1, FetchType, ThreadOnlyType, PutEosType, OfferedType DEF ThreadStep
<1>2. CASE \E t \in Track : Poll(t)
  BY <1>2, GetType DEF Poll
<1>3. CASE \E p \in SeekPoints : AskSeek(p)
  BY <1>3, AskType
<1>4. CASE SeekStep
  BY <1>4, SeekStepType
<1>5. CASE Configure
  BY <1>5, ConfigureType
<1>6. CASE UNCHANGED vars
  BY <1>6 DEF vars, TypeInv, TypeOK, Targeted
<1> QED BY <1>1, <1>2, <1>3, <1>4, <1>5, <1>6 DEF Next

\* The buffer is a MediaBuffer throughout, whatever its callers do and in whatever
\* order: durations never run below zero, and an empty track lasts nothing.
THEOREM TypeCorrect == Spec => []TypeOK
<1>1. Spec => []TypeInv
  BY InitType, NextType, PTL DEF Spec
<1>2. TypeInv => TypeOK
  BY DEF TypeInv
<1> QED BY <1>1, <1>2, PTL

-----------------------------------------------------------------------------
(* The buffer is a gate *)

Level(m) == [t \in Gated |-> Duration(m, t)]
Use(m) == [t \in Gated |-> WillAvailable(m, t)]

\* What BufferGate sees of an object
LEMMA Seen0 ==
  ASSUME NEW m \in Media
  PROVE  /\ Level(m) \in [Gated -> Nat] /\ Use(m) \in [Gated -> BOOLEAN]
         /\ \A t \in Gated : Level(m)[t] = Duration(m, t) /\ Use(m)[t] = WillAvailable(m, t)
<1>1. \A t \in Gated : Duration(m, t) \in Nat /\ WillAvailable(m, t) \in BOOLEAN
  BY MediaParts DEF Gated, Track
<1> QED BY <1>1 DEF Level, Use

LEMMA SameSeen ==
  ASSUME NEW m, NEW n, \A t \in Gated : n.track[t] = m.track[t]
  PROVE  Level(n) = Level(m) /\ Use(n) = Use(m)
  BY DEF Level, Use, Duration, WillAvailable, Queue

\* On opens when BufferGate's does.
LEMMA OnOpens ==
  ASSUME media \in Media, NEW x \in Media, x.limit = media.limit
  PROVE  /\ On(x).state = Gate!Opened(x.state, Level(x), Use(x))
         /\ Level(On(x)) = Level(x) /\ Use(On(x)) = Use(x)
<1>1. /\ On(x).track = x.track
      /\ On(x).state = IF Shut(x) /\ Fills(x) THEN "Running" ELSE x.state
  BY OnIn
<1>2. Level(On(x)) = Level(x) /\ Use(On(x)) = Use(x)
  BY <1>1, SameSeen
<1>3. Shut(x) <=> Gate!Closed(x.state)
  BY DEF Shut, Gate!Closed
<1>4. Threshold(x) = Gate!Threshold(x.state, Use(x)) /\ Threshold(x) \in Nat
  <2>1. Use(x)["video"] = WillAvailable(x, "video")
    BY Seen0 DEF Gated
  <2>2. x.limit.quick \in Nat /\ x.limit.buffering \in Nat
    BY DEF Media
  <2> QED BY <2>1, <2>2 DEF Threshold, Gate!Threshold
<1>5. \A t \in Gated : Filled(x, t) <=> ~Gate!Starved(x.state, Level(x), Use(x), t)
  <2> TAKE t \in Gated
  <2>1. Level(x)[t] = Duration(x, t) /\ Use(x)[t] = WillAvailable(x, t) /\ Duration(x, t) \in Nat
    BY Seen0
  <2> QED BY <1>4, <2>1 DEF Filled, Gate!Starved
<1>6. Fills(x) <=> \A t \in Gated : ~Gate!Starved(x.state, Level(x), Use(x), t)
  BY <1>5 DEF Fills, Gated
<1> QED BY <1>1, <1>2, <1>3, <1>6 DEF Gate!Opened, Gate!Gated, Gated

\* The levels and availabilities a step leads to are some.
LEMMA LevelsNext ==
  ASSUME media' \in Media, Lasts = Nat
  PROVE  Level(media)' = Level(media') /\ Use(media)' = Use(media')
         /\ Level(media)' \in Gate!Levels /\ Use(media)' \in Gate!Uses
<1>1. Level(media') \in [Gated -> Nat] /\ Use(media') \in [Gated -> BOOLEAN]
  BY Seen0
<1>2. Level(media)' = Level(media') /\ Use(media)' = Use(media')
  BY DEF Level, Use
<1> QED BY <1>1, <1>2 DEF Gate!Levels, Gate!Uses, Gate!Gated, Gated

\* A list offered during a seek
LEMMA GateSeeking ==
  ASSUME media \in Media, Lasts = Nat, media.state = "Seeking",
         NEW x \in Media, media' = On(x), x.state \in {"Seeking", "Starting"},
         x.style = media.style, x.limit = media.limit, changed' = FALSE
  PROVE  Gate!OfferSeeking
<1>1. /\ media' \in Media /\ media'.style = media.style /\ media'.limit = media.limit
  BY OnIn DEF Trimmed
<1>2. /\ media'.state = Gate!Opened(x.state, Level(x), Use(x))
      /\ Level(media') = Level(x) /\ Use(media') = Use(x)
  BY OnOpens
<1>3. /\ Level(media)' = Level(media') /\ Use(media)' = Use(media')
      /\ Level(media)' \in Gate!Levels /\ Use(media)' \in Gate!Uses
  BY <1>1, LevelsNext
<1>4. media'.state \in {"Seeking", Gate!Opened("Starting", Level(media)', Use(media)')}
  BY <1>2, <1>3 DEF Gate!Opened, Gate!Closed
<1> QED BY <1>1, <1>3, <1>4 DEF Gate!OfferSeeking, Level, Use
\* Outside a seek what an offer makes of the levels decides whether the gate opens.
LEMMA GateOpens ==
  ASSUME media \in Media, Lasts = Nat, NEW x \in Media, SameGate(media, x), media' = On(x)
  PROVE  /\ media' \in Media /\ media'.style = media.style /\ media'.limit = media.limit
         /\ Level(media)' = Level(x) /\ Use(media)' = Use(x)
         /\ Level(x) \in Gate!Levels /\ Use(x) \in Gate!Uses
         /\ media'.state = Gate!Opened(media.state, Level(media)', Use(media)')
<1>1. x.state = media.state /\ x.style = media.style /\ x.limit = media.limit
  BY DEF SameGate
<1>2. /\ media' \in Media /\ media'.style = media.style /\ media'.limit = media.limit
  BY <1>1, OnIn DEF Trimmed
<1>3. /\ media'.state = Gate!Opened(x.state, Level(x), Use(x))
      /\ Level(media') = Level(x) /\ Use(media') = Use(x)
  BY <1>1, OnOpens
<1>4. /\ Level(media)' = Level(media') /\ Use(media)' = Use(media')
      /\ Level(media)' \in Gate!Levels /\ Use(media)' \in Gate!Uses
  BY <1>2, LevelsNext
<1> QED BY <1>1, <1>2, <1>3, <1>4

\* An offer that leaves audio and video alone
LEMMA GateStill ==
  ASSUME media \in Media, Lasts = Nat, media.state # "Seeking", NEW x \in Media,
         SameGate(media, x), \A t \in Gated : x.track[t] = media.track[t],
         media' = On(x), changed' = FALSE
  PROVE  Gate!Offer
<1>1. Level(x) = Level(media) /\ Use(x) = Use(media)
  BY SameSeen
<1>2. /\ media'.style = media.style /\ media'.limit = media.limit
      /\ Level(media)' = Level(media) /\ Use(media)' = Use(media)
      /\ media'.state = Gate!Opened(media.state, Level(media)', Use(media)')
  BY <1>1, GateOpens
<1> QED BY <1>2 DEF Gate!Offer, Level, Use

\* What PutSamples admits BufferGate does.
LEMMA GateAdmits ==
  ASSUME media \in Media, NEW t \in Gated, NEW l \in Seq(Sample), l # <<>>,
         Admits(media, t, l, Forced(media, t))
  PROVE  Gate!Admits(t, Extent(l))
<1>1. t # "subtitle" /\ Level(media)[t] = Duration(media, t)
  BY DEF Level, Gated
<1>2. Duration(media, t) \in Nat /\ media.limit.max \in Nat /\ Extent(l) \in Nat
  BY MediaParts, ExtentIn DEF Gated, Track
<1>3. CASE Forced(media, t)
  BY <1>1, <1>3 DEF Forced, Gate!Admits, Level
<1>4. CASE Extent(l) >= media.limit.max /\ Duration(media, t) < media.limit.max \div 2
  BY <1>1, <1>4 DEF Gate!Admits, Level
<1>5. CASE ~Full(media, t, Extent(l))
  <2>1. Duration(media, t) + Extent(l) <= media.limit.max
    BY <1>1, <1>2, <1>5 DEF Full
  <2> QED BY <1>1, <2>1 DEF Gate!Admits, Level
<1> QED BY <1>3, <1>4, <1>5 DEF Admits

\* A list that goes in
LEMMA GateSpliced ==
  ASSUME media \in Media, Lasts = Nat, media.state # "Seeking", NEW t \in Gated,
         NEW l \in Seq(Sample), l # <<>>, Admits(media, t, l, Forced(media, t)),
         media' = On(Spliced(media, t, l)), changed' = FALSE
  PROVE  Gate!Offer
<1> DEFINE x == Spliced(media, t, l)
<1>1. t \in Track
  BY DEF Gated, Track
<1>2. /\ OnlyTrack(media, x, t) /\ Duration(x, t) >= Duration(media, t)
      /\ t # "video" => Duration(x, t) = Duration(media, t) + Extent(l)
  BY <1>1, SplicedIn
<1>3. x \in Media /\ SameGate(media, x) /\ \A u \in Track \ {t} : x.track[u] = media.track[u]
  BY <1>2 DEF OnlyTrack
<1>4. media' = On(x)
  OBVIOUS
<1> HIDE DEF x
<1>5. /\ media'.style = media.style /\ media'.limit = media.limit
      /\ Level(media)' = Level(x) /\ Use(media)' = Use(x)
      /\ Level(x) \in Gate!Levels /\ Use(x) \in Gate!Uses
      /\ media'.state = Gate!Opened(media.state, Level(media)', Use(media)')
  BY <1>3, <1>4, GateOpens
<1>6. /\ Level(x)[t] = Duration(x, t) /\ Level(media)[t] = Duration(media, t)
  BY DEF Level
<1>7. \A o \in Gated \ {t} : Level(x)[o] = Level(media)[o] /\ Use(x)[o] = Use(media)[o]
  <2> TAKE o \in Gated \ {t}
  <2>1. o \in Gated /\ x.track[o] = media.track[o]
    BY <1>3 DEF Gated, Track
  <2> QED BY <2>1 DEF Level, Use, Duration, WillAvailable, Queue
<1>8. Gate!Admits(t, Extent(l)) /\ Extent(l) \in Lasts
  BY GateAdmits, ExtentIn
<1>9. t = "audio" => Level(x)[t] = Level(media)[t] + Extent(l)
  BY <1>2, <1>6
<1>10. \E tt \in Gated, extent \in Lasts :
          /\ Gate!Admits(tt, extent)
          /\ Level(media)' \in Gate!Levels /\ Level(media)'[tt] >= Level(media)[tt]
          /\ tt = "audio" => Level(media)'[tt] = Level(media)[tt] + extent
          /\ Use(media)' \in Gate!Uses
          /\ \A o \in Gated \ {tt} : Level(media)'[o] = Level(media)[o]
                                     /\ Use(media)'[o] = Use(media)[o]
  BY <1>2, <1>5, <1>6, <1>7, <1>8, <1>9
<1> QED BY <1>5, <1>10 DEF Gate!Offer, Level, Use, Gate!Gated, Gated

\* Every call of useChunk's passes is an offer.
LEMMA OfferIsGate ==
  ASSUME TypeOK, Lasts = Nat, NEW th \in Thread, NEW t \in Track, Offer(th, t)
  PROVE  Gate!Offer \/ Gate!OfferSeeking
<1> DEFINE list == thread[th].list[t]
           l == IF t = "audio" /\ list # <<>> THEN WithoutHeard(list) ELSE list
           r == PutSamplesResult(media, t, l)
           refused == l # <<>> /\ ~Admits(media, t, l, Forced(media, t))
           x == IF l = <<>> \/ refused THEN media ELSE Spliced(media, t, l)
<1>1. list \in Seq(Sample) /\ media \in Media
  BY WorkerParts DEF TypeOK
<1>2. AddBuffersResult(t, list) = r /\ l \in Seq(Sample)
  <2> HIDE DEF list
  <2> QED BY <1>1, AddBuffersIn
<1>3. media' = r.m /\ changed' = FALSE
  BY <1>2 DEF Offer
<1> HIDE DEF l
<1>4. /\ media.state # "Seeking" => r.m = On(x)
      /\ media.state = "Seeking" =>
           \E y \in Media : /\ r.m = On(y) /\ y.state \in {"Seeking", "Starting"}
                            /\ y.style = media.style /\ y.limit = media.limit
  BY <1>1, <1>2, PutSamplesIn
<1> HIDE DEF r
<1>5. CASE media.state = "Seeking"
  BY <1>1, <1>3, <1>4, <1>5, GateSeeking
<1>6. CASE media.state # "Seeking" /\ (l = <<>> \/ refused)
  <2>1. x = media
    BY <1>6
  <2> HIDE DEF x
  <2> QED BY <1>1, <1>3, <1>4, <1>6, <2>1, GateStill DEF SameGate
<1>7. CASE media.state # "Seeking" /\ ~(l = <<>> \/ refused) /\ t = "subtitle"
  <2>1. x = Spliced(media, t, l)
    BY <1>7
  <2>2. OnlyTrack(media, x, t)
    BY <1>1, <1>2, <1>7, <2>1, SplicedIn
  <2>3. x \in Media /\ SameGate(media, x) /\ \A u \in Track \ {t} : x.track[u] = media.track[u]
    BY <2>2 DEF OnlyTrack
  <2>4. \A u \in Gated : u \in Track \ {t}
    BY <1>7 DEF Gated, Track
  <2> HIDE DEF x
  <2> QED BY <1>1, <1>3, <1>4, <1>7, <2>3, <2>4, GateStill
<1>8. CASE media.state # "Seeking" /\ ~(l = <<>> \/ refused) /\ t # "subtitle"
  <2>1. media' = On(Spliced(media, t, l)) /\ l # <<>> /\ Admits(media, t, l, Forced(media, t))
    BY <1>3, <1>4, <1>8
  <2>2. t \in Gated
    BY <1>8 DEF Gated, Track
  <2> QED BY <1>1, <1>2, <1>3, <1>8, <2>1, <2>2, GateSpliced
<1> QED BY <1>5, <1>6, <1>7, <1>8

\* An end-of-stream marker is offered, or the thread is stopped.
LEMMA PutEosIsGate ==
  ASSUME TypeOK, Lasts = Nat, NEW th \in Thread, PutEos(th)
  PROVE  Gate!Offer \/ Gate!OfferMarker \/ Gate!OfferSeeking \/ UNCHANGED <<media, changed>>
<1> DEFINE t == EosTrack[thread[th].at]
           s == EosMarker(th)
           r == PutSampleResult(media, t, s)
           x == IF r.refused THEN media ELSE AppendOne(media, t, s)
<1>1. t \in Track /\ s \in Sample /\ s.flags = {"eos"} /\ media \in Media
  BY MarkerIn DEF TypeOK, PutEos, EosTrack, Track
<1>2. UNCHANGED <<media, changed>> \/ (media' = r.m /\ changed' = FALSE)
  BY DEF PutEos
<1> HIDE DEF t, s
<1>3. /\ r.refused = (t # "subtitle" /\ Duration(media, t) >= media.limit.max)
      /\ media.state # "Seeking" => r.m = On(x)
      /\ media.state = "Seeking" =>
           \E y \in Media : /\ r.m = On(y) /\ y.state \in {"Seeking", "Starting"}
                            /\ y.style = media.style /\ y.limit = media.limit
  BY <1>1, PutSampleIn
<1> HIDE DEF r
<1>4. SUFFICES ASSUME media' = r.m, changed' = FALSE
               PROVE  Gate!Offer \/ Gate!OfferMarker \/ Gate!OfferSeeking
  BY <1>2
<1>5. CASE media.state = "Seeking"
  BY <1>1, <1>3, <1>4, <1>5, GateSeeking
<1>6. CASE media.state # "Seeking" /\ r.refused
  <2>1. x = media
    BY <1>6
  <2> HIDE DEF x
  <2> QED BY <1>1, <1>3, <1>4, <1>6, <2>1, GateStill DEF SameGate
<1>7. CASE media.state # "Seeking" /\ ~r.refused
  <2>1. x = AppendOne(media, t, s)
    BY <1>7
  <2>2. /\ OnlyTrack(media, x, t) /\ Duration(x, t) >= Duration(media, t)
        /\ WillAvailable(x, t) = FALSE
    BY <1>1, <2>1, AppendOneIn
  <2>3. x \in Media /\ SameGate(media, x) /\ \A u \in Track \ {t} : x.track[u] = media.track[u]
    BY <2>2 DEF OnlyTrack
  <2> HIDE DEF x
  <2>4. CASE t = "subtitle"
    <3>1. \A u \in Gated : u \in Track \ {t}
      BY <2>4 DEF Gated, Track
    <3> QED BY <1>1, <1>3, <1>4, <1>7, <2>3, <3>1, GateStill
  <2>5. CASE t # "subtitle"
    <3>1. t \in Gated
      BY <1>1, <2>5 DEF Gated, Track
    <3>2. /\ media'.style = media.style /\ media'.limit = media.limit
          /\ Level(media)' = Level(x) /\ Use(media)' = Use(x)
          /\ Level(x) \in Gate!Levels /\ Use(x) \in Gate!Uses
          /\ media'.state = Gate!Opened(media.state, Level(media)', Use(media)')
      BY <1>1, <1>3, <1>4, <1>7, <2>3, GateOpens
    <3>3. /\ Level(x)[t] = Duration(x, t) /\ Level(media)[t] = Duration(media, t)
          /\ Use(x)[t] = FALSE
      BY <2>2, <3>1 DEF Level, Use
    <3>4. \A o \in Gated \ {t} : Level(x)[o] = Level(media)[o] /\ Use(x)[o] = Use(media)[o]
      <4> TAKE o \in Gated \ {t}
      <4>1. o \in Gated /\ x.track[o] = media.track[o]
        BY <2>3 DEF Gated, Track
      <4> QED BY <4>1 DEF Level, Use, Duration, WillAvailable, Queue
    <3>5. Use(x) = [Use(media) EXCEPT ![t] = FALSE]
      <4>1. Use(x) \in [Gated -> BOOLEAN] /\ Use(media) \in [Gated -> BOOLEAN]
        BY <1>1, <2>3, Seen0
      <4> QED BY <3>1, <3>3, <3>4, <4>1
    <3>6. Duration(media, t) < media.limit.max
      <4>1. Duration(media, t) \in Nat /\ media.limit.max \in Nat
        BY <1>1, MediaParts
      <4>2. ~(t # "subtitle" /\ Duration(media, t) >= media.limit.max)
        BY <1>3, <1>7, Zenon
      <4> QED BY <2>5, <4>1, <4>2
    <3>7. \E tt \in Gated :
            /\ Level(media)[tt] < media.limit.max
            /\ Level(media)' \in Gate!Levels /\ Level(media)'[tt] >= Level(media)[tt]
            /\ Use(media)' = [Use(media) EXCEPT ![tt] = FALSE]
            /\ \A o \in Gated \ {tt} : Level(media)'[o] = Level(media)[o]
      BY <2>2, <3>1, <3>2, <3>3, <3>4, <3>5, <3>6
    <3> QED BY <1>4, <1>7, <3>2, <3>7 DEF Gate!OfferMarker, Level, Use, Gate!Gated, Gated
  <2> QED BY <2>4, <2>5
<1> QED BY <1>5, <1>6, <1>7

\* The player's call takes samples, or shuts the gate at a track that is dry.
LEMMA GetIsGate ==
  ASSUME TypeOK, Lasts = Nat, NEW t \in Track, NEW want \in Wants, Get(t, want)
  PROVE  Gate!Take \/ Gate!Dry \/ UNCHANGED Gate!vars
<1> DEFINE r == GetSampleResult(media, t, want)
<1>1. media \in Media /\ want \in Nat
  BY PlaybackBufferAssumption DEF TypeOK
<1>2. media' = r.m /\ changed' = changed
  BY DEF Get
<1>3. /\ r.m \in Media /\ r.m.limit = media.limit /\ r.m.style = media.style
      /\ \/ r.m = media
         \/ /\ r.m = Off(media, t)
            /\ t # "subtitle" => media.state = "Running" /\ Duration(media, t) = 0
         \/ t = "subtitle" /\ OnlyTrack(media, r.m, t)
         \/ /\ t # "subtitle" /\ OnlyTrack(media, r.m, t)
            /\ media.state = "Running" \/ t = "audio"
            /\ WillAvailable(r.m, t) = WillAvailable(media, t)
            /\ Duration(r.m, t) <= Duration(media, t)
  BY <1>1, GetSampleIn
<1> HIDE DEF r
<1>4. Level(media)' = Level(r.m) /\ Use(media)' = Use(r.m)
      /\ Level(r.m) \in Gate!Levels /\ Use(r.m) \in Gate!Uses
  BY <1>2, <1>3, LevelsNext
<1>5. CASE r.m = media
  BY <1>2, <1>5 DEF Gate!vars
<1>6. CASE t = "subtitle" /\ OnlyTrack(media, r.m, t)
  <2>1. SameGate(media, r.m) /\ \A u \in Gated : r.m.track[u] = media.track[u]
    BY <1>6 DEF OnlyTrack, Gated, Track
  <2>2. Level(r.m) = Level(media) /\ Use(r.m) = Use(media)
    BY <2>1, SameSeen
  <2> QED BY <1>2, <1>4, <2>1, <2>2 DEF Gate!vars, Level, Use, SameGate
<1>7. CASE /\ r.m = Off(media, t)
           /\ t # "subtitle" => media.state = "Running" /\ Duration(media, t) = 0
  <2>1. SUFFICES ASSUME r.m # media PROVE Gate!Dry
    BY <1>5
  <2>2. /\ r.m.track = media.track /\ r.m.state = "Buffering" /\ t # "subtitle"
        /\ WillAvailable(media, t)
        /\ \/ media.style = "AV"
           \/ media.style = "A" /\ (t = "audio" \/ ~WillAvailable(media, "audio"))
           \/ media.style = "V" /\ (t = "video" \/ ~WillAvailable(media, "video"))
    BY <1>1, <1>7, <2>1, OffIn
  <2>3. t \in Gated
    BY <2>2 DEF Gated, Track
  <2>4. Level(r.m) = Level(media) /\ Use(r.m) = Use(media)
    BY <2>2, SameSeen
  <2>5. /\ Level(media)[t] = 0 /\ Use(media)[t]
        /\ Use(media)["audio"] = WillAvailable(media, "audio")
        /\ Use(media)["video"] = WillAvailable(media, "video")
    BY <1>7, <2>2, <2>3 DEF Level, Use, Gated
  <2>6. \E tt \in Gated :
          /\ Level(media)[tt] = 0 /\ Use(media)[tt]
          /\ \/ media.style = "AV"
             \/ media.style = "A" /\ (tt = "audio" \/ ~Use(media)["audio"])
             \/ media.style = "V" /\ (tt = "video" \/ ~Use(media)["video"])
    BY <2>2, <2>3, <2>5
  <2> QED BY <1>2, <1>3, <1>4, <1>7, <2>2, <2>4, <2>6 DEF Gate!Dry, Level, Use, Gate!Gated, Gated
<1>8. CASE /\ t # "subtitle" /\ OnlyTrack(media, r.m, t)
           /\ media.state = "Running" \/ t = "audio"
           /\ WillAvailable(r.m, t) = WillAvailable(media, t)
           /\ Duration(r.m, t) <= Duration(media, t)
  <2>1. t \in Gated
    BY <1>8 DEF Gated, Track
  <2>2. SameGate(media, r.m) /\ \A u \in Track \ {t} : r.m.track[u] = media.track[u]
    BY <1>8 DEF OnlyTrack
  <2>3. \A o \in Gated \ {t} : Level(r.m)[o] = Level(media)[o] /\ Use(r.m)[o] = Use(media)[o]
    <3> TAKE o \in Gated \ {t}
    <3>1. o \in Gated /\ r.m.track[o] = media.track[o]
      BY <2>2 DEF Gated, Track
    <3> QED BY <3>1 DEF Level, Use, Duration, WillAvailable, Queue
  <2>4. /\ Level(r.m)[t] <= Level(media)[t] /\ Use(r.m)[t] = Use(media)[t]
    BY <1>8, <2>1 DEF Level, Use
  <2>5. Use(r.m) = Use(media)
    <3>1. Use(r.m) \in [Gated -> BOOLEAN] /\ Use(media) \in [Gated -> BOOLEAN]
      BY <1>1, <1>3, Seen0
    <3> QED BY <2>1, <2>3, <2>4, <3>1
  <2>6. \E tt \in Gated :
          /\ media.state = "Running" \/ tt = "audio"
          /\ Level(media)' \in Gate!Levels /\ Level(media)'[tt] <= Level(media)[tt]
          /\ \A o \in Gated \ {tt} : Level(media)'[o] = Level(media)[o]
    BY <1>4, <1>8, <2>1, <2>3, <2>4
  <2> QED BY <1>2, <1>3, <1>4, <2>2, <2>5, <2>6
        DEF Gate!Take, Level, Use, Gate!Gated, Gated, SameGate
<1> QED BY <1>3, <1>5, <1>6, <1>7, <1>8

\* An emptied buffer starts anew.
LEMMA FlushIsGate ==
  ASSUME TypeOK, Lasts = Nat, media' = Flushed(media), changed' = changed
  PROVE  Gate!Flush
<1>1. /\ media' \in Media /\ media'.style = media.style /\ media'.limit = media.limit
      /\ media'.state = "Starting"
      /\ \A t \in Track : Duration(media', t) = 0 /\ WillAvailable(media', t)
  BY FlushedIn DEF TypeOK
<1>2. Level(media)' = Level(media') /\ Use(media)' = Use(media')
  BY <1>1, LevelsNext
<1>3. \A t \in Gated : Duration(media', t) = 0 /\ WillAvailable(media', t) = TRUE
  <2>1. \A t \in Gated : t \in Track /\ WillAvailable(media', t) \in BOOLEAN
    BY <1>1, MediaParts DEF Gated, Track
  <2> QED BY <1>1, <2>1
<1>4. Level(media') = [t \in Gated |-> 0] /\ Use(media') = [t \in Gated |-> TRUE]
  BY <1>3, Zenon DEF Level, Use
<1> QED BY <1>1, <1>2, <1>4 DEF Gate!Flush, Gate!Gated, Gated, Level, Use

LEMMA SetPosIsGate ==
  ASSUME TypeInv, Lasts = Nat, SetPosMark
  PROVE  Gate!MarkSeek
<1>1. /\ media \in Media /\ seek.point \in Nat
      /\ media' = SeekMarked(media, seek.point) /\ changed' = changed
  BY PlaybackBufferAssumption DEF TypeInv, TypeOK, Targeted, SetPosMark
<1>2. /\ media' \in Media /\ media'.style = media.style /\ media'.limit = media.limit
      /\ media'.state = "Seeking" /\ media'.track = media.track
  BY <1>1, SeekMarkedIn
<1>3. /\ Level(media)' = Level(media') /\ Use(media)' = Use(media')
      /\ Level(media') = Level(media) /\ Use(media') = Use(media)
  BY <1>2, LevelsNext, SameSeen
<1> QED BY <1>1, <1>2, <1>3 DEF Gate!MarkSeek, Level, Use

\* A parameter that is set is a limit or the style.
LEMMA ConfigureIsGate ==
  ASSUME TypeInv, Lasts = Nat, Configure
  PROVE  Gate!SetLimits \/ Gate!SetStyle \/ UNCHANGED Gate!vars
<1>1. media \in Media /\ media' \in Media
  BY ConfigureType DEF TypeInv, TypeOK
<1>2. changed' = (media'.limit # media.limit \/ changed) /\ changed \in BOOLEAN
  BY DEF Configure, TypeInv, TypeOK
<1>3. \/ \E d \in NewMax : d > media.limit.buffering /\ d > media.limit.quick
                           /\ media' = [media EXCEPT !.limit.max = d]
      \/ \E d \in NewBuffering : d < media.limit.max
                           /\ media' = [media EXCEPT !.limit.buffering = d]
      \/ \E d \in NewQuick : d < media.limit.max /\ media' = [media EXCEPT !.limit.quick = d]
      \/ \E s \in NewStyle : media' = [media EXCEPT !.style = s]
  BY DEF Configure, SetMaxDuration, SetBufferingDuration, SetQuickStartDuration,
         SetBufferingStyle
<1>4. /\ media'.track = media.track /\ media'.state = media.state
  BY <1>1, <1>3 DEF Media
<1>5. /\ Level(media)' = Level(media) /\ Use(media)' = Use(media)
  <2>1. Level(media)' = Level(media') /\ Use(media)' = Use(media')
    BY <1>1, LevelsNext
  <2> QED BY <1>4, <2>1, SameSeen
<1>6. CASE \E s \in NewStyle : media' = [media EXCEPT !.style = s]
  <2>1. media'.limit = media.limit
    BY <1>1, <1>6 DEF Media
  <2>2. media'.style \in Style
    BY <1>1 DEF Media
  <2> QED BY <1>2, <1>4, <1>5, <2>1, <2>2
          DEF Gate!SetStyle, Level, Use, Gate!Style, Style
<1>7. CASE ~\E s \in NewStyle : media' = [media EXCEPT !.style = s]
  <2>1. /\ \/ \E d \in NewMax : d > media.limit.buffering /\ d > media.limit.quick
                                /\ media'.limit = [media.limit EXCEPT !.max = d]
           \/ \E d \in NewBuffering : d < media.limit.max
                                /\ media'.limit = [media.limit EXCEPT !.buffering = d]
           \/ \E d \in NewQuick : d < media.limit.max
                                /\ media'.limit = [media.limit EXCEPT !.quick = d]
        /\ media'.style = media.style
    BY <1>1, <1>3, <1>7 DEF Media
  <2>2. CASE media'.limit = media.limit
    BY <1>2, <1>4, <1>5, <2>1, <2>2 DEF Gate!vars, Level, Use
  <2>3. CASE media'.limit # media.limit
    <3>1. changed' = TRUE
      BY <1>2, <2>3
    <3> QED BY <1>4, <1>5, <2>1, <3>1 DEF Gate!SetLimits, Level, Use
  <2> QED BY <2>2, <2>3
<1> QED BY <1>6, <1>7

\* Every step is one of the gate's or leaves it alone.
LEMMA GateNext ==
  ASSUME TypeInv, Lasts = Nat, [Next]_vars
  PROVE  [Gate!Next]_Gate!vars
<1>1. TypeOK
  BY DEF TypeInv
<1>2. CASE UNCHANGED <<media, changed>>
  BY <1>2 DEF Gate!vars
<1>3. CASE \E th \in Thread : ThreadStep(th)
  <2>1. PICK th \in Thread : ThreadStep(th)
    BY <1>3
  <2>2. CASE Fetch(th) \/ Remember(th) \/ Exit(th) \/ ReportEnd(th) \/ TestEnd(th)
    <3>1. UNCHANGED <<media, changed>>
      BY <2>2 DEF Fetch, Remember, Exit, ReportEnd, TestEnd, bufferVars
    <3> QED BY <1>2, <3>1
  <2>3. CASE PutEos(th)
    BY <1>1, <1>2, <2>3, PutEosIsGate DEF Gate!Next
  <2>4. CASE \E t \in Track : Offer(th, t)
    BY <1>1, <2>4, OfferIsGate DEF Gate!Next
  <2> QED BY <2>1, <2>2, <2>3, <2>4 DEF ThreadStep
<1>4. CASE \E t \in Track : Poll(t)
  BY <1>1, <1>4, GetIsGate DEF Poll, Gate!Next
<1>5. CASE \E p \in SeekPoints : AskSeek(p)
  <2>1. UNCHANGED <<media, changed>>
    BY <1>5 DEF AskSeek, bufferVars
  <2> QED BY <1>2, <2>1
<1>6. CASE SeekStep
  <2>1. CASE FlushFirst \/ JoinAndFlush \/ SetPosFlush
    <3>1. media' = Flushed(media) /\ changed' = changed
      BY <2>1 DEF FlushFirst, JoinAndFlush, SetPosFlush, EmptyBuffer
    <3> QED BY <1>1, <3>1, FlushIsGate DEF Gate!Next
  <2>2. CASE SetPosMark
    BY <2>2, SetPosIsGate DEF Gate!Next
  <2>3. CASE CloseCache \/ ParserFails \/ ResumeThreads \/ FinishSeek
    <3>1. UNCHANGED <<media, changed>>
      BY <2>3 DEF CloseCache, ParserFails, ResumeThreads, FinishSeek, bufferVars
    <3> QED BY <1>2, <3>1
  <2> QED BY <1>6, <2>1, <2>2, <2>3 DEF SeekStep
<1>7. CASE Configure
  BY <1>7, ConfigureIsGate DEF Gate!Next
<1>8. CASE UNCHANGED vars
  <2>1. UNCHANGED <<media, changed>>
    BY <1>8 DEF vars
  <2> QED BY <1>2, <2>1
<1> QED BY <1>3, <1>4, <1>5, <1>6, <1>7, <1>8 DEF Next

LEMMA GateInit ==
  ASSUME Init
  PROVE  Gate!Init
<1>1. /\ media.state = "Starting" /\ media.style = "AV" /\ changed = FALSE
      /\ media.limit = [max |-> MaxDuration, buffering |-> BufferingDuration,
                        quick |-> QuickStartDuration]
      /\ \A t \in Track : media.track[t] = EmptyTrack
  BY DEF Init, MediaInit
<1>2. \A t \in Gated : Duration(media, t) = 0 /\ WillAvailable(media, t) = TRUE
  <2>1. \A t \in Gated : Queue(media, t) = <<>> /\ media.track[t].dur = 0
                         /\ WillAvailable(media, t) = TRUE
    BY <1>1 DEF Gated, Track, Queue, WillAvailable, EmptyTrack
  <2>2. Len(<<>>) * FrameInterval = 0
    BY MediaBufferAssumption
  <2> QED BY <2>1, <2>2 DEF Duration
<1>3. [t \in Gated |-> Duration(media, t)] = [t \in Gated |-> 0]
      /\ [t \in Gated |-> WillAvailable(media, t)] = [t \in Gated |-> TRUE]
  BY <1>2, Zenon
<1> QED BY <1>1, <1>3 DEF Gate!Init, Gate!Gated, Gated

\* However many threads push, poll, seek and set parameters at once, the buffer
\* keeps BufferGate's promises: seen through the durations and availabilities of
\* its tracks, each of its steps is one the gate allows.
THEOREM ImplementsGate == Lasts = Nat => (Spec => GateSpec)
<1> SUFFICES ASSUME Lasts = Nat PROVE Spec => GateSpec
  OBVIOUS
<1>1. Spec => []TypeInv
  BY InitType, NextType, PTL DEF Spec
<1>2. Init => Gate!Init
  BY GateInit
<1>3. TypeInv /\ [Next]_vars => [Gate!Next]_Gate!vars
  BY GateNext
<1> QED BY <1>1, <1>2, <1>3, PTL DEF Spec, GateSpec, Gate!Spec

-----------------------------------------------------------------------------
(* Nothing comes after the end *)

\* The player has not had the end of the stream, nor does the buffer hold it.
NoEnd == \A t \in Gated : Unended(Queue(media, t)) /\ got[t].eos = 0

\* A thread that reported its end pushes no more chunks.
Over == {"ending", "eosVideo", "eosAudio", "eosSubtitle", "done"}
Retired == \A th \in ended : thread[th].at \in Over

\* Markers are pushed once all threads have reported.
MarkedByLast == \A th \in Thread : thread[th].at \in DOMAIN EosTrack => ended = Thread
EndedByLast == NoEnd \/ ended = Thread

\* From the second flush of a seek to the restart of the threads nobody pushes.
Quiet == seek.pc \in {"seeking", "marking", "resuming"} =>
           NoEnd /\ \A th \in Thread : thread[th].at \in {"done", "exited"}

LastOnce == \A t \in Gated : /\ EndsOnce(Queue(media, t))
                             /\ got[t].eos # 0 => Frameless(Queue(media, t))
ListsUnended == \A th \in Thread, t \in Track : Unended(thread[th].list[t])

EosInv == /\ TypeInv /\ Retired /\ MarkedByLast /\ EndedByLast /\ Quiet
          /\ LastOnce /\ ListsUnended

LEMMA NoneUnended ==
  Unended(<<>>) /\ EndsOnce(<<>>) /\ Frameless(<<>>)
<1>1. Len(<<>>) = 0
  OBVIOUS
<1>2. \A i : i \notin 1..Len(<<>>)
  BY <1>1
<1> QED BY <1>2, Zenon DEF Unended, EndsOnce, Frameless

LEMMA StartedUnended ==
  ASSUME NEW n, NEW t \in Track
  PROVE  /\ Unended(Started(n).list[t]) /\ Unended([Started(n) EXCEPT !.at = "exited"].list[t])
         /\ Started(n).at = "idle" /\ [Started(n) EXCEPT !.at = "exited"].at = "exited"
<1>1. Started(n).list[t] = <<>> /\ [Started(n) EXCEPT !.at = "exited"].list[t] = <<>>
  BY DEF Started, NoChunk
<1> QED BY <1>1, NoneUnended DEF Started

LEMMA SameEnd ==
  ASSUME UNCHANGED <<media, got>>
  PROVE  NoEnd' = NoEnd /\ LastOnce' = LastOnce
  BY DEF NoEnd, LastOnce

\* One thread goes on, to a place its part in the end allows.
LEMMA WorkerMoves ==
  ASSUME EosInv, NEW th \in Thread, NEW w, thread' = [thread EXCEPT ![th] = w],
         thread[th].at \notin {"done", "exited"}, seek' = seek,
         ended' = ended \/ ended' = ended \cup {th}, th \in ended' => w.at \in Over,
         w.at \in DOMAIN EosTrack => ended = Thread,
         \A t \in Track : Unended(w.list[t])
  PROVE  /\ Retired' /\ MarkedByLast' /\ Quiet' /\ ListsUnended'
         /\ ended = Thread => ended' = Thread
<1>1. thread \in [Thread -> Worker] /\ ended \subseteq Thread
  BY DEF EosInv, TypeInv, TypeOK
<1>2. thread'[th] = w /\ \A o \in Thread \ {th} : thread'[o] = thread[o]
  BY <1>1
<1>3. ended = Thread => ended' = Thread
  BY <1>1
<1>4. Retired'
  <2>1. \A o \in ended' : o = th \/ (o \in ended /\ o \in Thread \ {th})
    BY <1>1
  <2> QED BY <1>2, <2>1 DEF EosInv, Retired
<1>5. MarkedByLast'
  BY <1>2, <1>3 DEF EosInv, MarkedByLast
<1>6. Quiet'
  BY DEF EosInv, Quiet
<1>7. ListsUnended'
  BY <1>2 DEF EosInv, ListsUnended
<1> QED BY <1>3, <1>4, <1>5, <1>6, <1>7

LEMMA AloneKeepsEnd ==
  ASSUME EosInv, TypeInv', NEW th \in Thread, NEW w, thread' = [thread EXCEPT ![th] = w],
         thread[th].at \notin {"done", "exited"}, UNCHANGED <<media, got, seek>>,
         ended' = ended \/ ended' = ended \cup {th}, th \in ended' => w.at \in Over,
         w.at \in DOMAIN EosTrack => ended = Thread,
         \A t \in Track : Unended(w.list[t])
  PROVE  EosInv'
<1>1. /\ Retired' /\ MarkedByLast' /\ Quiet' /\ ListsUnended'
      /\ ended = Thread => ended' = Thread
  BY WorkerMoves
<1>2. NoEnd' = NoEnd /\ LastOnce' = LastOnce
  BY SameEnd
<1> QED BY <1>1, <1>2 DEF EosInv, EndedByLast

LEMMA InitEnd == Init => EosInv
<1> SUFFICES ASSUME Init PROVE EosInv
  OBVIOUS
<1>1. \A t \in Gated : Queue(media, t) = <<>> /\ got[t].eos = 0
  BY NothingIn DEF Init, MediaInit, Queue, EmptyTrack, Gated, Track
<1>2. NoEnd /\ LastOnce
  BY <1>1, NoneUnended DEF NoEnd, LastOnce
<1>3. \A th \in Thread : thread[th].at = "idle" /\ \A t \in Track : Unended(thread[th].list[t])
  <2>1. Started(1).at = "idle"
    BY DEF Started
  <2>2. \A t \in Track : Unended(Started(1).list[t])
    BY StartedUnended
  <2>3. \A th \in Thread : thread[th] = Started(1)
    BY DEF Init
  <2> QED BY <2>1, <2>2, <2>3
<1>4. MarkedByLast
  BY <1>3 DEF MarkedByLast, EosTrack
<1>5. TypeInv
  BY InitType
<1> QED BY <1>2, <1>3, <1>4, <1>5 DEF EosInv, Retired, EndedByLast, Quiet, ListsUnended, Init

LEMMA ThreadEnd ==
  ASSUME EosInv, TypeInv', NEW th \in Thread,
         Fetch(th) \/ Remember(th) \/ Exit(th) \/ ReportEnd(th) \/ TestEnd(th)
  PROVE  EosInv'
<1>1. thread \in [Thread -> Worker] /\ thread[th] \in Worker
  BY DEF EosInv, TypeInv, TypeOK
<1>2. UNCHANGED <<media, got, seek>>
  BY DEF Fetch, Remember, Exit, ReportEnd, TestEnd, bufferVars
<1>3. /\ th \in ended => thread[th].at \in Over
      /\ \A t \in Track : Unended(thread[th].list[t])
  BY DEF EosInv, Retired, ListsUnended
<1>4. CASE Fetch(th)
  <2> DEFINE chunk == Stream[th][thread[th].next]
             list == IF thread[th].fresh THEN [t \in Track |-> Announced(chunk[t])] ELSE chunk
             w == [thread[th] EXCEPT !.at = "video", !.next = @ + 1, !.fresh = FALSE, !.list = list]
  <2>1. \A t \in Track : chunk \in [Track -> Seq(Sample)] /\ Unended(chunk[t])
    BY <1>4, ChunkIn DEF Fetch
  <2>2. \A t \in Track : Unended(list[t])
    <3> HIDE DEF chunk
    <3> QED BY <2>1, AnnouncedIn
  <2>3. thread' = [thread EXCEPT ![th] = w]
    <3>1. thread' = [thread EXCEPT ![th].at = "video", ![th].next = @ + 1, ![th].fresh = FALSE,
             ![th].list = list]
      BY <1>4 DEF Fetch
    <3> HIDE DEF list
    <3> QED BY <1>1, <3>1 DEF Worker
  <2> HIDE DEF list
  <2>4. w.at = "video" /\ w.list = list
    BY <1>1 DEF Worker
  <2>5. thread[th].at = "idle" /\ ended' = ended
    BY <1>4 DEF Fetch
  <2>6. th \notin ended /\ w.at \notin DOMAIN EosTrack
    BY <1>3, <2>4, <2>5 DEF Over, EosTrack
  <2> HIDE DEF w
  <2> QED BY <1>2, <2>2, <2>3, <2>4, <2>5, <2>6, AloneKeepsEnd
<1>5. CASE Remember(th)
  <2> DEFINE w == [thread[th] EXCEPT !.at = "subtitle", !.note = 0]
  <2>1. thread' = [thread EXCEPT ![th] = w] /\ thread[th].at = "remember" /\ ended' = ended
    BY <1>1, <1>5 DEF Remember, Worker
  <2>2. w.at = "subtitle" /\ w.list = thread[th].list
    BY <1>1 DEF Worker
  <2>3. th \notin ended /\ w.at \notin DOMAIN EosTrack
    BY <1>3, <2>1, <2>2 DEF Over, EosTrack
  <2> HIDE DEF w
  <2> QED BY <1>2, <1>3, <2>1, <2>2, <2>3, AloneKeepsEnd
<1>6. CASE Exit(th)
  <2> DEFINE w == [Started(1) EXCEPT !.at = "exited"]
  <2>1. thread' = [thread EXCEPT ![th] = w] /\ thread[th].at \in {"idle", "video"}
        /\ ended' = ended
    BY <1>6 DEF Exit
  <2>2. w.at = "exited" /\ \A t \in Track : Unended(w.list[t])
    BY StartedUnended DEF Track
  <2>3. th \notin ended /\ w.at \notin DOMAIN EosTrack
    BY <1>3, <2>1, <2>2 DEF Over, EosTrack
  <2> HIDE DEF w
  <2> QED BY <1>2, <2>1, <2>2, <2>3, AloneKeepsEnd
<1>7. CASE ReportEnd(th)
  <2> DEFINE w == [thread[th] EXCEPT !.at = "ending"]
  <2>1. thread' = [thread EXCEPT ![th] = w] /\ thread[th].at = "idle"
        /\ ended' = ended \cup {th}
    BY <1>1, <1>7 DEF ReportEnd, Worker
  <2>2. w.at = "ending" /\ w.list = thread[th].list
    BY <1>1 DEF Worker
  <2>3. w.at \in Over /\ w.at \notin DOMAIN EosTrack
    BY <2>2 DEF Over, EosTrack
  <2> HIDE DEF w
  <2> QED BY <1>2, <1>3, <2>1, <2>2, <2>3, AloneKeepsEnd
<1>8. CASE TestEnd(th)
  <2>1. thread[th].at = "ending" /\ ended' = ended
    BY <1>8 DEF TestEnd
  <2>2. CASE thread' = [thread EXCEPT ![th].at = "done"]
    <3> DEFINE w == [thread[th] EXCEPT !.at = "done"]
    <3>1. thread' = [thread EXCEPT ![th] = w] /\ w.at = "done" /\ w.list = thread[th].list
      BY <1>1, <2>2 DEF Worker
    <3>2. w.at \in Over /\ w.at \notin DOMAIN EosTrack
      BY <3>1 DEF Over, EosTrack
    <3> HIDE DEF w
    <3> QED BY <1>2, <1>3, <2>1, <3>1, <3>2, AloneKeepsEnd
  <2>3. ASSUME ended = Thread, NEW time \in EosTimes,
               thread' = [thread EXCEPT ![th].at = "eosVideo", ![th].note = time]
        PROVE  EosInv'
    <3> DEFINE w == [thread[th] EXCEPT !.at = "eosVideo", !.note = time]
    <3>1. thread' = [thread EXCEPT ![th] = w] /\ w.at = "eosVideo" /\ w.list = thread[th].list
      BY <1>1, <2>3 DEF Worker
    <3>2. w.at \in Over
      BY <3>1 DEF Over
    <3> HIDE DEF w
    <3> QED BY <1>2, <1>3, <2>1, <2>3, <3>1, <3>2, AloneKeepsEnd
  <2> QED BY <1>8, <2>2, <2>3 DEF TestEnd
<1> QED BY <1>4, <1>5, <1>6, <1>7, <1>8

\* A chunk goes into a buffer that does not hold the end yet.
LEMMA OfferEnd ==
  ASSUME EosInv, TypeInv', NEW th \in Thread, NEW t \in Track, Offer(th, t)
  PROVE  EosInv'
<1> DEFINE list == thread[th].list[t]
           l == IF t = "audio" /\ list # <<>> THEN WithoutHeard(list) ELSE list
           r == AddBuffersResult(t, list)
           pass == thread[th].refused \/ r.refused
           note == IF t = "audio" /\ ~r.refused THEN Heard(list) ELSE thread[th].note
           at == CASE t = "audio" /\ ~r.refused /\ BareTimes(list) # <<>> -> "remember"
                   [] t = "subtitle" -> IF pass THEN "video" ELSE "idle"
                   [] OTHER -> NextTrack[t]
           w == [thread[th] EXCEPT !.list = [@ EXCEPT ![t] = r.list],
                                   !.refused = pass /\ t # "subtitle",
                                   !.note = note, !.at = at]
<1>1. /\ TypeOK /\ thread[th] \in Worker /\ thread \in [Thread -> Worker] /\ media \in Media
      /\ list \in Seq(Sample) /\ DOMAIN thread[th].list = Track
  BY WorkerParts DEF EosInv, TypeInv, TypeOK
<1>2. Unended(list) /\ \A u \in Track : Unended(thread[th].list[u])
  BY DEF EosInv, ListsUnended
<1>3. thread[th].at = t /\ t \in {"video", "audio", "subtitle"}
  BY DEF Offer, Track
<1>4. th \notin ended
  BY <1>3 DEF EosInv, Retired, Over
<1>5. NoEnd
  BY <1>4 DEF EosInv, EndedByLast
<1>6. r = PutSamplesResult(media, t, l) /\ l \in Seq(Sample) /\ Unended(l)
      /\ Within(r.list, list)
  <2>1. r = PutSamplesResult(media, t, l) /\ l \in Seq(Sample) /\ Cut(l, list)
    <3> HIDE DEF list
    <3> QED BY <1>1, AddBuffersIn
  <2>2. Within(r.list, list)
    BY <1>1, OfferType
  <2> HIDE DEF l, r, list
  <2> QED BY <1>2, <2>1, <2>2 DEF Cut, Within
<1>7. \A u \in Gated : Unended(Queue(r.m, u))
  <2>1. \A u \in Gated : u \in Track /\ Unended(Queue(media, u))
    BY <1>5 DEF NoEnd, Gated, Track
  <2> HIDE DEF l, r
  <2> QED BY <1>1, <1>6, <2>1, PutSamplesIn
<1>8. media' = r.m /\ UNCHANGED <<got, seek, ended>>
  BY DEF Offer
<1>9. at \in {"remember", "video", "idle", "audio", "subtitle"}
  BY <1>3 DEF NextTrack
<1>10. thread' = [thread EXCEPT ![th] = w]
  <2>1. thread' = [thread EXCEPT
              ![th].list[t] = r.list,
              ![th].refused = pass /\ t # "subtitle",
              ![th].note = note,
              ![th].at = at]
    BY DEF Offer
  <2> HIDE DEF at, note, pass, r, list
  <2> QED BY <1>1, <2>1 DEF Worker
<1>11. Unended(r.list)
  BY <1>2, <1>6 DEF Within
<1> HIDE DEF at, note, pass, r, l, list
<1>12. w.at = at /\ w.list = [thread[th].list EXCEPT ![t] = r.list]
  BY <1>1 DEF Worker
<1> HIDE DEF w
<1>13. \A u \in Track : Unended(w.list[u])
  BY <1>1, <1>2, <1>11, <1>12
<1>14. w.at \notin DOMAIN EosTrack
  BY <1>9, <1>12 DEF EosTrack
<1>15. /\ Retired' /\ MarkedByLast' /\ Quiet' /\ ListsUnended'
  BY <1>3, <1>4, <1>8, <1>10, <1>13, <1>14, WorkerMoves
<1>16. NoEnd'
  BY <1>5, <1>7, <1>8 DEF NoEnd
<1>17. LastOnce'
  BY <1>16 DEF NoEnd, LastOnce, Unended, EndsOnce
<1> QED BY <1>15, <1>16, <1>17 DEF EosInv, EndedByLast

\* A marker goes in when all threads have reported.
LEMMA PutEosEnd ==
  ASSUME EosInv, TypeInv', NEW th \in Thread, PutEos(th)
  PROVE  EosInv'
<1> DEFINE t == EosTrack[thread[th].at]
           s == EosMarker(th)
           r == PutSampleResult(media, t, s)
           w == [thread[th] EXCEPT !.at = NextEos[@],
                                   !.note = IF thread[th].at = "eosSubtitle" THEN 0 ELSE @]
           over == [thread[th] EXCEPT !.at = "done", !.note = 0]
<1>1. /\ TypeOK /\ thread[th] \in Worker /\ thread \in [Thread -> Worker] /\ media \in Media
  BY DEF EosInv, TypeInv, TypeOK
<1>2. thread[th].at \in DOMAIN EosTrack /\ thread[th].at \in {"eosVideo", "eosAudio", "eosSubtitle"}
  BY DEF PutEos, EosTrack
<1>3. ended = Thread /\ \A u \in Track : Unended(thread[th].list[u])
  BY <1>2 DEF EosInv, MarkedByLast, ListsUnended
<1>4. NextEos[thread[th].at] \in {"eosAudio", "eosSubtitle", "done"}
  BY <1>2 DEF NextEos
<1>5. t \in Track /\ s \in Sample /\ s.flags = {"eos"}
  BY <1>1, <1>2, MarkerIn DEF EosTrack, Track
<1>6. UNCHANGED <<got, seek, ended>> /\ media' \in {media, r.m}
  BY DEF PutEos
<1>7. \/ thread' = thread
      \/ thread' = [thread EXCEPT ![th].at = "done", ![th].note = 0]
      \/ thread' = [thread EXCEPT ![th].at = NextEos[@],
                                  ![th].note = IF thread[th].at = "eosSubtitle" THEN 0 ELSE @]
  BY DEF PutEos
<1>8. \A u \in Track : /\ EndsOnce(Queue(media, u)) => EndsOnce(Queue(r.m, u))
                       /\ Frameless(Queue(media, u)) => Frameless(Queue(r.m, u))
  <2> HIDE DEF t, s
  <2> QED BY <1>1, <1>5, PutSampleIn
<1> HIDE DEF r
<1>9. \E v : /\ thread' = [thread EXCEPT ![th] = v] /\ v.at \in Over
             /\ \A u \in Track : Unended(v.list[u])
  <2>1. CASE thread' = thread
    <3>1. thread' = [thread EXCEPT ![th] = thread[th]]
      BY <1>1, <2>1
    <3> QED BY <1>2, <1>3, <3>1 DEF Over
  <2>2. CASE thread' = [thread EXCEPT ![th].at = "done", ![th].note = 0]
    <3>1. thread' = [thread EXCEPT ![th] = over] /\ over.at = "done"
          /\ over.list = thread[th].list
      BY <1>1, <2>2 DEF Worker
    <3> HIDE DEF over
    <3> QED BY <1>3, <3>1 DEF Over
  <2>3. CASE thread' = [thread EXCEPT ![th].at = NextEos[@],
                                  ![th].note = IF thread[th].at = "eosSubtitle" THEN 0 ELSE @]
    <3>1. thread' = [thread EXCEPT ![th] = w] /\ w.at = NextEos[thread[th].at]
          /\ w.list = thread[th].list
      BY <1>1, <2>3 DEF Worker
    <3> HIDE DEF w
    <3> QED BY <1>3, <1>4, <3>1 DEF Over
  <2> QED BY <1>7, <2>1, <2>2, <2>3
<1>10. /\ Retired' /\ MarkedByLast' /\ Quiet' /\ ListsUnended'
       /\ ended' = Thread
  <2>1. thread[th].at \notin {"done", "exited"}
    BY <1>2
  <2> QED BY <1>3, <1>6, <1>9, <2>1, WorkerMoves
<1>11. LastOnce'
  <2>1. \A u \in Gated : u \in Track /\ EndsOnce(Queue(media, u))
                         /\ (got[u].eos # 0 => Frameless(Queue(media, u)))
    BY DEF EosInv, LastOnce, Gated, Track
  <2>2. CASE media' = media
    BY <1>6, <2>1, <2>2 DEF LastOnce
  <2>3. CASE media' = r.m
    BY <1>6, <1>8, <2>1, <2>3 DEF LastOnce
  <2> QED BY <1>6, <2>2, <2>3
<1> QED BY <1>10, <1>11 DEF EosInv, EndedByLast

\* The player takes the marker after everything before it.
LEMMA GetEnd ==
  ASSUME EosInv, TypeInv', NEW t \in Track, NEW want \in Wants, Get(t, want)
  PROVE  EosInv'
<1> DEFINE r == GetSampleResult(media, t, want)
           h == FoldLeft(Seen, got[t], r.taken)
<1>1. media \in Media /\ want \in Nat /\ DOMAIN got = Track /\ \A u \in Gated : got[u] \in Had
  BY PlaybackBufferAssumption DEF EosInv, TypeInv, TypeOK
<1>2. media' = r.m /\ got' = [got EXCEPT ![t] = h] /\ UNCHANGED <<thread, seek, ended>>
  BY DEF Get
<1>3. \A u \in Track \ {t} : r.m.track[u] = media.track[u]
  <2>1. \/ r.m = media \/ r.m = Off(media, t) \/ OnlyTrack(media, r.m, t)
    BY <1>1, GetSampleIn
  <2>2. Off(media, t).track = media.track
    BY <1>1, OffIn
  <2> HIDE DEF r
  <2> QED BY <2>1, <2>2 DEF OnlyTrack
<1>4. t \in Gated =>
        /\ h = got[t] \/ (Queue(media, t) # <<>> /\ Within(Queue(r.m, t), Queue(media, t)))
        /\ h.eos # 0 => got[t].eos # 0
                        \/ /\ Queue(media, t) # <<>> /\ Kind(Queue(media, t)[1]) = "eos"
                           /\ EndsOnce(Queue(media, t)) => Frameless(Queue(r.m, t))
        /\ Within(Queue(r.m, t), Queue(media, t))
  BY <1>1, TakenIn
<1>5. Queue(media, t) \in Seq(Sample)
  BY <1>1, MediaParts
<1> HIDE DEF r, h
<1>6. \A u \in Gated \ {t} : Queue(media', u) = Queue(media, u) /\ got'[u] = got[u]
  BY <1>1, <1>2, <1>3 DEF Gated, Track, Queue
<1>7. got'[t] = h
  BY <1>1, <1>2
<1>8. LastOnce'
  <2>1. \A u \in Gated : EndsOnce(Queue(media, u)) /\ (got[u].eos # 0 => Frameless(Queue(media, u)))
    BY DEF EosInv, LastOnce
  <2>2. ASSUME t \in Gated
        PROVE  EndsOnce(Queue(media', t)) /\ (got'[t].eos # 0 => Frameless(Queue(media', t)))
    BY <1>2, <1>4, <1>7, <2>1, <2>2 DEF Within
  <2>3. \A u \in Gated : EndsOnce(Queue(media', u)) /\ (got'[u].eos # 0 => Frameless(Queue(media', u)))
    BY <1>6, <2>1, <2>2
  <2> QED BY <2>3 DEF LastOnce
<1>9. NoEnd => NoEnd'
  <2> SUFFICES ASSUME NoEnd PROVE NoEnd'
    OBVIOUS
  <2>1. \A u \in Gated : Unended(Queue(media, u)) /\ got[u].eos = 0
    BY DEF NoEnd
  <2>2. ASSUME t \in Gated
        PROVE  Unended(Queue(media', t)) /\ got'[t].eos = 0
    <3>1. Unended(Queue(media, t)) /\ got[t].eos = 0
      BY <2>1, <2>2
    <3>2. ~(Queue(media, t) # <<>> /\ Kind(Queue(media, t)[1]) = "eos")
      BY <1>5, <3>1 DEF Unended
    <3> QED BY <1>2, <1>4, <1>7, <2>2, <3>1, <3>2 DEF Within
  <2>3. \A u \in Gated : Unended(Queue(media', u)) /\ got'[u].eos = 0
    BY <1>6, <2>1, <2>2
  <2> QED BY <2>3 DEF NoEnd
<1> QED BY <1>2, <1>8, <1>9
        DEF EosInv, Retired, MarkedByLast, EndedByLast, Quiet, ListsUnended

\* An emptied buffer holds no end.
LEMMA EmptyEnd ==
  ASSUME EosInv, media' = Flushed(media), got' = Nothing
  PROVE  NoEnd' /\ LastOnce'
<1>1. media \in Media
  BY DEF EosInv, TypeInv, TypeOK
<1>2. \A t \in Gated : Queue(media', t) = <<>> /\ got'[t].eos = 0
  BY <1>1, FlushedIn, NothingIn DEF Gated, Track
<1> QED BY <1>2, NoneUnended DEF NoEnd, LastOnce

LEMMA SeekEnd ==
  ASSUME EosInv, TypeInv', SeekStep
  PROVE  EosInv'
<1>1. seek.pc \in SeekAt /\ seek \in Seeker
  BY DEF EosInv, TypeInv, TypeOK, Seeker
<1>2. UNCHANGED <<media, got>> => NoEnd' = NoEnd /\ LastOnce' = LastOnce
  BY SameEnd
<1>3. CASE FlushFirst \/ JoinAndFlush \/ SetPosFlush
  <2>1. media' = Flushed(media) /\ got' = Nothing /\ UNCHANGED <<thread, ended>>
    BY <1>3 DEF FlushFirst, JoinAndFlush, SetPosFlush, EmptyBuffer
  <2>2. NoEnd' /\ LastOnce'
    BY <2>1, EmptyEnd
  <2>3. CASE FlushFirst
    <3>1. seek'.pc = "joining"
      BY <1>1, <2>3 DEF FlushFirst, Seeker
    <3> QED BY <2>1, <2>2, <3>1
            DEF EosInv, Retired, MarkedByLast, EndedByLast, Quiet, ListsUnended
  <2>4. CASE JoinAndFlush
    <3>1. \A th \in Thread : thread[th].at \in {"done", "exited"}
      BY <2>4 DEF JoinAndFlush
    <3> QED BY <2>1, <2>2, <3>1
            DEF EosInv, Retired, MarkedByLast, EndedByLast, Quiet, ListsUnended
  <2>5. CASE SetPosFlush
    <3>1. seek.pc = "seeking"
      BY <2>5 DEF SetPosFlush
    <3> QED BY <2>1, <2>2, <3>1
            DEF EosInv, Retired, MarkedByLast, EndedByLast, Quiet, ListsUnended
  <2> QED BY <1>3, <2>3, <2>4, <2>5
<1>4. CASE SetPosMark
  <2>1. /\ media' = SeekMarked(media, seek.point) /\ seek.pc = "marking"
        /\ UNCHANGED <<thread, ended, got>>
    BY <1>4 DEF SetPosMark
  <2>2. media \in Media /\ seek.point \in Nat
    BY <2>1, PlaybackBufferAssumption DEF EosInv, TypeInv, TypeOK, Targeted
  <2>3. media'.track = media.track
    BY <2>1, <2>2, SeekMarkedIn
  <2>4. NoEnd' = NoEnd /\ LastOnce' = LastOnce
    BY <2>1, <2>3 DEF NoEnd, LastOnce, Queue
  <2> QED BY <2>1, <2>4
          DEF EosInv, Retired, MarkedByLast, EndedByLast, Quiet, ListsUnended
<1>5. CASE ResumeThreads
  <2>1. /\ thread' = [th \in Thread |-> Started(ChunkAt(Stream[th], seek.point))]
        /\ ended' = {} /\ seek.pc = "resuming" /\ seek' = [seek EXCEPT !.pc = "finishing"]
        /\ UNCHANGED <<media, got>>
    BY <1>5 DEF ResumeThreads, bufferVars
  <2>2. seek'.pc = "finishing"
    BY <1>1, <2>1 DEF Seeker
  <2>3. NoEnd /\ NoEnd' /\ LastOnce'
    BY <1>2, <2>1 DEF EosInv, Quiet
  <2>4. \A th \in Thread : \E n : thread'[th] = Started(n)
    BY <2>1
  <2>5. \A th \in Thread : thread'[th].at = "idle"
    <3>1. \A n : Started(n).at = "idle"
      BY DEF Started
    <3> QED BY <2>4, <3>1
  <2>6. \A th \in Thread, t \in Track : Unended(thread'[th].list[t])
    BY <2>4, StartedUnended
  <2> QED BY <2>1, <2>2, <2>3, <2>5, <2>6
          DEF EosInv, Retired, MarkedByLast, EndedByLast, Quiet, ListsUnended, EosTrack
<1>6. CASE CloseCache \/ ParserFails \/ FinishSeek
  <2>1. UNCHANGED <<media, got, thread, ended>>
    BY <1>6 DEF CloseCache, ParserFails, FinishSeek, bufferVars
  <2>2. seek'.pc \in {"closing", "finishing", "idle"}
    BY <1>1, <1>6 DEF CloseCache, ParserFails, FinishSeek, Seeker
  <2> QED BY <1>2, <2>1, <2>2
          DEF EosInv, Retired, MarkedByLast, EndedByLast, Quiet, ListsUnended
<1> QED BY <1>3, <1>4, <1>5, <1>6 DEF SeekStep

LEMMA NextEnd == EosInv /\ [Next]_vars => EosInv'
<1> SUFFICES ASSUME EosInv, [Next]_vars PROVE EosInv'
  OBVIOUS
<1>1. TypeInv'
  BY NextType DEF EosInv
<1>2. CASE \E th \in Thread : ThreadStep(th)
  BY <1>1, <1>2, ThreadEnd, PutEosEnd, OfferEnd DEF ThreadStep
<1>3. CASE \E t \in Track : Poll(t)
  BY <1>1, <1>3, GetEnd DEF Poll
<1>4. CASE SeekStep
  BY <1>1, <1>4, SeekEnd
<1>5. CASE \E p \in SeekPoints : AskSeek(p)
  <2>1. seek \in Seeker
    BY DEF EosInv, TypeInv, TypeOK
  <2>2. UNCHANGED <<media, got, thread, ended>> /\ seek'.pc = seek.pc
    BY <1>5, <2>1 DEF AskSeek, bufferVars, Seeker
  <2> QED BY <1>1, <2>2, SameEnd
          DEF EosInv, Retired, MarkedByLast, EndedByLast, Quiet, ListsUnended
<1>6. CASE Configure
  <2>1. UNCHANGED <<got, thread, ended, seek>>
    BY <1>6 DEF Configure
  <2>2. media'.track = media.track
    <3>1. media \in Media
      BY DEF EosInv, TypeInv, TypeOK
    <3> QED BY <1>6, <3>1 DEF Configure, SetMaxDuration, SetBufferingDuration,
                              SetQuickStartDuration, SetBufferingStyle, Media
  <2>3. NoEnd' = NoEnd /\ LastOnce' = LastOnce
    BY <2>1, <2>2 DEF NoEnd, LastOnce, Queue
  <2> QED BY <1>1, <2>1, <2>3
          DEF EosInv, Retired, MarkedByLast, EndedByLast, Quiet, ListsUnended
<1>7. CASE UNCHANGED vars
  BY <1>1, <1>7, SameEnd
     DEF vars, EosInv, Retired, MarkedByLast, EndedByLast, Quiet, ListsUnended
<1> QED BY <1>2, <1>3, <1>4, <1>5, <1>6, <1>7 DEF Next

\* No frame follows the end-of-stream marker of its track, in the buffer or at the
\* player, although each item thread may find itself the last to finish, markers
\* are pushed again and again, and a seek may cut anywhere between.
THEOREM EosIsLast == Spec => []EosLast
<1>1. Spec => []EosInv
  BY InitEnd, NextEnd, PTL DEF Spec
<1>2. EosInv => EosLast
  <2> SUFFICES ASSUME EosInv, NEW t \in Gated, NEW i \in DOMAIN Queue(media, t),
                      Kind(Queue(media, t)[i]) = "frame"
               PROVE  /\ got[t].eos = 0
                      /\ \A j \in 1..(i - 1) : Kind(Queue(media, t)[j]) # "eos"
    BY DEF EosLast
  <2> DEFINE q == Queue(media, t)
  <2>1. q \in Seq(Sample)
    BY MediaParts DEF EosInv, TypeInv, TypeOK, Gated, Track
  <2>2. EndsOnce(q) /\ (got[t].eos # 0 => Frameless(q))
    BY DEF EosInv, LastOnce
  <2> HIDE DEF q
  <2>3. i \in 1..Len(q)
    BY <2>1 DEF q
  <2>4. got[t].eos = 0
    BY <2>2, <2>3 DEF Frameless, q
  <2>5. ASSUME NEW j \in 1..(i - 1) PROVE Kind(q[j]) # "eos"
    <3>1. j \in 1..Len(q) /\ j < i
      BY <2>1, <2>3
    <3> QED BY <2>2, <2>3, <3>1 DEF EndsOnce, q
  <2> QED BY <2>4, <2>5 DEF q
<1> QED BY <1>1, <1>2, PTL

-----------------------------------------------------------------------------
(* Download and player do not wait for each other *)

\* A limit is what the constructor or SetParameter made it.
LimitsSet ==
  /\ media.limit.buffering \in {BufferingDuration} \cup NewBuffering
  /\ media.limit.quick \in {QuickStartDuration} \cup NewQuick

LEMMA LimitsKept ==
  ASSUME TypeInv, [Next]_vars, ~Configure
  PROVE  media'.limit = media.limit
<1>1. TypeOK /\ media \in Media
  BY DEF TypeInv, TypeOK
<1>2. CASE \E th \in Thread : ThreadStep(th)
  <2>1. PICK th \in Thread : ThreadStep(th)
    BY <1>2
  <2>2. CASE Fetch(th) \/ Remember(th) \/ Exit(th) \/ ReportEnd(th) \/ TestEnd(th)
    BY <2>2 DEF Fetch, Remember, Exit, ReportEnd, TestEnd, bufferVars
  <2>3. CASE PutEos(th)
    <3> DEFINE t == EosTrack[thread[th].at]
               s == EosMarker(th)
               r == PutSampleResult(media, t, s)
    <3>1. t \in Track /\ s \in Sample /\ s.flags = {"eos"}
      BY <1>1, <2>3, MarkerIn DEF PutEos, EosTrack, Track
    <3>2. media' \in {media, r.m}
      BY <2>3 DEF PutEos
    <3>3. r.m.limit = media.limit
      <4> HIDE DEF t, s
      <4> QED BY <1>1, <3>1, PutSampleIn
    <3> HIDE DEF r
    <3> QED BY <3>2, <3>3
  <2>4. CASE \E t \in Track : Offer(th, t)
    <3>1. PICK t \in Track : Offer(th, t)
      BY <2>4
    <3> DEFINE r == AddBuffersResult(t, thread[th].list[t])
    <3>2. media' = r.m
      BY <3>1 DEF Offer
    <3>3. r.m.limit = media.limit
      BY <1>1, OfferType
    <3> HIDE DEF r
    <3> QED BY <3>2, <3>3
  <2> QED BY <2>1, <2>2, <2>3, <2>4 DEF ThreadStep
<1>3. CASE \E t \in Track : Poll(t)
  <2>1. PICK t \in Track, want \in Wants : Get(t, want)
    BY <1>3 DEF Poll
  <2>2. media' = GetSampleResult(media, t, want).m /\ want \in Nat
    BY <2>1, PlaybackBufferAssumption DEF Get
  <2> QED BY <1>1, <2>2, GetSampleIn
<1>4. CASE \E p \in SeekPoints : AskSeek(p)
  BY <1>4 DEF AskSeek, bufferVars
<1>5. CASE SeekStep
  <2>1. CASE FlushFirst \/ JoinAndFlush \/ SetPosFlush
    BY <1>1, <2>1, FlushedIn DEF FlushFirst, JoinAndFlush, SetPosFlush, EmptyBuffer
  <2>2. CASE SetPosMark
    <3>1. seek.point \in Nat
      BY <2>2, PlaybackBufferAssumption DEF TypeInv, TypeOK, Targeted, SetPosMark
    <3> QED BY <1>1, <2>2, <3>1, SeekMarkedIn DEF SetPosMark
  <2>3. CASE CloseCache \/ ParserFails \/ ResumeThreads \/ FinishSeek
    BY <2>3 DEF CloseCache, ParserFails, ResumeThreads, FinishSeek, bufferVars
  <2> QED BY <1>5, <2>1, <2>2, <2>3 DEF SeekStep
<1>6. CASE UNCHANGED vars
  BY <1>6 DEF vars
<1> QED BY <1>2, <1>3, <1>4, <1>5, <1>6 DEF Next

LEMMA NextLimits ==
  ASSUME TypeInv, LimitsSet, [Next]_vars
  PROVE  LimitsSet'
<1>1. CASE ~Configure
  <2>1. media'.limit = media.limit
    BY <1>1, LimitsKept
  <2> QED BY <2>1 DEF LimitsSet
<1>2. CASE Configure
  <2>1. media \in Media
    BY DEF TypeInv, TypeOK
  <2>2. \/ \E d \in NewMax : media'.limit = [media.limit EXCEPT !.max = d]
        \/ \E d \in NewBuffering : media'.limit = [media.limit EXCEPT !.buffering = d]
        \/ \E d \in NewQuick : media'.limit = [media.limit EXCEPT !.quick = d]
        \/ media'.limit = media.limit
    BY <1>2, <2>1 DEF Configure, SetMaxDuration, SetBufferingDuration,
          SetQuickStartDuration, SetBufferingStyle, Media
  <2>3. media.limit \in [max : Nat, buffering : Nat, quick : Nat]
    BY <2>1 DEF Media
  <2> QED BY <2>2, <2>3 DEF LimitsSet
<1> QED BY <1>1, <1>2

\* A track that has not what the gate asks for has less than the buffering time.
LEMMA StarvedIsForced ==
  ASSUME Gate!OrderedLimits, TypeInv, LimitsSet, NEW t \in Gated,
         media.state # "Running", ~Filled(media, t)
  PROVE  Duration(media, t) < media.limit.buffering /\ Forced(media, t)
<1>1. /\ media.limit.quick <= media.limit.buffering
      /\ media.limit.quick \in Nat /\ media.limit.buffering \in Nat
  <2>1. media.limit.quick <= media.limit.buffering
    BY DEF Gate!OrderedLimits, LimitsSet
  <2> QED BY <2>1 DEF TypeInv, TypeOK, Media
<1>2. Duration(media, t) \in Nat
  BY MediaParts DEF TypeInv, TypeOK, Gated, Track
<1>3. Threshold(media) \in {media.limit.quick, media.limit.buffering}
  BY DEF Threshold
<1>4. ~(Duration(media, t) >= Threshold(media))
  BY DEF Filled
<1>5. Duration(media, t) < media.limit.buffering
  BY <1>1, <1>2, <1>3, <1>4
<1> QED BY <1>5 DEF Forced

\* NoStarvedRefusal of the video track alone
NoStarvedVideo ==
  media.state # "Running" => \A th \in Thread :
    thread[th].list["video"] # <<>> /\ ~Filled(media, "video")
      => ~AddBuffersResult("video", thread[th].list["video"]).refused

\* What a shut gate waits for is let in, however full the buffer, as long as quick
\* start is never set above buffering: outside a seek on both tracks, and on video
\* during a seek too, after whatever SetPos and the cut of the list have left.  (The
\* cut recalculates the audio duration, which then counts the joins between the
\* lists; audio can be full for SetPos that was not for PutSamples before.)
THEOREM StarvedIsAdmitted ==
  Gate!OrderedLimits =>
    (Spec => [](NoStarvedVideo /\ (media.state # "Seeking" => NoStarvedRefusal)))
<1> SUFFICES ASSUME Gate!OrderedLimits
             PROVE  Spec => [](NoStarvedVideo /\ (media.state # "Seeking" => NoStarvedRefusal))
  OBVIOUS
<1> DEFINE Inv == TypeInv /\ LimitsSet
<1>1. Init => Inv
  <2>1. Init => LimitsSet
    BY DEF Init, MediaInit, LimitsSet
  <2> QED BY <2>1, InitType
<1>2. Inv /\ [Next]_vars => Inv'
  BY NextType, NextLimits
<1>3. ASSUME Inv, NEW th \in Thread, NEW t \in Gated, media.state # "Running",
             ~Filled(media, t), media.state # "Seeking" \/ t = "video"
      PROVE  ~AddBuffersResult(t, thread[th].list[t]).refused
  <2>1. Duration(media, t) < media.limit.buffering /\ Forced(media, t)
    BY <1>3, StarvedIsForced
  <2> DEFINE list == thread[th].list[t]
             l == IF t = "audio" /\ list # <<>> THEN WithoutHeard(list) ELSE list
  <2>2. TypeOK /\ media \in Media /\ list \in Seq(Sample) /\ t \in Track
    BY <1>3, WorkerParts DEF TypeInv, TypeOK, Gated, Track
  <2> HIDE DEF list
  <2>3. AddBuffersResult(t, list) = PutSamplesResult(media, t, l) /\ l \in Seq(Sample)
    BY <2>2, AddBuffersIn
  <2> HIDE DEF l
  <2>4. CASE media.state # "Seeking"
    <3>1. PutSamplesResult(media, t, l).refused
            = (l # <<>> /\ ~Admits(media, t, l, Forced(media, t)))
      BY <2>2, <2>3, <2>4, PutSamplesIn
    <3>2. Admits(media, t, l, Forced(media, t))
      BY <2>1 DEF Admits
    <3> QED BY <2>3, <3>1, <3>2 DEF list
  <2>5. CASE media.state = "Seeking"
    <3>1. PutSamplesResult(media, t, l).refused = FALSE
      BY <1>3, <2>1, <2>2, <2>3, <2>5, VideoSought
    <3> QED BY <2>3, <3>1 DEF list
  <2> QED BY <2>4, <2>5
<1>4. Inv => NoStarvedVideo /\ (media.state # "Seeking" => NoStarvedRefusal)
  BY <1>3 DEF NoStarvedVideo, NoStarvedRefusal, Gated
<1> HIDE DEF Inv
<1> QED BY <1>1, <1>2, <1>4, PTL DEF Spec

\* BufferGate's theorems are the buffer's.
Promise == INSTANCE BufferGateProofs
  WITH state   <- media.state, style <- media.style, limit <- media.limit,
       level   <- [t \in Gated |-> Duration(media, t)],
       use     <- [t \in Gated |-> WillAvailable(media, t)],
       Durations <- Lasts

LEMMA ImplementsPromise == Lasts = Nat => (Spec => Promise!Spec)
<1> SUFFICES ASSUME Lasts = Nat PROVE Spec => Promise!Spec
  OBVIOUS
<1>1. Init => Promise!Init
  <2>1. Gate!Init => Promise!Init
    BY DEF Gate!Init, Promise!Init, Gate!Gated, Promise!Gated
  <2> QED BY <2>1, GateInit
<1>2. TypeInv /\ [Next]_vars => [Promise!Next]_Promise!vars
  <2> USE DEF Gate!Gated, Promise!Gated, Gate!Levels, Promise!Levels, Gate!Uses, Promise!Uses
  <2>1. Gate!Offer => Promise!Offer
    BY DEF Gate!Offer, Promise!Offer, Gate!Opened, Promise!Opened, Gate!Closed, Promise!Closed,
       Gate!Starved, Promise!Starved, Gate!Threshold, Promise!Threshold, Gate!Admits, Promise!Admits
  <2>2. Gate!OfferMarker => Promise!OfferMarker
    BY DEF Gate!OfferMarker, Promise!OfferMarker, Gate!Opened, Promise!Opened, Gate!Closed,
       Promise!Closed, Gate!Starved, Promise!Starved, Gate!Threshold, Promise!Threshold
  <2>3. Gate!OfferSeeking => Promise!OfferSeeking
    BY DEF Gate!OfferSeeking, Promise!OfferSeeking, Gate!Opened, Promise!Opened, Gate!Closed,
       Promise!Closed, Gate!Starved, Promise!Starved, Gate!Threshold, Promise!Threshold
  <2>4. Gate!Take \/ Gate!Dry => Promise!Take \/ Promise!Dry
    BY DEF Gate!Take, Promise!Take, Gate!Dry, Promise!Dry
  <2>5. Gate!Flush \/ Gate!MarkSeek => Promise!Flush \/ Promise!MarkSeek
    BY DEF Gate!Flush, Promise!Flush, Gate!MarkSeek, Promise!MarkSeek
  <2>6. Gate!SetLimits \/ Gate!SetStyle => Promise!SetLimits \/ Promise!SetStyle
    BY DEF Gate!SetLimits, Promise!SetLimits, Gate!SetStyle, Promise!SetStyle, Gate!Style, Promise!Style
  <2>7. UNCHANGED Gate!vars => UNCHANGED Promise!vars
    BY DEF Gate!vars, Promise!vars
  <2> QED BY <2>1, <2>2, <2>3, <2>4, <2>5, <2>6, <2>7, GateNext DEF Gate!Next, Promise!Next
<1>3. Spec => []TypeInv
  BY InitType, NextType, PTL DEF Spec
<1> QED BY <1>1, <1>2, <1>3, PTL DEF Spec, Promise!Spec

\* Whenever the gate is shut it is for want of something on a track that is to
\* come: On is called often enough for the player never to wait at a buffer that
\* holds what it asks for.
THEOREM ShutForWant ==
  Lasts = Nat /\ Promise!GateAssumption =>
    (Spec => [](Shut(media) /\ ~changed => \E t \in Gated : ~Filled(media, t)))
<1> SUFFICES ASSUME Lasts = Nat, Promise!GateAssumption
             PROVE  Spec => [](Shut(media) /\ ~changed => \E t \in Gated : ~Filled(media, t))
  OBVIOUS
<1>1. TypeInv /\ Promise!ShutForWant
        => (Shut(media) /\ ~changed => \E t \in Gated : ~Filled(media, t))
  <2> SUFFICES ASSUME TypeInv, Promise!ShutForWant, Shut(media), ~changed
               PROVE  \E t \in Gated : ~Filled(media, t)
    OBVIOUS
  <2>1. PICK t \in Gated : Promise!Starved(media.state, Level(media), Use(media), t)
    BY DEF Promise!ShutForWant, Promise!Closed, Shut, Promise!Gated, Gated, Level, Use
  <2>2. media \in Media
    BY DEF TypeInv, TypeOK
  <2>3. /\ Level(media)[t] = Duration(media, t) /\ Use(media)[t] = WillAvailable(media, t)
        /\ Use(media)["video"] = WillAvailable(media, "video") /\ Duration(media, t) \in Nat
    BY <2>2, Seen0 DEF Gated
  <2>4. Promise!Threshold(media.state, Use(media)) = Threshold(media) /\ Threshold(media) \in Nat
    BY <2>2, <2>3 DEF Promise!Threshold, Threshold, Media
  <2> QED BY <2>1, <2>3, <2>4 DEF Promise!Starved, Filled
<1>2. Spec => []TypeInv
  BY InitType, NextType, PTL DEF Spec
<1>3. Spec => Promise!Spec
  BY ImplementsPromise
<1>4. Promise!Spec => []Promise!ShutForWant
  BY Promise!GateShutForWant
<1> QED BY <1>1, <1>2, <1>3, <1>4, PTL

\* Whatever is set and in whatever order, both thresholds of the gate lie within
\* the buffer: the gate can always be opened by filling it.
THEOREM LimitsReachable ==
  Lasts = Nat /\ Promise!GateAssumption =>
    (Spec => [](media.limit.max >= media.limit.buffering /\ media.limit.max >= media.limit.quick))
<1> SUFFICES ASSUME Lasts = Nat, Promise!GateAssumption
             PROVE  Spec => [](media.limit.max >= media.limit.buffering
                               /\ media.limit.max >= media.limit.quick)
  OBVIOUS
<1>1. Promise!LimitsWithinMax
        => media.limit.max >= media.limit.buffering /\ media.limit.max >= media.limit.quick
  BY DEF Promise!LimitsWithinMax
<1>2. Spec => Promise!Spec
  BY ImplementsPromise
<1>3. Promise!Spec => []Promise!LimitsWithinMax
  BY Promise!LimitsSafe
<1> QED BY <1>1, <1>2, <1>3, PTL

-----------------------------------------------------------------------------
(* Formats *)

\* A thread between two chunks or with one; one that pushes
Looping == {"idle", "video", "audio", "remember", "subtitle"}
Pushing == Looping \ {"idle"}

\* What may still come from a worker of thread th before its next chunk does: the
\* rest of its list; and the last frame of the chunk, which its next list follows.
After(th, w, t) ==
  IF w.at \in Looping /\ ~w.fresh THEN Tip(Stream[th][w.next - 1][t]) ELSE <<>>
Pending(th, w, t) == Cat(w.list[t], After(th, w, t))

\* A worker has a list while it pushes one, and what a pass was not refused is in.
Listed(th, w) ==
  /\ ~w.fresh => w.next - 1 \in DOMAIN Stream[th]
  /\ w.at \notin Pushing => \A t \in Track : w.list[t] = <<>>
  /\ ~w.refused /\ w.at \in {"audio", "remember", "subtitle"} => w.list["video"] = <<>>
  /\ ~w.refused /\ w.at \in {"remember", "subtitle"} => w.list["audio"] = <<>>
  /\ \A t \in Gated : w.list[t] # <<>> => Brings(th, t)
AllListed == \A th \in Thread : Listed(th, thread[th])

\* What the player knows, what lies ready and what is to come, in a line: every
\* frame comes after its marker.
Ready(t) == Cat(Marker(got[t].fmt), Queue(media, t))
InForce ==
  Settled => \A t \in Gated :
    /\ Introduced(Ready(t))
    /\ \A th \in Thread : Introduced(Cat(Ready(t), Pending(th, thread[th], t)))

FormatInv == EosInv /\ AllListed /\ InForce

\* The parts of a line
LEMMA ReadyIn ==
  ASSUME TypeOK, NEW t \in Gated
  PROVE  /\ t \in Track /\ got[t] \in Had /\ got[t].fmt \in Encoding
         /\ Queue(media, t) \in Seq(Sample) /\ Marker(got[t].fmt) \in Seq(Sample)
         /\ Ready(t) \in Seq(Sample)
<1>1. t \in Track /\ got[t] \in Had /\ media \in Media
  BY DEF TypeOK, Gated, Track
<1>2. got[t].fmt \in Encoding
  BY <1>1 DEF Had
<1>3. Queue(media, t) \in Seq(Sample) /\ Marker(got[t].fmt) \in Seq(Sample)
  BY <1>1, <1>2, MediaParts, MarkerFormat
<1> QED BY <1>1, <1>2, <1>3, Cats DEF Ready

\* What a worker has pending is a list of samples; it is empty of a track the thread
\* does not bring.
LEMMA PendingIn ==
  ASSUME NEW th \in Thread, NEW w \in Worker, Listed(th, w), NEW t \in Gated
  PROVE  /\ w.list[t] \in Seq(Sample) /\ After(th, w, t) \in Seq(Sample)
         /\ Pending(th, w, t) \in Seq(Sample)
         /\ w.at \notin Looping => Pending(th, w, t) = <<>>
         /\ w.at \notin Pushing => Pending(th, w, t) = After(th, w, t)
         /\ w.at \notin Pushing /\ w.fresh => Pending(th, w, t) = <<>>
         /\ ~Brings(th, t) =>
              w.list[t] = <<>> /\ After(th, w, t) = <<>> /\ Pending(th, w, t) = <<>>
<1>1. t \in Track /\ w.list[t] \in Seq(Sample) /\ <<>> \in Seq(Sample)
  BY DEF Worker, Gated, Track
<1>2. /\ After(th, w, t) \in Seq(Sample) /\ (~Brings(th, t) => After(th, w, t) = <<>>)
      /\ w.at \notin Looping \/ w.fresh => After(th, w, t) = <<>>
  <2>1. CASE w.at \in Looping /\ ~w.fresh
    <3> DEFINE c == Stream[th][w.next - 1][t]
    <3>1. w.next - 1 \in DOMAIN Stream[th]
      BY <2>1 DEF Listed
    <3>2. c \in Seq(Sample)
      BY <1>1, <3>1, ChunkIn
    <3>3. Tip(c) \in Seq(Sample)
      BY <3>2, TipIn
    <3>4. ~Brings(th, t) => c = <<>>
      BY <3>1 DEF Brings
    <3>5. c = <<>> => Tip(c) = <<>>
      BY DEF Tip
    <3>6. After(th, w, t) = Tip(c)
      BY <2>1 DEF After
    <3> QED BY <2>1, <3>3, <3>4, <3>5, <3>6
  <2>2. CASE ~(w.at \in Looping /\ ~w.fresh)
    BY <1>1, <2>2 DEF After
  <2> QED BY <2>1, <2>2
<1>3. w.at \notin Pushing \/ ~Brings(th, t) => w.list[t] = <<>>
  BY <1>1 DEF Listed
<1>4. w.at \notin Looping => w.at \notin Pushing
  BY DEF Pushing
<1>5. /\ Pending(th, w, t) \in Seq(Sample)
      /\ w.list[t] = <<>> => Pending(th, w, t) = After(th, w, t)
  BY <1>1, <1>2, Cats, CatEmpty DEF Pending
<1> QED BY <1>1, <1>2, <1>3, <1>4, <1>5

\* What has nothing to come after it may be followed by anything.
LEMMA NonePending ==
  ASSUME TypeOK, NEW t \in Gated, NEW p, p = <<>>
  PROVE  Introduced(Ready(t)) => Introduced(Cat(Ready(t), p))
  BY ReadyIn, CatEmpty

\* The last sample stays the last when the format is announced.
LEMMA AnnouncedTip ==
  ASSUME NEW list \in Seq(Sample)
  PROVE  Tip(Announced(list)) = Tip(list)
<1>1. CASE Announced(list) = list
  BY <1>1
<1>2. CASE Announced(list) # list
  <2> DEFINE s == [flags |-> {"format"}, fmt |-> list[1].fmt,
                   time |-> IF list[1].time = 0 THEN 0 ELSE list[1].time - 1]
             long == <<s>> \o list
  <2>1. list # <<>> /\ Announced(list) = long
    BY <1>2 DEF Announced
  <2>2. long \in Seq(Sample)
    BY <2>1, AnnouncedIn
  <2>3. Len(list) \in Nat /\ Len(list) >= 1
    BY <2>1
  <2> HIDE DEF s
  <2>4. Len(long) = Len(list) + 1 /\ long[Len(list) + 1] = list[Len(list)]
    BY <2>3
  <2>5. long # <<>> /\ long[Len(long)] = list[Len(list)]
    BY <2>2, <2>3, <2>4
  <2> HIDE DEF long
  <2> QED BY <2>1, <2>5 DEF Tip
<1> QED BY <1>1, <1>2

\* One worker goes on, with nothing more to come than before.
LEMMA WorkerInForce ==
  ASSUME FormatInv, NEW th \in Thread, NEW w \in Worker, thread' = [thread EXCEPT ![th] = w],
         UNCHANGED <<media, got, seek>>, Listed(th, w),
         \A t \in Gated : Introduced(Ready(t)) /\ Introduced(Cat(Ready(t), Pending(th, thread[th], t)))
                            => Introduced(Cat(Ready(t), Pending(th, w, t)))
  PROVE  AllListed' /\ InForce'
<1>1. TypeOK /\ thread \in [Thread -> Worker]
  BY DEF FormatInv, EosInv, TypeInv, TypeOK
<1>2. thread'[th] = w /\ \A o \in Thread \ {th} : thread'[o] = thread[o]
  BY <1>1
<1>3. AllListed'
  BY <1>2 DEF FormatInv, AllListed
<1>4. InForce'
  <2> SUFFICES ASSUME Settled', NEW t \in Gated
               PROVE  /\ Introduced(Ready(t)')
                      /\ \A o \in Thread : Introduced(Cat(Ready(t)', Pending(o, thread'[o], t)))
    BY DEF InForce, Pending, After
  <2>1. Settled /\ Ready(t)' = Ready(t)
    BY DEF Settled, Ready
  <2>2. /\ Introduced(Ready(t))
        /\ \A o \in Thread : Introduced(Cat(Ready(t), Pending(o, thread[o], t)))
    BY <2>1 DEF FormatInv, InForce
  <2> QED BY <1>2, <2>1, <2>2
<1> QED BY <1>3, <1>4

\* A chunk that is fetched takes the place of the tip of the one before it.
LEMMA FetchFormat ==
  ASSUME FormatInv, NEW th \in Thread, Fetch(th)
  PROVE  AllListed' /\ InForce'
<1> DEFINE v == thread[th]
           chunk == Stream[th][v.next]
           list == IF v.fresh THEN [t \in Track |-> Announced(chunk[t])] ELSE chunk
           w == [v EXCEPT !.at = "video", !.next = v.next + 1, !.fresh = FALSE, !.list = list]
<1>1. /\ TypeOK /\ v \in Worker /\ thread \in [Thread -> Worker] /\ Listed(th, v)
      /\ v.at = "idle" /\ v.next \in DOMAIN Stream[th] /\ v.next \in Nat /\ v.fresh \in BOOLEAN
  BY DEF FormatInv, EosInv, TypeInv, TypeOK, AllListed, Fetch, Worker
<1>2. chunk \in [Track -> Seq(Sample)]
  <2>1. "audio" \in Track
    BY DEF Track
  <2> QED BY <1>1, <2>1, ChunkIn
<1>3. /\ list \in [Track -> Seq(Sample)]
      /\ \A t \in Track : /\ list[t] = IF v.fresh THEN Announced(chunk[t]) ELSE chunk[t]
                          /\ Tip(list[t]) = Tip(chunk[t])
                          /\ chunk[t] = <<>> => list[t] = <<>>
  <2>1. \A t \in Track : /\ Announced(chunk[t]) \in Seq(Sample)
                         /\ Tip(Announced(chunk[t])) = Tip(chunk[t])
                         /\ chunk[t] = <<>> => Announced(chunk[t]) = <<>>
    BY <1>2, AnnouncedIn, AnnouncedTip DEF Announced
  <2> HIDE DEF chunk
  <2> QED BY <1>2, <2>1
<1>4. thread' = [thread EXCEPT ![th] = w] /\ UNCHANGED <<media, got, seek>>
  <2>1. thread' = [thread EXCEPT ![th].at = "video", ![th].next = @ + 1, ![th].fresh = FALSE,
           ![th].list = list] /\ UNCHANGED <<media, got, seek>>
    BY DEF Fetch, bufferVars
  <2> HIDE DEF list
  <2> QED BY <1>1, <2>1 DEF Worker
<1> HIDE DEF list
<1>5. /\ w \in Worker /\ w.at = "video" /\ w.next = v.next + 1 /\ w.fresh = FALSE
      /\ w.list = list
  <2>1. v.next + 1 \in Nat
    BY <1>1
  <2> QED BY <1>1, <1>3, <2>1 DEF Worker, ThreadAt
<1> HIDE DEF w
<1>6. w.next - 1 = v.next
  BY <1>1, <1>5
<1>7. Listed(th, w)
  <2>1. \A t \in Gated : w.list[t] # <<>> => Brings(th, t)
    <3>1. Gated \subseteq Track
      BY DEF Gated, Track
    <3> QED BY <1>1, <1>3, <1>5, <3>1 DEF Brings
  <2>2. w.at \in Pushing
    BY <1>5 DEF Pushing, Looping
  <2> QED BY <1>1, <1>5, <1>6, <2>1, <2>2 DEF Listed
<1>8. ASSUME NEW t \in Gated, Introduced(Ready(t)), Introduced(Cat(Ready(t), Pending(th, v, t)))
      PROVE  Introduced(Cat(Ready(t), Pending(th, w, t)))
  <2> DEFINE c == chunk[t]
             l == list[t]
  <2>1. /\ t \in Track /\ c \in Seq(Sample) /\ l \in Seq(Sample) /\ Ready(t) \in Seq(Sample)
        /\ l = (IF v.fresh THEN Announced(c) ELSE c) /\ Tip(l) = Tip(c)
    BY <1>1, <1>2, <1>3, ReadyIn DEF Gated, Track
  <2>2. Pending(th, w, t) = Cat(l, Tip(l))
    <3>1. After(th, w, t) = Tip(c)
      BY <1>5, <1>6 DEF After, Looping
    <3> QED BY <1>5, <2>1, <3>1 DEF Pending
  <2>3. Pending(th, v, t) = After(th, v, t)
    BY <1>1, PendingIn DEF Pushing
  <2> HIDE DEF c, l
  <2>4. Introduced(Cat(Ready(t), l))
    <3>1. CASE v.fresh
      <4>1. Tip(<<>>) = <<>> /\ Carried(<<>>) = <<>> /\ <<>> \in Seq(Sample)
        BY DEF Tip, Carried
      <4>2. Introduced(Announced(c))
        BY <1>1, FormatAssumption DEF c
      <4>3. Introduced(Cat(Ready(t), Tip(<<>>))) /\ Introduced(Cat(Carried(<<>>), l))
        BY <1>8, <2>1, <3>1, <4>1, <4>2, CatEmpty
      <4> QED BY <2>1, <4>1, <4>3, Fetched
    <3>2. CASE ~v.fresh
      <4> DEFINE b == Stream[th][v.next - 1][t]
      <4>1. v.next - 1 \in DOMAIN Stream[th]
        BY <1>1, <3>2 DEF Listed
      <4>2. b \in Seq(Sample) /\ v.next > 1
        <5>1. b \in Seq(Sample)
          BY <2>1, <4>1, ChunkIn
        <5>2. Stream[th] \in Seq([Track -> Seq(Sample)])
          BY StreamAssumption
        <5>3. v.next - 1 >= 1
          BY <4>1, <5>2
        <5> QED BY <1>1, <5>1, <5>3
      <4>3. After(th, v, t) = Tip(b)
        BY <1>1, <3>2 DEF After, Looping
      <4>4. Introduced(Cat(Carried(b), c))
        BY <1>1, <4>2, FormatAssumption DEF Cat, c
      <4> HIDE DEF b
      <4>5. Introduced(Cat(Ready(t), Tip(b))) /\ Introduced(Cat(Carried(b), l))
        BY <1>8, <2>1, <2>3, <3>2, <4>3, <4>4
      <4> QED BY <2>1, <4>2, <4>5, Fetched
    <3> QED BY <1>1, <3>1, <3>2
  <2>5. Introduced(Cat(Cat(Ready(t), l), Tip(l)))
    BY <2>1, <2>4, TipAgain
  <2>6. Cat(Cat(Ready(t), l), Tip(l)) = Cat(Ready(t), Cat(l, Tip(l)))
    <3>1. Tip(l) \in Seq(Sample) /\ l \in Seq(Sample) /\ Ready(t) \in Seq(Sample)
      BY <2>1, TipIn
    <3> QED BY <3>1, Cats, Zenon
  <2> QED BY <2>2, <2>5, <2>6
<1> QED BY <1>4, <1>5, <1>7, <1>8, WorkerInForce

\* The steps of a thread that bring in nothing
LEMMA ThreadFormat ==
  ASSUME FormatInv, NEW th \in Thread, Remember(th) \/ Exit(th) \/ ReportEnd(th) \/ TestEnd(th)
  PROVE  AllListed' /\ InForce'
<1> DEFINE v == thread[th]
<1>1. /\ TypeOK /\ v \in Worker /\ thread \in [Thread -> Worker] /\ Listed(th, v)
      /\ UNCHANGED <<media, got, seek>>
  BY DEF FormatInv, EosInv, TypeInv, TypeOK, AllListed, Remember, Exit, ReportEnd, TestEnd,
         bufferVars
<1> HIDE DEF v
<1>2. ASSUME NEW w \in Worker, thread' = [thread EXCEPT ![th] = w], w.at \notin Looping,
             (w.fresh = v.fresh /\ w.next = v.next) \/ w.fresh, \A t \in Track : w.list[t] = <<>>
      PROVE  AllListed' /\ InForce'
  <2>1. w.at \notin Pushing /\ w.at \notin {"audio", "remember", "subtitle"}
    BY <1>2 DEF Looping, Pushing
  <2>2. Gated \subseteq Track
    BY DEF Gated, Track
  <2>3. Listed(th, w)
    BY <1>1, <1>2, <2>1, <2>2 DEF Listed
  <2>4. \A t \in Gated : Pending(th, w, t) = <<>>
    BY <1>2, <2>3, PendingIn
  <2>5. \A t \in Gated : Introduced(Ready(t)) => Introduced(Cat(Ready(t), Pending(th, w, t)))
    BY <1>1, <2>4, NonePending
  <2> QED BY <1>1, <1>2, <2>3, <2>5, WorkerInForce
<1>3. CASE Remember(th)
  <2> DEFINE w == [v EXCEPT !.at = "subtitle", !.note = 0]
  <2>1. thread' = [thread EXCEPT ![th] = w] /\ v.at = "remember"
    BY <1>1, <1>3 DEF Remember, Worker, v
  <2>2. /\ w \in Worker /\ w.at = "subtitle" /\ w.list = v.list /\ w.fresh = v.fresh
        /\ w.next = v.next /\ w.refused = v.refused
    BY <1>1 DEF Worker, ThreadAt
  <2> HIDE DEF w
  <2>3. Listed(th, w)
    BY <1>1, <2>1, <2>2 DEF Listed, Pushing, Looping
  <2>4. \A t \in Gated : Pending(th, w, t) = Pending(th, thread[th], t)
    BY <2>1, <2>2 DEF Pending, After, Looping, v
  <2>5. w \in Worker /\ thread' = [thread EXCEPT ![th] = w] /\ Listed(th, w)
    BY <2>1, <2>2, <2>3
  <2>6. \A t \in Gated : Introduced(Cat(Ready(t), Pending(th, thread[th], t)))
                         => Introduced(Cat(Ready(t), Pending(th, w, t)))
    BY <2>4
  <2> QED BY <1>1, <2>5, <2>6, WorkerInForce
<1>4. CASE Exit(th)
  <2> DEFINE w == [Started(1) EXCEPT !.at = "exited"]
  <2>1. thread' = [thread EXCEPT ![th] = w]
    BY <1>4 DEF Exit
  <2>2. w \in Worker /\ w.at = "exited" /\ w.fresh /\ \A t \in Track : w.list[t] = <<>>
    BY StartedIn DEF Started, NoChunk
  <2> HIDE DEF w
  <2>3. w.at \notin Looping
    BY <2>2 DEF Looping
  <2> QED BY <1>2, <2>1, <2>2, <2>3
<1>5. CASE ReportEnd(th)
  <2> DEFINE w == [v EXCEPT !.at = "ending"]
  <2>1. thread' = [thread EXCEPT ![th] = w] /\ v.at = "idle"
    BY <1>1, <1>5 DEF ReportEnd, Worker, v
  <2>2. w \in Worker /\ w.at = "ending" /\ w.list = v.list /\ w.fresh = v.fresh /\ w.next = v.next
    BY <1>1 DEF Worker, ThreadAt
  <2> HIDE DEF w
  <2>3. w.at \notin Looping /\ \A t \in Track : w.list[t] = <<>>
    BY <1>1, <2>1, <2>2 DEF Looping, Pushing, Listed
  <2> QED BY <1>2, <2>1, <2>2, <2>3
<1>6. CASE TestEnd(th)
  <2>1. PICK w \in Worker : /\ thread' = [thread EXCEPT ![th] = w] /\ w.at \in {"done", "eosVideo"}
                            /\ w.list = v.list /\ w.fresh = v.fresh /\ w.next = v.next
    <3>1. CASE thread' = [thread EXCEPT ![th].at = "done"]
      <4> DEFINE w == [v EXCEPT !.at = "done"]
      <4>1. w \in Worker /\ w.at = "done" /\ w.list = v.list /\ w.fresh = v.fresh /\ w.next = v.next
        BY <1>1 DEF Worker, ThreadAt
      <4>2. thread' = [thread EXCEPT ![th] = w]
        BY <1>1, <3>1 DEF Worker, v
      <4> HIDE DEF w
      <4> QED BY <4>1, <4>2
    <3>2. CASE \E time \in EosTimes : thread' = [thread EXCEPT ![th].at = "eosVideo", ![th].note = time]
      <4>1. PICK time \in EosTimes : thread' = [thread EXCEPT ![th].at = "eosVideo", ![th].note = time]
        BY <3>2
      <4> DEFINE w == [v EXCEPT !.at = "eosVideo", !.note = time]
      <4>2. time \in Nat
        BY PlaybackBufferAssumption
      <4>3. w \in Worker /\ w.at = "eosVideo" /\ w.list = v.list /\ w.fresh = v.fresh /\ w.next = v.next
        BY <1>1, <4>2 DEF Worker, ThreadAt
      <4>4. thread' = [thread EXCEPT ![th] = w]
        BY <1>1, <4>1 DEF Worker, v
      <4> HIDE DEF w
      <4> QED BY <4>3, <4>4
    <3> QED BY <1>6, <3>1, <3>2 DEF TestEnd
  <2>2. v.at = "ending"
    BY <1>6 DEF TestEnd, v
  <2>3. w.at \notin Looping /\ \A t \in Track : w.list[t] = <<>>
    BY <1>1, <2>1, <2>2 DEF Looping, Pushing, Listed
  <2> QED BY <1>2, <2>1, <2>3
<1> QED BY <1>3, <1>4, <1>5, <1>6

\* What replaces the front of a line
LEMMA FrontOf ==
  ASSUME NEW a \in Seq(Sample), NEW b \in Seq(Sample), Replaces(a, b)
  PROVE  /\ Introduced(b) => Introduced(a)
         /\ \A y \in Seq(Sample) : Introduced(Cat(b, y)) => Introduced(Cat(a, y))
<1>1. <<>> \in Seq(Sample) /\ Cat(<<>>, a) = a /\ Cat(<<>>, b) = b
      /\ Cat(a, <<>>) = a /\ Cat(b, <<>>) = b
  BY CatEmpty
<1>2. \A y \in Seq(Sample) : Introduced(Cat(Cat(<<>>, b), y)) => Introduced(Cat(Cat(<<>>, a), y))
  BY <1>1 DEF Replaces
<1>3. \A y \in Seq(Sample) : Introduced(Cat(b, y)) => Introduced(Cat(a, y))
  BY <1>1, <1>2
<1>4. Introduced(Cat(b, <<>>)) => Introduced(Cat(a, <<>>))
  BY <1>1, <1>3
<1> QED BY <1>1, <1>3, <1>4

\* A list that is offered goes on from the queue, as before
LEMMA InLine ==
  ASSUME NEW f \in Seq(Sample), NEW q \in Seq(Sample), NEW l \in Seq(Sample), NEW a \in Seq(Sample)
  PROVE  /\ Cat(Cat(f, q), Cat(l, a)) = Cat(Cat(f, Cat(q, l)), a)
         /\ Cat(q, l) \in Seq(Sample) /\ Cat(f, q) \in Seq(Sample) /\ Cat(l, a) \in Seq(Sample)
<1>1. Cat(q, l) \in Seq(Sample) /\ Cat(f, q) \in Seq(Sample) /\ Cat(l, a) \in Seq(Sample)
  BY Cats, SMT
<1>2. Cat(Cat(f, q), Cat(l, a)) = Cat(Cat(Cat(f, q), l), a)
  BY <1>1, Cats, SMT
<1>3. Cat(Cat(f, q), l) = Cat(f, Cat(q, l))
  BY Cats, SMT
<1> QED BY <1>1, <1>2, <1>3

\* AddBuffers moves a cut of a list into the track, or leaves a cut of it to be retried.
LEMMA OfferFormat ==
  ASSUME FormatInv, TypeOK', NEW th \in Thread, NEW t \in Track, Offer(th, t)
  PROVE  AllListed' /\ InForce'
<1> DEFINE v == thread[th]
           list == v.list[t]
           r == AddBuffersResult(t, list)
           pass == v.refused \/ r.refused
           note == IF t = "audio" /\ ~r.refused THEN Heard(list) ELSE v.note
           at == CASE t = "audio" /\ ~r.refused /\ BareTimes(list) # <<>> -> "remember"
                   [] t = "subtitle" -> IF pass THEN "video" ELSE "idle"
                   [] OTHER -> NextTrack[t]
           w == [v EXCEPT !.list = [@ EXCEPT ![t] = r.list],
                          !.refused = pass /\ t # "subtitle", !.note = note, !.at = at]
<1>1. /\ TypeOK /\ v \in Worker /\ thread \in [Thread -> Worker] /\ Listed(th, v)
      /\ v.at = t /\ list \in Seq(Sample) /\ v.list \in [Track -> Seq(Sample)]
      /\ v.refused \in BOOLEAN
  BY WorkerParts DEF FormatInv, EosInv, TypeInv, TypeOK, AllListed, Offer
<1>2. /\ r.m \in Media /\ r.list \in Seq(Sample) /\ r.refused \in BOOLEAN
      /\ list = <<>> \/ ~r.refused => r.list = <<>>
      /\ \A u \in Track \ {t} : Replaces(Queue(r.m, u), Queue(media, u))
      /\ Replaces(Cat(Queue(r.m, t), r.list), Cat(Queue(media, t), list))
  BY <1>1, OfferType
<1>3. t \in {"audio", "video", "subtitle"}
  BY DEF Track
<1>4. /\ t = "video" => at = "audio"
      /\ t = "audio" => at \in {"remember", "subtitle"}
      /\ t = "subtitle" => at = IF pass THEN "video" ELSE "idle"
  BY <1>3 DEF NextTrack
<1>5. thread' = [thread EXCEPT ![th] = w] /\ media' = r.m /\ UNCHANGED <<got, seek>>
  <2>1. /\ thread' = [thread EXCEPT
              ![th].list[t] = r.list,
              ![th].refused = pass /\ t # "subtitle",
              ![th].note = IF t = "audio" /\ ~r.refused THEN Heard(list) ELSE @,
              ![th].at = at]
        /\ media' = r.m /\ UNCHANGED <<got, seek>>
    BY DEF Offer
  <2> HIDE DEF at, list, r
  <2> QED BY <1>1, <2>1 DEF Worker
<1> HIDE DEF at, list, r, pass
<1>6. /\ w.at = at /\ w.next = v.next /\ w.fresh = v.fresh
      /\ w.refused = (pass /\ t # "subtitle")
      /\ w.list = [v.list EXCEPT ![t] = r.list]
  BY <1>1 DEF Worker
<1>7. thread'[th] = w /\ w \in Worker /\ \A o \in Thread \ {th} : thread'[o] = thread[o]
  <2>1. thread'[th] = w /\ \A o \in Thread \ {th} : thread'[o] = thread[o]
    BY <1>1, <1>5
  <2> HIDE DEF w
  <2> QED BY <2>1 DEF TypeOK
<1> HIDE DEF w, note
<1>8. w.list[t] = r.list /\ \A u \in Track \ {t} : w.list[u] = v.list[u]
  BY <1>1, <1>6
<1>9. ~pass => r.list = <<>> /\ ~v.refused
  BY <1>1, <1>2 DEF pass
<1>10. Listed(th, w)
  <2>1. ~w.fresh => w.next - 1 \in DOMAIN Stream[th]
    BY <1>1, <1>6 DEF Listed
  <2>2. w.at \notin Pushing => \A u \in Track : w.list[u] = <<>>
    <3> SUFFICES ASSUME w.at \notin Pushing, NEW u \in Track PROVE w.list[u] = <<>>
      OBVIOUS
    <3>1. t = "subtitle" /\ ~pass
      BY <1>3, <1>4, <1>6 DEF Pushing, Looping
    <3>2. v.list["video"] = <<>> /\ v.list["audio"] = <<>>
      BY <1>1, <1>9, <3>1 DEF Listed
    <3> QED BY <1>8, <1>9, <3>1, <3>2 DEF Track
  <2>3. ~w.refused /\ w.at \in {"audio", "remember", "subtitle"} => w.list["video"] = <<>>
    <3> HAVE ~w.refused /\ w.at \in {"audio", "remember", "subtitle"}
    <3>1. ~pass /\ t \in {"audio", "video"}
      BY <1>3, <1>4, <1>6
    <3>2. t = "audio" => v.list["video"] = <<>>
      BY <1>1, <1>9, <3>1 DEF Listed
    <3> QED BY <1>8, <1>9, <3>1, <3>2 DEF Track
  <2>4. ~w.refused /\ w.at \in {"remember", "subtitle"} => w.list["audio"] = <<>>
    <3> HAVE ~w.refused /\ w.at \in {"remember", "subtitle"}
    <3>1. ~pass /\ t = "audio"
      BY <1>3, <1>4, <1>6
    <3> QED BY <1>8, <1>9, <3>1
  <2>5. ASSUME NEW u \in Gated, w.list[u] # <<>>
        PROVE  Brings(th, u)
    <3>1. u \in Track
      BY DEF Gated, Track
    <3>2. v.list[u] # <<>>
      BY <1>2, <1>8, <2>5, <3>1 DEF list
    <3> QED BY <1>1, <3>2 DEF Listed
  <2> QED BY <2>1, <2>2, <2>3, <2>4, <2>5 DEF Listed
<1>11. AllListed'
  BY <1>7, <1>10 DEF FormatInv, AllListed
<1>12. \A u \in Gated : After(th, w, u) = After(th, v, u)
  <2>1. w.at \in Looping /\ v.at \in Looping
    BY <1>1, <1>3, <1>4, <1>6 DEF Looping
  <2> QED BY <1>6, <2>1 DEF After
<1>13. ASSUME Settled, NEW u \in Gated, Replaces(Queue(r.m, u), Queue(media, u))
       PROVE  LET x == Cat(Marker(got[u].fmt), Queue(r.m, u))
              IN  Introduced(x) /\ \A o \in Thread : Introduced(Cat(x, Pending(o, thread[o], u)))
  <2>1. /\ Queue(r.m, u) \in Seq(Sample) /\ Queue(media, u) \in Seq(Sample)
        /\ Marker(got[u].fmt) \in Seq(Sample)
    BY <1>1, <1>2, ReadyIn, MediaParts
  <2>2. Introduced(Ready(u)) /\ \A o \in Thread : Introduced(Cat(Ready(u), Pending(o, thread[o], u)))
    BY <1>13 DEF FormatInv, InForce
  <2>3. \A o \in Thread : Pending(o, thread[o], u) \in Seq(Sample)
    BY <1>1, PendingIn DEF FormatInv, AllListed
  <2> DEFINE x == Cat(Marker(got[u].fmt), Queue(r.m, u))
  <2>4. Introduced(x)
    BY <1>13, <2>1, <2>2, ReplacesAlone DEF Ready
  <2>5. \A o \in Thread : Introduced(Cat(x, Pending(o, thread[o], u)))
    BY <1>13, <2>1, <2>2, <2>3 DEF Replaces, Ready
  <2> QED BY <2>4, <2>5
<1>14. InForce'
  <2> SUFFICES ASSUME Settled', NEW u \in Gated
               PROVE  /\ Introduced(Ready(u)')
                      /\ \A o \in Thread : Introduced(Cat(Ready(u)', Pending(o, thread'[o], u)))
    BY DEF InForce, Pending, After
  <2> DEFINE x == Cat(Marker(got[u].fmt), Queue(r.m, u))
  <2>1. Settled /\ Ready(u)' = x /\ u \in Track
    BY <1>5 DEF Settled, Ready, Queue, Gated, Track
  <2>2. \A o \in Thread \ {th} : Pending(o, thread'[o], u) = Pending(o, thread[o], u)
    BY <1>7
  <2>3. /\ Queue(r.m, u) \in Seq(Sample) /\ Queue(media, u) \in Seq(Sample)
        /\ Marker(got[u].fmt) \in Seq(Sample) /\ x \in Seq(Sample)
    BY <1>1, <1>2, ReadyIn, MediaParts, Cats
  <2> HIDE DEF x
  <2>4. CASE u # t
    <3>1. Replaces(Queue(r.m, u), Queue(media, u))
      BY <1>2, <2>1, <2>4
    <3>2. Introduced(x) /\ \A o \in Thread : Introduced(Cat(x, Pending(o, thread[o], u)))
      BY <1>13, <2>1, <3>1 DEF x
    <3>3. Pending(th, w, u) = Pending(th, v, u)
      BY <1>8, <1>12, <2>1, <2>4 DEF Pending
    <3> QED BY <1>7, <2>1, <2>2, <3>2, <3>3
  <2>5. CASE u = t
    <3> DEFINE f == Marker(got[u].fmt)
               a == After(th, v, u)
               old == Cat(Queue(media, u), list)
               new == Cat(Queue(r.m, u), r.list)
    <3>1. a \in Seq(Sample) /\ Pending(th, v, u) = Cat(list, a) /\ Pending(th, w, u) = Cat(r.list, a)
      BY <1>1, <1>8, <1>12, <2>5, PendingIn DEF Pending, list
    <3>2. /\ Cat(Ready(u), Pending(th, v, u)) = Cat(Cat(f, old), a)
          /\ Cat(x, Pending(th, w, u)) = Cat(Cat(f, new), a)
          /\ Pending(th, w, u) \in Seq(Sample)
      BY <1>1, <1>2, <2>3, <3>1, InLine DEF Ready, x
    <3>3. Introduced(Cat(Cat(f, old), a))
      BY <2>1, <3>2 DEF FormatInv, InForce
    <3>4. Introduced(Cat(Cat(f, new), a))
      BY <1>2, <2>3, <2>5, <3>1, <3>3 DEF Replaces
    <3>5. Introduced(x)
      BY <2>3, <3>2, <3>4, BeginsIntroduced
    <3>6. ASSUME NEW o \in Thread \ {th}
          PROVE  Introduced(Cat(x, Pending(o, thread[o], u)))
      <4>0. Listed(o, thread[o]) /\ thread[o] \in Worker
        BY <1>1 DEF FormatInv, AllListed
      <4>1. CASE ~Brings(o, u)
        <5>1. Pending(o, thread[o], u) = <<>>
          BY <4>0, <4>1, PendingIn
        <5> QED BY <2>3, <3>5, <5>1, CatEmpty
      <4>2. CASE Brings(o, u)
        <5>1. ~Brings(th, u)
          BY <4>2, FormatAssumption
        <5>2. list = <<>> /\ r.list = <<>>
          BY <1>1, <1>2, <2>5, <5>1, PendingIn DEF list
        <5>3. Replaces(Queue(r.m, u), Queue(media, u))
          BY <1>2, <2>3, <2>5, <5>2, CatEmpty
        <5> QED BY <1>13, <2>1, <5>3 DEF x
      <4> QED BY <4>1, <4>2
    <3> QED BY <1>7, <2>1, <2>2, <3>2, <3>4, <3>5, <3>6
  <2> QED BY <2>4, <2>5
<1> QED BY <1>11, <1>14

\* The end marker of setEOS brings no frame, and no thread has any pending.
LEMMA PutEosFormat ==
  ASSUME FormatInv, TypeOK', NEW th \in Thread, PutEos(th)
  PROVE  AllListed' /\ InForce'
<1> DEFINE v == thread[th]
           t == EosTrack[v.at]
           r == PutSampleResult(media, t, EosMarker(th))
<1>1. /\ TypeOK /\ v \in Worker /\ thread \in [Thread -> Worker] /\ media \in Media
      /\ v.at \in {"eosVideo", "eosAudio", "eosSubtitle"}
  BY DEF FormatInv, EosInv, TypeInv, TypeOK, PutEos, EosTrack
<1>2. t \in Track /\ NextEos[v.at] \in Over
  BY <1>1 DEF EosTrack, NextEos, Track, Over
<1>3. \A o \in Thread : thread[o].at \in Over
  BY <1>1 DEF FormatInv, EosInv, MarkedByLast, Retired, EosTrack
<1>4. /\ r.m \in Media
      /\ \A u \in Track : \A z \in Seq(Sample) :
           Introduced(Cat(z, Queue(media, u))) => Introduced(Cat(z, Queue(r.m, u)))
  BY <1>1, <1>2, MarkerIn, PutSampleIn DEF EosMarker
<1>5. /\ media' \in {media, r.m} /\ UNCHANGED <<got, seek>>
      /\ \A o \in Thread \ {th} : thread'[o] = thread[o]
      /\ thread'[th].at \in Over /\ thread'[th].list = v.list /\ thread'[th].next = v.next
      /\ thread'[th].fresh = v.fresh
  <2> HIDE DEF r, t
  <2>1. /\ media' \in {media, r.m} /\ UNCHANGED <<got, seek>>
        /\ \/ thread' = thread
           \/ thread' = [thread EXCEPT ![th].at = "done", ![th].note = 0]
           \/ thread' = [thread EXCEPT ![th].at = NextEos[@],
                                       ![th].note = IF thread[th].at = "eosSubtitle"
                                                    THEN 0 ELSE @]
    BY DEF PutEos, r, t
  <2>2. CASE thread' = thread
    BY <1>3, <2>1, <2>2
  <2>3. CASE thread' = [thread EXCEPT ![th].at = "done", ![th].note = 0]
    BY <1>1, <2>1, <2>3 DEF Worker, Over
  <2>4. CASE thread' = [thread EXCEPT ![th].at = NextEos[@],
                                       ![th].note = IF thread[th].at = "eosSubtitle"
                                                    THEN 0 ELSE @]
    BY <1>1, <1>2, <2>1, <2>4 DEF Worker
  <2> QED BY <2>1, <2>2, <2>3, <2>4
<1> HIDE DEF r, t
<1>6. \A o \in Thread : thread'[o].at \in Over /\ thread'[o] \in Worker
  BY <1>3, <1>5 DEF TypeOK
<1>7. Over \cap Looping = {} /\ Over \cap Pushing = {}
      /\ Over \cap {"audio", "remember", "subtitle"} = {}
  BY DEF Over, Looping, Pushing
<1>8. Listed(th, thread'[th])
  <2>1. Listed(th, v) /\ \A u \in Track : v.list[u] = <<>>
    BY <1>3, <1>7 DEF FormatInv, AllListed, Listed
  <2>2. \A u \in Gated : u \in Track
    BY DEF Gated, Track
  <2>3. /\ ~thread'[th].fresh => thread'[th].next - 1 \in DOMAIN Stream[th]
        /\ \A u \in Track : thread'[th].list[u] = <<>>
        /\ thread'[th].at \notin {"audio", "remember", "subtitle"}
    BY <1>5, <1>7, <2>1 DEF Listed
  <2> QED BY <2>2, <2>3 DEF Listed
<1>9. \A o \in Thread : Listed(o, thread'[o])
  BY <1>5, <1>8 DEF FormatInv, AllListed
<1>10. \A o \in Thread, u \in Gated : Pending(o, thread'[o], u) = <<>>
  BY <1>6, <1>7, <1>9, PendingIn
<1>11. InForce'
  <2> SUFFICES ASSUME Settled', NEW u \in Gated
               PROVE  /\ Introduced(Ready(u)')
                      /\ \A o \in Thread : Introduced(Cat(Ready(u)', Pending(o, thread'[o], u)))
    BY DEF InForce, Pending, After
  <2>1. Settled /\ Introduced(Ready(u)) /\ u \in Track
    BY <1>5 DEF Settled, FormatInv, InForce, Gated, Track
  <2>2. Marker(got[u].fmt) \in Seq(Sample) /\ Ready(u)' = Cat(Marker(got[u].fmt), Queue(media', u))
        /\ Ready(u)' \in Seq(Sample)
    <3>1. Marker(got[u].fmt) \in Seq(Sample)
      BY <1>1, ReadyIn
    <3>2. Ready(u)' = Cat(Marker(got[u].fmt), Queue(media', u))
      BY <1>5 DEF Ready, Queue
    <3>3. Queue(media', u) \in Seq(Sample)
      BY <2>1, MediaParts DEF TypeOK
    <3> QED BY <3>1, <3>2, <3>3, Cats
  <2>3. Introduced(Ready(u)')
    BY <1>4, <1>5, <2>1, <2>2 DEF Ready
  <2> QED BY <1>10, <2>2, <2>3, CatEmpty
<1> QED BY <1>9, <1>11 DEF AllListed

\* What the player takes off
LEMMA SeenFormat ==
  ASSUME NEW g \in Had, NEW s \in Sample
  PROVE  Seen(g, s).fmt = IF Kind(s) = "format" THEN s.fmt ELSE g.fmt
<1>1. CASE Kind(s) = "frame"
  BY <1>1 DEF Seen, Had
<1>2. CASE Kind(s) = "format"
  BY <1>2 DEF Seen, Had
<1>3. CASE Kind(s) = "eos"
  BY <1>3 DEF Seen, Had
<1>4. CASE Kind(s) = "unavail"
  BY <1>4 DEF Seen, Had
<1>5. CASE Kind(s) \notin {"frame", "format", "eos", "unavail"}
  BY <1>5 DEF Seen
<1> QED BY <1>1, <1>2, <1>3, <1>4, <1>5

\* What the player has taken is off the line, and the format it met is kept.
LEMMA TakenFormat ==
  ASSUME media \in Media, NEW t \in Gated, NEW want \in Nat, NEW had \in Had
  PROVE  LET r == GetSampleResult(media, t, want)
             h == FoldLeft(Seen, had, r.taken)
         IN  /\ h.fmt \in Encoding
             /\ Replaces(Cat(Marker(h.fmt), Queue(r.m, t)), Cat(Marker(had.fmt), Queue(media, t)))
             /\ \A u \in Track \ {t} : Queue(r.m, u) = Queue(media, u)
<1> DEFINE r == GetSampleResult(media, t, want)
           h == FoldLeft(Seen, had, r.taken)
           q == Queue(media, t)
<1>1. t \in Track /\ t # "subtitle" /\ had.fmt \in Encoding
  BY DEF Gated, Track, Had
<1>2. CASE r.taken = <<>> /\ r.m.track = media.track
  <2>1. h = had
    BY <1>2, NoneTaken
  <2>2. \A u \in Track : Queue(r.m, u) = Queue(media, u)
    BY <1>2 DEF Queue
  <2> HIDE DEF r, h
  <2> QED BY <1>1, <2>1, <2>2 DEF Replaces, r, h
<1>3. CASE ~(r.taken = <<>> /\ r.m.track = media.track)
  <2>1. \/ r.m = media /\ r.taken = <<>>
        \/ r.m = Off(media, t) /\ r.taken = <<>>
        \/ /\ OnlyTrack(media, r.m, t)
           /\ q # <<>> /\ r.taken \in Seq(Sample) /\ Len(r.taken) = 1
           /\ Kind(r.taken[1]) = Kind(q[1]) /\ r.taken[1].fmt = q[1].fmt
           /\ \A f \in Encoding :
                LET g == IF Kind(q[1]) = "format" THEN q[1].fmt ELSE f
                IN  /\ g \in Encoding
                    /\ Replaces(Cat(Marker(g), Queue(r.m, t)), Cat(Marker(f), q))
    BY <1>1, GetSampleIn
  <2>2. Off(media, t).track = media.track
    BY <1>1, OffIn
  <2>3. /\ OnlyTrack(media, r.m, t)
        /\ q # <<>> /\ r.taken \in Seq(Sample) /\ Len(r.taken) = 1
        /\ Kind(r.taken[1]) = Kind(q[1]) /\ r.taken[1].fmt = q[1].fmt
        /\ \A f \in Encoding :
             LET g == IF Kind(q[1]) = "format" THEN q[1].fmt ELSE f
             IN  /\ g \in Encoding
                 /\ Replaces(Cat(Marker(g), Queue(r.m, t)), Cat(Marker(f), q))
    BY <1>3, <2>1, <2>2
  <2> HIDE DEF r, q
  <2>4. h = Seen(had, r.taken[1])
    BY <2>3, OneTaken
  <2>5. r.taken[1] \in Sample
    BY <2>3
  <2>6. h.fmt = IF Kind(q[1]) = "format" THEN q[1].fmt ELSE had.fmt
    BY <2>3, <2>4, <2>5, SeenFormat
  <2> HIDE DEF h
  <2>7. h.fmt \in Encoding /\ Replaces(Cat(Marker(h.fmt), Queue(r.m, t)), Cat(Marker(had.fmt), q))
    BY <1>1, <2>3, <2>6
  <2>8. \A u \in Track \ {t} : Queue(r.m, u) = Queue(media, u)
    BY <2>3 DEF OnlyTrack, Queue
  <2> QED BY <2>7, <2>8 DEF r, q, h
<1> QED BY <1>2, <1>3

\* GetSample takes samples off the front of the line only.
LEMMA GetFormat ==
  ASSUME FormatInv, TypeOK', NEW t \in Track, NEW want \in Wants, Get(t, want)
  PROVE  AllListed' /\ InForce'
<1> DEFINE r == GetSampleResult(media, t, want)
           h == FoldLeft(Seen, got[t], r.taken)
<1>1. /\ TypeOK /\ media \in Media /\ want \in Nat /\ DOMAIN got = Track
      /\ \A u \in Gated : u \in Track /\ got[u] \in Had
  BY PlaybackBufferAssumption DEF FormatInv, EosInv, TypeInv, TypeOK, Gated, Track
<1>2. media' = r.m /\ got' = [got EXCEPT ![t] = h] /\ UNCHANGED <<thread, seek>>
  BY DEF Get
<1>3. AllListed'
  BY <1>2 DEF FormatInv, AllListed
<1>4. \A u \in Gated : /\ Ready(u) \in Seq(Sample) /\ Ready(u)' \in Seq(Sample)
                       /\ Replaces(Ready(u)', Ready(u))
  <2> SUFFICES ASSUME NEW u \in Gated
               PROVE  /\ Ready(u) \in Seq(Sample) /\ Ready(u)' \in Seq(Sample)
                      /\ Replaces(Ready(u)', Ready(u))
    OBVIOUS
  <2>1. Ready(u) \in Seq(Sample)
    BY <1>1, ReadyIn
  <2>2. Ready(u)' = Cat(Marker(got'[u].fmt), Queue(r.m, u))
    BY <1>2 DEF Ready, Queue
  <2>3. Ready(u)' \in Seq(Sample)
    <3>1. got'[u].fmt \in Encoding /\ r.m \in Media
      BY <1>2 DEF TypeOK, Had
    <3>2. Marker(got'[u].fmt) \in Seq(Sample) /\ Queue(r.m, u) \in Seq(Sample)
      BY <1>1, <3>1, MarkerFormat, MediaParts
    <3> QED BY <2>2, <3>2, Cats
  <2>4. CASE u = t
    <3>1. got'[u] = h
      BY <1>1, <1>2, <2>4
    <3>2. Replaces(Cat(Marker(h.fmt), Queue(r.m, u)), Cat(Marker(got[u].fmt), Queue(media, u)))
      BY <1>1, <2>4, TakenFormat
    <3> HIDE DEF h, r
    <3> QED BY <2>1, <2>2, <2>3, <3>1, <3>2 DEF Ready
  <2>5. CASE u # t
    <3>1. got'[u] = got[u]
      BY <1>1, <1>2, <2>5
    <3>2. Queue(r.m, u) = Queue(media, u)
      <4>1. CASE t \in Gated
        BY <1>1, <2>5, <4>1, TakenFormat
      <4>2. CASE t \notin Gated
        <5>1. t = "subtitle"
          BY <4>2 DEF Gated, Track
        <5>2. r.m = media \/ r.m = Off(media, t) \/ OnlyTrack(media, r.m, t)
          BY <1>1, <5>1, GetSampleIn
        <5>3. Off(media, t).track = media.track
          BY <1>1, OffIn
        <5> HIDE DEF r
        <5> QED BY <1>1, <2>5, <5>2, <5>3 DEF OnlyTrack, Queue
      <4> QED BY <4>1, <4>2
    <3> HIDE DEF h, r
    <3> QED BY <2>1, <2>2, <2>3, <3>1, <3>2 DEF Ready, Replaces
  <2> QED BY <2>4, <2>5
<1>5. InForce'
  <2> HIDE DEF r, h
  <2> SUFFICES ASSUME Settled', NEW u \in Gated
               PROVE  /\ Introduced(Ready(u)')
                      /\ \A o \in Thread : Introduced(Cat(Ready(u)', Pending(o, thread[o], u)))
    BY <1>2 DEF InForce, Pending, After
  <2>1. Settled
    BY <1>2 DEF Settled
  <2>2. Introduced(Ready(u)) /\ \A o \in Thread : Introduced(Cat(Ready(u), Pending(o, thread[o], u)))
    BY <2>1 DEF FormatInv, InForce
  <2>3. \A o \in Thread : Pending(o, thread[o], u) \in Seq(Sample)
    BY <1>1, PendingIn DEF FormatInv, AllListed, TypeOK
  <2> QED BY <1>4, <2>2, <2>3, FrontOf
<1> QED BY <1>3, <1>5

\* Nothing has to be introduced in a line that is a marker.
LEMMA BareLine ==
  ASSUME TypeOK, NEW t \in Gated, Queue(media, t) = <<>>
  PROVE  Ready(t) \in Seq(Sample) /\ Introduced(Ready(t))
<1>1. /\ got[t].fmt \in Encoding /\ Ready(t) \in Seq(Sample)
      /\ Ready(t) = Marker(got[t].fmt)
  BY ReadyIn, CatEmpty DEF Ready
<1>2. Len(Ready(t)) = 1 /\ Kind(Ready(t)[1]) = "format"
  BY <1>1, MarkerFormat
<1>3. DOMAIN Ready(t) = {1}
  BY <1>1, <1>2
<1> QED BY <1>1, <1>2, <1>3 DEF Introduced

\* An empty buffer while nobody pushes
LEMMA EmptyFormat ==
  ASSUME FormatInv, TypeOK', media' = Flushed(media), got' = Nothing, thread' = thread,
         \A th \in Thread : thread[th].at \in {"done", "exited"}
  PROVE  InForce'
<1> SUFFICES ASSUME Settled', NEW t \in Gated
             PROVE  /\ Introduced(Ready(t)')
                    /\ \A th \in Thread : Introduced(Cat(Ready(t)', Pending(th, thread[th], t)))
  BY DEF InForce, Pending, After
<1>1. \A th \in Thread : Pending(th, thread[th], t) = <<>>
  <2>1. \A th \in Thread : /\ Listed(th, thread[th]) /\ thread[th] \in Worker
                           /\ thread[th].at \notin Looping
    BY DEF FormatInv, AllListed, EosInv, TypeInv, TypeOK, Looping
  <2> QED BY <2>1, PendingIn
<1>2. Queue(media', t) = <<>>
  BY FlushedIn DEF FormatInv, EosInv, TypeInv, TypeOK, Gated, Track
<1>3. Ready(t)' \in Seq(Sample) /\ Introduced(Ready(t)')
  <2>1. Queue(media, t)' = <<>>
    BY <1>2 DEF Queue
  <2>2. (TypeOK /\ Queue(media, t) = <<>> => Ready(t) \in Seq(Sample) /\ Introduced(Ready(t)))'
    BY BareLine, PTL
  <2> QED BY <2>1, <2>2
<1> QED BY <1>1, <1>3, CatEmpty

\* Steps that touch neither the queues nor the threads
LEMMA SameInForce ==
  ASSUME FormatInv, media'.track = media.track, UNCHANGED <<got, thread>>,
         Settled' => Settled
  PROVE  AllListed' /\ InForce'
<1>1. AllListed'
  BY DEF FormatInv, AllListed
<1>2. \A t : Ready(t)' = Ready(t)
  BY DEF Ready, Queue
<1>3. \A th, t : Pending(th, thread[th], t)' = Pending(th, thread[th], t)
  BY DEF Pending, After
<1>4. InForce'
  BY <1>2, <1>3 DEF FormatInv, InForce
<1> QED BY <1>1, <1>4

\* The steps of the seek thread empty the line, begin it anew or leave it as it is.
LEMMA SeekFormat ==
  ASSUME FormatInv, TypeOK', SeekStep
  PROVE  AllListed' /\ InForce'
<1>1. /\ TypeOK /\ Targeted /\ seek \in Seeker /\ media \in Media
      /\ DOMAIN seek = {"pc", "point", "pending", "busy", "asked"}
  BY DEF FormatInv, EosInv, TypeInv, TypeOK, Seeker
<1>2. CASE CloseCache \/ ParserFails \/ FinishSeek
  <2>1. UNCHANGED <<media, got, thread>> /\ seek.pc # "joining"
    BY <1>2 DEF CloseCache, ParserFails, FinishSeek, bufferVars
  <2> QED BY <2>1, SameInForce DEF Settled
<1>3. CASE FlushFirst
  <2>1. seek' = [seek EXCEPT !.pc = "joining"] /\ thread' = thread
    BY <1>3 DEF FlushFirst
  <2>2. ~Settled'
    BY <1>1, <2>1 DEF Settled
  <2> QED BY <2>1, <2>2 DEF FormatInv, AllListed, InForce
<1>4. CASE JoinAndFlush
  <2>1. /\ media' = Flushed(media) /\ got' = Nothing /\ thread' = thread
        /\ \A th \in Thread : thread[th].at \in {"done", "exited"}
    BY <1>4 DEF JoinAndFlush, EmptyBuffer
  <2>2. AllListed'
    BY <2>1 DEF FormatInv, AllListed
  <2> QED BY <2>1, <2>2, EmptyFormat
<1>5. CASE SetPosFlush
  <2>1. media' = Flushed(media) /\ got' = Nothing /\ thread' = thread /\ seek.pc = "seeking"
    BY <1>5 DEF SetPosFlush
  <2>2. \A th \in Thread : thread[th].at \in {"done", "exited"}
    BY <2>1 DEF FormatInv, EosInv, Quiet
  <2>3. AllListed'
    BY <2>1 DEF FormatInv, AllListed
  <2> QED BY <2>1, <2>2, <2>3, EmptyFormat
<1>6. CASE SetPosMark
  <2>1. media' = SeekMarked(media, seek.point) /\ UNCHANGED <<got, thread>>
        /\ seek.pc = "marking"
    BY <1>6 DEF SetPosMark
  <2>2. seek.point \in Nat
    BY <1>1, <2>1, PlaybackBufferAssumption DEF Targeted
  <2>3. media'.track = media.track
    BY <1>1, <2>1, <2>2, SeekMarkedIn
  <2> QED BY <2>1, <2>3, SameInForce DEF Settled
<1>7. CASE ResumeThreads
  <2>1. /\ thread' = [th \in Thread |-> Started(ChunkAt(Stream[th], seek.point))]
        /\ UNCHANGED <<media, got>> /\ seek.pc = "resuming"
    BY <1>7 DEF ResumeThreads, bufferVars
  <2>2. \A th \in Thread : /\ thread'[th] \in Worker /\ thread'[th].at = "idle"
                           /\ thread'[th].fresh /\ thread'[th].list = NoChunk
    BY <2>1 DEF Started, TypeOK
  <2>3. \A th \in Thread : Listed(th, thread'[th])
    BY <2>2 DEF Listed, NoChunk, Gated, Track, Pushing
  <2>4. \A th \in Thread, t \in Gated : Pending(th, thread'[th], t) = <<>>
    BY <2>2, <2>3, PendingIn DEF Pushing
  <2>5. InForce'
    <3> SUFFICES ASSUME Settled', NEW t \in Gated
                 PROVE  /\ Introduced(Ready(t)')
                        /\ \A th \in Thread : Introduced(Cat(Ready(t)', Pending(th, thread'[th], t)))
      BY DEF InForce, Pending, After
    <3>1. Ready(t)' = Ready(t) /\ Introduced(Ready(t))
      BY <2>1 DEF Ready, FormatInv, InForce, Settled
    <3> QED BY <1>1, <2>4, <3>1, NonePending
  <2> QED BY <2>3, <2>5 DEF AllListed
<1> QED BY <1>2, <1>3, <1>4, <1>5, <1>6, <1>7 DEF SeekStep

\* At the start the line is empty.
LEMMA InitFormat == Init => FormatInv
<1> SUFFICES ASSUME Init PROVE FormatInv
  OBVIOUS
<1>1. EosInv /\ TypeOK
  BY InitEnd DEF EosInv, TypeInv
<1>2. \A th \in Thread : /\ thread[th] \in Worker /\ thread[th].at = "idle"
                         /\ thread[th].fresh /\ thread[th].list = NoChunk
  BY <1>1 DEF Init, Started, TypeOK
<1>3. \A th \in Thread : Listed(th, thread[th])
  BY <1>2 DEF Listed, NoChunk, Gated, Track, Pushing
<1>4. \A th \in Thread, t \in Gated : Pending(th, thread[th], t) = <<>>
  BY <1>2, <1>3, PendingIn DEF Pushing
<1>5. \A t \in Gated : Queue(media, t) = <<>>
  BY DEF Init, MediaInit, Queue, EmptyTrack, Gated, Track
<1>6. \A t \in Gated : Introduced(Ready(t))
  BY <1>1, <1>5, BareLine
<1>7. InForce
  BY <1>1, <1>4, <1>6, NonePending DEF InForce
<1> QED BY <1>1, <1>3, <1>7 DEF FormatInv, AllListed

\* Every step keeps each frame after its marker.
LEMMA NextFormat == FormatInv /\ [Next]_vars => FormatInv'
<1> SUFFICES ASSUME FormatInv, [Next]_vars PROVE FormatInv'
  OBVIOUS
<1>1. EosInv' /\ TypeOK' /\ media \in Media
  BY NextEnd DEF FormatInv, EosInv, TypeInv, TypeOK
<1>2. CASE \E th \in Thread : ThreadStep(th)
  BY <1>1, <1>2, FetchFormat, ThreadFormat, PutEosFormat, OfferFormat DEF ThreadStep, FormatInv
<1>3. CASE \E t \in Track : Poll(t)
  BY <1>1, <1>3, GetFormat DEF Poll, FormatInv
<1>4. CASE \E p \in SeekPoints : AskSeek(p)
  <2>1. UNCHANGED <<media, got, thread>> /\ seek'.pc = seek.pc
    BY <1>4 DEF AskSeek, bufferVars, FormatInv, EosInv, TypeInv, TypeOK, Seeker
  <2> QED BY <1>1, <2>1, SameInForce DEF FormatInv, Settled
<1>5. CASE SeekStep
  BY <1>1, <1>5, SeekFormat DEF FormatInv
<1>6. CASE Configure
  <2>1. media'.track = media.track
    BY <1>1, <1>6 DEF Configure, SetMaxDuration, SetBufferingDuration, SetQuickStartDuration,
                      SetBufferingStyle, Media
  <2>2. UNCHANGED <<got, thread, seek>>
    BY <1>6 DEF Configure
  <2> QED BY <1>1, <2>1, <2>2, SameInForce DEF FormatInv, Settled
<1>7. CASE UNCHANGED vars
  <2>1. UNCHANGED <<media, got, thread, seek>>
    BY <1>7 DEF vars
  <2> QED BY <1>1, <2>1, SameInForce DEF FormatInv, Settled
<1> QED BY <1>2, <1>3, <1>4, <1>5, <1>6, <1>7 DEF Next

\* Every frame in the buffer comes after the NEW_FORMAT marker of its own encoding,
\* whatever the cuts of a seek, of a retry and of audio heard already left of the
\* lists, and whatever the player has taken off.
THEOREM FormatsMatch == Spec => []FormatMatches
<1>1. Spec => []FormatInv
  BY InitFormat, NextFormat, PTL DEF Spec
<1>2. ASSUME FormatInv PROVE FormatMatches
  <2> SUFFICES ASSUME Settled, NEW t \in Gated
               PROVE  LET q == Queue(media, t)
                          announced(i) == {j \in 1..(i - 1) : Kind(q[j]) = "format"}
                      IN  \A i \in DOMAIN q : Kind(q[i]) = "frame" =>
                            q[i].fmt = IF announced(i) = {} THEN got[t].fmt
                                                            ELSE q[Max(announced(i))].fmt
    BY DEF FormatMatches
  <2>1. TypeOK /\ Introduced(Ready(t))
    BY <1>2 DEF FormatInv, InForce, EosInv, TypeInv
  <2>2. got[t].fmt \in Encoding /\ Queue(media, t) \in Seq(Sample)
    BY <2>1, ReadyIn
  <2> QED BY <2>1, <2>2, LastAnnounced DEF Ready
<1>3. FormatInv => FormatMatches
  BY <1>2
<1> QED BY <1>1, <1>3, PTL
-----------------------------------------------------------------------------
(* Every frame can be decoded *)

\* The decoder that had s last can decode r, or r is not to be shown.
LinkedTo(s, r) ==
  /\ s # NoFrame /\ Kind(s) = "frame"
  /\ Has(r, "drop") \/ (~Has(s, "drop") /\ NextInChunk(s, r))

\* Each frame of a list can be decoded when g comes before it, or whatever does.
Decodable(g, list) ==
  \A i \in 1..Len(list) : Dependent(list[i]) =>
    LinkedTo(IF i = 1 THEN g ELSE list[i - 1], list[i])
Alone(list) == \A g : Decodable(g, list)

\* A list that can be decoded wherever another can
Decodes(a, b) == \A g : Decodable(g, b) => Decodable(g, a)

\* What can be decoded first of all can be decoded anywhere.
LEMMA AloneIn ==
  ASSUME NEW list, Decodable(NoFrame, list)
  PROVE  Alone(list)
  BY DEF Alone, Decodable, LinkedTo

LEMMA FramelessAlone ==
  /\ \A list : Frameless(list) => Alone(list)
  /\ Alone(<<>>)
  BY DEF Frameless, Alone, Decodable, Dependent

LEMMA DecodableJoined ==
  ASSUME NEW g, NEW x \in Seq(Sample), NEW y \in Seq(Sample), Decodable(g, x), Alone(y)
  PROVE  Decodable(g, Cat(x, y))
<1>1. /\ Len(Cat(x, y)) = Len(x) + Len(y) /\ Len(x) \in Nat /\ Len(y) \in Nat
      /\ \A k \in 1..Len(x) : Cat(x, y)[k] = x[k]
      /\ \A k \in 1..Len(y) : Cat(x, y)[Len(x) + k] = y[k]
  BY CatParts
<1> DEFINE z == Cat(x, y)
           Before(i) == IF i = 1 THEN g ELSE z[i - 1]
<1> HIDE DEF z
<1> SUFFICES ASSUME NEW i \in 1..Len(z), Dependent(z[i])
             PROVE  LinkedTo(Before(i), z[i])
  BY DEF Decodable, z
<1>2. CASE i <= Len(x)
  <2>1. i \in 1..Len(x) /\ z[i] = x[i] /\ (i # 1 => i - 1 \in 1..Len(x) /\ z[i - 1] = x[i - 1])
    BY <1>1, <1>2 DEF z
  <2> QED BY <2>1 DEF Decodable
<1>3. CASE i > Len(x)
  <2> DEFINE k == i - Len(x)
  <2>1. k \in 1..Len(y) /\ z[i] = y[k] /\ (k # 1 => k - 1 \in 1..Len(y) /\ z[i - 1] = y[k - 1])
    <3>1. k \in 1..Len(y) /\ i = Len(x) + k
      BY <1>1, <1>3 DEF z
    <3>2. k # 1 => k - 1 \in 1..Len(y) /\ i - 1 = Len(x) + (k - 1)
      BY <1>1, <3>1
    <3> HIDE DEF k
    <3> QED BY <1>1, <3>1, <3>2 DEF z
  <2>2. k # 1
    <3>1. Decodable(NoFrame, y)
      BY DEF Alone
    <3> HIDE DEF k
    <3> QED BY <2>1, <3>1 DEF Decodable, LinkedTo
  <2>3. LinkedTo(y[k - 1], y[k])
    <3>1. Decodable(NoFrame, y)
      BY DEF Alone
    <3> HIDE DEF k
    <3> QED BY <2>1, <2>2, <3>1 DEF Decodable
  <2>4. i # 1
    BY <1>1, <1>3, <2>1, <2>2
  <2> HIDE DEF k
  <2> QED BY <2>1, <2>2, <2>3, <2>4
<1> QED BY <1>1, <1>2, <1>3 DEF z

\* From a key frame or a marker on, nothing that came before is needed.
LEMMA DecodableFrom ==
  ASSUME NEW g, NEW list \in Seq(Sample), NEW p \in 1..Len(list), Decodable(g, list),
         ~Dependent(list[p])
  PROVE  Alone(SubSeq(list, p, Len(list)))
<1> DEFINE rest == SubSeq(list, p, Len(list))
<1>1. /\ Len(rest) = Len(list) - p + 1 /\ Len(list) \in Nat
      /\ \A k \in 1..Len(rest) : rest[k] = list[p + k - 1]
  OBVIOUS
<1> HIDE DEF rest
<1> SUFFICES ASSUME NEW i \in 1..Len(rest), Dependent(rest[i])
             PROVE  i # 1 /\ LinkedTo(rest[i - 1], rest[i])
  BY DEF Alone, Decodable, rest
<1>2. i # 1
  BY <1>1
<1>3. /\ p + i - 1 \in 1..Len(list) /\ p + i - 1 # 1 /\ rest[i] = list[p + i - 1]
      /\ i - 1 \in 1..Len(rest) /\ rest[i - 1] = list[p + (i - 1) - 1]
      /\ p + (i - 1) - 1 = (p + i - 1) - 1
  BY <1>1, <1>2
<1> QED BY <1>2, <1>3 DEF Decodable

\* A cut at a key frame leaves what can be decoded by itself.
LEMMA CutAtKey ==
  ASSUME NEW g, NEW list \in Seq(Sample), NEW p \in 1..Len(list), Decodable(g, list),
         Has(list[p], "key")
  PROVE  Alone(SetPosition(list, p))
<1> DEFINE rest == SubSeq(list, p, Len(list))
<1>1. p \in 1..(Len(list) + 1) /\ rest \in Seq(Sample)
  OBVIOUS
<1>2. PICK b \in Seq(Sample) : SetPosition(list, p) = b \o rest /\ Frameless(b)
  BY <1>1, KeptFormat
<1>3. Alone(rest)
  <2>1. ~Dependent(list[p])
    BY DEF Dependent
  <2> QED BY <2>1, DecodableFrom
<1> HIDE DEF rest
<1>4. \A h : Decodable(h, b)
  BY <1>2, FramelessAlone DEF Alone
<1>5. \A h : Decodable(h, Cat(b, rest))
  BY <1>1, <1>3, <1>4, DecodableJoined
<1> QED BY <1>2, <1>5 DEF Alone, Cat

\* A marker at the end needs nothing.
LEMMA DecodableMarked ==
  ASSUME NEW q \in Seq(Sample), NEW s \in Sample, Kind(s) # "frame"
  PROVE  Decodes(Append(q, s), q)
<1>1. <<s>> \in Seq(Sample) /\ Frameless(<<s>>) /\ Append(q, s) = Cat(q, <<s>>)
  BY DEF Frameless, Cat
<1>2. Alone(<<s>>)
  BY <1>1, FramelessAlone
<1> QED BY <1>1, <1>2, DecodableJoined DEF Decodes

\* What the player has had last is what the rest is decoded after.
LEMMA DecodableTail ==
  ASSUME NEW g, NEW q \in Seq(Sample), q # <<>>, Decodable(g, q)
  PROVE  /\ Decodable(IF Kind(q[1]) = "frame" THEN q[1] ELSE g, Tail(q))
         /\ Dependent(q[1]) => g # NoFrame
<1>1. /\ Len(Tail(q)) = Len(q) - 1 /\ Len(q) \in Nat \ {0}
      /\ \A k \in 1..Len(Tail(q)) : Tail(q)[k] = q[k + 1] /\ k + 1 \in 1..Len(q)
  OBVIOUS
<1>2. \A k \in 1..Len(Tail(q)) : Dependent(Tail(q)[k]) => LinkedTo(q[k], Tail(q)[k])
  <2> TAKE k \in 1..Len(Tail(q))
  <2>1. k + 1 \in 1..Len(q) /\ k + 1 # 1 /\ (k + 1) - 1 = k /\ Tail(q)[k] = q[k + 1]
    BY <1>1
  <2> QED BY <2>1 DEF Decodable
<1>3. Decodable(IF Kind(q[1]) = "frame" THEN q[1] ELSE g, Tail(q))
  <2> SUFFICES ASSUME NEW k \in 1..Len(Tail(q)), Dependent(Tail(q)[k])
               PROVE  LinkedTo(IF k = 1 THEN IF Kind(q[1]) = "frame" THEN q[1] ELSE g
                                        ELSE Tail(q)[k - 1], Tail(q)[k])
    BY DEF Decodable
  <2>1. CASE k = 1
    BY <1>2, <2>1 DEF LinkedTo
  <2>2. CASE k # 1
    <3>1. k - 1 \in 1..Len(Tail(q)) /\ Tail(q)[k - 1] = q[k]
      <4>1. k - 1 \in 1..Len(Tail(q)) /\ (k - 1) + 1 = k
        BY <1>1, <2>2
      <4> QED BY <1>1, <4>1
    <3> QED BY <1>2, <2>2, <3>1
  <2> QED BY <2>1, <2>2
<1>4. Dependent(q[1]) => g # NoFrame
  <2>1. 1 \in 1..Len(q)
    BY <1>1
  <2> QED BY <2>1 DEF Decodable, LinkedTo
<1> QED BY <1>3, <1>4

\* Frames may be marked as not to be shown up to a frame that needs none of them.
LEMMA DecodableDropped ==
  ASSUME NEW q \in Seq(Sample), NEW a \in Seq(Sample), Len(a) = Len(q), NEW p \in Nat,
         \A i \in 1..Len(q) : /\ Kind(a[i]) = Kind(q[i]) /\ a[i].time = q[i].time
                              /\ Has(a[i], "key") = Has(q[i], "key")
                              /\ i < p => Has(a[i], "drop")
                              /\ i >= p => a[i] = q[i],
         p \in 1..Len(q) /\ Dependent(q[p]) => Has(q[p], "drop")
  PROVE  Decodes(a, q)
<1> SUFFICES ASSUME NEW g, Decodable(g, q), NEW i \in 1..Len(q), Dependent(a[i])
             PROVE  LinkedTo(IF i = 1 THEN g ELSE a[i - 1], a[i])
  BY DEF Decodes, Decodable
<1>1. Dependent(q[i]) /\ Len(q) \in Nat
  BY DEF Dependent
<1>2. LinkedTo(IF i = 1 THEN g ELSE q[i - 1], q[i])
  BY <1>1 DEF Decodable
<1>3. i # 1 => /\ i - 1 \in 1..Len(q) /\ Kind(a[i - 1]) = "frame" /\ a[i - 1] # NoFrame
  <2> HAVE i # 1
  <2>1. i - 1 \in 1..Len(q)
    BY <1>1
  <2>2. Kind(a[i - 1]) = "frame"
    BY <1>2, <2>1 DEF LinkedTo
  <2>3. a[i - 1] \in Sample
    BY <2>1
  <2>4. a[i - 1].time # NoFrame.time
    BY <2>3 DEF Sample, NoFrame, NoPoint
  <2> QED BY <2>1, <2>2, <2>4
<1>4. CASE i <= p
  <2>1. Has(a[i], "drop")
    <3>1. CASE i < p
      BY <3>1
    <3>2. CASE i = p
      BY <1>1, <3>2
    <3> QED BY <1>4, <3>1, <3>2
  <2> QED BY <1>2, <1>3, <2>1 DEF LinkedTo
<1>5. CASE i > p
  <2>1. a[i] = q[i] /\ (i # 1 => a[i - 1] = q[i - 1])
    BY <1>3, <1>5
  <2> QED BY <1>2, <2>1
<1> QED BY <1>4, <1>5

-----------------------------------------------------------------------------
(* ... whatever the buffer cuts, marks and takes off *)

\* What was ready to be decoded in m is in n.
VideoKept(m, n) == Decodes(Queue(n, "video"), Queue(m, "video"))

LEMMA KeptSame ==
  ASSUME NEW m, NEW n, n.track["video"] = m.track["video"]
  PROVE  VideoKept(m, n)
  BY DEF VideoKept, Decodes, Queue

LEMMA KeptTwice ==
  ASSUME NEW m, NEW n, NEW o, VideoKept(m, n), VideoKept(n, o)
  PROVE  VideoKept(m, o)
  BY DEF VideoKept, Decodes

\* The queue is cut to a key frame.
LEMMA VideoSetPosKept ==
  ASSUME NEW m \in Media
  PROVE  VideoKept(m, VideoSetPos(m))
<1> DEFINE q      == Queue(m, "video")
           keys   == {i \in DOMAIN q : Has(q[i], "key")}
           before == {i \in keys : q[i].time <= m.actual}
           p      == IF before # {} THEN LatestOf(q, before) ELSE Min(keys)
           n      == VideoSetPos(m)
<1>1. q \in Seq(Sample) /\ m.track \in [Track -> TrackBuffer] /\ "video" \in Track
  BY MediaParts DEF Track
<1>2. CASE keys = {}
  <2>1. n = m
    BY <1>2 DEF VideoSetPos
  <2> QED BY <2>1, KeptSame
<1>3. CASE keys # {}
  <2>1. p \in keys /\ p \in 1..Len(q)
    <3>1. keys \subseteq 1..Len(q) /\ before \subseteq keys
      BY <1>1
    <3> HIDE DEF keys, before, q
    <3>2. before # {} => LatestOf(q, before) \in before
      BY <1>1, <3>1, LatestIn
    <3>3. Min(keys) \in keys
      <4>1. keys \subseteq Nat
        BY <1>1, <3>1
      <4> QED BY <4>1, <1>3, MinIn
    <3> QED BY <3>1, <3>2, <3>3
  <2>2. Queue(n, "video") = SetPosition(q, p)
    <3>1. n = [m EXCEPT !.track["video"].q = SetPosition(q, p)]
      BY <1>3 DEF VideoSetPos
    <3> HIDE DEF n, p, q
    <3> QED BY <1>1, <3>1 DEF Media, TrackBuffer, Queue
  <2>3. Has(q[p], "key")
    BY <2>1
  <2> HIDE DEF n, p, q, keys
  <2>4. \A g : Decodable(g, q) => Decodable(g, SetPosition(q, p))
    BY <1>1, <2>1, <2>3, CutAtKey DEF Alone
  <2> QED BY <2>2, <2>4 DEF VideoKept, Decodes, n, q
<1> QED BY <1>2, <1>3

\* So is a list that arrives during a seek, if it is cut.
LEMMA SeekCutAlone ==
  ASSUME NEW m \in Media, NEW list \in Seq(Sample), Alone(list)
  PROVE  Alone(SeekCut(m, "video", list).list)
<1> DEFINE t == "video"
           point  == IF t = "video" THEN m.wanted ELSE m.actual
           beyond == {i \in DOMAIN list : point < list[i].time}
           passed == t = "video" /\ beyond # {}
           drop   == IF /\ passed /\ Len(list) >= 2
                        /\ Has(list[1], "unavail") /\ Has(list[2], "format")
                     THEN 1 ELSE 0
           rest   == SubSeq(list, 1 + drop, Len(list))
           halt   == Min(beyond \cup {Len(list) + 1})
           L      == Landings(t, list, halt)
           cut    == IF L = {} THEN rest ELSE SetPosition(rest, Max(L) - drop)
           n      == [m EXCEPT !.sought = @ \/ passed,
                               !.actual = IF t = "video" /\ L # {}
                                          THEN list[Max(L)].time ELSE @]
<1>1. SeekCut(m, t, list) = [list |-> cut, m |-> n]
  BY DEF SeekCut
<1>2. Len(list) \in Nat /\ DOMAIN list = 1..Len(list)
  OBVIOUS
<1>3. halt \in 1..(Len(list) + 1)
  <2>1. beyond \cup {Len(list) + 1} \subseteq 1..(Len(list) + 1)
    BY <1>2
  <2>2. beyond \cup {Len(list) + 1} \subseteq Nat /\ beyond \cup {Len(list) + 1} # {}
    BY <2>1
  <2> HIDE DEF beyond
  <2>3. Min(beyond \cup {Len(list) + 1}) \in beyond \cup {Len(list) + 1}
    BY <2>2, MinIn
  <2> QED BY <2>1, <2>3 DEF halt
<1>4. L \subseteq 1..Len(list) /\ \A i \in L : Has(list[i], "key")
  <2> HIDE DEF halt
  <2> QED BY <1>2, <1>3 DEF Landings
<1>5. L # {} => Max(L) \in L /\ Max(L) \in 1..Len(list)
  <2> HIDE DEF L
  <2>1. IsFiniteSet(L) /\ L \subseteq Nat
    BY <1>2, <1>4, Positions
  <2> QED BY <1>4, <2>1, MaxIn
<1>6. drop \in {0, 1} /\ (drop = 1 => Len(list) >= 2 /\ Has(list[1], "unavail")
                                       /\ Has(list[2], "format"))
  <2> HIDE DEF beyond
  <2> QED OBVIOUS
<1> HIDE DEF drop, L
<1>7. drop = 1 /\ L # {} => Max(L) # 1
  <2> SUFFICES ASSUME drop = 1, L # {}, Max(L) = 1
               PROVE  FALSE
    OBVIOUS
  <2>1. {"key", "unavail"} \subseteq list[1].flags
    BY <1>4, <1>5, <1>6 DEF Has
  <2>2. list[1] \in Sample
    BY <1>2, <1>6
  <2> QED BY <2>1, <2>2 DEF Sample
<1>8. /\ rest \in Seq(Sample) /\ Len(rest) = Len(list) - drop
      /\ \A k \in 1..Len(rest) : rest[k] = list[drop + k]
  <2>1. 1 + drop \in 1..(Len(list) + 1)
    BY <1>2, <1>6
  <2>2. /\ rest \in Seq(Sample) /\ Len(rest) = Len(list) - (1 + drop) + 1
        /\ \A k \in 1..Len(rest) : rest[k] = list[(1 + drop) + k - 1]
    BY <2>1
  <2>3. \A k \in Nat : (1 + drop) + k - 1 = drop + k
    BY <1>6
  <2> HIDE DEF rest
  <2> QED BY <1>2, <1>6, <2>2, <2>3
<1>9. Alone(rest)
  <2>1. CASE drop = 0
    <3>1. rest = list
      BY <2>1
    <3> QED BY <3>1
  <2>2. CASE drop = 1
    <3>1. Kind(list[2]) \in {"program", "format"} /\ 2 \in 1..Len(list)
      BY <1>2, <1>6, <2>2, KindFirst
    <3>2. ~Dependent(list[2]) /\ rest = SubSeq(list, 2, Len(list))
      BY <2>2, <3>1 DEF Dependent
    <3>3. Decodable(NoFrame, list)
      BY DEF Alone
    <3> HIDE DEF rest
    <3> QED BY <3>1, <3>2, <3>3, DecodableFrom
  <2> QED BY <1>6, <2>1, <2>2
<1> HIDE DEF rest
<1>10. L # {} => Alone(SetPosition(rest, Max(L) - drop))
  <2> HAVE L # {}
  <2> DEFINE p == Max(L) - drop
  <2>1. p \in 1..Len(rest) /\ drop + p = Max(L)
    BY <1>2, <1>5, <1>6, <1>7, <1>8
  <2>2. Has(rest[p], "key")
    BY <1>4, <1>5, <1>8, <2>1
  <2>3. Decodable(NoFrame, rest)
    BY <1>9 DEF Alone
  <2> HIDE DEF p
  <2>4. Alone(SetPosition(rest, p))
    BY <1>8, <2>1, <2>2, <2>3, CutAtKey
  <2> QED BY <2>4 DEF p
<1>11. Alone(cut)
  BY <1>9, <1>10
<1> HIDE DEF cut, n
<1> QED BY <1>1, <1>11

\* A pending seek leaves the video as it is.
LEMMA SeekProgressKept ==
  ASSUME NEW m \in Media, NEW t \in Track, NEW refused \in BOOLEAN
  PROVE  VideoKept(m, SeekProgress(m, t, refused))
<1> DEFINE n == SeekProgress(m, t, refused)
           started == ~VideoPending(m) /\ (WillAvailable(m, "audio") => AudioReached(m))
           sought  == [m EXCEPT !.sought = TRUE]
           moved   == [AudioSetPos(m) EXCEPT !.state = IF started THEN "Starting" ELSE @]
<1>1. n \in {m, sought, moved}
  <2> HIDE DEF moved, sought
  <2> QED BY DEF SeekProgress, moved, sought
<1>2. sought.track = m.track
  BY DEF Media
<1>3. moved.track["video"] = m.track["video"]
  <2> DEFINE a == AudioSetPos(m)
  <2>1. a.track["video"] = m.track["video"] /\ a \in Media
    BY AudioSetPosIn DEF Trimmed
  <2> HIDE DEF a, started
  <2>2. moved.track = a.track
    BY <2>1 DEF Media, a
  <2> HIDE DEF moved
  <2> QED BY <2>1, <2>2
<1> HIDE DEF moved, sought, n
<1>4. n.track["video"] = m.track["video"]
  BY <1>1, <1>2, <1>3
<1> QED BY <1>4, KeptSame DEF n

\* What AddBuffers does, for video lists that can be decoded by themselves
LEMMA PutSamplesKept ==
  ASSUME NEW m \in Media, NEW t \in Track, NEW list \in Seq(Sample),
         t = "video" => Alone(list)
  PROVE  LET r == PutSamplesResult(m, t, list)
         IN  VideoKept(m, r.m) /\ (t = "video" => Alone(r.list))
<1> DEFINE o       == IF m.state = "Seeking"
                      THEN [SeekCut(m, t, list) EXCEPT !.m = QueueSetPos(@, t)]
                      ELSE [list |-> list, m |-> m]
           refused == o.list # <<>> /\ ~Admits(o.m, t, o.list, Forced(o.m, t))
           after   == IF o.list = <<>> \/ refused THEN o.m ELSE Spliced(o.m, t, o.list)
           x       == SeekProgress(after, t, refused)
           left    == IF refused THEN o.list ELSE <<>>
           n       == On(x)
<1>1. PutSamplesResult(m, t, list) = [m |-> n, list |-> left, refused |-> refused]
  BY DEF PutSamplesResult
<1>2. /\ o.list \in Seq(Sample) /\ o.m \in Media /\ VideoKept(m, o.m)
      /\ t = "video" => Alone(o.list)
  <2>1. CASE m.state = "Seeking"
    <3> DEFINE c == SeekCut(m, t, list)
    <3>1. /\ c = [list |-> c.list, m |-> c.m]
          /\ c.list \in Seq(Sample) /\ c.m \in Media /\ c.m.track = m.track
      BY SeekCutIn
    <3>2. t = "video" => Alone(c.list)
      BY SeekCutAlone
    <3>3. o = [c EXCEPT !.m = QueueSetPos(@, t)]
      BY <2>1
    <3> HIDE DEF c, o
    <3>4. o.list = c.list /\ o.m = QueueSetPos(c.m, t)
      BY <3>1, <3>3
    <3>5. o.m \in Media
      BY <3>1, <3>4, QueueSetPosIn DEF Trimmed
    <3>6. VideoKept(m, c.m)
      BY <3>1, KeptSame
    <3>7. VideoKept(c.m, o.m)
      <4>1. CASE t = "video"
        BY <3>1, <3>4, <4>1, VideoSetPosKept DEF QueueSetPos
      <4>2. CASE t # "video"
        <5>1. o.m.track["video"] = c.m.track["video"]
          BY <3>1, <3>4, <4>2, AudioSetPosIn DEF QueueSetPos
        <5> QED BY <5>1, KeptSame
      <4> QED BY <4>1, <4>2
    <3> QED BY <3>1, <3>2, <3>4, <3>5, <3>6, <3>7, KeptTwice
  <2>2. CASE m.state # "Seeking"
    <3>1. o.list = list /\ o.m = m
      BY <2>2
    <3> HIDE DEF o
    <3> QED BY <3>1, KeptSame
  <2> QED BY <2>1, <2>2
<1> HIDE DEF o
<1>3. refused \in BOOLEAN
  OBVIOUS
<1> HIDE DEF refused
<1>4. after \in Media /\ VideoKept(o.m, after)
  <2>1. CASE o.list = <<>> \/ refused
    <3>1. after = o.m
      BY <2>1
    <3> HIDE DEF after
    <3> QED BY <1>2, <3>1, KeptSame
  <2>2. CASE ~(o.list = <<>> \/ refused)
    <3>1. after = Spliced(o.m, t, o.list) /\ o.list # <<>>
      BY <2>2
    <3> HIDE DEF after
    <3>2. OnlyTrack(o.m, after, t) /\ Queue(after, t) = Queue(o.m, t) \o o.list
      BY <1>2, <3>1, SplicedIn
    <3>3. after \in Media
      BY <3>2 DEF OnlyTrack
    <3>4. CASE t = "video"
      <4>1. Queue(o.m, "video") \in Seq(Sample) /\ Alone(o.list)
        BY <1>2, <3>4, MediaParts
      <4>2. \A g : Decodable(g, Queue(o.m, "video")) =>
                   Decodable(g, Cat(Queue(o.m, "video"), o.list))
        BY <1>2, <4>1, DecodableJoined
      <4> QED BY <3>2, <3>3, <3>4, <4>2 DEF VideoKept, Decodes, Cat
    <3>5. CASE t # "video"
      <4>1. after.track["video"] = o.m.track["video"]
        BY <3>2, <3>5 DEF OnlyTrack, Track
      <4> QED BY <3>3, <4>1, KeptSame
    <3> QED BY <3>4, <3>5
  <2> QED BY <2>1, <2>2
<1> HIDE DEF after
<1>5. x \in Media /\ VideoKept(after, x)
  BY <1>3, <1>4, SeekProgressIn, SeekProgressKept DEF Trimmed
<1> HIDE DEF x
<1>6. VideoKept(x, n)
  BY <1>5, OnIn, KeptSame
<1>7. t = "video" => Alone(left)
  BY <1>2, FramelessAlone
<1> HIDE DEF n, left
<1>8. VideoKept(m, n)
  BY <1>2, <1>4, <1>5, <1>6, KeptTwice
<1> DEFINE r == PutSamplesResult(m, t, list)
<1>9. r.m = n /\ r.list = left
  BY <1>1
<1> HIDE DEF r
<1> QED BY <1>7, <1>8, <1>9 DEF r

\* The end-of-stream marker, which a pending seek may take for the point
LEMMA PutSampleKept ==
  ASSUME NEW m \in Media, NEW t \in Track, NEW s \in Sample, s.flags = {"eos"}
  PROVE  VideoKept(m, PutSampleResult(m, t, s).m)
<1> DEFINE refused == t # "subtitle" /\ Duration(m, t) >= m.limit.max
           after   == IF refused THEN m ELSE AppendOne(m, t, s)
           atKey   == [after EXCEPT !.actual = s.time]
           started == WillAvailable(after, "audio") => AudioReached(after)
           sought  == [after EXCEPT !.sought = TRUE]
           both    == AudioSetPos(VideoSetPos(atKey))
           moved   == [AudioSetPos(after) EXCEPT
                         !.state = IF ~VideoPending(after) /\ started THEN "Starting" ELSE @]
           x       == SeekSample(after, t, s, refused)
           n       == On(x)
<1>1. PutSampleResult(m, t, s).m = n /\ refused \in BOOLEAN
  BY DEF PutSampleResult
<1>2. after \in Media /\ VideoKept(m, after)
  <2>1. CASE refused
    BY <2>1, KeptSame
  <2>2. CASE ~refused
    <3>1. after = AppendOne(m, t, s)
      BY <2>2
    <3> HIDE DEF after
    <3>2. OnlyTrack(m, after, t) /\ Queue(after, t) = Append(Queue(m, t), s)
      BY <3>1, AppendOneIn
    <3>3. Kind(s) # "frame" /\ Queue(m, t) \in Seq(Sample)
      BY EosKind, MediaParts
    <3>4. CASE t = "video"
      BY <3>2, <3>3, <3>4, DecodableMarked DEF VideoKept, OnlyTrack
    <3>5. CASE t # "video"
      <4>1. after.track["video"] = m.track["video"]
        BY <3>2, <3>5 DEF OnlyTrack, Track
      <4> QED BY <3>2, <4>1, KeptSame DEF OnlyTrack
    <3> QED BY <3>4, <3>5
  <2> QED BY <2>1, <2>2
<1> HIDE DEF after, refused
<1>3. x \in {after, sought, both, moved} /\ x \in Media
  <2>1. x \in Media
    BY <1>1, <1>2, SeekSampleIn DEF Trimmed
  <2> HIDE DEF moved, sought, both
  <2>2. x \in {after, sought, both, moved}
    BY DEF SeekSample, moved, sought, both
  <2> QED BY <2>1, <2>2
<1>4. VideoKept(after, sought)
  <2>1. sought.track = after.track
    BY <1>2 DEF Media
  <2> HIDE DEF sought
  <2> QED BY <2>1, KeptSame
<1>5. VideoKept(after, both)
  <2>1. atKey \in Media /\ atKey.track = after.track
    BY <1>2 DEF Media, Sample
  <2> HIDE DEF atKey
  <2> DEFINE v == VideoSetPos(atKey)
  <2>2. VideoKept(after, atKey) /\ VideoKept(atKey, v) /\ v \in Media
    BY <2>1, KeptSame, VideoSetPosIn, VideoSetPosKept DEF Trimmed
  <2> HIDE DEF v
  <2>3. VideoKept(v, both)
    BY <2>2, AudioSetPosIn, KeptSame DEF v
  <2> HIDE DEF both
  <2> QED BY <2>2, <2>3, KeptTwice
<1>6. VideoKept(after, moved)
  <2> DEFINE a == AudioSetPos(after)
  <2>1. a.track["video"] = after.track["video"] /\ a \in Media
    BY <1>2, AudioSetPosIn DEF Trimmed
  <2> HIDE DEF a, started
  <2>2. moved.track = a.track
    BY <2>1 DEF Media, a
  <2> HIDE DEF moved
  <2> QED BY <2>1, <2>2, KeptSame
<1> HIDE DEF x, sought, both, moved
<1>7. VideoKept(after, x)
  BY <1>3, <1>4, <1>5, <1>6, KeptSame
<1>8. VideoKept(x, n)
  BY <1>3, OnIn, KeptSame
<1> HIDE DEF n
<1> QED BY <1>1, <1>2, <1>7, <1>8, KeptTwice

\* GetNextKeyFrame leads to a frame that needs none before it, or was marked already.
LEMMA NextKeyFrameIn ==
  ASSUME NEW q \in Seq(Sample), NEW want \in Nat
  PROVE  LET p == NextKeyFrame(q, want)
         IN  p \in Nat /\ (p \in 1..Len(q) /\ Dependent(q[p]) => Has(q[p], "drop"))
<1> DEFINE stops == {i \in DOMAIN q : q[i].time > want \/ Special(q[i])}
           halt  == IF stops = {} THEN Len(q) + 1 ELSE Min(stops)
           keys  == {i \in 1..(halt - 1) : Has(q[i], "key")}
           p     == NextKeyFrame(q, want)
<1>1. Len(q) \in Nat /\ DOMAIN q = 1..Len(q)
  OBVIOUS
<1>2. halt \in 1..(Len(q) + 1) /\ (halt <= Len(q) => halt \in stops)
  <2>1. stops \subseteq 1..Len(q)
    BY <1>1
  <2>2. stops # {} => Min(stops) \in stops
    <3> HIDE DEF stops
    <3>1. stops \subseteq Nat
      BY <1>1, <2>1
    <3> QED BY <3>1, MinIn
  <2>3. halt = IF stops = {} THEN Len(q) + 1 ELSE Min(stops)
    OBVIOUS
  <2> HIDE DEF stops, halt
  <2>4. CASE stops = {}
    BY <1>1, <2>3, <2>4
  <2>5. CASE stops # {}
    BY <1>1, <2>1, <2>2, <2>3, <2>5
  <2> QED BY <2>4, <2>5
<1> HIDE DEF halt
<1>3. keys \subseteq 1..Len(q) /\ \A i \in keys : Has(q[i], "key")
  BY <1>1, <1>2
<1>4. p = CASE halt <= Len(q) /\ q[halt].time <= want -> halt
            [] keys # {} /\ ~(halt <= Len(q) /\ q[halt].time <= want) -> Max(keys)
            [] OTHER -> 0
  BY DEF NextKeyFrame, halt
<1>5. keys # {} => Max(keys) \in keys
  <2> HIDE DEF keys
  <2>1. IsFiniteSet(keys) /\ keys \subseteq Nat
    BY <1>1, <1>3, Positions
  <2> QED BY <2>1, MaxIn
<1> HIDE DEF keys, p
<1>6. CASE halt <= Len(q) /\ q[halt].time <= want
  <2>1. p = halt
    BY <1>4, <1>6
  <2>2. Special(q[halt]) /\ q[halt] \in Sample
    <3>1. q[halt] \in Sample /\ q[halt].time \in Nat
      BY <1>1, <1>2, <1>6 DEF Sample
    <3> QED BY <1>2, <1>6, <3>1
  <2>3. Dependent(q[halt]) => Has(q[halt], "drop")
    <3> HAVE Dependent(q[halt])
    <3>1. PICK f \in q[halt].flags : f \notin {"key", "force"}
      BY <2>2 DEF Special
    <3>2. f \in Flag
      BY <2>2 DEF Sample
    <3>3. \A i \in DOMAIN Priority : f # Priority[i]
      BY FrameBits DEF Dependent, Has
    <3>4. f = "drop"
      BY <3>1, <3>2, <3>3 DEF Flag
    <3> QED BY <3>1, <3>4 DEF Has
  <2> QED BY <1>2, <2>1, <2>3 DEF p
<1>7. CASE ~(halt <= Len(q) /\ q[halt].time <= want) /\ keys # {}
  <2>1. p = Max(keys)
    BY <1>4, <1>7
  <2>2. p \in 1..Len(q) /\ Has(q[p], "key")
    BY <1>3, <1>5, <1>7, <2>1
  <2> QED BY <2>2 DEF Dependent, p
<1>8. CASE ~(halt <= Len(q) /\ q[halt].time <= want) /\ keys = {}
  <2>1. p = 0
    BY <1>4, <1>8
  <2> QED BY <2>1 DEF p
<1> QED BY <1>6, <1>7, <1>8

\* A late player skips frames up to one that can be shown.
LEMMA MarkLateKept ==
  ASSUME NEW m \in Media, NEW want \in Nat
  PROVE  VideoKept(m, MarkLate(m, want))
<1> DEFINE q == Queue(m, "video")
           p == IF want > 0 /\ q[1].time + Late < want THEN NextKeyFrame(q, want) ELSE 0
           a == [i \in DOMAIN q |-> IF i < p THEN [q[i] EXCEPT !.flags = @ \cup {"drop"}]
                                             ELSE q[i]]
           n == MarkLate(m, want)
<1>1. q \in Seq(Sample) /\ m.track \in [Track -> TrackBuffer] /\ "video" \in Track
  BY MediaParts DEF Track
<1>2. Len(q) \in Nat /\ DOMAIN q = 1..Len(q)
  BY <1>1
<1>3. Queue(n, "video") = a
  <2>1. n = [m EXCEPT !.track["video"].q = a]
    BY DEF MarkLate
  <2> HIDE DEF n, a
  <2> QED BY <1>1, <2>1 DEF Media, TrackBuffer, Queue
<1>4. p \in Nat /\ (p \in 1..Len(q) /\ Dependent(q[p]) => Has(q[p], "drop"))
  <2>1. NextKeyFrame(q, want) \in Nat
        /\ (NextKeyFrame(q, want) \in 1..Len(q) /\ Dependent(q[NextKeyFrame(q, want)])
              => Has(q[NextKeyFrame(q, want)], "drop"))
    <3> HIDE DEF q
    <3> QED BY <1>1, NextKeyFrameIn
  <2>2. p = 0 \/ p = NextKeyFrame(q, want)
    OBVIOUS
  <2> HIDE DEF p, q
  <2> QED BY <2>1, <2>2
<1> HIDE DEF p
<1>5. ASSUME NEW s \in Sample
      PROVE  LET r == [s EXCEPT !.flags = @ \cup {"drop"}]
             IN  /\ r \in Sample /\ Kind(r) = Kind(s) /\ r.time = s.time
                 /\ Has(r, "key") = Has(s, "key") /\ Has(r, "drop")
  <2> DEFINE r == [s EXCEPT !.flags = @ \cup {"drop"}]
  <2>1. r \in Sample /\ r.flags = s.flags \cup {"drop"} /\ r.time = s.time
    BY DEF Sample, Flag
  <2> HIDE DEF r
  <2>2. \A i \in DOMAIN Priority : Has(r, Priority[i]) <=> Has(s, Priority[i])
    BY <2>1 DEF Priority, Has
  <2>3. Kind(r) = Kind(s)
    BY <2>2, SameKind
  <2>4. Has(r, "key") = Has(s, "key") /\ Has(r, "drop")
    BY <2>1 DEF Has
  <2> QED BY <2>1, <2>3, <2>4 DEF r
<1>6. \A i \in 1..Len(q) : /\ a[i] \in Sample /\ Kind(a[i]) = Kind(q[i])
                           /\ a[i].time = q[i].time /\ Has(a[i], "key") = Has(q[i], "key")
                           /\ i < p => Has(a[i], "drop")
                           /\ i >= p => a[i] = q[i]
  <2> TAKE i \in 1..Len(q)
  <2>1. q[i] \in Sample
    BY <1>1, <1>2
  <2>2. CASE i < p
    <3>1. a[i] = [q[i] EXCEPT !.flags = @ \cup {"drop"}]
      BY <1>2, <2>2
    <3>2. ~(i >= p)
      BY <1>4, <2>2
    <3> HIDE DEF a, q
    <3> QED BY <1>5, <2>1, <3>1, <3>2
  <2>3. CASE ~(i < p)
    <3>1. a[i] = q[i]
      BY <1>2, <2>3
    <3> HIDE DEF a, q
    <3> QED BY <2>1, <2>3, <3>1
  <2> QED BY <2>2, <2>3
<1>7. a \in Seq(Sample) /\ Len(a) = Len(q)
  <2>1. a \in [1..Len(q) -> Sample]
    BY <1>2, <1>6
  <2> HIDE DEF a, q
  <2> QED BY <1>2, <2>1
<1> HIDE DEF a, q, n
<1>8. Decodes(a, q)
  BY <1>1, <1>4, <1>6, <1>7, DecodableDropped
<1> QED BY <1>3, <1>8 DEF VideoKept, q, n

\* What GetSample hands out of the video track
LEMMA GetVideoIn ==
  ASSUME NEW m \in Media, NEW want \in Nat
  PROVE  LET r == GetSampleResult(m, "video", want)
         IN  \/ r.taken = <<>> /\ r.m.track = m.track
             \/ \E n \in Media :
                  LET q == Queue(n, "video")
                  IN  /\ VideoKept(m, n) /\ q \in Seq(Sample) /\ q # <<>>
                      /\ r.taken \in Seq(Sample) /\ Len(r.taken) = 1 /\ r.taken[1] = q[1]
                      /\ Queue(r.m, "video") = Tail(q)
<1> DEFINE t     == "video"
           count == IF Queue(m, t) = <<>> THEN 0 ELSE 1
           m1    == IF count = 1 THEN MarkLate(m, want) ELSE m
           pop   == CHOOSE f : f = Pops(m1, t, count, f)
           r     == GetSampleResult(m, t, want)
           some  == [m |-> pop[count], taken |-> SubSeq(Queue(m1, t), 1, count)]
<1>1. r = CASE ~MayGet(m, t)              -> [m |-> m, taken |-> <<>>]
            [] MayGet(m, t) /\ count = 0  -> [m |-> Off(m, t), taken |-> <<>>]
            [] OTHER -> some
  BY DEF GetSampleResult, Pops
<1> HIDE DEF some, r
<1>2. t \in Track
  BY DEF Track
<1>3. Queue(m, t) \in Seq(Sample) /\ Len(Queue(m, t)) \in Nat
      /\ (Queue(m, t) = <<>> <=> Len(Queue(m, t)) = 0)
  <2>1. Queue(m, t) \in Seq(Sample)
    BY <1>2, MediaParts
  <2> QED BY <2>1, EmptySeq
<1>4. CASE ~MayGet(m, t)
  <2>1. r = [m |-> m, taken |-> <<>>]
    BY <1>1, <1>4
  <2> QED BY <2>1 DEF r
<1>5. CASE MayGet(m, t) /\ count = 0
  <2>1. r = [m |-> Off(m, t), taken |-> <<>>]
    BY <1>1, <1>5
  <2> QED BY <1>2, <2>1, OffIn DEF r
<1>6. CASE MayGet(m, t) /\ count # 0
  <2>1. count = 1 /\ Queue(m, t) # <<>>
    BY <1>6
  <2>2. r.m = pop[1] /\ r.taken = SubSeq(Queue(m1, t), 1, 1)
    <3>1. r = some
      BY <1>1, <1>6
    <3> HIDE DEF pop, m1
    <3> QED BY <2>1, <3>1 DEF some
  <2>3. m1 = MarkLate(m, want)
    BY <2>1
  <2>4. pop = Pops(m1, t, 1, pop)
    <3>1. pop = CHOOSE f : f = Pops(m1, t, 1, f)
      BY <2>1
    <3> HIDE DEF pop, m1
    <3>2. \E f : f = Pops(m1, t, 1, f)
      BY Poppable
    <3> QED BY <3>1, <3>2
  <2> HIDE DEF pop, m1, count
  <2>5. r.m = Pop(m1, t)
    <3>1. 0 \in 0..1 /\ 1 \in 0..1 /\ 1 # 0 /\ 1 - 1 = 0
      OBVIOUS
    <3>2. pop[0] = m1 /\ pop[1] = Pop(pop[0], t)
      BY <2>4, <3>1 DEF Pops
    <3> QED BY <2>2, <3>2
  <2>6. /\ m1 \in Media /\ VideoKept(m, m1) /\ Queue(m1, t) \in Seq(Sample)
        /\ Queue(m1, t) # <<>> /\ Len(Queue(m1, t)) >= 1
    <3>1. m1 \in Media /\ Len(Queue(m1, t)) = Len(Queue(m, t)) /\ VideoKept(m, m1)
      BY <2>3, MarkLateIn, MarkLateKept DEF OnlyTrack
    <3>2. Queue(m1, t) \in Seq(Sample)
      BY <1>2, <3>1, MediaParts
    <3>3. Queue(m1, t) = <<>> <=> Len(Queue(m1, t)) = 0
      BY <3>2, EmptySeq
    <3> QED BY <1>3, <2>1, <3>1, <3>2, <3>3
  <2>7. /\ r.taken \in Seq(Sample) /\ Len(r.taken) = 1 /\ r.taken[1] = Queue(m1, t)[1]
    BY <2>2, <2>6
  <2>8. Queue(r.m, t) = Tail(Queue(m1, t))
    BY <1>2, <2>5, <2>6, PopIn
  <2> QED BY <2>6, <2>7, <2>8 DEF r
<1> QED BY <1>4, <1>5, <1>6

-----------------------------------------------------------------------------
(* ... from the parser to the player *)

\* The lists of the threads can be decoded by themselves, and what is ready can
\* after what the player had last, if it had anything.
VideoInv ==
  /\ TypeInv
  /\ \A th \in Thread : Alone(thread[th].list["video"])
  /\ Decodable(got["video"].last, Queue(media, "video"))
  /\ got["video"].first = NoFrame <=> got["video"].last = NoFrame
  /\ VideoStartsAtKey

LEMMA GatedVideo ==
  "video" \in Gated /\ "video" \in Track
  BY DEF Gated, Track

\* What a parser delivers, with or without the format announced
LEMMA ChunkAlone ==
  ASSUME NEW th \in Thread, NEW n \in DOMAIN Stream[th]
  PROVE  LET list == Stream[th][n]["video"]
         IN  Alone(list) /\ Alone(Announced(list))
<1> DEFINE list == Stream[th][n]["video"]
<1>1. list \in Seq(Sample) /\ DOMAIN list = 1..Len(list) /\ Len(list) \in Nat
  BY ChunkIn, GatedVideo
<1>2. \A i \in 1..Len(list) : Dependent(list[i]) =>
        i > 1 /\ Kind(list[i - 1]) = "frame" /\ ~Has(list[i - 1], "drop")
  BY <1>1, VideoAssumption
<1>3. Alone(list)
  <2> SUFFICES ASSUME NEW i \in 1..Len(list), Dependent(list[i])
               PROVE  i # 1 /\ LinkedTo(list[i - 1], list[i])
    BY DEF Alone, Decodable
  <2>1. i > 1 /\ Kind(list[i - 1]) = "frame" /\ ~Has(list[i - 1], "drop")
    BY <1>2
  <2>2. i \in 2..Len(list) /\ i - 1 \in 1..Len(list)
    BY <1>1, <2>1
  <2>3. list[i - 1] # NoFrame
    <3>1. list[i - 1] \in Sample
      BY <1>1, <2>2
    <3> QED BY <3>1 DEF Sample, NoFrame, NoPoint
  <2>4. NextInChunk(list[i - 1], list[i])
    BY <2>1, <2>2 DEF NextInChunk
  <2> QED BY <2>1, <2>3, <2>4 DEF LinkedTo
<1> HIDE DEF list
<1>4. CASE Announced(list) = list
  BY <1>3, <1>4 DEF list
<1>5. CASE Announced(list) # list
  <2> DEFINE s == [flags |-> {"format"}, fmt |-> list[1].fmt,
                   time |-> IF list[1].time = 0 THEN 0 ELSE list[1].time - 1]
  <2>1. list # <<>> /\ Announced(list) = <<s>> \o list
    BY <1>5 DEF Announced
  <2>2. list[1].time \in Nat /\ list[1].fmt \in Encoding
    <3>1. list[1] \in Sample
      BY <1>1, <2>1
    <3> QED BY <3>1 DEF Sample
  <2>3. s \in Sample /\ s.flags = {"format"}
    BY <2>2 DEF Sample, Flag, Priority
  <2> HIDE DEF s
  <2>4. <<s>> \in Seq(Sample) /\ Frameless(<<s>>)
    <3>1. Has(s, "format")
      BY <2>3 DEF Has
    <3>2. Kind(s) # "frame"
      BY <3>1, KindFirst
    <3> QED BY <2>3, <3>2 DEF Frameless
  <2>5. \A g : Decodable(g, Cat(<<s>>, list))
    BY <1>1, <1>3, <2>4, FramelessAlone, DecodableJoined DEF Alone
  <2> QED BY <1>3, <2>1, <2>5 DEF Alone, Cat, list
<1> QED BY <1>4, <1>5

\* The track as the player and the buffer left it
LEMMA SameVideo ==
  ASSUME VideoInv, TypeInv', UNCHANGED got, VideoKept(media, media'),
         \A th \in Thread : Alone(thread'[th].list["video"])
  PROVE  VideoInv'
<1>1. Decodable(got["video"].last, Queue(media', "video"))
  BY DEF VideoInv, VideoKept, Decodes
<1> QED BY <1>1 DEF VideoInv, VideoStartsAtKey, Queue

LEMMA ThreadVideo ==
  ASSUME VideoInv, TypeInv', UNCHANGED got, VideoKept(media, media'), NEW th \in Thread,
         NEW w, thread' = [thread EXCEPT ![th] = w], Alone(w.list["video"])
  PROVE  VideoInv'
<1>1. thread \in [Thread -> Worker]
  BY DEF VideoInv, TypeInv, TypeOK
<1>2. \A o \in Thread : Alone(thread'[o].list["video"])
  BY <1>1 DEF VideoInv
<1> QED BY <1>2, SameVideo

\* The steps of a thread by itself
LEMMA AloneVideo ==
  ASSUME VideoInv, TypeInv', NEW th \in Thread,
         Fetch(th) \/ Remember(th) \/ Exit(th) \/ ReportEnd(th) \/ TestEnd(th)
  PROVE  VideoInv'
<1>1. thread \in [Thread -> Worker] /\ thread[th] \in Worker
  BY DEF VideoInv, TypeInv, TypeOK
<1>2. UNCHANGED <<media, got>>
  BY DEF Fetch, Remember, Exit, ReportEnd, TestEnd, bufferVars
<1>3. VideoKept(media, media') /\ Alone(thread[th].list["video"])
  BY <1>2, KeptSame DEF VideoInv
<1>4. CASE Fetch(th)
  <2> DEFINE chunk == Stream[th][thread[th].next]
             list == IF thread[th].fresh THEN [t \in Track |-> Announced(chunk[t])] ELSE chunk
             w == [thread[th] EXCEPT !.at = "video", !.next = @ + 1, !.fresh = FALSE, !.list = list]
  <2>1. Alone(chunk["video"]) /\ Alone(Announced(chunk["video"]))
    BY <1>4, ChunkAlone DEF Fetch
  <2>2. Alone(list["video"])
    <3> HIDE DEF chunk
    <3> QED BY <2>1, GatedVideo
  <2>3. thread' = [thread EXCEPT ![th] = w]
    <3>1. thread' = [thread EXCEPT ![th].at = "video", ![th].next = @ + 1, ![th].fresh = FALSE,
             ![th].list = list]
      BY <1>4 DEF Fetch
    <3> HIDE DEF list
    <3> QED BY <1>1, <3>1 DEF Worker
  <2> HIDE DEF list
  <2>4. w.list = list
    BY <1>1 DEF Worker
  <2> HIDE DEF w
  <2> QED BY <1>2, <1>3, <2>2, <2>3, <2>4, ThreadVideo
<1>5. CASE Exit(th)
  <2> DEFINE w == [Started(1) EXCEPT !.at = "exited"]
  <2>1. thread' = [thread EXCEPT ![th] = w]
    BY <1>5 DEF Exit
  <2>2. w.list["video"] = <<>>
    BY GatedVideo DEF Started, NoChunk
  <2> HIDE DEF w
  <2> QED BY <1>2, <1>3, <2>1, <2>2, FramelessAlone, ThreadVideo
<1>6. CASE Remember(th) \/ ReportEnd(th) \/ TestEnd(th)
  <2>1. PICK w : thread' = [thread EXCEPT ![th] = w] /\ w.list = thread[th].list
    <3>1. CASE Remember(th)
      <4> DEFINE w == [thread[th] EXCEPT !.at = "subtitle", !.note = 0]
      <4>1. thread' = [thread EXCEPT ![th] = w] /\ w.list = thread[th].list
        BY <1>1, <3>1 DEF Remember, Worker
      <4> HIDE DEF w
      <4> QED BY <4>1
    <3>2. CASE ReportEnd(th)
      <4> DEFINE w == [thread[th] EXCEPT !.at = "ending"]
      <4>1. thread' = [thread EXCEPT ![th] = w] /\ w.list = thread[th].list
        BY <1>1, <3>2 DEF ReportEnd, Worker
      <4> HIDE DEF w
      <4> QED BY <4>1
    <3>3. CASE TestEnd(th) /\ thread' = [thread EXCEPT ![th].at = "done"]
      <4> DEFINE w == [thread[th] EXCEPT !.at = "done"]
      <4>1. thread' = [thread EXCEPT ![th] = w] /\ w.list = thread[th].list
        BY <1>1, <3>3 DEF Worker
      <4> HIDE DEF w
      <4> QED BY <4>1
    <3>4. ASSUME NEW time \in EosTimes,
                 thread' = [thread EXCEPT ![th].at = "eosVideo", ![th].note = time]
          PROVE  \E w : thread' = [thread EXCEPT ![th] = w] /\ w.list = thread[th].list
      <4> DEFINE w == [thread[th] EXCEPT !.at = "eosVideo", !.note = time]
      <4>1. thread' = [thread EXCEPT ![th] = w] /\ w.list = thread[th].list
        BY <1>1, <3>4 DEF Worker
      <4> HIDE DEF w
      <4> QED BY <4>1
    <3> QED BY <1>6, <3>1, <3>2, <3>3, <3>4 DEF TestEnd
  <2> QED BY <1>2, <1>3, <2>1, ThreadVideo
<1> QED BY <1>4, <1>5, <1>6

\* A list that is offered goes in, whole or cut, or is left to be offered again.
LEMMA OfferVideo ==
  ASSUME VideoInv, TypeInv', NEW th \in Thread, NEW t \in Track, Offer(th, t)
  PROVE  VideoInv'
<1> DEFINE list == thread[th].list[t]
           l == IF t = "audio" /\ list # <<>> THEN WithoutHeard(list) ELSE list
           r == AddBuffersResult(t, list)
           pass == thread[th].refused \/ r.refused
           note == IF t = "audio" /\ ~r.refused THEN Heard(list) ELSE thread[th].note
           at == CASE t = "audio" /\ ~r.refused /\ BareTimes(list) # <<>> -> "remember"
                   [] t = "subtitle" -> IF pass THEN "video" ELSE "idle"
                   [] OTHER -> NextTrack[t]
           w == [thread[th] EXCEPT !.list = [@ EXCEPT ![t] = r.list],
                                   !.refused = pass /\ t # "subtitle",
                                   !.note = note, !.at = at]
<1>1. /\ TypeOK /\ thread[th] \in Worker /\ thread \in [Thread -> Worker] /\ media \in Media
      /\ list \in Seq(Sample) /\ DOMAIN thread[th].list = Track
  BY WorkerParts DEF VideoInv, TypeInv, TypeOK
<1>2. Alone(thread[th].list["video"]) /\ (t = "video" => Alone(list))
  BY DEF VideoInv
<1>3. r = PutSamplesResult(media, t, l) /\ l \in Seq(Sample) /\ (t = "video" => l = list)
  <2>1. r = PutSamplesResult(media, t, l) /\ l \in Seq(Sample)
    <3> HIDE DEF list
    <3> QED BY <1>1, AddBuffersIn
  <2> QED BY <2>1
<1> HIDE DEF l, list
<1>4. VideoKept(media, r.m) /\ (t = "video" => Alone(r.list))
  <2> HIDE DEF r
  <2> QED BY <1>1, <1>2, <1>3, PutSamplesKept
<1>5. media' = r.m /\ UNCHANGED got
  BY DEF Offer, list
<1>6. thread' = [thread EXCEPT ![th] = w]
  <2>1. thread' = [thread EXCEPT
              ![th].list[t] = r.list,
              ![th].refused = pass /\ t # "subtitle",
              ![th].note = note,
              ![th].at = at]
    BY DEF Offer, list
  <2> HIDE DEF at, note, pass, r, list
  <2> QED BY <1>1, <2>1 DEF Worker
<1> HIDE DEF at, note, pass, r
<1>7. w.list = [thread[th].list EXCEPT ![t] = r.list]
  BY <1>1 DEF Worker
<1> HIDE DEF w
<1>8. Alone(w.list["video"])
  BY <1>1, <1>2, <1>4, <1>7, GatedVideo
<1> QED BY <1>4, <1>5, <1>6, <1>8, ThreadVideo

LEMMA PutEosVideo ==
  ASSUME VideoInv, TypeInv', NEW th \in Thread, PutEos(th)
  PROVE  VideoInv'
<1> DEFINE t == EosTrack[thread[th].at]
           s == EosMarker(th)
           r == PutSampleResult(media, t, s)
<1>1. /\ TypeOK /\ thread[th] \in Worker /\ thread \in [Thread -> Worker] /\ media \in Media
  BY DEF VideoInv, TypeInv, TypeOK
<1>2. thread[th].at \in {"eosVideo", "eosAudio", "eosSubtitle"}
  BY DEF PutEos, EosTrack
<1>3. t \in Track /\ s \in Sample /\ s.flags = {"eos"}
  BY <1>1, <1>2, MarkerIn DEF EosTrack, Track
<1>4. UNCHANGED got /\ media' \in {media, r.m}
  BY DEF PutEos
<1>5. \A o \in Thread : thread'[o].list = thread[o].list
  <2>1. \/ thread' = thread
        \/ thread' = [thread EXCEPT ![th].at = "done", ![th].note = 0]
        \/ thread' = [thread EXCEPT ![th].at = NextEos[@],
                                    ![th].note = IF thread[th].at = "eosSubtitle" THEN 0 ELSE @]
    BY DEF PutEos
  <2> HIDE DEF t, s, r
  <2>2. \/ thread' = thread
        \/ \E w : thread' = [thread EXCEPT ![th] = w] /\ w.list = thread[th].list
    <3> DEFINE over == [thread[th] EXCEPT !.at = "done", !.note = 0]
               next == [thread[th] EXCEPT !.at = NextEos[@],
                          !.note = IF thread[th].at = "eosSubtitle" THEN 0 ELSE @]
    <3>1. over.list = thread[th].list /\ next.list = thread[th].list
      BY <1>1 DEF Worker
    <3>2. \/ thread' = thread
          \/ thread' = [thread EXCEPT ![th] = over]
          \/ thread' = [thread EXCEPT ![th] = next]
      BY <1>1, <2>1 DEF Worker
    <3> HIDE DEF over, next
    <3> QED BY <3>1, <3>2
  <2> QED BY <1>1, <2>2
<1> HIDE DEF t, s
<1>6. VideoKept(media, r.m) /\ VideoKept(media, media)
  BY <1>1, <1>3, PutSampleKept, KeptSame
<1> HIDE DEF r
<1>7. \A o \in Thread : Alone(thread'[o].list["video"])
  BY <1>5 DEF VideoInv
<1> QED BY <1>4, <1>6, <1>7, SameVideo

\* What the player has had once it has had one more sample
LEMMA SeenVideo ==
  ASSUME NEW g \in Had, NEW s \in Sample
  PROVE  /\ Seen(g, s).last = IF Kind(s) = "frame" THEN s ELSE g.last
         /\ Seen(g, s).first = IF Kind(s) = "frame" /\ g.first = NoFrame THEN s ELSE g.first
         /\ s # NoFrame
<1>1. s # NoFrame
  BY DEF Sample, NoFrame, NoPoint
<1>2. CASE Kind(s) = "frame"
  BY <1>1, <1>2 DEF Seen, Had
<1>3. CASE Kind(s) # "frame"
  <2>1. \/ Seen(g, s) = [g EXCEPT !.fmt = s.fmt, !.off = FALSE]
        \/ Seen(g, s) = [g EXCEPT !.eos = @ + 1, !.off = TRUE]
        \/ Seen(g, s) = [g EXCEPT !.off = TRUE]
        \/ Seen(g, s) = g
    BY <1>3 DEF Seen
  <2>2. Seen(g, s).last = g.last /\ Seen(g, s).first = g.first
    BY <2>1 DEF Had
  <2> QED BY <1>1, <1>3, <2>2
<1> QED BY <1>2, <1>3

\* The player takes a sample, and what follows can be decoded after it.
LEMMA GetVideo ==
  ASSUME VideoInv, TypeInv', NEW t \in Track, NEW want \in Wants, Get(t, want)
  PROVE  VideoInv'
<1> DEFINE r == GetSampleResult(media, t, want)
           h == FoldLeft(Seen, got[t], r.taken)
           g == got["video"]
<1>1. media \in Media /\ want \in Nat /\ DOMAIN got = Track /\ g \in Had
  BY PlaybackBufferAssumption, GatedVideo DEF VideoInv, TypeInv, TypeOK
<1>2. media' = r.m /\ got' = [got EXCEPT ![t] = h] /\ thread' = thread
  BY DEF Get
<1>3. \A th \in Thread : Alone(thread'[th].list["video"])
  BY <1>2 DEF VideoInv
<1>4. CASE t # "video"
  <2>1. r.m.track["video"] = media.track["video"]
    <3>1. \/ r.m = media \/ r.m = Off(media, t) \/ OnlyTrack(media, r.m, t)
      BY <1>1, GetSampleIn
    <3>2. Off(media, t).track = media.track
      BY <1>1, OffIn
    <3> HIDE DEF r
    <3> QED BY <1>4, <3>1, <3>2, GatedVideo DEF OnlyTrack
  <2> HIDE DEF r, h
  <2>2. got'["video"] = g /\ VideoKept(media, media')
    BY <1>1, <1>2, <1>4, <2>1, GatedVideo, KeptSame
  <2>3. Decodable(g.last, Queue(media', "video"))
    BY <2>2 DEF VideoInv, VideoKept, Decodes
  <2> QED BY <1>3, <2>2, <2>3 DEF VideoInv, VideoStartsAtKey, Queue
<1>5. CASE t = "video"
  <2>1. got'["video"] = h
    <3> HIDE DEF h
    <3> QED BY <1>1, <1>2, <1>5, GatedVideo
  <2>2. CASE r.taken = <<>> /\ r.m.track = media.track
    <3>1. h = g
      BY <1>5, <2>2, NoneTaken
    <3> HIDE DEF r, h
    <3>2. Decodable(g.last, Queue(media', "video"))
      BY <1>2, <2>2 DEF VideoInv, Queue
    <3> QED BY <1>3, <2>1, <3>1, <3>2 DEF VideoInv, VideoStartsAtKey, Queue
  <2>3. CASE ~(r.taken = <<>> /\ r.m.track = media.track)
    <3>1. PICK n \in Media :
            /\ VideoKept(media, n) /\ Queue(n, "video") \in Seq(Sample)
            /\ Queue(n, "video") # <<>>
            /\ r.taken \in Seq(Sample) /\ Len(r.taken) = 1
            /\ r.taken[1] = Queue(n, "video")[1]
            /\ Queue(r.m, "video") = Tail(Queue(n, "video"))
      BY <1>1, <1>5, <2>3, GetVideoIn
    <3> HIDE DEF r
    <3> DEFINE q == Queue(n, "video")
               s == q[1]
    <3>2. h = Seen(g, s)
      BY <1>5, <3>1, OneTaken
    <3>3. Decodable(g.last, q)
      BY <3>1 DEF VideoInv, VideoKept, Decodes
    <3>4. s \in Sample
      BY <3>1
    <3> HIDE DEF h, q
    <3>5. /\ Decodable(IF Kind(s) = "frame" THEN s ELSE g.last, Tail(q))
          /\ Dependent(s) => g.last # NoFrame
      BY <3>1, <3>3, DecodableTail DEF q
    <3>6. /\ h.last = IF Kind(s) = "frame" THEN s ELSE g.last
          /\ h.first = IF Kind(s) = "frame" /\ g.first = NoFrame THEN s ELSE g.first
          /\ s # NoFrame
      BY <1>1, <3>2, <3>4, SeenVideo
    <3>7. Decodable(got'["video"].last, Queue(media', "video"))
      BY <1>2, <2>1, <3>1, <3>5, <3>6 DEF q
    <3>8. /\ g.first = NoFrame <=> g.last = NoFrame
          /\ g.first # NoFrame => Has(g.first, "key")
      BY DEF VideoInv, VideoStartsAtKey
    <3> HIDE DEF g, s
    <3>9. h.first = NoFrame <=> h.last = NoFrame
      BY <3>6, <3>8
    <3>10. h.first # NoFrame => Has(h.first, "key")
      <4>1. CASE Kind(s) = "frame" /\ g.first = NoFrame
        BY <3>5, <3>6, <3>8, <4>1 DEF Dependent
      <4>2. CASE ~(Kind(s) = "frame" /\ g.first = NoFrame)
        BY <3>6, <3>8, <4>2
      <4> QED BY <4>1, <4>2
    <3> QED BY <1>3, <2>1, <3>7, <3>9, <3>10 DEF VideoInv, VideoStartsAtKey, Queue
  <2> QED BY <2>2, <2>3
<1> QED BY <1>4, <1>5

\* An empty buffer and a player that has had nothing
LEMMA EmptyVideo ==
  ASSUME VideoInv, TypeInv', media' = Flushed(media), got' = Nothing, thread' = thread
  PROVE  VideoInv'
<1>1. Queue(media', "video") = <<>>
  BY FlushedIn, GatedVideo DEF VideoInv, TypeInv, TypeOK
<1>2. got'["video"].first = NoFrame /\ got'["video"].last = NoFrame
  BY GatedVideo DEF Nothing
<1>3. Decodable(got'["video"].last, Queue(media', "video"))
  BY <1>1, FramelessAlone DEF Alone
<1>4. \A th \in Thread : Alone(thread'[th].list["video"])
  BY DEF VideoInv
<1> QED BY <1>2, <1>3, <1>4 DEF VideoInv, VideoStartsAtKey, Queue

LEMMA SeekVideo ==
  ASSUME VideoInv, TypeInv', SeekStep
  PROVE  VideoInv'
<1>1. TypeOK /\ Targeted /\ media \in Media
  BY DEF VideoInv, TypeInv, TypeOK
<1>2. CASE FlushFirst \/ JoinAndFlush \/ SetPosFlush
  <2>1. media' = Flushed(media) /\ got' = Nothing /\ thread' = thread
    BY <1>2 DEF FlushFirst, JoinAndFlush, SetPosFlush, EmptyBuffer
  <2> QED BY <2>1, EmptyVideo
<1>3. CASE SetPosMark
  <2>1. media' = SeekMarked(media, seek.point) /\ UNCHANGED <<got, thread>> /\ seek.pc = "marking"
    BY <1>3 DEF SetPosMark
  <2>2. seek.point \in Nat
    BY <1>1, <2>1, PlaybackBufferAssumption DEF Targeted
  <2>3. media'.track = media.track
    BY <1>1, <2>1, <2>2, SeekMarkedIn
  <2>4. \A th \in Thread : Alone(thread'[th].list["video"])
    BY <2>1 DEF VideoInv
  <2> QED BY <2>1, <2>3, <2>4, KeptSame, SameVideo
<1>4. CASE ResumeThreads
  <2>1. /\ thread' = [th \in Thread |-> Started(ChunkAt(Stream[th], seek.point))]
        /\ UNCHANGED <<media, got>>
    BY <1>4 DEF ResumeThreads, bufferVars
  <2>2. \A n : Started(n).list["video"] = <<>>
    BY GatedVideo DEF Started, NoChunk
  <2>3. \A th \in Thread : Alone(thread'[th].list["video"])
    BY <2>1, <2>2, FramelessAlone
  <2> QED BY <2>1, <2>3, KeptSame, SameVideo
<1>5. CASE CloseCache \/ ParserFails \/ FinishSeek
  <2>1. UNCHANGED <<media, got, thread>>
    BY <1>5 DEF CloseCache, ParserFails, FinishSeek, bufferVars
  <2>2. \A th \in Thread : Alone(thread'[th].list["video"])
    BY <2>1 DEF VideoInv
  <2> QED BY <2>1, <2>2, KeptSame, SameVideo
<1> QED BY <1>2, <1>3, <1>4, <1>5 DEF SeekStep

LEMMA InitVideo == Init => VideoInv
<1> SUFFICES ASSUME Init PROVE VideoInv
  OBVIOUS
<1>1. Queue(media, "video") = <<>>
  BY GatedVideo DEF Init, MediaInit, Queue, EmptyTrack
<1>2. got["video"].first = NoFrame /\ got["video"].last = NoFrame
  BY GatedVideo DEF Init, Nothing
<1>3. Decodable(got["video"].last, Queue(media, "video"))
  BY <1>1, FramelessAlone DEF Alone
<1>4. \A th \in Thread : Alone(thread[th].list["video"])
  <2>1. Started(1).list["video"] = <<>>
    BY GatedVideo DEF Started, NoChunk
  <2> QED BY <2>1, FramelessAlone DEF Init
<1> QED BY <1>2, <1>3, <1>4, InitType DEF VideoInv, VideoStartsAtKey

\* Every step leaves what can be decoded.
LEMMA NextVideo == VideoInv /\ [Next]_vars => VideoInv'
<1> SUFFICES ASSUME VideoInv, [Next]_vars PROVE VideoInv'
  OBVIOUS
<1>1. TypeInv' /\ media \in Media
  BY NextType DEF VideoInv, TypeInv, TypeOK
<1>2. CASE \E th \in Thread : ThreadStep(th)
  BY <1>1, <1>2, AloneVideo, PutEosVideo, OfferVideo DEF ThreadStep
<1>3. CASE \E t \in Track : Poll(t)
  BY <1>1, <1>3, GetVideo DEF Poll
<1>4. CASE SeekStep
  BY <1>1, <1>4, SeekVideo
<1>5. CASE (\E p \in SeekPoints : AskSeek(p)) \/ Configure \/ UNCHANGED vars
  <2>1. UNCHANGED <<got, thread>>
    BY <1>5 DEF AskSeek, Configure, vars, bufferVars
  <2>2. media'.track = media.track
    BY <1>1, <1>5 DEF AskSeek, Configure, vars, bufferVars, SetMaxDuration, SetBufferingDuration,
                      SetQuickStartDuration, SetBufferingStyle, Media
  <2>3. \A th \in Thread : Alone(thread'[th].list["video"])
    BY <2>1 DEF VideoInv
  <2> QED BY <1>1, <2>1, <2>2, <2>3, KeptSame, SameVideo
<1> QED BY <1>2, <1>3, <1>4, <1>5 DEF Next

\* Every video frame in the buffer that is to be shown can be decoded: the frame the
\* parser delivered right before it is still before it, or the player has had it and
\* was to show it, wherever a seek cut the lists and the queue, a retry came between
\* or a late player had frames skipped.
THEOREM VideoIsDecodable == Spec => []VideoDecodable
<1>1. Spec => []VideoInv
  BY InitVideo, NextVideo, PTL DEF Spec
<1>2. ASSUME VideoInv PROVE VideoDecodable
  <2> DEFINE q == Queue(media, "video")
             g == got["video"].last
             earlier(i) == {j \in 1..(i - 1) : Kind(q[j]) = "frame"}
             before(i) == IF earlier(i) = {} THEN g ELSE q[Max(earlier(i))]
  <2> SUFFICES ASSUME NEW i \in DOMAIN q, Dependent(q[i]), ~Has(q[i], "drop")
               PROVE  /\ before(i) # NoFrame /\ ~Has(before(i), "drop")
                      /\ NextInChunk(before(i), q[i])
    BY DEF VideoDecodable
  <2>1. q \in Seq(Sample) /\ Decodable(g, q)
    BY <1>2, MediaParts, GatedVideo DEF VideoInv, TypeInv, TypeOK
  <2> HIDE DEF q, g
  <2>2. i \in 1..Len(q) /\ Len(q) \in Nat
    BY <2>1
  <2>3. LinkedTo(IF i = 1 THEN g ELSE q[i - 1], q[i])
    BY <2>1, <2>2 DEF Decodable
  <2>4. before(i) = IF i = 1 THEN g ELSE q[i - 1]
    <3>1. CASE i = 1
      <4>1. earlier(i) = {}
        BY <3>1
      <4> QED BY <3>1, <4>1
    <3>2. CASE i # 1
      <4>1. i - 1 \in earlier(i) /\ earlier(i) \subseteq 1..(i - 1) /\ i - 1 \in Nat
        BY <2>2, <2>3, <3>2 DEF LinkedTo
      <4> HIDE DEF earlier
      <4>2. IsFiniteSet(earlier(i)) /\ earlier(i) \subseteq Nat /\ earlier(i) # {}
        BY <4>1, Positions
      <4>3. Max(earlier(i)) \in earlier(i) /\ Max(earlier(i)) >= i - 1
        BY <4>1, <4>2, MaxIn
      <4>4. Max(earlier(i)) = i - 1
        BY <4>1, <4>3
      <4> QED BY <3>2, <4>2, <4>4
    <3> QED BY <3>1, <3>2
  <2> HIDE DEF before
  <2> QED BY <2>3, <2>4 DEF LinkedTo
<1>3. VideoInv => VideoDecodable
  BY <1>2
<1> QED BY <1>1, <1>3, PTL

\* The first video frame the player has, at the start and after each seek, is a key
\* frame.
THEOREM VideoBeginsAtKey == Spec => []VideoStartsAtKey
<1>1. Spec => []VideoInv
  BY InitVideo, NextVideo, PTL DEF Spec
<1>2. VideoInv => VideoStartsAtKey
  BY DEF VideoInv
<1> QED BY <1>1, <1>2, PTL

-----------------------------------------------------------------------------
(* Audio without a gap *)

\* The moments of what the player has had last and of what lies ready; they go up, and
\* no moment of the stream between two of them is missing.
Heads(g, q) == (IF g = NoFrame THEN {} ELSE {g.time}) \cup FrameTimes(q)
Whole(S) == \A x \in StreamTimes("audio"), a, b \in S : a <= x /\ x <= b => x \in S
Ordered(g, q) ==
  /\ Rising(q) /\ (g # NoFrame => \A x \in FrameTimes(q) : g.time < x)
  /\ Whole(Heads(g, q)) /\ Heads(g, q) \subseteq StreamTimes("audio")
LineTimes == Heads(got["audio"].last, Queue(media, "audio"))

\* What m_ullTimeLastAudio is, or will be once the worker has noted it, if it is `last';
\* and the chunk up to which the worker has brought in its audio
Noted(w, last) == IF w.at = "remember" /\ w.note > last THEN w.note ELSE last
Given(w) == IF w.list["audio"] = <<>> THEN w.next - 1 ELSE w.next - 2

\* A list that is left is the later part of its chunk, and nothing is noted that the
\* thread has not brought.
ListFits(th, w, last) ==
  LET p == w.list["audio"]
  IN  /\ p # <<>> => /\ ~w.fresh /\ Rising(p) /\ Steady(p) /\ Told(p)
                     /\ LaterPart(FrameTimes(p), FrameTimes(Stream[th][w.next - 1]["audio"]))
                     /\ Upto(p, SampledUpTo(th, w.next - 1))
      /\ Noted(w, last) = 0 \/ \E y \in SampledUpTo(th, Given(w)) : Noted(w, last) <= y

\* The list brings the frame that is due after e; if it begins before that, so does
\* its media.
NextIn(p, e) ==
  /\ \E x \in FrameTimes(p) : e < x /\ \A y \in StreamTimes("audio") : y < x => y <= e
  /\ (\E x \in FrameTimes(p) : x <= e) => BareTimes(p) # <<>> /\ BareTimes(p)[1] < e

\* The line ends where the audio the thread has brought does, which is what is noted,
\* and the list goes on from there.
LineFits(th, w, S, last) ==
  LET p == w.list["audio"]
  IN  S # {} => \E e \in S :
        /\ Top(S, e) /\ Top(AudioUpTo(th, Given(w)), e) /\ Noted(w, last) = e /\ ~w.fresh
        /\ p # <<>> => \/ FrameTimes(Stream[th][w.next - 1]["audio"]) = {} /\ Mute(p)
                       \/ NextIn(p, e)

\* While a seek is pending all that lies ready comes from the chunk it went to or from
\* later ones, and the position is not beyond.
SeekFits(th, w, S, m) ==
  m.state = "Seeking" =>
    /\ Near(m, SampledUpTo(th, Given(w)))
    /\ ChunkAt(Stream[th], m.wanted) <= Given(w) + 1
    /\ S # {} => ChunkAt(Stream[th], m.wanted) <= Given(w)

Works(th, w, S, last, m) ==
  w.at \in Looping /\ Brings(th, "audio") =>
    ListFits(th, w, last) /\ LineFits(th, w, S, last) /\ SeekFits(th, w, S, m)

\* A seek begins with a player that has had nothing and goes to one of the points;
\* when the threads start again the buffer is empty and wants the point.
Sought(m, g) == m.state = "Seeking" => g = NoFrame /\ m.wanted \in SeekPoints
Cleared ==
  seek.pc \in {"seeking", "marking", "resuming"} =>
    /\ Queue(media, "audio") = <<>> /\ got["audio"].last = NoFrame /\ lastAudio = 0
    /\ seek.pc = "resuming" => /\ media.state = "Seeking" /\ media.wanted = seek.point
                               /\ media.actual = seek.point

Plain == Unforced(Queue(media, "audio")) /\ \A th \in Thread : Unforced(thread[th].list["audio"])
NotedAudio == \A th \in Thread : thread[th].at = "remember" => Brings(th, "audio")
InLineAudio ==
  Settled => /\ Ordered(got["audio"].last, Queue(media, "audio"))
             /\ \A th \in Thread : Works(th, thread[th], LineTimes, lastAudio, media)

AudioInv == /\ FormatInv /\ Plain /\ NotedAudio /\ Cleared
            /\ Sought(media, got["audio"].last) /\ InLineAudio

LEMMA GatedAudio ==
  "audio" \in Gated /\ "audio" \in Track
  BY DEF Gated, Track

\* What a thread has brought, chunk by chunk
LEMMA AudioSoFar ==
  ASSUME NEW th \in Thread, NEW n \in Int
  PROVE  /\ AudioUpTo(th, n) \subseteq Nat /\ AudioUpTo(th, n) \subseteq StreamTimes("audio")
         /\ SampledUpTo(th, n) \subseteq Nat
         /\ \A m \in Int : m <= n => /\ AudioUpTo(th, m) \subseteq AudioUpTo(th, n)
                                     /\ SampledUpTo(th, m) \subseteq SampledUpTo(th, n)
         /\ AudioUpTo(th, n) \subseteq AudioUpTo(th, Len(Stream[th]))
<1>1. /\ DOMAIN Stream[th] = 1..Len(Stream[th]) /\ Len(Stream[th]) \in Nat
      /\ \A k \in DOMAIN Stream[th] :
           LET list == Stream[th][k]["audio"]
           IN  list \in Seq(Sample) /\ FrameTimes(list) \subseteq Nat
               /\ {list[i].time : i \in DOMAIN list} \subseteq Nat
  <2>1. Stream[th] \in Seq([Track -> Seq(Sample)])
    BY StreamAssumption
  <2>2. ASSUME NEW k \in DOMAIN Stream[th]
        PROVE  LET list == Stream[th][k]["audio"]
               IN  list \in Seq(Sample) /\ FrameTimes(list) \subseteq Nat
                   /\ {list[i].time : i \in DOMAIN list} \subseteq Nat
    <3> DEFINE list == Stream[th][k]["audio"]
    <3>1. list \in Seq(Sample)
      BY ChunkIn, GatedAudio
    <3> HIDE DEF list
    <3>2. FrameTimes(list) \subseteq Nat /\ DOMAIN list = 1..Len(list)
          /\ \A i \in 1..Len(list) : list[i].time \in Nat
      BY <3>1, FrameTimesIn
    <3>3. {list[i].time : i \in DOMAIN list} \subseteq Nat
      BY <3>2
    <3> QED BY <3>1, <3>2, <3>3 DEF list
  <2> QED BY <2>1, <2>2
<1>2. AudioUpTo(th, n) \subseteq Nat /\ SampledUpTo(th, n) \subseteq Nat
  BY <1>1 DEF AudioUpTo, SampledUpTo
<1>3. AudioUpTo(th, n) \subseteq StreamTimes("audio")
  BY DEF AudioUpTo, StreamTimes
<1>4. ASSUME NEW m \in Int, m <= n
      PROVE  /\ AudioUpTo(th, m) \subseteq AudioUpTo(th, n)
             /\ SampledUpTo(th, m) \subseteq SampledUpTo(th, n)
  <2>1. 1..m \subseteq 1..n
    BY <1>4
  <2>2. DOMAIN Stream[th] \cap 1..m \subseteq DOMAIN Stream[th] \cap 1..n
    BY <2>1
  <2> QED BY <2>2 DEF AudioUpTo, SampledUpTo
<1>5. AudioUpTo(th, n) \subseteq AudioUpTo(th, Len(Stream[th]))
  <2>1. DOMAIN Stream[th] \cap 1..n \subseteq DOMAIN Stream[th] \cap 1..Len(Stream[th])
    BY <1>1
  <2> QED BY <2>1 DEF AudioUpTo
<1> QED BY <1>2, <1>3, <1>4, <1>5

LEMMA OneChunkMore ==
  ASSUME NEW th \in Thread, NEW n \in DOMAIN Stream[th]
  PROVE  LET list == Stream[th][n]["audio"]
         IN  /\ AudioUpTo(th, n) = AudioUpTo(th, n - 1) \cup FrameTimes(list)
             /\ \A i \in 1..Len(list) : list[i].time \in SampledUpTo(th, n)
             /\ list = <<>> => SampledUpTo(th, n) = SampledUpTo(th, n - 1)
             /\ FrameTimes(list) \subseteq StreamTimes("audio")
<1> DEFINE D == DOMAIN Stream[th] \cap 1..n
           E == DOMAIN Stream[th] \cap 1..(n - 1)
           list == Stream[th][n]["audio"]
<1>1. n \in Nat /\ n > 0 /\ list \in Seq(Sample)
  <2>1. Stream[th] \in Seq([Track -> Seq(Sample)])
    BY StreamAssumption
  <2>2. n \in 1..Len(Stream[th]) /\ Len(Stream[th]) \in Nat
    BY <2>1
  <2> QED BY <2>2, ChunkIn, GatedAudio
<1>2. D = E \cup {n}
  BY <1>1
<1>3. AudioUpTo(th, n) = AudioUpTo(th, n - 1) \cup FrameTimes(list)
  <2>1. /\ AudioUpTo(th, n) = UNION {FrameTimes(Stream[th][k]["audio"]) : k \in D}
        /\ AudioUpTo(th, n - 1) = UNION {FrameTimes(Stream[th][k]["audio"]) : k \in E}
    BY DEF AudioUpTo
  <2> HIDE DEF D, E
  <2> QED BY <1>2, <2>1
<1>4. /\ SampledUpTo(th, n) =
           UNION {{Stream[th][k]["audio"][i].time : i \in DOMAIN Stream[th][k]["audio"]} : k \in D}
      /\ SampledUpTo(th, n - 1) =
           UNION {{Stream[th][k]["audio"][i].time : i \in DOMAIN Stream[th][k]["audio"]} : k \in E}
  BY DEF SampledUpTo
<1> HIDE DEF D, E
<1>5. SampledUpTo(th, n) = SampledUpTo(th, n - 1) \cup {list[i].time : i \in DOMAIN list}
  BY <1>2, <1>4
<1>6. DOMAIN list = 1..Len(list) /\ (list = <<>> => DOMAIN list = {})
  BY <1>1
<1>7. FrameTimes(list) \subseteq StreamTimes("audio")
  BY DEF StreamTimes
<1> HIDE DEF list
<1>8. list = <<>> => SampledUpTo(th, n) = SampledUpTo(th, n - 1)
  BY <1>5, <1>6
<1> QED BY <1>3, <1>5, <1>6, <1>7, <1>8 DEF list

\* The audio of a chunk
LEMMA ChunkAudio ==
  ASSUME NEW th \in Thread, NEW n \in DOMAIN Stream[th]
  PROVE  LET list == Stream[th][n]["audio"]
         IN  /\ list \in Seq(Sample) /\ Rising(list) /\ Steady(list) /\ Told(list)
             /\ Unforced(list) /\ Whole(FrameTimes(list))
             /\ FrameTimes(list) = {} => Mute(list)
             /\ \A j, k \in 1..Len(list) : j < k => list[j].time <= list[k].time
<1> DEFINE list == Stream[th][n]["audio"]
<1>1. list \in Seq(Sample) /\ DOMAIN list = 1..Len(list) /\ Len(list) \in Nat
  BY ChunkIn, GatedAudio
<1>2. /\ \A i, j \in 1..Len(list) : i < j => list[i].time <= list[j].time
      /\ \A i, j \in 1..Len(list) :
           i < j /\ Kind(list[i]) = "frame" /\ Kind(list[j]) = "frame" => list[i].time < list[j].time
      /\ \A x \in StreamTimes("audio"), a, b \in FrameTimes(list) :
           a <= x /\ x <= b => x \in FrameTimes(list)
      /\ \A i \in 1..Len(list) : ~Has(list[i], "force")
      /\ \A i \in 1..Len(list) : Bare(list[i]) => \E j \in i..Len(list) : Kind(list[j]) = "frame"
  BY <1>1, AudioAssumption
<1> HIDE DEF list
<1>3. FrameTimes(list) = {} => Mute(list)
  <2> SUFFICES ASSUME FrameTimes(list) = {}, NEW i \in 1..Len(list), Bare(list[i])
               PROVE  FALSE
    BY DEF Mute
  <2>1. PICK j \in i..Len(list) : Kind(list[j]) = "frame"
    BY <1>2
  <2>2. j \in 1..Len(list)
    BY <1>1
  <2>3. list[j].time \in FrameTimes(list)
    BY <1>1, <2>1, <2>2, FrameTimesIn
  <2> QED BY <2>3
<1>4. Rising(list) /\ Steady(list) /\ Told(list) /\ Unforced(list) /\ Whole(FrameTimes(list))
  BY <1>2 DEF Rising, Steady, Told, Unforced, Whole
<1> QED BY <1>1, <1>2, <1>3, <1>4 DEF list

\* The announced format comes before the audio.
LEMMA AnnouncedAudio ==
  ASSUME NEW list \in Seq(Sample), Rising(list), Steady(list), Told(list), Unforced(list),
         \A j, k \in 1..Len(list) : j < k => list[j].time <= list[k].time
  PROVE  LET p == Announced(list)
         IN  /\ p \in Seq(Sample) /\ Rising(p) /\ Steady(p) /\ Told(p) /\ Unforced(p)
             /\ FrameTimes(p) = FrameTimes(list) /\ (list = <<>> => p = <<>>)
             /\ \A S \in SUBSET Nat : Upto(list, S) => Upto(p, S)
<1> DEFINE s == [flags |-> {"format"}, fmt |-> list[1].fmt,
                 time |-> IF list[1].time = 0 THEN 0 ELSE list[1].time - 1]
           p == Announced(list)
<1>1. CASE p = list
  BY <1>1
<1>2. CASE p # list
  <2>1. list # <<>> /\ p = <<s>> \o list
    BY <1>2 DEF Announced
  <2>2. list[1].time \in Nat /\ list[1].fmt \in Encoding /\ 1 \in 1..Len(list)
    <3>1. list[1] \in Sample /\ 1 \in 1..Len(list)
      BY <2>1
    <3> QED BY <3>1 DEF Sample
  <2>3. s \in Sample /\ s.flags = {"format"} /\ s.time <= list[1].time
    BY <2>2 DEF Sample, Flag, Priority
  <2>4. Kind(s) # "frame" /\ ~Has(s, "force")
    <3> HIDE DEF s
    <3>1. Has(s, "format") /\ ~Has(s, "force")
      BY <2>3 DEF Has
    <3> QED BY <3>1, KindFirst
  <2> HIDE DEF s
  <2>5. /\ p \in Seq(Sample) /\ Len(p) = Len(list) + 1 /\ Len(list) \in Nat /\ p[1] = s
        /\ \A i \in 1..Len(list) : p[i + 1] = list[i]
    BY <2>1, <2>3
  <2> HIDE DEF p
  <2>6. \A i \in 1..Len(p) : i = 1 \/ (i - 1 \in 1..Len(list) /\ p[i] = list[i - 1])
    <3> TAKE i \in 1..Len(p)
    <3>1. i = 1 \/ (i - 1 \in 1..Len(list) /\ (i - 1) + 1 = i)
      BY <2>5
    <3> QED BY <2>5, <3>1
  <2>7. FrameTimes(p) = FrameTimes(list)
    <3>1. /\ \A x : x \in FrameTimes(p) <=> \E i \in 1..Len(p) : Kind(p[i]) = "frame" /\ p[i].time = x
          /\ \A x : x \in FrameTimes(list) <=>
                      \E i \in 1..Len(list) : Kind(list[i]) = "frame" /\ list[i].time = x
      BY <2>5, FrameTimesIn
    <3>2. ASSUME NEW x \in FrameTimes(p) PROVE x \in FrameTimes(list)
      <4>1. PICK i \in 1..Len(p) : Kind(p[i]) = "frame" /\ p[i].time = x
        BY <3>1
      <4>2. i - 1 \in 1..Len(list) /\ p[i] = list[i - 1]
        BY <2>4, <2>5, <2>6, <4>1
      <4> QED BY <3>1, <4>1, <4>2
    <3>3. ASSUME NEW x \in FrameTimes(list) PROVE x \in FrameTimes(p)
      <4>1. PICK i \in 1..Len(list) : Kind(list[i]) = "frame" /\ list[i].time = x
        BY <3>1
      <4>2. i + 1 \in 1..Len(p) /\ p[i + 1] = list[i]
        BY <2>5
      <4> QED BY <3>1, <4>1, <4>2
    <3> QED BY <3>2, <3>3
  <2>8. Rising(p)
    <3> SUFFICES ASSUME NEW i \in 1..Len(p), NEW j \in 1..Len(p), i < j,
                        Kind(p[i]) = "frame", Kind(p[j]) = "frame"
                 PROVE  p[i].time < p[j].time
      BY DEF Rising
    <3>1. /\ i - 1 \in 1..Len(list) /\ p[i] = list[i - 1]
          /\ j - 1 \in 1..Len(list) /\ p[j] = list[j - 1] /\ i - 1 < j - 1
      BY <2>4, <2>5, <2>6
    <3> QED BY <3>1 DEF Rising
  <2>9. Steady(p)
    <3> SUFFICES ASSUME NEW i \in 1..Len(p), NEW j \in 1..Len(p), i < j, Kind(p[j]) = "frame"
                 PROVE  p[i].time <= p[j].time
      BY DEF Steady
    <3>1. j - 1 \in 1..Len(list) /\ p[j] = list[j - 1]
      BY <2>4, <2>5, <2>6
    <3>2. CASE i = 1
      <4>1. list[1].time <= list[j - 1].time
        <5>1. CASE j - 1 = 1
          BY <2>2, <5>1
        <5>2. CASE 1 < j - 1
          BY <2>2, <3>1, <5>2
        <5> QED BY <3>1, <5>1, <5>2
      <4>2. list[j - 1].time \in Nat /\ s.time \in Nat
        BY <2>3, <3>1, FrameTimesIn DEF Sample
      <4> QED BY <2>2, <2>3, <2>5, <3>1, <3>2, <4>1, <4>2
    <3>3. CASE i # 1
      <4>1. i - 1 \in 1..Len(list) /\ p[i] = list[i - 1] /\ i - 1 < j - 1
        BY <2>6, <3>1, <3>3
      <4> QED BY <3>1, <4>1 DEF Steady
    <3> QED BY <3>2, <3>3
  <2>10. Told(p)
    <3> SUFFICES ASSUME FrameTimes(list) # {}, NEW i \in 1..Len(p), Bare(p[i])
                 PROVE  \E j \in i..Len(p) : Kind(p[j]) = "frame"
      BY <2>7 DEF Told
    <3>1. ASSUME NEW k \in 1..Len(list), Kind(list[k]) = "frame", k + 1 >= i
          PROVE  \E j \in i..Len(p) : Kind(p[j]) = "frame"
      <4>1. k + 1 \in i..Len(p) /\ p[k + 1] = list[k]
        BY <2>5, <3>1
      <4> QED BY <3>1, <4>1
    <3>2. CASE i = 1
      <4>1. PICK k \in 1..Len(list) : Kind(list[k]) = "frame"
        BY FrameTimesIn
      <4> QED BY <3>1, <3>2, <4>1
    <3>3. CASE i # 1
      <4>1. i - 1 \in 1..Len(list) /\ p[i] = list[i - 1]
        BY <2>6, <3>3
      <4>2. PICK k \in (i - 1)..Len(list) : Kind(list[k]) = "frame"
        BY <4>1 DEF Told
      <4>3. k \in 1..Len(list) /\ k + 1 >= i
        BY <4>1
      <4> QED BY <3>1, <4>2, <4>3
    <3> QED BY <3>2, <3>3
  <2>11. Unforced(p)
    BY <2>4, <2>5, <2>6 DEF Unforced
  <2>12. ASSUME NEW S \in SUBSET Nat, Upto(list, S) PROVE Upto(p, S)
    <3> SUFFICES ASSUME NEW i \in 1..Len(p) PROVE \E y \in S : p[i].time <= y
      BY DEF Upto
    <3>1. CASE i = 1
      <4>1. PICK y \in S : list[1].time <= y
        BY <2>2, <2>12 DEF Upto
      <4>2. s.time <= y
        <5>1. s.time \in Nat
          BY <2>3 DEF Sample
        <5> QED BY <2>2, <2>3, <4>1, <5>1
      <4> QED BY <2>5, <3>1, <4>2
    <3>2. CASE i # 1
      BY <2>6, <2>12, <3>2 DEF Upto
    <3> QED BY <3>1, <3>2
  <2> QED BY <2>1, <2>5, <2>7, <2>8, <2>9, <2>10, <2>11, <2>12 DEF p
<1> QED BY <1>1, <1>2

LEMMA StreamTimesIn ==
  StreamTimes("audio") \subseteq Nat
<1>1. ASSUME NEW th \in Thread, NEW n \in DOMAIN Stream[th]
      PROVE  FrameTimes(Stream[th][n]["audio"]) \subseteq Nat
  <2>1. Stream[th][n]["audio"] \in Seq(Sample)
    BY ChunkIn, GatedAudio
  <2> QED BY <2>1, FrameTimesIn
<1> QED BY <1>1 DEF StreamTimes

\* What is left of moments from some moment on
LEMMA LaterParts ==
  ASSUME NEW A \in SUBSET Nat, NEW B, LaterPart(B, A)
  PROVE  /\ Whole(A) => Whole(B)
         /\ \A e : Top(A, e) /\ B # {} => Top(B, e)
         /\ \A C : LaterPart(C, B) => LaterPart(C, A)
<1>1. Whole(A) => Whole(B)
  BY DEF LaterPart, Whole
<1>2. \A e : Top(A, e) /\ B # {} => Top(B, e)
  BY DEF LaterPart, Top
<1>3. \A C : LaterPart(C, B) => LaterPart(C, A)
  BY DEF LaterPart
<1> QED BY <1>1, <1>2, <1>3

\* The line goes on as before when the front of the queue has gone during a seek.
LEMMA OrderedLess ==
  ASSUME NEW m, NEW n, NEW g, AudioLess(m, n), Sought(m, g), Ordered(g, Queue(m, "audio"))
  PROVE  /\ Ordered(g, Queue(n, "audio"))
         /\ LaterPart(Heads(g, Queue(n, "audio")), Heads(g, Queue(m, "audio")))
<1> DEFINE q == Queue(m, "audio")
           r == Queue(n, "audio")
<1>1. /\ Rising(q) /\ (g # NoFrame => \A x \in FrameTimes(q) : g.time < x)
      /\ Whole(Heads(g, q)) /\ Heads(g, q) \subseteq StreamTimes("audio")
      /\ Heads(g, q) \subseteq Nat
  BY StreamTimesIn DEF Ordered
<1>2. /\ Rising(r) /\ LaterPart(FrameTimes(r), FrameTimes(q))
      /\ m.state # "Seeking" => FrameTimes(r) = FrameTimes(q)
  BY <1>1 DEF AudioLess, Shed
<1>3. m.state = "Seeking" => g = NoFrame
  BY DEF Sought
<1> HIDE DEF q, r
<1>4. LaterPart(Heads(g, r), Heads(g, q))
  <2>1. CASE g = NoFrame
    BY <1>2, <2>1 DEF Heads
  <2>2. CASE g # NoFrame
    <3>1. Heads(g, r) = Heads(g, q)
      BY <1>2, <1>3, <2>2 DEF Heads
    <3> QED BY <3>1 DEF LaterPart
  <2> QED BY <2>1, <2>2
<1>5. Whole(Heads(g, r)) /\ Heads(g, r) \subseteq StreamTimes("audio")
  <2>1. Whole(Heads(g, r))
    BY <1>1, <1>4, LaterParts
  <2> QED BY <1>1, <1>4, <2>1 DEF LaterPart
<1>6. g # NoFrame => \A x \in FrameTimes(r) : g.time < x
  BY <1>1, <1>2 DEF LaterPart
<1> QED BY <1>2, <1>4, <1>5, <1>6 DEF Ordered, q, r

LEMMA GivenIn ==
  ASSUME NEW w \in Worker
  PROVE  Given(w) \in Int /\ w.next \in Nat /\ w.next - 1 \in Int /\ w.note \in Nat
         /\ w.list["audio"] \in Seq(Sample) /\ w.fresh \in BOOLEAN /\ w.at \in ThreadAt
  BY GatedAudio DEF Given, Worker

\* A worker that has done nothing still fits what is left of the line.
LEMMA WorksStill ==
  ASSUME NEW th \in Thread, NEW w \in Worker, NEW S \in SUBSET Nat, NEW T, NEW last,
         NEW m, NEW n, Works(th, w, S, last, m), LaterPart(T, S),
         n.state = "Seeking" => /\ m.state = "Seeking" /\ n.wanted = m.wanted
                                /\ \A P \in SUBSET Nat : Near(m, P) => Near(n, P)
  PROVE  Works(th, w, T, last, n)
<1> SUFFICES ASSUME w.at \in Looping, Brings(th, "audio")
             PROVE  ListFits(th, w, last) /\ LineFits(th, w, T, last) /\ SeekFits(th, w, T, n)
  BY DEF Works
<1>1. ListFits(th, w, last) /\ LineFits(th, w, S, last) /\ SeekFits(th, w, S, m)
  BY DEF Works
<1>2. T # {} => S # {} /\ \A e : Top(S, e) => e \in T /\ Top(T, e)
  <2>1. \A e : Top(S, e) /\ T # {} => Top(T, e)
    BY LaterParts
  <2> QED BY <2>1 DEF LaterPart, Top
<1>3. LineFits(th, w, T, last)
  BY <1>1, <1>2 DEF LineFits
<1>4. SeekFits(th, w, T, n)
  <2> SUFFICES ASSUME n.state = "Seeking" PROVE SeekFits(th, w, T, n)
    BY DEF SeekFits
  <2>1. SampledUpTo(th, Given(w)) \in SUBSET Nat
    BY GivenIn, AudioSoFar
  <2> QED BY <1>1, <1>2, <2>1 DEF SeekFits
<1> QED BY <1>1, <1>3, <1>4

\* What the buffer does to other tracks, or to the front of the queue during a seek
LEMMA LineStill ==
  ASSUME AudioInv, TypeOK', NEW m, AudioHeld(media, m), media' = m,
         got' = got, lastAudio' = lastAudio,
         Settled' => Settled,
         Settled => \A th \in Thread :
           \/ Works(th, thread'[th], LineTimes, lastAudio, media)
           \/ Works(th, thread'[th], LineTimes', lastAudio', media')
  PROVE  /\ Unforced(Queue(media', "audio")) /\ Sought(media', got'["audio"].last)
         /\ InLineAudio'
<1>1. AudioLess(media, m) /\ \A P \in SUBSET Nat : Near(media, P) => Near(m, P)
  BY DEF AudioHeld
<1>2. Sought(media, got["audio"].last) /\ Unforced(Queue(media, "audio"))
  BY DEF AudioInv, Plain
<1>3. Sought(m, got["audio"].last) /\ Unforced(Queue(m, "audio"))
  BY <1>1, <1>2 DEF AudioLess, Shed, Sought
<1>4. ASSUME Settled
      PROVE  /\ Ordered(got["audio"].last, Queue(m, "audio"))
             /\ \A th \in Thread : Works(th, thread'[th], LineTimes', lastAudio', media')
  <2>1. Ordered(got["audio"].last, Queue(media, "audio"))
    BY <1>4 DEF AudioInv, InLineAudio
  <2>2. Ordered(got["audio"].last, Queue(m, "audio")) /\ LaterPart(LineTimes', LineTimes)
    BY <1>1, <1>2, <2>1, OrderedLess DEF LineTimes
  <2>3. LineTimes \in SUBSET Nat
    BY <2>1, StreamTimesIn DEF Ordered, LineTimes
  <2>4. m.state = "Seeking" => media.state = "Seeking" /\ m.wanted = media.wanted
    BY <1>1 DEF AudioLess
  <2>5. ASSUME NEW th \in Thread
        PROVE  Works(th, thread'[th], LineTimes', lastAudio', media')
    <3>1. thread'[th] \in Worker
      BY DEF TypeOK
    <3>2. CASE Works(th, thread'[th], LineTimes, lastAudio, media)
      <4> DEFINE w == thread'[th]
                 T == LineTimes'
      <4>1. w \in Worker /\ Works(th, w, LineTimes, lastAudio, media) /\ LaterPart(T, LineTimes)
        BY <2>2, <3>1, <3>2
      <4> HIDE DEF w, T
      <4>2. Works(th, w, T, lastAudio, m)
        BY <1>1, <2>3, <2>4, <4>1, WorksStill
      <4> QED BY <4>2 DEF w, T
    <3> QED BY <1>4, <3>2
  <2> QED BY <2>2, <2>5
<1>5. InLineAudio'
  <2> SUFFICES ASSUME Settled' PROVE InLineAudio'
    BY DEF InLineAudio
  <2> QED BY <1>4 DEF InLineAudio
<1> QED BY <1>3, <1>5

LEMMA MoreToReach ==
  ASSUME NEW S, NEW T, S \subseteq T
  PROVE  /\ \A list : Upto(list, S) => Upto(list, T)
         /\ \A m : Near(m, S) => Near(m, T)
<1>1. \A list : Upto(list, S) => Upto(list, T)
  BY DEF Upto
<1> QED BY <1>1 DEF Near

\* A worker takes its next chunk, which goes on from what it has brought.
LEMMA FetchWorks ==
  ASSUME NEW th \in Thread, NEW w \in Worker, NEW v \in Worker,
         w.at = "idle", w.next \in DOMAIN Stream[th], w.list["audio"] = <<>>,
         v.at = "video", v.next = w.next + 1, ~v.fresh,
         LET list == Stream[th][w.next]["audio"]
         IN  v.list["audio"] = IF w.fresh THEN Announced(list) ELSE list,
         NEW S \in SUBSET Nat, NEW last \in Nat, NEW m, Works(th, w, S, last, m)
  PROVE  Works(th, v, S, last, m)
<1> SUFFICES ASSUME Brings(th, "audio")
             PROVE  ListFits(th, v, last) /\ LineFits(th, v, S, last) /\ SeekFits(th, v, S, m)
  BY DEF Works
<1> DEFINE n == w.next
           list == Stream[th][n]["audio"]
           p == v.list["audio"]
<1>1. ListFits(th, w, last) /\ LineFits(th, w, S, last) /\ SeekFits(th, w, S, m)
  BY DEF Works, Looping
<1>2. /\ list \in Seq(Sample) /\ Rising(list) /\ Steady(list) /\ Told(list)
      /\ Unforced(list) /\ Whole(FrameTimes(list))
      /\ FrameTimes(list) = {} => Mute(list)
      /\ \A j, k \in 1..Len(list) : j < k => list[j].time <= list[k].time
  BY ChunkAudio
<1>3. /\ AudioUpTo(th, n) = AudioUpTo(th, n - 1) \cup FrameTimes(list)
      /\ \A i \in 1..Len(list) : list[i].time \in SampledUpTo(th, n)
      /\ FrameTimes(list) \subseteq StreamTimes("audio")
  BY OneChunkMore
<1>4. /\ n \in Nat /\ n - 1 \in Int /\ n \in Int /\ v.next - 1 = n /\ v.next - 2 = n - 1
      /\ Given(w) = n - 1 /\ Given(v) = IF p = <<>> THEN n ELSE n - 1
  BY GivenIn DEF Given
<1>5. /\ SampledUpTo(th, n - 1) \subseteq SampledUpTo(th, n) /\ SampledUpTo(th, n) \subseteq Nat
      /\ AudioUpTo(th, n - 1) \subseteq Nat /\ AudioUpTo(th, n) \subseteq Nat
  BY <1>4, AudioSoFar
<1>6. p = IF w.fresh THEN Announced(list) ELSE list
  OBVIOUS
<1>7. v.next - 1 = n /\ list = Stream[th][v.next - 1]["audio"]
  BY <1>4
<1>8. Noted(v, last) = last /\ Noted(w, last) = last
  BY DEF Noted
<1>9. \A i \in 1..Len(list) : \E y \in SampledUpTo(th, n) : list[i].time <= y
  <2> TAKE i \in 1..Len(list)
  <2>1. list[i].time \in SampledUpTo(th, n) /\ list[i].time \in Nat
    BY <1>3, <1>5
  <2> QED BY <2>1
<1> HIDE DEF p, list, n
<1>10. Upto(list, SampledUpTo(th, n))
  BY <1>9 DEF Upto
<1>11. /\ p \in Seq(Sample) /\ Rising(p) /\ Steady(p) /\ Told(p)
       /\ FrameTimes(p) = FrameTimes(list)
       /\ Upto(p, SampledUpTo(th, n))
  <2>1. CASE w.fresh
    BY <1>2, <1>5, <1>6, <1>10, <2>1, AnnouncedAudio
  <2>2. CASE ~w.fresh
    BY <1>2, <1>6, <1>10, <2>2
  <2> QED BY <2>1, <2>2
<1>12. SampledUpTo(th, Given(w)) \subseteq SampledUpTo(th, Given(v))
  BY <1>4, <1>5
<1>13. AudioUpTo(th, Given(v)) = AudioUpTo(th, Given(w))
  <2>1. CASE p = <<>>
    <3>1. FrameTimes(p) = {}
      BY <2>1 DEF FrameTimes
    <3> QED BY <1>3, <1>4, <1>11, <2>1, <3>1
  <2>2. CASE p # <<>>
    BY <1>4, <2>2
  <2> QED BY <2>1, <2>2
<1>14. ListFits(th, v, last)
  <2>1. LaterPart(FrameTimes(p), FrameTimes(list))
    BY <1>11 DEF LaterPart
  <2>2. last = 0 \/ \E y \in SampledUpTo(th, Given(v)) : last <= y
    BY <1>1, <1>8, <1>12 DEF ListFits
  <2> QED BY <1>4, <1>7, <1>8, <1>11, <2>1, <2>2 DEF ListFits, p
<1>15. SeekFits(th, v, S, m)
  <2> SUFFICES ASSUME m.state = "Seeking" PROVE SeekFits(th, v, S, m)
    BY DEF SeekFits
  <2>1. /\ Near(m, SampledUpTo(th, Given(w)))
        /\ ChunkAt(Stream[th], m.wanted) <= Given(w) + 1
        /\ S # {} => ChunkAt(Stream[th], m.wanted) <= Given(w)
    BY <1>1 DEF SeekFits
  <2>2. Near(m, SampledUpTo(th, Given(v)))
    BY <1>12, <2>1, MoreToReach
  <2>3. Given(w) <= Given(v) /\ Given(w) \in Int /\ Given(v) \in Int
    BY <1>4
  <2>4. ChunkAt(Stream[th], m.wanted) \in Nat
    BY ChunkAtIn
  <2> QED BY <2>1, <2>2, <2>3, <2>4 DEF SeekFits
<1>16. LineFits(th, v, S, last)
  <2> SUFFICES ASSUME S # {} PROVE LineFits(th, v, S, last)
    BY DEF LineFits
  <2>1. PICK e \in S : Top(S, e) /\ Top(AudioUpTo(th, Given(w)), e) /\ last = e /\ ~w.fresh
    BY <1>1, <1>8 DEF LineFits
  <2>2. p = list
    BY <1>6, <2>1
  <2>3. CASE FrameTimes(list) = {}
    BY <1>2, <1>7, <1>8, <1>13, <2>1, <2>2, <2>3 DEF LineFits, p
  <2>4. CASE FrameTimes(list) # {}
    <3> DEFINE past == AudioUpTo(th, n - 1)
    <3>1. Top(past, e) /\ e \in Nat /\ past \subseteq Nat
      BY <1>4, <1>5, <2>1
    <3>2. /\ \E x \in FrameTimes(list) :
               /\ \A y \in past : y < x
               /\ \A y \in StreamTimes("audio") : y < x => \E z \in past : y <= z
          /\ \A x \in FrameTimes(list) \cap past :
               (\A y \in past : y <= x) => \E i \in DOMAIN list : Bare(list[i]) /\ list[i].time < x
      <4>1. n \in DOMAIN Stream[th] /\ past # {}
        BY <3>1 DEF Top, n
      <4> QED BY <2>4, <4>1, OverlapAssumption DEF list
    <3> HIDE DEF past
    <3>3. PICK x \in FrameTimes(list) :
            /\ \A y \in past : y < x
            /\ \A y \in StreamTimes("audio") : y < x => \E z \in past : y <= z
      BY <3>2
    <3>4. FrameTimes(list) \subseteq Nat /\ DOMAIN list = 1..Len(list)
          /\ \A i \in 1..Len(list) : list[i].time \in Nat
      BY <1>2, FrameTimesIn
    <3>5. e < x /\ \A y \in StreamTimes("audio") : y < x => y <= e
      <4>1. e < x
        BY <3>1, <3>3 DEF Top
      <4>2. ASSUME NEW y \in StreamTimes("audio"), y < x PROVE y <= e
        <5>1. PICK z \in past : y <= z
          BY <3>3, <4>2
        <5>2. z <= e /\ y \in Nat /\ z \in Nat
          BY <3>1, StreamTimesIn DEF Top
        <5> QED BY <3>1, <5>1, <5>2
      <4> QED BY <4>1, <4>2
    <3>6. ASSUME NEW y \in FrameTimes(list), y <= e
          PROVE  BareTimes(list) # <<>> /\ BareTimes(list)[1] < e
      <4>1. e \in StreamTimes("audio") /\ y <= e /\ e <= x
        <5>1. e \in AudioUpTo(th, Given(w))
          BY <2>1 DEF Top
        <5> QED BY <1>4, <3>1, <3>4, <3>5, <3>6, <5>1, AudioSoFar
      <4>2. e \in FrameTimes(list)
        BY <1>2, <4>1 DEF Whole
      <4>3. PICK i \in DOMAIN list : Bare(list[i]) /\ list[i].time < e
        BY <3>1, <3>2, <4>2 DEF Top
      <4>4. i \in 1..Len(list)
        BY <3>4
      <4>5. BareTimes(list) # <<>> /\ BareTimes(list)[1] <= list[i].time
        BY <1>2, <4>3, <4>4, BareFirst
      <4>6. BareTimes(list)[1] \in Nat
        BY <1>2, <4>5, BareTimesIn
      <4> QED BY <3>1, <3>4, <4>3, <4>4, <4>5, <4>6
    <3>7. NextIn(p, e)
      BY <2>2, <3>5, <3>6 DEF NextIn
    <3> QED BY <1>7, <1>8, <1>13, <2>1, <3>7 DEF LineFits, p
  <2> QED BY <2>3, <2>4
<1> QED BY <1>14, <1>15, <1>16

LEMMA OneBrings ==
  ASSUME NEW th \in Thread, NEW o \in Thread, Brings(th, "audio"), Brings(o, "audio")
  PROVE  th = o
  BY FormatAssumption, GatedAudio

\* One thread goes on by itself.
LEMMA WorkerAudio ==
  ASSUME AudioInv, FormatInv', NEW th \in Thread, NEW w, thread' = [thread EXCEPT ![th] = w],
         UNCHANGED <<media, got, seek>>, thread[th].at \notin {"done", "exited"},
         lastAudio' = lastAudio \/ Brings(th, "audio"),
         Unforced(w.list["audio"]), w.at = "remember" => Brings(th, "audio"),
         Settled => Works(th, w, LineTimes, lastAudio', media)
  PROVE  AudioInv'
<1>1. thread \in [Thread -> Worker]
  BY DEF AudioInv, FormatInv, EosInv, TypeInv, TypeOK
<1>2. thread'[th] = w /\ \A o \in Thread \ {th} : thread'[o] = thread[o]
  BY <1>1
<1>3. Plain'
  BY <1>2 DEF AudioInv, Plain
<1>4. NotedAudio'
  BY <1>2 DEF AudioInv, NotedAudio
<1>5. Cleared'
  <2>1. seek.pc \notin {"seeking", "marking", "resuming"}
    BY DEF AudioInv, FormatInv, EosInv, Quiet
  <2> QED BY <2>1 DEF Cleared
<1>6. Sought(media', got'["audio"].last)
  BY DEF AudioInv
<1>7. InLineAudio'
  <2> SUFFICES ASSUME Settled'
               PROVE  /\ Ordered(got["audio"].last, Queue(media, "audio"))
                      /\ \A o \in Thread : Works(o, thread'[o], LineTimes, lastAudio', media)
    BY DEF InLineAudio, LineTimes
  <2>1. Settled
    BY DEF Settled
  <2>2. /\ Ordered(got["audio"].last, Queue(media, "audio"))
        /\ \A o \in Thread : Works(o, thread[o], LineTimes, lastAudio, media)
    BY <2>1 DEF AudioInv, InLineAudio
  <2>3. ASSUME NEW o \in Thread, o # th
        PROVE  Works(o, thread'[o], LineTimes, lastAudio', media)
    <3>1. thread'[o] = thread[o] /\ Works(o, thread[o], LineTimes, lastAudio, media)
      BY <1>2, <2>2, <2>3
    <3>2. CASE lastAudio' = lastAudio
      BY <3>1, <3>2
    <3>3. CASE Brings(th, "audio")
      <4>1. ~Brings(o, "audio")
        BY <2>3, <3>3, OneBrings
      <4> QED BY <4>1 DEF Works
    <3> QED BY <3>2, <3>3
  <2> QED BY <1>2, <2>1, <2>2, <2>3
<1> QED BY <1>3, <1>4, <1>5, <1>6, <1>7 DEF AudioInv

\* The steps of a thread by itself
LEMMA AloneAudio ==
  ASSUME AudioInv, FormatInv', NEW th \in Thread,
         Fetch(th) \/ Remember(th) \/ Exit(th) \/ ReportEnd(th) \/ TestEnd(th)
  PROVE  AudioInv'
<1>1. /\ thread \in [Thread -> Worker] /\ thread[th] \in Worker /\ lastAudio \in Nat
      /\ thread' \in [Thread -> Worker] /\ Listed(th, thread[th])
  BY DEF AudioInv, FormatInv, AllListed, EosInv, TypeInv, TypeOK
<1>2. UNCHANGED <<media, got, seek>> /\ thread[th].at \notin {"done", "exited"}
  BY DEF Fetch, Remember, Exit, ReportEnd, TestEnd, bufferVars
<1>3. /\ Unforced(thread[th].list["audio"])
      /\ thread[th].at = "remember" => Brings(th, "audio")
      /\ Settled => Works(th, thread[th], LineTimes, lastAudio, media)
  BY DEF AudioInv, Plain, NotedAudio, InLineAudio
<1>4. CASE Fetch(th)
  <2> DEFINE chunk == Stream[th][thread[th].next]
             list == IF thread[th].fresh THEN [t \in Track |-> Announced(chunk[t])] ELSE chunk
             w == [thread[th] EXCEPT !.at = "video", !.next = @ + 1, !.fresh = FALSE, !.list = list]
  <2>1. thread' = [thread EXCEPT ![th] = w]
    <3>1. thread' = [thread EXCEPT ![th].at = "video", ![th].next = @ + 1, ![th].fresh = FALSE,
             ![th].list = list]
      BY <1>4 DEF Fetch
    <3> HIDE DEF list
    <3> QED BY <1>1, <3>1 DEF Worker
  <2>2. list["audio"] = IF thread[th].fresh THEN Announced(chunk["audio"]) ELSE chunk["audio"]
    <3> HIDE DEF chunk
    <3> QED BY GatedAudio
  <2> HIDE DEF list
  <2>3. w.at = "video" /\ w.next = thread[th].next + 1 /\ ~w.fresh /\ w.list = list
    BY <1>1 DEF Worker
  <2> HIDE DEF w
  <2>4. w \in Worker
    BY <1>1, <2>1
  <2>5. /\ thread[th].at = "idle" /\ thread[th].next \in DOMAIN Stream[th]
        /\ lastAudio' = lastAudio
    BY <1>4 DEF Fetch, bufferVars
  <2>6. thread[th].list["audio"] = <<>>
    BY <1>1, <2>5, GatedAudio DEF Listed, Pushing
  <2>7. Unforced(w.list["audio"])
    <3>1. Unforced(chunk["audio"]) /\ Unforced(Announced(chunk["audio"]))
      BY <2>5, ChunkAudio, AnnouncedAudio
    <3> HIDE DEF chunk
    <3> QED BY <2>2, <2>3, <3>1
  <2>8. ASSUME Settled PROVE Works(th, w, LineTimes, lastAudio, media)
    <3>1. LineTimes \in SUBSET Nat
      BY <2>8, StreamTimesIn DEF AudioInv, InLineAudio, Ordered, LineTimes
    <3>2. Works(th, thread[th], LineTimes, lastAudio, media)
      BY <1>3, <2>8
    <3> QED BY <1>1, <2>2, <2>3, <2>4, <2>5, <2>6, <3>1, <3>2, FetchWorks
  <2> QED BY <1>2, <2>1, <2>3, <2>5, <2>7, <2>8, WorkerAudio
<1>5. CASE Remember(th)
  <2> DEFINE w == [thread[th] EXCEPT !.at = "subtitle", !.note = 0]
  <2>1. /\ thread' = [thread EXCEPT ![th] = w] /\ w.at = "subtitle"
        /\ w.list = thread[th].list /\ w.next = thread[th].next /\ w.fresh = thread[th].fresh
    BY <1>1, <1>5 DEF Remember, Worker
  <2>2. lastAudio' = Noted(thread[th], lastAudio) /\ thread[th].at = "remember"
    BY <1>5 DEF Remember, Noted
  <2> HIDE DEF w
  <2>3. Noted(w, lastAudio') = Noted(thread[th], lastAudio) /\ Given(w) = Given(thread[th])
    BY <2>1, <2>2 DEF Noted, Given
  <2>4. ASSUME Settled PROVE Works(th, w, LineTimes, lastAudio', media)
    <3>1. /\ ListFits(th, thread[th], lastAudio) /\ LineFits(th, thread[th], LineTimes, lastAudio)
          /\ SeekFits(th, thread[th], LineTimes, media)
      BY <1>3, <2>2, <2>4 DEF Works, Looping
    <3> QED BY <2>1, <2>3, <3>1 DEF Works, ListFits, LineFits, SeekFits
  <2> QED BY <1>2, <1>3, <2>1, <2>2, <2>4, WorkerAudio
<1>6. CASE Exit(th) \/ ReportEnd(th) \/ TestEnd(th)
  <2>1. lastAudio' = lastAudio
    BY <1>6 DEF Exit, ReportEnd, TestEnd, bufferVars
  <2>2. PICK w : /\ thread' = [thread EXCEPT ![th] = w] /\ w.at \notin Looping
                 /\ w.list["audio"] = thread[th].list["audio"] \/ w.list["audio"] = <<>>
    <3>1. CASE Exit(th)
      <4> DEFINE w == [Started(1) EXCEPT !.at = "exited"]
      <4>1. /\ thread' = [thread EXCEPT ![th] = w] /\ w.at = "exited" /\ w.list["audio"] = <<>>
        BY <3>1, GatedAudio DEF Exit, Started, NoChunk
      <4> HIDE DEF w
      <4> QED BY <4>1 DEF Looping
    <3>2. CASE ReportEnd(th)
      <4> DEFINE w == [thread[th] EXCEPT !.at = "ending"]
      <4>1. thread' = [thread EXCEPT ![th] = w] /\ w.list = thread[th].list /\ w.at = "ending"
        BY <1>1, <3>2 DEF ReportEnd, Worker
      <4> HIDE DEF w
      <4> QED BY <4>1 DEF Looping
    <3>3. CASE TestEnd(th) /\ thread' = [thread EXCEPT ![th].at = "done"]
      <4> DEFINE w == [thread[th] EXCEPT !.at = "done"]
      <4>1. thread' = [thread EXCEPT ![th] = w] /\ w.list = thread[th].list /\ w.at = "done"
        BY <1>1, <3>3 DEF Worker
      <4> HIDE DEF w
      <4> QED BY <4>1 DEF Looping
    <3>4. ASSUME NEW time \in EosTimes,
                 thread' = [thread EXCEPT ![th].at = "eosVideo", ![th].note = time]
          PROVE  \E w : /\ thread' = [thread EXCEPT ![th] = w] /\ w.at \notin Looping
                        /\ w.list["audio"] = thread[th].list["audio"] \/ w.list["audio"] = <<>>
      <4> DEFINE w == [thread[th] EXCEPT !.at = "eosVideo", !.note = time]
      <4>1. thread' = [thread EXCEPT ![th] = w] /\ w.list = thread[th].list /\ w.at = "eosVideo"
        BY <1>1, <3>4 DEF Worker
      <4> HIDE DEF w
      <4> QED BY <4>1 DEF Looping
    <3> QED BY <1>6, <3>1, <3>2, <3>3, <3>4 DEF TestEnd
  <2>3. Unforced(w.list["audio"])
    <3>1. Unforced(<<>>)
      BY DEF Unforced
    <3> QED BY <1>3, <2>2, <3>1
  <2>4. w.at # "remember" /\ Works(th, w, LineTimes, lastAudio', media)
    BY <2>2 DEF Works, Looping
  <2> QED BY <1>2, <2>1, <2>2, <2>3, <2>4, WorkerAudio
<1> QED BY <1>4, <1>5, <1>6

\* The list goes on with the frame that is due after e, and has none before it.
DueAfter(c, e) ==
  /\ \E x \in FrameTimes(c) : e < x /\ \A y \in StreamTimes("audio") : y < x => y <= e
  /\ \A x \in FrameTimes(c) : e < x

\* A pending seek does not cut what is due.
LEMMA DueBeyond ==
  ASSUME NEW th \in Thread, NEW w \in Worker, w.next - 1 \in DOMAIN Stream[th],
         w.list["audio"] # <<>>, NEW m \in Media, m.state = "Seeking", m.wanted \in SeekPoints,
         NEW S, S # {}, SeekFits(th, w, S, m), NEW e, Top(AudioUpTo(th, Given(w)), e),
         NEW x \in FrameTimes(Stream[th][w.next - 1]["audio"]), e < x
  PROVE  m.actual < x
<1> DEFINE n == w.next - 1
           point == m.wanted
           past == AudioUpTo(th, n - 1)
           at == ChunkAt(Stream[th], point)
<1>1. /\ w.next \in Nat /\ n \in Int /\ Given(w) = n - 1 /\ n - 1 \in Int
      /\ m.actual \in Nat /\ point \in Nat /\ at \in Nat
  <2>1. w.next \in Nat
    BY GivenIn
  <2>2. Given(w) = w.next - 2
    BY DEF Given
  <2>3. at \in Nat
    BY ChunkAtIn
  <2>4. m.actual \in Nat /\ point \in Nat
    BY DEF Media
  <2> QED BY <2>1, <2>2, <2>3, <2>4
<1>2. /\ Near(m, SampledUpTo(th, n - 1)) /\ at <= n - 1
  BY <1>1 DEF SeekFits
<1>3. /\ past \subseteq Nat /\ SampledUpTo(th, n - 1) \subseteq Nat
      /\ AudioUpTo(th, at) \subseteq past
      /\ AudioUpTo(th, n) \subseteq AudioUpTo(th, Len(Stream[th]))
      /\ AudioUpTo(th, n) \subseteq Nat
  BY <1>1, <1>2, AudioSoFar
<1>4. x \in AudioUpTo(th, n) /\ x \in Nat
  BY <1>3, OneChunkMore
<1>5. Top(past, e) /\ e \in Nat /\ \A y \in past : y < x
  BY <1>1, <1>3, <1>4 DEF Top
<1>6. ASSUME NEW y \in SampledUpTo(th, n - 1) PROVE y < x
  <2>1. n \in DOMAIN Stream[th] /\ x \in FrameTimes(Stream[th][n]["audio"])
    OBVIOUS
  <2> QED BY <1>5, <1>6, <2>1, OverlapAssumption
<1>7. CASE m.actual <= point
  <2>1. ~(x <= point)
    <3> SUFFICES ASSUME x <= point PROVE FALSE
      OBVIOUS
    <3>1. x \in AudioUpTo(th, Len(Stream[th]))
      BY <1>3, <1>4
    <3>2. PICK y \in AudioUpTo(th, at) : x <= y
      BY <3>1, SeekAssumption
    <3>3. y \in past /\ y < x /\ y \in Nat
      BY <1>3, <1>5, <3>2
    <3> QED BY <1>4, <3>2, <3>3
  <2> QED BY <1>1, <1>4, <1>7, <2>1
<1>8. CASE ~(m.actual <= point)
  <2>1. PICK y \in SampledUpTo(th, n - 1) : m.actual <= y
    BY <1>2, <1>8 DEF Near
  <2>2. y < x /\ y \in Nat
    BY <1>3, <1>6
  <2> QED BY <1>1, <1>4, <2>1, <2>2
<1> QED BY <1>7, <1>8

\* What AddBuffers and a seek leave of a list goes on from where the line ends.
LEMMA CutFits ==
  ASSUME lastAudio \in Nat, NEW th \in Thread, NEW w \in Worker, w.at = "audio",
         Brings(th, "audio"), w.list["audio"] # <<>>, Listed(th, w),
         NEW S \in SUBSET Nat, NEW m \in Media, NEW g, Works(th, w, S, lastAudio, m),
         Sought(m, g), NEW c \in Seq(Sample),
         LET l == WithoutHeard(w.list["audio"])
         IN  /\ Shed(c, l) /\ Lower(c, l)
             /\ \A x \in FrameTimes(l) :
                  (m.state = "Seeking" => m.actual < x) => x \in FrameTimes(c)
  PROVE  LET list == Stream[th][w.next - 1]["audio"]
             p == w.list["audio"]
         IN  /\ w.next - 1 \in DOMAIN Stream[th]
             /\ Rising(c) /\ Steady(c) /\ Told(c) /\ Whole(FrameTimes(c))
             /\ LaterPart(FrameTimes(c), FrameTimes(p))
             /\ LaterPart(FrameTimes(c), FrameTimes(list))
             /\ Upto(c, SampledUpTo(th, w.next - 1))
             /\ S # {} =>
                  /\ Top(S, lastAudio) /\ Top(AudioUpTo(th, Given(w)), lastAudio)
                  /\ \/ FrameTimes(list) = {} /\ Mute(p) /\ Mute(c)
                     \/ DueAfter(c, lastAudio)
<1> DEFINE list == Stream[th][w.next - 1]["audio"]
           p == w.list["audio"]
           l == WithoutHeard(p)
<1>1. ListFits(th, w, lastAudio) /\ LineFits(th, w, S, lastAudio) /\ SeekFits(th, w, S, m)
  BY DEF Works, Looping
<1>2. /\ ~w.fresh /\ Rising(p) /\ Steady(p) /\ Told(p)
      /\ LaterPart(FrameTimes(p), FrameTimes(list))
      /\ Upto(p, SampledUpTo(th, w.next - 1))
      /\ lastAudio = 0 \/ \E y \in SampledUpTo(th, Given(w)) : lastAudio <= y
  BY <1>1 DEF ListFits, Noted
<1>3. w.next - 1 \in DOMAIN Stream[th] /\ p \in Seq(Sample)
  BY <1>2, GivenIn DEF Listed
<1>4. list \in Seq(Sample) /\ Whole(FrameTimes(list)) /\ FrameTimes(list) \subseteq Nat
  BY <1>3, ChunkAudio, FrameTimesIn
<1>5. /\ Shed(l, p) /\ l \in Seq(Sample)
      /\ \A Q \in SUBSET Nat :
           Upto(p, Q) /\ (lastAudio = 0 \/ \E y \in Q : lastAudio <= y) => Upto(l, Q)
      /\ \A x \in FrameTimes(p) : lastAudio < x => x \in FrameTimes(l)
      /\ \/ l = p /\ (BareTimes(p) # <<>> => lastAudio <= BareTimes(p)[1])
         \/ Steady(p) => \A x \in FrameTimes(l) : lastAudio < x
  <2> HIDE DEF p, l
  <2>1. p # <<>>
    BY DEF p
  <2> QED BY <1>3, <2>1, WithoutHeardShed DEF l
<1>6. Shed(c, p)
  <2>1. Shed(c, l)
    OBVIOUS
  <2> QED BY <1>5, <2>1, ShedTwice
<1>7. /\ Rising(c) /\ Steady(c) /\ Told(c) /\ LaterPart(FrameTimes(c), FrameTimes(p))
      /\ Mute(p) => Mute(c)
  BY <1>2, <1>6 DEF Shed
<1>8. LaterPart(FrameTimes(c), FrameTimes(list)) /\ Whole(FrameTimes(c))
  <2>1. LaterPart(FrameTimes(c), FrameTimes(list))
    BY <1>2, <1>4, <1>7, LaterParts
  <2> QED BY <1>4, <2>1, LaterParts
<1>9. Upto(c, SampledUpTo(th, w.next - 1))
  <2>1. /\ SampledUpTo(th, w.next - 1) \in SUBSET Nat
        /\ SampledUpTo(th, Given(w)) \subseteq SampledUpTo(th, w.next - 1)
    <3>1. Given(w) = w.next - 2 /\ w.next \in Nat
      BY GivenIn DEF Given
    <3>2. Given(w) \in Int /\ w.next - 1 \in Int /\ Given(w) <= w.next - 1
      BY <3>1
    <3> QED BY <3>2, AudioSoFar
  <2>2. Upto(l, SampledUpTo(th, w.next - 1))
    BY <1>2, <1>5, <2>1
  <2>3. Lower(c, l)
    OBVIOUS
  <2> QED BY <2>1, <2>2, <2>3 DEF Lower
<1>10. ASSUME S # {}
       PROVE  /\ Top(S, lastAudio) /\ Top(AudioUpTo(th, Given(w)), lastAudio)
              /\ \/ FrameTimes(list) = {} /\ Mute(p) /\ Mute(c)
                 \/ DueAfter(c, lastAudio)
  <2>1. /\ Top(S, lastAudio) /\ Top(AudioUpTo(th, Given(w)), lastAudio)
        /\ (FrameTimes(list) = {} /\ Mute(p)) \/ NextIn(p, lastAudio)
    <3>1. Noted(w, lastAudio) = lastAudio
      BY DEF Noted
    <3> QED BY <1>1, <1>10, <3>1 DEF LineFits
  <2>2. CASE NextIn(p, lastAudio)
    <3>1. PICK x \in FrameTimes(p) :
            lastAudio < x /\ \A y \in StreamTimes("audio") : y < x => y <= lastAudio
      BY <2>2 DEF NextIn
    <3>2. x \in FrameTimes(l) /\ x \in FrameTimes(list)
      BY <1>2, <1>5, <3>1 DEF LaterPart
    <3>3. m.state = "Seeking" => m.actual < x
      <4> SUFFICES ASSUME m.state = "Seeking" PROVE m.actual < x
        OBVIOUS
      <4>1. m.wanted \in SeekPoints
        BY DEF Sought
      <4> HIDE DEF list
      <4> QED BY <1>1, <1>3, <1>10, <2>1, <3>1, <3>2, <4>1, DueBeyond DEF list
    <3>4. x \in FrameTimes(c)
      BY <3>2, <3>3
    <3>5. ASSUME NEW y \in FrameTimes(c) PROVE lastAudio < y
      <4>1. y \in FrameTimes(l) /\ y \in FrameTimes(p)
        <5>1. LaterPart(FrameTimes(c), FrameTimes(l))
          <6>1. Rising(l) /\ Shed(c, l)
            BY <1>2, <1>5 DEF Shed
          <6> QED BY <6>1 DEF Shed
        <5> QED BY <1>7, <3>5, <5>1 DEF LaterPart
      <4>2. y \in Nat
        BY <1>3, <4>1, FrameTimesIn
      <4>3. CASE \A z \in FrameTimes(l) : lastAudio < z
        BY <4>1, <4>3
      <4>4. CASE BareTimes(p) # <<>> => lastAudio <= BareTimes(p)[1]
        <5> SUFFICES ASSUME ~(lastAudio < y) PROVE FALSE
          OBVIOUS
        <5>1. y <= lastAudio
          BY <4>2
        <5>2. BareTimes(p) # <<>> /\ BareTimes(p)[1] < lastAudio
          BY <2>2, <4>1, <5>1 DEF NextIn
        <5>3. BareTimes(p)[1] \in Nat
          BY <1>3, <5>2, BareTimesIn
        <5> QED BY <4>4, <5>2, <5>3
      <4> QED BY <1>2, <1>5, <4>3, <4>4
    <3> QED BY <2>1, <3>1, <3>4, <3>5 DEF DueAfter
  <2> QED BY <1>7, <2>1, <2>2
<1> QED BY <1>3, <1>7, <1>8, <1>9, <1>10

\* The list is refused: what is left of it is offered again.
LEMMA RefusedWorks ==
  ASSUME lastAudio \in Nat, NEW th \in Thread, NEW w \in Worker, w.at = "audio",
         w.list["audio"] # <<>>, Listed(th, w),
         NEW S \in SUBSET Nat, NEW m \in Media, NEW g, Works(th, w, S, lastAudio, m),
         Sought(m, g), NEW c \in Seq(Sample), c # <<>>,
         LET l == WithoutHeard(w.list["audio"])
         IN  /\ Shed(c, l) /\ Lower(c, l)
             /\ \A x \in FrameTimes(l) :
                  (m.state = "Seeking" => m.actual < x) => x \in FrameTimes(c),
         NEW v \in Worker, v.at = "subtitle", v.list["audio"] = c, v.next = w.next,
         v.fresh = w.fresh
  PROVE  Works(th, v, S, lastAudio, m)
<1> SUFFICES ASSUME Brings(th, "audio")
             PROVE  /\ ListFits(th, v, lastAudio) /\ LineFits(th, v, S, lastAudio)
                    /\ SeekFits(th, v, S, m)
  BY DEF Works
<1> DEFINE list == Stream[th][w.next - 1]["audio"]
<1>1. /\ Rising(c) /\ Steady(c) /\ Told(c)
      /\ LaterPart(FrameTimes(c), FrameTimes(list))
      /\ Upto(c, SampledUpTo(th, w.next - 1))
      /\ S # {} =>
           /\ Top(S, lastAudio) /\ Top(AudioUpTo(th, Given(w)), lastAudio)
           /\ \/ FrameTimes(list) = {} /\ Mute(c)
              \/ DueAfter(c, lastAudio)
  BY CutFits
<1>2. ListFits(th, w, lastAudio) /\ LineFits(th, w, S, lastAudio) /\ SeekFits(th, w, S, m)
  BY DEF Works, Looping
<1>3. /\ Given(v) = Given(w) /\ Noted(v, lastAudio) = lastAudio /\ Noted(w, lastAudio) = lastAudio
  BY DEF Given, Noted
<1>4. ~w.fresh
  BY <1>2 DEF ListFits
<1>5. ListFits(th, v, lastAudio)
  BY <1>1, <1>2, <1>3, <1>4 DEF ListFits
<1>6. LineFits(th, v, S, lastAudio)
  <2> SUFFICES ASSUME S # {} PROVE LineFits(th, v, S, lastAudio)
    BY DEF LineFits
  <2>1. DueAfter(c, lastAudio) => NextIn(c, lastAudio)
    <3> SUFFICES ASSUME DueAfter(c, lastAudio) PROVE NextIn(c, lastAudio)
      OBVIOUS
    <3>1. ASSUME NEW x \in FrameTimes(c), x <= lastAudio PROVE FALSE
      <4>1. x \in Nat /\ lastAudio < x
        BY FrameTimesIn DEF DueAfter
      <4> QED BY <3>1, <4>1
    <3> QED BY <3>1 DEF DueAfter, NextIn
  <2>2. lastAudio \in S
    BY <1>1 DEF Top
  <2> QED BY <1>1, <1>3, <1>4, <2>1, <2>2 DEF LineFits
<1>7. SeekFits(th, v, S, m)
  BY <1>2, <1>3 DEF SeekFits
<1> QED BY <1>5, <1>6, <1>7

\* Moments without a gap, and others that go on from the latest of them
LEMMA WholeJoined ==
  ASSUME NEW T \in SUBSET StreamTimes("audio"), NEW c, FrameTimes(c) \subseteq StreamTimes("audio"),
         Whole(T), Whole(FrameTimes(c)), NEW e,
         T # {} => Top(T, e) /\ (FrameTimes(c) = {} \/ DueAfter(c, e))
  PROVE  /\ \A x \in T, y \in FrameTimes(c) : x < y
         /\ Whole(T \cup FrameTimes(c))
<1> DEFINE C == FrameTimes(c)
<1>1. StreamTimes("audio") \subseteq Nat
  BY StreamTimesIn
<1>2. ASSUME NEW x \in T, NEW y \in C PROVE x < y
  <2>1. Top(T, e) /\ DueAfter(c, e)
    BY <1>2
  <2>2. x <= e /\ e < y /\ e \in T
    BY <2>1 DEF Top, DueAfter
  <2> QED BY <1>1, <2>2
<1>3. ASSUME NEW x \in StreamTimes("audio"), NEW a \in T, NEW b \in C, a <= x, x <= b
      PROVE  x \in T \cup C
  <2>1. Top(T, e) /\ DueAfter(c, e)
    BY <1>3
  <2>2. PICK z \in C : e < z /\ \A y \in StreamTimes("audio") : y < z => y <= e
    BY <2>1 DEF DueAfter
  <2>3. e \in T /\ e \in Nat /\ x \in Nat /\ z \in Nat
    BY <1>1, <2>1 DEF Top
  <2>4. CASE x < z
    <3>1. x <= e
      BY <2>2, <2>4
    <3> QED BY <1>3, <2>3, <3>1 DEF Whole
  <2>5. CASE z <= x
    BY <1>3, <2>5 DEF Whole
  <2> QED BY <2>3, <2>4, <2>5
<1>4. ASSUME NEW x \in StreamTimes("audio"), NEW a \in C, NEW b \in T, a <= x, x <= b
      PROVE  FALSE
  <2>1. b < a /\ a \in Nat /\ b \in Nat /\ x \in Nat
    BY <1>1, <1>2
  <2> QED BY <1>4, <2>1
<1> HIDE DEF C
<1>5. Whole(T \cup C)
  <2> SUFFICES ASSUME NEW x \in StreamTimes("audio"), NEW a \in T \cup C, NEW b \in T \cup C,
                      a <= x, x <= b
               PROVE  x \in T \cup C
    BY DEF Whole
  <2>1. CASE a \in T /\ b \in T
    BY <2>1 DEF Whole
  <2>2. CASE a \in C /\ b \in C
    BY <2>2 DEF Whole, C
  <2> QED BY <1>3, <1>4, <2>1, <2>2
<1> QED BY <1>2, <1>5 DEF C

\* What a list that has frames leaves noted is when the last of them is, which no audio
\* the thread has brought before is as late as.
LEMMA HeardFits ==
  ASSUME lastAudio \in Nat, NEW th \in Thread, NEW n \in DOMAIN Stream[th],
         NEW p \in Seq(Sample), Rising(p), Steady(p), Told(p), FrameTimes(p) # {},
         LaterPart(FrameTimes(p), FrameTimes(Stream[th][n]["audio"])),
         lastAudio = 0 \/ \E y \in SampledUpTo(th, n - 1) : lastAudio <= y
  PROVE  /\ Top(FrameTimes(p), Heard(p)) /\ Top(AudioUpTo(th, n), Heard(p))
<1> DEFINE list == Stream[th][n]["audio"]
           b == BareTimes(p)[2]
           past == AudioUpTo(th, n - 1)
<1>1. n \in Nat /\ n - 1 \in Int
  <2>1. Stream[th] \in Seq([Track -> Seq(Sample)])
    BY StreamAssumption
  <2> QED BY <2>1
<1>2. /\ AudioUpTo(th, n) = past \cup FrameTimes(list) /\ AudioUpTo(th, n) \subseteq Nat
      /\ SampledUpTo(th, n - 1) \subseteq Nat
  BY <1>1, OneChunkMore, AudioSoFar
<1>3. BareTimes(p) # <<>> /\ Top(FrameTimes(p), b)
  BY HeardLast
<1>4. Top(FrameTimes(list), b) /\ b \in Nat
  BY <1>2, <1>3 DEF Top, LaterPart
<1>5. ASSUME NEW y \in past PROVE y < b
  <2>1. PICK x \in FrameTimes(list) : \A z \in past : z < x
    BY <1>4, <1>5, OverlapAssumption DEF Top
  <2>2. y < x /\ x <= b /\ x \in Nat /\ y \in Nat
    BY <1>2, <1>4, <2>1 DEF Top
  <2> QED BY <1>4, <2>2
<1>6. \A y \in SampledUpTo(th, n - 1) : y < b
  BY <1>4, <1>5, OverlapAssumption DEF Top
<1>7. lastAudio <= b
  BY <1>2, <1>4, <1>6
<1>8. Heard(p) = b
  BY <1>3, <1>4, <1>7 DEF Heard
<1>9. Top(AudioUpTo(th, n), b)
  BY <1>2, <1>4, <1>5 DEF Top
<1> QED BY <1>3, <1>8, <1>9

\* The list is taken: the line goes on with it, and the worker notes its end.
LEMMA AcceptedWorks ==
  ASSUME lastAudio \in Nat, NEW th \in Thread, NEW w \in Worker, w.at = "audio",
         w.list["audio"] # <<>>, Listed(th, w), NEW m \in Media, NEW g,
         Ordered(g, Queue(m, "audio")), Works(th, w, Heads(g, Queue(m, "audio")), lastAudio, m),
         Sought(m, g), NEW n \in Media, AudioHeld(m, n), NEW c \in Seq(Sample),
         LET l == WithoutHeard(w.list["audio"])
         IN  /\ Shed(c, l) /\ Lower(c, l)
             /\ \A x \in FrameTimes(l) :
                  (m.state = "Seeking" => m.actual < x) => x \in FrameTimes(c),
         NEW o \in Media, Queue(o, "audio") = Cat(Queue(n, "audio"), c),
         o.wanted = n.wanted, o.actual = n.actual, o.state = n.state,
         NEW v \in Worker, v.list["audio"] = <<>>, v.next = w.next, v.fresh = w.fresh,
         Noted(v, lastAudio) = Heard(w.list["audio"])
  PROVE  /\ Ordered(g, Queue(o, "audio")) /\ Sought(o, g)
         /\ Works(th, v, Heads(g, Queue(o, "audio")), lastAudio, o)
<1> DEFINE k == w.next - 1
           list == Stream[th][k]["audio"]
           p == w.list["audio"]
           S == Heads(g, Queue(m, "audio"))
           q == Queue(n, "audio")
           T == Heads(g, q)
           C == FrameTimes(c)
<1>1. /\ Brings(th, "audio") /\ k \in DOMAIN Stream[th] /\ p \in Seq(Sample)
      /\ w.next \in Nat /\ Given(w) = k - 1 /\ Given(v) = k /\ k \in Int /\ k - 1 \in Int
      /\ Noted(w, lastAudio) = lastAudio
  <2>1. Brings(th, "audio")
    BY GatedAudio DEF Listed
  <2>2. ListFits(th, w, lastAudio)
    BY <2>1 DEF Works, Looping
  <2>3. k \in DOMAIN Stream[th]
    BY <2>2 DEF ListFits, Listed
  <2>4. w.next \in Nat /\ p \in Seq(Sample)
    BY GivenIn
  <2>5. Given(w) = w.next - 2 /\ Given(v) = w.next - 1 /\ Noted(w, lastAudio) = lastAudio
    BY DEF Given, Noted
  <2> QED BY <2>1, <2>3, <2>4, <2>5
<1>2. /\ Ordered(g, q) /\ LaterPart(T, S) /\ S \in SUBSET Nat /\ AudioLess(m, n)
      /\ q \in Seq(Sample) /\ Sought(n, g)
  <2>1. AudioLess(m, n)
    BY DEF AudioHeld
  <2>2. q \in Seq(Sample)
    BY MediaParts, GatedAudio
  <2>3. S \in SUBSET Nat
    BY StreamTimesIn DEF Ordered
  <2>4. Sought(n, g)
    BY <2>1 DEF Sought, AudioLess
  <2> QED BY <2>1, <2>2, <2>3, <2>4, OrderedLess
<1>3. Works(th, w, T, lastAudio, n)
  <2>1. n.state = "Seeking" => /\ m.state = "Seeking" /\ n.wanted = m.wanted
                               /\ \A P \in SUBSET Nat : Near(m, P) => Near(n, P)
    BY DEF AudioHeld, AudioLess
  <2>2. Works(th, w, S, lastAudio, m)
    OBVIOUS
  <2> HIDE DEF S, T
  <2> QED BY <1>2, <2>1, <2>2, WorksStill
<1>4. /\ ListFits(th, w, lastAudio) /\ LineFits(th, w, T, lastAudio) /\ SeekFits(th, w, T, n)
  BY <1>1, <1>3 DEF Works, Looping
<1>5. /\ Rising(c) /\ Whole(C) /\ LaterPart(C, FrameTimes(p)) /\ LaterPart(C, FrameTimes(list))
      /\ Upto(c, SampledUpTo(th, k))
      /\ S # {} => /\ Top(S, lastAudio) /\ Top(AudioUpTo(th, k - 1), lastAudio)
                   /\ \/ FrameTimes(list) = {} /\ Mute(p) /\ Mute(c)
                      \/ DueAfter(c, lastAudio)
  <2>1. Works(th, w, S, lastAudio, m)
    OBVIOUS
  <2> HIDE DEF S
  <2> QED BY <1>1, <1>2, <2>1, CutFits
<1>6. /\ Rising(p) /\ Steady(p) /\ Told(p) /\ LaterPart(FrameTimes(p), FrameTimes(list))
      /\ Upto(p, SampledUpTo(th, k))
      /\ lastAudio = 0 \/ \E y \in SampledUpTo(th, k - 1) : lastAudio <= y
  BY <1>1, <1>4 DEF ListFits
<1>7. /\ AudioUpTo(th, k) = AudioUpTo(th, k - 1) \cup FrameTimes(list)
      /\ FrameTimes(list) \subseteq StreamTimes("audio")
      /\ SampledUpTo(th, k - 1) \subseteq SampledUpTo(th, k) /\ SampledUpTo(th, k) \in SUBSET Nat
  <2>1. SampledUpTo(th, k - 1) \subseteq SampledUpTo(th, k) /\ SampledUpTo(th, k) \in SUBSET Nat
    BY <1>1, AudioSoFar
  <2> QED BY <1>1, <2>1, OneChunkMore
<1> HIDE DEF S, list, p, k
<1>8. T # {} => /\ Top(T, lastAudio) /\ Top(AudioUpTo(th, k - 1), lastAudio)
                /\ \/ FrameTimes(list) = {} /\ Mute(p) /\ C = {}
                   \/ DueAfter(c, lastAudio)
  <2> SUFFICES ASSUME T # {} PROVE Top(T, lastAudio) /\ S # {}
    BY <1>5 DEF LaterPart
  <2>1. S # {}
    BY <1>2 DEF LaterPart
  <2> HIDE DEF T
  <2> QED BY <1>2, <1>5, <2>1, LaterParts
<1>9. T \in SUBSET StreamTimes("audio") /\ C \subseteq StreamTimes("audio") /\ Whole(T)
      /\ Rising(q) /\ (g # NoFrame => \A x \in FrameTimes(q) : g.time < x)
  BY <1>2, <1>5, <1>7 DEF Ordered, LaterPart
<1>10. /\ \A x \in T, y \in C : x < y
       /\ Whole(T \cup C)
  <2>1. T # {} => Top(T, lastAudio) /\ (C = {} \/ DueAfter(c, lastAudio))
    BY <1>8
  <2> HIDE DEF T
  <2> QED BY <1>5, <1>9, <2>1, WholeJoined
<1>11. /\ FrameTimes(Queue(o, "audio")) = FrameTimes(q) \cup C
       /\ Heads(g, Queue(o, "audio")) = T \cup C /\ FrameTimes(q) \subseteq T
       /\ g # NoFrame => g.time \in T
  <2>1. FrameTimes(Queue(o, "audio")) = FrameTimes(q) \cup C
    BY <1>2, CatAudio
  <2> QED BY <2>1 DEF Heads
<1>12. Rising(Queue(o, "audio"))
  <2>1. \A x \in FrameTimes(q), y \in FrameTimes(c) : x < y
    BY <1>10, <1>11
  <2> QED BY <1>2, <1>5, <1>9, <2>1, CatAudio
<1>13. Ordered(g, Queue(o, "audio"))
  BY <1>9, <1>10, <1>11, <1>12 DEF Ordered
<1>14. Sought(o, g)
  BY <1>2 DEF Sought
<1>15. ListFits(th, v, lastAudio)
  <2>1. Heard(p) = 0 \/ \E y \in SampledUpTo(th, k) : Heard(p) <= y
    <3>1. CASE BareTimes(p) # <<>> /\ Heard(p) = BareTimes(p)[2]
      <4>1. PICK i \in 1..Len(p) : BareTimes(p)[2] = p[i].time
        BY <1>1, <3>1, BareTimesOf
      <4> QED BY <1>6, <3>1, <4>1 DEF Upto
    <3>2. CASE Heard(p) = lastAudio
      BY <1>6, <1>7, <3>2
    <3> QED BY <3>1, <3>2 DEF Heard
  <2>2. Noted(v, lastAudio) = Heard(p)
    BY DEF p
  <2> QED BY <1>1, <2>1, <2>2 DEF ListFits
<1>16. LineFits(th, v, T \cup C, lastAudio)
  <2> SUFFICES ASSUME T \cup C # {}
               PROVE  /\ Heard(p) \in T \cup C /\ Top(T \cup C, Heard(p))
                      /\ Top(AudioUpTo(th, k), Heard(p)) /\ ~v.fresh
    BY <1>1 DEF LineFits, p
  <2>1. ~v.fresh
    BY <1>4 DEF ListFits
  <2>2. CASE C = {}
    <3>1. T # {} /\ T \cup C = T
      BY <2>2
    <3>2. FrameTimes(list) = {} /\ Mute(p)
      BY <1>8, <2>2, <3>1 DEF DueAfter
    <3>3. Heard(p) = lastAudio
      BY <1>1, <3>2, MuteTimes DEF Heard
    <3>4. AudioUpTo(th, k) = AudioUpTo(th, k - 1)
      BY <1>7, <3>2
    <3> HIDE DEF T, C
    <3> QED BY <1>8, <2>1, <3>1, <3>3, <3>4 DEF Top
  <2>3. CASE C # {}
    <3>1. FrameTimes(p) # {}
      BY <1>5, <2>3 DEF LaterPart
    <3>2. Top(FrameTimes(p), Heard(p)) /\ Top(AudioUpTo(th, k), Heard(p))
      BY <1>1, <1>6, <3>1, HeardFits DEF list
    <3>3. FrameTimes(p) \in SUBSET Nat
      BY <1>1, FrameTimesIn
    <3>4. Top(C, Heard(p))
      BY <1>5, <2>3, <3>2, <3>3, LaterParts
    <3>5. ASSUME NEW x \in T PROVE x <= Heard(p)
      <4>1. x < Heard(p)
        BY <1>10, <3>4 DEF Top
      <4>2. x \in Nat /\ Heard(p) \in Nat
        BY <1>9, <3>2, <3>3, StreamTimesIn DEF Top
      <4> QED BY <4>1, <4>2
    <3> HIDE DEF T, C
    <3> QED BY <2>1, <3>2, <3>4, <3>5 DEF Top
  <2> QED BY <2>2, <2>3
<1>17. SeekFits(th, v, T \cup C, o)
  <2> SUFFICES ASSUME o.state = "Seeking"
               PROVE  /\ Near(o, SampledUpTo(th, k))
                      /\ ChunkAt(Stream[th], o.wanted) <= k
    <3>1. ChunkAt(Stream[th], o.wanted) \in Nat
      BY ChunkAtIn
    <3>2. ChunkAt(Stream[th], o.wanted) <= k => ChunkAt(Stream[th], o.wanted) <= k + 1
      BY <1>1, <3>1
    <3> QED BY <1>1, <3>2 DEF SeekFits
  <2>1. /\ Near(n, SampledUpTo(th, k - 1)) /\ ChunkAt(Stream[th], n.wanted) <= (k - 1) + 1
    BY <1>1, <1>4 DEF SeekFits
  <2>2. Near(n, SampledUpTo(th, k))
    BY <1>7, <2>1, MoreToReach
  <2>3. Upto(Queue(o, "audio"), SampledUpTo(th, k))
    BY <1>2, <1>5, <2>2, CatAudio DEF Near
  <2>4. (k - 1) + 1 = k
    BY <1>1
  <2> QED BY <2>1, <2>2, <2>3, <2>4 DEF Near
<1> QED BY <1>11, <1>13, <1>14, <1>15, <1>16, <1>17 DEF Works

\* One call of a thread into the buffer, once what it does to the line is known
LEMMA CallAudio ==
  ASSUME AudioInv, FormatInv', NEW th \in Thread, thread[th].at \notin {"done", "exited"},
         UNCHANGED <<got, seek>>,
         \A o \in Thread : /\ Unforced(thread'[o].list["audio"])
                           /\ thread'[o].at = "remember" => Brings(o, "audio"),
         Unforced(Queue(media', "audio")), Sought(media', got["audio"].last), InLineAudio'
  PROVE  AudioInv'
<1>1. seek.pc \notin {"seeking", "marking", "resuming"}
  BY DEF AudioInv, FormatInv, EosInv, Quiet
<1>2. Cleared'
  BY <1>1 DEF Cleared
<1>3. Plain' /\ NotedAudio'
  BY DEF Plain, NotedAudio
<1> QED BY <1>2, <1>3 DEF AudioInv

\* A list that is offered goes in, whole or cut, or is left to be offered again.
LEMMA OfferAudio ==
  ASSUME AudioInv, FormatInv', NEW th \in Thread, NEW t \in Track, Offer(th, t)
  PROVE  AudioInv'
<1> DEFINE v == thread[th]
           list == v.list[t]
           l == IF t = "audio" /\ list # <<>> THEN WithoutHeard(list) ELSE list
           r == AddBuffersResult(t, list)
           pass == v.refused \/ r.refused
           note == IF t = "audio" /\ ~r.refused THEN Heard(list) ELSE v.note
           at == CASE t = "audio" /\ ~r.refused /\ BareTimes(list) # <<>> -> "remember"
                   [] t = "subtitle" -> IF pass THEN "video" ELSE "idle"
                   [] OTHER -> NextTrack[t]
           w == [v EXCEPT !.list = [@ EXCEPT ![t] = r.list],
                          !.refused = pass /\ t # "subtitle", !.note = note, !.at = at]
           g == got["audio"].last
<1>1. /\ TypeOK /\ TypeOK' /\ v \in Worker /\ thread \in [Thread -> Worker] /\ Listed(th, v)
      /\ v.at = t /\ list \in Seq(Sample) /\ v.list \in [Track -> Seq(Sample)]
      /\ media \in Media /\ lastAudio \in Nat
  BY WorkerParts DEF AudioInv, FormatInv, EosInv, TypeInv, TypeOK, AllListed, Offer
<1>2. /\ r = PutSamplesResult(media, t, l) /\ l \in Seq(Sample) /\ r.m \in Media
      /\ r.list \in Seq(Sample) /\ (list = <<>> \/ ~r.refused => r.list = <<>>)
      /\ (t = "audio" /\ list # <<>> => l = WithoutHeard(list)) /\ (list = <<>> => l = <<>>)
  <2>1. r = PutSamplesResult(media, t, l) /\ l \in Seq(Sample)
    <3> HIDE DEF list
    <3> QED BY <1>1, AddBuffersIn
  <2> QED BY <1>1, <2>1, OfferType
<1>3. t \in {"audio", "video", "subtitle"}
  BY DEF Track
<1>4. /\ t = "video" => at = "audio"
      /\ t = "audio" /\ r.refused => at = "subtitle"
      /\ t = "audio" => at = IF ~r.refused /\ BareTimes(list) # <<>> THEN "remember" ELSE "subtitle"
      /\ t = "subtitle" => at \in {"video", "idle"}
  BY <1>3 DEF NextTrack
<1>5. /\ thread' = [thread EXCEPT ![th] = w] /\ media' = r.m
      /\ UNCHANGED <<got, seek, lastAudio>>
  <2>1. /\ thread' = [thread EXCEPT
              ![th].list[t] = r.list,
              ![th].refused = pass /\ t # "subtitle",
              ![th].note = IF t = "audio" /\ ~r.refused THEN Heard(list) ELSE @,
              ![th].at = at]
        /\ media' = r.m /\ UNCHANGED <<got, seek, lastAudio>>
    BY DEF Offer
  <2> HIDE DEF at, list, r
  <2> QED BY <1>1, <2>1 DEF Worker
<1> HIDE DEF at, list, l, r, pass
<1>6. /\ w.at = at /\ w.next = v.next /\ w.fresh = v.fresh /\ w.note = note
      /\ w.list = [v.list EXCEPT ![t] = r.list]
  BY <1>1 DEF Worker
<1>7. thread'[th] = w /\ w \in Worker /\ \A o \in Thread \ {th} : thread'[o] = thread[o]
  <2>1. thread'[th] = w /\ \A o \in Thread \ {th} : thread'[o] = thread[o]
    BY <1>1, <1>5
  <2> HIDE DEF w
  <2> QED BY <1>1, <2>1 DEF TypeOK
<1> HIDE DEF w
<1>8. w.list[t] = r.list /\ \A u \in Track \ {t} : w.list[u] = v.list[u]
  BY <1>1, <1>6
<1>9. /\ \A o \in Thread : Unforced(thread[o].list["audio"])
      /\ \A o \in Thread : thread[o].at = "remember" => Brings(o, "audio")
      /\ Unforced(Queue(media, "audio")) /\ Sought(media, g)
      /\ Settled => /\ Ordered(g, Queue(media, "audio"))
                    /\ \A o \in Thread : Works(o, thread[o], LineTimes, lastAudio, media)
  BY DEF AudioInv, Plain, NotedAudio, InLineAudio
<1>10. Settled' = Settled /\ v.at \notin {"done", "exited"} /\ v.at # "remember"
  BY <1>1, <1>3, <1>5 DEF Settled
<1>11. CASE t # "audio" \/ list = <<>>
  <2>1. AudioHeld(media, r.m)
    BY <1>1, <1>2, <1>11, PutSamplesAudio
  <2>2. w.list["audio"] = v.list["audio"]
    BY <1>2, <1>8, <1>11, GatedAudio DEF list
  <2>3. w.at \in Looping /\ w.at # "remember" /\ v.at \in Looping
    <3>1. BareTimes(<<>>) = <<>>
      <4> DEFINE none == <<>>
      <4>1. none \in Seq(Sample) /\ Len(none) = 0
        OBVIOUS
      <4> HIDE DEF none
      <4>2. Mute(none)
        BY <4>1 DEF Mute
      <4>3. BareTimes(none) = <<>>
        BY <4>1, <4>2, MuteTimes
      <4> QED BY <4>3 DEF none
    <3> QED BY <1>1, <1>3, <1>4, <1>6, <1>11, <3>1 DEF Looping
  <2>4. ASSUME NEW S, NEW m, Works(th, v, S, lastAudio, m)
        PROVE  Works(th, w, S, lastAudio, m)
    <3>1. /\ Noted(w, lastAudio) = lastAudio /\ Noted(v, lastAudio) = lastAudio
          /\ Given(w) = Given(v)
      BY <1>6, <1>10, <2>2, <2>3 DEF Noted, Given
    <3> HIDE DEF v
    <3> QED BY <1>6, <2>2, <2>3, <2>4, <3>1 DEF Works, ListFits, LineFits, SeekFits
  <2>5. \A o \in Thread : /\ Unforced(thread'[o].list["audio"])
                          /\ thread'[o].at = "remember" => Brings(o, "audio")
    BY <1>7, <1>9, <2>2, <2>3
  <2>6. Settled => \A o \in Thread : Works(o, thread'[o], LineTimes, lastAudio, media)
    <3> SUFFICES ASSUME Settled, NEW o \in Thread
                 PROVE  Works(o, thread'[o], LineTimes, lastAudio, media)
      OBVIOUS
    <3>1. Works(o, thread[o], LineTimes, lastAudio, media)
      BY <1>9
    <3> DEFINE S == LineTimes
    <3>2. CASE o = th
      <4>1. Works(th, v, S, lastAudio, media)
        BY <3>1, <3>2
      <4> HIDE DEF S
      <4>2. Works(th, w, S, lastAudio, media)
        BY <2>4, <4>1
      <4> QED BY <1>7, <3>2, <4>2 DEF S
    <3>3. CASE o # th
      BY <1>7, <3>1, <3>3
    <3> QED BY <3>2, <3>3
  <2>7. /\ Unforced(Queue(media', "audio")) /\ Sought(media', got'["audio"].last)
        /\ InLineAudio'
    <3> DEFINE m == r.m
    <3>1. AudioHeld(media, m) /\ media' = m
      BY <1>5, <2>1
    <3> HIDE DEF m
    <3> QED BY <1>1, <1>5, <1>10, <2>6, <3>1, LineStill
  <2> QED BY <1>5, <1>10, <2>5, <2>7, CallAudio
<1>12. CASE t = "audio" /\ list # <<>>
  <2>1. v.at = "audio" /\ v.list["audio"] = list /\ l = WithoutHeard(list)
        /\ r = PutSamplesResult(media, "audio", l)
    BY <1>1, <1>2, <1>12 DEF list
  <2>2. PICK n \in Media, c \in Seq(Sample) :
          /\ AudioHeld(media, n) /\ Shed(c, l) /\ Lower(c, l)
          /\ \A x \in FrameTimes(l) :
               (media.state = "Seeking" => media.actual < x) => x \in FrameTimes(c)
          /\ r.refused => r.list = c /\ c # <<>> /\ AudioHeld(n, r.m)
          /\ ~r.refused => \E o \in Media :
               /\ Queue(o, "audio") = Cat(Queue(n, "audio"), c)
               /\ o.wanted = n.wanted /\ o.actual = n.actual /\ o.state = n.state
               /\ AudioHeld(o, r.m)
    <3> DEFINE a == "audio"
               s == PutSamplesResult(media, a, l)
    <3>1. \E n \in Media, c \in Seq(Sample) :
            /\ AudioHeld(media, n) /\ Shed(c, l) /\ Lower(c, l)
            /\ \A x \in FrameTimes(l) :
                 (media.state = "Seeking" => media.actual < x) => x \in FrameTimes(c)
            /\ s.refused => s.list = c /\ c # <<>> /\ AudioHeld(n, s.m)
            /\ ~s.refused => \E o \in Media :
                 /\ Queue(o, "audio") = Cat(Queue(n, "audio"), c)
                 /\ o.wanted = n.wanted /\ o.actual = n.actual /\ o.state = n.state
                 /\ AudioHeld(o, s.m)
      <4>1. a \in Track /\ a = "audio" /\ media \in Media /\ l \in Seq(Sample)
        BY <1>1, <1>2, GatedAudio
      <4> HIDE DEF a
      <4> QED BY <4>1, PutSamplesAudio
    <3>2. r = s
      BY <2>1
    <3> HIDE DEF s
    <3> QED BY <3>1, <3>2
  <2>3. Unforced(c)
    <3>1. Unforced(list)
      BY <1>9, <2>1
    <3>2. Shed(l, list)
      BY <1>1, <1>12, <2>1, WithoutHeardShed
    <3> QED BY <2>2, <3>1, <3>2 DEF Shed
  <2>4. Brings(th, "audio") /\ \A o \in Thread \ {th} : ~Brings(o, "audio")
    <3>1. Brings(th, "audio")
      BY <1>1, <1>12, <2>1, GatedAudio DEF Listed
    <3> QED BY <3>1, OneBrings
  <2>5. \A o \in Thread : /\ Unforced(thread'[o].list["audio"])
                          /\ thread'[o].at = "remember" => Brings(o, "audio")
    <3>1. w.list["audio"] = <<>> \/ w.list["audio"] = c
      BY <1>2, <1>8, <1>12, <2>2
    <3>2. Unforced(<<>>)
      BY DEF Unforced
    <3> QED BY <1>7, <1>9, <2>3, <2>4, <3>1, <3>2
  <2>6. CASE r.refused
    <3> DEFINE m == r.m
    <3>1. AudioHeld(media, m) /\ media' = m
      BY <1>5, <2>2, <2>6, HeldTwice
    <3>2. w.at = "subtitle" /\ w.list["audio"] = c
      BY <1>4, <1>6, <1>8, <1>12, <2>2, <2>6
    <3>3. ASSUME Settled PROVE Works(th, w, LineTimes, lastAudio, media)
      <4> DEFINE S == LineTimes
      <4>1. S \in SUBSET Nat
        BY <1>9, <3>3, StreamTimesIn DEF Ordered, LineTimes
      <4>2. Works(th, v, S, lastAudio, media)
        BY <1>9, <3>3
      <4> HIDE DEF S, v, g
      <4>3. Works(th, w, S, lastAudio, media)
        BY <1>1, <1>6, <1>7, <1>9, <1>12, <2>1, <2>2, <2>6, <3>2, <4>1, <4>2, RefusedWorks
      <4> QED BY <4>3 DEF S
    <3>4. Settled => \A o \in Thread : Works(o, thread'[o], LineTimes, lastAudio, media)
      BY <1>7, <1>9, <3>3
    <3>5. /\ Unforced(Queue(media', "audio")) /\ Sought(media', got'["audio"].last)
          /\ InLineAudio'
      <4> HIDE DEF m
      <4> QED BY <1>1, <1>5, <1>10, <3>1, <3>4, LineStill
    <3> QED BY <1>5, <1>10, <2>5, <3>5, CallAudio
  <2>7. CASE ~r.refused
    <3>1. PICK o \in Media :
            /\ Queue(o, "audio") = Cat(Queue(n, "audio"), c)
            /\ o.wanted = n.wanted /\ o.actual = n.actual /\ o.state = n.state
            /\ AudioHeld(o, r.m)
      BY <2>2, <2>7
    <3>2. /\ AudioLess(media, n) /\ AudioLess(o, r.m)
          /\ \A P \in SUBSET Nat : Near(o, P) => Near(r.m, P)
      BY <2>2, <3>1 DEF AudioHeld
    <3>3. Sought(o, g) /\ Sought(media', got["audio"].last)
      BY <1>5, <1>9, <3>1, <3>2 DEF AudioLess, Sought
    <3>4. Unforced(Queue(media', "audio"))
      <4>1. Queue(n, "audio") \in Seq(Sample) /\ Unforced(Queue(n, "audio"))
        BY <1>9, <3>2, MediaParts, GatedAudio DEF AudioLess, Shed
      <4>2. Unforced(Queue(o, "audio"))
        BY <2>3, <3>1, <4>1, CatAudio
      <4> QED BY <1>5, <3>2, <4>2 DEF AudioLess, Shed
    <3>5. w.list["audio"] = <<>> /\ Noted(w, lastAudio) = Heard(list)
      <4>1. w.list["audio"] = <<>>
        BY <1>2, <1>8, <1>12, <2>7
      <4>2. /\ w.at = IF BareTimes(list) # <<>> THEN "remember" ELSE "subtitle"
            /\ w.note = Heard(list)
        BY <1>4, <1>6, <1>12, <2>7
      <4>3. Heard(list) \in Nat /\ (Heard(list) = lastAudio \/ Heard(list) > lastAudio)
        BY <1>1, BareTimesIn DEF Heard
      <4>4. BareTimes(list) = <<>> => Heard(list) = lastAudio
        BY DEF Heard
      <4> QED BY <4>1, <4>2, <4>3, <4>4 DEF Noted
    <3>6. ASSUME Settled
          PROVE  /\ Ordered(g, Queue(r.m, "audio"))
                 /\ Works(th, w, Heads(g, Queue(r.m, "audio")), lastAudio, r.m)
      <4>1. /\ Ordered(g, Queue(media, "audio"))
            /\ Works(th, v, Heads(g, Queue(media, "audio")), lastAudio, media)
        BY <1>9, <3>6 DEF LineTimes
      <4>2. /\ Ordered(g, Queue(o, "audio"))
            /\ Works(th, w, Heads(g, Queue(o, "audio")), lastAudio, o)
        <5> HIDE DEF v, g
        <5>1. /\ v \in Worker /\ v.at = "audio" /\ v.list["audio"] # <<>> /\ Listed(th, v)
              /\ LET l0 == WithoutHeard(v.list["audio"])
                 IN  /\ Shed(c, l0) /\ Lower(c, l0)
                     /\ \A x \in FrameTimes(l0) :
                          (media.state = "Seeking" => media.actual < x) => x \in FrameTimes(c)
          BY <1>1, <1>12, <2>1, <2>2
        <5>2. /\ w \in Worker /\ w.list["audio"] = <<>> /\ w.next = v.next /\ w.fresh = v.fresh
              /\ Noted(w, lastAudio) = Heard(v.list["audio"])
          BY <1>6, <1>7, <2>1, <3>5
        <5>3. media \in Media /\ lastAudio \in Nat /\ AudioHeld(media, n) /\ Sought(media, g)
          BY <1>1, <1>9, <2>2
        <5> QED BY <3>1, <4>1, <5>1, <5>2, <5>3, AcceptedWorks
      <4>3. /\ Ordered(g, Queue(r.m, "audio"))
            /\ LaterPart(Heads(g, Queue(r.m, "audio")), Heads(g, Queue(o, "audio")))
        <5> HIDE DEF g
        <5> QED BY <3>2, <3>3, <4>2, OrderedLess
      <4>4. Heads(g, Queue(o, "audio")) \in SUBSET Nat
        BY <4>2, StreamTimesIn DEF Ordered
      <4>5. r.m.state = "Seeking" => /\ o.state = "Seeking" /\ r.m.wanted = o.wanted
                                     /\ \A P \in SUBSET Nat : Near(o, P) => Near(r.m, P)
        BY <3>2 DEF AudioLess
      <4> DEFINE S == Heads(g, Queue(o, "audio"))
                 T == Heads(g, Queue(r.m, "audio"))
                 m == r.m
      <4>6. /\ Works(th, w, S, lastAudio, o) /\ LaterPart(T, S) /\ S \in SUBSET Nat
            /\ m.state = "Seeking" => /\ o.state = "Seeking" /\ m.wanted = o.wanted
                                      /\ \A P \in SUBSET Nat : Near(o, P) => Near(m, P)
        BY <4>2, <4>3, <4>4, <4>5
      <4> HIDE DEF S, T, m
      <4>7. Works(th, w, T, lastAudio, m)
        BY <1>7, <4>6, WorksStill
      <4> QED BY <4>3, <4>7 DEF T, m
    <3>7. InLineAudio'
      <4> SUFFICES ASSUME Settled
                   PROVE  /\ Ordered(g, Queue(r.m, "audio"))
                          /\ \A u \in Thread :
                               Works(u, thread'[u], Heads(g, Queue(r.m, "audio")), lastAudio, r.m)
        BY <1>5, <1>10 DEF InLineAudio, LineTimes
      <4>1. \A u \in Thread \ {th} : \A S, m, last, x : Works(u, x, S, last, m)
        BY <2>4 DEF Works
      <4> QED BY <1>7, <3>6, <4>1
    <3> QED BY <1>5, <1>10, <2>5, <3>3, <3>4, <3>7, CallAudio
  <2> QED BY <2>6, <2>7
<1> QED BY <1>11, <1>12

\* The marker of the end follows all audio, which a pending seek may cut then.
LEMMA PutEosAudio ==
  ASSUME AudioInv, FormatInv', NEW th \in Thread, PutEos(th)
  PROVE  AudioInv'
<1> DEFINE t == EosTrack[thread[th].at]
           s == EosMarker(th)
           r == PutSampleResult(media, t, s)
           g == got["audio"].last
<1>1. /\ TypeOK /\ TypeOK' /\ thread[th] \in Worker /\ thread \in [Thread -> Worker]
      /\ media \in Media
  BY DEF AudioInv, FormatInv, EosInv, TypeInv, TypeOK
<1>2. /\ thread[th].at \in DOMAIN EosTrack
      /\ thread[th].at \in {"eosVideo", "eosAudio", "eosSubtitle"}
      /\ ended' = Thread
  BY DEF PutEos, EosTrack, AudioInv, FormatInv, EosInv, MarkedByLast
<1>3. t \in Track /\ s \in Sample /\ s.flags = {"eos"}
  BY <1>1, <1>2, MarkerIn DEF EosTrack, Track
<1>4. UNCHANGED <<got, seek, lastAudio>> /\ media' \in {media, r.m}
  BY DEF PutEos
<1>5. \A o \in Thread : thread'[o].at \in Over
  BY <1>2 DEF FormatInv, EosInv, Retired
<1>6. \A o \in Thread : thread'[o].list = thread[o].list
  <2>1. \/ thread' = thread
        \/ thread' = [thread EXCEPT ![th].at = "done", ![th].note = 0]
        \/ thread' = [thread EXCEPT ![th].at = NextEos[@],
                                    ![th].note = IF thread[th].at = "eosSubtitle" THEN 0 ELSE @]
    BY DEF PutEos
  <2> HIDE DEF t, s, r
  <2>2. \/ thread' = thread
        \/ \E w : thread' = [thread EXCEPT ![th] = w] /\ w.list = thread[th].list
    <3> DEFINE over == [thread[th] EXCEPT !.at = "done", !.note = 0]
               next == [thread[th] EXCEPT !.at = NextEos[@],
                          !.note = IF thread[th].at = "eosSubtitle" THEN 0 ELSE @]
    <3>1. over.list = thread[th].list /\ next.list = thread[th].list
      BY <1>1 DEF Worker
    <3>2. \/ thread' = thread
          \/ thread' = [thread EXCEPT ![th] = over]
          \/ thread' = [thread EXCEPT ![th] = next]
      BY <1>1, <2>1 DEF Worker
    <3> HIDE DEF over, next
    <3> QED BY <3>1, <3>2
  <2> QED BY <1>1, <2>2
<1> HIDE DEF t, s
<1>7. AudioLess(media, media')
  <2>1. AudioLess(media, r.m)
    BY <1>1, <1>3, PutSampleAudio
  <2>2. AudioLess(media, media)
    BY HeldSame DEF AudioHeld
  <2> QED BY <1>4, <2>1, <2>2
<1> HIDE DEF r
<1>8. \A o \in Thread : /\ Unforced(thread'[o].list["audio"])
                        /\ thread'[o].at = "remember" => Brings(o, "audio")
  BY <1>5, <1>6 DEF AudioInv, Plain, Over
<1>9. Unforced(Queue(media', "audio"))
  BY <1>7 DEF AudioInv, Plain, AudioLess, Shed
<1>10. Sought(media, g) /\ Sought(media', g)
  BY <1>7 DEF AudioInv, AudioLess, Sought
<1>11. InLineAudio'
  <2> SUFFICES ASSUME Settled'
               PROVE  /\ Ordered(got'["audio"].last, Queue(media', "audio"))
                      /\ \A o \in Thread : Works(o, thread'[o], LineTimes', lastAudio', media')
    BY DEF InLineAudio
  <2>1. Ordered(g, Queue(media, "audio"))
    BY <1>4 DEF AudioInv, InLineAudio, Settled
  <2>2. Ordered(g, Queue(media', "audio"))
    <3> DEFINE n == media'
    <3>1. AudioLess(media, n)
      BY <1>7
    <3> HIDE DEF n, g
    <3>2. Ordered(g, Queue(n, "audio"))
      BY <1>10, <2>1, <3>1, OrderedLess
    <3> QED BY <3>2 DEF n
  <2>3. \A o \in Thread : thread'[o].at \notin Looping
    BY <1>5 DEF Over, Looping
  <2> QED BY <1>4, <2>2, <2>3 DEF Works
<1>12. thread[th].at \notin {"done", "exited"}
  BY <1>2
<1> QED BY <1>4, <1>8, <1>9, <1>10, <1>11, <1>12, CallAudio

\* The player takes what is first, and what follows comes after it.
LEMMA TakenAudio ==
  ASSUME NEW g \in Had, NEW q \in Seq(Sample), q # <<>>, Ordered(g.last, q), NEW h \in Had,
         h = Seen(g, q[1])
  PROVE  /\ Ordered(h.last, Tail(q))
         /\ LaterPart(Heads(h.last, Tail(q)), Heads(g.last, q))
<1> DEFINE s == q[1]
           e == g.last
           a == Tail(q)
           S == Heads(e, q)
           T == Heads(h.last, a)
<1>1. s \in Sample /\ s.time \in Nat /\ s # NoFrame
  BY DEF Sample, NoFrame, NoPoint
<1>2. h.last = IF Kind(s) = "frame" THEN s ELSE e
  BY <1>1, SeenVideo
<1>3. /\ Rising(q) /\ (e # NoFrame => \A x \in FrameTimes(q) : e.time < x)
      /\ Whole(S) /\ S \subseteq StreamTimes("audio") /\ S \subseteq Nat
  BY StreamTimesIn DEF Ordered
<1>4. /\ Rising(a)
      /\ FrameTimes(q) = FrameTimes(a) \cup (IF Kind(s) = "frame" THEN {s.time} ELSE {})
      /\ Kind(s) = "frame" => \A x \in FrameTimes(a) : s.time < x
  BY <1>3, TailAudio
<1> HIDE DEF s, e, a
<1>5. CASE Kind(s) = "frame"
  <2>1. h.last = s /\ h.last # NoFrame
    BY <1>1, <1>2, <1>5
  <2>2. T = FrameTimes(q)
    BY <1>4, <1>5, <2>1 DEF Heads
  <2>3. LaterPart(T, S)
    <3>1. T \subseteq S
      BY <2>2 DEF Heads
    <3>2. ASSUME NEW x \in T, NEW y \in S, x <= y PROVE y \in T
      <4>1. x \in Nat /\ y \in Nat
        BY <1>3, <3>1
      <4>2. e # NoFrame => e.time < x
        BY <1>3, <2>2
      <4>3. CASE e # NoFrame /\ y = e.time
        BY <3>2, <4>1, <4>2, <4>3
      <4>4. CASE ~(e # NoFrame /\ y = e.time)
        BY <2>2, <4>4 DEF Heads
      <4> QED BY <4>3, <4>4
    <3> QED BY <3>1, <3>2 DEF LaterPart
  <2>4. Whole(T)
    BY <1>3, <2>3, LaterParts
  <2>5. T \subseteq StreamTimes("audio")
    BY <1>3, <2>3 DEF LaterPart
  <2> QED BY <1>4, <1>5, <2>1, <2>3, <2>4, <2>5 DEF Ordered, e, a, s
<1>6. CASE Kind(s) # "frame"
  <2>1. h.last = e /\ FrameTimes(a) = FrameTimes(q)
    BY <1>2, <1>4, <1>6
  <2>2. T = S
    BY <2>1 DEF Heads
  <2>3. LaterPart(T, S)
    BY <2>2 DEF LaterPart
  <2> QED BY <1>3, <1>4, <2>1, <2>2, <2>3 DEF Ordered, e, a, s
<1> QED BY <1>5, <1>6

\* The player takes a sample, and the line goes on from there.
LEMMA GetAudio ==
  ASSUME AudioInv, FormatInv', NEW t \in Track, NEW want \in Wants, Get(t, want)
  PROVE  AudioInv'
<1> DEFINE r == GetSampleResult(media, t, want)
           h == FoldLeft(Seen, got[t], r.taken)
           g == got["audio"]
           q == Queue(media, "audio")
<1>1. /\ media \in Media /\ want \in Nat /\ DOMAIN got = Track /\ g \in Had
      /\ q \in Seq(Sample) /\ got'["audio"] \in Had /\ media' \in Media
      /\ \A th \in Thread : thread[th] \in Worker
  BY PlaybackBufferAssumption, GatedAudio, MediaParts
     DEF AudioInv, FormatInv, EosInv, TypeInv, TypeOK
<1>2. /\ media' = r.m /\ got' = [got EXCEPT ![t] = h] /\ UNCHANGED <<thread, lastAudio, seek>>
  BY DEF Get
<1>3. Unforced(q) /\ Sought(media, g.last)
  BY DEF AudioInv, Plain
<1>4. \/ r.m = media /\ r.taken = <<>>
      \/ /\ media.state = "Running" /\ r.m.state # "Seeking"
         /\ \/ Queue(r.m, "audio") = q /\ (t = "audio" => r.taken = <<>>)
            \/ /\ t = "audio" /\ q # <<>>
               /\ r.taken \in Seq(Sample) /\ Len(r.taken) = 1 /\ r.taken[1] = q[1]
               /\ Queue(r.m, "audio") = Tail(q)
  BY <1>1, <1>3, GetAudioIn
<1>5. (t = "audio" => r.taken = <<>>) => got'["audio"] = g
  <2>1. CASE t = "audio"
    <3>1. r.taken = <<>> => h = g
      BY <2>1, NoneTaken
    <3> HIDE DEF h, r
    <3> QED BY <1>1, <1>2, <2>1, <3>1, GatedAudio
  <2>2. CASE t # "audio"
    BY <1>1, <1>2, <2>2, GatedAudio
  <2> QED BY <2>1, <2>2
<1>6. t = "audio" /\ r.taken \in Seq(Sample) /\ Len(r.taken) = 1 /\ r.taken[1] = q[1]
        => got'["audio"] = Seen(g, q[1])
  <2> SUFFICES ASSUME t = "audio", r.taken \in Seq(Sample), Len(r.taken) = 1, r.taken[1] = q[1]
               PROVE  got'["audio"] = Seen(g, q[1])
    OBVIOUS
  <2>1. h = Seen(g, q[1])
    BY OneTaken
  <2> HIDE DEF h, r
  <2> QED BY <1>1, <1>2, <2>1, GatedAudio
<1>7. \/ media' = media /\ got'["audio"] = g
      \/ /\ media.state = "Running" /\ media'.state # "Seeking"
         /\ \/ Queue(media', "audio") = q /\ got'["audio"] = g
            \/ /\ q # <<>> /\ got'["audio"] = Seen(g, q[1])
               /\ Queue(media', "audio") = Tail(q)
  <2> HIDE DEF r, h
  <2> QED BY <1>2, <1>4, <1>5, <1>6
<1> HIDE DEF r, h
<1>8. Cleared'
  <2> SUFFICES ASSUME seek.pc \in {"seeking", "marking", "resuming"}
               PROVE  /\ Queue(media', "audio") = <<>> /\ got'["audio"].last = NoFrame
                      /\ lastAudio' = 0
                      /\ seek.pc = "resuming" =>
                           /\ media'.state = "Seeking" /\ media'.wanted = seek.point
                           /\ media'.actual = seek.point
    BY <1>2 DEF Cleared
  <2>1. /\ q = <<>> /\ g.last = NoFrame /\ lastAudio = 0
        /\ seek.pc = "resuming" => /\ media.state = "Seeking" /\ media.wanted = seek.point
                                   /\ media.actual = seek.point
    BY DEF AudioInv, Cleared
  <2> QED BY <1>2, <1>7, <2>1
<1>9. Plain' /\ NotedAudio'
  <2>1. Unforced(Queue(media', "audio"))
    <3>1. CASE Queue(media', "audio") = q
      BY <1>3, <3>1
    <3>2. CASE q # <<>> /\ Queue(media', "audio") = Tail(q)
      <4> HIDE DEF q
      <4>1. \A i \in 1..Len(Tail(q)) : Tail(q)[i] = q[i + 1] /\ i + 1 \in 1..Len(q)
        BY <1>1, <3>2
      <4> QED BY <1>3, <3>2, <4>1 DEF Unforced
    <3> QED BY <1>7, <3>1, <3>2
  <2> QED BY <1>2, <2>1 DEF AudioInv, Plain, NotedAudio
<1>10. Sought(media', got'["audio"].last)
  BY <1>3, <1>7 DEF Sought
<1>11. InLineAudio'
  <2> SUFFICES ASSUME Settled
               PROVE  /\ Ordered(got'["audio"].last, Queue(media', "audio"))
                      /\ \A th \in Thread : Works(th, thread[th], LineTimes', lastAudio, media')
    BY <1>2 DEF InLineAudio, Settled
  <2>1. Ordered(g.last, q) /\ \A th \in Thread : Works(th, thread[th], LineTimes, lastAudio, media)
    BY DEF AudioInv, InLineAudio
  <2> DEFINE S == LineTimes
             T == LineTimes'
             m == media'
  <2>2. S = Heads(g.last, q) /\ S \in SUBSET Nat
    BY <2>1, StreamTimesIn DEF LineTimes, Ordered
  <2>3. Ordered(got'["audio"].last, Queue(media', "audio")) /\ LaterPart(T, S)
    <3>1. CASE Queue(media', "audio") = q /\ got'["audio"] = g
      <4>1. T = S
        BY <2>2, <3>1 DEF LineTimes
      <4> QED BY <2>1, <3>1, <4>1 DEF LaterPart
    <3>2. CASE /\ q # <<>> /\ got'["audio"] = Seen(g, q[1])
               /\ Queue(media', "audio") = Tail(q)
      <4> DEFINE f == got'["audio"]
      <4>1. f \in Had /\ f = Seen(g, q[1])
        BY <1>1, <3>2
      <4> HIDE DEF f, g, q
      <4>2. Ordered(f.last, Tail(q)) /\ LaterPart(Heads(f.last, Tail(q)), Heads(g.last, q))
        BY <1>1, <2>1, <3>2, <4>1, TakenAudio
      <4>3. T = Heads(f.last, Tail(q))
        BY <3>2 DEF LineTimes, f
      <4> QED BY <2>2, <3>2, <4>2, <4>3 DEF f
    <3> QED BY <1>7, <3>1, <3>2
  <2>4. m.state = "Seeking" => m = media
    BY <1>7
  <2> HIDE DEF S, T, m
  <2>5. ASSUME NEW th \in Thread PROVE Works(th, thread[th], T, lastAudio, m)
    <3>1. Works(th, thread[th], S, lastAudio, media)
      BY <2>1 DEF S
    <3> QED BY <1>1, <2>2, <2>3, <2>4, <3>1, WorksStill
  <2> QED BY <2>3, <2>5 DEF T, m
<1> QED BY <1>8, <1>9, <1>10, <1>11 DEF AudioInv

\* Steps that leave the audio, and all that decides about it, as they are
LEMMA SameAudio ==
  ASSUME AudioInv, FormatInv', UNCHANGED <<thread, lastAudio>>, got'["audio"] = got["audio"],
         Queue(media', "audio") = Queue(media, "audio"), media'.wanted = media.wanted,
         media'.actual = media.actual, media'.state = media.state, Settled' => Settled, Cleared'
  PROVE  AudioInv'
<1> DEFINE m == media'
           g == got["audio"].last
<1>1. LineTimes' = LineTimes
  BY DEF LineTimes
<1>2. Plain' /\ NotedAudio' /\ Sought(media', got'["audio"].last)
  BY DEF AudioInv, Plain, NotedAudio, Sought
<1>3. InLineAudio'
  <2> SUFFICES ASSUME Settled
               PROVE  /\ Ordered(g, Queue(media, "audio"))
                      /\ \A th \in Thread : Works(th, thread[th], LineTimes, lastAudio, m)
    BY <1>1 DEF InLineAudio
  <2>1. /\ Ordered(g, Queue(media, "audio"))
        /\ \A th \in Thread : Works(th, thread[th], LineTimes, lastAudio, media)
    BY DEF AudioInv, InLineAudio
  <2>2. \A P : Near(media, P) => Near(m, P)
    BY DEF Near
  <2>3. m.wanted = media.wanted /\ m.state = media.state
    OBVIOUS
  <2> HIDE DEF m
  <2>4. ASSUME NEW th \in Thread PROVE Works(th, thread[th], LineTimes, lastAudio, m)
    <3>1. Works(th, thread[th], LineTimes, lastAudio, media)
      BY <2>1
    <3> QED BY <2>2, <2>3, <3>1 DEF Works, SeekFits
  <2> QED BY <2>1, <2>4
<1> QED BY <1>2, <1>3 DEF AudioInv

\* Nothing lies ready and the player has had nothing.
LEMMA BareAudio ==
  /\ Ordered(NoFrame, <<>>) /\ Heads(NoFrame, <<>>) = {} /\ Unforced(<<>>)
  /\ \A S : Upto(<<>>, S)
<1>1. Len(<<>>) = 0 /\ <<>> \in Seq(Sample)
  OBVIOUS
<1>2. \A i : i \notin 1..Len(<<>>)
  BY <1>1
<1>3. FrameTimes(<<>>) = {}
  <2> DEFINE none == <<>>
  <2>1. none \in Seq(Sample) /\ \A i : i \notin 1..Len(none)
    BY <1>1, <1>2
  <2> HIDE DEF none
  <2>2. Frameless(none)
    BY <2>1 DEF Frameless
  <2>3. FrameTimes(none) = {}
    BY <2>1, <2>2, FrameTimesIn
  <2> QED BY <2>3 DEF none
<1>4. Heads(NoFrame, <<>>) = {}
  BY <1>3 DEF Heads
<1>5. Rising(<<>>)
  BY <1>2, Zenon DEF Rising
<1>6. Unforced(<<>>) /\ \A S : Upto(<<>>, S)
  BY <1>2, Zenon DEF Unforced, Upto
<1> QED BY <1>4, <1>5, <1>6 DEF Ordered, Whole

LEMMA EmptyAudio ==
  ASSUME AudioInv, FormatInv', media' = Flushed(media), got' = Nothing, thread' = thread,
         lastAudio' = 0, seek'.pc # "resuming",
         ~Settled' \/ \A th \in Thread : thread[th].at \in {"done", "exited"}
  PROVE  AudioInv'
<1>1. Queue(media', "audio") = <<>> /\ media'.state = "Starting"
  BY FlushedIn, GatedAudio DEF AudioInv, FormatInv, EosInv, TypeInv, TypeOK
<1>2. got'["audio"].last = NoFrame
  BY GatedAudio DEF Nothing
<1>3. Cleared' /\ Sought(media', got'["audio"].last)
  BY <1>1, <1>2 DEF Cleared, Sought
<1>4. Plain' /\ NotedAudio'
  BY <1>1, BareAudio DEF AudioInv, Plain, NotedAudio
<1>5. InLineAudio'
  BY <1>1, <1>2, BareAudio DEF InLineAudio, Works, Looping
<1> QED BY <1>3, <1>4, <1>5 DEF AudioInv

\* A seek empties the line, and the threads begin it anew at the point.
LEMMA SeekAudio ==
  ASSUME AudioInv, FormatInv', SeekStep
  PROVE  AudioInv'
<1>1. /\ TypeOK /\ Targeted /\ Quiet /\ Cleared /\ seek \in Seeker /\ media \in Media
      /\ DOMAIN seek = {"pc", "point", "pending", "busy", "asked"}
  BY DEF AudioInv, FormatInv, EosInv, TypeInv, TypeOK, Seeker
<1>2. CASE CloseCache \/ ParserFails \/ FinishSeek
  <2>1. UNCHANGED <<media, lastAudio, got, thread>> /\ seek.pc # "joining"
    BY <1>2 DEF CloseCache, ParserFails, FinishSeek, bufferVars
  <2>2. seek'.pc \in {"closing", "finishing", "idle"}
    BY <1>1, <1>2 DEF CloseCache, ParserFails, FinishSeek
  <2>3. Cleared'
    BY <2>2 DEF Cleared
  <2> QED BY <2>1, <2>3, SameAudio DEF Settled
<1>3. CASE FlushFirst
  <2>1. /\ media' = Flushed(media) /\ got' = Nothing /\ thread' = thread /\ lastAudio' = 0
        /\ seek'.pc = "joining"
    BY <1>1, <1>3 DEF FlushFirst, EmptyBuffer
  <2> QED BY <2>1, EmptyAudio DEF Settled
<1>4. CASE JoinAndFlush
  <2>1. /\ media' = Flushed(media) /\ got' = Nothing /\ thread' = thread /\ lastAudio' = 0
        /\ seek'.pc = "seeking" /\ \A th \in Thread : thread[th].at \in {"done", "exited"}
    BY <1>1, <1>4 DEF JoinAndFlush, EmptyBuffer
  <2> QED BY <2>1, EmptyAudio
<1>5. CASE SetPosFlush
  <2>1. /\ media' = Flushed(media) /\ got' = Nothing /\ thread' = thread /\ seek.pc = "seeking"
        /\ seek'.pc = "marking" /\ lastAudio' = lastAudio
    BY <1>1, <1>5 DEF SetPosFlush
  <2>2. lastAudio' = 0 /\ \A th \in Thread : thread[th].at \in {"done", "exited"}
    BY <1>1, <2>1 DEF Cleared, Quiet
  <2> QED BY <2>1, <2>2, EmptyAudio
<1>6. CASE SetPosMark
  <2>1. /\ media' = SeekMarked(media, seek.point) /\ UNCHANGED <<got, thread, lastAudio>>
        /\ seek.pc = "marking" /\ seek'.pc = "resuming" /\ seek'.point = seek.point
    BY <1>1, <1>6 DEF SetPosMark
  <2>2. seek.point \in Nat /\ seek.point \in SeekPoints
    BY <1>1, <2>1, PlaybackBufferAssumption DEF Targeted
  <2>3. /\ media'.track = media.track /\ media'.state = "Seeking"
        /\ media'.wanted = seek.point /\ media'.actual = seek.point
    BY <1>1, <2>1, <2>2, SeekMarkedIn DEF SeekMarked, Media
  <2>4. /\ Queue(media, "audio") = <<>> /\ got["audio"].last = NoFrame /\ lastAudio = 0
        /\ \A th \in Thread : thread[th].at \in {"done", "exited"}
    BY <1>1, <2>1 DEF Cleared, Quiet
  <2>5. Queue(media', "audio") = <<>>
    BY <2>3, <2>4 DEF Queue
  <2>6. Cleared' /\ Sought(media', got'["audio"].last)
    BY <2>1, <2>2, <2>3, <2>4, <2>5 DEF Cleared, Sought
  <2>7. Plain' /\ NotedAudio'
    BY <2>1, <2>5, BareAudio DEF AudioInv, Plain, NotedAudio
  <2>8. InLineAudio'
    BY <2>1, <2>4, <2>5, BareAudio DEF InLineAudio, Works, Looping
  <2> QED BY <2>6, <2>7, <2>8 DEF AudioInv
<1>7. CASE ResumeThreads
  <2>1. /\ thread' = [th \in Thread |-> Started(ChunkAt(Stream[th], seek.point))]
        /\ UNCHANGED <<media, got, lastAudio>> /\ seek.pc = "resuming" /\ seek'.pc = "finishing"
    BY <1>1, <1>7 DEF ResumeThreads, bufferVars
  <2>2. /\ Queue(media, "audio") = <<>> /\ got["audio"].last = NoFrame /\ lastAudio = 0
        /\ media.state = "Seeking" /\ media.wanted = seek.point /\ media.actual = seek.point
    BY <1>1, <2>1 DEF Cleared
  <2>3. \A n : /\ Started(n).list["audio"] = <<>> /\ Started(n).at = "idle"
               /\ Started(n).next = n
    BY GatedAudio DEF Started, NoChunk
  <2>4. Cleared' /\ Sought(media', got'["audio"].last)
    BY <2>1 DEF Cleared, Sought, AudioInv
  <2>5. Plain' /\ NotedAudio'
    BY <2>1, <2>3, BareAudio DEF AudioInv, Plain, NotedAudio
  <2>6. LineTimes' = {} /\ Ordered(got'["audio"].last, Queue(media', "audio"))
    BY <2>1, <2>2, BareAudio DEF LineTimes
  <2>7. ASSUME NEW th \in Thread PROVE Works(th, thread'[th], {}, 0, media)
    <3> DEFINE n == ChunkAt(Stream[th], media.wanted)
               w == Started(n)
    <3>1. thread'[th] = w
      BY <2>1, <2>2
    <3>2. n \in Nat
      BY ChunkAtIn
    <3> HIDE DEF n
    <3>3. Noted(w, 0) = 0 /\ Given(w) = n - 1 /\ w.list["audio"] = <<>>
      BY <2>3 DEF Noted, Given
    <3> HIDE DEF w
    <3>4. ListFits(th, w, 0) /\ LineFits(th, w, {}, 0)
      BY <3>3 DEF ListFits, LineFits
    <3>5. Near(media, SampledUpTo(th, Given(w)))
      <4>1. media.actual <= media.wanted
        BY <1>1, <2>2, PlaybackBufferAssumption, <2>1 DEF Targeted
      <4> QED BY <2>2, <4>1, BareAudio DEF Near
    <3>6. SeekFits(th, w, {}, media)
      BY <3>2, <3>3, <3>5 DEF SeekFits, n
    <3> QED BY <3>1, <3>4, <3>6 DEF Works
  <2>8. InLineAudio'
    BY <2>1, <2>2, <2>6, <2>7 DEF InLineAudio
  <2> QED BY <2>4, <2>5, <2>8 DEF AudioInv
<1> QED BY <1>2, <1>3, <1>4, <1>5, <1>6, <1>7 DEF SeekStep

LEMMA InitAudio == Init => AudioInv
<1> SUFFICES ASSUME Init PROVE AudioInv
  OBVIOUS
<1>1. FormatInv
  BY InitFormat
<1>2. /\ Queue(media, "audio") = <<>> /\ got["audio"].last = NoFrame /\ lastAudio = 0
      /\ media.state = "Starting" /\ seek.pc = "idle"
  BY GatedAudio DEF Init, MediaInit, Queue, EmptyTrack, Nothing
<1>3. \A th \in Thread : /\ thread[th] = Started(1) /\ thread[th].list["audio"] = <<>>
                         /\ thread[th].at = "idle"
  BY GatedAudio DEF Init, Started, NoChunk
<1>4. Cleared /\ Sought(media, got["audio"].last) /\ Plain /\ NotedAudio
  BY <1>2, <1>3, BareAudio DEF Cleared, Sought, Plain, NotedAudio
<1>5. LineTimes = {} /\ Ordered(got["audio"].last, Queue(media, "audio"))
  BY <1>2, BareAudio DEF LineTimes
<1>6. ASSUME NEW th \in Thread PROVE Works(th, thread[th], {}, 0, media)
  <2> DEFINE w == thread[th]
  <2>1. w.list["audio"] = <<>> /\ Noted(w, 0) = 0
    BY <1>3 DEF Noted
  <2> HIDE DEF w
  <2> QED BY <1>2, <2>1 DEF Works, ListFits, LineFits, SeekFits, w
<1>7. InLineAudio
  BY <1>2, <1>5, <1>6 DEF InLineAudio
<1> QED BY <1>1, <1>4, <1>7 DEF AudioInv

\* Every step leaves the audio in line.
LEMMA NextAudio == AudioInv /\ [Next]_vars => AudioInv'
<1> SUFFICES ASSUME AudioInv, [Next]_vars PROVE AudioInv'
  OBVIOUS
<1>1. FormatInv' /\ media \in Media /\ seek \in Seeker /\ Cleared
  BY NextFormat DEF AudioInv, FormatInv, EosInv, TypeInv, TypeOK
<1>2. CASE \E th \in Thread : ThreadStep(th)
  BY <1>1, <1>2, AloneAudio, PutEosAudio, OfferAudio DEF ThreadStep
<1>3. CASE \E t \in Track : Poll(t)
  BY <1>1, <1>3, GetAudio DEF Poll
<1>4. CASE SeekStep
  BY <1>1, <1>4, SeekAudio
<1>5. CASE (\E p \in SeekPoints : AskSeek(p)) \/ Configure \/ UNCHANGED vars
  <2>1. UNCHANGED <<got, thread, lastAudio>> /\ seek'.pc = seek.pc /\ seek'.point = seek.point
    BY <1>1, <1>5 DEF AskSeek, Configure, vars, bufferVars, Seeker, SetMaxDuration,
                      SetBufferingDuration, SetQuickStartDuration, SetBufferingStyle
  <2>2. /\ media'.track = media.track /\ media'.wanted = media.wanted
        /\ media'.actual = media.actual /\ media'.state = media.state
    BY <1>1, <1>5 DEF AskSeek, Configure, vars, bufferVars, SetMaxDuration, SetBufferingDuration,
                      SetQuickStartDuration, SetBufferingStyle, Media
  <2>3. Queue(media', "audio") = Queue(media, "audio")
    BY <2>2 DEF Queue
  <2>4. Cleared'
    BY <1>1, <2>1, <2>2, <2>3 DEF Cleared
  <2> QED BY <1>1, <2>1, <2>2, <2>3, <2>4, SameAudio DEF Settled
<1> QED BY <1>2, <1>3, <1>4, <1>5 DEF Next

\* The player has the audio of the stream frame after frame, without a gap and without
\* one twice, whatever AddBuffers takes for heard already and wherever a refusal, a
\* pending seek or the next chunk cut the lists and the queue.
THEOREM AudioIsGapless == Spec => []AudioGapless
<1>1. Spec => []AudioInv
  BY InitAudio, NextAudio, PTL DEF Spec
<1>2. ASSUME AudioInv PROVE AudioGapless
  <2> DEFINE q == Queue(media, "audio")
             g == got["audio"].last
             line == Line("audio")
             frames == {i \in DOMAIN line : Kind(line[i]) = "frame"}
  <2> SUFFICES ASSUME Settled, NEW i \in frames, NEW j \in frames, i < j,
                      \A k \in frames : k <= i \/ j <= k
               PROVE  Follows("audio", line[i].time, line[j].time)
    BY DEF AudioGapless
  <2>1. Ordered(g, q) /\ q \in Seq(Sample) /\ got["audio"] \in Had /\ g \in Sample \cup {NoFrame}
    <3>1. media \in Media /\ got["audio"] \in Had
      BY <1>2, GatedAudio DEF AudioInv, FormatInv, EosInv, TypeInv, TypeOK
    <3>2. Ordered(g, q)
      BY <1>2 DEF AudioInv, InLineAudio
    <3> QED BY <3>1, <3>2, MediaParts, GatedAudio DEF Had
  <2>2. line = (IF g = NoFrame THEN <<>> ELSE <<g>>) \o q
    BY DEF Line
  <2> HIDE DEF q, g, line
  <2> DEFINE d == IF g = NoFrame THEN 0 ELSE 1
  <2>3. /\ DOMAIN line = 1..(d + Len(q)) /\ Len(q) \in Nat
        /\ \A k \in 1..Len(q) : line[d + k] = q[k]
        /\ d = 1 => line[1] = g
    BY <2>1, <2>2
  <2>4. \A k \in DOMAIN line : (k = 1 /\ d = 1) \/ (k - d \in 1..Len(q) /\ line[k] = q[k - d])
    <3> SUFFICES ASSUME NEW k \in DOMAIN line
                 PROVE  (k = 1 /\ d = 1) \/ (k - d \in 1..Len(q) /\ line[k] = q[k - d])
      OBVIOUS
    <3>1. k \in Nat /\ (k - d \in 1..Len(q) \/ (k = 1 /\ d = 1))
      BY <2>3
    <3>2. k - d \in 1..Len(q) => line[d + (k - d)] = q[k - d] /\ d + (k - d) = k
      BY <2>3, <3>1
    <3> QED BY <3>1, <3>2
  <2>5. \A k \in frames : line[k].time \in Heads(g, q)
    <3> SUFFICES ASSUME NEW k \in frames PROVE line[k].time \in Heads(g, q)
      OBVIOUS
    <3>1. CASE k = 1 /\ d = 1
      BY <2>3, <3>1 DEF Heads
    <3>2. CASE k - d \in 1..Len(q) /\ line[k] = q[k - d]
      BY <2>1, <3>2, FrameTimesIn DEF Heads
    <3> QED BY <2>4, <3>1, <3>2
  <2>6. \A x \in Heads(g, q) : (g # NoFrame /\ x = g.time)
                               \/ \E k \in frames : line[k].time = x /\ d + 1 <= k
    <3> SUFFICES ASSUME NEW x \in FrameTimes(q)
                 PROVE  \E k \in frames : line[k].time = x /\ d + 1 <= k
      BY DEF Heads
    <3>1. PICK k \in 1..Len(q) : Kind(q[k]) = "frame" /\ q[k].time = x
      BY <2>1, FrameTimesIn
    <3>2. d + k \in frames /\ line[d + k].time = x /\ d + 1 <= d + k
      BY <2>3, <3>1
    <3> QED BY <3>2
  <2>7. \A k, l \in frames : k < l => line[k].time < line[l].time
    <3> SUFFICES ASSUME NEW k \in frames, NEW l \in frames, k < l
                 PROVE  line[k].time < line[l].time
      OBVIOUS
    <3>1. l - d \in 1..Len(q) /\ line[l] = q[l - d]
      BY <2>3, <2>4
    <3>2. line[l].time \in FrameTimes(q)
      BY <2>1, <3>1, FrameTimesIn
    <3>3. CASE k = 1 /\ d = 1
      BY <2>1, <2>3, <3>2, <3>3 DEF Ordered
    <3>4. CASE k - d \in 1..Len(q) /\ line[k] = q[k - d]
      <4>1. k - d < l - d
        BY <2>3
      <4> QED BY <2>1, <3>1, <3>4, <4>1 DEF Ordered, Rising
    <3> QED BY <2>4, <3>3, <3>4
  <2> DEFINE a == line[i].time
             b == line[j].time
  <2>8. a < b /\ a \in Heads(g, q) /\ b \in Heads(g, q)
    BY <2>5, <2>7
  <2>9. ASSUME NEW x \in StreamTimes("audio"), a < x, x < b PROVE FALSE
    <3>1. x \in Nat /\ a \in Nat /\ b \in Nat
      BY <2>1, <2>8, StreamTimesIn DEF Ordered
    <3>2. x \in Heads(g, q)
      BY <2>1, <2>8, <2>9, <3>1 DEF Ordered, Whole
    <3>3. PICK k \in frames : line[k].time = x
      <4>1. CASE g # NoFrame /\ x = g.time
        <5>1. d = 1 /\ line[1] = g
          BY <2>3, <4>1
        <5>2. CASE i = 1
          BY <2>9, <3>1, <4>1, <5>1, <5>2
        <5>3. CASE i # 1
          <6>1. i - d \in 1..Len(q) /\ line[i] = q[i - d]
            BY <2>4, <5>3
          <6>2. a \in FrameTimes(q)
            BY <2>1, <6>1, FrameTimesIn
          <6>3. g.time < a
            BY <2>1, <4>1, <6>2 DEF Ordered
          <6> QED BY <2>9, <3>1, <4>1, <6>3
        <5> QED BY <5>2, <5>3
      <4> QED BY <2>6, <3>2, <4>1
    <3>4. k <= i \/ j <= k
      OBVIOUS
    <3>5. k \in Nat /\ i \in Nat /\ j \in Nat
      BY <2>3
    <3>6. CASE k <= i
      <4>1. k < i => x < a
        BY <2>7, <3>3
      <4> QED BY <2>9, <3>1, <3>3, <3>5, <3>6, <4>1
    <3>7. CASE j <= k
      <4>1. j < k => b < x
        BY <2>7, <3>3
      <4> QED BY <2>9, <3>1, <3>3, <3>5, <3>7, <4>1
    <3> QED BY <3>4, <3>6, <3>7
  <2> QED BY <2>8, <2>9 DEF Follows
<1> QED BY <1>1, <1>2, PTL
=============================================================================
