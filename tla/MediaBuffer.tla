----------------------------- MODULE MediaBuffer -----------------------------
(***************************************************************************)
(* The final sample buffer of the adaptive-streaming source                *)
(* (Source/Common/Buffer_OptimizeBA): voSourceBufferManager_AI in front of *)
(* MediaBuffer, which gates three track buffers with the state machine     *)
(* Starting / Seeking / Running / Buffering.                               *)
(*                                                                         *)
(* Every MediaBuffer method but SetPos runs under m_lock, so each one is a *)
(* function from the object `media' to its next value; the modules that    *)
(* EXTEND this one make a step of each call.  Of the video track's         *)
(* m_uCurDuration nothing is kept: its Duration() is overridden.           *)
(***************************************************************************)
EXTENDS SampleList

CONSTANTS
  MaxDuration, BufferingDuration, QuickStartDuration,  \* constructor arguments
  FrameInterval,       \* VideoTrackBuffer::m_uFrameInterval (35)
  SampleMaxDuration,   \* SAMPLEMAXDURATION (2000)
  Late,                \* how far video may lag before frames are dropped (500)
  InternalSubtitle     \* whether the subtitle samples are __INTERNALSUBTITLE

ASSUME MediaBufferAssumption ==
  /\ {MaxDuration, BufferingDuration, QuickStartDuration, FrameInterval,
      SampleMaxDuration, Late} \subseteq Nat
  /\ MaxDuration >= BufferingDuration /\ BufferingDuration >= QuickStartDuration
  /\ InternalSubtitle \in BOOLEAN

VARIABLES
  media,      \* the MediaBuffer object
  lastAudio   \* voSourceBufferManager_AI::m_ullTimeLastAudio

Track == {"audio", "video", "subtitle"}
BufferState == {"Starting", "Seeking", "Running", "Buffering"}
Style == {"A", "V", "AV"}

\* What the objects hold: TrackBuffer's m_listSamples, m_uCurDuration (none for
\* an empty list) and m_bWillUsable, and MediaBuffer's members.
TrackBuffer ==
  {b \in [q : Seq(Sample), dur : Nat, use : BOOLEAN] : b.q = <<>> => b.dur = 0}
Media ==
  [state : BufferState, track : [Track -> TrackBuffer], wanted : Nat, actual : Nat,
   sought : BOOLEAN, limit : [max : Nat, buffering : Nat, quick : Nat], style : Style]

EmptyTrack == [q |-> <<>>, dur |-> 0, use |-> TRUE]

MediaInit ==
  /\ media = [state  |-> "Starting",
              track  |-> [t \in Track |-> EmptyTrack],
              wanted |-> 0, actual |-> 0, sought |-> FALSE,
              limit  |-> [max |-> MaxDuration, buffering |-> BufferingDuration,
                          quick |-> QuickStartDuration],
              style  |-> "AV"]
  /\ lastAudio = 0

-----------------------------------------------------------------------------
(* Track buffers *)

Queue(m, t) == m.track[t].q
WillAvailable(m, t) == m.track[t].use

Duration(m, t) ==
  IF t = "video" THEN Len(Queue(m, t)) * FrameInterval ELSE m.track[t].dur

\* The subtitle track is built with 0x7fffffff: it is never full.
Full(m, t, extra) == t # "subtitle" /\ Duration(m, t) + extra > m.limit.max

\* TrackBuffer::PutSamples admits the list: forced, or longer than the whole
\* buffer while that is less than half full, or it fits.
Admits(m, t, list, force) ==
  \/ force
  \/ Extent(list) >= m.limit.max /\ Duration(m, t) < m.limit.max \div 2
  \/ ~Full(m, t, Extent(list))

Spliced(m, t, list) ==
  [m EXCEPT !.track[t] =
     [q   |-> @.q \o list,
      dur |-> IF t = "video" THEN 0 ELSE @.dur + Extent(list),
      use |-> list[Len(list)].flags \cap {"unavail", "eos"} = {}]]

\* Mutant: the end-of-stream marker does not tell that no more is to come.
AppendOneStillToCome(m, t, s) ==
  LET q   == Queue(m, t)
      gap == IF q = <<>> THEN 0 ELSE Apart(s.time, q[Len(q)].time)
  IN  [m EXCEPT !.track[t].q = Append(q, s),
                !.track[t].dur = IF t # "video" /\ gap < SampleMaxDuration
                                 THEN @ + gap ELSE @]

\* TrackBuffer::PutSample's part of PutSample, once there is room.
AppendOne(m, t, s) ==
  LET q   == Queue(m, t)
      gap == IF q = <<>> THEN 0 ELSE Apart(s.time, q[Len(q)].time)
  IN  [m EXCEPT !.track[t] =
         [q   |-> Append(q, s),
          dur |-> IF t # "video" /\ gap < SampleMaxDuration THEN @.dur + gap
                                                            ELSE @.dur,
          use |-> CASE Has(s, "format") -> TRUE
                    [] ~Has(s, "format") /\ s.flags \cap {"unavail", "eos"} # {}
                         -> FALSE
                    [] OTHER -> @.use]]

\* Mutant: a gap is taken off a duration smaller than it.
PopBelowZero(m, t) ==
  LET q   == Queue(m, t)
      gap == IF Len(q) = 1 THEN 0 ELSE Apart(q[1].time, q[2].time)
  IN  [m EXCEPT !.track[t].q = Tail(q), !.track[t].dur = @ - gap]

\* TrackBuffer::GetSample.
Pop(m, t) ==
  LET q   == Queue(m, t)
      gap == IF Len(q) = 1 THEN 0 ELSE Apart(q[1].time, q[2].time)
      old == m.track[t].dur
  IN  [m EXCEPT !.track[t] =
         [@ EXCEPT !.q = Tail(q),
                   !.dur = IF Len(q) = 1 THEN 0
                           ELSE IF gap < SampleMaxDuration /\ gap < old THEN old - gap
                           ELSE old]]

\* The first of the positions in S whose sample is latest.
LatestOf(q, S) ==
  Min({i \in S : \A j \in S : q[j].time <= q[i].time})

\* TrackBuffer::SetPos on the audio track: it answers NEEDRETRY unless a sample
\* lies beyond the point, and it moves the point when all samples do.
AudioReached(m) ==
  \E i \in DOMAIN Queue(m, "audio") : m.actual < Queue(m, "audio")[i].time

AudioSetPos(m) ==
  LET q      == Queue(m, "audio")
      before == {i \in DOMAIN q : q[i].time <= m.actual}
      Now(rest) == [m EXCEPT !.track["audio"].q = rest,
                             !.track["audio"].dur = SpanOf(rest, SampleMaxDuration)]
  IN  CASE q = <<>> -> m
        [] q # <<>> /\ before = {} -> [m EXCEPT !.actual = q[1].time]
        [] OTHER -> Now(SetPosition(q, LatestOf(q, before)))

\* VideoTrackBuffer::SetPos: to the latest key frame not after the point, else
\* to the first key frame, else nothing is dropped.
VideoSetPos(m) ==
  LET q      == Queue(m, "video")
      keys   == {i \in DOMAIN q : Has(q[i], "key")}
      before == {i \in keys : q[i].time <= m.actual}
      p      == IF before # {} THEN LatestOf(q, before) ELSE Min(keys)
  IN  IF keys = {} THEN m
      ELSE [m EXCEPT !.track["video"].q = SetPosition(q, p)]

\* Mutant: the audio duration survives the flush.
FlushedButDuration(m) ==
  [m EXCEPT !.state = "Starting", !.wanted = 0, !.actual = 0, !.sought = FALSE,
            !.track = [t \in Track |-> [EmptyTrack EXCEPT !.dur = m.track[t].dur]]]

\* TrackBuffer::Flush on the three tracks, in MediaBuffer::Flush.
Flushed(m) ==
  [m EXCEPT !.state = "Starting", !.wanted = 0, !.actual = 0, !.sought = FALSE,
            !.track = [t \in Track |-> EmptyTrack]]

\* The unlocked second half of MediaBuffer::SetPos.
SeekMarked(m, point) ==
  [m EXCEPT !.state = "Seeking", !.wanted = point, !.actual = point,
            !.sought = FALSE]

-----------------------------------------------------------------------------
(* The gate *)

\* What a track must hold for On to open the gate: the quick start duration
\* counts only while Starting with video to come.
Threshold(m) ==
  IF m.state = "Starting" /\ WillAvailable(m, "video") THEN m.limit.quick
                                                       ELSE m.limit.buffering

Filled(m, t) == WillAvailable(m, t) => Duration(m, t) >= Threshold(m)

\* Mutant: the gate opens on audio alone.
OnAudio(m) ==
  IF m.state \in {"Starting", "Buffering"} /\ Filled(m, "audio")
  THEN [m EXCEPT !.state = "Running"] ELSE m

\* MediaBuffer::On, called when the state is Starting or Buffering.
On(m) ==
  IF /\ m.state \in {"Starting", "Buffering"}
     /\ Filled(m, "audio") /\ Filled(m, "video")
  THEN [m EXCEPT !.state = "Running"] ELSE m

\* MediaBuffer::Off: the polled track ran dry; close the gate if the style
\* makes this track count and more of it is to come.
Off(m, t) ==
  LET a == WillAvailable(m, "audio")
      v == WillAvailable(m, "video")
      closes == CASE m.style = "A"  -> (t = "audio" /\ a) \/ (t = "video" /\ ~a /\ v)
                  [] m.style = "V"  -> (t = "video" /\ v) \/ (t = "audio" /\ ~v /\ a)
                  [] m.style = "AV" -> (t = "audio" /\ a) \/ (t = "video" /\ v)
  IN  IF t # "subtitle" /\ closes THEN [m EXCEPT !.state = "Buffering"] ELSE m

-----------------------------------------------------------------------------
(* Putting samples *)

\* Mutant: video is cut to any frame.
LandingsAnywhere(t, list, stop) == 1..(stop - 1)

\* Where a list arriving while Seeking may be cut to, before position stop.
Landings(t, list, stop) ==
  {i \in 1..(stop - 1) : t = "video" => Has(list[i], "key")}

\* While Seeking, PutSamples first cuts the arriving list itself: video to the
\* last key frame not after the wanted point, others to the last sample not
\* after the actual one.  Passing the wanted point settles the video position
\* and takes off a leading TRACKUNAVAILABLE that a NEW_FORMAT follows.
SeekCut(m, t, list) ==
  LET point  == IF t = "video" THEN m.wanted ELSE m.actual
      beyond == {i \in DOMAIN list : point < list[i].time}
      passed == t = "video" /\ beyond # {}
      drop   == IF /\ passed /\ Len(list) >= 2
                   /\ Has(list[1], "unavail") /\ Has(list[2], "format")
                THEN 1 ELSE 0
      rest   == SubSeq(list, 1 + drop, Len(list))
      To(landings) ==
        [list |-> IF landings = {} THEN rest ELSE SetPosition(rest, Max(landings) - drop),
         m    |-> [m EXCEPT !.sought = @ \/ passed,
                            !.actual = IF t = "video" /\ landings # {}
                                       THEN list[Max(landings)].time ELSE @]]
  IN  To(Landings(t, list, Min(beyond \cup {Len(list) + 1})))

\* SetPos on the queue of the track (on audio's for a subtitle).
QueueSetPos(m, t) == IF t = "video" THEN VideoSetPos(m) ELSE AudioSetPos(m)

VideoPending(m) == WillAvailable(m, "video") /\ ~m.sought

\* What PutSamples does about a pending seek once the list has been offered.
SeekProgress(m, t, refused) ==
  LET started == ~VideoPending(m) /\ (WillAvailable(m, "audio") => AudioReached(m))
  IN  CASE m.state # "Seeking" \/ (VideoPending(m) /\ ~refused) -> m
        [] m.state = "Seeking" /\ VideoPending(m) /\ refused /\ t = "video"
             -> [m EXCEPT !.sought = TRUE]
        [] OTHER -> [AudioSetPos(m) EXCEPT !.state = IF started THEN "Starting" ELSE @]

\* Mutant: only the first start is forced.
ForcedAtStart(m, t) ==
  t = "subtitle" \/ (m.state = "Starting" /\ Duration(m, t) < m.limit.buffering)

\* A list goes in even if it does not fit while the gate is shut for the track.
Forced(m, t) ==
  t = "subtitle" \/ (m.state # "Running" /\ Duration(m, t) < m.limit.buffering)

\* MediaBuffer::PutSamples: what becomes of the object and of the list (empty
\* once spliced in; what is left of it is offered again on NEEDRETRY).
PutSamplesResult(m, t, list) ==
  LET Put(o) ==
        LET refused == o.list # <<>> /\ ~Admits(o.m, t, o.list, Forced(o.m, t))
            after   == IF o.list = <<>> \/ refused THEN o.m ELSE Spliced(o.m, t, o.list)
        IN  [m       |-> On(SeekProgress(after, t, refused)),
             list    |-> IF refused THEN o.list ELSE <<>>,
             refused |-> refused]
  IN  Put(IF m.state = "Seeking"
          THEN [SeekCut(m, t, list) EXCEPT !.m = QueueSetPos(@, t)]
          ELSE [list |-> list, m |-> m])

\* What PutSample does about a pending seek: a key frame moves the point.
SeekSample(m, t, s, refused) ==
  LET atKey   == [m EXCEPT !.actual = s.time]
      started == WillAvailable(m, "audio") => AudioReached(m)
  IN  CASE \/ m.state # "Seeking"
           \/ VideoPending(m) /\ t # "video" /\ ~refused
           \/ VideoPending(m) /\ t = "video" /\ ~refused
                /\ s.time <= m.wanted /\ ~Has(s, "key")
           \/ ~VideoPending(m) /\ WillAvailable(m, "audio") /\ t # "audio" -> m
        [] m.state = "Seeking" /\ VideoPending(m) /\ t = "video"
             /\ (refused \/ s.time > m.wanted \/ Has(s, "key")) ->
             IF s.time > m.wanted \/ refused THEN [m EXCEPT !.sought = TRUE]
                                             ELSE AudioSetPos(VideoSetPos(atKey))
        [] OTHER -> [AudioSetPos(m) EXCEPT
                       !.state = IF ~VideoPending(m) /\ started THEN "Starting" ELSE @]

\* MediaBuffer::PutSample, the way the end-of-stream marker comes in.
PutSampleResult(m, t, s) ==
  LET refused == t # "subtitle" /\ Duration(m, t) >= m.limit.max
  IN  [m       |-> On(SeekSample(IF refused THEN m ELSE AppendOne(m, t, s),
                                 t, s, refused)),
       refused |-> refused]

-----------------------------------------------------------------------------
(* Getting samples *)

\* Flag bits VideoTrackBuffer::GetNextKeyFrame stops at (0xFFFFF3FE): any but
\* the key frame bit; "force" lives in another word.
Special(s) == s.flags \ {"key", "force"} # {}

\* GetNextKeyFrame: the first special sample not after the time the player is
\* at, else the last key frame before that; 0 when there is none.
NextKeyFrame(q, want) ==
  LET stops == {i \in DOMAIN q : q[i].time > want \/ Special(q[i])}
      stop  == IF stops = {} THEN Len(q) + 1 ELSE Min(stops)
      keys  == {i \in 1..(stop - 1) : Has(q[i], "key")}
  IN  CASE stop <= Len(q) /\ q[stop].time <= want -> stop
        [] keys # {} /\ ~(stop <= Len(q) /\ q[stop].time <= want) -> Max(keys)
        [] OTHER -> 0

\* Mutant: the frame to be shown next is marked with the ones before it.
MarkLatePast(m, want) ==
  LET q == Queue(m, "video")
      p == IF want > 0 /\ q[1].time + Late < want THEN NextKeyFrame(q, want) ELSE 0
  IN  [m EXCEPT !.track["video"].q =
         [i \in DOMAIN q |-> IF i <= p THEN [q[i] EXCEPT !.flags = @ \cup {"drop"}]
                                       ELSE q[i]]]

\* VideoTrackBuffer::GetSample marks the frames a late player should not show.
MarkLate(m, want) ==
  LET q == Queue(m, "video")
      p == IF want > 0 /\ q[1].time + Late < want THEN NextKeyFrame(q, want) ELSE 0
  IN  [m EXCEPT !.track["video"].q =
         [i \in DOMAIN q |-> IF i < p THEN [q[i] EXCEPT !.flags = @ \cup {"drop"}]
                                      ELSE q[i]]]

\* How many samples SubtitleTrackBuffer::GetSample takes off: one that is due,
\* and for internal subtitles every further one that is due already.
Due(q, want) ==
  IF q = <<>> \/ q[1].time > want THEN 0
  ELSE IF ~InternalSubtitle THEN 1
  ELSE LET later == {i \in DOMAIN q : q[i].time > want}
       IN  IF later = {} THEN Len(q) ELSE Min(later) - 1

\* The gate of MediaBuffer::GetSample: only audio marked for forced output
\* passes it while the buffer is not Running.
MayGet(m, t) ==
  \/ m.state = "Running"
  \/ t = "audio" /\ Queue(m, t) # <<>> /\ Has(Queue(m, t)[1], "force")

\* MediaBuffer::GetSample of a player that is at time `want': the object
\* afterwards and the samples taken off (the last one is handed out).
GetSampleResult(m, t, want) ==
  LET q     == Queue(m, t)
      count == CASE t = "subtitle" -> Due(q, want)
                 [] t # "subtitle" /\ q = <<>> -> 0
                 [] OTHER -> 1
      m1    == IF t = "video" /\ count = 1 THEN MarkLate(m, want) ELSE m
      pop[k \in 0..count] == IF k = 0 THEN m1 ELSE Pop(pop[k - 1], t)
  IN  CASE ~MayGet(m, t)              -> [m |-> m, taken |-> <<>>]
        [] MayGet(m, t) /\ count = 0  -> [m |-> Off(m, t), taken |-> <<>>]
        [] OTHER -> [m |-> pop[count], taken |-> SubSeq(Queue(m1, t), 1, count)]

-----------------------------------------------------------------------------
(* voSourceBufferManager_AI *)

Bare(s) == s.flags \cap {"eos", "unavail"} = {}
BareTimes(list) == LET at == {i \in DOMAIN list : Bare(list[i])}
                   IN  IF at = {} THEN <<>> ELSE <<list[Min(at)].time, list[Max(at)].time>>

\* Mutant: a sample at the latest time stamp added counts as new.
UnheardAgain(list) == {i \in DOMAIN list : lastAudio <= list[i].time}

Unheard(list) == {i \in DOMAIN list : lastAudio < list[i].time}

\* AddBuffers drops audio the track has had already: when the list starts
\* before the latest time stamp added, all samples up to that time stamp go.
\* A NEW_FORMAT that survives a list dropped whole is stamped just before it.
WithoutHeard(list) ==
  LET times  == BareTimes(list)
      before == IF lastAudio = 0 THEN 0 ELSE lastAudio - 1
      Restamped(rest) ==
        IF Unheard(list) = {} /\ rest # <<>> /\ Has(rest[1], "format")
        THEN [rest EXCEPT ![1].time = before] ELSE rest
  IN  IF times = <<>> \/ times[1] >= lastAudio THEN list
      ELSE Restamped(SetPosition(list, Min(Unheard(list) \cup {Len(list) + 1})))

\* The part of AddBuffers up to and including m_MediaBuffer.PutSamples.
AddBuffersResult(t, list) ==
  PutSamplesResult(media, t,
                   IF t = "audio" /\ list # <<>> THEN WithoutHeard(list) ELSE list)

\* Its rest, once the list is in: lastAudio follows the end of the list as it
\* came in.
Heard(list) ==
  LET times == BareTimes(list)
  IN  IF times # <<>> /\ times[2] > lastAudio THEN times[2] ELSE lastAudio

-----------------------------------------------------------------------------
(* Parameters: SetParameter, reached through voBufferCommander::SetParam *)

SetMaxDuration(d) ==
  /\ d > media.limit.buffering /\ d > media.limit.quick
  /\ media' = [media EXCEPT !.limit.max = d]
  /\ UNCHANGED lastAudio

SetBufferingDuration(d) ==
  /\ d < media.limit.max
  /\ media' = [media EXCEPT !.limit.buffering = d]
  /\ UNCHANGED lastAudio

SetQuickStartDuration(d) ==
  /\ d < media.limit.max
  /\ media' = [media EXCEPT !.limit.quick = d]
  /\ UNCHANGED lastAudio

\* voBufferCommander::SetFBBufferingStyle: AV for on-demand, A for live.
SetBufferingStyle(s) ==
  /\ media' = [media EXCEPT !.style = s]
  /\ UNCHANGED lastAudio
=============================================================================
