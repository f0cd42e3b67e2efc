--------------------------- MODULE PlaybackBuffer ---------------------------
(***************************************************************************)
(* The sample buffer and everybody who touches it while a stream plays:    *)
(*   - the item threads (voChannelItemThread), which bring in chunks and   *)
(*     push them track by track through CacheManager::useChunk, and at the *)
(*     end of the stream CacheManager::setEOS;                             *)
(*   - the seek thread (AsyncSeekThread / SeekAsync), which closes the     *)
(*     cache, joins the item threads, empties the buffer twice, moves it   *)
(*     and starts the threads again;                                       *)
(*   - the player's threads, one GetSample call per track at a time.       *)
(*                                                                         *)
(* A step is one call into the buffer, which runs under MediaBuffer's      *)
(* m_lock, or one access to a flag that is read without it.                *)
(***************************************************************************)
EXTENDS MediaBuffer

CONSTANTS
  Thread,       \* the item threads with audio or video to bring in
  Stream,       \* what each downloads: a sequence of chunks (Track -> samples)
  Wants,        \* the playing times the player may pass to GetSample
  Lead,         \* how far the player lets audio and video run apart
  SeekPoints,   \* the positions the user may seek to
  MaxSeeks,     \* bound: how often he does
  EosTimes,     \* what the uninitialised uTime of setEOS's marker may hold
  ParserMayFail,\* whether the stream parser may refuse to seek
  NewMax, NewBuffering, NewQuick, NewStyle,  \* parameter values set on the way
  Lasts         \* bound: how long a track or a list may last, as BufferGate counts
                \* (all of Nat, of which the runs enumerate what occurs)

NoPoint == -1

ASSUME PlaybackBufferAssumption ==
  /\ {MaxSeeks, Lead} \subseteq Nat /\ ParserMayFail \in BOOLEAN
  /\ SeekPoints \cup Wants \cup EosTimes \subseteq Nat
  /\ NewMax \cup NewBuffering \cup NewQuick \subseteq Nat /\ NewStyle \subseteq Style
  /\ Lasts \subseteq Nat

\* The parsers deliver samples, and leave the end of the stream to setEOS.
ASSUME StreamAssumption ==
  /\ Stream \in [Thread -> Seq([Track -> Seq(Sample)])]
  /\ \A th \in Thread : \A n \in DOMAIN Stream[th] : \A t \in Track :
       \A i \in DOMAIN Stream[th][n][t] : Kind(Stream[th][n][t][i]) # "eos"

Gated == {"audio", "video"}

\* A file parser's first list begins with the format of its track.
Announced(list) ==
  IF list = <<>> \/ Has(list[1], "format") \/ Has(list[1], "unavail") THEN list
  ELSE <<[flags |-> {"format"}, fmt |-> list[1].fmt,
          time |-> IF list[1].time = 0 THEN 0 ELSE list[1].time - 1]>> \o list

Brings(th, t) == \E n \in DOMAIN Stream[th] : Stream[th][n][t] # <<>>

\* The parsers announce each change of encoding, also from one chunk to the next,
\* and audio and video come from one thread each.
ASSUME FormatAssumption ==
  /\ \A th \in Thread, t \in Gated : \A n \in DOMAIN Stream[th] :
       /\ Introduced(Announced(Stream[th][n][t]))
       /\ n > 1 => Introduced(Carried(Stream[th][n - 1][t]) \o Stream[th][n][t])
  /\ \A th, o \in Thread, t \in Gated : Brings(th, t) /\ Brings(o, t) => th = o

\* The video of a chunk can be decoded by itself: it begins with a key frame, and so
\* does what comes after a marker.
Dependent(s) == Kind(s) = "frame" /\ ~Has(s, "key")
ASSUME VideoAssumption ==
  \A th \in Thread : \A n \in DOMAIN Stream[th] : LET list == Stream[th][n]["video"]
    IN  \A i \in DOMAIN list : Dependent(list[i]) =>
          i > 1 /\ Kind(list[i - 1]) = "frame" /\ ~Has(list[i - 1], "drop")

VARIABLES
  stop,     \* CacheManager::m_bStop
  thread,   \* per item thread: where it is, its next chunk, the chunk it
            \* pushes (list), whether a track was refused in this pass, and
            \* the time it will note (the audio end, or its EOS marker's time)
  ended,    \* threads that reported CHUNKEOS (m_audio/m_video_thread_eos)
  seek,     \* the seek thread: pc, its target, m_nPositionSeek (pending),
            \* m_bSeeking (busy), and how many seeks were asked for
  inside,   \* tracks with a GetSample call that passed the m_bSeeking test
            \* before a seek was asked for and has not reached the buffer
  changed,  \* history: a limit was set and nothing was offered since
  got       \* history: what the player has had of each track since the
            \* buffer was last emptied

bufferVars == <<media, lastAudio>>
vars == <<media, lastAudio, stop, thread, ended, seek, inside, changed, got>>

\* The order of useChunk's calls in a pass, and of setEOS's.
NextTrack == [video |-> "audio", audio |-> "subtitle"]
EosTrack == [eosVideo |-> "video", eosAudio |-> "audio", eosSubtitle |-> "subtitle"]
NextEos == [eosVideo |-> "eosAudio", eosAudio |-> "eosSubtitle", eosSubtitle |-> "done"]

ThreadAt == {"idle", "video", "audio", "remember", "subtitle", "ending",
             "eosVideo", "eosAudio", "eosSubtitle", "done", "exited"}
SeekAt == {"idle", "closing", "joining", "seeking", "marking", "resuming", "finishing"}

Worker == [at : ThreadAt, next : Nat, fresh : BOOLEAN, list : [Track -> Seq(Sample)],
           refused : BOOLEAN, note : Nat]
Seeker == [pc : SeekAt, point : SeekPoints \cup {NoPoint},
           pending : SeekPoints \cup {NoPoint}, busy : BOOLEAN, asked : 0..MaxSeeks]

NoChunk == [t \in Track |-> <<>>]

\* A thread (re)started at chunk n of its stream; its first chunk opens a new
\* file parser, which announces the format of each track.
Started(n) == [at |-> "idle", next |-> n, fresh |-> TRUE, list |-> NoChunk,
               refused |-> FALSE, note |-> 0]

NoFrame == [flags |-> {}, time |-> NoPoint, fmt |-> "none"]
Had == [fmt : Encoding, first : Sample \cup {NoFrame}, last : Sample \cup {NoFrame},
        off : BOOLEAN, eos : Nat]
Nothing == [t \in Track |-> [fmt |-> "none", first |-> NoFrame, last |-> NoFrame,
                             off |-> FALSE, eos |-> 0]]

Init ==
  /\ MediaInit
  /\ stop = FALSE
  /\ thread = [th \in Thread |-> Started(1)]
  /\ ended = {}
  /\ seek = [pc |-> "idle", point |-> NoPoint, pending |-> NoPoint,
             busy |-> FALSE, asked |-> 0]
  /\ inside = {}
  /\ changed = FALSE
  /\ got = Nothing

-----------------------------------------------------------------------------
(* Item threads *)

\* thread_function: the next chunk is downloaded and parsed into a cache of its
\* own.
Fetch(th) ==
  /\ thread[th].at = "idle" /\ ~stop
  /\ thread[th].next \in DOMAIN Stream[th]
  /\ LET chunk == Stream[th][thread[th].next]
     IN  thread' = [thread EXCEPT
           ![th].at = "video", ![th].next = @ + 1, ![th].fresh = FALSE,
           ![th].list = IF thread[th].fresh THEN [t \in Track |-> Announced(chunk[t])]
                                            ELSE chunk]
  /\ UNCHANGED <<bufferVars, stop, ended, seek, inside, got, changed>>

\* useChunk: one AddBuffers call of a pass.  A pass begins by testing m_bStop.
Offer(th, t) ==
  /\ thread[th].at = t /\ (t = "video" => ~stop)
  /\ \E r \in {AddBuffersResult(t, thread[th].list[t])} :
     LET list == thread[th].list[t]
         pass == thread[th].refused \/ r.refused
     IN  /\ media' = r.m
         /\ thread' = [thread EXCEPT
              ![th].list[t] = r.list,
              ![th].refused = pass /\ t # "subtitle",
              ![th].note = IF t = "audio" /\ ~r.refused THEN Heard(list) ELSE @,
              ![th].at = CASE t = "audio" /\ ~r.refused /\ BareTimes(list) # <<>>
                                -> "remember"
                           [] t = "subtitle" -> IF pass THEN "video" ELSE "idle"
                           [] OTHER -> NextTrack[t]]
  /\ changed' = FALSE
  /\ UNCHANGED <<lastAudio, stop, ended, seek, inside, got>>

\* The end of AddBuffers: m_ullTimeLastAudio is written outside m_lock.
Remember(th) ==
  /\ thread[th].at = "remember"
  /\ lastAudio' = IF thread[th].note > lastAudio THEN thread[th].note ELSE lastAudio
  /\ thread' = [thread EXCEPT ![th].at = "subtitle", ![th].note = 0]
  /\ UNCHANGED <<media, stop, ended, seek, inside, got, changed>>

\* thread_function is left: m_bStop is seen at the start of a pass or between
\* two chunks (the thread's own m_is_stop is set right after it).
Exit(th) ==
  /\ stop /\ thread[th].at \in {"idle", "video"}
  /\ thread' = [thread EXCEPT ![th] = [Started(1) EXCEPT !.at = "exited"]]
  /\ UNCHANGED <<bufferVars, stop, ended, seek, inside, got, changed>>

\* ThreadEnding -> CHUNKEOS: the thread sets its flag ...
ReportEnd(th) ==
  /\ thread[th].at = "idle" /\ thread[th].next \notin DOMAIN Stream[th]
  /\ ended' = ended \cup {th}
  /\ thread' = [thread EXCEPT ![th].at = "ending"]
  /\ UNCHANGED <<bufferVars, stop, seek, inside, got, changed>>

\* Mutant: the first thread to finish ends the stream.
TestEndAny(th) ==
  /\ thread[th].at = "ending"
  /\ \E time \in EosTimes :
       thread' = [thread EXCEPT ![th].at = "eosVideo", ![th].note = time]
  /\ UNCHANGED <<bufferVars, stop, ended, seek, inside, got, changed>>

\* ... and then tests both, without a lock: the marker's time stamp is
\* whatever `new _SAMPLE' left there.
TestEnd(th) ==
  /\ thread[th].at = "ending"
  /\ \/ /\ ended # Thread
        /\ thread' = [thread EXCEPT ![th].at = "done"]
     \/ /\ ended = Thread
        /\ \E time \in EosTimes :
             thread' = [thread EXCEPT ![th].at = "eosVideo", ![th].note = time]
  /\ UNCHANGED <<bufferVars, stop, ended, seek, inside, got, changed>>

EosMarker(th) == [flags |-> {"eos"}, time |-> thread[th].note, fmt |-> "none"]

\* CacheManager::setEOS: each track in turn until it takes the marker.
PutEos(th) ==
  /\ thread[th].at \in DOMAIN EosTrack
  /\ \E r \in {PutSampleResult(media, EosTrack[thread[th].at], EosMarker(th))} :
     LET next == [thread EXCEPT ![th].at = NextEos[@],
                                ![th].note = IF thread[th].at = "eosSubtitle"
                                             THEN 0 ELSE @]
     IN  \/ /\ stop
            /\ thread' = [thread EXCEPT ![th].at = "done", ![th].note = 0]
            /\ UNCHANGED <<media, changed>>
         \/ /\ ~stop
            /\ media' = r.m /\ changed' = FALSE
            /\ thread' = IF r.refused THEN thread ELSE next
  /\ UNCHANGED <<lastAudio, stop, ended, seek, inside, got>>

ThreadStep(th) ==
  \/ Fetch(th) \/ Remember(th) \/ Exit(th) \/ ReportEnd(th) \/ TestEnd(th)
  \/ PutEos(th)
  \/ \E t \in Track : Offer(th, t)

-----------------------------------------------------------------------------
(* The player's threads *)

\* What the player knows of a track once it has had sample s.
Seen(g, s) ==
  CASE Kind(s) = "frame"  -> [g EXCEPT !.last = s,
                                       !.first = IF @ = NoFrame THEN s ELSE @]
    [] Kind(s) = "format" -> [g EXCEPT !.fmt = s.fmt, !.off = FALSE]
    [] Kind(s) = "eos"    -> [g EXCEPT !.eos = @ + 1, !.off = TRUE]
    [] Kind(s) = "unavail" -> [g EXCEPT !.off = TRUE]
    [] OTHER              -> g

\* The player keeps audio and video together: it does not ask for more of one
\* that is Lead ahead of the other, as long as the other is to come.
Paced(t) ==
  \A other \in {"audio", "video"} \ {t} :
    t = "subtitle" \/ got[other].off
      \/ got[t].last.time <= got[other].last.time + Lead

\* Controller::GetSample: m_bSeeking is tested under m_lockSeek, which is let go
\* before the buffer is called; `inside' are the calls that a seek overtook.
Get(t, want) ==
  /\ t \in inside \/ (~seek.busy /\ Paced(t))
  /\ \E r \in {GetSampleResult(media, t, want)} :
         /\ media' = r.m
         /\ got' = [got EXCEPT ![t] = FoldLeft(Seen, @, r.taken)]
  /\ inside' = inside \ {t}
  /\ UNCHANGED <<lastAudio, stop, thread, ended, seek, changed>>

Poll(t) == \E want \in Wants : Get(t, want)

-----------------------------------------------------------------------------
(* Seeking *)

\* Controller::Seek: only notes the position; a later one replaces it.
AskSeek(p) ==
  /\ seek.asked < MaxSeeks
  /\ seek' = [seek EXCEPT !.pending = p, !.busy = TRUE, !.asked = @ + 1]
  /\ IF seek.busy THEN UNCHANGED inside ELSE inside' \in SUBSET Track
  /\ UNCHANGED <<bufferVars, stop, thread, ended, got, changed>>

\* AsyncSeekThread takes the position; SeekAsync: mgr.Stop closes the cache ...
CloseCache ==
  /\ seek.pc = "idle" /\ seek.pending # NoPoint
  /\ stop' = TRUE
  /\ seek' = [seek EXCEPT !.pc = "closing", !.point = seek.pending,
                          !.pending = NoPoint]
  /\ UNCHANGED <<bufferVars, thread, ended, inside, got, changed>>

EmptyBuffer ==
  /\ media' = Flushed(media)
  /\ lastAudio' = 0
  /\ got' = Nothing

\* ... and the buffer is flushed, while passes may still be under way.
FlushFirst ==
  /\ seek.pc = "closing"
  /\ EmptyBuffer
  /\ seek' = [seek EXCEPT !.pc = "joining"]
  /\ UNCHANGED <<stop, thread, ended, inside, changed>>

\* Mutant: one flush is taken to be enough.
JoinOnly ==
  /\ seek.pc = "joining"
  /\ \A th \in Thread : thread[th].at \in {"done", "exited"}
  /\ stop' = FALSE
  /\ seek' = [seek EXCEPT !.pc = "seeking"]
  /\ UNCHANGED <<bufferVars, thread, ended, inside, got, changed>>

\* The threads are joined; then voBufferCommander::Flush: ClearList, open, and
\* the buffer is flushed again.
JoinAndFlush ==
  /\ seek.pc = "joining"
  /\ \A th \in Thread : thread[th].at \in {"done", "exited"}
  /\ stop' = FALSE
  /\ EmptyBuffer
  /\ seek' = [seek EXCEPT !.pc = "seeking"]
  /\ UNCHANGED <<thread, ended, inside, changed>>

\* The parser could not seek: nothing is started again.
ParserFails ==
  /\ seek.pc = "seeking" /\ ParserMayFail
  /\ seek' = [seek EXCEPT !.pc = "finishing"]
  /\ UNCHANGED <<bufferVars, stop, thread, ended, inside, got, changed>>

\* set_pos: MediaBuffer::SetPos flushes under m_lock ...
SetPosFlush ==
  /\ seek.pc = "seeking"
  /\ media' = Flushed(media)
  /\ got' = Nothing
  /\ seek' = [seek EXCEPT !.pc = "marking"]
  /\ UNCHANGED <<lastAudio, stop, thread, ended, inside, changed>>

\* ... and sets the position and the state without it.
SetPosMark ==
  /\ seek.pc = "marking"
  /\ media' = SeekMarked(media, seek.point)
  /\ seek' = [seek EXCEPT !.pc = "resuming"]
  /\ UNCHANGED <<lastAudio, stop, thread, ended, inside, got, changed>>

\* The chunk of a stream the parser goes to: the last that has begun on all its
\* tracks at the position.
ChunkStart(chunk) ==
  Max({Min(FrameTimes(chunk[t])) : t \in {u \in Track : FrameTimes(chunk[u]) # {}}})
ChunkAt(chunks, point) ==
  Max({1} \cup {n \in DOMAIN chunks : ChunkStart(chunks[n]) <= point})

\* Mutant: the end-of-stream flags survive the seek.
ResumeEnded ==
  /\ seek.pc = "resuming"
  /\ thread' = [th \in Thread |-> Started(ChunkAt(Stream[th], seek.point))]
  /\ seek' = [seek EXCEPT !.pc = "finishing"]
  /\ UNCHANGED <<bufferVars, stop, ended, inside, got, changed>>

ResumeThreads ==
  /\ seek.pc = "resuming"
  /\ ended' = {}
  /\ thread' = [th \in Thread |-> Started(ChunkAt(Stream[th], seek.point))]
  /\ seek' = [seek EXCEPT !.pc = "finishing"]
  /\ UNCHANGED <<bufferVars, stop, inside, got, changed>>

\* The player is let in again unless a newer position is waiting.
FinishSeek ==
  /\ seek.pc = "finishing"
  /\ seek' = [seek EXCEPT !.pc = "idle", !.busy = seek.pending # NoPoint,
                          !.point = IF seek.pending # NoPoint THEN @ ELSE NoPoint]
  /\ UNCHANGED <<bufferVars, stop, thread, ended, inside, got, changed>>

SeekStep ==
  \/ CloseCache \/ FlushFirst \/ JoinAndFlush \/ ParserFails \/ SetPosFlush
  \/ SetPosMark \/ ResumeThreads \/ FinishSeek

-----------------------------------------------------------------------------
(* Parameters are set at any time (voBufferCommander::SetParam, and ChunkBegin
   for the buffering time). *)
Configure ==
  /\ \/ \E d \in NewMax : SetMaxDuration(d)
     \/ \E d \in NewBuffering : SetBufferingDuration(d)
     \/ \E d \in NewQuick : SetQuickStartDuration(d)
     \/ \E s \in NewStyle : SetBufferingStyle(s)
  /\ changed' = (media'.limit # media.limit \/ changed)
  /\ UNCHANGED <<stop, thread, ended, seek, inside, got>>

Next ==
  \/ \E th \in Thread : ThreadStep(th)
  \/ \E t \in Track : Poll(t)
  \/ \E p \in SeekPoints : AskSeek(p)
  \/ SeekStep
  \/ Configure

\* Whether a thread has a step that changes anything: one that spins in setEOS
\* on a full track may not.
ThreadMoves(th) ==
  /\ thread[th].at \notin {"done", "exited"}
  /\ thread[th].at \in DOMAIN EosTrack /\ ~stop =>
       \E r \in {PutSampleResult(media, EosTrack[thread[th].at], EosMarker(th))} :
         ~r.refused \/ r.m # media

PollMoves(t) ==
  \/ t \in inside
  \/ ~seek.busy /\ Paced(t) /\ \E want \in Wants : GetSampleResult(media, t, want).m # media

\* Every thread of the program keeps running; nobody has to seek.  The first two
\* lines are weak fairness of ThreadStep and Poll with ENABLED spelled out (TLC
\* evaluates it with no sharing of subexpressions).
Fairness ==
  /\ \A th \in Thread : []<>~ThreadMoves(th) \/ []<><<ThreadStep(th)>>_vars
  /\ \A t \in Track : []<>~PollMoves(t) \/ []<><<Poll(t)>>_vars
  /\ WF_vars(SeekStep)

Spec == Init /\ [][Next]_vars /\ Fairness

-----------------------------------------------------------------------------
(* Properties *)

\* The object is a MediaBuffer throughout: no duration runs below zero, an empty
\* track lasts nothing, and every thread and the player have what they may have.
TypeOK ==
  /\ media \in Media /\ lastAudio \in Nat
  /\ thread \in [Thread -> Worker]
  /\ ended \subseteq Thread /\ inside \subseteq Track
  /\ seek \in Seeker /\ {stop, changed} \subseteq BOOLEAN
  /\ DOMAIN got = Track /\ \A t \in Gated : got[t] \in Had

\* Between the two flushes of a seek a pass that was under way may still put
\* pieces of a chunk in; the buffer means nothing then.
Settled == seek.pc # "joining"

\* What the player has had last of a track and what lies ready for it.
Line(t) == (IF got[t].last = NoFrame THEN <<>> ELSE <<got[t].last>>) \o Queue(media, t)

StreamTimes(t) ==
  UNION {UNION {FrameTimes(Stream[th][n][t]) : n \in DOMAIN Stream[th]} : th \in Thread}
Follows(t, a, b) == a < b /\ ~\E x \in StreamTimes(t) : a < x /\ x < b

\* Audio reaches the player without a gap and without a repetition, whatever
\* AddBuffers drops as heard already and wherever a chunk, a retry or a seek cut
\* the lists.
AudioGapless ==
  Settled => LET line   == Line("audio")
                 frames == {i \in DOMAIN line : Kind(line[i]) = "frame"}
             IN \A i, j \in frames : i < j /\ (\A k \in frames : k <= i \/ j <= k)
                  => Follows("audio", line[i].time, line[j].time)

\* The audio a stream has brought up to chunk n: when its frames are, and its samples.
AudioUpTo(th, n) ==
  UNION {FrameTimes(Stream[th][k]["audio"]) : k \in DOMAIN Stream[th] \cap 1..n}
SampledUpTo(th, n) ==
  UNION {{Stream[th][k]["audio"][i].time : i \in DOMAIN Stream[th][k]["audio"]} :
           k \in DOMAIN Stream[th] \cap 1..n}

\* The audio of a stream is continuous.  Times go up within a chunk, and no moment is
\* left out; the last that AddBuffers notes is a frame; none is for forced output.
ASSUME AudioAssumption ==
  \A th \in Thread : \A n \in DOMAIN Stream[th] : LET list == Stream[th][n]["audio"] IN
    /\ \A i, j \in DOMAIN list : i < j => list[i].time <= list[j].time
    /\ \A i, j \in DOMAIN list : i < j /\ Kind(list[i]) = "frame" /\ Kind(list[j]) = "frame"
                                => list[i].time < list[j].time
    /\ \A x \in StreamTimes("audio"), a, b \in FrameTimes(list) :
         a <= x /\ x <= b => x \in FrameTimes(list)
    /\ \A i \in DOMAIN list : ~Has(list[i], "force")
    /\ \A i \in DOMAIN list : Bare(list[i]) => \E j \in i..Len(list) : Kind(list[j]) = "frame"

\* Each chunk goes on where those before it end, or begins earlier and reaches beyond;
\* then it does not begin with the very moment they end with, which AddBuffers would
\* keep.  Nothing before a frame that is new is as late as the frame.
ASSUME OverlapAssumption ==
  \A th \in Thread : \A n \in DOMAIN Stream[th] :
    LET list == Stream[th][n]["audio"]
        past == AudioUpTo(th, n - 1)
    IN  /\ FrameTimes(list) # {} /\ past # {} =>
             \E x \in FrameTimes(list) :
               /\ \A y \in past : y < x
               /\ \A y \in StreamTimes("audio") : y < x => \E z \in past : y <= z
        /\ \A x \in FrameTimes(list) \cap past :
             (\A y \in past : y <= x) => \E i \in DOMAIN list : Bare(list[i]) /\ list[i].time < x
        /\ \A x \in FrameTimes(list) :
             (\A y \in past : y < x) => \A y \in SampledUpTo(th, n - 1) : y < x

\* The chunk a seek goes to has the audio of the point, or a chunk before it has.
ASSUME SeekAssumption ==
  \A th \in Thread, point \in SeekPoints : \A x \in AudioUpTo(th, Len(Stream[th])) :
    x <= point => \E y \in AudioUpTo(th, ChunkAt(Stream[th], point)) : x <= y

\* The frame the decoder needs for b: a came right before it out of the parser.
NextInChunk(a, b) ==
  \E th \in Thread : \E n \in DOMAIN Stream[th] : LET list == Stream[th][n]["video"]
    IN  \E i \in 2..Len(list) : /\ list[i - 1].time = a.time /\ list[i].time = b.time
                                /\ Kind(list[i - 1]) = "frame" /\ Dependent(list[i])

\* Every video frame the player is to show can be decoded: it is a key frame, or the
\* frame before it, which the player may have had already, is the one it needs and
\* was not to be skipped.
VideoDecodable ==
  LET q == Queue(media, "video")
      earlier(i) == {j \in 1..(i - 1) : Kind(q[j]) = "frame"}
      before(i) == IF earlier(i) = {} THEN got["video"].last ELSE q[Max(earlier(i))]
  IN  \A i \in DOMAIN q : Dependent(q[i]) /\ ~Has(q[i], "drop") =>
        before(i) # NoFrame /\ ~Has(before(i), "drop") /\ NextInChunk(before(i), q[i])

\* The first video frame the player has, at the start and after every seek, is a key
\* frame, wherever the lists and the queue were cut.
VideoStartsAtKey == got["video"].first # NoFrame => Has(got["video"].first, "key")

\* Every frame comes after the NEW_FORMAT marker of its own encoding: no cut
\* loses a marker or brings two out of order.
FormatMatches ==
  Settled => \A t \in Gated :
    LET q == Queue(media, t)
        announced(i) == {j \in 1..(i - 1) : Kind(q[j]) = "format"}
    IN  \A i \in DOMAIN q : Kind(q[i]) = "frame" =>
          q[i].fmt = IF announced(i) = {} THEN got[t].fmt
                                          ELSE q[Max(announced(i))].fmt

\* Nothing comes after the end-of-stream marker of a track, although each item
\* thread may find itself the last to finish and push markers of its own.
EosLast ==
  Settled => \A t \in Gated :
    LET q == Queue(media, t)
    IN  \A i \in DOMAIN q : Kind(q[i]) = "frame" =>
          got[t].eos = 0 /\ \A j \in 1..(i - 1) : Kind(q[j]) # "eos"

\* Whether all there is to be had at a point comes with the chunk a seek goes to: it
\* has each track of its thread, from a frame not beyond the point on, and audio has
\* no markers but of its format.
Begins(list, point) ==
  \E i \in DOMAIN list : /\ Kind(list[i]) = "frame" /\ list[i].time <= point
                         /\ \A j \in 1..(i - 1) : Kind(list[j]) # "frame"
Covers(chunks, point) ==
  /\ \A t \in Gated : (\E n \in DOMAIN chunks : chunks[n][t] # <<>>)
                        => Begins(chunks[ChunkAt(chunks, point)][t], point)
  /\ \A n \in DOMAIN chunks : \A i \in DOMAIN chunks[n]["audio"] :
       Kind(chunks[n]["audio"][i]) \in {"frame", "format"}

\* After a seek video starts not beyond the wanted point, and no audio beyond it is
\* missed.  (Audio may start with the first frame beyond: the cut is at a sample, which
\* may be the marker before that frame.)
SeekLanding ==
  media.wanted > 0 /\ (\A th \in Thread : Covers(Stream[th], media.wanted)) =>
    /\ got["video"].first # NoFrame => got["video"].first.time <= media.wanted
    /\ got["audio"].first # NoFrame =>
         \A x \in StreamTimes("audio") : x < got["audio"].first.time => x <= media.wanted

\* While more audio is to come, the duration the gate and the limit go by exceeds
\* what the queue spans by one frame at most (GetSample does not take off a gap that
\* equals it): a track that has run dry is not taken for a full one.
AudioNotOverstated ==
  LET q == Queue(media, "audio")
      span[i \in 1..Len(q)] == IF i = 1 THEN 0
                               ELSE span[i - 1] + Apart(q[i].time, q[i - 1].time)
  IN  WillAvailable(media, "audio") =>
        Duration(media, "audio") <= FrameInterval + (IF q = <<>> THEN 0 ELSE span[Len(q)])

\* A track is never turned away while the gate is shut for want of it: the
\* download would wait for the player and the player for the download.
NoStarvedRefusal ==
  media.state # "Running" => \A th \in Thread, t \in Gated :
    thread[th].list[t] # <<>> /\ ~Filled(media, t)
      => ~AddBuffersResult(t, thread[th].list[t]).refused

\* The stream is played to its end on both tracks, however often the user seeks.
PlaysOut == <>[](~seek.busy /\ \A t \in Gated : got[t].eos > 0)

\* The buffer, seen through what it says of its tracks, is a BufferGate.
Gate == INSTANCE BufferGate
  WITH state   <- media.state, style <- media.style, limit <- media.limit,
       level   <- [t \in Gated |-> Duration(media, t)],
       use     <- [t \in Gated |-> WillAvailable(media, t)],
       Durations <- Lasts

GateSpec == Gate!Spec
=============================================================================
