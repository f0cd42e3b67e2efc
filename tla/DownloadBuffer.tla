--------------------------- MODULE DownloadBuffer ---------------------------
(***************************************************************************)
(* voDownloadBufferMgr: the chunks that are being downloaded, and what     *)
(* becomes of each.  An item thread begins a chunk (ChunkAgentInit), puts  *)
(* samples into it and ends it (ChunkAgentUninit): its samples are pushed  *)
(* into the final buffer, or it is dropped, or, when the bitrate changes   *)
(* at its end, it is set aside until the next chunk, of the new bitrate,   *)
(* has been aligned with it.                                               *)
(*                                                                         *)
(* The list has a lock, which is held for one look at or one change of it  *)
(* and never while a chunk that was found is used.  A step is one such     *)
(* look or change, one pass of a chunk into the final buffer, or one       *)
(* access to a flag the threads share.                                     *)
(***************************************************************************)
EXTENDS Integers, FiniteSets

CONSTANTS
    Thread,         \* the item threads; there may be none for subtitles
    MaxChunk,       \* bounds the chunks that are begun and the restarts together
    MaxRestarts     \* bounds the restarts: seeks, and stops with opening again

ASSUME DownloadBufferAssumption ==
    /\ {"video", "audio"} \subseteq Thread
    /\ Thread \subseteq {"video", "audio", "subtitle"}
    /\ MaxChunk \in Nat /\ MaxRestarts \in Nat

Id == 1 .. MaxChunk         \* _CHUNKS, in the order of the list
None == 0

VARIABLES
    list,       \* m_ChunksList
    aligned,    \* those with bBAing
    by,         \* for each, who began it,
    pair,       \* its pBAPairChunk,
    holds,      \* and whose samples its lists hold: its own, and those merged
                \* into it
    serial,     \* how many have been begun
    at,         \* where each item thread is
    kind,       \* whether its chunk is one of the stream, or stands for the
                \* notice that its track is unavailable, the last one or not
    agent,      \* m_pDownloadAgent, or the agent of that notice
    found,      \* the pair FindBAChunk found
    smooth,     \* whether its chunk has the flag SMOOTH_ADAPTIONEX
    result,     \* of its download, then the CHUNK_STATUS made of it
    typed,      \* threads whose m_lastTrackType is a track
    changing,   \* m_bBitrateChanging
    blocked,    \* m_bVideoUnavailableBlock
    contain,    \* m_contain_video
    first,      \* m_bIsFirstChunk
    ended,      \* threads with m_video_thread_eos, m_audio_thread_eos
    halt,       \* threads with m_is_stop
    silent,     \* Stop was called: no more events
    open,       \* ~CacheManager::m_bStop
    ctl,        \* where the controller is in Seek or Stop
    muxed,      \* whether the chunks hold audio and video, and are all video's
    single,     \* whether the program has one stream: one bitrate
    fate,       \* history: what became of each chunk's samples: those it has
                \* at its end
    over,       \* history: end of stream was put since the last start
    hushed,     \* history: the video thread's last notice was kept out
    stale,      \* history: the stream was opened with end flags still set
    restarts

chunks == <<list, aligned, by, pair, holds, serial>>
local == <<kind, agent, found, smooth, result, typed>>
flags == <<changing, blocked, contain, first>>
control == <<halt, silent, open, ctl, muxed, single>>
history == <<fate, over, hushed, stale>>
vars == <<chunks, at, local, flags, ended, control, history, restarts>>

Init ==
    /\ list = {} /\ aligned = {} /\ serial = 0
    /\ by = [i \in Id |-> "video"] /\ pair = [i \in Id |-> None]
    /\ holds = [i \in Id |-> {}]
    /\ at = [t \in Thread |-> "idle"]
    /\ kind = [t \in Thread |-> "chunk"]
    /\ agent = [t \in Thread |-> None] /\ found = [t \in Thread |-> None]
    /\ smooth = [t \in Thread |-> FALSE]
    /\ result = [t \in Thread |-> "ok"]
    /\ typed = {}
    /\ changing = FALSE /\ blocked = FALSE /\ contain = TRUE /\ first = TRUE
    /\ ended = {} /\ halt = {} /\ silent = FALSE /\ open = TRUE /\ ctl = "run"
    /\ muxed \in BOOLEAN /\ single \in BOOLEAN
    /\ fate = [i \in Id |-> "open"]
    /\ over = FALSE /\ hushed = FALSE /\ stale = FALSE
    /\ restarts = 0

Goto(t, place) == at' = [at EXCEPT ![t] = place]

\* The samples a set of chunks hold come to an end.
Became(set, what) ==
    fate' = [i \in Id |-> IF \E c \in set : i \in holds[c] THEN what ELSE fate[i]]

-----------------------------------------------------------------------------
\* The loop of an item thread

\* A chunk of the stream.  Video's is flagged while the bitrate is changing.
GetChunk(t) ==
    /\ at[t] = "idle" /\ t \notin halt /\ (t = "audio" => ~muxed)
    /\ serial + restarts < MaxChunk
    /\ kind' = [kind EXCEPT ![t] = "chunk"]
    /\ smooth' = [smooth EXCEPT ![t] = (t = "video" /\ changing)]
    /\ Goto(t, "begin")
    /\ UNCHANGED <<chunks, agent, found, result, typed, flags, ended, control,
                   history, restarts>>

\* The track is unavailable for now (a subtitle thread says nothing of it),
GetNothing(t) ==
    /\ at[t] = "idle" /\ t \notin halt /\ t # "subtitle"
    /\ kind' = [kind EXCEPT ![t] = "notice"]
    /\ agent' = [agent EXCEPT ![t] = None]
    /\ Goto(t, "notice")
    /\ UNCHANGED <<chunks, found, smooth, result, typed, flags, ended, control,
                   history, restarts>>

\* Mutant: the last notice is left out.
GetEndSilently(t) ==
    /\ at[t] = "idle" /\ t \notin halt
    /\ Goto(t, "eos")
    /\ UNCHANGED <<chunks, local, flags, ended, control, history, restarts>>

\* or the stream is at its end: a last notice, if the thread has had a track.
GetEnd(t) ==
    /\ at[t] = "idle" /\ t \notin halt
    /\ IF t \in typed /\ t # "subtitle"
       THEN Goto(t, "notice") /\ kind' = [kind EXCEPT ![t] = "last"]
       ELSE Goto(t, "eos") /\ UNCHANGED kind
    /\ UNCHANGED <<chunks, agent, found, smooth, result, typed, flags, ended,
                   control, history, restarts>>

\* A thread that is told to stop leaves its loop.
LeaveLoop(t) ==
    /\ at[t] = "idle" /\ t \in halt
    /\ Goto(t, "gone")
    /\ UNCHANGED <<chunks, local, flags, ended, control, history, restarts>>

\* OnSample with the notice.  It is not repeated (whether it would be is left
\* open for audio).  Video's tells the controller that there is no video.  It is
\* put into a chunk of its own, for which a pair is looked for if it is video's.
\* (The agent a thread kept when it was stopped in a chunk is not of the list
\* any more.)
Notice(t) ==
    /\ at[t] = "notice"
    /\ \/ /\ t = "video" => blocked
          /\ Goto(t, IF kind[t] = "last" THEN "eos" ELSE "idle")
          /\ kind' = [kind EXCEPT ![t] = "chunk"]
          /\ hushed' = (hushed \/ (t = "video" /\ kind[t] = "last"))
          /\ UNCHANGED <<smooth, contain>>
       \/ /\ t = "video" => ~blocked
          /\ serial + restarts < MaxChunk
          /\ contain' = (contain /\ t # "video")
          /\ smooth' = [smooth EXCEPT ![t] = (t = "video")]
          /\ Goto(t, "begin")
          /\ UNCHANGED <<kind, hushed>>
    /\ UNCHANGED <<chunks, agent, found, result, typed, changing, blocked, first,
                   ended, control, fate, over, stale, restarts>>

-----------------------------------------------------------------------------
\* A chunk

\* Mutant: no pair is looked for.
FindNone(t) == {None}

\* FindBAChunk: the first of the list that was set aside.
FindBAChunk(t) ==
    IF smooth[t] /\ aligned \cap list # {}
    THEN {i \in aligned \cap list : \A j \in aligned \cap list : i <= j}
    ELSE {None}

\* CHUNKBEGIN, which a stopped thread does not send and a stopped controller
\* does not hear.  The samples of the chunk then find no agent.
Begin(t) ==
    /\ at[t] = "begin"
    /\ IF kind[t] = "chunk" /\ (t \in halt \/ silent)
       THEN /\ agent' = [agent EXCEPT ![t] = IF t \in halt THEN @ ELSE None]
            /\ Goto(t, "full")
            /\ UNCHANGED found
       ELSE /\ \E p \in FindBAChunk(t) : found' = [found EXCEPT ![t] = p]
            /\ Goto(t, "save")
            /\ UNCHANGED agent
    /\ UNCHANGED <<chunks, kind, smooth, result, typed, flags, ended, control,
                   history, restarts>>

\* SaveChunkHandle
Save(t) ==
    /\ at[t] = "save"
    /\ serial + restarts < MaxChunk
    /\ serial' = serial + 1
    /\ list' = list \cup {serial'}
    /\ by' = [by EXCEPT ![serial'] = t]
    /\ pair' = [pair EXCEPT ![serial'] = found[t]]
    /\ holds' = [holds EXCEPT ![serial'] = {serial'}]
    /\ agent' = [agent EXCEPT ![t] = serial']
    /\ found' = [found EXCEPT ![t] = None]
    /\ Goto(t, "load")
    /\ UNCHANGED <<aligned, kind, smooth, result, typed, flags, ended, control,
                   history, restarts>>

\* SearchChunk for a sample: one that finds no chunk is lost.
Sample(t) ==
    /\ at[t] = "load"
    /\ Goto(t, IF agent[t] \in list THEN "put"
               ELSE IF kind[t] = "chunk" THEN "full" ELSE "rest")
    /\ UNCHANGED <<chunks, local, flags, ended, control, history, restarts>>

\* putSample, without the lock.  A media sample makes the thread's track known,
\* and video's may tell the controller that there is video; a notice inside
\* the chunk tells it that there is none, and keeps later ones out.  The chunk's
\* list refuses a sample when those before it span more than its capacity (2 s
\* of a program with one stream, 30 s of any other): a chunk that long, or one
\* whose time stamps jump.  A notice's own chunk spans no time.
Put(t) ==
    /\ at[t] = "put"
    /\ IF kind[t] = "chunk"
       THEN /\ typed' = IF muxed /\ t = "video" THEN typed ELSE typed \cup {t}
            /\ \/ UNCHANGED <<contain, blocked>>
               \/ (t = "video" /\ contain' = TRUE /\ UNCHANGED blocked)
               \/ (t = "video" /\ ~blocked /\ contain' = FALSE /\ blocked' = TRUE)
            /\ Goto(t, "full") \/ Goto(t, "outgrown")
            /\ UNCHANGED result
       ELSE /\ Goto(t, "end")
            /\ result' = [result EXCEPT ![t] = "false"]
            /\ UNCHANGED <<typed, contain, blocked>>
    /\ UNCHANGED <<chunks, kind, agent, found, smooth, changing, first, ended,
                   control, history, restarts>>

\* It then pushes what the chunk holds (useChunk), before the chunk is at its
\* end and whatever its pair, and puts the sample into the empty lists; or the
\* cache is closed, and the sample is lost.
UsePart(t) ==
    /\ at[t] = "outgrown"
    /\ Goto(t, "load")
    /\ UNCHANGED <<chunks, local, flags, ended, control, history, restarts>>

\* The download ends, with all samples or not (or with none).  When a video
\* chunk was downloaded, the change of the bitrate is over.
Downloaded(t) ==
    /\ at[t] \in {"load", "full"} /\ kind[t] = "chunk"
    /\ \E r \in {"ok", "slow", "failed"} :
        /\ result' = [result EXCEPT ![t] = r]
        /\ changing' = (changing /\ ~(t = "video" /\ r = "ok"))
    /\ Goto(t, "complete")
    /\ UNCHANGED <<chunks, kind, agent, found, smooth, typed, blocked, contain,
                   first, ended, control, history, restarts>>

\* Whether the bitrate is looked at when the chunk is complete
Judged(t) ==
    /\ result[t] # "failed" /\ t # "subtitle"
    /\ t = "video" => muxed \/ contain
    /\ t = "audio" => ~contain

\* CHUNKCOMPLETE: ChunkComplete may change the bitrate, if there is another.
Complete(t) ==
    /\ at[t] = "complete"
    /\ IF t \in halt \/ silent
       THEN /\ agent' = [agent EXCEPT ![t] = IF t \in halt THEN @ ELSE None]
            /\ result' = [result EXCEPT ![t] = "ok"]
            /\ smooth' = [smooth EXCEPT ![t] = FALSE]
            /\ Goto(t, "idle")
            /\ UNCHANGED <<changing, blocked, first>>
       ELSE \E change \in BOOLEAN :
                /\ change => Judged(t) /\ ~single /\ ~(first /\ result[t] = "ok")
                /\ first' = (first /\ ~(Judged(t) /\ result[t] = "ok"))
                /\ changing' = (changing \/ change)
                /\ blocked' = (blocked /\ ~change)
                /\ result' = [result EXCEPT ![t] =
                                CASE @ = "failed" -> "ignore"
                                  [] change /\ t # "audio" -> "true"
                                  [] OTHER -> "false"]
                /\ Goto(t, "end")
                /\ UNCHANGED <<agent, smooth>>
    /\ UNCHANGED <<chunks, kind, found, typed, contain, ended, control, history,
                   restarts>>

\* ChunkAgentUninit looks the chunk up; one that is not found is let be.
\* One to be set aside is, unless it has a pair itself,
SetAside(t) ==
    /\ at[t] = "end" /\ result[t] = "true"
    /\ IF agent[t] \in list /\ pair[agent[t]] = None
       THEN /\ aligned' = aligned \cup {agent[t]}
            /\ fate' = [fate EXCEPT ![agent[t]] = "aside"]
            /\ Goto(t, "rest")
       ELSE /\ Goto(t, IF agent[t] \in list THEN "drop" ELSE "rest")
            /\ UNCHANGED <<aligned, fate>>
    /\ UNCHANGED <<list, by, pair, holds, serial, local, flags, ended, control,
                   over, hushed, stale, restarts>>

\* Mutant: a useless chunk stays in the list.
IgnoreKept(t) ==
    /\ at[t] = "end" /\ result[t] = "ignore"
    /\ Goto(t, "rest")
    /\ UNCHANGED <<chunks, local, flags, ended, control, history, restarts>>

\* a useless one is dropped,
Ignore(t) ==
    /\ at[t] = "end" /\ result[t] = "ignore"
    /\ Goto(t, IF agent[t] \in list THEN "drop" ELSE "rest")
    /\ UNCHANGED <<chunks, local, flags, ended, control, history, restarts>>

\* and any other is merged into its pair, if it has one, and used.
Merge(t) ==
    /\ at[t] = "end" /\ result[t] = "false"
    /\ LET own == agent[t] IN
       \/ own \notin list /\ Goto(t, "rest") /\ UNCHANGED holds
       \/ /\ own \in list /\ pair[own] = None
          /\ Goto(t, "use")
          /\ UNCHANGED holds
       \/ /\ own \in list /\ pair[own] # None
          /\ holds' = [holds EXCEPT ![pair[own]] = @ \cup holds[own], ![own] = {}]
          /\ Goto(t, "use pair")
    /\ UNCHANGED <<list, aligned, by, pair, serial, local, flags, ended, control,
                   history, restarts>>

\* useChunk: the lists go to the final buffer, which takes them at some time,
\* or stay when the cache is closed.
Use(t, c, next) ==
    /\ \/ /\ open
          /\ Became({c}, "pushed")
          /\ holds' = [holds EXCEPT ![c] = {}]
       \/ (~open /\ UNCHANGED <<fate, holds>>)
    /\ Goto(t, next)
    /\ UNCHANGED <<list, aligned, by, pair, serial, local, flags, ended, control,
                   over, hushed, stale, restarts>>

UsePair(t) == at[t] = "use pair" /\ Use(t, pair[agent[t]], "use")
UseOwn(t) ==
    /\ at[t] = "use"
    /\ Use(t, agent[t], IF pair[agent[t]] = None THEN "drop" ELSE "drop pair")

\* Mutant: the handle goes, the mark that it was set aside stays.
RemoveHandle(c) ==
    /\ list' = list \ {c}
    /\ UNCHANGED aligned
    /\ Became({c}, "dropped")
    /\ holds' = [holds EXCEPT ![c] = {}]

\* RemoveChunkHandle: what the chunk still holds goes with it.
Remove(c) ==
    /\ list' = list \ {c}
    /\ aligned' = aligned \ {c}
    /\ Became({c}, "dropped")
    /\ holds' = [holds EXCEPT ![c] = {}]

DropPair(t) ==
    /\ at[t] = "drop pair"
    /\ Remove(pair[agent[t]])
    /\ Goto(t, "drop")
    /\ UNCHANGED <<by, pair, serial, local, flags, ended, control, over,
                   hushed, stale, restarts>>

Drop(t) ==
    /\ at[t] = "drop"
    /\ Remove(agent[t])
    /\ pair' = [pair EXCEPT ![agent[t]] = None]
    /\ Goto(t, "rest")
    /\ UNCHANGED <<by, serial, local, flags, ended, control, over, hushed,
                   stale, restarts>>

\* The chunk is done with.  One whose download failed may be tried again, with
\* its flag; a notice that was put keeps later ones out.
Rest(t) ==
    /\ at[t] = "rest"
    /\ agent' = [agent EXCEPT ![t] = None]
    /\ result' = [result EXCEPT ![t] = "ok"]
    /\ blocked' = (blocked \/ (t = "video" /\ kind[t] # "chunk"))
    /\ \/ /\ kind[t] = "chunk" /\ result[t] = "ignore"
          /\ t \notin halt /\ serial + restarts < MaxChunk
          /\ Goto(t, "begin")
          /\ UNCHANGED <<kind, smooth>>
       \/ /\ Goto(t, IF kind[t] = "last" THEN "eos" ELSE "idle")
          /\ kind' = [kind EXCEPT ![t] = "chunk"]
          /\ smooth' = [smooth EXCEPT ![t] = FALSE]
    /\ UNCHANGED <<chunks, found, typed, changing, contain, first, ended,
                   control, history, restarts>>

-----------------------------------------------------------------------------
\* End of stream

\* CHUNKEOS: the thread sets its flag (a subtitle thread has none),
ReportEnd(t) ==
    /\ at[t] = "eos"
    /\ IF silent
       THEN Goto(t, "gone") /\ UNCHANGED ended
       ELSE Goto(t, "test") /\ ended' = ended \cup ({t} \ {"subtitle"})
    /\ UNCHANGED <<chunks, local, flags, control, history, restarts>>

\* Mutant: one flag is enough.
TestEndAny(t) ==
    /\ at[t] = "test"
    /\ Goto(t, IF ended # {} THEN "clear" ELSE "gone")
    /\ contain' = (contain \/ ended # {})
    /\ UNCHANGED <<chunks, local, changing, blocked, first, ended, control,
                   history, restarts>>

\* then looks at both.
TestEnd(t) ==
    /\ at[t] = "test"
    /\ LET both == ended = {"video", "audio"} IN
        /\ Goto(t, IF both THEN "clear" ELSE "gone")
        /\ contain' = (contain \/ both)
    /\ UNCHANGED <<chunks, local, changing, blocked, first, ended, control,
                   history, restarts>>

\* Everything in the list is freed, whoever has it.
ClearList(why) ==
    /\ Became(list, why)
    /\ list' = {} /\ aligned' = {}
    /\ holds' = [i \in Id |-> {}]

\* DoEOS: the list is cleared and the markers are put.
DoEOS(t) ==
    /\ at[t] = "clear"
    /\ ClearList("lost")
    /\ over' = TRUE
    /\ Goto(t, "gone")
    /\ UNCHANGED <<by, pair, serial, local, flags, ended, control, hushed,
                   stale, restarts>>

-----------------------------------------------------------------------------
\* The controller

\* SeekAsync and Stop close the cache, Stop having silenced the events,
Seek ==
    /\ ctl \in {"run", "failed"}
    /\ restarts < MaxRestarts /\ serial + restarts < MaxChunk
    /\ restarts' = restarts + 1
    /\ open' = FALSE /\ ctl' = "join"
    /\ UNCHANGED <<chunks, at, local, flags, ended, halt, silent, muxed, single,
                   history>>

SetStop ==
    /\ ctl \in {"run", "failed"}
    /\ restarts < MaxRestarts /\ serial + restarts < MaxChunk
    /\ restarts' = restarts + 1
    /\ silent' = TRUE /\ ctl' = "close"
    /\ UNCHANGED <<chunks, at, local, flags, ended, halt, open, muxed, single,
                   history>>

CloseCache ==
    /\ ctl = "close"
    /\ open' = FALSE /\ ctl' = "join"
    /\ UNCHANGED <<chunks, at, local, flags, ended, halt, silent, muxed, single,
                   history, restarts>>

Before(t) ==
    CASE t = "audio" -> {}
      [] t = "video" -> {"audio"}
      [] OTHER -> {"audio", "video"}

\* stop the item threads one after the other, waiting for each,
Halt(t) ==
    /\ ctl = "join" /\ t \notin halt
    /\ \A b \in Before(t) : b \in halt /\ at[b] = "gone"
    /\ halt' = halt \cup {t}
    /\ UNCHANGED <<chunks, at, local, flags, ended, silent, open, ctl, muxed,
                   single, history, restarts>>

\* and free what they left.  The cache opens again, unless it is Stop.
Flush ==
    /\ ctl = "join"
    /\ halt = Thread /\ \A t \in Thread : at[t] = "gone"
    /\ ClearList("dropped")
    /\ open' = ~silent
    /\ ctl' = IF silent THEN "stopped" ELSE "parse"
    /\ UNCHANGED <<by, pair, serial, at, local, flags, ended, halt, silent,
                   muxed, single, over, hushed, stale, restarts>>

\* Mutant: the end flags are kept.
ResumeEnded ==
    /\ ctl = "parse"
    /\ at' = [t \in Thread |-> "idle"]
    /\ halt' = {}
    /\ over' = FALSE /\ hushed' = FALSE
    /\ ctl' = "unblock"
    /\ UNCHANGED <<chunks, local, flags, ended, silent, open, muxed, single,
                   fate, stale, restarts>>

\* The parser has the new position: the threads go on there,
Resume ==
    /\ ctl = "parse"
    /\ ended' = {}
    /\ at' = [t \in Thread |-> "idle"]
    /\ halt' = {}
    /\ over' = FALSE /\ hushed' = FALSE
    /\ ctl' = "unblock"
    /\ UNCHANGED <<chunks, local, flags, silent, open, muxed, single,
                   fate, stale, restarts>>

\* and notices are let through again.
Unblock ==
    /\ ctl = "unblock"
    /\ blocked' = FALSE
    /\ ctl' = "run"
    /\ UNCHANGED <<chunks, at, local, changing, contain, first, ended, halt,
                   silent, open, muxed, single, history, restarts>>

\* A playlist or a video chunk that cannot be downloaded makes the controller
\* change the bitrate, in whatever the threads are doing.
ChangeBitrateWhenError ==
    /\ ~silent /\ ~single
    /\ changing' = TRUE /\ blocked' = FALSE
    /\ UNCHANGED <<chunks, at, local, contain, first, ended, control, history,
                   restarts>>

\* A parser that refuses leaves the threads as they are.
ParserFails ==
    /\ ctl = "parse"
    /\ ctl' = "failed"
    /\ UNCHANGED <<chunks, at, local, flags, ended, halt, silent, open, muxed,
                   single, history, restarts>>

\* Close, Open and Start after Stop: the item threads are new objects, the
\* controller is the same one.
Reopen ==
    /\ ctl = "stopped"
    /\ stale' = (stale \/ ended # {})
    /\ silent' = FALSE /\ open' = TRUE /\ halt' = {} /\ ctl' = "run"
    /\ at' = [t \in Thread |-> "idle"]
    /\ agent' = [t \in Thread |-> None] /\ typed' = {}
    /\ muxed' \in BOOLEAN /\ single' \in BOOLEAN
    /\ over' = FALSE /\ hushed' = FALSE
    /\ UNCHANGED <<chunks, kind, found, smooth, result, flags, ended, fate,
                   restarts>>

InChunk(t) ==
    \/ Begin(t) \/ Save(t) \/ Sample(t) \/ Put(t) \/ UsePart(t)
    \/ Downloaded(t) \/ Complete(t) \/ SetAside(t) \/ Ignore(t) \/ Merge(t)
    \/ UsePair(t) \/ UseOwn(t) \/ DropPair(t) \/ Drop(t) \/ Rest(t)

Work(t) ==
    \/ GetChunk(t) \/ GetNothing(t) \/ GetEnd(t) \/ LeaveLoop(t) \/ Notice(t)
    \/ InChunk(t) \/ ReportEnd(t) \/ TestEnd(t) \/ DoEOS(t)

Controller ==
    \/ Seek \/ SetStop \/ CloseCache \/ (\E t \in Thread : Halt(t)) \/ Flush
    \/ Resume \/ Unblock \/ ChangeBitrateWhenError \/ ParserFails \/ Reopen

Next == (\E t \in Thread : Work(t)) \/ Controller

Spec == Init /\ [][Next]_vars

-----------------------------------------------------------------------------
\* Properties

Place ==
    {"idle", "notice", "begin", "save", "load", "put", "outgrown", "full",
     "complete", "end", "use pair", "use", "drop pair", "drop", "rest", "eos",
     "test", "clear", "gone"}

Fate == {"open", "aside", "pushed", "dropped", "lost"}

\* Only what is in the list is marked as set aside, and only begun chunks are
\* in it.
ListType ==
    /\ serial \in 0 .. MaxChunk
    /\ list \subseteq 1 .. serial
    /\ aligned \subseteq list
    /\ agent \in [Thread -> 0 .. MaxChunk]
    /\ found \in [Thread -> 0 .. MaxChunk]
    /\ restarts \in 0 .. MaxRestarts

ChunkType ==
    /\ by \in [Id -> Thread]
    /\ pair \in [Id -> 0 .. MaxChunk]
    /\ holds \in [Id -> SUBSET Id]
    /\ fate \in [Id -> Fate]

ThreadType ==
    /\ at \in [Thread -> Place]
    /\ kind \in [Thread -> {"chunk", "notice", "last"}]
    /\ smooth \in [Thread -> BOOLEAN]
    /\ result \in [Thread -> {"ok", "slow", "failed", "true", "false", "ignore"}]

ControlType ==
    /\ typed \subseteq Thread /\ halt \subseteq Thread
    /\ ended \subseteq {"video", "audio"}
    /\ changing \in BOOLEAN /\ blocked \in BOOLEAN
    /\ contain \in BOOLEAN /\ first \in BOOLEAN
    /\ silent \in BOOLEAN /\ open \in BOOLEAN
    /\ muxed \in BOOLEAN /\ single \in BOOLEAN
    /\ ctl \in {"run", "close", "join", "stopped", "parse", "unblock", "failed"}
    /\ over \in BOOLEAN /\ hushed \in BOOLEAN /\ stale \in BOOLEAN

\* Type invariant
TypeOK == ListType /\ ChunkType /\ ThreadType /\ ControlType

\* The chunks thread t goes on to use without looking them up again: the pair
\* it found, the chunk its samples are put into or that it ends, and the pair
\* of its chunk.
InUse(t) ==
    (IF found[t] = None THEN {} ELSE {found[t]})
    \cup (IF at[t] \in {"put", "outgrown", "use pair", "use", "drop pair",
                        "drop"}
          THEN {agent[t]} ELSE {})
    \cup (IF /\ at[t] \in {"load", "put", "outgrown", "full", "complete",
                            "end", "use pair", "use", "drop pair"}
             /\ agent[t] \in list /\ pair[agent[t]] # None
          THEN {pair[agent[t]]} ELSE {})

\* The list is not locked while a chunk of it is filled, merged or pushed, and
\* any thread that ends may clear it: an audio or video thread never uses a
\* chunk that is freed.  (A subtitle thread does: the end of the others does
\* not wait for it.  And all do after a stream was opened with the end flags
\* of the one before.)
UseLive ==
    ~stale => \A t \in {"video", "audio"} : InUse(t) \subseteq list

\* FindBAChunk takes the first chunk that was set aside: there is no second one
\* that would stay behind.
OneAside == Cardinality(aligned) <= 1

\* Every chunk in the list is the one its thread has, or was set aside: what an
\* item thread is done with is freed.  (After Stop the threads are not heard any
\* more, and forget chunks that are left to the flush.)
NoOrphan == silent \/ \A c \in list \ aligned : agent[by[c]] = c

\* At the end of the stream no audio or video that was downloaded is lost: the
\* last notice of the video thread pushes the chunk that was set aside.  That
\* chunk is lost only without the notice: when the thread never had one track
\* (the chunks hold audio and video, or nothing was found in them), or when
\* notices are kept out.
LostOnlySilently ==
    [][~stale => \A c \in Id :
          (fate[c] # "lost" /\ fate'[c] = "lost")
              => \/ by[c] = "subtitle"
                 \/ (by[c] = "video" /\ ("video" \notin typed \/ hushed))]_vars

\* What a chunk has at its end is pushed; what a chunk holds that has outgrown
\* its capacity is pushed.
Pushed(c) == fate[c] # "pushed" /\ fate'[c] = "pushed"
PartPushed(c) ==
    open /\ \E t \in Thread : at[t] = "outgrown" /\ at'[t] # at[t] /\ agent[t] = c

\* A chunk is pushed after all earlier ones of its thread: when one was set
\* aside for the change of the bitrate, the next one to be pushed takes it
\* along, and no later change pushes it behind its successors.  Nor is a part of
\* a chunk pushed while an earlier one is still to be: putSample does not look at
\* the pair, so a part of a chunk longer than 30 s may go before the one chunk it
\* was to be aligned with, but before no other; and with one stream, where 2 s
\* are enough for it, before none.  (In a stream that was opened with the end
\* flags of the one before, a chunk that is freed in use may be left out.)
InOrder ==
    [][\A c \in Id :
          /\ Pushed(c) => \A d \in Id : by[d] = by[c] =>
                /\ (d < c /\ fate[d] = "aside") => Pushed(d)
                /\ d > c => fate[d] # "pushed"
          /\ PartPushed(c) => \A d \in Id : by[d] = by[c] =>
                /\ (~stale /\ d < c /\ fate[d] \in {"open", "aside"})
                        => d = pair[c] /\ ~single
                /\ d > c => fate[d] # "pushed"]_vars

\* After the end-of-stream markers no audio or video follows, until a seek: both
\* threads have ended when the markers are put.
EndIsEnd ==
    [][(over /\ ~stale) =>
          \A c \in Id :
             Pushed(c) \/ PartPushed(c) => by[c] = "subtitle"]_vars
=============================================================================
