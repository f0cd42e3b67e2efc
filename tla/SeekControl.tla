---------------------------- MODULE SeekControl ----------------------------
(***************************************************************************)
(* Start, Pause, Stop and Seek of the adaptive-streaming controller, its   *)
(* seek thread and its thread that updates the URL, and the item threads   *)
(* all of them start and stop.                                             *)
(*                                                                         *)
(* The application's calls are serialised by the engine (COSBaseSource     *)
(* holds one mutex round them), so they are one process, app.  The flags   *)
(* m_is_stop and m_status are read and written without a lock; a step is   *)
(* one access to them, one wait for a thread, or one call of another       *)
(* object.  Samples are abstracted to the position the manifest parser     *)
(* stood at when their chunk was fetched.                                  *)
(***************************************************************************)
EXTENDS Naturals

CONSTANTS
    NThreads,    \* item threads: audio, video, subtitle, in this order
    Id,          \* identities of threads of the operating system
    NoThread,    \* a null handle
    Position,    \* positions that may be sought
    NoPosition,  \* -1
    Origin,      \* where a stream begins
    MaxSeeks,    \* bounds the calls of Seek
    MaxUpdates,  \* bounds the calls that update the URL
    EarlySeek    \* whether the application seeks before it has started

ASSUME ControlAssumption ==
    /\ NThreads \in Nat \ {0}
    /\ NoThread \notin Id
    /\ NoPosition \notin Position
    /\ Origin \notin Position
    /\ Origin # NoPosition
    /\ EarlySeek \in BOOLEAN
    /\ MaxSeeks \in Nat
    /\ MaxUpdates \in Nat

Thread == 1 .. NThreads
Place == Position \cup {Origin}

VARIABLES
    status,      \* m_status
    isStop,      \* the controller's m_is_stop
    isStart,     \* m_is_start
    isPause,     \* m_is_pause
    position,    \* m_nPositionSeek: asked for, not yet taken
    seeking,     \* m_bSeeking: GetSample refuses
    stopSeek,    \* m_bStopSeek
    lock,        \* who holds m_lockSeekAndUpdate
    app, at,     \* the application's call, and the item thread it is at
    seeker, on,  \* the seek thread, and the item thread it is at
    target,      \* the position the seek thread has taken
    updating,    \* m_bUpdatingURL
    updater,     \* the update thread
    info,        \* m_ptr_info of each item thread is set
    halt,        \* m_is_stop of each item thread
    handle,      \* m_thread_handle of each item thread
    work,        \* what the threads running an item thread's function do
    chunk,       \* where the chunk they carry comes from
    cacheOpen,   \* not CacheManager::m_bStop
    buffer,      \* where the samples in the final buffer come from
    parserAt,    \* where the manifest parser stands
    asks,        \* history: calls of Seek, and of the update
    asked,       \* history: the position asked for last
    sought,      \* history: the position the parser was last sent to
    answered,    \* history: the seek being served was notified
    late         \* history: an event was let through after Stop was called

control == <<status, isStop, isStart, isPause>>
request == <<position, seeking, stopSeek, asked>>
appVars == <<app, at>>
seekVars == <<seeker, on, target, sought, answered>>
updateVars == <<updating, updater>>
itemVars == <<info, halt, handle>>
workVars == <<work, chunk>>
data == <<cacheOpen, buffer, parserAt>>
vars == <<control, request, lock, appVars, seekVars, updateVars, itemVars,
          workVars, data, asks, late>>

AppAt == {"new", "idle", "status", "begin", "create", "flag", "cache",
          "askjoin", "joinseek", "joinupdate", "halt", "join", "uninit",
          "closed"}
SeekerAt == {"none", "test", "take", "lock", "enter", "halt", "close",
             "stop", "join", "flush", "status", "clear", "parser", "setpos",
             "begin", "create", "notify", "done"}
WorkAt == {"none", "loop", "carry", "offer", "pass"}

Init ==
    /\ status = "unknown" /\ isStop = FALSE
    /\ isStart = FALSE /\ isPause = FALSE
    /\ position = NoPosition /\ seeking = FALSE /\ stopSeek = FALSE
    /\ lock = "free"
    /\ app = "new" /\ at = 1
    /\ seeker = "none" /\ on = 1 /\ target = Origin
    /\ updating = FALSE /\ updater = "none"
    /\ info = [k \in Thread |-> FALSE]
    /\ halt = [k \in Thread |-> FALSE]
    /\ handle = [k \in Thread |-> NoThread]
    /\ work = [k \in Thread |-> [i \in Id |-> "none"]]
    /\ chunk = [k \in Thread |-> [i \in Id |-> Origin]]
    /\ cacheOpen = FALSE /\ buffer = {} /\ parserAt = Origin
    /\ asks = [seek |-> 0, update |-> 0]
    /\ asked = Origin /\ sought = Origin
    /\ answered = FALSE /\ late = FALSE

-----------------------------------------------------------------------------
\* Threads of the operating system, and events

\* wait_thread_exit returns: there is nothing to wait for, or it has ended.
Ended(k) == \A i \in Id : handle[k] = i => work[k][i] = "none"

\* Mutant: the handle is forgotten and nothing is waited for.
JoinedUnended(k) == handle' = [handle EXCEPT ![k] = NoThread]

\* vo_thread::stop: wait for the thread and forget its handle.
Joined(k) ==
    /\ Ended(k)
    /\ handle' = [handle EXCEPT ![k] = NoThread]

\* create_thread: the handle of the object is overwritten.
Created(k) == \E i \in Id :
    /\ work[k][i] = "none"
    /\ handle' = [handle EXCEPT ![k] = i]
    /\ work' = [work EXCEPT ![k][i] = "loop"]

\* Stop has set the flags and has not returned.
Stopping == app \in {"cache", "askjoin", "joinseek", "joinupdate", "halt",
                     "join", "uninit"}

\* An event that passes the test in front of the application's callback.
Notified(passes) == late' = (late \/ (passes /\ Stopping))

-----------------------------------------------------------------------------
\* The application

\* Open: everything but the seek thread is created at rest.
Open ==
    /\ app = "new"
    /\ app' = "idle"
    /\ status' = "stop" /\ isStop' = FALSE
    /\ cacheOpen' = TRUE
    /\ seeker' = "test"
    /\ UNCHANGED <<isStart, isPause, request, lock, at, on, target, sought,
                   answered, updateVars, itemVars, workVars, buffer,
                   parserAt, asks, late>>

\* Start of a source that is not started yet.
StartCall ==
    /\ app = "idle" /\ seeker # "none"
    /\ ~isStart /\ ~isPause
    /\ isStop' = FALSE
    /\ app' = "status"
    /\ UNCHANGED <<status, isStart, isPause, request, lock, at, seekVars,
                   updateVars, itemVars, workVars, data, asks, late>>

StartStatus ==
    /\ app = "status"
    /\ status' = "running"
    /\ app' = "begin" /\ at' = 1
    /\ UNCHANGED <<isStop, isStart, isPause, request, lock, seekVars,
                   updateVars, itemVars, workVars, data, asks, late>>

\* voItemThread::Start: set the info, and begin, which waits first.
StartBegin ==
    /\ app = "begin"
    /\ info' = [info EXCEPT ![at] = TRUE]
    /\ Joined(at)
    /\ app' = "create"
    /\ UNCHANGED <<control, request, lock, at, seekVars, updateVars, halt,
                   workVars, data, asks, late>>

StartCreate ==
    /\ app = "create"
    /\ Created(at)
    /\ IF at < NThreads
       THEN app' = "begin" /\ at' = at + 1 /\ UNCHANGED isStart
       ELSE app' = "idle" /\ isStart' = TRUE /\ UNCHANGED at
    /\ UNCHANGED <<status, isStop, isPause, request, lock, seekVars,
                   updateVars, info, halt, chunk, data, asks, late>>

\* Pause and Start of a paused source only toggle a flag.
PauseOrResume ==
    /\ app = "idle" /\ isStart
    /\ isPause' = ~isPause
    /\ UNCHANGED <<status, isStop, isStart, request, lock, appVars, seekVars,
                   updateVars, itemVars, workVars, data, asks, late>>

\* Seek leaves the position to the seek thread, over one not yet taken.
Seek(p) ==
    /\ app = "idle" /\ seeker # "none"
    /\ EarlySeek \/ isStart
    /\ asks.seek < MaxSeeks
    /\ asks' = [asks EXCEPT !.seek = @ + 1]
    /\ position' = p /\ asked' = p
    /\ seeking' = TRUE
    /\ UNCHANGED <<control, stopSeek, lock, appVars, seekVars, updateVars,
                   itemVars, workVars, data, late>>

\* SetParam(UPDATE_SOURCE_URL), refused while an update is said to be under
\* way.
UpdateUrl ==
    /\ app = "idle" /\ seeker # "none"
    /\ ~updating
    /\ asks.update < MaxUpdates
    /\ asks' = [asks EXCEPT !.update = @ + 1]
    /\ updating' = TRUE
    /\ updater' = "lock"
    /\ UNCHANGED <<control, request, lock, appVars, seekVars, itemVars,
                   workVars, data, late>>

StopCall ==
    /\ app = "idle" /\ seeker # "none"
    /\ status' = "stop"
    /\ app' = "flag"
    /\ UNCHANGED <<isStop, isStart, isPause, request, lock, at, seekVars,
                   updateVars, itemVars, workVars, data, asks, late>>

StopFlag ==
    /\ app = "flag"
    /\ isStop' = TRUE
    /\ app' = "cache"
    /\ UNCHANGED <<status, isStart, isPause, request, lock, at, seekVars,
                   updateVars, itemVars, workVars, data, asks, late>>

\* Mutant: the buffer is emptied and the cache left open.
StopCacheOpen ==
    /\ app = "cache"
    /\ buffer' = {}
    /\ app' = "askjoin"
    /\ UNCHANGED <<control, request, lock, at, seekVars, updateVars, itemVars,
                   workVars, cacheOpen, parserAt, asks, late>>

\* voBufferCommander::Stop
StopCache ==
    /\ app = "cache"
    /\ cacheOpen' = FALSE /\ buffer' = {}
    /\ app' = "askjoin"
    /\ UNCHANGED <<control, request, lock, at, seekVars, updateVars, itemVars,
                   workVars, parserAt, asks, late>>

StopSeekThread ==
    /\ app = "askjoin"
    /\ stopSeek' = TRUE
    /\ app' = "joinseek"
    /\ UNCHANGED <<control, position, seeking, asked, lock, at, seekVars,
                   updateVars, itemVars, workVars, data, asks, late>>

JoinSeekThread ==
    /\ app = "joinseek" /\ seeker = "none"
    /\ stopSeek' = FALSE
    /\ app' = "joinupdate"
    /\ UNCHANGED <<control, position, seeking, asked, lock, at, seekVars,
                   updateVars, itemVars, workVars, data, asks, late>>

JoinUpdateThread ==
    /\ app = "joinupdate" /\ updater = "none"
    /\ app' = "halt" /\ at' = 1
    /\ UNCHANGED <<control, request, lock, seekVars, updateVars, itemVars,
                   workVars, data, asks, late>>

\* voChannelItemThread::Stop: raise the flag, wait, lower it.
StopHalt ==
    /\ app = "halt"
    /\ halt' = [halt EXCEPT ![at] = TRUE]
    /\ app' = "join"
    /\ UNCHANGED <<control, request, lock, at, seekVars, updateVars, info,
                   handle, workVars, data, asks, late>>

StopJoin ==
    /\ app = "join"
    /\ Joined(at)
    /\ halt' = [halt EXCEPT ![at] = FALSE]
    /\ IF at < NThreads THEN app' = "halt" /\ at' = at + 1
                        ELSE app' = "uninit" /\ UNCHANGED at
    /\ UNCHANGED <<control, request, lock, seekVars, updateVars, info,
                   workVars, data, asks, late>>

StopUninit ==
    /\ app = "uninit"
    /\ cacheOpen' = FALSE /\ buffer' = {}
    /\ isStart' = FALSE /\ isPause' = FALSE
    /\ app' = "idle"
    /\ UNCHANGED <<status, isStop, request, lock, at, seekVars, updateVars,
                   itemVars, workVars, parserAt, asks, late>>

\* Close of a stopped source: the item threads' objects are deleted.
Close ==
    /\ app = "idle" /\ seeker = "none"
    /\ info' = [k \in Thread |-> FALSE]
    /\ app' = "closed"
    /\ UNCHANGED <<control, request, lock, at, seekVars, updateVars, halt,
                   handle, workVars, data, asks, late>>

-----------------------------------------------------------------------------
\* The seek thread

\* The loop's condition.
SeekLoop ==
    /\ seeker = "test"
    /\ seeker' = IF stopSeek THEN "none" ELSE "take"
    /\ UNCHANGED <<control, request, lock, appVars, on, target, sought,
                   answered, updateVars, itemVars, workVars, data, asks,
                   late>>

\* Take the pending position, under m_lockSeek.
SeekTake ==
    /\ seeker = "take"
    /\ position' = NoPosition
    /\ IF position = NoPosition
       THEN seeker' = "test" /\ UNCHANGED <<target, answered>>
       ELSE seeker' = "lock" /\ target' = position /\ answered' = FALSE
    /\ UNCHANGED <<control, seeking, stopSeek, asked, lock, appVars, on,
                   sought, updateVars, itemVars, workVars, data, asks, late>>

SeekLock ==
    /\ seeker = "lock" /\ lock = "free"
    /\ lock' = "seek"
    /\ seeker' = "enter"
    /\ UNCHANGED <<control, request, appVars, on, target, sought, answered,
                   updateVars, itemVars, workVars, data, asks, late>>

SeekEnter ==
    /\ seeker = "enter"
    /\ seeker' = IF isStop THEN "done" ELSE "halt"
    /\ UNCHANGED <<control, request, lock, appVars, on, target, sought,
                   answered, updateVars, itemVars, workVars, data, asks,
                   late>>

SeekHaltAll ==
    /\ seeker = "halt"
    /\ isStop' = TRUE
    /\ seeker' = "close"
    /\ UNCHANGED <<status, isStart, isPause, request, lock, appVars, on,
                   target, sought, answered, updateVars, itemVars, workVars,
                   data, asks, late>>

\* Mutant: the buffer is emptied and the cache left open.
SeekCloseOpen ==
    /\ seeker = "close"
    /\ buffer' = {}
    /\ seeker' = "stop" /\ on' = 1
    /\ UNCHANGED <<control, request, lock, appVars, target, sought, answered,
                   updateVars, itemVars, workVars, cacheOpen, parserAt, asks,
                   late>>

\* voBufferCommander::Stop
SeekClose ==
    /\ seeker = "close"
    /\ cacheOpen' = FALSE /\ buffer' = {}
    /\ seeker' = "stop" /\ on' = 1
    /\ UNCHANGED <<control, request, lock, appVars, target, sought, answered,
                   updateVars, itemVars, workVars, parserAt, asks, late>>

SeekStop ==
    /\ seeker = "stop"
    /\ halt' = [halt EXCEPT ![on] = TRUE]
    /\ seeker' = "join"
    /\ UNCHANGED <<control, request, lock, appVars, on, target, sought,
                   answered, updateVars, info, handle, workVars, data, asks,
                   late>>

\* Mutant: the last item thread is not waited for.
SeekJoinButLast ==
    /\ seeker = "join"
    /\ Joined(on)
    /\ halt' = [halt EXCEPT ![on] = FALSE]
    /\ IF on + 1 < NThreads THEN seeker' = "stop" /\ on' = on + 1
                            ELSE seeker' = "flush" /\ UNCHANGED on
    /\ UNCHANGED <<control, request, lock, appVars, target, sought, answered,
                   updateVars, info, workVars, data, asks, late>>

SeekJoin ==
    /\ seeker = "join"
    /\ Joined(on)
    /\ halt' = [halt EXCEPT ![on] = FALSE]
    /\ IF on < NThreads THEN seeker' = "stop" /\ on' = on + 1
                        ELSE seeker' = "flush" /\ UNCHANGED on
    /\ UNCHANGED <<control, request, lock, appVars, target, sought, answered,
                   updateVars, info, workVars, data, asks, late>>

\* Mutant: the cache is opened and the buffer not emptied again.
SeekFlushCache ==
    /\ seeker = "flush"
    /\ cacheOpen' = TRUE
    /\ seeker' = "status"
    /\ UNCHANGED <<control, request, lock, appVars, on, target, sought,
                   answered, updateVars, itemVars, workVars, buffer, parserAt,
                   asks, late>>

\* voBufferCommander::Flush opens the cache again.
SeekFlush ==
    /\ seeker = "flush"
    /\ cacheOpen' = TRUE /\ buffer' = {}
    /\ seeker' = "status"
    /\ UNCHANGED <<control, request, lock, appVars, on, target, sought,
                   answered, updateVars, itemVars, workVars, parserAt, asks,
                   late>>

\* The test of m_status, and a step later what depends on it.
SeekStatus ==
    /\ seeker = "status"
    /\ seeker' = IF status = "stop" THEN "done" ELSE "clear"
    /\ UNCHANGED <<control, request, lock, appVars, on, target, sought,
                   answered, updateVars, itemVars, workVars, data, asks,
                   late>>

\* Mutant: the stop flag is left raised.
SeekClearNothing ==
    /\ seeker = "clear"
    /\ seeker' = "parser"
    /\ UNCHANGED <<control, request, lock, appVars, on, target, sought,
                   answered, updateVars, itemVars, workVars, data, asks,
                   late>>

SeekClear ==
    /\ seeker = "clear"
    /\ isStop' = FALSE
    /\ seeker' = "parser"
    /\ UNCHANGED <<status, isStart, isPause, request, lock, appVars, on,
                   target, sought, answered, updateVars, itemVars, workVars,
                   data, asks, late>>

\* Mutant: a refused seek is not notified.
SeekParserSilent ==
    /\ seeker = "parser"
    /\ sought' = target
    /\ \/ parserAt' = target /\ seeker' = "setpos"
       \/ UNCHANGED parserAt /\ seeker' = "done"
    /\ UNCHANGED <<control, request, lock, appVars, on, target, answered,
                   updateVars, itemVars, workVars, cacheOpen, buffer, asks,
                   late>>

\* The manifest parser goes to the position or refuses.
SeekParser ==
    /\ seeker = "parser"
    /\ sought' = target
    /\ \/ parserAt' = target /\ seeker' = "setpos"
       \/ UNCHANGED parserAt /\ seeker' = "notify"
    /\ UNCHANGED <<control, request, lock, appVars, on, target, answered,
                   updateVars, itemVars, workVars, cacheOpen, buffer, asks,
                   late>>

\* voBufferCommander::SetPosition, which empties the buffer too.
SeekSetPos ==
    /\ seeker = "setpos"
    /\ buffer' = {}
    /\ seeker' = "begin" /\ on' = 1
    /\ UNCHANGED <<control, request, lock, appVars, target, sought, answered,
                   updateVars, itemVars, workVars, cacheOpen, parserAt, asks,
                   late>>

\* Mutant: one item thread too many is resumed.
SeekNextItemPast ==
    IF on <= NThreads THEN seeker' = "begin" /\ on' = on + 1
                      ELSE seeker' = "notify" /\ UNCHANGED on

SeekNextItem ==
    IF on < NThreads THEN seeker' = "begin" /\ on' = on + 1
                     ELSE seeker' = "notify" /\ UNCHANGED on

\* voItemThread::Resume: nothing for one that was never started, else begin.
SeekBegin ==
    /\ seeker = "begin"
    /\ \/ ~info[on] /\ SeekNextItem /\ UNCHANGED handle
       \/ info[on] /\ Joined(on) /\ seeker' = "create" /\ UNCHANGED on
    /\ UNCHANGED <<control, request, lock, appVars, target, sought, answered,
                   updateVars, info, halt, workVars, data, asks, late>>

SeekCreate ==
    /\ seeker = "create"
    /\ Created(on)
    /\ SeekNextItem
    /\ UNCHANGED <<control, request, lock, appVars, target, sought, answered,
                   updateVars, info, halt, chunk, data, asks, late>>

\* NotifyEvent(SEEKCOMPLETE) looks at m_is_stop only.
SeekNotify ==
    /\ seeker = "notify"
    /\ Notified(~isStop)
    /\ answered' = ~isStop
    /\ seeker' = "done"
    /\ UNCHANGED <<control, request, lock, appVars, on, target, sought,
                   updateVars, itemVars, workVars, data, asks>>

\* Mutant: GetSample is let in whatever is waiting.
SeekDoneRegardless ==
    /\ seeker = "done"
    /\ seeking' = FALSE
    /\ lock' = "free"
    /\ seeker' = "test"
    /\ UNCHANGED <<control, position, stopSeek, asked, appVars, on, target,
                   sought, answered, updateVars, itemVars, workVars, data,
                   asks, late>>

\* Back in the thread's loop: GetSample is let in again unless another
\* position is waiting.
SeekDone ==
    /\ seeker = "done"
    /\ seeking' = (seeking /\ position # NoPosition)
    /\ lock' = "free"
    /\ seeker' = "test"
    /\ UNCHANGED <<control, position, stopSeek, asked, appVars, on, target,
                   sought, answered, updateVars, itemVars, workVars, data,
                   asks, late>>

-----------------------------------------------------------------------------
\* The update thread: it holds m_lockSeekAndUpdate to its end.

UpdateLock ==
    /\ updater = "lock" /\ lock = "free"
    /\ lock' = "update"
    /\ updater' = "download"
    /\ UNCHANGED <<control, request, appVars, seekVars, updating, itemVars,
                   workVars, data, asks, late>>

\* It ends at once when told to stop; a failed download or a playlist that
\* is not the same ends it as well.  Only success takes the flag back.
UpdateEnd ==
    /\ updater = "download"
    /\ updating' \in IF isStop THEN {updating} ELSE {updating, FALSE}
    /\ Notified(~isStop)
    /\ updater' = "none"
    /\ lock' = "free"
    /\ UNCHANGED <<control, request, appVars, seekVars, itemVars, workVars,
                   data, asks>>

-----------------------------------------------------------------------------
\* Item threads: thread i running the function of object k

Goes(k, i, from, to) ==
    /\ work[k][i] = from
    /\ work' = [work EXCEPT ![k][i] = to]

Emptied(k, i) == chunk' = [chunk EXCEPT ![k][i] = Origin]

\* The loop's condition; or the stream has ended, its end-of-stream marker
\* having been a chunk like the others.
Leave(k, i) ==
    /\ Goes(k, i, "loop", "none")
    /\ UNCHANGED <<control, request, lock, appVars, seekVars, updateVars,
                   itemVars, chunk, data, asks, late>>

Fetch(k, i) ==
    /\ ~halt[k]
    /\ Goes(k, i, "loop", "carry")
    /\ chunk' = [chunk EXCEPT ![k][i] = parserAt]
    /\ UNCHANGED <<control, request, lock, appVars, seekVars, updateVars,
                   itemVars, data, asks, late>>

\* The events of a chunk: OnEvent is silent once both flags say stop.
Report(k, i) ==
    /\ Goes(k, i, "carry", "offer")
    /\ Notified(~(isStop /\ status = "stop"))
    /\ UNCHANGED <<control, request, lock, appVars, seekVars, updateVars,
                   itemVars, chunk, data, asks>>

\* A pass of useChunk begins if the cache is open, else the chunk is dropped.
BeginPass(k, i) ==
    /\ \/ cacheOpen /\ Goes(k, i, "offer", "pass") /\ UNCHANGED chunk
       \/ ~cacheOpen /\ Goes(k, i, "offer", "loop") /\ Emptied(k, i)
    /\ UNCHANGED <<control, request, lock, appVars, seekVars, updateVars,
                   itemVars, data, asks, late>>

\* The pass puts the samples into the buffer, or the buffer is full.
EndPass(k, i) ==
    /\ \/ /\ Goes(k, i, "pass", "loop")
          /\ buffer' = buffer \cup {chunk[k][i]}
          /\ Emptied(k, i)
       \/ Goes(k, i, "pass", "offer") /\ UNCHANGED <<buffer, chunk>>
    /\ UNCHANGED <<control, request, lock, appVars, seekVars, updateVars,
                   itemVars, cacheOpen, parserAt, asks, late>>

-----------------------------------------------------------------------------
Application ==
    \/ StartStatus \/ StartBegin \/ StartCreate
    \/ StopFlag \/ StopCache \/ StopSeekThread \/ JoinSeekThread
    \/ JoinUpdateThread \/ StopHalt \/ StopJoin \/ StopUninit

Calls ==
    \/ Open \/ StartCall \/ PauseOrResume \/ UpdateUrl \/ StopCall \/ Close
    \/ \E p \in Position : Seek(p)

AsyncSeekThread ==
    \/ SeekLoop \/ SeekTake \/ SeekLock \/ SeekEnter \/ SeekHaltAll
    \/ SeekClose \/ SeekStop \/ SeekJoin \/ SeekFlush \/ SeekStatus
    \/ SeekClear \/ SeekParser \/ SeekSetPos \/ SeekBegin \/ SeekCreate
    \/ SeekNotify \/ SeekDone

AsyncUpdateUrlThread == UpdateLock \/ UpdateEnd

ItemThread(k, i) ==
    \/ Leave(k, i) \/ Fetch(k, i) \/ Report(k, i)
    \/ BeginPass(k, i) \/ EndPass(k, i)

Next ==
    \/ Application \/ Calls \/ AsyncSeekThread \/ AsyncUpdateUrlThread
    \/ \E k \in Thread, i \in Id : ItemThread(k, i)

\* A call that was made goes on, and the threads run.
Fairness ==
    /\ WF_vars(Application)
    /\ WF_vars(AsyncSeekThread)
    /\ WF_vars(AsyncUpdateUrlThread)
    /\ \A k \in Thread, i \in Id : WF_vars(ItemThread(k, i))

Spec == Init /\ [][Next]_vars /\ Fairness

-----------------------------------------------------------------------------
(***************************************************************************)
(* Properties                                                              *)
(***************************************************************************)

\* Every variable has its type.
TypeOK ==
    /\ status \in {"unknown", "stop", "running"}
    /\ isStop \in BOOLEAN /\ isStart \in BOOLEAN /\ isPause \in BOOLEAN
    /\ seeking \in BOOLEAN /\ stopSeek \in BOOLEAN /\ updating \in BOOLEAN
    /\ answered \in BOOLEAN /\ late \in BOOLEAN
    /\ position \in Position \cup {NoPosition}
    /\ lock \in {"free", "seek", "update"}
    /\ app \in AppAt /\ at \in Thread
    /\ seeker \in SeekerAt /\ on \in Thread
    /\ updater \in {"none", "lock", "download"}
    /\ info \in [Thread -> BOOLEAN] /\ halt \in [Thread -> BOOLEAN]
    /\ handle \in [Thread -> Id \cup {NoThread}]
    /\ work \in [Thread -> [Id -> WorkAt]]
    /\ chunk \in [Thread -> [Id -> Place]]
    /\ cacheOpen \in BOOLEAN
    /\ buffer \subseteq Place /\ parserAt \in Place
    /\ target \in Place /\ asked \in Place /\ sought \in Place
    /\ asks \in [seek : Nat, update : Nat]

\* An item thread that exists is the one its object's handle names, so that
\* no object's function runs twice and every thread is waited for: begin is
\* called by Start, Stop and the seek thread in turn, with no lock.
KnownThreads ==
    \A k \in Thread, i \in Id : work[k][i] # "none" => handle[k] = i

\* While the manifest parser is sent to another position, no item thread is
\* there to ask it for a chunk; and none is left when Stop has returned.
ParserAlone ==
    seeker \in {"parser", "setpos"} \/ (app = "idle" /\ seeker = "none")
        => \A k \in Thread, i \in Id : work[k][i] = "none"

\* Nothing tells downloads to stop while the source runs and no seek is being
\* served: SetStopFlag's calls by the seek thread are paired, under the lock
\* that the update of the URL also takes.
RunsOn == status = "running" /\ lock # "seek" => ~isStop

\* When GetSample is let in, what it can find was fetched at the position
\* that was asked for last.
FreshSamples == status = "running" /\ ~seeking => buffer \subseteq {asked}

\* When GetSample is let in, the parser was sent to the position that was
\* asked for last: a position asked for while another is served is not lost.
LastSeekWins == status = "running" /\ ~seeking => sought = asked

\* A seek that is done was notified to the application, unless Stop was
\* called meanwhile.
SeekAnswered == seeker = "done" => answered \/ app = "flag" \/ Stopping

\* Once Stop has been called, no event is let through to the application.
NoEventAfterStop == ~late

\* An update of the URL is refused only while one is under way.
RefusedOnlyWhileUpdating == updating => updater # "none"

\* Stop returns: every thread it waits for ends.
StopReturns == app = "flag" ~> app = "idle"

\* GetSample is let in again after every seek, unless the source is stopped.
SeekServed == seeking ~> ~seeking \/ status = "stop"

=============================================================================
