------------------------- MODULE SeekControlProofs -------------------------
(***************************************************************************)
(* What TLAPS proves about SeekControl, for any number of item threads,    *)
(* any number of seeks and updates, provided the application seeks only    *)
(* after it has started (EarlySeek = FALSE; with TRUE, TLC refutes all of  *)
(* it).                                                                    *)
(*                                                                         *)
(* The properties rest on who may act when.  OrderInv says that: Start is  *)
(* over before a seek is taken, the seek thread is gone before Stop comes  *)
(* to the item threads, and the lock is held by who serves.  ThreadInv     *)
(* says which item threads are waited for at each point, DataInv where the *)
(* samples and the parser stand.                                           *)
(***************************************************************************)
EXTENDS SeekControl, TLAPS

\* The seek thread has a position in hand, up to where the parser gets it.
Bearing == {"lock", "enter", "halt", "close", "stop", "join", "flush",
            "status", "clear", "parser"}
\* It holds the lock.
Serving == {"enter", "halt", "close", "stop", "join", "flush", "status",
            "clear", "parser", "setpos", "begin", "create", "notify", "done"}
\* It has set the stop flag and not taken it back.
Halting == {"close", "stop", "join", "flush", "status", "clear"}
\* It has waited for all item threads and started none.
Quiet == {"flush", "status", "clear", "parser", "setpos"}

InStart == {"status", "begin", "create"}
InStop == {"flag", "cache", "askjoin", "joinseek", "joinupdate", "halt",
           "join", "uninit"}

\* Who may act when, and what the flags are then.
OrderInv ==
    /\ stopSeek => app = "joinseek"
    /\ app \in {"joinupdate", "halt", "join", "uninit", "closed", "new"}
           => seeker = "none"
    /\ app \in InStart => ~isStart /\ seeker # "none"
    /\ app = "new" \/ (~isStart /\ seeker # "none")
           => position = NoPosition /\ ~isStart
    /\ ~isStart => seeker \in {"none", "test", "take"}
    /\ seeker = "none" => status # "running"
    /\ app \in InStop => status = "stop"
    /\ app = "status" => ~isStop
    /\ isStart /\ app \notin InStop => status = "running"
    /\ app \in {"begin", "create"} => status = "running"
    /\ SeekAnswered
    /\ status = "running" /\ seeker \notin Halting => ~isStop
    /\ lock = "seek" <=> seeker \in Serving
    /\ lock = "update" <=> updater = "download"
    /\ updater # "none" => updating

\* Which item threads have been waited for.
ThreadInv ==
    /\ KnownThreads
    /\ app = "create" => handle[at] = NoThread
    /\ seeker = "create" => handle[on] = NoThread
    /\ seeker \in {"stop", "join"}
           => \A k \in Thread : k < on => handle[k] = NoThread
    /\ seeker \in Quiet => \A k \in Thread : handle[k] = NoThread
    /\ app \in {"halt", "join"}
           => \A k \in Thread : k < at => handle[k] = NoThread
    /\ app \in {"new", "uninit", "closed"} \/ (app = "idle" /\ seeker = "none")
           => \A k \in Thread : handle[k] = NoThread

\* Where the last position asked for has got to.
RequestInv ==
    /\ position # NoPosition => seeking /\ position = asked
    /\ seeker \in Bearing \cup Serving => seeking
    /\ position = NoPosition /\ seeker \in Bearing => target = asked
    /\ position = NoPosition /\ seeker \notin Bearing /\ status = "running"
           => sought = asked
    /\ app = "new" \/ (~isStart /\ seeker # "none")
           => sought = Origin /\ asked = Origin /\ parserAt = Origin
    /\ seeker \in {"setpos", "begin", "create"} => parserAt = sought

\* What is carried and buffered comes from where the parser stands.
DataInv ==
    /\ seeker \in {"status", "clear", "parser", "setpos"} => buffer = {}
    /\ buffer \subseteq {parserAt}
    /\ \A k \in Thread, i \in Id :
           work[k][i] \in {"carry", "offer", "pass"} => chunk[k][i] = parserAt
    /\ parserAt # sought
           => buffer = {} /\ \A k \in Thread : handle[k] = NoThread

IInv == TypeOK /\ OrderInv /\ ThreadInv /\ RequestInv /\ DataInv

ItemStep == \E k \in Thread, i \in Id : ItemThread(k, i)

LEMMA InitIInv == Init => IInv
<1> USE ControlAssumption DEF Init, Thread, Place
<1>1. ASSUME Init PROVE TypeOK
  <2>1. 1 \in Thread
    OBVIOUS
  <2>2. info \in [Thread -> BOOLEAN] /\ halt \in [Thread -> BOOLEAN]
        /\ handle \in [Thread -> Id \cup {NoThread}]
    BY <1>1
  <2>3. work \in [Thread -> [Id -> WorkAt]] /\ chunk \in [Thread -> [Id -> Place]]
    BY <1>1 DEF WorkAt
  <2>4. asks \in [seek : Nat, update : Nat]
    BY <1>1
  <2> QED BY <1>1, <2>1, <2>2, <2>3, <2>4 DEF TypeOK, AppAt, SeekerAt
<1>2. Init => OrderInv /\ RequestInv
  BY DEF OrderInv, RequestInv, InStart, InStop, Halting, Serving, Bearing,
     SeekAnswered
<1>3. Init => ThreadInv /\ DataInv
  BY DEF ThreadInv, DataInv, KnownThreads, Quiet
<1> QED BY <1>1, <1>2, <1>3 DEF IInv

LEMMA OrderStep ==
  ASSUME EarlySeek = FALSE, TypeOK, OrderInv, [Next]_vars
  PROVE  OrderInv'
<1> USE DEF OrderInv, InStart, InStop, Halting, Serving, SeekAnswered, Stopping
<1>1. CASE Application
  BY <1>1 DEF Application, StartStatus, StartBegin, StartCreate, StopFlag,
     StopCache, StopSeekThread, JoinSeekThread, JoinUpdateThread, StopHalt,
     StopJoin, StopUninit, control, request, appVars, seekVars, updateVars
<1>2. CASE Calls
  BY <1>2, ControlAssumption DEF Calls, Open, StartCall, PauseOrResume, UpdateUrl, StopCall,
     Close, Seek, control, request, appVars, seekVars, updateVars
<1>3. CASE AsyncSeekThread
  <2> USE DEF control, request, appVars, seekVars, updateVars
  <2>1. CASE SeekLoop \/ SeekTake \/ SeekLock \/ SeekEnter \/ SeekHaltAll
    BY <2>1 DEF SeekLoop, SeekTake, SeekLock, SeekEnter, SeekHaltAll
  <2>2. CASE SeekClose \/ SeekStop \/ SeekJoin \/ SeekFlush \/ SeekStatus
    BY <2>2 DEF SeekClose, SeekStop, SeekJoin, SeekFlush, SeekStatus
  <2>3. CASE SeekClear \/ SeekParser \/ SeekSetPos
    BY <2>3 DEF SeekClear, SeekParser, SeekSetPos
  <2>4. CASE SeekBegin \/ SeekCreate \/ SeekDone
    BY <2>4 DEF SeekBegin, SeekCreate, SeekDone, SeekNextItem
  <2>5. CASE SeekNotify
    <3>1. isStop => app \in InStop
      BY <2>5 DEF SeekNotify
    <3>2. seeker' = "done" => answered' \/ app \in InStop
      BY <2>5, <3>1, Zenon DEF SeekNotify
    <3>3. app \notin {"joinupdate", "halt", "join", "uninit"}
      BY <2>5 DEF SeekNotify
    <3> QED BY <2>5, <3>2, <3>3 DEF SeekNotify
  <2> QED BY <1>3, <2>1, <2>2, <2>3, <2>4, <2>5 DEF AsyncSeekThread
<1>4. CASE AsyncUpdateUrlThread
  <2> USE DEF control, request, appVars, seekVars
  <2>1. CASE UpdateLock
    BY <2>1 DEF UpdateLock
  <2>2. CASE UpdateEnd
    BY <2>2 DEF UpdateEnd
  <2> QED BY <1>4, <2>1, <2>2 DEF AsyncUpdateUrlThread
<1>5. CASE ItemStep
  BY <1>5 DEF ItemStep, ItemThread, Leave, Fetch, Report, BeginPass, EndPass,
     control, request, appVars, seekVars, updateVars
<1>6. CASE UNCHANGED vars
  BY <1>6 DEF vars, control, request, appVars, seekVars, updateVars
<1> QED BY <1>1, <1>2, <1>3, <1>4, <1>5, <1>6 DEF Next, ItemStep

\* Nothing runs in an object whose handle is null.
LEMMA NoneRuns ==
  ASSUME KnownThreads, NEW k \in Thread, handle[k] = NoThread
  PROVE  \A i \in Id : work[k][i] = "none"
  BY ControlAssumption DEF KnownThreads

\* Waiting for a thread leaves none behind.
LEMMA JoinedKnown ==
  ASSUME TypeOK, KnownThreads, NEW k \in Thread, Joined(k), UNCHANGED work
  PROVE  KnownThreads' /\ handle'[k] = NoThread
         /\ \A j \in Thread : j # k => handle'[j] = handle[j]
  BY DEF TypeOK, KnownThreads, Joined, Ended

\* A thread created for a null handle is the only one of its object.
LEMMA CreatedKnown ==
  ASSUME TypeOK, KnownThreads, NEW k \in Thread, handle[k] = NoThread,
         Created(k)
  PROVE  KnownThreads' /\ \A j \in Thread : j # k => handle'[j] = handle[j]
<1>1. PICK i \in Id : /\ handle' = [handle EXCEPT ![k] = i]
                     /\ work' = [work EXCEPT ![k][i] = "loop"]
  BY DEF Created
<1>2. \A m \in Id : work[k][m] = "none"
  BY NoneRuns
<1> QED BY <1>1, <1>2 DEF TypeOK, KnownThreads

\* A step of a thread that exists keeps it in its object's handle.
LEMMA GoesKnown ==
  ASSUME TypeOK, KnownThreads, NEW k \in Thread, NEW i \in Id,
         NEW from, from # "none", NEW to, Goes(k, i, from, to),
         UNCHANGED handle
  PROVE  KnownThreads' /\ handle[k] # NoThread
  BY ControlAssumption DEF TypeOK, KnownThreads, Goes

LEMMA ItemStepKnown ==
  ASSUME TypeOK, KnownThreads, ItemStep
  PROVE  KnownThreads' /\ UNCHANGED <<handle, control, appVars, seekVars>>
<1>1. PICK k \in Thread, i \in Id : ItemThread(k, i)
  BY DEF ItemStep
<1>2. UNCHANGED <<handle, control, appVars, seekVars>>
  BY <1>1 DEF ItemThread, Leave, Fetch, Report, BeginPass, EndPass, itemVars
<1>3. PICK from \in WorkAt \ {"none"}, to \in WorkAt : Goes(k, i, from, to)
  BY <1>1 DEF ItemThread, Leave, Fetch, Report, BeginPass, EndPass, WorkAt
<1> QED BY <1>2, <1>3, GoesKnown

LEMMA ThreadStep ==
  ASSUME EarlySeek = FALSE, TypeOK, OrderInv, ThreadInv, [Next]_vars
  PROVE  ThreadInv'
<1> USE DEF ThreadInv, Quiet
<1> Thread \subseteq Nat /\ at \in Thread /\ on \in Thread
  BY ControlAssumption DEF Thread, TypeOK
<1>1. CASE StartBegin
  <2>1. KnownThreads' /\ handle'[at] = NoThread
    BY <1>1, JoinedKnown DEF StartBegin, workVars
  <2>2. seeker \in {"test", "take"} /\ seeker' = seeker /\ app' = "create"
        /\ at' = at
    BY <1>1 DEF StartBegin, OrderInv, InStart, seekVars
  <2> QED BY <2>1, <2>2
<1>2. CASE StartCreate
  <2>1. KnownThreads'
    BY <1>2, CreatedKnown DEF StartCreate
  <2>2. seeker \in {"test", "take"} /\ seeker' = seeker
        /\ app' \in {"begin", "idle"}
    BY <1>2 DEF StartCreate, OrderInv, InStart, seekVars
  <2> QED BY <2>1, <2>2
<1>3. CASE StopJoin
  <2>1. KnownThreads' /\ handle'[at] = NoThread
        /\ \A j \in Thread : j # at => handle'[j] = handle[j]
    BY <1>3, JoinedKnown DEF StopJoin, workVars
  <2>2. seeker = "none" /\ seeker' = seeker
    BY <1>3 DEF StopJoin, OrderInv, seekVars
  <2>3. CASE at < NThreads
    BY <1>3, <2>1, <2>2, <2>3 DEF StopJoin
  <2>4. CASE ~(at < NThreads)
    <3>1. \A j \in Thread : j # at => j < at
      BY <2>4, ControlAssumption DEF Thread
    <3> QED BY <1>3, <2>1, <2>2, <2>4, <3>1 DEF StopJoin
  <2> QED BY <2>3, <2>4
<1>4. CASE SeekJoin
  <2>1. KnownThreads' /\ handle'[on] = NoThread
        /\ \A j \in Thread : j # on => handle'[j] = handle[j]
    BY <1>4, JoinedKnown DEF SeekJoin, workVars
  <2>2. app' = app /\ app \notin {"create", "halt", "join", "new", "uninit",
                                "closed"}
    BY <1>4 DEF SeekJoin, OrderInv, InStart, appVars
  <2>3. CASE on < NThreads
    BY <1>4, <2>1, <2>2, <2>3 DEF SeekJoin
  <2>4. CASE ~(on < NThreads)
    <3>1. \A j \in Thread : j # on => j < on
      BY <2>4, ControlAssumption DEF Thread
    <3> QED BY <1>4, <2>1, <2>2, <2>4, <3>1 DEF SeekJoin
  <2> QED BY <2>3, <2>4
<1>5. CASE SeekBegin
  <2>1. app' = app /\ app \notin {"create", "halt", "join", "new", "uninit",
                                "closed"}
    BY <1>5 DEF SeekBegin, OrderInv, InStart, appVars
  <2>2. CASE ~info[on] /\ SeekNextItem /\ UNCHANGED handle
    BY <1>5, <2>1, <2>2 DEF SeekBegin, SeekNextItem, KnownThreads, workVars
  <2>3. CASE info[on] /\ Joined(on) /\ seeker' = "create" /\ UNCHANGED on
    <3>1. KnownThreads' /\ handle'[on] = NoThread
      BY <1>5, <2>3, JoinedKnown DEF SeekBegin, workVars
    <3> QED BY <2>1, <2>3, <3>1
  <2> QED BY <1>5, <2>2, <2>3 DEF SeekBegin
<1>6. CASE SeekCreate
  <2>1. KnownThreads'
    BY <1>6, CreatedKnown DEF SeekCreate
  <2>2. app' = app /\ app \notin {"create", "halt", "join", "new", "uninit",
                                "closed"}
    BY <1>6 DEF SeekCreate, OrderInv, InStart, appVars
  <2> QED BY <1>6, <2>1, <2>2 DEF SeekCreate, SeekNextItem
<1>7. CASE ItemStep
  BY <1>7, ItemStepKnown DEF appVars, seekVars
<1>8. CASE Application /\ ~StartBegin /\ ~StartCreate /\ ~StopJoin
  <2>1. UNCHANGED <<handle, work>>
    BY <1>8 DEF Application, StartStatus, StopFlag, StopCache, StopSeekThread,
       JoinSeekThread, JoinUpdateThread, StopHalt, StopUninit, itemVars,
       workVars
  <2>2. KnownThreads'
    BY <2>1 DEF KnownThreads
  <2> QED BY <1>8, <2>1, <2>2 DEF Application, StartStatus, StopFlag,
         StopCache, StopSeekThread, JoinSeekThread, JoinUpdateThread,
         StopHalt, StopUninit, seekVars, Thread
<1>9. CASE Calls
  <2>1. UNCHANGED <<handle, work>>
    BY <1>9 DEF Calls, Open, StartCall, PauseOrResume, UpdateUrl, StopCall,
       Close, Seek, itemVars, workVars
  <2>2. KnownThreads'
    BY <2>1 DEF KnownThreads
  <2> QED BY <1>9, <2>1, <2>2 DEF Calls, Open, StartCall, PauseOrResume,
         UpdateUrl, StopCall, Close, Seek, appVars, seekVars
<1>10. CASE AsyncSeekThread /\ ~SeekJoin /\ ~SeekBegin /\ ~SeekCreate
  <2>1. UNCHANGED <<handle, work>>
    BY <1>10 DEF AsyncSeekThread, SeekLoop, SeekTake, SeekLock, SeekEnter,
       SeekHaltAll, SeekClose, SeekStop, SeekFlush, SeekStatus, SeekClear,
       SeekParser, SeekSetPos, SeekNotify, SeekDone, itemVars, workVars
  <2>2. KnownThreads'
    BY <2>1 DEF KnownThreads
  <2>3. seeker = "test" /\ seeker' = "none" => app # "idle"
    BY <1>10 DEF AsyncSeekThread, SeekLoop, SeekTake, SeekLock, SeekEnter,
       SeekHaltAll, SeekClose, SeekStop, SeekFlush, SeekStatus, SeekClear,
       SeekParser, SeekSetPos, SeekNotify, SeekDone, OrderInv
  <2> QED BY <1>10, <2>1, <2>2, <2>3 DEF AsyncSeekThread, SeekLoop, SeekTake,
         SeekLock, SeekEnter, SeekHaltAll, SeekClose, SeekStop, SeekFlush,
         SeekStatus, SeekClear, SeekParser, SeekSetPos, SeekNotify, SeekDone,
         appVars, Thread
<1>11. CASE AsyncUpdateUrlThread \/ UNCHANGED vars
  <2>1. UNCHANGED <<handle, work, appVars, seekVars>>
    BY <1>11 DEF AsyncUpdateUrlThread, UpdateLock, UpdateEnd, vars, itemVars,
       workVars
  <2> QED BY <2>1 DEF KnownThreads, appVars, seekVars
<1> QED BY <1>1, <1>2, <1>3, <1>4, <1>5, <1>6, <1>7, <1>8, <1>9, <1>10, <1>11
       DEF Next, ItemStep

LEMMA RequestStep ==
  ASSUME EarlySeek = FALSE, TypeOK, OrderInv, RequestInv, [Next]_vars
  PROVE  RequestInv'
<1> USE DEF RequestInv, OrderInv, InStart, InStop, Bearing, Serving, Halting
<1>1. CASE Application
  BY <1>1 DEF Application, StartStatus, StartBegin, StartCreate, StopFlag,
     StopCache, StopSeekThread, JoinSeekThread, JoinUpdateThread, StopHalt,
     StopJoin, StopUninit, control, request, appVars, seekVars, data
<1>2. CASE Calls
  BY <1>2, ControlAssumption DEF Calls, Open, StartCall, PauseOrResume,
     UpdateUrl, StopCall, Close, Seek, control, request, appVars, seekVars,
     data
<1>3. CASE AsyncSeekThread
  <2> USE DEF control, request, appVars, seekVars, data
  <2>1. CASE SeekLoop \/ SeekTake \/ SeekLock \/ SeekEnter \/ SeekHaltAll
    BY <2>1 DEF SeekLoop, SeekTake, SeekLock, SeekEnter, SeekHaltAll
  <2>2. CASE SeekClose \/ SeekStop \/ SeekJoin \/ SeekFlush \/ SeekStatus
    BY <2>2 DEF SeekClose, SeekStop, SeekJoin, SeekFlush, SeekStatus
  <2>3. CASE SeekClear \/ SeekParser \/ SeekSetPos
    BY <2>3 DEF SeekClear, SeekParser, SeekSetPos
  <2>4. CASE SeekBegin \/ SeekCreate \/ SeekNotify \/ SeekDone
    BY <2>4 DEF SeekBegin, SeekCreate, SeekNotify, SeekDone, SeekNextItem
  <2> QED BY <1>3, <2>1, <2>2, <2>3, <2>4 DEF AsyncSeekThread
<1>4. CASE AsyncUpdateUrlThread
  BY <1>4 DEF AsyncUpdateUrlThread, UpdateLock, UpdateEnd, control, request,
     appVars, seekVars, data
<1>5. CASE ItemStep
  BY <1>5 DEF ItemStep, ItemThread, Leave, Fetch, Report, BeginPass, EndPass,
     control, request, appVars, seekVars, data
<1>6. CASE UNCHANGED vars
  BY <1>6 DEF vars, control, request, appVars, seekVars, data
<1> QED BY <1>1, <1>2, <1>3, <1>4, <1>5, <1>6 DEF Next, ItemStep

\* Steps that leave samples and parser alone, and create item threads only
\* when the parser stands where it was sent.
LEMMA DataKept ==
  ASSUME TypeOK, DataInv, NEW k \in Thread,
         \/ UNCHANGED handle \/ Joined(k)
         \/ Created(k) /\ parserAt = sought,
         UNCHANGED work \/ Created(k),
         UNCHANGED <<chunk, buffer, parserAt, sought>>,
         seeker' \in {"status", "clear", "parser", "setpos"} =>
             seeker \in {"status", "clear", "parser", "setpos"}
  PROVE  DataInv'
<1>1. \A j \in Thread, i \in Id :
        work'[j][i] \in {"carry", "offer", "pass"} => work'[j][i] = work[j][i]
  BY DEF Created, TypeOK
<1>2. parserAt # sought => \A j \in Thread : handle'[j] = NoThread
  BY DEF Joined, DataInv, TypeOK
<1> QED BY <1>1, <1>2 DEF DataInv

LEMMA DataStep ==
  ASSUME EarlySeek = FALSE, IInv, [Next]_vars
  PROVE  DataInv'
<1> USE DEF IInv
<1> at \in Thread /\ on \in Thread /\ 1 \in Thread
  BY ControlAssumption DEF TypeOK, Thread
<1>1. CASE StartBegin
  BY <1>1, DataKept DEF StartBegin, seekVars, workVars, data
<1>2. CASE StartCreate
  <2>1. parserAt = sought
    BY <1>2 DEF StartCreate, OrderInv, RequestInv, InStart
  <2> QED BY <1>2, <2>1, DataKept DEF StartCreate, seekVars, data
<1>3. CASE StopJoin
  BY <1>3, DataKept DEF StopJoin, seekVars, workVars, data
<1>4. CASE StopCache \/ StopUninit \/ SeekClose \/ SeekFlush \/ SeekSetPos
  BY <1>4 DEF StopCache, StopUninit, SeekClose, SeekFlush, SeekSetPos,
     DataInv, seekVars, itemVars, workVars
<1>5. CASE Application /\ ~StartBegin /\ ~StartCreate /\ ~StopJoin
           /\ ~StopCache /\ ~StopUninit
  BY <1>5 DEF Application, StartStatus, StopFlag, StopSeekThread,
     JoinSeekThread, JoinUpdateThread, StopHalt, DataInv, seekVars, itemVars,
     workVars, data
<1>6. CASE Calls
  BY <1>6 DEF Calls, Open, StartCall, PauseOrResume, UpdateUrl, StopCall,
     Close, Seek, DataInv, seekVars, itemVars, workVars, data
<1>7. CASE SeekJoin
  BY <1>7, DataKept DEF SeekJoin, workVars, data
<1>8. CASE SeekParser
  <2>1. buffer = {} /\ \A k \in Thread : handle[k] = NoThread
    BY <1>8 DEF SeekParser, DataInv, ThreadInv, Quiet
  <2>2. \A k \in Thread, i \in Id : work[k][i] = "none"
    BY <2>1, NoneRuns DEF ThreadInv
  <2> QED BY <1>8, <2>1, <2>2 DEF SeekParser, DataInv, itemVars, workVars
<1>9. CASE SeekBegin
  BY <1>9, DataKept DEF SeekBegin, SeekNextItem, workVars, data
<1>10. CASE SeekCreate
  <2>1. parserAt = sought
    BY <1>10 DEF SeekCreate, RequestInv
  <2> QED BY <1>10, <2>1, DataKept DEF SeekCreate, SeekNextItem, data
<1>11. CASE AsyncSeekThread /\ ~SeekClose /\ ~SeekFlush /\ ~SeekSetPos
            /\ ~SeekJoin /\ ~SeekParser /\ ~SeekBegin /\ ~SeekCreate
  BY <1>11 DEF AsyncSeekThread, SeekLoop, SeekTake, SeekLock, SeekEnter,
     SeekHaltAll, SeekStop, SeekStatus, SeekClear, SeekNotify, SeekDone,
     DataInv, itemVars, workVars, data
<1>12. CASE AsyncUpdateUrlThread \/ UNCHANGED vars
  BY <1>12 DEF AsyncUpdateUrlThread, UpdateLock, UpdateEnd, DataInv, vars,
     seekVars, itemVars, workVars, data
<1>13. CASE ItemStep
  <2>1. PICK k \in Thread, i \in Id : ItemThread(k, i)
    BY <1>13 DEF ItemStep
  <2>2. UNCHANGED <<handle, seeker, sought, parserAt>>
    BY <2>1 DEF ItemThread, Leave, Fetch, Report, BeginPass, EndPass,
       itemVars, seekVars, data
  <2>3. work[k][i] # "none" /\ handle[k] # NoThread
    BY <2>1, NoneRuns DEF ItemThread, Leave, Fetch, Report, BeginPass,
       EndPass, Goes, ThreadInv
  <2>4. \A j \in Thread, m \in Id :
          work'[j][m] \in {"carry", "offer", "pass"} => chunk'[j][m] = parserAt
    <3> USE DEF Goes, TypeOK, DataInv
    <3>1. CASE Leave(k, i)
      BY <3>1 DEF Leave
    <3>2. CASE Fetch(k, i)
      BY <3>2 DEF Fetch
    <3>3. CASE Report(k, i)
      BY <3>3 DEF Report
    <3>4. CASE BeginPass(k, i)
      <4>1. CASE Goes(k, i, "offer", "pass") /\ UNCHANGED chunk
        BY <2>2, <4>1
      <4>2. CASE Goes(k, i, "offer", "loop") /\ Emptied(k, i)
        BY <2>2, <4>2 DEF Emptied
      <4> QED BY <3>4, <4>1, <4>2 DEF BeginPass
    <3>5. CASE EndPass(k, i)
      <4>1. CASE Goes(k, i, "pass", "loop") /\ Emptied(k, i)
        BY <2>2, <4>1 DEF Emptied
      <4>2. CASE Goes(k, i, "pass", "offer") /\ UNCHANGED chunk
        BY <2>2, <4>2
      <4> QED BY <3>5, <4>1, <4>2 DEF EndPass
    <3> QED BY <2>1, <3>1, <3>2, <3>3, <3>4, <3>5 DEF ItemThread
  <2>5. buffer' \subseteq {parserAt}
    BY <2>1 DEF ItemThread, Leave, Fetch, Report, BeginPass, EndPass, Goes,
       DataInv, data
  <2>6. parserAt = sought
    BY <2>3 DEF DataInv
  <2>7. seeker \notin {"status", "clear", "parser", "setpos"}
    BY <2>3 DEF ThreadInv, Quiet
  <2> QED BY <2>2, <2>4, <2>5, <2>6, <2>7 DEF DataInv
<1> QED BY <1>1, <1>2, <1>3, <1>4, <1>5, <1>6, <1>7, <1>8, <1>9, <1>10,
        <1>11, <1>12, <1>13 DEF Next, Application, AsyncSeekThread, ItemStep

\* TypeOK in four parts: flags, what the threads are at, the item threads,
\* and positions.
FlagsOK ==
    /\ isStop \in BOOLEAN /\ isStart \in BOOLEAN /\ isPause \in BOOLEAN
    /\ seeking \in BOOLEAN /\ stopSeek \in BOOLEAN /\ updating \in BOOLEAN
    /\ answered \in BOOLEAN /\ late \in BOOLEAN /\ cacheOpen \in BOOLEAN

ControlOK ==
    /\ status \in {"unknown", "stop", "running"}
    /\ lock \in {"free", "seek", "update"}
    /\ app \in AppAt /\ seeker \in SeekerAt
    /\ updater \in {"none", "lock", "download"}

ThreadsOK ==
    /\ at \in Thread /\ on \in Thread
    /\ info \in [Thread -> BOOLEAN] /\ halt \in [Thread -> BOOLEAN]
    /\ handle \in [Thread -> Id \cup {NoThread}]
    /\ work \in [Thread -> [Id -> WorkAt]]

PlacesOK ==
    /\ position \in Position \cup {NoPosition}
    /\ chunk \in [Thread -> [Id -> Place]]
    /\ buffer \subseteq Place /\ parserAt \in Place
    /\ target \in Place /\ asked \in Place /\ sought \in Place
    /\ asks \in [seek : Nat, update : Nat]

LEMMA FlagsStep ==
  ASSUME FlagsOK, [Next]_vars
  PROVE  FlagsOK'
<1> USE DEF FlagsOK
<1>1. CASE Application
  <2> USE DEF control, request, seekVars, updateVars, data
  <2>1. CASE StartStatus \/ StartBegin \/ StopFlag \/ StopCache
             \/ StopSeekThread \/ JoinSeekThread
    BY <2>1, Zenon DEF StartStatus, StartBegin, StopFlag, StopCache,
       StopSeekThread, JoinSeekThread
  <2>2. CASE JoinUpdateThread \/ StopHalt \/ StopUninit
    BY <2>2, Zenon DEF JoinUpdateThread, StopHalt, StopUninit
  <2>3. CASE StopJoin
    BY <2>3, Zenon DEF StopJoin
  <2>4. CASE StartCreate
    BY <2>4, Zenon DEF StartCreate
  <2> QED BY <1>1, <2>1, <2>2, <2>3, <2>4 DEF Application
<1>2. CASE Calls
  <2> USE DEF control, request, seekVars, updateVars, data
  <2>1. CASE Open
    BY <2>1, Zenon DEF Open
  <2>2. CASE StartCall
    BY <2>2, Zenon DEF StartCall
  <2>3. CASE PauseOrResume
    BY <2>3, Zenon DEF PauseOrResume
  <2>4. CASE UpdateUrl
    BY <2>4, Zenon DEF UpdateUrl
  <2>5. CASE StopCall \/ Close
    BY <2>5, Zenon DEF StopCall, Close
  <2>6. CASE \E p \in Position : Seek(p)
    BY <2>6, Zenon DEF Seek
  <2> QED BY <1>2, <2>1, <2>2, <2>3, <2>4, <2>5, <2>6 DEF Calls
<1>3. CASE SeekLoop \/ SeekTake \/ SeekLock \/ SeekEnter \/ SeekHaltAll
  BY <1>3, Zenon DEF SeekLoop, SeekTake, SeekLock, SeekEnter, SeekHaltAll,
     control, request, updateVars, data
<1>4. CASE SeekClose \/ SeekStop \/ SeekJoin \/ SeekFlush
  BY <1>4, Zenon DEF SeekClose, SeekStop, SeekJoin, SeekFlush, control,
     request, updateVars, data
<1>5. CASE SeekStatus \/ SeekClear \/ SeekParser \/ SeekSetPos \/ SeekBegin
  BY <1>5, Zenon DEF SeekStatus, SeekClear, SeekParser, SeekSetPos, SeekBegin,
     control, request, updateVars, data
<1>6. CASE SeekCreate
  BY <1>6, Zenon DEF SeekCreate, control, request, updateVars, data
<1>7. CASE SeekNotify
  BY <1>7, Zenon DEF SeekNotify, Notified, control, request, updateVars, data
<1>8. CASE SeekDone
  BY <1>8, Zenon DEF SeekDone, control, updateVars, data
<1>9. CASE UpdateLock \/ UNCHANGED vars
  BY <1>9, Zenon DEF UpdateLock, vars, control, request, seekVars, updateVars,
     data
<1>10. CASE UpdateEnd
  BY <1>10, Zenon DEF UpdateEnd, Notified, control, request, seekVars, data
<1>11. CASE ItemStep
  BY <1>11, Zenon DEF ItemStep, ItemThread, Leave, Fetch, Report, BeginPass,
     EndPass, Notified, control, request, seekVars, updateVars, data
<1> QED BY <1>1, <1>2, <1>3, <1>4, <1>5, <1>6, <1>7, <1>8, <1>9, <1>10, <1>11
       DEF Next, AsyncSeekThread, AsyncUpdateUrlThread, ItemStep

LEMMA ControlStep ==
  ASSUME ControlOK, [Next]_vars
  PROVE  ControlOK'
<1> USE DEF ControlOK, AppAt, SeekerAt, control, request, appVars, seekVars,
            updateVars, data
<1>1. CASE Application
  BY <1>1 DEF Application, StartStatus, StartBegin, StartCreate, StopFlag,
     StopCache, StopSeekThread, JoinSeekThread, JoinUpdateThread, StopHalt,
     StopJoin, StopUninit
<1>2. CASE Calls
  BY <1>2 DEF Calls, Open, StartCall, PauseOrResume, UpdateUrl, StopCall,
     Close, Seek
<1>3. CASE SeekLoop \/ SeekTake \/ SeekLock \/ SeekEnter \/ SeekHaltAll
           \/ SeekClose \/ SeekStop \/ SeekJoin \/ SeekFlush
  BY <1>3 DEF SeekLoop, SeekTake, SeekLock, SeekEnter, SeekHaltAll, SeekClose,
     SeekStop, SeekJoin, SeekFlush
<1>4. CASE SeekStatus \/ SeekClear \/ SeekParser \/ SeekSetPos \/ SeekBegin
           \/ SeekCreate \/ SeekNotify \/ SeekDone
  BY <1>4 DEF SeekStatus, SeekClear, SeekParser, SeekSetPos, SeekBegin,
     SeekCreate, SeekNotify, SeekDone, SeekNextItem, Notified
<1>5. CASE AsyncUpdateUrlThread
  BY <1>5 DEF AsyncUpdateUrlThread, UpdateLock, UpdateEnd, Notified
<1>6. CASE ItemStep
  BY <1>6 DEF ItemStep, ItemThread, Leave, Fetch, Report, BeginPass, EndPass,
     Notified
<1>7. CASE UNCHANGED vars
  BY <1>7 DEF vars
<1> QED BY <1>1, <1>2, <1>3, <1>4, <1>5, <1>6, <1>7
       DEF Next, AsyncSeekThread, ItemStep

LEMMA ThreadsTypeStep ==
  ASSUME ThreadsOK, [Next]_vars
  PROVE  ThreadsOK'
<1> USE DEF ThreadsOK
<1>1. 1 \in Thread /\ \A k \in Thread : k < NThreads => k + 1 \in Thread
  BY ControlAssumption DEF Thread
<1>2. \A k \in Thread : Joined(k) => handle' \in [Thread -> Id \cup {NoThread}]
  BY DEF Joined
<1>3. ASSUME NEW k \in Thread, Created(k)
      PROVE  handle' \in [Thread -> Id \cup {NoThread}]
             /\ work' \in [Thread -> [Id -> WorkAt]]
  BY <1>3 DEF Created, WorkAt
<1>4. CASE Application
  BY <1>1, <1>2, <1>3, <1>4 DEF Application, StartStatus, StartBegin,
     StartCreate, StopFlag, StopCache, StopSeekThread, JoinSeekThread,
     JoinUpdateThread, StopHalt, StopJoin, StopUninit, appVars, seekVars,
     itemVars, workVars
<1>5. CASE Calls
  BY <1>5 DEF Calls, Open, StartCall, PauseOrResume, UpdateUrl, StopCall,
     Close, Seek, appVars, seekVars, itemVars, workVars
<1>6. CASE SeekLoop \/ SeekTake \/ SeekLock \/ SeekEnter \/ SeekHaltAll
           \/ SeekClose \/ SeekFlush \/ SeekStatus \/ SeekClear
           \/ SeekParser \/ SeekSetPos \/ SeekNotify \/ SeekDone
  BY <1>1, <1>6 DEF SeekLoop, SeekTake, SeekLock, SeekEnter, SeekHaltAll,
     SeekClose, SeekFlush, SeekStatus, SeekClear, SeekParser, SeekSetPos,
     SeekNotify, SeekDone, appVars, itemVars, workVars
<1>7. CASE SeekStop \/ SeekJoin \/ SeekBegin \/ SeekCreate
  BY <1>1, <1>2, <1>3, <1>7 DEF SeekStop, SeekJoin, SeekBegin, SeekCreate,
     SeekNextItem, appVars, itemVars, workVars
<1>8. CASE AsyncUpdateUrlThread \/ UNCHANGED vars
  BY <1>8 DEF AsyncUpdateUrlThread, UpdateLock, UpdateEnd, vars, appVars,
     seekVars, itemVars, workVars
<1>9. CASE ItemStep
  <2>1. PICK k \in Thread, i \in Id : ItemThread(k, i)
    BY <1>9 DEF ItemStep
  <2>2. PICK from \in WorkAt, to \in WorkAt : Goes(k, i, from, to)
    BY <2>1 DEF ItemThread, Leave, Fetch, Report, BeginPass, EndPass, WorkAt
  <2>3. UNCHANGED <<appVars, seekVars, itemVars>>
    BY <2>1 DEF ItemThread, Leave, Fetch, Report, BeginPass, EndPass
  <2> QED BY <2>2, <2>3 DEF Goes, appVars, seekVars, itemVars
<1> QED BY <1>4, <1>5, <1>6, <1>7, <1>8, <1>9
       DEF Next, AsyncSeekThread, ItemStep

LEMMA PlacesStep ==
  ASSUME PlacesOK, OrderInv, RequestInv, [Next]_vars
  PROVE  PlacesOK'
<1> USE DEF PlacesOK, Place
<1>1. CASE Application
  BY <1>1 DEF Application, StartStatus, StartBegin, StartCreate, StopFlag,
     StopCache, StopSeekThread, JoinSeekThread, JoinUpdateThread, StopHalt,
     StopJoin, StopUninit, request, seekVars, workVars, data
<1>2. CASE Calls
  <2>1. CASE \E p \in Position : Seek(p)
    BY <2>1 DEF Seek, seekVars, workVars, data
  <2>2. CASE UpdateUrl
    BY <2>2 DEF UpdateUrl, request, seekVars, workVars, data
  <2> QED BY <1>2, <2>1, <2>2 DEF Calls, Open, StartCall, PauseOrResume,
         StopCall, Close, request, seekVars, workVars, data
<1>3. CASE SeekLoop \/ SeekTake \/ SeekLock \/ SeekEnter \/ SeekHaltAll
           \/ SeekClose \/ SeekStop \/ SeekJoin \/ SeekFlush
  BY <1>3 DEF SeekLoop, SeekTake, SeekLock, SeekEnter, SeekHaltAll, SeekClose,
     SeekStop, SeekJoin, SeekFlush, request, seekVars, workVars, data
<1>4. CASE SeekStatus \/ SeekClear \/ SeekParser \/ SeekSetPos \/ SeekBegin
           \/ SeekCreate \/ SeekNotify \/ SeekDone
  BY <1>4 DEF SeekStatus, SeekClear, SeekParser, SeekSetPos, SeekBegin,
     SeekCreate, SeekNotify, SeekDone, request, seekVars, workVars, data
<1>5. CASE AsyncUpdateUrlThread \/ UNCHANGED vars
  BY <1>5 DEF AsyncUpdateUrlThread, UpdateLock, UpdateEnd, vars, request,
     seekVars, workVars, data
<1>6. CASE ItemStep
  <2>1. PICK k \in Thread, i \in Id : ItemThread(k, i)
    BY <1>6 DEF ItemStep
  <2>2. UNCHANGED <<request, seekVars, parserAt, asks>>
    BY <2>1 DEF ItemThread, Leave, Fetch, Report, BeginPass, EndPass, data
  <2>3. chunk' \in [Thread -> [Id -> Place]]
    BY <2>1 DEF ItemThread, Leave, Fetch, Report, BeginPass, EndPass, Emptied
  <2>4. buffer' \subseteq Place
    <3>1. chunk[k][i] \in Place
      OBVIOUS
    <3> QED BY <2>1, <3>1 DEF ItemThread, Leave, Fetch, Report, BeginPass,
           EndPass, data
  <2> QED BY <2>2, <2>3, <2>4 DEF request, seekVars
<1> QED BY <1>1, <1>2, <1>3, <1>4, <1>5, <1>6
       DEF Next, AsyncSeekThread, ItemStep

LEMMA TypeStep ==
  ASSUME TypeOK, OrderInv, RequestInv, [Next]_vars
  PROVE  TypeOK'
<1> USE DEF TypeOK, FlagsOK, ControlOK, ThreadsOK, PlacesOK
<1>1. FlagsOK'
  BY FlagsStep
<1>2. ControlOK'
  BY ControlStep
<1>3. ThreadsOK'
  BY ThreadsTypeStep
<1>4. PlacesOK'
  BY PlacesStep
<1> QED BY <1>1, <1>2, <1>3, <1>4

LEMMA InvariantIInv == EarlySeek = FALSE => (Spec => []IInv)
<1> SUFFICES ASSUME EarlySeek = FALSE PROVE Spec => []IInv
  OBVIOUS
<1>1. IInv /\ [Next]_vars => IInv'
  BY TypeStep, OrderStep, ThreadStep, RequestStep, DataStep DEF IInv
<1> QED BY <1>1, InitIInv, PTL DEF Spec

\* Every variable of the controller, of its threads and of the buffer keeps
\* its type in every run.
THEOREM TypeCorrect == EarlySeek = FALSE => (Spec => []TypeOK)
<1> SUFFICES ASSUME EarlySeek = FALSE PROVE Spec => []TypeOK
  OBVIOUS
<1>1. IInv => TypeOK
  BY DEF IInv
<1> QED BY <1>1, InvariantIInv, PTL

\* Start, Stop and the seek thread start and join the same item threads
\* without a lock, and still no object's function ever runs in two threads,
\* nor in one that its handle has forgotten.
THEOREM ThreadsAreKnown == EarlySeek = FALSE => (Spec => []KnownThreads)
<1> SUFFICES ASSUME EarlySeek = FALSE PROVE Spec => []KnownThreads
  OBVIOUS
<1>1. IInv => KnownThreads
  BY DEF IInv, ThreadInv
<1> QED BY <1>1, InvariantIInv, PTL

\* The parser is moved only when no item thread is there to ask it for a
\* chunk, and Stop leaves no item thread behind.
THEOREM ParserIsAlone == EarlySeek = FALSE => (Spec => []ParserAlone)
<1> SUFFICES ASSUME EarlySeek = FALSE PROVE Spec => []ParserAlone
  OBVIOUS
<1>1. ASSUME IInv PROVE ParserAlone
  <2>1. seeker \in {"parser", "setpos"} \/ (app = "idle" /\ seeker = "none")
          => \A k \in Thread : handle[k] = NoThread
    BY <1>1 DEF IInv, ThreadInv, Quiet
  <2> QED BY <1>1, <2>1, NoneRuns DEF IInv, ThreadInv, ParserAlone
<1> QED BY <1>1, InvariantIInv, PTL

\* While the source runs and the seek thread is not serving, no stop flag is
\* left raised to end downloads or silence events.
THEOREM SourceRunsOn == EarlySeek = FALSE => (Spec => []RunsOn)
<1> SUFFICES ASSUME EarlySeek = FALSE PROVE Spec => []RunsOn
  OBVIOUS
<1>1. IInv => RunsOn
  BY DEF IInv, OrderInv, RunsOn, Halting, Serving
<1> QED BY <1>1, InvariantIInv, PTL

\* When GetSample is let in, the parser was last sent to the position that
\* the application asked for last.
THEOREM LastSeekIsServed == EarlySeek = FALSE => (Spec => []LastSeekWins)
<1> SUFFICES ASSUME EarlySeek = FALSE PROVE Spec => []LastSeekWins
  OBVIOUS
<1>1. IInv => LastSeekWins
  BY DEF IInv, RequestInv, LastSeekWins
<1> QED BY <1>1, InvariantIInv, PTL

\* When GetSample is let in, every sample it can find was fetched where the
\* application asked last: a chunk an item thread still carries from before a
\* seek never gets into the buffer the seek has emptied.
THEOREM SamplesAreFresh == EarlySeek = FALSE => (Spec => []FreshSamples)
<1> SUFFICES ASSUME EarlySeek = FALSE PROVE Spec => []FreshSamples
  OBVIOUS
<1>1. ASSUME IInv, status = "running", ~seeking PROVE buffer \subseteq {asked}
  <2>1. sought = asked
    BY <1>1 DEF IInv, RequestInv
  <2>2. buffer \subseteq {parserAt} /\ (parserAt # sought => buffer = {})
    BY <1>1 DEF IInv, DataInv
  <2> QED BY <2>1, <2>2
<1>2. IInv => FreshSamples
  BY <1>1 DEF FreshSamples
<1> QED BY <1>2, InvariantIInv, PTL

\* A seek that is done was notified to the application, or Stop has been
\* called: the test of m_is_stop in front of the event is never failed by
\* the seek thread's own flag.
THEOREM SeekIsAnswered == EarlySeek = FALSE => (Spec => []SeekAnswered)
<1> SUFFICES ASSUME EarlySeek = FALSE PROVE Spec => []SeekAnswered
  OBVIOUS
<1>1. IInv => SeekAnswered
  BY DEF IInv, OrderInv
<1> QED BY <1>1, InvariantIInv, PTL

=============================================================================
