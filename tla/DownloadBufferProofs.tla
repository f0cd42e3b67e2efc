------------------------ MODULE DownloadBufferProofs ------------------------
(***************************************************************************)
(* What TLAPS proves about DownloadBuffer, however many chunks are begun   *)
(* and however often the stream is sought in or opened again.              *)
(*                                                                         *)
(* A thread uses its chunk and the pair of its chunk without the lock of   *)
(* the list.  They stay in the list because only the thread itself removes *)
(* them (AgentOK, PairOK), and because the list is only cleared when the   *)
(* audio and the video thread use none (EndOK; the controller waits for    *)
(* both, FlushOK).  That one chunk at most is set aside rests on the video *)
(* thread's way from there to its next chunk, which has that one as pair   *)
(* (AsideOK): the change of the bitrate stays marked until then.  And      *)
(* nothing follows the end because its flags stay set until a seek         *)
(* (OverOK), and no chunk holds samples of another thread (HoldsOK).       *)
(***************************************************************************)
EXTENDS DownloadBuffer, FiniteSetTheorems, TLAPS

\* Places where the thread has its chunk from the list
InList == {"put", "outgrown", "use pair", "use", "drop pair", "drop"}
\* Places where its chunk may have a pair that it has not dropped
WithPair ==
    {"idle", "notice", "begin", "load", "put", "outgrown", "full", "complete",
     "end", "use pair", "use", "drop pair"}

\* A thread's chunk is one it began; a pair that was found is one of video's;
\* only video's chunks are flagged, and set aside.
AgentOK(t) ==
    /\ agent[t] <= serial
    /\ agent[t] # None => by[agent[t]] = t

FoundOK(t) ==
    /\ found[t] <= serial
    /\ found[t] # None => t = "video" /\ by[found[t]] = "video"

ResultOK(t) ==
    /\ smooth[t] => t = "video"
    /\ result[t] = "true" => t = "video"

\* What a place says of the pair that was found and of the thread's chunk
PlaceOK(t) ==
    /\ at[t] # "save" => found[t] = None
    /\ at[t] \in InList => agent[t] # None
    /\ at[t] \in {"use pair", "drop pair"} => pair[agent[t]] # None

\* A pair was begun before its chunk, and both by the video thread.
PairOK ==
    /\ \A c \in aligned : by[c] = "video"
    /\ \A c \in Id : pair[c] < c
    /\ \A c \in Id : pair[c] # None => c <= serial
    /\ \A c \in Id : pair[c] # None => by[c] = "video" /\ by[pair[c]] = "video"

\* A thread that has set its flag does not come back before the next seek, and
\* clears the list only when both have.
EndOK ==
    /\ \A t \in ended : at[t] \in {"test", "clear", "gone"}
    /\ \A t \in Thread : at[t] = "clear" => ended = {"video", "audio"}

\* A chunk in use is in the list.
LiveOK(t) ==
    /\ found[t] # None => found[t] \in list
    /\ at[t] \in InList => agent[t] \in list
    /\ at[t] \in WithPair /\ agent[t] \in list /\ pair[agent[t]] # None
            => pair[agent[t]] \in list

\* When the controller goes on, the threads are gone and the list is empty.
FlushOK ==
    ctl \in {"parse", "stopped"} =>
        /\ list = {}
        /\ \A t \in Thread : at[t] = "gone"

IInv ==
    /\ TypeOK
    /\ PairOK
    /\ FlushOK
    /\ \A t \in Thread : AgentOK(t) /\ FoundOK(t) /\ ResultOK(t) /\ PlaceOK(t)
    /\ ~stale => EndOK /\ (\A t \in {"video", "audio"} : LiveOK(t))

\* The video thread is on its way out, and sends no more events.
Leaving == silent \/ "video" \in halt

\* The change of the bitrate is not over for it, and its chunk is flagged.
Marked == changing \/ Leaving
Flagged == smooth["video"] \/ Leaving

\* Its chunk has the pair p.
Paired(p) == agent["video"] \in list /\ pair[agent["video"]] = p

\* Chunk p, which was set aside, will be the pair of the video thread's next
\* chunk, or is the pair of the one it has.
AsideOK(p) ==
    LET place == at["video"] IN
    /\ place \in {"idle", "notice", "begin", "save", "load", "put", "outgrown",
                  "drop", "rest"}
        => Marked
    /\ place \in {"begin", "save", "load", "put", "outgrown", "drop"} => Flagged
    /\ place = "begin" /\ kind["video"] # "chunk" => smooth["video"]
    /\ place = "save" => found["video"] = p
    /\ place \in {"load", "put", "outgrown", "end", "use pair", "use", "drop pair"}
        => Paired(p)
    /\ place = "full" => Leaving \/ (Paired(p) /\ Marked /\ Flagged)
    /\ place = "complete" =>
            Leaving \/ (Paired(p) /\ Flagged /\ (result["video"] = "ok" \/ Marked))
    /\ place = "end" /\ result["video"] # "false" => Marked /\ Flagged
    /\ place = "rest" /\ kind["video"] = "chunk" /\ result["video"] = "ignore" => Flagged

\* There is one such chunk at most, and none is set aside unless the bitrate
\* changes, which it does not if there is only one.
AInv ==
    /\ at["video"] = "end" /\ result["video"] = "true" => Marked /\ ~single
    /\ single => aligned = {}
    /\ \A p, q \in aligned : p = q
    /\ \A p \in aligned : AsideOK(p)

\* A chunk holds samples of its thread only, of chunks that were begun.
HoldsOK ==
    \A c \in Id : \A i \in holds[c] : i <= serial /\ by[i] = by[c]

\* The markers were put by a thread that saw both flags.
OverOK == over => ended = {"video", "audio"}


-----------------------------------------------------------------------------
\* Types

LEMMA InitType == Init => TypeOK
<1> USE DownloadBufferAssumption DEF Init, Id, None
<1>1. Init => ListType
  BY DEF ListType
<1>2. Init => ChunkType
  BY DEF ChunkType, Fate
<1>3. Init => ThreadType
  BY DEF ThreadType, Place
<1>4. Init => ControlType
  BY DEF ControlType
<1> QED BY <1>1, <1>2, <1>3, <1>4 DEF TypeOK

\* A history of chunks is one whatever became of some.
LEMMA BecameType ==
    ASSUME ChunkType, NEW set, NEW what \in Fate, Became(set, what)
    PROVE  fate' \in [Id -> Fate]
BY DEF ChunkType, Became

\* The list and who has which chunk of it
LEMMA ListStep == ASSUME ListType, [Next]_vars PROVE ListType'
<1> USE DownloadBufferAssumption DEF chunks, local, flags, control, history,
        Goto, Id, None, ListType
<1>1. ASSUME NEW t \in Thread, GetNothing(t) PROVE ListType'
  BY <1>1 DEF GetNothing
<1>2. ASSUME NEW t \in Thread, Begin(t) PROVE ListType'
  BY <1>2 DEF Begin, FindBAChunk
<1>3. ASSUME NEW t \in Thread, Save(t) PROVE ListType'
  BY <1>3 DEF Save
<1>4. ASSUME NEW t \in Thread, Complete(t) PROVE ListType'
  BY <1>4 DEF Complete
<1>5. ASSUME NEW t \in Thread, SetAside(t) PROVE ListType'
  BY <1>5 DEF SetAside
<1>6. ASSUME NEW t \in Thread, DropPair(t) PROVE ListType'
  BY <1>6 DEF DropPair, Remove
<1>7. ASSUME NEW t \in Thread, Drop(t) PROVE ListType'
  BY <1>7 DEF Drop, Remove
<1>8. ASSUME NEW t \in Thread, Rest(t) PROVE ListType'
  BY <1>8 DEF Rest
<1>9. ASSUME NEW t \in Thread, DoEOS(t) PROVE ListType'
  BY <1>9 DEF DoEOS, ClearList
<1>10. CASE Seek
  BY <1>10 DEF Seek
<1>11. CASE SetStop
  BY <1>11 DEF SetStop
<1>12. CASE Flush
  BY <1>12 DEF Flush, ClearList
<1>13. CASE Reopen
  BY <1>13 DEF Reopen
<1>14. ASSUME NEW t \in Thread,
              \/ GetChunk(t) \/ GetEnd(t) \/ LeaveLoop(t) \/ Notice(t)
              \/ Sample(t) \/ Put(t) \/ UsePart(t) \/ Downloaded(t) \/ Ignore(t)
              \/ Merge(t) \/ UsePair(t) \/ UseOwn(t) \/ ReportEnd(t)
              \/ TestEnd(t)
       PROVE  ListType'
  <2>1. UNCHANGED <<serial, list, aligned, agent, found, restarts>>
    BY <1>14 DEF GetChunk, GetEnd, LeaveLoop, Notice, Sample, Put, UsePart,
       Downloaded, Ignore, Merge, UsePair, Use, UseOwn, ReportEnd, TestEnd
  <2> QED BY <2>1
<1>15. ASSUME \/ CloseCache \/ (\E t \in Thread : Halt(t)) \/ Resume
              \/ Unblock \/ ChangeBitrateWhenError \/ ParserFails \/ UNCHANGED vars
       PROVE  ListType'
  <2>1. UNCHANGED <<serial, list, aligned, agent, found, restarts>>
    BY <1>15 DEF CloseCache, Halt, Resume, Unblock, ChangeBitrateWhenError,
       ParserFails, vars
  <2> QED BY <2>1
<1> QED BY <1>1, <1>2, <1>3, <1>4, <1>5, <1>6, <1>7, <1>8, <1>9, <1>10, <1>11,
       <1>12, <1>13, <1>14, <1>15 DEF Next, Work, InChunk, Controller

\* The chunks and what became of them
LEMMA ChunkStep == ASSUME ListType, ChunkType, [Next]_vars PROVE ChunkType'
<1> USE DownloadBufferAssumption DEF chunks, local, flags, control, history,
        Goto, Id, None, ListType, ChunkType, Fate
<1>1. ASSUME NEW t \in Thread, Save(t) PROVE ChunkType'
  BY <1>1 DEF Save
<1>2. ASSUME NEW t \in Thread, SetAside(t) PROVE ChunkType'
  BY <1>2 DEF SetAside
<1>3. ASSUME NEW t \in Thread, Merge(t) PROVE ChunkType'
  <2> DEFINE own == agent[t]
  <2>1. UNCHANGED <<by, pair, fate>>
    BY <1>3 DEF Merge
  <2>2. \/ UNCHANGED holds
        \/ /\ own \in Id /\ pair[own] \in Id
           /\ holds' = [holds EXCEPT ![pair[own]] = @ \cup holds[own], ![own] = {}]
    <3>1. list \subseteq Id
      OBVIOUS
    <3>2. own \in Id /\ pair[own] # None => pair[own] \in Id
      OBVIOUS
    <3>3. \/ UNCHANGED holds
          \/ /\ own \in list /\ pair[own] # None
             /\ holds' = [holds EXCEPT ![pair[own]] = @ \cup holds[own], ![own] = {}]
      BY <1>3 DEF Merge
    <3> QED BY <3>1, <3>2, <3>3
  <2>3. holds' \in [Id -> SUBSET Id]
    <3>1. CASE UNCHANGED holds
      BY <3>1
    <3>2. CASE own \in Id /\ pair[own] \in Id
      <4>1. holds[own] \in SUBSET Id /\ holds[pair[own]] \in SUBSET Id
        BY <3>2
      <4>2. [holds EXCEPT ![pair[own]] = @ \cup holds[own]] \in [Id -> SUBSET Id]
        BY <4>1
      <4> QED BY <2>2, <4>2
    <3> QED BY <2>2, <3>1, <3>2
  <2> QED BY <2>1, <2>3
<1>4. ASSUME NEW t \in Thread, UsePair(t) PROVE ChunkType'
  BY <1>4 DEF UsePair, Use, Became
<1>5. ASSUME NEW t \in Thread, UseOwn(t) PROVE ChunkType'
  BY <1>5 DEF UseOwn, Use, Became
<1>6. ASSUME NEW t \in Thread, DropPair(t) PROVE ChunkType'
  BY <1>6 DEF DropPair, Remove, Became
<1>7. ASSUME NEW t \in Thread, Drop(t) PROVE ChunkType'
  <2>1. by' = by /\ pair' = [pair EXCEPT ![agent[t]] = None]
    BY <1>7 DEF Drop
  <2>2. holds' = [holds EXCEPT ![agent[t]] = {}]
    BY <1>7 DEF Drop, Remove
  <2>3. fate' \in [Id -> Fate]
    BY <1>7, BecameType DEF Drop, Remove
  <2>4. by' \in [Id -> Thread]
    BY <2>1
  <2>6. 0 \in 0 .. MaxChunk /\ pair \in [Id -> 0 .. MaxChunk]
    OBVIOUS
  <2>7. pair' \in [Id -> 0 .. MaxChunk]
    BY <2>1, <2>6
  <2>5. holds' \in [Id -> SUBSET Id]
    BY <2>2
  <2> QED BY <2>3, <2>4, <2>5, <2>7
<1>8. ASSUME NEW t \in Thread, DoEOS(t) PROVE ChunkType'
  BY <1>8 DEF DoEOS, ClearList, Became
<1>9. CASE Flush
  BY <1>9 DEF Flush, ClearList, Became
<1>10. ASSUME NEW t \in Thread,
              \/ GetChunk(t) \/ GetNothing(t) \/ GetEnd(t) \/ LeaveLoop(t)
              \/ Notice(t) \/ Begin(t) \/ Sample(t) \/ Put(t) \/ UsePart(t)
              \/ Downloaded(t) \/ Complete(t) \/ Ignore(t) \/ Rest(t)
              \/ ReportEnd(t) \/ TestEnd(t)
       PROVE  ChunkType'
  <2>1. UNCHANGED <<by, pair, holds, fate>>
    BY <1>10 DEF GetChunk, GetNothing, GetEnd, LeaveLoop, Notice, Begin,
       FindBAChunk, Sample, Put, UsePart, Downloaded, Complete, Judged, Ignore,
       Rest, ReportEnd, TestEnd
  <2> QED BY <2>1
<1>11. ASSUME \/ Seek \/ SetStop \/ CloseCache \/ (\E t \in Thread : Halt(t))
              \/ Resume \/ Unblock \/ ChangeBitrateWhenError \/ ParserFails
              \/ Reopen \/ UNCHANGED vars
       PROVE  ChunkType'
  <2>1. UNCHANGED <<by, pair, holds, fate>>
    BY <1>11 DEF Seek, SetStop, CloseCache, Halt, Resume, Unblock,
       ChangeBitrateWhenError, ParserFails, Reopen, vars
  <2> QED BY <2>1
<1> QED BY <1>1, <1>2, <1>3, <1>4, <1>5, <1>6, <1>7, <1>8, <1>9, <1>10, <1>11
       DEF Next, Work, InChunk, Controller

\* Where a thread is
LEMMA ThreadStep == ASSUME ThreadType, [Next]_vars PROVE ThreadType'
<1> USE DownloadBufferAssumption DEF chunks, local, flags, control, history,
        Goto, Id, None, ThreadType, Place
<1>1. ASSUME NEW t \in Thread, GetChunk(t) PROVE ThreadType'
  BY <1>1 DEF GetChunk
<1>2. ASSUME NEW t \in Thread, GetNothing(t) PROVE ThreadType'
  BY <1>2 DEF GetNothing
<1>3. ASSUME NEW t \in Thread, GetEnd(t) PROVE ThreadType'
  <2>1. UNCHANGED <<smooth, result>>
    BY <1>3 DEF GetEnd
  <2>3. at' = [at EXCEPT ![t] = "notice"] \/ at' = [at EXCEPT ![t] = "eos"]
    BY <1>3 DEF GetEnd
  <2>2. kind' \in [Thread -> {"chunk", "notice", "last"}]
    BY <1>3 DEF GetEnd
  <2> QED BY <2>1, <2>2, <2>3
<1>4. ASSUME NEW t \in Thread, LeaveLoop(t) PROVE ThreadType'
  BY <1>4 DEF LeaveLoop
<1>5. ASSUME NEW t \in Thread, Notice(t) PROVE ThreadType'
  BY <1>5 DEF Notice
<1>6. ASSUME NEW t \in Thread, Begin(t) PROVE ThreadType'
  BY <1>6 DEF Begin, FindBAChunk
<1>7. ASSUME NEW t \in Thread, Save(t) PROVE ThreadType'
  BY <1>7 DEF Save
<1>8. ASSUME NEW t \in Thread, Sample(t) PROVE ThreadType'
  BY <1>8 DEF Sample
<1>9. ASSUME NEW t \in Thread, Put(t) PROVE ThreadType'
  <2>1. UNCHANGED <<kind, smooth>>
    BY <1>9 DEF Put
  <2>2. \E place \in {"full", "outgrown", "end"} : at' = [at EXCEPT ![t] = place]
    BY <1>9 DEF Put
  <2>3. result' = result \/ result' = [result EXCEPT ![t] = "false"]
    BY <1>9 DEF Put
  <2>4. at' \in [Thread -> Place]
    BY <2>2
  <2>5. result' \in [Thread ->
                        {"ok", "slow", "failed", "true", "false", "ignore"}]
    BY <2>3
  <2> QED BY <2>1, <2>4, <2>5
<1>26. ASSUME NEW t \in Thread, UsePart(t) PROVE ThreadType'
  BY <1>26 DEF UsePart
<1>10. ASSUME NEW t \in Thread, Downloaded(t) PROVE ThreadType'
  BY <1>10 DEF Downloaded
<1>11. ASSUME NEW t \in Thread, Complete(t) PROVE ThreadType'
  BY <1>11 DEF Complete
<1>12. ASSUME NEW t \in Thread, SetAside(t) PROVE ThreadType'
  BY <1>12 DEF SetAside
<1>13. ASSUME NEW t \in Thread, Ignore(t) PROVE ThreadType'
  BY <1>13 DEF Ignore
<1>14. ASSUME NEW t \in Thread, Merge(t) PROVE ThreadType'
  BY <1>14 DEF Merge
<1>15. ASSUME NEW t \in Thread, UsePair(t) PROVE ThreadType'
  BY <1>15 DEF UsePair, Use
<1>16. ASSUME NEW t \in Thread, UseOwn(t) PROVE ThreadType'
  BY <1>16 DEF UseOwn, Use
<1>17. ASSUME NEW t \in Thread, DropPair(t) PROVE ThreadType'
  BY <1>17 DEF DropPair, Remove
<1>18. ASSUME NEW t \in Thread, Drop(t) PROVE ThreadType'
  BY <1>18 DEF Drop, Remove
<1>19. ASSUME NEW t \in Thread, Rest(t) PROVE ThreadType'
  BY <1>19 DEF Rest
<1>20. ASSUME NEW t \in Thread, ReportEnd(t) PROVE ThreadType'
  BY <1>20 DEF ReportEnd
<1>21. ASSUME NEW t \in Thread, TestEnd(t) PROVE ThreadType'
  BY <1>21 DEF TestEnd
<1>22. ASSUME NEW t \in Thread, DoEOS(t) PROVE ThreadType'
  BY <1>22 DEF DoEOS, ClearList
<1>23. CASE Resume
  BY <1>23 DEF Resume
<1>24. CASE Reopen
  BY <1>24 DEF Reopen
<1>25. ASSUME \/ Seek \/ SetStop \/ CloseCache \/ (\E t \in Thread : Halt(t))
              \/ Flush \/ Unblock \/ ChangeBitrateWhenError \/ ParserFails
              \/ UNCHANGED vars
       PROVE  ThreadType'
  <2>1. UNCHANGED <<at, kind, smooth, result>>
    BY <1>25 DEF Seek, SetStop, CloseCache, Halt, Flush, ClearList, Unblock,
       ChangeBitrateWhenError, ParserFails, vars
  <2> QED BY <2>1
<1> QED BY <1>1, <1>2, <1>3, <1>4, <1>5, <1>6, <1>7, <1>8, <1>9, <1>10, <1>11,
       <1>12, <1>13, <1>14, <1>15, <1>16, <1>17, <1>18, <1>19, <1>20, <1>21,
       <1>22, <1>23, <1>24, <1>25, <1>26 DEF Next, Work, InChunk, Controller

\* The flags and the controller
LEMMA ControlStep == ASSUME ControlType, [Next]_vars PROVE ControlType'
<1> USE DownloadBufferAssumption DEF chunks, local, flags, control, history,
        Goto, Id, None, ControlType
<1>1. ASSUME NEW t \in Thread, Notice(t) PROVE ControlType'
  BY <1>1 DEF Notice
<1>2. ASSUME NEW t \in Thread, Put(t) PROVE ControlType'
  <2>1. typed' \subseteq Thread
    BY <1>2 DEF Put
  <2>2. contain' \in BOOLEAN /\ blocked' \in BOOLEAN
    BY <1>2 DEF Put
  <2>3. UNCHANGED <<changing, first, ended, control, over, hushed, stale>>
    BY <1>2 DEF Put
  <2> QED BY <2>1, <2>2, <2>3
<1>3. ASSUME NEW t \in Thread, Downloaded(t) PROVE ControlType'
  BY <1>3 DEF Downloaded
<1>4. ASSUME NEW t \in Thread, Complete(t) PROVE ControlType'
  BY <1>4 DEF Complete, Judged
<1>5. ASSUME NEW t \in Thread, Rest(t) PROVE ControlType'
  BY <1>5 DEF Rest
<1>6. ASSUME NEW t \in Thread, ReportEnd(t) PROVE ControlType'
  <2>1. UNCHANGED <<flags, control, typed, over, hushed, stale>>
    BY <1>6 DEF ReportEnd
  <2>2. ended' \subseteq {"video", "audio"}
    BY <1>6 DEF ReportEnd
  <2> QED BY <2>1, <2>2
<1>7. ASSUME NEW t \in Thread, TestEnd(t) PROVE ControlType'
  BY <1>7 DEF TestEnd
<1>8. ASSUME NEW t \in Thread, DoEOS(t) PROVE ControlType'
  BY <1>8 DEF DoEOS, ClearList
<1>9. CASE Seek
  BY <1>9 DEF Seek
<1>10. CASE SetStop
  BY <1>10 DEF SetStop
<1>11. CASE CloseCache
  BY <1>11 DEF CloseCache
<1>12. ASSUME NEW t \in Thread, Halt(t) PROVE ControlType'
  BY <1>12 DEF Halt
<1>13. CASE Flush
  BY <1>13 DEF Flush, ClearList
<1>14. CASE Resume
  BY <1>14 DEF Resume
<1>15. CASE Unblock
  BY <1>15 DEF Unblock
<1>20. CASE ChangeBitrateWhenError
  BY <1>20 DEF ChangeBitrateWhenError
<1>16. CASE ParserFails
  BY <1>16 DEF ParserFails
<1>17. CASE Reopen
  BY <1>17 DEF Reopen
<1>18. ASSUME NEW t \in Thread,
              \/ GetChunk(t) \/ GetNothing(t) \/ GetEnd(t) \/ LeaveLoop(t)
              \/ Begin(t) \/ Save(t) \/ Sample(t) \/ UsePart(t) \/ SetAside(t)
              \/ Ignore(t) \/ Merge(t) \/ UsePair(t) \/ UseOwn(t)
              \/ DropPair(t) \/ Drop(t)
       PROVE  ControlType'
  <2>1. UNCHANGED <<typed, halt, ended, changing, blocked, contain, first,
                 silent, open, muxed, single, ctl, over, hushed, stale>>
    BY <1>18 DEF GetChunk, GetNothing, GetEnd, LeaveLoop, Begin, FindBAChunk,
       Save, Sample, UsePart, SetAside, Ignore, Merge, UsePair, Use, UseOwn,
       DropPair, Remove, Drop
  <2> QED BY <2>1
<1>19. CASE UNCHANGED vars
  <2>1. UNCHANGED <<typed, halt, ended, changing, blocked, contain, first,
                 silent, open, muxed, single, ctl, over, hushed, stale>>
    BY <1>19 DEF vars
  <2> QED BY <2>1
<1> QED BY <1>1, <1>2, <1>3, <1>4, <1>5, <1>6, <1>7, <1>8, <1>9, <1>10, <1>11,
       <1>12, <1>13, <1>14, <1>15, <1>16, <1>17, <1>18, <1>19, <1>20 DEF Next,
       Work, InChunk, Controller

-----------------------------------------------------------------------------
\* Who has which chunk

\* A thread has no chunk but the one it began.
LEMMA AgentStep ==
    ASSUME TypeOK, \A u \in Thread : AgentOK(u),
           [Next]_vars
    PROVE  \A u \in Thread : AgentOK(u)'
<1> USE DownloadBufferAssumption DEF chunks, local, flags, control, history,
        Goto, Id, None, TypeOK, ListType, ChunkType, AgentOK
<1>1. ASSUME NEW t \in Thread,
             \/ GetNothing(t)
      PROVE  \A u \in Thread : AgentOK(u)'
  <2>1. UNCHANGED <<serial, by>>
    BY <1>1 DEF GetNothing
  <2>2. agent' = agent \/ agent' = [agent EXCEPT ![t] = 0]
    BY <1>1 DEF GetNothing
  <2>3. ASSUME NEW u \in Thread PROVE AgentOK(u)'
    <3>1. agent'[u] = agent[u] \/ agent'[u] = 0
      BY <2>2
    <3>2. AgentOK(u) /\ serial \in Nat
      OBVIOUS
    <3> QED BY <2>1, <3>1, <3>2
  <2> QED BY <2>3
<1>2. ASSUME NEW t \in Thread,
             \/ Begin(t)
      PROVE  \A u \in Thread : AgentOK(u)'
  <2>1. UNCHANGED <<serial, by>>
    BY <1>2 DEF Begin, FindBAChunk
  <2>2. agent' = agent \/ agent' = [agent EXCEPT ![t] = 0]
    BY <1>2 DEF Begin, FindBAChunk
  <2>3. ASSUME NEW u \in Thread PROVE AgentOK(u)'
    <3>1. agent'[u] = agent[u] \/ agent'[u] = 0
      BY <2>2
    <3>2. AgentOK(u) /\ serial \in Nat
      OBVIOUS
    <3> QED BY <2>1, <3>1, <3>2
  <2> QED BY <2>3
<1>3. ASSUME NEW t \in Thread,
             \/ Complete(t)
      PROVE  \A u \in Thread : AgentOK(u)'
  <2>1. UNCHANGED <<serial, by>>
    BY <1>3 DEF Complete, Judged
  <2>2. agent' = agent \/ agent' = [agent EXCEPT ![t] = 0]
    BY <1>3 DEF Complete, Judged
  <2>3. ASSUME NEW u \in Thread PROVE AgentOK(u)'
    <3>1. agent'[u] = agent[u] \/ agent'[u] = 0
      BY <2>2
    <3>2. AgentOK(u) /\ serial \in Nat
      OBVIOUS
    <3> QED BY <2>1, <3>1, <3>2
  <2> QED BY <2>3
<1>4. ASSUME NEW t \in Thread,
             \/ Rest(t)
      PROVE  \A u \in Thread : AgentOK(u)'
  <2>1. UNCHANGED <<serial, by>>
    BY <1>4 DEF Rest
  <2>2. agent' = agent \/ agent' = [agent EXCEPT ![t] = 0]
    BY <1>4 DEF Rest
  <2>3. ASSUME NEW u \in Thread PROVE AgentOK(u)'
    <3>1. agent'[u] = agent[u] \/ agent'[u] = 0
      BY <2>2
    <3>2. AgentOK(u) /\ serial \in Nat
      OBVIOUS
    <3> QED BY <2>1, <3>1, <3>2
  <2> QED BY <2>3
<1>5. ASSUME NEW t \in Thread,
             \/ Save(t)
      PROVE  \A u \in Thread : AgentOK(u)'
  <2>1. /\ serial' = serial + 1 /\ serial' \in Id
        /\ by' = [by EXCEPT ![serial'] = t]
        /\ agent' = [agent EXCEPT ![t] = serial']
    BY <1>5 DEF Save
  <2>2. ASSUME NEW u \in Thread PROVE AgentOK(u)'
    <3>1. CASE u = t
      BY <2>1, <3>1
    <3>2. CASE u # t
      <4>1. agent'[u] = agent[u]
        BY <2>1, <3>2
      <4>2. AgentOK(u) /\ agent[u] \in 0 .. MaxChunk
        OBVIOUS
      <4>3. agent[u] # serial'
        BY <2>1, <4>2
      <4>4. agent[u] # 0 => by'[agent[u]] = by[agent[u]]
        BY <2>1, <4>2, <4>3
      <4> QED BY <2>1, <4>1, <4>2, <4>4
    <3> QED BY <3>1, <3>2
  <2> QED BY <2>2
<1>6. ASSUME \/ Reopen
      PROVE  \A u \in Thread : AgentOK(u)'
  BY <1>6 DEF Reopen
<1>7. ASSUME NEW t \in Thread,
             \/ GetChunk(t) \/ GetEnd(t) \/ LeaveLoop(t) \/ Notice(t)
             \/ Sample(t) \/ Put(t) \/ UsePart(t) \/ Downloaded(t) \/ SetAside(t)
             \/ Ignore(t) \/ Merge(t) \/ UsePair(t) \/ UseOwn(t)
             \/ DropPair(t) \/ Drop(t) \/ ReportEnd(t) \/ TestEnd(t)
             \/ DoEOS(t)
      PROVE  \A u \in Thread : AgentOK(u)'
  <2>1. UNCHANGED <<agent, serial, by>>
    BY <1>7 DEF GetChunk, GetEnd, LeaveLoop, Notice, Sample, Put, UsePart,
       Downloaded, SetAside, Ignore, Merge, UsePair, Use, UseOwn, DropPair,
       Remove, Drop, ReportEnd, TestEnd, DoEOS, ClearList
  <2> QED BY <2>1
<1>8. ASSUME \/ Seek \/ SetStop \/ CloseCache \/ (\E t \in Thread : Halt(t))
             \/ Flush \/ Resume \/ Unblock \/ ChangeBitrateWhenError
             \/ ParserFails \/ UNCHANGED vars
      PROVE  \A u \in Thread : AgentOK(u)'
  <2>1. UNCHANGED <<agent, serial, by>>
    BY <1>8 DEF Seek, SetStop, CloseCache, Halt, Flush, ClearList, Resume,
       Unblock, ChangeBitrateWhenError, ParserFails, vars
  <2> QED BY <2>1
<1> QED BY <1>1, <1>2, <1>3, <1>4, <1>5, <1>6, <1>7, <1>8 DEF Next, Work,
       InChunk, Controller

\* Only video is flagged and set aside.
LEMMA ResultStep ==
    ASSUME TypeOK, \A u \in Thread : ResultOK(u),
           [Next]_vars
    PROVE  \A u \in Thread : ResultOK(u)'
<1> USE DownloadBufferAssumption DEF chunks, local, flags, control, history,
        Goto, Id, None, TypeOK, ThreadType, ResultOK
<1>1. ASSUME NEW t \in Thread,
             \/ GetChunk(t)
      PROVE  \A u \in Thread : ResultOK(u)'
  BY <1>1 DEF GetChunk
<1>2. ASSUME NEW t \in Thread,
             \/ Notice(t)
      PROVE  \A u \in Thread : ResultOK(u)'
  BY <1>2 DEF Notice
<1>3. ASSUME NEW t \in Thread,
             \/ Put(t)
      PROVE  \A u \in Thread : ResultOK(u)'
  BY <1>3 DEF Put
<1>4. ASSUME NEW t \in Thread,
             \/ Downloaded(t)
      PROVE  \A u \in Thread : ResultOK(u)'
  BY <1>4 DEF Downloaded
<1>5. ASSUME NEW t \in Thread,
             \/ Complete(t)
      PROVE  \A u \in Thread : ResultOK(u)'
  BY <1>5 DEF Complete, Judged
<1>6. ASSUME NEW t \in Thread,
             \/ Rest(t)
      PROVE  \A u \in Thread : ResultOK(u)'
  BY <1>6 DEF Rest
<1>7. ASSUME NEW t \in Thread,
             \/ GetNothing(t) \/ GetEnd(t) \/ LeaveLoop(t) \/ Begin(t)
             \/ Save(t) \/ Sample(t) \/ UsePart(t) \/ SetAside(t) \/ Ignore(t)
             \/ Merge(t) \/ UsePair(t) \/ UseOwn(t) \/ DropPair(t) \/ Drop(t)
             \/ ReportEnd(t) \/ TestEnd(t) \/ DoEOS(t)
      PROVE  \A u \in Thread : ResultOK(u)'
  <2>1. UNCHANGED <<smooth, result>>
    BY <1>7 DEF GetNothing, GetEnd, LeaveLoop, Begin, FindBAChunk, Save, Sample,
       UsePart, SetAside, Ignore, Merge, UsePair, Use, UseOwn, DropPair, Remove,
       Drop, ReportEnd, TestEnd, DoEOS, ClearList
  <2> QED BY <2>1
<1>8. ASSUME \/ Seek \/ SetStop \/ CloseCache \/ (\E t \in Thread : Halt(t))
             \/ Flush \/ Resume \/ Unblock \/ ChangeBitrateWhenError
             \/ ParserFails \/ Reopen
             \/ UNCHANGED vars
      PROVE  \A u \in Thread : ResultOK(u)'
  <2>1. UNCHANGED <<smooth, result>>
    BY <1>8 DEF Seek, SetStop, CloseCache, Halt, Flush, ClearList, Resume,
       Unblock, ChangeBitrateWhenError, ParserFails, Reopen, vars
  <2> QED BY <2>1
<1> QED BY <1>1, <1>2, <1>3, <1>4, <1>5, <1>6, <1>7, <1>8 DEF Next, Work,
       InChunk, Controller

\* Pairs are chunks of the video thread.
LEMMA PairStep ==
    ASSUME TypeOK, PairOK, \A u \in Thread : AgentOK(u) /\ ResultOK(u) /\ FoundOK(u),
           [Next]_vars
    PROVE  PairOK'
<1> USE DownloadBufferAssumption DEF chunks, local, flags, control, history,
        Goto, Id, None, TypeOK, ListType, ChunkType, PairOK, AgentOK, FoundOK
<1>1. ASSUME NEW t \in Thread,
             \/ Save(t)
      PROVE  PairOK'
  <2> DEFINE s == serial'
  <2>1. /\ s = serial + 1 /\ s \in Id
        /\ by' = [by EXCEPT ![s] = t]
        /\ pair' = [pair EXCEPT ![s] = found[t]]
        /\ UNCHANGED aligned
    BY <1>1 DEF Save
  <2>2. FoundOK(t) /\ found[t] \in 0 .. MaxChunk /\ found[t] < s
    BY <2>1
  <2>3. \A c \in Id : c # s => by'[c] = by[c] /\ pair'[c] = pair[c]
    BY <2>1
  <2>4. by'[s] = t /\ pair'[s] = found[t]
    BY <2>1
  <2> HIDE DEF s
  <2>5. \A c \in aligned' : by'[c] = "video"
    BY <2>1, <2>3 DEF s
  <2>6. \A c \in Id : pair'[c] < c
    <3>1. s \in Id /\ pair'[s] < s
      BY <2>1, <2>2, <2>4 DEF s
    <3>2. \A c \in Id : c # s => pair'[c] < c
      BY <2>3
    <3> QED BY <3>1, <3>2
  <2>8. \A c \in Id : pair'[c] # 0 => c <= s
    BY <2>1, <2>3 DEF s
  <2>7. ASSUME NEW c \in Id, pair'[c] # 0
        PROVE  by'[c] = "video" /\ by'[pair'[c]] = "video"
    <3>1. CASE c = s
      BY <2>2, <2>3, <2>4, <2>7, <3>1
    <3>2. CASE c # s
      <4>1. pair[c] # 0 /\ pair'[c] = pair[c] /\ by'[c] = "video"
        BY <2>3, <2>7, <3>2
      <4>2. pair[c] \in Id /\ by[pair[c]] = "video"
        BY <4>1
      <4>3. by'[pair[c]] = "video"
        <5>1. pair[c] < c /\ c <= serial
          BY <4>1
        <5>2. pair[c] # s
          BY <2>1, <4>2, <5>1 DEF s
        <5> QED BY <2>3, <4>2, <5>2
      <4> QED BY <4>1, <4>3
    <3> QED BY <3>1, <3>2
  <2>9. serial' = s
    BY DEF s
  <2> QED BY <2>5, <2>6, <2>7, <2>8, <2>9
<1>2. ASSUME NEW t \in Thread,
             \/ SetAside(t)
      PROVE  PairOK'
  <2>1. UNCHANGED <<by, pair, serial>>
    BY <1>2 DEF SetAside
  <2>2. aligned' = aligned \/ (aligned' = aligned \cup {agent[t]} /\ agent[t] \in list)
    BY <1>2 DEF SetAside
  <2>3. t = "video"
    BY <1>2 DEF SetAside, ResultOK
  <2>4. agent[t] \in list => by[agent[t]] = "video"
    BY <2>3
  <2> QED BY <2>1, <2>2, <2>4
<1>3. ASSUME NEW t \in Thread,
             \/ DropPair(t)
      PROVE  PairOK'
  <2>1. UNCHANGED <<by, pair, serial>>
    BY <1>3 DEF DropPair
  <2>2. aligned' \subseteq aligned
    BY <1>3 DEF DropPair, Remove
  <2> QED BY <2>1, <2>2
<1>4. ASSUME NEW t \in Thread,
             \/ Drop(t)
      PROVE  PairOK'
  <2>1. UNCHANGED <<by, serial>> /\ pair' = [pair EXCEPT ![agent[t]] = 0]
    BY <1>4 DEF Drop
  <2>2. aligned' \subseteq aligned
    BY <1>4 DEF Drop, Remove
  <2>3. \A c \in Id : pair'[c] = pair[c] \/ pair'[c] = 0
    BY <2>1
  <2>4. \A c \in Id : pair'[c] < c
    <3>1. ASSUME NEW c \in Id PROVE pair'[c] < c
      <4>1. pair[c] < c /\ 0 < c
        OBVIOUS
      <4>2. pair'[c] = pair[c] \/ pair'[c] = 0
        BY <2>3
      <4> QED BY <4>1, <4>2
    <3> QED BY <3>1
  <2>5. \A c \in Id : pair'[c] # 0 => by[c] = "video" /\ by[pair'[c]] = "video"
    <3>1. ASSUME NEW c \in Id, pair'[c] # 0 PROVE by[c] = "video" /\ by[pair'[c]] = "video"
      <4>1. pair[c] # 0 /\ pair'[c] = pair[c]
        BY <2>3, <3>1
      <4> QED BY <4>1
    <3> QED BY <3>1
  <2>6. \A c \in Id : pair'[c] # 0 => c <= serial
    BY <2>3
  <2> QED BY <2>1, <2>2, <2>4, <2>5, <2>6
<1>5. ASSUME NEW t \in Thread,
             \/ DoEOS(t)
      PROVE  PairOK'
  BY <1>5 DEF DoEOS, ClearList
<1>6. ASSUME \/ Flush
      PROVE  PairOK'
  BY <1>6 DEF Flush, ClearList
<1>7. ASSUME NEW t \in Thread,
             \/ GetChunk(t) \/ GetNothing(t) \/ GetEnd(t) \/ LeaveLoop(t)
             \/ Notice(t) \/ Begin(t) \/ Sample(t) \/ Put(t) \/ UsePart(t)
             \/ Downloaded(t)
             \/ Complete(t) \/ Ignore(t) \/ Merge(t) \/ UsePair(t)
             \/ UseOwn(t) \/ Rest(t) \/ ReportEnd(t) \/ TestEnd(t)
      PROVE  PairOK'
  <2>1. UNCHANGED <<aligned, by, pair, serial>>
    BY <1>7 DEF GetChunk, GetNothing, GetEnd, LeaveLoop, Notice, Begin,
       FindBAChunk, Sample, Put, UsePart, Downloaded, Complete, Judged, Ignore,
       Merge, UsePair, Use, UseOwn, Rest, ReportEnd, TestEnd
  <2> QED BY <2>1
<1>8. ASSUME \/ Seek \/ SetStop \/ CloseCache \/ (\E t \in Thread : Halt(t))
             \/ Resume \/ Unblock \/ ChangeBitrateWhenError \/ ParserFails
             \/ Reopen \/ UNCHANGED vars
      PROVE  PairOK'
  <2>1. UNCHANGED <<aligned, by, pair, serial>>
    BY <1>8 DEF Seek, SetStop, CloseCache, Halt, Resume, Unblock,
       ChangeBitrateWhenError, ParserFails, Reopen, vars
  <2> QED BY <2>1
<1> QED BY <1>1, <1>2, <1>3, <1>4, <1>5, <1>6, <1>7, <1>8 DEF Next, Work,
       InChunk, Controller

\* A pair that was found is a chunk of the video thread that was set aside.
LEMMA FoundStep ==
    ASSUME TypeOK, PairOK, \A u \in Thread : ResultOK(u) /\ FoundOK(u),
           [Next]_vars
    PROVE  \A u \in Thread : FoundOK(u)'
<1> USE DownloadBufferAssumption DEF chunks, local, flags, control, history,
        Goto, Id, None, TypeOK, ListType, ChunkType, FoundOK
<1>1. ASSUME NEW t \in Thread,
             \/ Begin(t)
      PROVE  \A u \in Thread : FoundOK(u)'
  BY <1>1 DEF Begin, FindBAChunk, PairOK, ResultOK
<1>2. ASSUME NEW t \in Thread,
             \/ Save(t)
      PROVE  \A u \in Thread : FoundOK(u)'
  <2>1. /\ serial' = serial + 1 /\ serial' \in Id
        /\ by' = [by EXCEPT ![serial'] = t]
        /\ found' = [found EXCEPT ![t] = 0]
    BY <1>2 DEF Save
  <2>2. ASSUME NEW u \in Thread PROVE FoundOK(u)'
    <3>1. CASE u = t
      BY <2>1, <3>1
    <3>2. CASE u # t
      <4>1. found'[u] = found[u]
        BY <2>1, <3>2
      <4>2. FoundOK(u) /\ found[u] \in 0 .. MaxChunk
        OBVIOUS
      <4>3. found[u] # serial'
        BY <2>1, <4>2
      <4>4. found[u] # 0 => by'[found[u]] = by[found[u]]
        BY <2>1, <4>2, <4>3
      <4> QED BY <2>1, <4>1, <4>2, <4>4
    <3> QED BY <3>1, <3>2
  <2> QED BY <2>2
<1>3. ASSUME NEW t \in Thread,
             \/ GetChunk(t) \/ GetNothing(t) \/ GetEnd(t) \/ LeaveLoop(t)
             \/ Notice(t) \/ Sample(t) \/ Put(t) \/ UsePart(t) \/ Downloaded(t)
             \/ Complete(t) \/ SetAside(t) \/ Ignore(t) \/ Merge(t)
             \/ UsePair(t) \/ UseOwn(t) \/ DropPair(t) \/ Drop(t) \/ Rest(t)
             \/ ReportEnd(t) \/ TestEnd(t) \/ DoEOS(t)
      PROVE  \A u \in Thread : FoundOK(u)'
  <2>1. UNCHANGED <<found, serial, by>>
    BY <1>3 DEF GetChunk, GetNothing, GetEnd, LeaveLoop, Notice, Sample, Put,
       UsePart, Downloaded, Complete, Judged, SetAside, Ignore, Merge, UsePair,
       Use, UseOwn, DropPair, Remove, Drop, Rest, ReportEnd, TestEnd, DoEOS,
       ClearList
  <2> QED BY <2>1
<1>4. ASSUME \/ Seek \/ SetStop \/ CloseCache \/ (\E t \in Thread : Halt(t))
             \/ Flush \/ Resume \/ Unblock \/ ChangeBitrateWhenError
             \/ ParserFails \/ Reopen
             \/ UNCHANGED vars
      PROVE  \A u \in Thread : FoundOK(u)'
  <2>1. UNCHANGED <<found, serial, by>>
    BY <1>4 DEF Seek, SetStop, CloseCache, Halt, Flush, ClearList, Resume,
       Unblock, ChangeBitrateWhenError, ParserFails, Reopen, vars
  <2> QED BY <2>1
<1> QED BY <1>1, <1>2, <1>3, <1>4 DEF Next, Work, InChunk, Controller

-----------------------------------------------------------------------------
\* Chunks in use are in the list

\* What a thread does leaves the other threads where they are.
LEMMA OthersStay ==
    ASSUME TypeOK, NEW t \in Thread, NEW u \in Thread, u # t, Work(t)
    PROVE  /\ at'[u] = at[u] /\ agent'[u] = agent[u] /\ found'[u] = found[u]
           /\ kind'[u] = kind[u] /\ smooth'[u] = smooth[u] /\ result'[u] = result[u]
<1> USE DEF TypeOK, ListType, ThreadType, local, flags, control, history, chunks,
       Goto
<1>1. CASE GetChunk(t)
  BY <1>1 DEF GetChunk
<1>2. CASE GetNothing(t)
  BY <1>2 DEF GetNothing
<1>3. CASE GetEnd(t)
  BY <1>3 DEF GetEnd
<1>4. CASE LeaveLoop(t)
  BY <1>4 DEF LeaveLoop
<1>5. CASE Notice(t)
  BY <1>5 DEF Notice
<1>6. CASE Begin(t)
  BY <1>6 DEF Begin, FindBAChunk
<1>7. CASE Save(t)
  BY <1>7 DEF Save
<1>8. CASE Sample(t)
  BY <1>8 DEF Sample
<1>9. CASE Put(t) \/ UsePart(t)
  BY <1>9 DEF Put, UsePart
<1>10. CASE Downloaded(t)
  BY <1>10 DEF Downloaded
<1>11. CASE Complete(t)
  BY <1>11 DEF Complete
<1>12. CASE SetAside(t)
  BY <1>12 DEF SetAside
<1>13. CASE Ignore(t)
  BY <1>13 DEF Ignore
<1>14. CASE Merge(t)
  BY <1>14 DEF Merge
<1>15. CASE UsePair(t)
  BY <1>15 DEF UsePair, Use
<1>16. CASE UseOwn(t)
  BY <1>16 DEF UseOwn, Use
<1>17. CASE DropPair(t)
  BY <1>17 DEF DropPair
<1>18. CASE Drop(t)
  BY <1>18 DEF Drop
<1>19. CASE Rest(t)
  BY <1>19 DEF Rest
<1>20. CASE ReportEnd(t)
  BY <1>20 DEF ReportEnd
<1>21. CASE TestEnd(t)
  BY <1>21 DEF TestEnd
<1>22. CASE DoEOS(t)
  BY <1>22 DEF DoEOS
<1> QED BY <1>1, <1>2, <1>3, <1>4, <1>5, <1>6, <1>7, <1>8, <1>9, <1>10, <1>11,
       <1>12, <1>13, <1>14, <1>15, <1>16, <1>17, <1>18, <1>19, <1>20, <1>21,
       <1>22 DEF Work, InChunk

\* Nobody else unlinks the pair of a thread's chunk.
LEMMA PairStays ==
    ASSUME TypeOK, \A v \in Thread : AgentOK(v),
           NEW t \in Thread, NEW u \in Thread, u # t, Work(t), agent[u] # None
    PROVE  pair'[agent[u]] = pair[agent[u]]
<1> USE DEF TypeOK, ListType, ChunkType, AgentOK, Id, None
<1>1. CASE Save(t)
  <2>1. serial' = serial + 1 /\ pair' = [pair EXCEPT ![serial'] = found[t]]
    BY <1>1 DEF Save
  <2>2. agent[u] # serial' /\ agent[u] \in Id
    BY <2>1
  <2> QED BY <2>1, <2>2
<1>2. CASE Drop(t)
  <2>1. pair' = [pair EXCEPT ![agent[t]] = 0]
    BY <1>2 DEF Drop
  <2>2. agent[t] # agent[u] /\ agent[u] \in Id
    OBVIOUS
  <2> QED BY <2>1, <2>2
<1>3. ASSUME \/ GetChunk(t) \/ GetNothing(t) \/ GetEnd(t) \/ LeaveLoop(t)
              \/ Notice(t) \/ Begin(t) \/ Sample(t) \/ Put(t) \/ UsePart(t)
              \/ Downloaded(t) \/ Complete(t) \/ SetAside(t) \/ Ignore(t)
              \/ Merge(t) \/ UsePair(t) \/ UseOwn(t) \/ DropPair(t)
              \/ Rest(t) \/ ReportEnd(t) \/ TestEnd(t) \/ DoEOS(t)
      PROVE  pair' = pair
  BY <1>3 DEF chunks, GetChunk, GetNothing, GetEnd, LeaveLoop, Notice, Begin,
     FindBAChunk, Sample, Put, UsePart, Downloaded, Complete, Judged, SetAside,
     Ignore, Merge, UsePair, Use, UseOwn, DropPair, Remove, Rest, ReportEnd,
     TestEnd, DoEOS, ClearList
<1> QED BY <1>1, <1>2, <1>3 DEF Work, InChunk

\* The list has chunks only.
LEMMA NoneNotListed == ASSUME ListType PROVE None \notin list
BY DEF ListType, None

\* What a thread finds at a place is what its way there made of it.
LEMMA OwnPlace ==
    ASSUME TypeOK, NEW t \in Thread, PlaceOK(t), Work(t)
    PROVE  PlaceOK(t)'
<1> USE DownloadBufferAssumption DEF TypeOK, ListType, ChunkType, ThreadType,
       chunks,
        local, flags, control, history, Goto, Id, None, PlaceOK, InList
<1>1. ASSUME \/ GetChunk(t) \/ GetNothing(t) \/ GetEnd(t) \/ LeaveLoop(t)
              \/ Notice(t) \/ Downloaded(t) \/ Complete(t) \/ Rest(t)
              \/ ReportEnd(t) \/ TestEnd(t) \/ DoEOS(t)
      PROVE  PlaceOK(t)'
  <2>1. UNCHANGED found
    BY <1>1 DEF GetChunk, GetNothing, GetEnd, LeaveLoop, Notice, Downloaded,
       Complete, Rest, ReportEnd, TestEnd, DoEOS, ClearList
  <2>2. at[t] # "save"
    BY <1>1 DEF GetChunk, GetNothing, GetEnd, LeaveLoop, Notice, Downloaded,
       Complete, Rest, ReportEnd, TestEnd, DoEOS, ClearList
  <2>3. at'[t] \in {"begin", "notice", "eos", "gone", "idle", "complete", "end", "test", "clear"}
    <3>1. CASE GetChunk(t)
      BY <3>1 DEF GetChunk
    <3>2. CASE GetNothing(t)
      BY <3>2 DEF GetNothing
    <3>3. CASE GetEnd(t)
      BY <3>3 DEF GetEnd
    <3>4. CASE LeaveLoop(t)
      BY <3>4 DEF LeaveLoop
    <3>5. CASE Notice(t)
      BY <3>5 DEF Notice
    <3>6. CASE Downloaded(t)
      BY <3>6 DEF Downloaded
    <3>7. CASE Complete(t)
      BY <3>7 DEF Complete
    <3>8. CASE Rest(t)
      BY <3>8 DEF Rest
    <3>9. CASE ReportEnd(t)
      BY <3>9 DEF ReportEnd
    <3>10. CASE TestEnd(t)
      BY <3>10 DEF TestEnd
    <3>11. CASE DoEOS(t)
      BY <3>11 DEF DoEOS
    <3> QED BY <1>1, <3>1, <3>2, <3>3, <3>4, <3>5, <3>6, <3>7, <3>8, <3>9, <3>10,
               <3>11
  <2> QED BY <2>1, <2>2, <2>3
<1>2. CASE Begin(t)
  <2>1. at'[t] \in {"save", "full"} /\ (at'[t] # "save" => found' = found)
    BY <1>2 DEF Begin
  <2>2. at[t] # "save"
    BY <1>2 DEF Begin
  <2> QED BY <2>1, <2>2
<1>3. CASE Save(t)
  <2>1. at'[t] = "load" /\ found'[t] = 0
    BY <1>3 DEF Save
  <2> QED BY <2>1
<1>4. CASE Sample(t)
  <2>1. at'[t] \in {"put", "full", "rest"} /\ UNCHANGED <<found, agent, list>>
    BY <1>4 DEF Sample
  <2>2. at[t] = "load" /\ (at'[t] = "put" => agent[t] \in list)
    BY <1>4 DEF Sample
  <2>3. found'[t] = 0 /\ (agent[t] \in list => agent'[t] # 0)
    BY <2>1, <2>2
  <2> QED BY <2>1, <2>2, <2>3
<1>5. CASE Put(t)
  <2>1. /\ at'[t] \in {"full", "outgrown", "end"} /\ at[t] = "put"
        /\ UNCHANGED <<found, agent>>
    BY <1>5 DEF Put
  <2> QED BY <2>1
<1>13. CASE UsePart(t)
  <2>1. at'[t] = "load" /\ UNCHANGED found /\ at[t] = "outgrown"
    BY <1>13 DEF UsePart
  <2> QED BY <2>1
<1>6. CASE SetAside(t)
  <2>1. at'[t] \in {"rest", "drop"} /\ UNCHANGED <<found, agent>> /\ at[t] = "end"
    BY <1>6 DEF SetAside
  <2>2. at'[t] = "drop" => agent[t] \in list
    BY <1>6 DEF SetAside
  <2>3. found'[t] = 0 /\ (agent[t] \in list => agent'[t] # 0)
    BY <2>1
  <2> QED BY <2>1, <2>2, <2>3
<1>7. CASE Ignore(t)
  <2>1. at'[t] \in {"rest", "drop"} /\ UNCHANGED <<found, agent>> /\ at[t] = "end"
    BY <1>7 DEF Ignore
  <2>2. at'[t] = "drop" => agent[t] \in list
    BY <1>7 DEF Ignore
  <2>3. found'[t] = 0 /\ (agent[t] \in list => agent'[t] # 0)
    BY <2>1
  <2> QED BY <2>1, <2>2, <2>3
<1>8. CASE Merge(t)
  <2>1. at'[t] \in {"rest", "use", "use pair"} /\ UNCHANGED <<found, agent, pair>>
    BY <1>8 DEF Merge
  <2>2. at[t] = "end" /\ (at'[t] # "rest" => agent[t] \in list)
    BY <1>8 DEF Merge
  <2>3. at'[t] = "use pair" => pair[agent[t]] # 0
    BY <1>8 DEF Merge
  <2>4. found'[t] = 0
    BY <2>1, <2>2
  <2>6. agent[t] \in list => agent'[t] # 0
    <3>1. 0 \notin list
      BY NoneNotListed
    <3>2. agent' = agent
      BY <2>1
    <3> QED BY <3>1, <3>2
  <2>5. at'[t] = "use pair" => pair'[agent'[t]] # 0
    BY <2>1, <2>3
  <2> QED BY <2>1, <2>2, <2>4, <2>5, <2>6
<1>9. CASE UsePair(t)
  <2>1. at'[t] = "use" /\ UNCHANGED <<found, agent>> /\ at[t] = "use pair"
    BY <1>9 DEF UsePair, Use
  <2> QED BY <2>1
<1>10. CASE UseOwn(t)
  <2>1. at'[t] \in {"drop", "drop pair"} /\ UNCHANGED <<found, agent, pair>>
    BY <1>10 DEF UseOwn, Use
  <2>2. at[t] = "use" /\ (at'[t] = "drop pair" => pair[agent[t]] # 0)
    BY <1>10 DEF UseOwn, Use
  <2> QED BY <2>1, <2>2
<1>11. CASE DropPair(t)
  <2>1. at'[t] = "drop" /\ UNCHANGED <<found, agent>> /\ at[t] = "drop pair"
    BY <1>11 DEF DropPair
  <2> QED BY <2>1
<1>12. CASE Drop(t)
  <2>1. at'[t] = "rest" /\ UNCHANGED found /\ at[t] = "drop"
    BY <1>12 DEF Drop
  <2> QED BY <2>1
<1> QED BY <1>1, <1>2, <1>3, <1>4, <1>5, <1>6, <1>7, <1>8, <1>9, <1>10, <1>11,
       <1>12, <1>13 DEF Work, InChunk

\* No thread finds at a place what another one made of it, and all are gone when
\* the controller lets them go on.
LEMMA PlaceStep ==
    ASSUME TypeOK, \A v \in Thread : AgentOK(v), FlushOK,
           \A v \in Thread : PlaceOK(v), [Next]_vars
    PROVE  \A u \in Thread : PlaceOK(u)'
<1> USE DEF TypeOK, ThreadType, ListType, None
<1>1. ASSUME NEW t \in Thread, Work(t), NEW u \in Thread PROVE PlaceOK(u)'
  <2>1. CASE u = t
    BY <1>1, <2>1, OwnPlace
  <2>2. CASE u # t
    <3>1. at'[u] = at[u] /\ agent'[u] = agent[u] /\ found'[u] = found[u]
      BY <1>1, <2>2, OthersStay
    <3>2. agent[u] # None => pair'[agent[u]] = pair[agent[u]]
      BY <1>1, <2>2, PairStays
    <3>3. PlaceOK(u)
      OBVIOUS
    <3>4. at[u] # "save" => found[u] = None
      BY <3>3 DEF PlaceOK
    <3>5. at[u] \in InList => agent[u] # None
      BY <3>3 DEF PlaceOK
    <3>6. at[u] \in {"use pair", "drop pair"} => pair[agent[u]] # None
      BY <3>3 DEF PlaceOK
    <3> QED BY <3>1, <3>2, <3>4, <3>5, <3>6 DEF PlaceOK, InList
  <2> QED BY <2>1, <2>2
<1>2. ASSUME Seek \/ SetStop \/ CloseCache \/ (\E t \in Thread : Halt(t)) \/ Flush
             \/ Unblock \/ ChangeBitrateWhenError \/ ParserFails \/ UNCHANGED vars
      PROVE  \A u \in Thread : PlaceOK(u)'
  <2>1. UNCHANGED <<at, agent, found, pair>>
    BY <1>2 DEF vars, chunks, local, flags, control, history, Seek, SetStop,
       CloseCache, Halt, Flush, ClearList,
                Unblock, ChangeBitrateWhenError, ParserFails
  <2> QED BY <2>1 DEF PlaceOK
<1>3. ASSUME Resume \/ Reopen, NEW u \in Thread PROVE PlaceOK(u)'
  <2>1. at'[u] = "idle" /\ UNCHANGED found /\ ctl \in {"parse", "stopped"}
    BY <1>3 DEF Resume, Reopen, local
  <2>2. at[u] = "gone" /\ PlaceOK(u)
    BY <2>1 DEF FlushOK
  <2>3. found[u] = None
    BY <2>2 DEF PlaceOK
  <2> QED BY <2>1, <2>3 DEF PlaceOK, InList
<1> QED BY <1>1, <1>2, <1>3 DEF Next, Controller

\* Nobody works while the controller is between the flush and the next start.
LEMMA FlushStep ==
    ASSUME TypeOK, FlushOK, [Next]_vars
    PROVE  FlushOK'
<1> USE DEF TypeOK, ThreadType, ListType, FlushOK
<1>1. ASSUME NEW t \in Thread, Work(t) PROVE FlushOK'
  <2>1. at[t] # "gone"
    BY <1>1 DEF GetChunk, GetNothing, GetEnd, LeaveLoop, Notice, Begin, Save,
       Sample, Put, UsePart, Downloaded, Complete, SetAside, Ignore, Merge, UsePair,
       UseOwn, DropPair, Drop, Rest, ReportEnd, TestEnd, DoEOS, Work, InChunk
  <2>2. UNCHANGED ctl
    BY <1>1 DEF GetChunk, GetNothing, GetEnd, LeaveLoop, Notice, Begin, Save,
       Sample, Put, UsePart, Downloaded, Complete, SetAside, Ignore, Merge,
       UsePair, Use, UseOwn, DropPair, Drop, Rest, ReportEnd, TestEnd, DoEOS,
       Work, InChunk, control
  <2> QED BY <2>1, <2>2
<1>2. CASE Flush
  BY <1>2 DEF Flush, ClearList
<1>3. ASSUME Seek \/ SetStop \/ CloseCache \/ Resume \/ Unblock \/ ParserFails \/ Reopen
      PROVE  FlushOK'
  <2>1. ctl' \notin {"parse", "stopped"}
    BY <1>3 DEF Seek, SetStop, CloseCache, Resume, Unblock, ParserFails, Reopen
  <2> QED BY <2>1
<1>4. ASSUME (\E t \in Thread : Halt(t)) \/ ChangeBitrateWhenError \/ UNCHANGED vars
      PROVE  FlushOK'
  <2>1. UNCHANGED <<ctl, list, at>>
    BY <1>4 DEF Halt, ChangeBitrateWhenError, vars, chunks, control
  <2> QED BY <2>1
<1> QED BY <1>1, <1>2, <1>3, <1>4 DEF Next, Controller

\* The list is cleared by a thread that saw both flags.
LEMMA EndStep ==
    ASSUME TypeOK, FlushOK, EndOK, ~stale', [Next]_vars
    PROVE  EndOK'
<1> USE DEF TypeOK, ThreadType, ControlType, EndOK, Goto
<1>1. ASSUME NEW t \in Thread,
              \/ GetChunk(t) \/ GetNothing(t) \/ GetEnd(t) \/ LeaveLoop(t)
              \/ Notice(t) \/ Begin(t) \/ Save(t) \/ Sample(t) \/ Put(t)
              \/ UsePart(t)
              \/ Downloaded(t) \/ Complete(t) \/ SetAside(t) \/ Ignore(t)
              \/ Merge(t) \/ UsePair(t) \/ UseOwn(t) \/ DropPair(t)
              \/ Drop(t) \/ Rest(t)
      PROVE  EndOK'
  <2>1. at[t] \notin {"test", "clear", "gone"} /\ at'[t] # "clear" /\ UNCHANGED ended
    BY <1>1 DEF GetChunk, GetNothing, GetEnd, LeaveLoop, Notice, Begin, Save,
       Sample, Put, UsePart, Downloaded, Complete, SetAside, Ignore, Merge,
       UsePair, Use, UseOwn, DropPair, Drop, Rest
  <2>2. \A u \in Thread : u # t => at'[u] = at[u]
    BY <1>1, OthersStay DEF Work, InChunk
  <2>3. t \notin ended
    BY <2>1
  <2>4. \A u \in ended' : u # t /\ u \in Thread /\ at'[u] \in {"test", "clear", "gone"}
    BY <2>1, <2>2, <2>3, DownloadBufferAssumption
  <2>5. ASSUME NEW u \in Thread, at'[u] = "clear" PROVE ended' = {"video", "audio"}
    BY <2>1, <2>2, <2>5
  <2> QED BY <2>4, <2>5
<1>2. ASSUME NEW t \in Thread, ReportEnd(t) PROVE EndOK'
  <2>1. \A u \in Thread : u # t => at'[u] = at[u]
    BY <1>2, OthersStay DEF Work
  <2>2. at[t] = "eos"
    BY <1>2 DEF ReportEnd
  <2>3. \/ at'[t] = "gone" /\ ended' = ended
        \/ at'[t] = "test" /\ ended' = ended \cup ({t} \ {"subtitle"})
    BY <1>2 DEF ReportEnd
  <2>4. t \notin ended
    BY <2>2
  <2>5. \A u \in ended' : u \in Thread /\ at'[u] \in {"test", "clear", "gone"}
    <3>1. ASSUME NEW u \in ended', u # t PROVE u \in ended /\ u \in Thread
      BY <2>3, <3>1, DownloadBufferAssumption
    <3>2. at'[t] \in {"test", "gone"}
      BY <2>3
    <3> QED BY <2>1, <3>1, <3>2
  <2>6. ASSUME NEW u \in Thread, at'[u] = "clear" PROVE ended' = {"video", "audio"}
    <3>1. u # t
      BY <2>3, <2>6
    <3>2. ended = {"video", "audio"}
      BY <2>1, <2>6, <3>1
    <3>3. t # "subtitle" => t \in ended
      BY <3>2, DownloadBufferAssumption
    <3> QED BY <2>4, <2>3, <3>2, <3>3
  <2> QED BY <2>5, <2>6
<1>3. ASSUME NEW t \in Thread, TestEnd(t) \/ DoEOS(t) PROVE EndOK'
  <2>1. \A u \in Thread : u # t => at'[u] = at[u]
    BY <1>3, OthersStay DEF Work
  <2>2. UNCHANGED ended /\ at'[t] \in {"clear", "gone"}
    BY <1>3 DEF TestEnd, DoEOS
  <2>3. at'[t] = "clear" => ended = {"video", "audio"}
    BY <1>3 DEF TestEnd, DoEOS
  <2>4. \A u \in ended' : u \in Thread /\ at'[u] \in {"test", "clear", "gone"}
    BY <2>1, <2>2, DownloadBufferAssumption
  <2>5. ASSUME NEW u \in Thread, at'[u] = "clear" PROVE ended' = {"video", "audio"}
    BY <2>1, <2>2, <2>3, <2>5
  <2> QED BY <2>4, <2>5
<1>4. ASSUME Seek \/ SetStop \/ CloseCache \/ (\E t \in Thread : Halt(t)) \/ Flush
             \/ Unblock \/ ChangeBitrateWhenError \/ ParserFails \/ UNCHANGED vars
      PROVE  EndOK'
  <2>1. UNCHANGED <<at, ended>>
    BY <1>4 DEF vars, Seek, SetStop, CloseCache, Halt, Flush, Unblock,
       ChangeBitrateWhenError, ParserFails
  <2> QED BY <2>1
<1>5. CASE Resume
  <2>1. ended' = {} /\ at' = [t \in Thread |-> "idle"]
    BY <1>5 DEF Resume
  <2> QED BY <2>1
<1>6. CASE Reopen
  <2>1. at' = [t \in Thread |-> "idle"] /\ UNCHANGED ended
    BY <1>6 DEF Reopen
  <2>2. ended = {}
    BY <1>6 DEF Reopen
  <2> QED BY <2>1, <2>2
<1> QED BY <1>1, <1>2, <1>3, <1>4, <1>5, <1>6 DEF Next, Work, InChunk, Controller

\* A thread that keeps its chunk, or has none any more, and has looked it up
\* before it uses it, uses what is in the list.
LEMMA LiveKept ==
    ASSUME TypeOK, NEW t \in Thread, LiveOK(t), UNCHANGED <<list, pair>>,
           found'[t] \in list \cup {found[t], None},
           agent'[t] = agent[t] \/ agent'[t] = None,
           at'[t] \in InList => agent'[t] = agent[t] /\ (at[t] \in InList \/ agent[t] \in list),
           at'[t] \in WithPair => at[t] \in WithPair \/ agent'[t] = None
    PROVE  LiveOK(t)'
<1>1. None \notin list
  BY NoneNotListed DEF TypeOK
<1>2. found[t] # None => found[t] \in list
  BY DEF LiveOK
<1>3. at[t] \in InList => agent[t] \in list
  BY DEF LiveOK
<1>4. at[t] \in WithPair /\ agent[t] \in list /\ pair[agent[t]] # None
        => pair[agent[t]] \in list
  BY DEF LiveOK
<1>5. found'[t] # None => found'[t] \in list'
  BY <1>2
<1>6. ASSUME at'[t] \in InList PROVE agent'[t] \in list'
  <2>1. agent'[t] = agent[t] /\ list' = list
    BY <1>6
  <2>2. at[t] \in InList \/ agent[t] \in list
    BY <1>6
  <2> QED BY <1>3, <2>1, <2>2
<1>7. ASSUME at'[t] \in WithPair, agent'[t] \in list', pair'[agent'[t]] # None
      PROVE  pair'[agent'[t]] \in list'
  <2>1. agent'[t] = agent[t] /\ at[t] \in WithPair
    BY <1>1, <1>7
  <2> QED BY <1>4, <1>7, <2>1
<1> QED BY <1>5, <1>6, <1>7 DEF LiveOK, InList, WithPair

\* What a thread itself does leaves what it goes on to use in the list.
LEMMA OwnLive ==
    ASSUME TypeOK, PairOK, EndOK, NEW t \in {"video", "audio"}, t \in Thread,
           AgentOK(t), FoundOK(t), PlaceOK(t), LiveOK(t), Work(t)
    PROVE  LiveOK(t)'
<1> USE DEF chunks, local, Goto
<1>0. /\ agent \in [Thread -> 0 .. MaxChunk] /\ found \in [Thread -> 0 .. MaxChunk]
      /\ at \in [Thread -> Place] /\ list \subseteq 1 .. serial /\ serial \in 0 .. MaxChunk
  BY DEF TypeOK, ListType, ThreadType
<1>1. CASE GetChunk(t)
  <2>1. UNCHANGED <<list, pair, found>>
    BY <1>0, <1>1 DEF GetChunk
  <2>2. at[t] \in {"idle"} /\ at'[t] \in {"begin"}
    BY <1>0, <1>1 DEF GetChunk
  <2>3. agent'[t] = agent[t]
    BY <1>0, <1>1 DEF GetChunk
  <2> QED BY <2>1, <2>2, <2>3, LiveKept DEF InList, WithPair
<1>2. CASE GetNothing(t)
  <2>1. UNCHANGED <<list, pair, found>>
    BY <1>0, <1>2 DEF GetNothing
  <2>2. at[t] \in {"idle"} /\ at'[t] \in {"notice"}
    BY <1>0, <1>2 DEF GetNothing
  <2>3. agent'[t] = agent[t] \/ agent'[t] = None
    BY <1>0, <1>2 DEF GetNothing
  <2> QED BY <2>1, <2>2, <2>3, LiveKept DEF InList, WithPair
<1>3. CASE GetEnd(t)
  <2>1. UNCHANGED <<list, pair, found>>
    BY <1>0, <1>3 DEF GetEnd
  <2>2. at[t] \in {"idle"} /\ at'[t] \in {"notice", "eos"}
    BY <1>0, <1>3 DEF GetEnd
  <2>3. agent'[t] = agent[t]
    BY <1>0, <1>3 DEF GetEnd
  <2> QED BY <2>1, <2>2, <2>3, LiveKept DEF InList, WithPair
<1>4. CASE LeaveLoop(t)
  <2>1. UNCHANGED <<list, pair, found>>
    BY <1>0, <1>4 DEF LeaveLoop
  <2>2. at[t] \in {"idle"} /\ at'[t] \in {"gone"}
    BY <1>0, <1>4 DEF LeaveLoop
  <2>3. agent'[t] = agent[t]
    BY <1>0, <1>4 DEF LeaveLoop
  <2> QED BY <2>1, <2>2, <2>3, LiveKept DEF InList, WithPair
<1>5. CASE Notice(t)
  <2>1. UNCHANGED <<list, pair, found>>
    BY <1>0, <1>5 DEF Notice
  <2>2. at[t] \in {"notice"} /\ at'[t] \in {"eos", "idle", "begin"}
    BY <1>0, <1>5 DEF Notice
  <2>3. agent'[t] = agent[t]
    BY <1>0, <1>5 DEF Notice
  <2> QED BY <2>1, <2>2, <2>3, LiveKept DEF InList, WithPair
<1>6. CASE Sample(t)
  <2>1. UNCHANGED <<list, pair, found>>
    BY <1>0, <1>6 DEF Sample
  <2>2. at[t] \in {"load"} /\ at'[t] \in {"put", "full", "rest"}
    BY <1>0, <1>6 DEF Sample
  <2>3. agent'[t] = agent[t]
    BY <1>0, <1>6 DEF Sample
  <2>4. at'[t] = "put" => agent[t] \in list
    BY <1>0, <1>6 DEF Sample
  <2> QED BY <2>1, <2>2, <2>3, <2>4, LiveKept DEF InList, WithPair
<1>7. CASE Put(t) \/ UsePart(t)
  <2>1. UNCHANGED <<list, pair, found>>
    BY <1>0, <1>7 DEF Put, UsePart
  <2>2. at[t] \in {"put", "outgrown"} /\ at'[t] \in {"full", "outgrown", "load", "end"}
    BY <1>0, <1>7 DEF Put, UsePart
  <2>3. agent'[t] = agent[t]
    BY <1>0, <1>7 DEF Put, UsePart
  <2> QED BY <2>1, <2>2, <2>3, LiveKept DEF InList, WithPair
<1>8. CASE Downloaded(t)
  <2>1. UNCHANGED <<list, pair, found>>
    BY <1>0, <1>8 DEF Downloaded
  <2>2. at[t] \in {"load", "full"} /\ at'[t] \in {"complete"}
    BY <1>0, <1>8 DEF Downloaded
  <2>3. agent'[t] = agent[t]
    BY <1>0, <1>8 DEF Downloaded
  <2> QED BY <2>1, <2>2, <2>3, LiveKept DEF InList, WithPair
<1>9. CASE Complete(t)
  <2>1. UNCHANGED <<list, pair, found>>
    BY <1>0, <1>9 DEF Complete
  <2>2. at[t] \in {"complete"} /\ at'[t] \in {"idle", "end"}
    BY <1>0, <1>9 DEF Complete
  <2>3. agent'[t] = agent[t] \/ agent'[t] = None
    BY <1>0, <1>9 DEF Complete
  <2> QED BY <2>1, <2>2, <2>3, LiveKept DEF InList, WithPair
<1>10. CASE SetAside(t)
  <2>1. UNCHANGED <<list, pair, found>>
    BY <1>0, <1>10 DEF SetAside
  <2>2. at[t] \in {"end"} /\ at'[t] \in {"rest", "drop"}
    BY <1>0, <1>10 DEF SetAside
  <2>3. agent'[t] = agent[t]
    BY <1>0, <1>10 DEF SetAside
  <2>4. at'[t] = "drop" => agent[t] \in list
    BY <1>0, <1>10 DEF SetAside
  <2> QED BY <2>1, <2>2, <2>3, <2>4, LiveKept DEF InList, WithPair
<1>11. CASE Ignore(t)
  <2>1. UNCHANGED <<list, pair, found>>
    BY <1>0, <1>11 DEF Ignore
  <2>2. at[t] \in {"end"} /\ at'[t] \in {"drop", "rest"}
    BY <1>0, <1>11 DEF Ignore
  <2>3. agent'[t] = agent[t]
    BY <1>0, <1>11 DEF Ignore
  <2>4. at'[t] = "drop" => agent[t] \in list
    BY <1>0, <1>11 DEF Ignore
  <2> QED BY <2>1, <2>2, <2>3, <2>4, LiveKept DEF InList, WithPair
<1>12. CASE Merge(t)
  <2>1. UNCHANGED <<list, pair, found>>
    BY <1>0, <1>12 DEF Merge
  <2>2. at[t] \in {"end"} /\ at'[t] \in {"rest", "use", "use pair"}
    BY <1>0, <1>12 DEF Merge
  <2>3. agent'[t] = agent[t]
    BY <1>0, <1>12 DEF Merge
  <2>4. at'[t] # "rest" => agent[t] \in list
    BY <1>0, <1>12 DEF Merge
  <2> QED BY <2>1, <2>2, <2>3, <2>4, LiveKept DEF InList, WithPair
<1>13. CASE UsePair(t)
  <2>1. UNCHANGED <<list, pair, found>>
    BY <1>0, <1>13 DEF UsePair, Use
  <2>2. at[t] \in {"use pair"} /\ at'[t] \in {"use"}
    BY <1>0, <1>13 DEF UsePair, Use
  <2>3. agent'[t] = agent[t]
    BY <1>0, <1>13 DEF UsePair, Use
  <2> QED BY <2>1, <2>2, <2>3, LiveKept DEF InList, WithPair
<1>14. CASE UseOwn(t)
  <2>1. UNCHANGED <<list, pair, found>>
    BY <1>0, <1>14 DEF UseOwn, Use
  <2>2. at[t] \in {"use"} /\ at'[t] \in {"drop", "drop pair"}
    BY <1>0, <1>14 DEF UseOwn, Use
  <2>3. agent'[t] = agent[t]
    BY <1>0, <1>14 DEF UseOwn, Use
  <2> QED BY <2>1, <2>2, <2>3, LiveKept DEF InList, WithPair
<1>15. CASE Rest(t)
  <2>1. UNCHANGED <<list, pair, found>>
    BY <1>0, <1>15 DEF Rest
  <2>2. at[t] \in {"rest"} /\ at'[t] \in {"begin", "eos", "idle"}
    BY <1>0, <1>15 DEF Rest
  <2>3. agent'[t] = None
    BY <1>0, <1>15 DEF Rest
  <2> QED BY <2>1, <2>2, <2>3, LiveKept DEF InList, WithPair
<1>16. CASE ReportEnd(t)
  <2>1. UNCHANGED <<list, pair, found>>
    BY <1>0, <1>16 DEF ReportEnd
  <2>2. at[t] \in {"eos"} /\ at'[t] \in {"gone", "test"}
    BY <1>0, <1>16 DEF ReportEnd
  <2>3. agent'[t] = agent[t]
    BY <1>0, <1>16 DEF ReportEnd
  <2> QED BY <2>1, <2>2, <2>3, LiveKept DEF InList, WithPair
<1>17. CASE TestEnd(t)
  <2>1. UNCHANGED <<list, pair, found>>
    BY <1>0, <1>17 DEF TestEnd
  <2>2. at[t] \in {"test"} /\ at'[t] \in {"clear", "gone"}
    BY <1>0, <1>17 DEF TestEnd
  <2>3. agent'[t] = agent[t]
    BY <1>0, <1>17 DEF TestEnd
  <2> QED BY <2>1, <2>2, <2>3, LiveKept DEF InList, WithPair
<1>18. CASE Begin(t)
  <2>1. UNCHANGED <<list, pair>> /\ at[t] = "begin" /\ at'[t] \in {"full", "save"}
    BY <1>0, <1>18 DEF Begin
  <2>2. agent'[t] = agent[t] \/ agent'[t] = None
    BY <1>0, <1>18 DEF Begin
  <2>3. found'[t] \in list \cup {found[t], None}
    BY <1>0, <1>18 DEF Begin, FindBAChunk
  <2> QED BY <2>1, <2>2, <2>3, LiveKept DEF InList, WithPair
<1>19. CASE Save(t)
  <2> DEFINE s == serial'
  <2>1. s = serial + 1 /\ list' = list \cup {s} /\ pair' = [pair EXCEPT ![s] = found[t]]
    BY <1>0, <1>19 DEF Save
  <2>5. s \in Id
    BY <1>0, <1>19, DownloadBufferAssumption DEF Save, Id, TypeOK, ListType
  <2>2. found'[t] = None /\ agent'[t] = s /\ at'[t] = "load"
    BY <1>0, <1>19 DEF Save
  <2>3. pair'[s] = found[t]
    BY <2>1, <2>5 DEF TypeOK, ChunkType
  <2>4. found[t] # None => found[t] \in list
    BY DEF LiveOK
  <2>6. at'[t] \notin InList /\ pair'[agent'[t]] = found[t]
    BY <2>2, <2>3 DEF InList
  <2>7. found[t] # None => found[t] \in list'
    BY <2>1, <2>4
  <2> QED BY <2>2, <2>6, <2>7 DEF LiveOK
<1>20. CASE DropPair(t)
  <2>1. list' = list \ {pair[agent[t]]} /\ UNCHANGED <<agent, found>>
    BY <1>0, <1>20 DEF DropPair, Remove
  <2>2. at[t] = "drop pair" /\ at'[t] = "drop"
    BY <1>0, <1>20 DEF DropPair
  <2>3. agent[t] \in list /\ found[t] = None
    BY <2>2 DEF LiveOK, PlaceOK, InList
  <2>4. pair[agent[t]] # agent[t]
    BY <1>0, <2>3 DEF PairOK, Id
  <2> QED BY <2>1, <2>2, <2>3, <2>4 DEF LiveOK, InList, WithPair
<1>21. CASE Drop(t)
  <2>1. at[t] = "drop" /\ at'[t] = "rest" /\ UNCHANGED found
    BY <1>0, <1>21 DEF Drop
  <2>2. found[t] = None
    BY <2>1 DEF PlaceOK
  <2> QED BY <2>1, <2>2 DEF LiveOK, InList, WithPair
<1>22. CASE DoEOS(t)
  <2>1. at[t] = "clear" /\ at'[t] = "gone" /\ UNCHANGED found
    BY <1>0, <1>22 DEF DoEOS
  <2>2. found[t] = None
    BY <2>1 DEF PlaceOK
  <2> QED BY <2>1, <2>2 DEF LiveOK, InList, WithPair
<1> QED BY <1>1, <1>2, <1>3, <1>4, <1>5, <1>6, <1>7, <1>8, <1>9, <1>10, <1>11,
       <1>12, <1>13, <1>14, <1>15, <1>16, <1>17, <1>18, <1>19, <1>20, <1>21,
       <1>22 DEF Work, InChunk

\* What another thread removes from the list is not what a thread uses.
LEMMA OtherLive ==
    ASSUME TypeOK, PairOK, EndOK, \A v \in Thread : AgentOK(v) /\ FoundOK(v) /\ PlaceOK(v),
           NEW t \in Thread, NEW u \in {"video", "audio"}, u # t,
           LiveOK(u), Work(t)
    PROVE  LiveOK(u)'
<1> USE DEF chunks, local, Goto
<1>0. /\ agent \in [Thread -> 0 .. MaxChunk] /\ found \in [Thread -> 0 .. MaxChunk]
      /\ list \subseteq 1 .. serial /\ serial \in 0 .. MaxChunk /\ u \in Thread
      /\ pair \in [Id -> 0 .. MaxChunk]
  BY DownloadBufferAssumption DEF TypeOK, ListType, ChunkType
<1>1. at'[u] = at[u] /\ agent'[u] = agent[u] /\ found'[u] = found[u]
  BY <1>0, OthersStay
<1>2. agent[u] # None => pair'[agent[u]] = pair[agent[u]]
  BY <1>0, PairStays
<1>3. /\ found[u] # None => found[u] \in list
      /\ at[u] \in InList => agent[u] \in list
  BY DEF LiveOK
<1>4. at[u] \in WithPair /\ agent[u] \in list /\ pair[agent[u]] # None
        => pair[agent[u]] \in list
  BY DEF LiveOK
<1>5. None \notin list
  BY NoneNotListed DEF TypeOK
\* What follows once the list keeps what u uses
<1>6. ASSUME found[u] # None => found[u] \in list',
             agent[u] \in list => agent[u] \in list',
             agent[u] # None /\ agent[u] \in list' => agent[u] \in list,
             None \notin list',
             agent[u] \in list /\ pair[agent[u]] \in list => pair[agent[u]] \in list'
      PROVE  LiveOK(u)'
  <2>1. at'[u] \in InList => agent'[u] \in list'
    BY <1>1, <1>3, <1>6
  <2>2. ASSUME at'[u] \in WithPair, agent'[u] \in list', pair'[agent'[u]] # None
        PROVE  pair'[agent'[u]] \in list'
    <3>1. agent[u] # None /\ agent[u] \in list /\ at[u] \in WithPair
      BY <1>1, <1>6, <2>2
    <3>2. pair'[agent'[u]] = pair[agent[u]]
      BY <1>1, <1>2, <3>1
    <3> QED BY <1>4, <1>6, <2>2, <3>1, <3>2
  <2>3. found'[u] # None => found'[u] \in list'
    BY <1>1, <1>6
  <2> QED BY <2>1, <2>2, <2>3 DEF LiveOK, InList, WithPair
<1>7. agent[u] # None => agent[u] \in Id /\ by[agent[u]] = u
  BY <1>0 DEF AgentOK, Id, None
<1>8. found[u] # None => u = "video" /\ by[found[u]] = "video"
  BY <1>0 DEF FoundOK
<1>9. agent[u] \in list /\ pair[agent[u]] # None
        => u = "video" /\ by[pair[agent[u]]] = "video"
  BY <1>0, <1>5, <1>7 DEF PairOK
<1>10. CASE Save(t)
  <2>1. list' = list \cup {serial'} /\ serial' = serial + 1
    BY <1>10 DEF Save
  <2>2. agent[u] # serial' /\ serial' # None
    BY <1>0, <2>1 DEF AgentOK, None
  <2> QED BY <1>3, <1>5, <1>6, <2>1, <2>2
<1>11. CASE DropPair(t)
  <2>1. list' = list \ {pair[agent[t]]} /\ at[t] = "drop pair"
    BY <1>11 DEF DropPair, Remove
  <2>2. pair[agent[t]] # None /\ agent[t] # None
    BY <2>1 DEF PlaceOK, InList
  <2>3. agent[t] \in Id /\ by[agent[t]] = t
    BY <1>0, <2>2 DEF AgentOK, Id, None
  <2>4. t = "video" /\ by[pair[agent[t]]] = "video"
    BY <2>2, <2>3 DEF PairOK
  <2>5. u = "audio"
    BY <2>4
  <2>6. found[u] = None /\ ~(agent[u] \in list /\ pair[agent[u]] # None)
    BY <1>8, <1>9, <2>5
  <2>7. agent[u] # pair[agent[t]]
    BY <1>7, <2>2, <2>4, <2>5
  <2> QED BY <1>3, <1>5, <1>6, <2>1, <2>6, <2>7
<1>12. CASE Drop(t)
  <2>1. list' = list \ {agent[t]} /\ at[t] = "drop"
    BY <1>12 DEF Drop, Remove
  <2>2. agent[t] # None /\ by[agent[t]] = t
    BY <1>0, <2>1 DEF PlaceOK, InList, AgentOK
  <2>3. agent[u] # agent[t]
    BY <1>7, <2>2
  <2>4. found[u] # None => found[u] # agent[t]
    BY <1>8, <2>2
  <2>5. agent[u] \in list /\ pair[agent[u]] # None => pair[agent[u]] # agent[t]
    BY <1>9, <2>2
  <2> QED BY <1>3, <1>5, <1>6, <2>1, <2>3, <2>4, <2>5
<1>13. CASE DoEOS(t)
  <2>1. at[t] = "clear"
    BY <1>13 DEF DoEOS
  <2>2. at[u] \in {"test", "clear", "gone"}
    BY <2>1 DEF EndOK
  <2>3. found[u] = None
    BY <1>0, <2>2 DEF PlaceOK
  <2> QED BY <1>1, <2>2, <2>3 DEF LiveOK, InList, WithPair
<1>14. ASSUME \/ GetChunk(t) \/ GetNothing(t) \/ GetEnd(t) \/ LeaveLoop(t)
               \/ Notice(t) \/ Begin(t) \/ Sample(t) \/ Put(t) \/ UsePart(t)
               \/ Downloaded(t) \/ Complete(t) \/ SetAside(t) \/ Ignore(t)
               \/ Merge(t) \/ UsePair(t) \/ UseOwn(t) \/ Rest(t)
               \/ ReportEnd(t) \/ TestEnd(t)
       PROVE  LiveOK(u)'
  <2>1. list' = list
    BY <1>14 DEF GetChunk, GetNothing, GetEnd, LeaveLoop, Notice, Begin, Sample,
       Put, UsePart, Downloaded, Complete, SetAside, Ignore, Merge, UsePair,
       Use, UseOwn, Rest, ReportEnd, TestEnd, flags
  <2> QED BY <1>3, <1>5, <1>6, <2>1
<1> QED BY <1>10, <1>11, <1>12, <1>13, <1>14 DEF Work, InChunk

\* A stream that was opened with old end flags stays one.
LEMMA StaleStays == ASSUME [Next]_vars, stale PROVE stale'
<1> USE DEF history
<1>1. ASSUME NEW t \in Thread, Work(t) PROVE UNCHANGED stale
  BY <1>1 DEF Work, InChunk, GetChunk, GetNothing, GetEnd, LeaveLoop, Notice,
     Begin, Save, Sample, Put, UsePart, Downloaded, Complete, SetAside, Ignore,
     Merge, UsePair, Use, UseOwn, DropPair, Drop, Rest, ReportEnd, TestEnd,
     DoEOS
<1>2. ASSUME Seek \/ SetStop \/ CloseCache \/ (\E t \in Thread : Halt(t)) \/ Flush
             \/ Resume \/ Unblock \/ ChangeBitrateWhenError \/ ParserFails
             \/ UNCHANGED vars
      PROVE  UNCHANGED stale
  BY <1>2 DEF vars, Seek, SetStop, CloseCache, Halt, Flush, Resume, Unblock,
     ChangeBitrateWhenError, ParserFails
<1>3. CASE Reopen
  BY <1>3 DEF Reopen
<1> QED BY <1>1, <1>2, <1>3 DEF Next, Controller

\* So what is in use stays in the list, whoever goes on.
LEMMA LiveStep ==
    ASSUME IInv, [Next]_vars, ~stale'
    PROVE  \A u \in {"video", "audio"} : LiveOK(u)'
<1> USE DEF IInv
<1>1. ~stale
  BY StaleStays
<1>2. ASSUME NEW t \in Thread, Work(t), NEW u \in {"video", "audio"} PROVE LiveOK(u)'
  <2>1. u \in Thread
    BY DownloadBufferAssumption
  <2> QED BY <1>1, <1>2, <2>1, OwnLive, OtherLive
<1>3. ASSUME Seek \/ SetStop \/ CloseCache \/ (\E t \in Thread : Halt(t)) \/ Unblock
             \/ ChangeBitrateWhenError \/ ParserFails \/ UNCHANGED vars,
             NEW u \in {"video", "audio"}
      PROVE  LiveOK(u)'
  <2>1. UNCHANGED <<list, at, agent, found, pair>>
    BY <1>3 DEF vars, chunks, local, Seek, SetStop, CloseCache, Halt, Unblock,
       ChangeBitrateWhenError, ParserFails
  <2>2. LiveOK(u)
    BY <1>1
  <2> QED BY <2>1, <2>2 DEF LiveOK
<1>4. ASSUME Flush \/ Resume \/ Reopen, NEW u \in {"video", "audio"} PROVE LiveOK(u)'
  <2>1. u \in Thread /\ at \in [Thread -> Place]
    BY DownloadBufferAssumption DEF TypeOK, ThreadType
  <2>2. at[u] = "gone" /\ UNCHANGED found
    BY <1>4, <2>1 DEF Flush, Resume, Reopen, FlushOK, local
  <2>3. list' = {}
    BY <1>4 DEF Flush, ClearList, Resume, Reopen, FlushOK, chunks
  <2>4. at'[u] \notin InList
    BY <1>4, <2>1, <2>2 DEF Flush, Resume, Reopen, InList
  <2>5. found[u] = None
    BY <2>1, <2>2 DEF PlaceOK
  <2> QED BY <2>2, <2>3, <2>4, <2>5 DEF LiveOK
<1> QED BY <1>2, <1>3, <1>4 DEF Next, Controller

-----------------------------------------------------------------------------
\* The chunk that was set aside

\* It is as it was when the video thread is where it was and nothing of what it
\* waits for was undone.
LEMMA AsideKept ==
    ASSUME NEW p, AsideOK(p),
           at'["video"] = at["video"], kind'["video"] = kind["video"],
           found'["video"] = found["video"], result'["video"] = result["video"],
           smooth'["video"] = smooth["video"],
           Leaving => Leaving', Marked => Marked', Flagged => Flagged',
           Paired(p) => Paired(p)'
    PROVE  AsideOK(p)'
BY DEF AsideOK

\* The other threads
LEMMA OthersAside ==
    ASSUME IInv, AInv, NEW t \in Thread, t # "video", Work(t)
    PROVE  AInv'
<1> USE DEF chunks, flags, control, Goto
<1>0. /\ "video" \in Thread /\ TypeOK /\ PairOK /\ ResultOK(t) /\ PlaceOK(t)
      /\ \A v \in Thread : AgentOK(v)
  BY DownloadBufferAssumption DEF IInv
<1>1. /\ at'["video"] = at["video"] /\ agent'["video"] = agent["video"]
      /\ found'["video"] = found["video"] /\ kind'["video"] = kind["video"]
      /\ smooth'["video"] = smooth["video"] /\ result'["video"] = result["video"]
  BY <1>0, OthersStay
<1>2. Leaving' <=> Leaving
  <2>1. UNCHANGED <<silent, halt>>
    BY DEF Work, InChunk, GetChunk, GetNothing, GetEnd, LeaveLoop, Notice,
       Begin, Save, Sample, Put, UsePart, Downloaded, Complete, SetAside,
       Ignore, Merge, UsePair, Use, UseOwn, DropPair, Drop, Rest, ReportEnd,
       TestEnd, DoEOS
  <2> QED BY <2>1 DEF Leaving
<1>3. changing => changing'
  <2>1. ASSUME \/ GetChunk(t) \/ GetNothing(t) \/ GetEnd(t) \/ LeaveLoop(t)
               \/ Notice(t) \/ Begin(t) \/ Save(t) \/ Sample(t) \/ Put(t)
               \/ UsePart(t)
               \/ SetAside(t) \/ Ignore(t) \/ Merge(t) \/ UsePair(t)
               \/ UseOwn(t) \/ DropPair(t) \/ Drop(t) \/ Rest(t)
               \/ ReportEnd(t) \/ TestEnd(t) \/ DoEOS(t)
        PROVE  changing' = changing
    BY <2>1 DEF GetChunk, GetNothing, GetEnd, LeaveLoop, Notice, Begin, Save,
       Sample, Put, UsePart, SetAside, Ignore, Merge, UsePair, Use, UseOwn,
       DropPair, Drop, Rest, ReportEnd, TestEnd, DoEOS
  <2>2. CASE Downloaded(t)
    BY <2>2 DEF Downloaded
  <2>3. CASE Complete(t)
    BY <2>3 DEF Complete
  <2> QED BY <2>1, <2>2, <2>3 DEF Work, InChunk
<1>4. (Marked => Marked') /\ (Flagged => Flagged')
  BY <1>1, <1>2, <1>3 DEF Marked, Flagged
<1>5. aligned' \subseteq aligned
  <2>1. ASSUME \/ GetChunk(t) \/ GetNothing(t) \/ GetEnd(t) \/ LeaveLoop(t)
               \/ Notice(t) \/ Begin(t) \/ Save(t) \/ Sample(t) \/ Put(t)
               \/ UsePart(t)
               \/ Downloaded(t) \/ Complete(t) \/ Ignore(t) \/ Merge(t)
               \/ UsePair(t) \/ UseOwn(t) \/ Rest(t) \/ ReportEnd(t)
               \/ TestEnd(t)
        PROVE  aligned' = aligned
    BY <2>1 DEF GetChunk, GetNothing, GetEnd, LeaveLoop, Notice, Begin, Save,
       Sample, Put, UsePart, Downloaded, Complete, Ignore, Merge, UsePair, Use,
       UseOwn, Rest, ReportEnd, TestEnd
  <2>2. ~SetAside(t)
    BY <1>0 DEF SetAside, ResultOK
  <2>3. ASSUME DropPair(t) \/ Drop(t) \/ DoEOS(t) PROVE aligned' \subseteq aligned
    BY <2>3 DEF DropPair, Drop, Remove, DoEOS, ClearList
  <2> QED BY <2>1, <2>2, <2>3 DEF Work, InChunk
<1>6. ASSUME NEW p \in aligned', Paired(p) PROVE Paired(p)'
  <2> DEFINE own == agent["video"]
  <2>1. own \in list /\ pair[own] = p
    BY <1>6 DEF Paired
  <2>2. own # None
    BY <1>0, <2>1, NoneNotListed DEF TypeOK
  <2>3. own \in Id /\ by[own] = "video"
    BY <1>0, <2>2 DEF AgentOK, TypeOK, ListType, Id, None
  <2>4. pair'[own] = p
    BY <1>0, <2>1, <2>2, PairStays
  <2>5. own \in list'
    <3>1. CASE Save(t)
      BY <2>1, <3>1 DEF Save
    <3>2. CASE DropPair(t)
      <4>1. agent[t] # None /\ pair[agent[t]] # None
        BY <1>0, <3>2 DEF DropPair, PlaceOK, InList
      <4>2. agent[t] \in Id /\ by[agent[t]] = t
        BY <1>0, <4>1 DEF AgentOK, TypeOK, ListType, Id, None
      <4> QED BY <1>0, <4>1, <4>2 DEF PairOK
    <3>3. CASE Drop(t)
      <4>1. list' = list \ {agent[t]} /\ agent[t] # None
        BY <1>0, <3>3 DEF Drop, Remove, PlaceOK, InList
      <4>2. by[agent[t]] = t
        BY <1>0, <4>1 DEF AgentOK
      <4> QED BY <2>1, <2>3, <4>1, <4>2
    <3>4. CASE DoEOS(t)
      BY <1>6, <3>4 DEF DoEOS, ClearList
    <3>5. ASSUME \/ GetChunk(t) \/ GetNothing(t) \/ GetEnd(t) \/ LeaveLoop(t)
                 \/ Notice(t) \/ Begin(t) \/ Sample(t) \/ Put(t) \/ UsePart(t)
                 \/ Downloaded(t) \/ Complete(t) \/ SetAside(t) \/ Ignore(t)
                 \/ Merge(t) \/ UsePair(t) \/ UseOwn(t) \/ Rest(t)
                 \/ ReportEnd(t) \/ TestEnd(t)
          PROVE  list' = list
      BY <3>5 DEF GetChunk, GetNothing, GetEnd, LeaveLoop, Notice, Begin,
         Sample, Put, UsePart, Downloaded, Complete, SetAside, Ignore, Merge,
         UsePair, Use, UseOwn, Rest, ReportEnd, TestEnd
    <3> QED BY <2>1, <3>1, <3>2, <3>3, <3>4, <3>5 DEF Work, InChunk
  <2> QED BY <1>1, <2>4, <2>5 DEF Paired
<1>7. ASSUME NEW p \in aligned' PROVE AsideOK(p)'
  <2>1. AsideOK(p)
    BY <1>5 DEF AInv
  <2> QED BY <1>1, <1>2, <1>4, <1>6, <2>1, AsideKept
<1>8. \A p, q \in aligned' : p = q
  BY <1>5 DEF AInv
<1>9. single' = single
  BY DEF Work, InChunk, GetChunk, GetNothing, GetEnd, LeaveLoop, Notice, Begin,
     Save, Sample, Put, UsePart, Downloaded, Complete, SetAside, Ignore, Merge,
     UsePair, Use, UseOwn, DropPair, Drop, Rest, ReportEnd, TestEnd, DoEOS
<1>10. at'["video"] = "end" /\ result'["video"] = "true" => Marked' /\ ~single'
  BY <1>1, <1>4, <1>9 DEF AInv
<1>11. single' => aligned' = {}
  BY <1>5, <1>9 DEF AInv
<1> QED BY <1>7, <1>8, <1>10, <1>11 DEF AInv

\* The video thread itself
LEMMA VideoAside ==
    ASSUME IInv, AInv, Work("video"), NEW p \in aligned, p \in aligned'
    PROVE  AsideOK(p)'
<1> DEFINE t == "video"
<1> USE DEF chunks, flags, control, local, Goto
<1>0. /\ at \in [Thread -> Place] /\ agent \in [Thread -> 0 .. MaxChunk]
      /\ found \in [Thread -> 0 .. MaxChunk] /\ kind \in [Thread -> {"chunk", "notice", "last"}]
      /\ result \in [Thread -> {"ok", "slow", "failed", "true", "false", "ignore"}]
      /\ smooth \in [Thread -> BOOLEAN] /\ pair \in [Id -> 0 .. MaxChunk]
      /\ t \in Thread /\ p \in list /\ p # None
  BY DownloadBufferAssumption, NoneNotListed
     DEF IInv, TypeOK, ListType, ChunkType, ThreadType
<1>00. AsideOK(p)
  BY DEF AInv
<1>1. CASE GetChunk(t)
  <2>1. at[t] \in {"idle"} /\ at'[t] \in {"begin"}
    BY <1>0, <1>1 DEF GetChunk
  <2>2. (Leaving' <=> Leaving) /\ (Marked' <=> Marked)
    BY <1>0, <1>1 DEF GetChunk, Leaving, Marked
  <2>3. Paired(p)' <=> Paired(p)
    BY <1>0, <1>1 DEF GetChunk, Paired
  <2>5. (changing => smooth'[t]) /\ kind'[t] = "chunk"
    BY <1>0, <1>1 DEF GetChunk
  <2> QED BY <1>0, <1>00, <2>1, <2>2, <2>3, <2>5 DEF AsideOK, Flagged, Marked
<1>2. CASE GetNothing(t)
  <2>1. at[t] \in {"idle"} /\ at'[t] \in {"notice"}
    BY <1>0, <1>2 DEF GetNothing
  <2>2. (Leaving' <=> Leaving) /\ (Marked' <=> Marked) /\ (Flagged' <=> Flagged)
    BY <1>0, <1>2 DEF GetNothing, Leaving, Marked, Flagged
  <2>4. UNCHANGED result
    BY <1>0, <1>2 DEF GetNothing
  <2> QED BY <1>0, <1>00, <2>1, <2>2, <2>4 DEF AsideOK
<1>3. CASE GetEnd(t)
  <2>1. at[t] \in {"idle"} /\ at'[t] \in {"notice", "eos"}
    BY <1>0, <1>3 DEF GetEnd
  <2>2. (Leaving' <=> Leaving) /\ (Marked' <=> Marked) /\ (Flagged' <=> Flagged)
    BY <1>0, <1>3 DEF GetEnd, Leaving, Marked, Flagged
  <2>3. Paired(p)' <=> Paired(p)
    BY <1>0, <1>3 DEF GetEnd, Paired
  <2>4. UNCHANGED result
    BY <1>0, <1>3 DEF GetEnd
  <2> QED BY <1>0, <1>00, <2>1, <2>2, <2>3, <2>4 DEF AsideOK
<1>4. CASE LeaveLoop(t)
  <2>1. at[t] \in {"idle"} /\ at'[t] \in {"gone"}
    BY <1>0, <1>4 DEF LeaveLoop
  <2>2. (Leaving' <=> Leaving) /\ (Marked' <=> Marked) /\ (Flagged' <=> Flagged)
    BY <1>0, <1>4 DEF LeaveLoop, Leaving, Marked, Flagged
  <2>3. Paired(p)' <=> Paired(p)
    BY <1>0, <1>4 DEF LeaveLoop, Paired
  <2>4. UNCHANGED <<kind, result>>
    BY <1>0, <1>4 DEF LeaveLoop
  <2> QED BY <1>0, <1>00, <2>1, <2>2, <2>3, <2>4 DEF AsideOK
<1>5. CASE Notice(t)
  <2>1. at[t] \in {"notice"} /\ at'[t] \in {"eos", "idle", "begin"}
    BY <1>0, <1>5 DEF Notice
  <2>2. (Leaving' <=> Leaving) /\ (Marked' <=> Marked)
    BY <1>0, <1>5 DEF Notice, Leaving, Marked
  <2>3. Paired(p)' <=> Paired(p)
    BY <1>0, <1>5 DEF Notice, Paired
  <2>4. UNCHANGED result
    BY <1>0, <1>5 DEF Notice
  <2>5. at'[t] = "begin" => smooth'[t]
    BY <1>0, <1>5 DEF Notice
  <2> QED BY <1>0, <1>00, <2>1, <2>2, <2>3, <2>4, <2>5 DEF AsideOK, Flagged, Marked
<1>6. CASE Begin(t)
  <2>1. at[t] = "begin" /\ at'[t] \in {"full", "save"}
    BY <1>0, <1>6 DEF Begin
  <2>2. at'[t] = "full" => Leaving
    BY <1>0, <1>6 DEF Begin, Leaving
  <2>3. at'[t] = "save" => kind[t] # "chunk" \/ ~Leaving
    BY <1>0, <1>6 DEF Begin, Leaving
  <2>4. smooth[t] \/ at'[t] = "full"
    BY <1>00, <2>1, <2>2, <2>3 DEF AsideOK, Flagged
  <2>5. \A q \in aligned \cap list : q = p
    BY DEF AInv
  <2>6. smooth[t] => FindBAChunk(t) = {p}
    <3>1. aligned \cap list = {p}
      BY <1>0, <2>5
    <3>2. p <= p
      BY <1>0 DEF IInv, TypeOK, ListType
    <3> QED BY <3>1, <3>2 DEF FindBAChunk
  <2>7. at'[t] = "save" => found'[t] = p
    <3>1. CASE at'[t] = "save"
      <4>1. found'[t] \in FindBAChunk(t)
        BY <1>0, <1>6, <3>1 DEF Begin
      <4> QED BY <2>4, <2>6, <3>1, <4>1
    <3> QED BY <3>1
  <2>8. (Leaving' <=> Leaving) /\ (Marked' <=> Marked) /\ (Flagged' <=> Flagged)
    BY <1>0, <1>6 DEF Begin, Leaving, Marked, Flagged
  <2> QED BY <1>00, <2>1, <2>2, <2>7, <2>8 DEF AsideOK
<1>7. CASE Save(t)
  <2>1. at[t] = "save" /\ at'[t] = "load"
    BY <1>0, <1>7 DEF Save
  <2>2. Marked /\ Flagged /\ found[t] = p
    BY <1>00, <2>1 DEF AsideOK
  <2>3. (Marked' <=> Marked) /\ (Flagged' <=> Flagged)
    BY <1>0, <1>7 DEF Save, Leaving, Marked, Flagged
  <2>4. serial' \in list' /\ agent'[t] = serial' /\ pair' = [pair EXCEPT ![serial'] = found[t]]
    BY <1>0, <1>7 DEF Save
  <2>5. serial' \in Id
    BY <1>0, <1>7, DownloadBufferAssumption DEF Save, Id, IInv, TypeOK, ListType
  <2>6. Paired(p)'
    BY <1>0, <2>2, <2>4, <2>5 DEF Paired
  <2> QED BY <2>1, <2>2, <2>3, <2>6 DEF AsideOK
<1>8. CASE Sample(t)
  <2>1. at[t] \in {"load"} /\ at'[t] \in {"put", "full", "rest"}
    BY <1>0, <1>8 DEF Sample
  <2>2. (Leaving' <=> Leaving) /\ (Marked' <=> Marked) /\ (Flagged' <=> Flagged)
    BY <1>0, <1>8 DEF Sample, Leaving, Marked, Flagged
  <2>3. Paired(p)' <=> Paired(p)
    BY <1>0, <1>8 DEF Sample, Paired
  <2>4. UNCHANGED <<kind, result>>
    BY <1>0, <1>8 DEF Sample
  <2>5. agent[t] \in list => at'[t] \in {"put", "full"}
    BY <1>0, <1>8 DEF Sample
  <2> QED BY <1>0, <1>00, <2>1, <2>2, <2>3, <2>4, <2>5 DEF AsideOK, Paired
<1>9. CASE Put(t)
  <2>1. at[t] \in {"put"} /\ at'[t] \in {"full", "outgrown", "end"}
    BY <1>0, <1>9 DEF Put
  <2>2. (Leaving' <=> Leaving) /\ (Marked' <=> Marked) /\ (Flagged' <=> Flagged)
    BY <1>0, <1>9 DEF Put, Leaving, Marked, Flagged
  <2>3. Paired(p)' <=> Paired(p)
    BY <1>0, <1>9 DEF Put, Paired
  <2>4. UNCHANGED kind
    BY <1>0, <1>9 DEF Put
  <2>5. at'[t] = "end" => result'[t] = "false"
    BY <1>0, <1>9 DEF Put
  <2> QED BY <1>0, <1>00, <2>1, <2>2, <2>3, <2>4, <2>5 DEF AsideOK
<1>23. CASE UsePart(t)
  <2>1. at[t] \in {"outgrown"} /\ at'[t] \in {"load"}
    BY <1>0, <1>23 DEF UsePart
  <2>2. (Leaving' <=> Leaving) /\ (Marked' <=> Marked) /\ (Flagged' <=> Flagged)
    BY <1>0, <1>23 DEF UsePart, Leaving, Marked, Flagged
  <2>3. Paired(p)' <=> Paired(p)
    BY <1>0, <1>23 DEF UsePart, Paired
  <2>4. UNCHANGED <<kind, result>>
    BY <1>0, <1>23 DEF UsePart
  <2> QED BY <1>0, <1>00, <2>1, <2>2, <2>3, <2>4 DEF AsideOK
<1>10. CASE Downloaded(t)
  <2>1. at[t] \in {"load", "full"} /\ at'[t] \in {"complete"}
    BY <1>0, <1>10 DEF Downloaded
  <2>2. (Leaving' <=> Leaving) /\ (Flagged' <=> Flagged)
    BY <1>0, <1>10 DEF Downloaded, Leaving, Flagged
  <2>3. Paired(p)' <=> Paired(p)
    BY <1>0, <1>10 DEF Downloaded, Paired
  <2>4. UNCHANGED kind
    BY <1>0, <1>10 DEF Downloaded
  <2>5. changing /\ result'[t] # "ok" => changing'
    BY <1>0, <1>10 DEF Downloaded
  <2> QED BY <1>0, <1>00, <2>1, <2>2, <2>3, <2>4, <2>5 DEF AsideOK, Marked
<1>11. CASE Complete(t)
  <2>1. at[t] = "complete" /\ at'[t] \in {"idle", "end"}
    BY <1>0, <1>11 DEF Complete
  <2>2. at'[t] = "idle" <=> Leaving
    BY <1>0, <1>11 DEF Complete, Leaving
  <2>3. (Leaving' <=> Leaving) /\ (changing => changing')
    BY <1>0, <1>11 DEF Complete, Leaving
  <2>4. ~Leaving => Paired(p) /\ Flagged /\ (result[t] = "ok" \/ Marked)
    BY <1>00, <2>1 DEF AsideOK
  <2>5. ~Leaving => smooth'[t] = smooth[t] /\ agent'[t] = agent[t]
    BY <1>0, <1>11 DEF Complete, Leaving
  <2>6. ~Leaving => (Paired(p)' <=> Paired(p)) /\ (Flagged' <=> Flagged)
    <3>1. UNCHANGED <<list, pair>>
      BY <1>0, <1>11 DEF Complete
    <3> QED BY <2>3, <2>5, <3>1 DEF Paired, Flagged
  <2>7. ~Leaving /\ result'[t] # "false" => result[t] # "ok" \/ Marked'
    <3>1. ASSUME ~Leaving, result'[t] # "false", result[t] = "ok" PROVE changing'
      <4>1. t \notin halt /\ ~silent
        BY <3>1 DEF Leaving
      <4>2. PICK change \in BOOLEAN :
               /\ changing' = (changing \/ change)
               /\ result' = [result EXCEPT ![t] =
                    CASE @ = "failed" -> "ignore"
                      [] change /\ t # "audio" -> "true"
                      [] OTHER -> "false"]
        BY <1>0, <1>11, <4>1 DEF Complete
      <4>3. CASE change = TRUE
        BY <4>2, <4>3
      <4>4. CASE change = FALSE
        BY <1>0, <3>1, <4>2, <4>4
      <4> QED BY <4>3, <4>4
    <3> QED BY <3>1 DEF Marked
  <2>8. Marked => Marked'
    BY <2>3 DEF Marked
  <2>9. Leaving => Marked'
    BY <2>3 DEF Marked
  <2> QED BY <2>1, <2>2, <2>3, <2>4, <2>6, <2>7, <2>8, <2>9 DEF AsideOK
<1>12. CASE SetAside(t)
  <2>1. at[t] \in {"end"} /\ at'[t] \in {"rest", "drop"}
    BY <1>0, <1>12 DEF SetAside
  <2>2. (Leaving' <=> Leaving) /\ (Marked' <=> Marked) /\ (Flagged' <=> Flagged)
    BY <1>0, <1>12 DEF SetAside, Leaving, Marked, Flagged
  <2>3. Paired(p)' <=> Paired(p)
    BY <1>0, <1>12 DEF SetAside, Paired
  <2>4. UNCHANGED <<kind, result>>
    BY <1>0, <1>12 DEF SetAside
  <2>5. agent[t] \in list /\ pair[agent[t]] # None => at'[t] = "drop"
    BY <1>0, <1>12 DEF SetAside
  <2>6. result[t] = "true"
    BY <1>0, <1>12 DEF SetAside
  <2> QED BY <1>0, <1>00, <2>1, <2>2, <2>3, <2>4, <2>5, <2>6 DEF AsideOK, Paired
<1>13. CASE Ignore(t)
  <2>1. at[t] \in {"end"} /\ at'[t] \in {"drop", "rest"}
    BY <1>0, <1>13 DEF Ignore
  <2>2. (Leaving' <=> Leaving) /\ (Marked' <=> Marked) /\ (Flagged' <=> Flagged)
    BY <1>0, <1>13 DEF Ignore, Leaving, Marked, Flagged
  <2>3. Paired(p)' <=> Paired(p)
    BY <1>0, <1>13 DEF Ignore, Paired
  <2>4. UNCHANGED <<kind, result>>
    BY <1>0, <1>13 DEF Ignore
  <2>5. agent[t] \in list => at'[t] = "drop"
    BY <1>0, <1>13 DEF Ignore
  <2>6. result[t] = "ignore"
    BY <1>0, <1>13 DEF Ignore
  <2> QED BY <1>0, <1>00, <2>1, <2>2, <2>3, <2>4, <2>5, <2>6 DEF AsideOK, Paired
<1>14. CASE Merge(t)
  <2>1. at[t] \in {"end"} /\ at'[t] \in {"rest", "use", "use pair"}
    BY <1>0, <1>14 DEF Merge
  <2>2. (Leaving' <=> Leaving) /\ (Marked' <=> Marked) /\ (Flagged' <=> Flagged)
    BY <1>0, <1>14 DEF Merge, Leaving, Marked, Flagged
  <2>3. Paired(p)' <=> Paired(p)
    BY <1>0, <1>14 DEF Merge, Paired
  <2>4. UNCHANGED <<kind, result>>
    BY <1>0, <1>14 DEF Merge
  <2>5. agent[t] \in list => at'[t] # "rest"
    BY <1>0, <1>14 DEF Merge
  <2> QED BY <1>0, <1>00, <2>1, <2>2, <2>3, <2>4, <2>5 DEF AsideOK, Paired
<1>15. CASE UsePair(t)
  <2>1. at[t] \in {"use pair"} /\ at'[t] \in {"use"}
    BY <1>0, <1>15 DEF UsePair, Use
  <2>2. (Leaving' <=> Leaving) /\ (Marked' <=> Marked) /\ (Flagged' <=> Flagged)
    BY <1>0, <1>15 DEF UsePair, Use, Leaving, Marked, Flagged
  <2>3. Paired(p)' <=> Paired(p)
    BY <1>0, <1>15 DEF UsePair, Use, Paired
  <2>4. UNCHANGED <<kind, result>>
    BY <1>0, <1>15 DEF UsePair, Use
  <2> QED BY <1>0, <1>00, <2>1, <2>2, <2>3, <2>4 DEF AsideOK
<1>16. CASE UseOwn(t)
  <2>1. at[t] \in {"use"} /\ at'[t] \in {"drop", "drop pair"}
    BY <1>0, <1>16 DEF UseOwn, Use
  <2>2. (Leaving' <=> Leaving) /\ (Marked' <=> Marked) /\ (Flagged' <=> Flagged)
    BY <1>0, <1>16 DEF UseOwn, Use, Leaving, Marked, Flagged
  <2>3. Paired(p)' <=> Paired(p)
    BY <1>0, <1>16 DEF UseOwn, Use, Paired
  <2>4. UNCHANGED <<kind, result>>
    BY <1>0, <1>16 DEF UseOwn, Use
  <2>5. pair[agent[t]] # None => at'[t] = "drop pair"
    BY <1>0, <1>16 DEF UseOwn, Use
  <2> QED BY <1>0, <1>00, <2>1, <2>2, <2>3, <2>4, <2>5 DEF AsideOK, Paired
<1>17. CASE Drop(t)
  <2>1. at[t] \in {"drop"} /\ at'[t] \in {"rest"}
    BY <1>0, <1>17 DEF Drop, Remove
  <2>2. (Leaving' <=> Leaving) /\ (Marked' <=> Marked) /\ (Flagged' <=> Flagged)
    BY <1>0, <1>17 DEF Drop, Remove, Leaving, Marked, Flagged
  <2>4. UNCHANGED <<kind, result>>
    BY <1>0, <1>17 DEF Drop, Remove
  <2> QED BY <1>0, <1>00, <2>1, <2>2, <2>4 DEF AsideOK
<1>18. CASE Rest(t)
  <2>1. at[t] \in {"rest"} /\ at'[t] \in {"begin", "eos", "idle"}
    BY <1>0, <1>18 DEF Rest
  <2>2. (Leaving' <=> Leaving) /\ (Marked' <=> Marked)
    BY <1>0, <1>18 DEF Rest, Leaving, Marked
  <2>5. at'[t] = "begin" => kind[t] = "chunk" /\ result[t] = "ignore"
    BY <1>0, <1>18 DEF Rest
  <2>6. at'[t] = "begin" => kind'[t] = "chunk" /\ smooth'[t] = smooth[t]
    BY <1>0, <1>18 DEF Rest
  <2> QED BY <1>0, <1>00, <2>1, <2>2, <2>5, <2>6 DEF AsideOK, Flagged, Marked
<1>19. CASE ReportEnd(t)
  <2>1. at[t] \in {"eos"} /\ at'[t] \in {"gone", "test"}
    BY <1>0, <1>19 DEF ReportEnd
  <2>2. (Leaving' <=> Leaving) /\ (Marked' <=> Marked) /\ (Flagged' <=> Flagged)
    BY <1>0, <1>19 DEF ReportEnd, Leaving, Marked, Flagged
  <2>3. Paired(p)' <=> Paired(p)
    BY <1>0, <1>19 DEF ReportEnd, Paired
  <2>4. UNCHANGED <<kind, result>>
    BY <1>0, <1>19 DEF ReportEnd
  <2> QED BY <1>0, <1>00, <2>1, <2>2, <2>3, <2>4 DEF AsideOK
<1>20. CASE TestEnd(t)
  <2>1. at[t] \in {"test"} /\ at'[t] \in {"clear", "gone"}
    BY <1>0, <1>20 DEF TestEnd
  <2>2. (Leaving' <=> Leaving) /\ (Marked' <=> Marked) /\ (Flagged' <=> Flagged)
    BY <1>0, <1>20 DEF TestEnd, Leaving, Marked, Flagged
  <2>3. Paired(p)' <=> Paired(p)
    BY <1>0, <1>20 DEF TestEnd, Paired
  <2>4. UNCHANGED <<kind, result>>
    BY <1>0, <1>20 DEF TestEnd
  <2> QED BY <1>0, <1>00, <2>1, <2>2, <2>3, <2>4 DEF AsideOK
<1>21. ~DropPair(t)
  <2>1. ASSUME DropPair(t) PROVE p \notin aligned'
    <3>1. at[t] = "drop pair" /\ aligned' = aligned \ {pair[agent[t]]}
      BY <2>1 DEF DropPair, Remove
    <3> QED BY <1>00, <3>1 DEF AsideOK, Paired
  <2> QED BY <2>1
<1>22. ~DoEOS(t)
  BY DEF DoEOS, ClearList
<1> QED BY <1>1, <1>2, <1>3, <1>4, <1>5, <1>6, <1>7, <1>8, <1>9, <1>10, <1>11,
       <1>12, <1>13, <1>14, <1>15, <1>16, <1>17, <1>18, <1>19, <1>20, <1>21,
       <1>22, <1>23 DEF Work, InChunk

\* The chunk that was set aside, whoever goes on
LEMMA AsideStep ==
    ASSUME IInv, AInv, [Next]_vars
    PROVE  AInv'
<1> USE DEF Goto
<1>0. "video" \in Thread /\ TypeOK
  BY DownloadBufferAssumption DEF IInv
<1>1. CASE Work("video")
  <2> DEFINE t == "video"
  <2>1. CASE SetAside(t)
    <3>1. at[t] = "end" /\ result[t] = "true" /\ at'[t] \in {"rest", "drop"}
      BY <1>0, <2>1 DEF SetAside, TypeOK, ThreadType
    <3>2. UNCHANGED <<kind, result, changing, silent, halt, single>>
      BY <2>1 DEF SetAside, local, flags, control
    <3>3. Marked' /\ ~single'
      BY <3>1, <3>2 DEF AInv, Marked, Leaving
    <3>4. CASE aligned' = aligned
      <4>1. \A p \in aligned : AsideOK(p)'
        BY <1>1, <3>4, VideoAside
      <4> QED BY <3>1, <3>3, <3>4, <4>1 DEF AInv
    <3>5. CASE aligned' # aligned
      <4>1. /\ aligned' = aligned \cup {agent[t]} /\ agent[t] \in list
            /\ pair[agent[t]] = None /\ at' = [at EXCEPT ![t] = "rest"]
        BY <2>1, <3>5 DEF SetAside
      <4>2. aligned = {}
        <5>1. ASSUME NEW p \in aligned PROVE FALSE
          <6>1. Paired(p)
            BY <3>1 DEF AInv, AsideOK
          <6>2. p = None
            BY <4>1, <6>1 DEF Paired
          <6> QED BY <1>0, <6>2, NoneNotListed DEF TypeOK, ListType
        <5> QED BY <5>1
      <4>3. aligned' = {agent[t]}
        BY <4>1, <4>2
      <4>4. at'[t] = "rest" /\ result'[t] = "true"
        BY <1>0, <3>1, <3>2, <4>1 DEF TypeOK, ThreadType
      <4>5. AsideOK(agent[t])'
        BY <3>3, <4>4 DEF AsideOK
      <4>6. \A p \in aligned' : AsideOK(p)'
        BY <3>3, <4>3, <4>4 DEF AsideOK
      <4> QED BY <3>3, <4>3, <4>6 DEF AInv
    <3> QED BY <3>4, <3>5
  <2>2. ASSUME ~SetAside(t) PROVE AInv'
    <3>1. aligned' \subseteq aligned
      <4>1. ASSUME DropPair(t) \/ Drop(t) \/ DoEOS(t) PROVE aligned' \subseteq aligned
        BY <4>1 DEF DropPair, Drop, Remove, DoEOS, ClearList
      <4>2. ASSUME \/ GetChunk(t) \/ GetNothing(t) \/ GetEnd(t)
                   \/ LeaveLoop(t) \/ Notice(t) \/ Begin(t) \/ Save(t)
                   \/ Sample(t) \/ Put(t) \/ UsePart(t) \/ Downloaded(t)
                   \/ Complete(t)
                   \/ Ignore(t) \/ Merge(t) \/ UsePair(t) \/ UseOwn(t)
                   \/ Rest(t) \/ ReportEnd(t) \/ TestEnd(t)
            PROVE  aligned' = aligned
        BY <4>2 DEF chunks, GetChunk, GetNothing, GetEnd, LeaveLoop, Notice,
           Begin, Save, Sample, Put, UsePart, Downloaded, Complete, Ignore, Merge,
           UsePair, Use, UseOwn, Rest, ReportEnd, TestEnd
      <4> QED BY <1>1, <2>2, <4>1, <4>2 DEF Work, InChunk
    <3>2. \A p \in aligned' : AsideOK(p)'
      BY <1>1, <3>1, VideoAside
    <3>4. single' = single
      BY <1>1 DEF Work, InChunk, GetChunk, GetNothing, GetEnd, LeaveLoop, Notice,
         Begin, Save, Sample, Put, UsePart, Downloaded, Complete, SetAside,
         Ignore, Merge, UsePair, Use, UseOwn, DropPair, Drop, Rest, ReportEnd,
         TestEnd, DoEOS, control
    <3>3. ASSUME at'[t] = "end", result'[t] = "true" PROVE Marked' /\ ~single'
      <4>1. at \in [Thread -> Place] /\ result \in [Thread -> {"ok", "slow", "failed", "true", "false", "ignore"}]
        BY <1>0 DEF TypeOK, ThreadType
      <4>2. CASE Put(t)
        BY <1>0, <3>3, <4>1, <4>2 DEF Put
      <4>3. CASE Complete(t)
        <5>1. PICK change \in BOOLEAN :
                 /\ change => ~single
                 /\ changing' = (changing \/ change)
                 /\ result' = [result EXCEPT ![t] =
                      CASE @ = "failed" -> "ignore"
                        [] change /\ t # "audio" -> "true"
                        [] OTHER -> "false"]
          BY <1>0, <3>3, <4>1, <4>3 DEF Complete
        <5>2. CASE change = TRUE
          BY <3>4, <5>1, <5>2 DEF Marked
        <5>3. CASE change = FALSE
          BY <1>0, <3>3, <4>1, <5>1, <5>3
        <5> QED BY <5>2, <5>3
      <4>4. ASSUME \/ GetChunk(t) \/ GetNothing(t) \/ GetEnd(t)
                   \/ LeaveLoop(t) \/ Notice(t) \/ Begin(t) \/ Save(t)
                   \/ Sample(t) \/ UsePart(t) \/ Downloaded(t) \/ Ignore(t)
                   \/ Merge(t) \/ UsePair(t) \/ UseOwn(t) \/ DropPair(t)
                   \/ Drop(t) \/ Rest(t) \/ ReportEnd(t) \/ TestEnd(t)
                   \/ DoEOS(t)
            PROVE  at'[t] # "end"
        <5>1. CASE GetChunk(t)
          BY <1>0, <4>1, <5>1 DEF GetChunk
        <5>2. CASE GetNothing(t)
          BY <1>0, <4>1, <5>2 DEF GetNothing
        <5>3. CASE GetEnd(t)
          BY <1>0, <4>1, <5>3 DEF GetEnd
        <5>4. CASE LeaveLoop(t)
          BY <1>0, <4>1, <5>4 DEF LeaveLoop
        <5>5. CASE Notice(t)
          BY <1>0, <4>1, <5>5 DEF Notice
        <5>6. CASE Begin(t)
          BY <1>0, <4>1, <5>6 DEF Begin
        <5>7. CASE Save(t)
          BY <1>0, <4>1, <5>7 DEF Save
        <5>8. CASE Sample(t)
          BY <1>0, <4>1, <5>8 DEF Sample
        <5>9. CASE UsePart(t) \/ Downloaded(t)
          BY <1>0, <4>1, <5>9 DEF UsePart, Downloaded
        <5>10. CASE Ignore(t)
          BY <1>0, <4>1, <5>10 DEF Ignore
        <5>11. CASE Merge(t)
          BY <1>0, <4>1, <5>11 DEF Merge
        <5>12. CASE UsePair(t)
          BY <1>0, <4>1, <5>12 DEF UsePair, Use
        <5>13. CASE UseOwn(t)
          BY <1>0, <4>1, <5>13 DEF UseOwn, Use
        <5>14. CASE DropPair(t)
          BY <1>0, <4>1, <5>14 DEF DropPair
        <5>15. CASE Drop(t)
          BY <1>0, <4>1, <5>15 DEF Drop
        <5>16. CASE Rest(t)
          BY <1>0, <4>1, <5>16 DEF Rest
        <5>17. CASE ReportEnd(t)
          BY <1>0, <4>1, <5>17 DEF ReportEnd
        <5>18. CASE TestEnd(t)
          BY <1>0, <4>1, <5>18 DEF TestEnd
        <5>19. CASE DoEOS(t)
          BY <1>0, <4>1, <5>19 DEF DoEOS
        <5> QED BY <4>4, <5>1, <5>2, <5>3, <5>4, <5>5, <5>6, <5>7, <5>8, <5>9,
               <5>10, <5>11, <5>12, <5>13, <5>14, <5>15, <5>16, <5>17, <5>18,
               <5>19
      <4> QED BY <1>1, <2>2, <3>3, <4>2, <4>3, <4>4 DEF Work, InChunk
    <3> QED BY <3>1, <3>2, <3>3, <3>4 DEF AInv
  <2> QED BY <2>1, <2>2
<1>2. ASSUME NEW t \in Thread, Work(t), t # "video" PROVE AInv'
  BY <1>2, OthersAside
<1>3. ASSUME Seek \/ SetStop \/ CloseCache \/ (\E t \in Thread : Halt(t)) \/ Unblock
             \/ ChangeBitrateWhenError \/ ParserFails \/ UNCHANGED vars
      PROVE  AInv'
  <2>1. /\ UNCHANGED <<aligned, at, kind, found, result, smooth, single>>
        /\ changing => changing'
    BY <1>3 DEF vars, chunks, local, flags, control, Seek, SetStop, CloseCache, Halt,
       Unblock, ChangeBitrateWhenError, ParserFails
  <2>2. UNCHANGED <<list, pair, agent>>
    BY <1>3 DEF vars, chunks, local, Seek, SetStop, CloseCache, Halt, Unblock,
       ChangeBitrateWhenError, ParserFails
  <2>3. Leaving => Leaving'
    BY <1>3 DEF vars, control, Seek, SetStop, CloseCache, Halt, Unblock,
       ChangeBitrateWhenError, ParserFails, Leaving
  <2>4. (Marked => Marked') /\ (Flagged => Flagged')
    BY <2>1, <2>3 DEF Marked, Flagged
  <2>5. \A p \in aligned : Paired(p) => Paired(p)'
    BY <2>2 DEF Paired
  <2>6. \A p \in aligned : AsideOK(p)'
    BY <2>1, <2>3, <2>4, <2>5, AsideKept DEF AInv
  <2> QED BY <2>1, <2>4, <2>6 DEF AInv
<1>4. ASSUME Flush \/ Resume \/ Reopen PROVE AInv'
  <2>1. aligned \subseteq list
    BY <1>0 DEF TypeOK, ListType
  <2>2. aligned' = {}
    BY <1>4, <2>1 DEF Flush, ClearList, Resume, Reopen, chunks, IInv, FlushOK
  <2>3. at[ "video"] = "gone"
    BY <1>0, <1>4 DEF Flush, Resume, Reopen, IInv, FlushOK
  <2>4. at'["video"] # "end"
    BY <1>0, <1>4, <2>3 DEF Flush, Resume, Reopen
  <2> QED BY <2>2, <2>4 DEF AInv
<1> QED BY <1>1, <1>2, <1>3, <1>4 DEF Next, Controller

-----------------------------------------------------------------------------
\* The end of the stream

\* Samples are merged into chunks of the thread that has them only.
LEMMA HoldsStep ==
    ASSUME IInv, HoldsOK, [Next]_vars
    PROVE  HoldsOK'
<1> USE DownloadBufferAssumption DEF HoldsOK, chunks
<1>0. /\ holds \in [Id -> SUBSET Id] /\ by \in [Id -> Thread] /\ serial \in 0 .. MaxChunk
      /\ PairOK /\ restarts \in Nat
  BY DEF IInv, TypeOK, ChunkType, ListType
\* Taking samples out of chunks
<1>1. ASSUME UNCHANGED <<by, serial>>, \A c \in Id : holds'[c] \subseteq holds[c]
      PROVE  HoldsOK'
  BY <1>1
<1>2. ASSUME NEW t \in Thread, Save(t) PROVE HoldsOK'
  <2> DEFINE s == serial'
  <2>1. /\ s = serial + 1 /\ by' = [by EXCEPT ![s] = t]
        /\ holds' = [holds EXCEPT ![s] = {s}]
    BY <1>2 DEF Save
  <2>2. s \in Id
    BY <1>0, <1>2 DEF Save, Id
  <2>3. ASSUME NEW c \in Id, NEW i \in holds'[c] PROVE i <= s /\ by'[i] = by'[c]
    <3>1. CASE c = s
      BY <1>0, <2>1, <2>2, <3>1, <2>3 DEF Id
    <3>2. CASE c # s
      <4>1. i \in holds[c] /\ i \in Id
        BY <1>0, <2>1, <2>3, <3>2
      <4>2. i <= serial /\ by[i] = by[c]
        BY <4>1
      <4>3. i # s /\ i <= s
        BY <1>0, <2>1, <4>1, <4>2 DEF Id
      <4> QED BY <1>0, <2>1, <3>2, <4>1, <4>2, <4>3
    <3> QED BY <3>1, <3>2
  <2> QED BY <2>3
<1>3. ASSUME NEW t \in Thread, Merge(t) PROVE HoldsOK'
  <2> DEFINE own == agent[t]
  <2>1. UNCHANGED <<by, serial>>
    BY <1>3 DEF Merge
  <2>2. CASE holds' = holds
    BY <2>1, <2>2
  <2>3. CASE holds' # holds
    <3>1. own \in list /\ pair[own] # None
          /\ holds' = [holds EXCEPT ![pair[own]] = @ \cup holds[own], ![own] = {}]
      BY <1>3, <2>3 DEF Merge
    <3>2. own \in Id /\ pair[own] \in Id
      BY <3>1 DEF IInv, TypeOK, ListType, ChunkType, Id, None
    <3>3. by[own] = "video" /\ by[pair[own]] = "video"
      BY <1>0, <3>1, <3>2 DEF PairOK
    <3>4. ASSUME NEW c \in Id, NEW i \in holds'[c] PROVE i <= serial /\ by[i] = by[c]
      <4>1. i \in holds[c] \/ (c = pair[own] /\ i \in holds[own])
        BY <1>0, <3>1, <3>2, <3>4
      <4> QED BY <3>2, <3>3, <4>1
    <3> QED BY <2>1, <3>4
  <2> QED BY <2>2, <2>3
<1>4. ASSUME NEW t \in Thread, UsePair(t) PROVE HoldsOK'
  <2>1. UNCHANGED <<by, serial>>
    BY <1>4 DEF UsePair, Use
  <2>2. \A c \in Id : holds'[c] \subseteq holds[c]
    BY <1>0, <1>4 DEF UsePair, Use
  <2> QED BY <1>1, <2>1, <2>2
<1>5. ASSUME NEW t \in Thread, UseOwn(t) PROVE HoldsOK'
  <2>1. UNCHANGED <<by, serial>>
    BY <1>5 DEF UseOwn, Use
  <2>2. \A c \in Id : holds'[c] \subseteq holds[c]
    BY <1>0, <1>5 DEF UseOwn, Use
  <2> QED BY <1>1, <2>1, <2>2
<1>6. ASSUME NEW t \in Thread, DropPair(t) PROVE HoldsOK'
  <2>1. UNCHANGED <<by, serial>>
    BY <1>6 DEF DropPair, Remove
  <2>2. \A c \in Id : holds'[c] \subseteq holds[c]
    BY <1>0, <1>6 DEF DropPair, Remove
  <2> QED BY <1>1, <2>1, <2>2
<1>7. ASSUME NEW t \in Thread, Drop(t) PROVE HoldsOK'
  <2>1. UNCHANGED <<by, serial>>
    BY <1>7 DEF Drop, Remove
  <2>2. \A c \in Id : holds'[c] \subseteq holds[c]
    BY <1>0, <1>7 DEF Drop, Remove
  <2> QED BY <1>1, <2>1, <2>2
<1>8. ASSUME NEW t \in Thread, DoEOS(t) PROVE HoldsOK'
  <2>1. UNCHANGED <<by, serial>>
    BY <1>8 DEF DoEOS, ClearList
  <2>2. \A c \in Id : holds'[c] \subseteq holds[c]
    BY <1>0, <1>8 DEF DoEOS, ClearList
  <2> QED BY <1>1, <2>1, <2>2
<1>9. CASE Flush
  BY <1>1, <1>9 DEF Flush, ClearList
<1>10. ASSUME NEW t \in Thread,
              \/ GetChunk(t) \/ GetNothing(t) \/ GetEnd(t) \/ LeaveLoop(t)
              \/ Notice(t) \/ Begin(t) \/ Sample(t) \/ Put(t) \/ UsePart(t)
              \/ Downloaded(t) \/ Complete(t) \/ SetAside(t) \/ Ignore(t)
              \/ Rest(t) \/ ReportEnd(t) \/ TestEnd(t)
      PROVE  HoldsOK'
  <2>1. UNCHANGED <<by, serial, holds>>
    BY <1>10 DEF GetChunk, GetNothing, GetEnd, LeaveLoop, Notice, Begin, Sample,
       Put, UsePart, Downloaded, Complete, SetAside, Ignore, Rest, ReportEnd,
       TestEnd
  <2> QED BY <2>1
<1>11. ASSUME \/ Seek \/ SetStop \/ CloseCache \/ (\E t \in Thread : Halt(t))
              \/ Resume \/ Unblock \/ ChangeBitrateWhenError \/ ParserFails
              \/ Reopen \/ UNCHANGED vars
      PROVE  HoldsOK'
  <2>1. UNCHANGED <<by, serial, holds>>
    BY <1>11 DEF vars, Seek, SetStop, CloseCache, Halt, Resume, Unblock,
       ChangeBitrateWhenError, ParserFails, Reopen
  <2> QED BY <2>1
<1> QED BY <1>2, <1>3, <1>4, <1>5, <1>6, <1>7, <1>8, <1>9, <1>10, <1>11 DEF
       Next, Work, InChunk, Controller

\* The markers are put when both flags are set, and these stay until a seek.
LEMMA OverStep ==
    ASSUME IInv, OverOK, ~stale', [Next]_vars
    PROVE  OverOK'
<1> USE DEF OverOK, history
<1>0. ~stale /\ EndOK
  BY StaleStays DEF IInv
<1>1. ASSUME NEW t \in Thread, DoEOS(t) PROVE OverOK'
  <2>1. at[t] = "clear" /\ UNCHANGED ended
    BY <1>1 DEF DoEOS
  <2>2. ended = {"video", "audio"}
    BY <1>0, <2>1 DEF EndOK
  <2> QED BY <2>1, <2>2
<1>2. ASSUME NEW t \in Thread, ReportEnd(t) PROVE OverOK'
  <2>1. UNCHANGED over /\ ended \subseteq ended' /\ ended' \subseteq ended \cup {t}
    BY <1>2 DEF ReportEnd
  <2>2. ended' \subseteq {"video", "audio"}
    BY <1>2, DownloadBufferAssumption DEF ReportEnd, IInv, TypeOK, ControlType
  <2> QED BY <1>0, <2>1, <2>2
<1>3. ASSUME NEW t \in Thread,
              \/ GetChunk(t) \/ GetNothing(t) \/ GetEnd(t) \/ LeaveLoop(t)
              \/ Notice(t) \/ Begin(t) \/ Save(t) \/ Sample(t) \/ Put(t)
              \/ UsePart(t)
              \/ Downloaded(t) \/ Complete(t) \/ SetAside(t) \/ Ignore(t)
              \/ Merge(t) \/ UsePair(t) \/ UseOwn(t) \/ DropPair(t)
              \/ Drop(t) \/ Rest(t) \/ TestEnd(t)
      PROVE  OverOK'
  <2>1. UNCHANGED <<over, ended>>
    BY <1>3 DEF GetChunk, GetNothing, GetEnd, LeaveLoop, Notice, Begin, Save,
       Sample, Put, UsePart, Downloaded, Complete, SetAside, Ignore, Merge,
       UsePair, Use, UseOwn, DropPair, Drop, Rest, TestEnd
  <2> QED BY <1>0, <2>1
<1>4. ASSUME \/ Seek \/ SetStop \/ CloseCache \/ (\E t \in Thread : Halt(t))
              \/ Flush \/ Unblock \/ ChangeBitrateWhenError \/ ParserFails
             \/ UNCHANGED vars
      PROVE  OverOK'
  <2>1. UNCHANGED <<over, ended>>
    BY <1>4 DEF vars, Seek, SetStop, CloseCache, Halt, Flush, Unblock,
       ChangeBitrateWhenError, ParserFails
  <2> QED BY <1>0, <2>1
<1>5. ASSUME Resume \/ Reopen PROVE OverOK'
  <2>1. over' = FALSE
    BY <1>5 DEF Resume, Reopen
  <2> QED BY <2>1
<1> QED BY <1>1, <1>2, <1>3, <1>4, <1>5 DEF Next, Work, InChunk, Controller

\* Only useChunk pushes.
LEMMA PushedByUse ==
    ASSUME TypeOK, [Next]_vars, NEW c \in Id, Pushed(c)
    PROVE  \E t \in Thread :
              /\ UsePair(t) \/ UseOwn(t)
              /\ c \in holds[IF at[t] = "use pair" THEN pair[agent[t]] ELSE agent[t]]
<1> USE DEF Pushed
<1>0. fate[c] # "pushed" /\ fate'[c] = "pushed" /\ fate \in [Id -> Fate]
  BY DEF TypeOK, ChunkType
<1>1. ASSUME NEW set, NEW what, what # "pushed" PROVE ~Became(set, what)
  BY <1>0, <1>1 DEF Became
<1>2. ASSUME NEW t \in Thread, SetAside(t) PROVE FALSE
  BY <1>0, <1>2 DEF SetAside
<1>3. ASSUME NEW t \in Thread, DropPair(t) \/ Drop(t) \/ DoEOS(t) PROVE FALSE
  BY <1>1, <1>3 DEF DropPair, Drop, Remove, DoEOS, ClearList
<1>4. ~Flush
  BY <1>1 DEF Flush, ClearList
<1>5. ASSUME NEW t \in Thread,
              \/ GetChunk(t) \/ GetNothing(t) \/ GetEnd(t) \/ LeaveLoop(t)
              \/ Notice(t) \/ Begin(t) \/ Save(t) \/ Sample(t) \/ Put(t)
              \/ UsePart(t)
              \/ Downloaded(t) \/ Complete(t) \/ Ignore(t) \/ Merge(t)
              \/ Rest(t) \/ ReportEnd(t) \/ TestEnd(t)
      PROVE  FALSE
  <2>1. UNCHANGED fate
    BY <1>5 DEF history, GetChunk, GetNothing, GetEnd, LeaveLoop, Notice, Begin,
       Save, Sample, Put, UsePart, Downloaded, Complete, Ignore, Merge, Rest,
       ReportEnd, TestEnd
  <2> QED BY <1>0, <2>1
<1>6. ASSUME \/ Seek \/ SetStop \/ CloseCache \/ (\E t \in Thread : Halt(t))
              \/ Resume \/ Unblock \/ ChangeBitrateWhenError \/ ParserFails
              \/ Reopen \/ UNCHANGED vars
      PROVE  FALSE
  <2>1. UNCHANGED fate
    BY <1>6 DEF history, vars, Seek, SetStop, CloseCache, Halt, Resume, Unblock,
       ChangeBitrateWhenError, ParserFails, Reopen
  <2> QED BY <1>0, <2>1
<1>7. ASSUME NEW t \in Thread, UsePair(t) \/ UseOwn(t)
      PROVE  c \in holds[IF at[t] = "use pair" THEN pair[agent[t]] ELSE agent[t]]
  <2> DEFINE d == IF at[t] = "use pair" THEN pair[agent[t]] ELSE agent[t]
  <2>1. Became({d}, "pushed") \/ UNCHANGED fate
    BY <1>7 DEF UsePair, UseOwn, Use
  <2> QED BY <1>0, <2>1 DEF Became
<1>8. PICK t \in Thread : UsePair(t) \/ UseOwn(t)
  BY <1>2, <1>3, <1>4, <1>5, <1>6 DEF Next, Work, InChunk, Controller
<1> QED BY <1>7, <1>8

\* A thread that pushes after the markers is the one that sets no flag.
LEMMA EndStays ==
    ASSUME IInv, HoldsOK, ~stale => OverOK, [Next]_vars, over, ~stale,
           NEW c \in Id, Pushed(c)
    PROVE  by[c] = "subtitle"
<1>1. PICK t \in Thread :
         /\ UsePair(t) \/ UseOwn(t)
         /\ c \in holds[IF at[t] = "use pair" THEN pair[agent[t]] ELSE agent[t]]
  BY PushedByUse DEF IInv
<1>2. at[t] \in {"use pair", "use"}
  BY <1>1 DEF UsePair, UseOwn
<1>3. t = "subtitle"
  BY <1>2, DownloadBufferAssumption DEF OverOK, IInv, EndOK
<1>4. agent[t] # None /\ AgentOK(t) /\ PairOK
  BY <1>2 DEF IInv, PlaceOK, InList
<1>5. agent[t] \in Id /\ by[agent[t]] = "subtitle"
  BY <1>3, <1>4 DEF IInv, TypeOK, ListType, AgentOK, Id, None
<1>6. at[t] # "use pair"
  <2>1. at[t] = "use pair" => pair[agent[t]] # None
    BY DEF IInv, PlaceOK
  <2> QED BY <1>4, <1>5, <2>1 DEF PairOK
<1> QED BY <1>1, <1>5, <1>6 DEF HoldsOK

LEMMA PartEndStays ==
    ASSUME IInv, ~stale => OverOK, over, ~stale, NEW c \in Id, PartPushed(c)
    PROVE  by[c] = "subtitle"
<1>1. PICK t \in Thread : at[t] = "outgrown" /\ agent[t] = c
  BY DEF PartPushed
<1>2. t = "subtitle"
  BY <1>1, DownloadBufferAssumption DEF OverOK, IInv, EndOK
<1>3. agent[t] # None
  BY <1>1 DEF IInv, PlaceOK, InList
<1> QED BY <1>1, <1>2, <1>3 DEF IInv, AgentOK

-----------------------------------------------------------------------------
\* The theorems

\* IInv holds at the start, and every step keeps it.
LEMMA InitInv == Init => IInv
<1> SUFFICES ASSUME Init PROVE IInv
  OBVIOUS
<1>1. TypeOK
  BY InitType
<1>2. PairOK
  BY DownloadBufferAssumption DEF Init, PairOK, Id, None
<1>3. FlushOK
  BY DEF Init, FlushOK
<1>4. ASSUME NEW t \in Thread
      PROVE  AgentOK(t) /\ FoundOK(t) /\ ResultOK(t) /\ PlaceOK(t) /\ LiveOK(t)
  <2>1. /\ at[t] = "idle" /\ agent[t] = None /\ found[t] = None /\ serial = 0
        /\ list = {}
    BY DEF Init
  <2>2. smooth[t] = FALSE /\ result[t] = "ok"
    BY DEF Init
  <2> QED BY <2>1, <2>2
          DEF AgentOK, FoundOK, ResultOK, PlaceOK, LiveOK, InList, WithPair, None
<1>5. EndOK
  BY DEF Init, EndOK
<1> QED BY <1>1, <1>2, <1>3, <1>4, <1>5, DownloadBufferAssumption DEF IInv

LEMMA NextInv == IInv /\ [Next]_vars => IInv'
<1> SUFFICES ASSUME IInv, [Next]_vars PROVE IInv'
  OBVIOUS
<1>1. TypeOK'
  BY ListStep, ChunkStep, ThreadStep, ControlStep DEF IInv, TypeOK
<1>2. /\ \A t \in Thread : AgentOK(t)'
      /\ \A t \in Thread : ResultOK(t)'
      /\ \A t \in Thread : FoundOK(t)'
      /\ PairOK'
  BY AgentStep, ResultStep, FoundStep, PairStep DEF IInv
<1>3. FlushOK' /\ \A t \in Thread : PlaceOK(t)'
  BY FlushStep, PlaceStep DEF IInv
<1>4. ASSUME ~stale' PROVE EndOK' /\ \A t \in {"video", "audio"} : LiveOK(t)'
  <2>1. ~stale
    BY <1>4, StaleStays
  <2> QED BY <1>4, <2>1, EndStep, LiveStep DEF IInv
<1> QED BY <1>1, <1>2, <1>3, <1>4 DEF IInv

LEMMA InvCorrect == Spec => []IInv
BY InitInv, NextInv, PTL DEF Spec

\* Every variable keeps to its values: only begun chunks are in the list, and
\* only chunks of the list are marked as set aside (SaveChunkHandle,
\* RemoveChunkHandle, ClearList).
THEOREM TypeCorrect == Spec => []TypeOK
<1>1. IInv => TypeOK
  BY DEF IInv
<1> QED BY <1>1, InvCorrect, PTL

\* However the item threads, Seek and Stop interleave, an audio or video thread
\* finds the chunk it fills, merges or pushes in the list, and its pair as
\* well: ChunkAgentInit and ChunkAgentUninit may let the lock go between.
THEOREM UsesLive == Spec => []UseLive
<1>1. IInv => UseLive
  <2> SUFFICES ASSUME IInv, ~stale, NEW t \in {"video", "audio"}
               PROVE  InUse(t) \subseteq list
    BY DEF UseLive
  <2>1. LiveOK(t)
    BY DEF IInv
  <2> QED BY <2>1 DEF LiveOK, InUse, InList, WithPair
<1> QED BY <1>1, InvCorrect, PTL

\* AInv rests on IInv,
LEMMA AsideCorrect == Spec => []AInv
<1>1. Init => AInv
  BY DownloadBufferAssumption DEF Init, AInv
<1>2. IInv /\ AInv /\ [Next]_vars => AInv'
  BY AsideStep
<1> QED BY <1>1, <1>2, InvCorrect, PTL DEF Spec

\* FindBAChunk takes the first chunk of the list that is set aside: it is the
\* only one, so no other is left behind when the bitrate changes again.
THEOREM OneIsAside == Spec => []OneAside
<1>1. IInv /\ AInv => OneAside
  <2> SUFFICES ASSUME IInv, AInv PROVE OneAside
    OBVIOUS
  <2>1. CASE aligned = {}
    BY <2>1, FS_EmptySet DEF OneAside
  <2>2. ASSUME NEW p \in aligned PROVE OneAside
    <3>1. aligned = {p}
      BY <2>2 DEF AInv
    <3> QED BY <3>1, FS_Singleton DEF OneAside
  <2> QED BY <2>1, <2>2
<1> QED BY <1>1, InvCorrect, AsideCorrect, PTL

\* and so do the invariants of the end.
LEMMA OverCorrect == Spec => [](HoldsOK /\ (~stale => OverOK))
<1>1. Init => HoldsOK /\ (~stale => OverOK)
  BY DEF Init, HoldsOK, OverOK
<1>2. IInv /\ (HoldsOK /\ (~stale => OverOK)) /\ [Next]_vars
        => (HoldsOK /\ (~stale => OverOK))'
  <2> SUFFICES ASSUME IInv, HoldsOK, ~stale => OverOK, [Next]_vars
               PROVE  HoldsOK' /\ (~stale' => OverOK')
    OBVIOUS
  <2> QED BY HoldsStep, OverStep, StaleStays
<1> QED BY <1>1, <1>2, InvCorrect, PTL DEF Spec

\* Nothing of the audio or the video is pushed behind the end-of-stream markers
\* (CHUNKEOS looks at the flags of both threads before DoEOS), except in a
\* stream that was opened with the flags of the one before.
THEOREM EndStaysEnd == Spec => EndIsEnd
<1>1. IInv /\ (HoldsOK /\ (~stale => OverOK)) /\ [Next]_vars
        => [(over /\ ~stale) =>
                \A c \in Id : Pushed(c) \/ PartPushed(c) => by[c] = "subtitle"]_vars
  BY EndStays, PartEndStays
<1> QED BY <1>1, InvCorrect, OverCorrect, PTL DEF Spec, EndIsEnd

-----------------------------------------------------------------------------
(* No chunk is left behind in the list, the chunk set aside is not lost at the end
   of the stream, and chunks are pushed in the order in which they were begun.

   A chunk in the list is its thread's, or was set aside: where a thread lets go of
   its chunk, or begins another, the chunk is not in the list any more (FreeOK,
   OwnedOK).  With a last notice the video thread takes what was set aside along
   (LastOK).  For the order, what a thread can still push was begun after all it has
   pushed (LaterOK): its own chunk holds itself alone until it is merged, and the pair
   holds nothing else that could be older than what has been pushed since (AsideHeld).
   What is still to be pushed is held by a chunk in the list (OpenOK); while a thread
   fills its chunk that can only be this one, or the pair, and so a part of it that is
   pushed overtakes nothing but the pair. *)

\* A thread's chunk is not in the list where it begins another, or has ended.
Between(t) ==
    \/ at[t] \in {"notice", "begin", "save", "eos", "test", "clear"}
    \/ at[t] = "idle" /\ t \notin halt
    \/ ~stale /\ t \in ended

FreeOK(t) ==
    /\ Between(t) => agent[t] \notin list
    /\ at[t] = "rest" => agent[t] \notin list \ aligned

\* A thread is putting samples into a chunk of the stream it began.
Begun(t) ==
    \/ at[t] \in {"save", "load", "put"} /\ kind[t] = "chunk"
    \/ at[t] = "outgrown"

\* What is in the list and was not set aside is the chunk its thread has, as
\* long as the controller hears the thread, or has heard it begin.
Hears(t) == ~silent \/ Begun(t) \/ (~stale /\ t \in ended)
OwnedOK(t) ==
    Hears(t) => \A c \in list \ aligned : by[c] = t => agent[t] = c

LeftInv == \A t \in Thread : FreeOK(t) /\ OwnedOK(t)

\* The last notice of video takes the chunk that was set aside along.
Silently == "video" \notin typed \/ hushed
LastOK ==
    /\ kind["video"] # "chunk" =>
        /\ at["video"] \notin {"full", "complete"}
        /\ at["video"] = "end" => result["video"] = "false"
    /\ kind["video"] = "last" /\ at["video"] \in {"drop", "rest"} => aligned = {}
    /\ at["video"] = "eos" => aligned = {} \/ Silently
    /\ ~stale /\ "video" \in ended => aligned = {} \/ Silently

\* Chunk c was begun after all that its thread has pushed.
Later(c) == \A d \in Id : fate[d] = "pushed" /\ by[d] = by[c] => d < c

\* A pair to come was set aside, or was freed and holds nothing.
Pairable(p) == p \in aligned \/ holds[p] = {}

\* What a thread can still push: the pair it found,
FoundLater(t) == found[t] # None => Pairable(found[t])

\* its chunk, which holds itself alone until it is merged, with the pair of it,
Filling == {"load", "put", "outgrown", "full", "complete", "end"}
OwnLater(t) ==
    at[t] \in Filling /\ agent[t] \in list =>
        /\ holds[agent[t]] = {agent[t]} /\ agent[t] \notin aligned /\ Later(agent[t])
        /\ pair[agent[t]] # None => Pairable(pair[agent[t]])

\* a part of its chunk, even when that is freed meanwhile,
PartLater(t) == at[t] \in {"put", "outgrown"} => Later(agent[t])

\* and what it has merged, which its own chunk has no more.
PairLater(t) ==
    at[t] = "use pair" =>
        holds[agent[t]] = {} /\ \A c \in holds[pair[agent[t]]] : Later(c)
UseLater(t) ==
    at[t] = "use" =>
        /\ \A c \in holds[agent[t]] : Later(c)
        /\ pair[agent[t]] # None => holds[agent[t]] = {}

LaterOK(t) ==
    FoundLater(t) /\ OwnLater(t) /\ PartLater(t) /\ PairLater(t) /\ UseLater(t)

\* A chunk that was set aside holds itself, and nothing older than what was
\* pushed.
AsideHeld ==
    /\ \A c \in Id : fate[c] = "aside" => c \in aligned /\ c \in holds[c]
    /\ \A p \in aligned : \A c \in holds[p] : Later(c)

\* What is still to be pushed is held by a chunk of the list: one that was set
\* aside has it only while that is pushed.
Merged == at["video"] \in {"use pair", "use", "drop pair"}
Held(d) == \E x \in list : d \in holds[x] /\ (x \in aligned => Merged)
OpenOK == \A d \in Id : d <= serial /\ fate[d] = "open" => Held(d)

OrderInv ==
    /\ \A c \in Id : fate[c] # "open" => c <= serial
    /\ AsideHeld
    /\ \A t \in Thread : LaterOK(t)

-----------------------------------------------------------------------------
\* Frames

\* What the proofs need of the types
LEMMA Types ==
    ASSUME TypeOK
    PROVE  /\ list \subseteq Id /\ aligned \subseteq list /\ list \subseteq 1 .. serial
           /\ serial \in Nat /\ serial <= MaxChunk /\ Id = 1 .. MaxChunk /\ None = 0
           /\ by \in [Id -> Thread] /\ pair \in [Id -> 0 .. MaxChunk]
           /\ holds \in [Id -> SUBSET Id] /\ fate \in [Id -> Fate]
           /\ agent \in [Thread -> 0 .. MaxChunk] /\ found \in [Thread -> 0 .. MaxChunk]
           /\ at \in [Thread -> Place] /\ "video" \in Thread /\ "audio" \in Thread
           /\ MaxChunk \in Nat /\ None \notin list
BY DownloadBufferAssumption DEF TypeOK, ListType, ChunkType, ThreadType, Id, None

\* A step of a thread that begins no chunk adds nothing to what is in the list.
LEMMA WorkFrame ==
    ASSUME TypeOK, NEW t \in Thread, Work(t)
    PROVE  /\ UNCHANGED <<halt, silent, stale>>
           /\ ended' \subseteq ended \cup {t} /\ (silent => ended' = ended)
           /\ ~Save(t) => /\ list' \subseteq list /\ list' \ aligned' \subseteq list \ aligned
                          /\ UNCHANGED <<by, serial>>
           /\ Save(t) => /\ serial' = serial + 1 /\ serial' \in Id
                         /\ list' = list \cup {serial'} /\ aligned' = aligned
                         /\ by' = [by EXCEPT ![serial'] = t]
                         /\ pair' = [pair EXCEPT ![serial'] = found[t]]
                         /\ holds' = [holds EXCEPT ![serial'] = {serial'}]
                         /\ agent' = [agent EXCEPT ![t] = serial']
                         /\ UNCHANGED <<fate, ended>>
<1> USE DEF chunks, control, history
<1> DEFINE Shrinks == /\ list' \subseteq list /\ list' \ aligned' \subseteq list \ aligned
                      /\ UNCHANGED <<by, serial, halt, silent, stale>>
                      /\ ended' \subseteq ended \cup {t} /\ (silent => ended' = ended)
<1>1. CASE Save(t)
  BY <1>1, Types DEF Save, TypeOK, ListType
<1>2. ASSUME \/ GetChunk(t) \/ GetNothing(t) \/ GetEnd(t) \/ LeaveLoop(t) \/ Notice(t)
             \/ Begin(t) \/ Sample(t) \/ Put(t) \/ UsePart(t) \/ Downloaded(t)
             \/ Complete(t)
             \/ Ignore(t) \/ Merge(t) \/ UsePair(t) \/ UseOwn(t) \/ Rest(t) \/ TestEnd(t)
      PROVE  Shrinks
  BY <1>2 DEF GetChunk, GetNothing, GetEnd, LeaveLoop, Notice, Begin, Sample,
     Put, UsePart, Downloaded, Complete, Ignore, Merge, UsePair, UseOwn, Use,
     Rest, TestEnd
<1>3. ASSUME SetAside(t) PROVE Shrinks
  BY <1>3 DEF SetAside
<1>4. ASSUME DropPair(t) \/ Drop(t) \/ DoEOS(t) PROVE Shrinks
  BY <1>4 DEF DropPair, Drop, Remove, DoEOS, ClearList
<1>5. ASSUME ReportEnd(t) PROVE Shrinks
  BY <1>5 DEF ReportEnd
<1>6. Save(t) \/ \/ GetChunk(t) \/ GetNothing(t) \/ GetEnd(t) \/ LeaveLoop(t) \/ Notice(t)
             \/ Begin(t) \/ Sample(t) \/ Put(t) \/ UsePart(t) \/ Downloaded(t)
             \/ Complete(t)
             \/ Ignore(t) \/ Merge(t) \/ UsePair(t) \/ UseOwn(t) \/ Rest(t) \/ TestEnd(t)
             \/ SetAside(t) \/ DropPair(t) \/ Drop(t) \/ DoEOS(t) \/ ReportEnd(t)
  BY DEF Work, InChunk
<1>7. CASE ~Save(t)
  BY <1>2, <1>3, <1>4, <1>5, <1>6, <1>7
<1> QED BY <1>1, <1>7

\* The controller leaves the list, or empties it, or finds it empty.
LEMMA ControllerFrame ==
    ASSUME IInv, Controller \/ UNCHANGED vars
    PROVE  /\ UNCHANGED <<by, serial, pair, found, kind, result>>
           /\ \/ UNCHANGED <<list, aligned, holds, fate, at, agent, typed, ended, hushed, stale>>
                 /\ halt \subseteq halt' /\ (silent => silent')
              \/ list' = {} /\ aligned' = {} /\ \A u \in Thread : at'[u] \in {"gone", "idle"}
<1> USE DEF chunks, local, control, history
<1> DEFINE Same == /\ UNCHANGED <<by, serial, pair, found, kind, result>>
                   /\ UNCHANGED <<list, aligned, holds, fate, at, agent, typed, ended, hushed, stale>>
                   /\ halt \subseteq halt' /\ (silent => silent')
<1>1. ASSUME Seek \/ SetStop \/ CloseCache \/ (\E t \in Thread : Halt(t))
             \/ Unblock \/ ChangeBitrateWhenError \/ ParserFails
      PROVE  Same
  <2>1. CASE Seek \/ CloseCache \/ ParserFails
    BY <2>1 DEF Seek, CloseCache, ParserFails
  <2>2. CASE SetStop
    BY <2>2 DEF SetStop
  <2>3. ASSUME NEW t \in Thread, Halt(t) PROVE Same
    BY <2>3 DEF Halt
  <2>4. CASE Unblock \/ ChangeBitrateWhenError
    BY <2>4 DEF Unblock, ChangeBitrateWhenError
  <2> QED BY <1>1, <2>1, <2>2, <2>3, <2>4
<1>2. CASE Flush
  <2>1. list' = {} /\ aligned' = {} /\ at' = at /\ \A u \in Thread : at[u] = "gone"
    BY <1>2 DEF Flush, ClearList
  <2>2. UNCHANGED <<by, serial, pair, found, kind, result>>
    BY <1>2 DEF Flush
  <2> QED BY <2>1, <2>2
<1>3. CASE Resume \/ Reopen
  <2>1. ctl \in {"parse", "stopped"} /\ UNCHANGED <<list, aligned>>
    BY <1>3 DEF Resume, Reopen
  <2>2. list = {} /\ aligned \subseteq list
    BY <2>1, Types DEF IInv, FlushOK
  <2>3. \A u \in Thread : at'[u] = "idle"
    BY <1>3 DEF Resume, Reopen
  <2>4. UNCHANGED <<by, serial, pair, found, kind, result>>
    BY <1>3 DEF Resume, Reopen
  <2>5. list' = {} /\ aligned' = {}
    BY <2>1, <2>2
  <2> QED BY <2>3, <2>4, <2>5
<1>4. CASE UNCHANGED vars
  BY <1>4 DEF vars
<1> QED BY <1>1, <1>2, <1>3, <1>4 DEF Controller

\* How a thread gets where it can push
LEMMA Arrives ==
    ASSUME TypeOK, NEW t \in Thread, Work(t)
    PROVE  /\ at'[t] = "save" => Begin(t)
           /\ at'[t] \in Filling =>
                Begin(t) \/ Save(t) \/ Sample(t) \/ Put(t) \/ UsePart(t)
                         \/ Downloaded(t) \/ Complete(t)
           /\ at'[t] \in {"put", "outgrown"} => Sample(t) \/ Put(t)
           /\ at'[t] = "use pair" => Merge(t)
           /\ at'[t] = "use" => Merge(t) \/ UsePair(t)
<1> USE DEF Goto, Filling
<1>t. at \in [Thread -> Place]
  BY Types
<1>1. CASE GetChunk(t) \/ GetNothing(t) \/ GetEnd(t) \/ LeaveLoop(t) \/ Notice(t)
  <2>1. at'[t] \in {"begin", "notice", "eos", "gone", "idle"}
    BY <1>t, <1>1 DEF GetChunk, GetNothing, GetEnd, LeaveLoop, Notice
  <2> QED BY <2>1
<1>2. CASE Sample(t) \/ Put(t) \/ UsePart(t) \/ Downloaded(t) \/ Complete(t)
           \/ Begin(t) \/ Save(t)
  <2>1. CASE Begin(t)
    BY <1>t, <2>1 DEF Begin
  <2>2. CASE Save(t)
    BY <1>t, <2>2 DEF Save
  <2>3. CASE Sample(t)
    BY <1>t, <2>3 DEF Sample
  <2>4. CASE Put(t)
    BY <1>t, <2>4 DEF Put
  <2>5. CASE Downloaded(t)
    BY <1>t, <2>5 DEF Downloaded
  <2>6. CASE Complete(t)
    BY <1>t, <2>6 DEF Complete
  <2>7. CASE UsePart(t)
    BY <1>t, <2>7 DEF UsePart
  <2> QED BY <1>2, <2>1, <2>2, <2>3, <2>4, <2>5, <2>6, <2>7
<1>3. CASE Merge(t)
  <2>1. at'[t] \in {"rest", "use", "use pair"}
    BY <1>t, <1>3 DEF Merge
  <2> QED BY <1>3, <2>1
<1>4. CASE UsePair(t)
  <2>1. at'[t] = "use"
    BY <1>t, <1>4 DEF UsePair, Use
  <2> QED BY <1>4, <2>1
<1>5. CASE SetAside(t) \/ Ignore(t) \/ UseOwn(t) \/ DropPair(t) \/ Drop(t) \/ Rest(t)
  <2>1. at'[t] \in {"rest", "drop", "drop pair", "begin", "eos", "idle"}
    BY <1>t, <1>5 DEF SetAside, Ignore, UseOwn, Use, DropPair, Drop, Rest
  <2> QED BY <2>1
<1>6. CASE ReportEnd(t) \/ TestEnd(t) \/ DoEOS(t)
  <2>1. at'[t] \in {"gone", "test", "clear"}
    BY <1>t, <1>6 DEF ReportEnd, TestEnd, DoEOS
  <2> QED BY <2>1
<1> QED BY <1>1, <1>2, <1>3, <1>4, <1>5, <1>6 DEF Work, InChunk

\* A chunk that is silenced when it is begun gets no samples.
LEMMA Begins ==
    ASSUME TypeOK, NEW t \in Thread, Work(t), Begun(t)'
    PROVE  ~silent \/ Begun(t)
<1> USE DEF Begun, Goto
<1>t. at \in [Thread -> Place]
  BY Types
<1>1. Begin(t) \/ Save(t) \/ Sample(t) \/ Put(t) \/ UsePart(t) \/ Downloaded(t) \/ Complete(t)
  <2>1. at'[t] = "save" \/ at'[t] \in Filling
    BY DEF Filling
  <2> QED BY <1>t, <2>1, Arrives
<1>2. CASE Begin(t)
  BY <1>t, <1>2 DEF Begin
<1>3. CASE Save(t)
  BY <1>t, <1>3 DEF Save
<1>4. CASE Sample(t)
  BY <1>t, <1>4 DEF Sample, local
<1>5. CASE Put(t)
  BY <1>t, <1>5 DEF Put
<1>6. CASE UsePart(t)
  BY <1>6 DEF UsePart
<1>7. CASE Downloaded(t) \/ Complete(t)
  BY <1>t, <1>7 DEF Downloaded, Complete
<1> QED BY <1>1, <1>2, <1>3, <1>4, <1>5, <1>6, <1>7

-----------------------------------------------------------------------------
\* Nothing is left behind

\* A thread lets go only of a chunk that is not in the list, or was set aside.
LEMMA OwnFree ==
    ASSUME IInv, NEW t \in Thread, Work(t), FreeOK(t)
    PROVE  FreeOK(t)'
<1> USE Types DEF FreeOK, Between, Goto, chunks, local, control, history
<1>t. TypeOK
  BY DEF IInv
<1>s. /\ UNCHANGED <<halt, stale>> /\ ended' \subseteq ended \cup {t}
      /\ ~Save(t) => list' \subseteq list
  BY <1>t, WorkFrame
<1>1. CASE GetChunk(t) \/ GetNothing(t) \/ GetEnd(t) \/ LeaveLoop(t) \/ Notice(t)
  BY <1>t, <1>1 DEF GetChunk, GetNothing, GetEnd, LeaveLoop, Notice
<1>2. CASE Begin(t) \/ Sample(t) \/ Put(t) \/ UsePart(t) \/ Downloaded(t)
  BY <1>t, <1>2 DEF Begin, Sample, Put, UsePart, Downloaded
<1>3. CASE Save(t)
  <2>1. ~stale => t \notin ended
    BY <1>3 DEF Save, IInv, EndOK
  <2>2. at'[t] = "load" /\ UNCHANGED <<ended, stale>>
    BY <1>t, <1>3 DEF Save
  <2> QED BY <2>1, <2>2
<1>4. CASE Complete(t)
  BY <1>t, <1>4 DEF Complete
<1>5. CASE SetAside(t)
  BY <1>t, <1>5 DEF SetAside
<1>6. CASE Ignore(t) \/ Merge(t)
  BY <1>t, <1>6 DEF Ignore, Merge
<1>7. CASE UsePair(t) \/ UseOwn(t)
  BY <1>t, <1>7 DEF UsePair, UseOwn, Use
<1>8. CASE DropPair(t) \/ Drop(t)
  BY <1>t, <1>8 DEF DropPair, Drop, Remove
<1>9. CASE Rest(t)
  <2>1. agent'[t] = None /\ list' = list
    BY <1>t, <1>9 DEF Rest
  <2> QED BY <1>t, <2>1
<1>10. CASE ReportEnd(t) \/ TestEnd(t)
  BY <1>t, <1>10 DEF ReportEnd, TestEnd
<1>11. CASE DoEOS(t)
  BY <1>t, <1>11 DEF DoEOS, ClearList
<1> QED BY <1>1, <1>2, <1>3, <1>4, <1>5, <1>6, <1>7, <1>8, <1>9, <1>10, <1>11
        DEF Work, InChunk

LEMMA FreeStep ==
    ASSUME IInv, LeftInv, [Next]_vars, NEW u \in Thread
    PROVE  FreeOK(u)'
<1>t. TypeOK /\ FreeOK(u)
  BY DEF IInv, LeftInv
<1>1. ASSUME NEW t \in Thread, Work(t), u # t PROVE FreeOK(u)'
  <2>1. at'[u] = at[u] /\ agent'[u] = agent[u]
    BY <1>t, <1>1, OthersStay
  <2>2. Between(u)' => Between(u)
    BY <1>t, <1>1, <2>1, WorkFrame DEF Between
  <2>3. agent[u] \in list' => agent[u] \in list
    BY <1>t, <1>1, WorkFrame, Types DEF IInv, AgentOK
  <2>4. agent[u] \in list' \ aligned' => agent[u] \in list \ aligned
    BY <1>t, <1>1, WorkFrame, Types DEF IInv, AgentOK
  <2> QED BY <1>t, <2>1, <2>2, <2>3, <2>4 DEF FreeOK
<1>2. ASSUME Controller \/ UNCHANGED vars PROVE FreeOK(u)'
  BY <1>t, <1>2, ControllerFrame DEF FreeOK, Between
<1> QED BY <1>t, <1>1, <1>2, OwnFree DEF Next

\* No chunk is in the list that its thread has not, and was not set aside.
LEMMA OwnedStep ==
    ASSUME IInv, LeftInv, [Next]_vars, NEW u \in Thread
    PROVE  OwnedOK(u)'
<1>t. TypeOK /\ FreeOK(u) /\ OwnedOK(u)
  BY DEF IInv, LeftInv
<1> SUFFICES ASSUME Hears(u)', NEW c \in list' \ aligned', by'[c] = u
             PROVE  agent'[u] = c
  BY DEF OwnedOK
<1>1. ASSUME NEW t \in Thread, Work(t) PROVE agent'[u] = c
  <2>1. Hears(u)
    <3>1. Begun(u)' => ~silent \/ Begun(u)
      <4>1. CASE u = t
        BY <1>t, <1>1, <4>1, Begins
      <4>2. CASE u # t
        BY <1>t, <1>1, <4>2, OthersStay DEF Begun
      <4> QED BY <4>1, <4>2
    <3> QED BY <1>t, <1>1, <3>1, WorkFrame DEF Hears
  <2>2. CASE Save(t)
    <3>1. CASE c = serial'
      BY <1>t, <1>1, <2>2, <3>1, WorkFrame, Types
    <3>2. CASE c # serial'
      <4>1. c \in list \ aligned /\ by[c] = u
        BY <1>t, <1>1, <2>2, <3>2, WorkFrame, Types
      <4>2. agent[u] = c
        BY <1>t, <2>1, <4>1 DEF OwnedOK
      <4>3. u # t
        BY <1>t, <2>2, <4>1, <4>2 DEF FreeOK, Between, Save
      <4> QED BY <1>t, <1>1, <4>2, <4>3, OthersStay
    <3> QED BY <3>1, <3>2
  <2>3. CASE ~Save(t)
    <3>1. c \in list \ aligned /\ by[c] = u
      BY <1>t, <1>1, <2>3, WorkFrame
    <3>2. agent[u] = c
      BY <1>t, <2>1, <3>1 DEF OwnedOK
    <3>3. CASE u # t
      BY <1>t, <1>1, <3>2, <3>3, OthersStay
    <3>4. CASE u = t
      <4>1. ~Between(t) /\ at[t] # "rest"
        BY <1>t, <3>1, <3>2, <3>4 DEF FreeOK
      <4>2. ~GetNothing(t) /\ ~Begin(t) /\ ~Rest(t)
        BY <4>1 DEF Between, GetNothing, Begin, Rest
      <4>3. ASSUME Complete(t) PROVE agent' = agent
        <5>1. at[t] = "complete" /\ (~stale => t \notin ended)
          BY <4>3 DEF Complete, IInv, EndOK
        <5>2. ~silent
          BY <2>1, <3>4, <5>1 DEF Hears, Begun
        <5> QED BY <1>t, <4>3, <5>2, Types DEF Complete
      <4>4. agent' = agent
        BY <1>1, <2>3, <4>2, <4>3 DEF Work, InChunk, GetChunk, GetEnd,
           LeaveLoop, Notice, Sample, Put, UsePart, Downloaded, SetAside,
           Ignore, Merge, UsePair, UseOwn, Use, DropPair, Drop, ReportEnd,
           TestEnd, DoEOS, local
      <4> QED BY <3>2, <4>4
    <3> QED BY <3>3, <3>4
  <2> QED BY <2>2, <2>3
<1>2. ASSUME Controller \/ UNCHANGED vars PROVE agent'[u] = c
  BY <1>t, <1>2, ControllerFrame DEF OwnedOK, Hears, Begun
<1> QED BY <1>1, <1>2 DEF Next

LEMMA LeftCorrect == Spec => []LeftInv
<1>1. Init => LeftInv
  BY DownloadBufferAssumption DEF Init, LeftInv, FreeOK, OwnedOK
<1>2. IInv /\ LeftInv /\ [Next]_vars => LeftInv'
  BY FreeStep, OwnedStep DEF LeftInv
<1> QED BY <1>1, <1>2, InvCorrect, PTL DEF Spec

\* Every chunk SaveChunkHandle has put into the list is removed by the thread
\* that began it, by the flush or by the end of the stream, or is set aside,
\* however its download goes: no thread begins another, or ends, with its chunk
\* in the list.
THEOREM NoneLeftBehind == Spec => []NoOrphan
<1>1. IInv /\ LeftInv => NoOrphan
  <2> SUFFICES ASSUME IInv, LeftInv, ~silent, NEW c \in list \ aligned
               PROVE  agent[by[c]] = c
    BY DEF NoOrphan
  <2>1. by[c] \in Thread
    BY Types DEF IInv
  <2> QED BY <2>1 DEF LeftInv, OwnedOK, Hears
<1> QED BY <1>1, InvCorrect, LeftCorrect, PTL

-----------------------------------------------------------------------------
\* The end of the stream

\* Only the video thread sets chunks aside.
LEMMA OthersSetNoneAside ==
    ASSUME IInv, NEW t \in Thread, t # "video", Work(t)
    PROVE  aligned' \subseteq aligned
<1> USE DEF chunks
<1>1. ~SetAside(t)
  BY DEF SetAside, IInv, ResultOK
<1>2. CASE DropPair(t) \/ Drop(t) \/ DoEOS(t)
  BY <1>2 DEF DropPair, Drop, Remove, DoEOS, ClearList
<1>3. CASE ~(DropPair(t) \/ Drop(t) \/ DoEOS(t))
  BY <1>1, <1>3 DEF Work, InChunk, GetChunk, GetNothing, GetEnd, LeaveLoop,
     Notice, Begin, Save, Sample, Put, UsePart, Downloaded, Complete, Ignore,
     Merge, UsePair, UseOwn, Use, Rest, ReportEnd, TestEnd
<1> QED BY <1>2, <1>3

\* What another thread does leaves the video thread its reasons.
LEMMA OthersLast ==
    ASSUME IInv, LastOK, NEW t \in Thread, t # "video", Work(t)
    PROVE  LastOK'
<1> USE DEF local, history
<1>t. TypeOK
  BY DEF IInv
<1>1. aligned' \subseteq aligned
  BY OthersSetNoneAside
<1>2. at'["video"] = at["video"] /\ kind'["video"] = kind["video"]
      /\ result'["video"] = result["video"]
  BY <1>t, OthersStay, Types
<1>3. stale' = stale /\ ended' \subseteq ended \cup {t}
  BY <1>t, WorkFrame
<1>4. Silently => Silently'
  <2>1. typed' \subseteq typed \cup {t}
    BY DEF Work, InChunk, GetChunk, GetNothing, GetEnd, LeaveLoop, Notice,
       Begin, Save, Sample, Put, UsePart, Downloaded, Complete, SetAside,
       Ignore, Merge, UsePair, UseOwn, Use, DropPair, Drop, Rest, ReportEnd,
       TestEnd, DoEOS
  <2>2. hushed => hushed'
    BY DEF Work, InChunk, GetChunk, GetNothing, GetEnd, LeaveLoop, Notice,
       Begin, Save, Sample, Put, UsePart, Downloaded, Complete, SetAside,
       Ignore, Merge, UsePair, UseOwn, Use, DropPair, Drop, Rest, ReportEnd,
       TestEnd, DoEOS
  <2> QED BY <2>1, <2>2 DEF Silently
<1> QED BY <1>1, <1>2, <1>3, <1>4 DEF LastOK

\* With its last notice the video thread frees the pair of it, or finds none;
\* without one it has had no track, or was not to send it.
LEMMA VideoLast ==
    ASSUME IInv, AInv, LastOK, Work("video")
    PROVE  LastOK'
<1> USE Types DEF local, history, chunks, Goto
<1> DEFINE place == at["video"]
<1>t. /\ TypeOK /\ kind \in [Thread -> {"chunk", "notice", "last"}]
      /\ result \in [Thread -> {"ok", "slow", "failed", "true", "false", "ignore"}]
      /\ PlaceOK("video")
  BY DEF IInv, TypeOK, ThreadType
\* The parts of LastOK are about places, notices and ends.
<1> DEFINE KindPart ==
        kind["video"] # "chunk" =>
            /\ at["video"] \notin {"full", "complete"}
            /\ at["video"] = "end" => result["video"] = "false"
<1> DEFINE DropPart ==
        kind["video"] = "last" /\ at["video"] \in {"drop", "rest"} => aligned = {}
<1> DEFINE EosPart == at["video"] = "eos" => aligned = {} \/ Silently
<1> DEFINE EndedPart == ~stale /\ "video" \in ended => aligned = {} \/ Silently
<1>a. KindPart /\ DropPart /\ EosPart /\ EndedPart
  BY DEF LastOK
\* A thread that has its flag set only finishes.
<1>c. ASSUME ~stale, place \notin {"test", "clear", "gone"} PROVE "video" \notin ended
  BY <1>c DEF IInv, EndOK
<1>1. CASE GetChunk("video") \/ GetNothing("video") \/ LeaveLoop("video")
  <2>1. at'["video"] \in {"begin", "notice", "gone"} /\ place = "idle"
        /\ UNCHANGED <<stale, ended>>
    BY <1>1, <1>t DEF GetChunk, GetNothing, LeaveLoop
  <2> QED BY <1>c, <2>1 DEF LastOK
<1>2. CASE GetEnd("video")
  <2>1. place = "idle" /\ UNCHANGED <<stale, ended, typed>>
        /\ \/ at'["video"] = "notice"
           \/ at'["video"] = "eos" /\ "video" \notin typed
    BY <1>2, <1>t DEF GetEnd
  <2> QED BY <1>c, <2>1 DEF LastOK, Silently
<1>3. CASE Notice("video")
  <2>1. place = "notice" /\ UNCHANGED <<stale, ended>>
        /\ \/ at'["video"] \in {"idle", "begin"}
           \/ at'["video"] = "eos" /\ hushed'
    BY <1>3, <1>t DEF Notice
  <2> QED BY <1>c, <2>1 DEF LastOK, Silently
<1>4. CASE Begin("video")
  <2>1. place = "begin" /\ UNCHANGED <<stale, ended, kind>>
        /\ \/ at'["video"] = "save"
           \/ at'["video"] = "full" /\ kind["video"] = "chunk"
    BY <1>4, <1>t DEF Begin
  <2> QED BY <1>c, <2>1 DEF LastOK
<1>5. CASE Save("video")
  <2>1. place = "save" /\ UNCHANGED <<stale, ended>> /\ at'["video"] = "load"
    BY <1>5, <1>t DEF Save
  <2> QED BY <1>c, <2>1 DEF LastOK
<1>6. CASE Sample("video")
  <2>1. place = "load" /\ UNCHANGED <<stale, ended, kind, aligned>>
        /\ at'["video"] = IF agent["video"] \in list THEN "put"
                          ELSE IF kind["video"] = "chunk" THEN "full" ELSE "rest"
    BY <1>6, <1>t DEF Sample
  <2>2. aligned # {} => agent["video"] \in list
    BY <2>1 DEF AInv, AsideOK, Paired
  <2> QED BY <1>c, <2>1, <2>2 DEF LastOK
<1>7. CASE Put("video")
  <2>1. place = "put" /\ UNCHANGED <<stale, ended, kind>>
        /\ \/ at'["video"] \in {"full", "outgrown"} /\ kind["video"] = "chunk"
           \/ at'["video"] = "end" /\ result'["video"] = "false"
    BY <1>7, <1>t DEF Put
  <2> QED BY <1>c, <2>1 DEF LastOK
<1>18. CASE UsePart("video")
  <2>1. place = "outgrown" /\ UNCHANGED <<stale, ended>> /\ at'["video"] = "load"
    BY <1>18, <1>t DEF UsePart
  <2> QED BY <1>c, <2>1 DEF LastOK
<1>8. CASE Downloaded("video") \/ Complete("video")
  <2>1. place \in {"load", "full", "complete"} /\ UNCHANGED <<stale, ended, kind>>
        /\ at'["video"] \in {"complete", "idle", "end"} /\ kind["video"] = "chunk"
    BY <1>8, <1>t, <1>a DEF Downloaded, Complete
  <2> QED BY <1>c, <2>1 DEF LastOK
<1>9. CASE SetAside("video") \/ Ignore("video")
  <2>1. place = "end" /\ UNCHANGED <<stale, ended, kind>> /\ at'["video"] \in {"drop", "rest"}
        /\ result["video"] # "false"
    BY <1>9, <1>t DEF SetAside, Ignore
  <2> QED BY <1>a, <1>c, <2>1 DEF LastOK
<1>10. CASE Merge("video")
  <2>1. place = "end" /\ UNCHANGED <<stale, ended, kind, aligned>>
        /\ \/ agent["video"] \notin list /\ at'["video"] = "rest"
           \/ at'["video"] \in {"use", "use pair"}
    BY <1>10, <1>t DEF Merge
  <2>2. aligned # {} => agent["video"] \in list
    BY <2>1 DEF AInv, AsideOK, Paired
  <2> QED BY <1>c, <2>1, <2>2 DEF LastOK
<1>11. CASE UsePair("video")
  <2>1. place = "use pair" /\ UNCHANGED <<stale, ended>> /\ at'["video"] = "use"
    BY <1>11, <1>t DEF UsePair, Use
  <2> QED BY <1>c, <2>1 DEF LastOK
<1>12. CASE UseOwn("video")
  <2>1. place = "use" /\ UNCHANGED <<stale, ended, aligned>>
        /\ at'["video"] = IF pair[agent["video"]] = None THEN "drop" ELSE "drop pair"
    BY <1>12, <1>t DEF UseOwn, Use
  <2>2. ASSUME NEW p \in aligned PROVE pair[agent["video"]] # None
    <3>1. pair[agent["video"]] = p
      BY <2>1, <2>2 DEF AInv, AsideOK, Paired
    <3> QED BY <1>t, <3>1
  <2> QED BY <1>c, <2>1, <2>2 DEF LastOK
<1>13. CASE DropPair("video")
  <2>1. place = "drop pair" /\ UNCHANGED <<stale, ended>> /\ at'["video"] = "drop"
        /\ aligned' = aligned \ {pair[agent["video"]]}
    BY <1>13, <1>t DEF DropPair, Remove
  <2>2. \A p \in aligned : pair[agent["video"]] = p
    BY <2>1 DEF AInv, AsideOK, Paired
  <2>3. aligned' = {}
    BY <2>1, <2>2
  <2> QED BY <1>c, <2>1, <2>3 DEF LastOK
<1>14. CASE Drop("video")
  <2>1. place = "drop" /\ UNCHANGED <<stale, ended, kind>> /\ at'["video"] = "rest"
        /\ aligned' \subseteq aligned
    BY <1>14, <1>t DEF Drop, Remove
  <2> QED BY <1>a, <1>c, <2>1 DEF LastOK
<1>15. CASE Rest("video")
  <2>1. place = "rest" /\ UNCHANGED <<stale, ended, aligned>>
        /\ \/ at'["video"] \in {"begin", "idle"}
           \/ at'["video"] = "eos" /\ kind["video"] = "last"
    BY <1>15, <1>t DEF Rest
  <2> QED BY <1>a, <1>c, <2>1 DEF LastOK
<1>16. CASE ReportEnd("video")
  <2>1. place = "eos" /\ UNCHANGED <<stale, aligned, typed, hushed, kind, result>>
        /\ at'["video"] \in {"gone", "test"}
    BY <1>16, <1>t DEF ReportEnd
  <2> QED BY <1>a, <2>1 DEF LastOK, Silently
<1>17. CASE TestEnd("video") \/ DoEOS("video")
  <2>1. UNCHANGED <<stale, ended, typed, hushed>> /\ aligned' \subseteq aligned
        /\ at'["video"] \in {"gone", "clear"}
    BY <1>17, <1>t DEF TestEnd, DoEOS, ClearList
  <2> QED BY <1>a, <2>1 DEF LastOK, Silently
<1> QED BY <1>1, <1>2, <1>3, <1>4, <1>5, <1>6, <1>7, <1>8, <1>9, <1>10, <1>11, <1>12,
          <1>13, <1>14, <1>15, <1>16, <1>17, <1>18 DEF Work, InChunk

LEMMA LastCorrect == Spec => []LastOK
<1>1. Init => LastOK
  BY DownloadBufferAssumption DEF Init, LastOK
<1>2. IInv /\ AInv /\ LastOK /\ [Next]_vars => LastOK'
  <2> SUFFICES ASSUME IInv, AInv, LastOK, [Next]_vars PROVE LastOK'
    OBVIOUS
  <2>1. ASSUME NEW t \in Thread, Work(t) PROVE LastOK'
    BY <2>1, OthersLast, VideoLast
  <2>2. ASSUME Controller \/ UNCHANGED vars PROVE LastOK'
    <3>1. "video" \in Thread
      BY DownloadBufferAssumption
    <3> QED BY <2>2, <3>1, ControllerFrame DEF LastOK, Silently
  <2> QED BY <2>1, <2>2 DEF Next
<1> QED BY <1>1, <1>2, InvCorrect, AsideCorrect, PTL DEF Spec

\* Samples are lost only when the end of the stream clears the list.
LEMMA LostByEnd ==
    ASSUME IInv, [Next]_vars, NEW c \in Id, fate[c] # "lost", fate'[c] = "lost"
    PROVE  \E t \in Thread : DoEOS(t) /\ \E d \in list : c \in holds[d]
<1> USE DEF history
<1>0. fate \in [Id -> Fate]
  BY Types DEF IInv
<1>1. ASSUME NEW set, NEW what, what # "lost" PROVE ~Became(set, what)
  BY <1>0, <1>1 DEF Became
<1>2. ASSUME NEW t \in Thread, UsePair(t) \/ UseOwn(t) \/ DropPair(t) \/ Drop(t) PROVE FALSE
  BY <1>1, <1>2 DEF UsePair, UseOwn, Use, DropPair, Drop, Remove
<1>3. ASSUME NEW t \in Thread, SetAside(t) PROVE FALSE
  BY <1>0, <1>3 DEF SetAside
<1>4. ASSUME NEW t \in Thread, Work(t) PROVE DoEOS(t)
  BY <1>2, <1>3, <1>4 DEF Work, InChunk, GetChunk, GetNothing, GetEnd,
     LeaveLoop, Notice, Begin, Save, Sample, Put, UsePart, Downloaded, Complete,
     Ignore, Merge, Rest, ReportEnd, TestEnd
<1>5. ~Flush
  BY <1>1 DEF Flush, ClearList
<1>6. ~Controller /\ ~(UNCHANGED vars)
  BY <1>5 DEF Controller, vars, Seek, SetStop, CloseCache, Halt, Resume, Unblock,
     ChangeBitrateWhenError, ParserFails, Reopen
<1>7. PICK t \in Thread : DoEOS(t)
  BY <1>4, <1>6 DEF Next
<1>8. \E d \in list : c \in holds[d]
  BY <1>0, <1>7 DEF DoEOS, ClearList, Became
<1> QED BY <1>7, <1>8

\* DoEOS clears the list with whatever is in it.  That is no audio, and no video
\* that the video thread could have pushed with its last notice: only what was
\* set aside when there was no such notice is lost.
THEOREM LossIsSilent == Spec => LostOnlySilently
<1> DEFINE Lost == ~stale => \A c \in Id :
                (fate[c] # "lost" /\ fate'[c] = "lost")
                    => \/ by[c] = "subtitle"
                       \/ (by[c] = "video" /\ ("video" \notin typed \/ hushed))
<1>1. IInv /\ HoldsOK /\ LeftInv /\ LastOK /\ [Next]_vars => [Lost]_vars
  <2> SUFFICES ASSUME IInv, HoldsOK, LeftInv, LastOK, [Next]_vars, ~stale,
                      NEW c \in Id, fate[c] # "lost", fate'[c] = "lost"
               PROVE  \/ by[c] = "subtitle"
                      \/ (by[c] = "video" /\ ("video" \notin typed \/ hushed))
    OBVIOUS
  <2>1. PICK t \in Thread : DoEOS(t) /\ \E d \in list : c \in holds[d]
    BY LostByEnd
  <2>2. PICK d \in list : c \in holds[d]
    BY <2>1
  <2>3. d \in Id /\ by[d] \in Thread /\ by[c] = by[d]
    BY <2>2, Types DEF IInv, HoldsOK
  <2>4. ended = {"video", "audio"}
    BY <2>1 DEF DoEOS, IInv, EndOK
  <2>5. ASSUME NEW u \in {"video", "audio"}, by[d] = u PROVE d \in aligned
    <3>1. Hears(u) /\ Between(u) /\ u \in Thread
      BY <2>4, DownloadBufferAssumption DEF Hears, Between
    <3>2. agent[u] \notin list
      BY <3>1 DEF LeftInv, FreeOK
    <3> QED BY <2>5, <3>1, <3>2 DEF LeftInv, OwnedOK
  <2>6. by[d] # "audio"
    BY <2>5 DEF IInv, PairOK
  <2>7. by[d] = "video" => Silently
    BY <2>4, <2>5 DEF LastOK
  <2> QED BY <2>3, <2>6, <2>7, DownloadBufferAssumption DEF Silently
<1> QED BY <1>1, InvCorrect, OverCorrect, LeftCorrect, LastCorrect, PTL
        DEF Spec, LostOnlySilently

-----------------------------------------------------------------------------
\* The order

\* What a thread pushes or merges is its own.
LEMMA UsesOwn ==
    ASSUME IInv, HoldsOK, NEW t \in Thread, at[t] \in InList
    PROVE  LET own == agent[t] IN
           /\ own \in Id /\ by[own] = t /\ \A c \in holds[own] : by[c] = t
           /\ pair[own] # None =>
                /\ t = "video" /\ pair[own] \in Id /\ pair[own] # own /\ by[pair[own]] = t
                /\ \A c \in holds[pair[own]] : by[c] = t
<1>t. /\ MaxChunk \in Nat /\ serial \in Nat
      /\ agent[t] \in 0 .. MaxChunk /\ pair \in [Id -> 0 .. MaxChunk]
      /\ holds \in [Id -> SUBSET Id]
  BY Types DEF IInv
<1>1. agent[t] # None /\ AgentOK(t) /\ PairOK
  BY DEF IInv, PlaceOK, InList
<1>2. agent[t] \in Id /\ by[agent[t]] = t
  BY <1>t, <1>1 DEF AgentOK, Id, None
<1>3. ASSUME pair[agent[t]] # None
      PROVE  /\ t = "video" /\ pair[agent[t]] \in Id /\ pair[agent[t]] # agent[t]
             /\ by[pair[agent[t]]] = t
  <2>1. pair[agent[t]] \in Id /\ pair[agent[t]] < agent[t]
    BY <1>t, <1>1, <1>2, <1>3 DEF PairOK, Id, None
  <2> QED BY <1>t, <1>1, <1>2, <1>3, <2>1 DEF PairOK
<1>4. \A c \in Id : \A i \in holds[c] : by[i] = by[c]
  BY DEF HoldsOK
<1> QED BY <1>2, <1>3, <1>4

\* What is pushed is of the thread that pushes.
LEMMA PushesOwn ==
    ASSUME IInv, HoldsOK, [Next]_vars, NEW d \in Id, Pushed(d)
    PROVE  /\ by[d] \in Thread /\ UNCHANGED <<by, serial>>
           /\ UsePair(by[d]) \/ UseOwn(by[d])
           /\ d \in holds[IF at[by[d]] = "use pair" THEN pair[agent[by[d]]] ELSE agent[by[d]]]
<1>1. PICK t \in Thread :
         /\ UsePair(t) \/ UseOwn(t)
         /\ d \in holds[IF at[t] = "use pair" THEN pair[agent[t]] ELSE agent[t]]
  BY PushedByUse DEF IInv
<1>2. at[t] \in {"use pair", "use"} /\ UNCHANGED <<by, serial>>
  BY <1>1 DEF UsePair, UseOwn, Use
<1>3. at[t] = "use pair" => pair[agent[t]] # None
  BY DEF IInv, PlaceOK
<1>4. by[d] = t
  <2>1. at[t] \in InList
    BY <1>2 DEF InList
  <2> QED BY <1>1, <1>3, <2>1, UsesOwn
<1> QED BY <1>1, <1>2, <1>4

\* Only begun chunks have a fate.
LEMMA BegunStep ==
    ASSUME IInv, HoldsOK, \A c \in Id : fate[c] # "open" => c <= serial, [Next]_vars
    PROVE  \A c \in Id : fate'[c] # "open" => c <= serial'
<1> USE DEF history, chunks
<1>t. /\ TypeOK /\ list \subseteq Id /\ serial \in Nat /\ fate \in [Id -> Fate]
      /\ Id \subseteq Nat
  BY Types DEF IInv
<1> SUFFICES ASSUME NEW c \in Id, fate'[c] # "open" PROVE c <= serial'
  OBVIOUS
<1>0. serial <= serial' /\ serial' \in Nat
  <2>1. ASSUME NEW t \in Thread, Work(t) PROVE serial' = serial \/ serial' = serial + 1
    BY <1>t, <2>1, WorkFrame
  <2>2. ASSUME Controller \/ UNCHANGED vars PROVE serial' = serial
    BY <2>2, ControllerFrame
  <2> QED BY <1>t, <2>1, <2>2 DEF Next
<1>1. ASSUME NEW set \in SUBSET Id, NEW what, Became(set, what) PROVE fate[c] # "open" \/ c <= serial
  BY <1>1, <1>t DEF Became, HoldsOK
<1>2. fate[c] # "open" \/ c <= serial
  <2>1. ASSUME NEW t \in Thread, UsePair(t) \/ UseOwn(t) \/ DropPair(t) \/ Drop(t)
        PROVE  fate[c] # "open" \/ c <= serial
    <3>1. at[t] \in {"use pair", "use", "drop pair", "drop"}
      BY <2>1 DEF UsePair, UseOwn, DropPair, Drop
    <3>2. at[t] \in {"use pair", "drop pair"} => pair[agent[t]] # None
      BY DEF IInv, PlaceOK
    <3>3. agent[t] \in Id /\ (at[t] \in {"use pair", "drop pair"} => pair[agent[t]] \in Id)
      BY <3>1, <3>2, UsesOwn DEF InList
    <3>4. UNCHANGED fate \/ \E set \in SUBSET Id, what \in Fate : Became(set, what)
      BY <2>1, <3>3 DEF UsePair, UseOwn, Use, DropPair, Drop, Remove, Fate
    <3> QED BY <1>1, <3>4
  <2>2. ASSUME NEW t \in Thread, DoEOS(t) PROVE fate[c] # "open" \/ c <= serial
    BY <1>1, <1>t, <2>2 DEF DoEOS, ClearList
  <2>3. ASSUME NEW t \in Thread, SetAside(t) PROVE fate[c] # "open" \/ c <= serial
    <3>1. AgentOK(t)
      BY DEF IInv
    <3>2. c = agent[t] \/ fate'[c] = fate[c]
      BY <1>t, <2>3 DEF SetAside
    <3> QED BY <3>1, <3>2 DEF AgentOK
  <2>4. CASE Flush
    BY <1>1, <1>t, <2>4 DEF Flush, ClearList
  <2>5. ASSUME NEW t \in Thread, Work(t) PROVE fate[c] # "open" \/ c <= serial
    BY <2>1, <2>2, <2>3, <2>5 DEF Work, InChunk, GetChunk, GetNothing, GetEnd,
       LeaveLoop, Notice, Begin, Save, Sample, Put, UsePart, Downloaded,
       Complete, Ignore, Merge, Rest, ReportEnd, TestEnd
  <2>6. ASSUME Controller \/ UNCHANGED vars PROVE fate[c] # "open" \/ c <= serial
    BY <2>4, <2>6 DEF Controller, vars, Seek, SetStop, CloseCache, Halt, Resume,
       Unblock, ChangeBitrateWhenError, ParserFails, Reopen
  <2> QED BY <2>5, <2>6 DEF Next
<1> QED BY <1>t, <1>0, <1>2

\* A begun chunk stays later than what is pushed, unless its thread pushes.
LEMMA LaterKept ==
    ASSUME IInv, HoldsOK, OrderInv, [Next]_vars, NEW c \in Id, c <= serial, Later(c),
           ~UsePair(by[c]), ~UseOwn(by[c])
    PROVE  Later(c)' /\ by'[c] = by[c]
<1>t. TypeOK /\ serial \in Nat /\ by \in [Id -> Thread] /\ Id \subseteq Nat
  BY Types DEF IInv
<1>1. \A d \in Id : d <= serial => by'[d] = by[d]
  <2>1. ASSUME NEW t \in Thread, Work(t), NEW d \in Id, d <= serial PROVE by'[d] = by[d]
    BY <1>t, <2>1, WorkFrame
  <2>2. ASSUME Controller \/ UNCHANGED vars PROVE by' = by
    BY <2>2, ControllerFrame
  <2> QED BY <2>1, <2>2 DEF Next
<1>2. ASSUME NEW d \in Id, fate'[d] = "pushed", by'[d] = by'[c] PROVE d < c
  <2>1. CASE fate[d] = "pushed"
    <3>1. d <= serial
      BY <2>1 DEF OrderInv
    <3> QED BY <1>1, <1>2, <2>1, <3>1 DEF Later
  <2>2. CASE fate[d] # "pushed"
    <3>1. Pushed(d)
      BY <1>2, <2>2 DEF Pushed
    <3>2. UNCHANGED by /\ (UsePair(by[d]) \/ UseOwn(by[d]))
      BY <3>1, PushesOwn
    <3> QED BY <1>2, <3>2
  <2> QED BY <2>1, <2>2
<1> QED BY <1>1, <1>2 DEF Later

\* What another thread does leaves a chunk and what it holds, or frees all.
LEMMA OthersHold ==
    ASSUME IInv, HoldsOK, NEW t \in Thread, Work(t), NEW x \in Id, x <= serial, by[x] # t
    PROVE  \/ holds'[x] = holds[x] /\ (x \in aligned' <=> x \in aligned)
              /\ (x \in list' <=> x \in list)
           \/ holds'[x] = {} /\ list' = {} /\ aligned' = {} /\ DoEOS(t)
<1> USE DEF chunks
<1>t. TypeOK /\ holds \in [Id -> SUBSET Id] /\ serial \in Nat /\ Id \subseteq Nat
  BY Types DEF IInv
<1>1. CASE Save(t)
  BY <1>t, <1>1, WorkFrame
<1>2. CASE SetAside(t)
  <2>1. agent[t] # x
    BY <1>t, <1>2, Types DEF SetAside, IInv, AgentOK
  <2> QED BY <1>2, <2>1 DEF SetAside
<1>3. CASE Merge(t)
  <2>1. CASE holds' = holds
    BY <1>3, <2>1 DEF Merge
  <2>2. CASE holds' # holds
    <3>1. /\ agent[t] \in list /\ pair[agent[t]] # None
          /\ holds' = [holds EXCEPT ![pair[agent[t]]] = @ \cup holds[agent[t]], ![agent[t]] = {}]
      BY <1>3, <2>2 DEF Merge
    <3>2. agent[t] \in Id /\ by[agent[t]] = t
      BY <1>t, <3>1, Types DEF IInv, AgentOK
    <3>3. pair[agent[t]] \in Id /\ by[pair[agent[t]]] = t
      BY <1>t, <3>1, <3>2, Types DEF IInv, PairOK
    <3>4. holds'[x] = holds[x]
      BY <1>t, <3>1, <3>2, <3>3
    <3> QED BY <1>3, <3>4 DEF Merge
  <2> QED BY <2>1, <2>2
<1>4. CASE UsePair(t) \/ UseOwn(t) \/ DropPair(t) \/ Drop(t)
  <2>1. at[t] \in {"use pair", "use", "drop pair", "drop"}
        /\ (at[t] \in {"use pair", "drop pair"} => pair[agent[t]] # None)
    BY <1>4 DEF UsePair, UseOwn, DropPair, Drop, IInv, PlaceOK
  <2>2. /\ agent[t] \in Id /\ agent[t] # x
        /\ at[t] \in {"use pair", "drop pair"} => pair[agent[t]] \in Id /\ pair[agent[t]] # x
    BY <2>1, UsesOwn DEF InList
  <2>3. CASE UsePair(t)
    BY <1>t, <2>2, <2>3 DEF UsePair, Use
  <2>4. CASE UseOwn(t)
    BY <1>t, <2>2, <2>4 DEF UseOwn, Use
  <2>5. CASE DropPair(t)
    BY <1>t, <2>2, <2>5 DEF DropPair, Remove
  <2>6. CASE Drop(t)
    BY <1>t, <2>2, <2>6 DEF Drop, Remove
  <2> QED BY <1>4, <2>3, <2>4, <2>5, <2>6
<1>5. CASE DoEOS(t)
  BY <1>5 DEF DoEOS, ClearList
<1>6. CASE ~(\/ Save(t) \/ SetAside(t) \/ Merge(t) \/ UsePair(t) \/ UseOwn(t) \/ DropPair(t)
             \/ Drop(t) \/ DoEOS(t))
  <2>1. UNCHANGED <<list, aligned, holds>>
    BY <1>6 DEF Work, InChunk, GetChunk, GetNothing, GetEnd, LeaveLoop, Notice,
       Begin, Sample, Put, UsePart, Downloaded, Complete, Ignore, Rest,
       ReportEnd, TestEnd
  <2> QED BY <2>1
<1> QED BY <1>1, <1>2, <1>3, <1>4, <1>5, <1>6

\* Nor does it push what another thread can.
LEMMA OthersKeep ==
    ASSUME IInv, HoldsOK, OrderInv, NEW t \in Thread, Work(t), NEW c \in Id, c <= serial,
           Later(c), by[c] # t
    PROVE  Later(c)' /\ by'[c] = by[c]
<1>1. TypeOK /\ by[c] \in Thread
  BY Types DEF IInv
<1>2. at'[by[c]] = at[by[c]]
  BY <1>1, OthersStay
<1>3. [Next]_vars
  BY DEF Next
<1>4. ~UsePair(by[c])
  BY <1>1, <1>2, Types DEF UsePair, Use, Goto
<1>5. ~UseOwn(by[c])
  BY <1>1, <1>2, Types DEF UseOwn, Use, Goto
<1> QED BY <1>3, <1>4, <1>5, LaterKept

LEMMA OthersPairable ==
    ASSUME IInv, HoldsOK, NEW t \in Thread, Work(t), NEW p \in Id, p <= serial, by[p] # t,
           Pairable(p)
    PROVE  Pairable(p)'
BY OthersHold DEF Pairable

LEMMA OthersLater ==
    ASSUME IInv, HoldsOK, OrderInv, NEW t \in Thread, NEW u \in Thread, u # t, Work(t)
    PROVE  LaterOK(u)'
<1>t. /\ TypeOK /\ AgentOK(u) /\ FoundOK(u) /\ PlaceOK(u) /\ PairOK /\ LaterOK(u)
      /\ holds \in [Id -> SUBSET Id] /\ list \subseteq Id
  BY Types DEF IInv, OrderInv
<1>o. PICK own : own = agent[u]
  OBVIOUS
<1>p. PICK p : p = pair[own]
  OBVIOUS
<1>f. PICK f : f = found[u]
  OBVIOUS
<1>1. at'[u] = at[u] /\ agent'[u] = own /\ found'[u] = f
  BY <1>t, <1>o, <1>f, OthersStay
<1>2. ASSUME own # None
      PROVE  /\ own \in Id /\ own <= serial /\ by[own] = u /\ pair'[own] = p
             /\ \A c \in holds[own] : Later(c) => Later(c)'
             /\ p # None => p \in Id /\ p <= serial /\ by[p] = u
             /\ p # None => \A c \in holds[p] : Later(c) => Later(c)'
  <2>1. own \in Id /\ own <= serial /\ by[own] = u
    BY <1>t, <1>o, <1>2, Types DEF AgentOK
  <2>2. pair'[own] = p
    BY <1>2, <1>t, <1>o, <1>p, PairStays DEF IInv
  <2>3. ASSUME NEW x \in Id, by[x] = u, NEW c \in holds[x], Later(c) PROVE Later(c)'
    <3>1. c \in Id /\ c <= serial /\ by[c] = u
      BY <1>t, <2>3 DEF HoldsOK
    <3> QED BY <2>3, <3>1, OthersKeep
  <2>4. ASSUME p # None PROVE p \in Id /\ p <= serial /\ by[p] = u
    BY <1>t, <1>p, <2>1, <2>4, Types DEF PairOK
  <2> QED BY <2>1, <2>2, <2>3, <2>4
<1>3. FoundLater(u)'
  <2>1. ASSUME f # None PROVE Pairable(f)'
    <3>1. f \in Id /\ f <= serial /\ by[f] = u
      BY <1>t, <1>f, <2>1, Types DEF FoundOK
    <3>2. Pairable(f)
      BY <1>t, <1>f, <2>1 DEF LaterOK, FoundLater
    <3> QED BY <3>1, <3>2, OthersPairable
  <2> QED BY <1>1, <2>1 DEF FoundLater, None, Pairable
<1>4. OwnLater(u)'
  <2>1. ASSUME at[u] \in Filling, own \in list'
        PROVE  /\ holds'[own] = {own} /\ own \notin aligned' /\ Later(own)'
               /\ p # None => Pairable(p)'
    <3>1. own # None
      <4>1. TypeOK'
        BY NextInv DEF IInv, Next
      <4> QED BY <2>1, <4>1 DEF TypeOK, ListType, None
    <3>2. /\ own \in list /\ holds'[own] = holds[own] /\ (own \in aligned' <=> own \in aligned)
      BY <1>2, <2>1, <3>1, OthersHold
    <3>3. /\ holds[own] = {own} /\ own \notin aligned /\ Later(own)
          /\ p # None => Pairable(p)
      BY <1>t, <1>o, <1>p, <2>1, <3>2 DEF LaterOK, OwnLater
    <3>4. Later(own)'
      BY <1>2, <3>1, <3>3, OthersKeep
    <3>5. p # None => Pairable(p)'
      BY <1>2, <3>1, <3>3, OthersPairable
    <3> QED BY <3>2, <3>3, <3>4, <3>5
  <2>2. at[u] \in Filling /\ own \in list' => own # None
    <3>1. TypeOK'
      BY NextInv DEF IInv, Next
    <3> QED BY <3>1 DEF TypeOK, ListType, None
  <2> QED BY <1>1, <1>2, <2>1, <2>2 DEF OwnLater, Later, Pairable, None, Filling
<1>7. PartLater(u)'
  <2>1. ASSUME at[u] \in {"put", "outgrown"} PROVE own # None /\ Later(own)'
    <3>1. own # None
      BY <1>t, <1>o, <2>1 DEF PlaceOK, InList
    <3>2. Later(own)
      BY <1>t, <1>o, <2>1 DEF LaterOK, PartLater
    <3> QED BY <1>2, <3>1, <3>2, OthersKeep
  <2> QED BY <1>1, <2>1 DEF PartLater, Later
<1>5. PairLater(u)'
  <2>1. ASSUME at[u] = "use pair"
        PROVE  own # None /\ p # None /\ holds'[own] = {} /\ \A c \in holds'[p] : Later(c)'
    <3>1. own # None /\ p # None
      BY <1>t, <1>o, <1>p, <2>1 DEF PlaceOK, InList
    <3>2. holds[own] = {} /\ \A c \in holds[p] : Later(c)
      BY <1>t, <1>o, <1>p, <2>1 DEF LaterOK, PairLater
    <3>3. holds'[p] \subseteq holds[p] /\ holds'[own] = {}
      BY <1>2, <3>1, <3>2, OthersHold
    <3> QED BY <1>2, <3>1, <3>2, <3>3
  <2> QED BY <1>1, <1>2, <2>1 DEF PairLater, Later
<1>6. UseLater(u)'
  <2>1. ASSUME at[u] = "use"
        PROVE  /\ own # None /\ \A c \in holds'[own] : Later(c)'
               /\ p # None => holds'[own] = {}
    <3>1. own # None
      BY <1>t, <1>o, <2>1 DEF PlaceOK, InList
    <3>2. (\A c \in holds[own] : Later(c)) /\ (p # None => holds[own] = {})
      BY <1>t, <1>o, <1>p, <2>1 DEF LaterOK, UseLater
    <3>3. holds'[own] \subseteq holds[own]
      BY <1>2, <3>1, OthersHold
    <3> QED BY <1>2, <3>1, <3>2, <3>3
  <2> QED BY <1>1, <1>2, <2>1 DEF UseLater, Later, None
<1> QED BY <1>3, <1>4, <1>5, <1>6, <1>7 DEF LaterOK

\* Its own step leaves a thread with nothing to push that is older than what is
\* pushed: a new chunk is later than all, and the pair is pushed before its chunk.
LEMMA SelfLater ==
    ASSUME IInv, HoldsOK, OrderInv, NEW t \in Thread, FreeOK(t), Work(t)
    PROVE  LaterOK(t)'
<1> USE DEF chunks, local, history
<1>t. /\ TypeOK /\ AgentOK(t) /\ FoundOK(t) /\ PlaceOK(t) /\ PairOK
      /\ LaterOK(t) /\ AsideHeld
      /\ holds \in [Id -> SUBSET Id] /\ list \subseteq Id /\ aligned \subseteq list
      /\ at \in [Thread -> Place] /\ None \notin list
      /\ agent \in [Thread -> 0 .. MaxChunk] /\ found \in [Thread -> 0 .. MaxChunk]
      /\ pair \in [Id -> 0 .. MaxChunk]
  BY Types DEF IInv, OrderInv
<1>u. PlaceOK(t)' /\ None \notin list'
  <2>1. IInv'
    BY NextInv DEF Next
  <2>2. TypeOK' /\ PlaceOK(t)'
    BY <2>1 DEF IInv
  <2>3. None \notin list'
    BY <2>2 DEF TypeOK, ListType, None
  <2> QED BY <2>2, <2>3
<1>o. PICK own : own = agent[t]
  OBVIOUS
<1>p. PICK p : p = pair[own]
  OBVIOUS
<1>1. FoundLater(t)'
  <2>1. CASE Begin(t)
    <3>1. aligned' = aligned /\ (found'[t] = found[t] \/ found'[t] \in FindBAChunk(t))
      BY <1>t, <2>1 DEF Begin
    <3>2. found[t] = None
      BY <1>t, <2>1 DEF PlaceOK, Begin
    <3>3. found'[t] \in aligned' \/ found'[t] = None
      BY <3>1, <3>2 DEF FindBAChunk
    <3> QED BY <3>3 DEF FoundLater, Pairable, None
  <2>2. CASE ~Begin(t)
    <3>1. at'[t] # "save"
      BY <1>t, <2>2, Arrives
    <3> QED BY <1>u, <3>1 DEF FoundLater, PlaceOK, None
  <2> QED BY <2>1, <2>2
<1>2. OwnLater(t)'
  <2>1. CASE Begin(t)
    <3>1. list' = list /\ (agent'[t] = own \/ agent'[t] = None)
      BY <1>t, <1>o, <2>1 DEF Begin
    <3>2. own \notin list
      BY <1>o, <2>1 DEF FreeOK, Between, Begin
    <3> QED BY <1>u, <3>1, <3>2 DEF OwnLater, None
  <2>2. CASE Save(t)
    <3>1. PICK f : f = found[t]
      OBVIOUS
    <3>2. PICK s : s = serial'
      OBVIOUS
    <3>3. /\ s = serial + 1 /\ s \in Id /\ serial \in Nat /\ Id \subseteq Nat
          /\ agent'[t] = s /\ pair'[s] = f /\ holds'[s] = {s} /\ aligned' = aligned
          /\ holds' = [holds EXCEPT ![s] = {s}] /\ fate' = fate
      BY <1>t, <2>2, <3>1, <3>2, WorkFrame, Types
    <3>4. s \notin aligned
      BY <1>t, <3>3, Types
    <3>5. Later(s)'
      BY <3>3 DEF Later, OrderInv
    <3>6. f # None => Pairable(f)'
      <4>1. f # None => f \in Id /\ f # s /\ Pairable(f)
        BY <1>t, <3>1, <3>3, Types DEF FoundOK, LaterOK, FoundLater
      <4> QED BY <1>t, <3>3, <4>1 DEF Pairable
    <3> QED BY <3>3, <3>4, <3>5, <3>6 DEF OwnLater, Later, Pairable, None
  <2>3. CASE Sample(t) \/ Put(t) \/ UsePart(t) \/ Downloaded(t)
             \/ (Complete(t) /\ at'[t] \in Filling)
    <3>1. at[t] \in Filling /\ UNCHANGED chunks /\ UNCHANGED fate
      BY <2>3 DEF Sample, Put, UsePart, Downloaded, Complete, Filling
    <3>2. agent'[t] = own
      <4>1. CASE Sample(t) \/ Put(t) \/ UsePart(t) \/ Downloaded(t)
        BY <1>o, <4>1 DEF Sample, Put, UsePart, Downloaded
      <4>2. CASE Complete(t) /\ at'[t] \in Filling
        <5>1. agent' = agent \/ at'[t] = "idle"
          BY <1>t, <4>2 DEF Complete, Goto
        <5> QED BY <1>o, <4>2, <5>1 DEF Filling
      <4> QED BY <2>3, <4>1, <4>2
    <3> QED BY <1>t, <1>o, <3>1, <3>2 DEF LaterOK, OwnLater, Later, Pairable, None, Filling
  <2> QED BY <1>t, <2>1, <2>2, <2>3, Arrives DEF OwnLater, Filling
<1>m. ASSUME Merge(t), own \in list
      PROVE  /\ own \in Id /\ holds[own] = {own} /\ Later(own) /\ agent'[t] = own
             /\ pair'[own] = p /\ UNCHANGED <<fate, by>>
             /\ p # None => Pairable(p) /\ p \in Id /\ p # own
  <2>1. at[t] \in Filling /\ agent'[t] = own /\ pair'[own] = p /\ UNCHANGED <<fate, by>>
    BY <1>o, <1>p, <1>m DEF Merge, Filling
  <2>2. own \in Id
    BY <1>t, <1>m
  <2>3. holds[own] = {own} /\ Later(own) /\ (p # None => Pairable(p))
    BY <1>t, <1>o, <1>p, <1>m, <2>1 DEF LaterOK, OwnLater
  <2>4. p # None => p \in Id /\ p # own
    BY <1>t, <1>p, <2>2, Types DEF PairOK
  <2> QED BY <2>1, <2>2, <2>3, <2>4
<1>5. PartLater(t)'
  <2> SUFFICES ASSUME at'[t] \in {"put", "outgrown"} PROVE Later(own)' /\ agent'[t] = own
    BY DEF PartLater, Later
  <2>1. Sample(t) \/ Put(t)
    BY <1>t, Arrives
  <2>2. agent'[t] = own /\ UNCHANGED <<by, fate>>
    BY <1>o, <2>1 DEF Sample, Put
  <2>3. at[t] = "put" \/ (at[t] = "load" /\ own \in list)
    BY <1>t, <1>o, <2>1 DEF Sample, Put, Goto
  <2>4. Later(own)
    BY <1>t, <1>o, <2>3 DEF LaterOK, PartLater, OwnLater, Filling
  <2> QED BY <2>2, <2>4 DEF Later
<1>3. PairLater(t)'
  <2> SUFFICES ASSUME at'[t] = "use pair" PROVE PairLater(t)'
    BY DEF PairLater
  <2>1. Merge(t)
    BY <1>t, Arrives
  <2>2. own \in list /\ p # None
        /\ holds' = [holds EXCEPT ![p] = @ \cup holds[own], ![own] = {}]
    BY <1>t, <1>o, <1>p, <2>1 DEF Merge, Goto
  <2>3. holds'[own] = {} /\ holds'[p] = holds[p] \cup {own}
    BY <1>t, <1>m, <2>1, <2>2
  <2>4. \A c \in holds[p] : Later(c)
    BY <1>m, <2>1, <2>2 DEF Pairable, OrderInv, AsideHeld
  <2>5. \A c \in holds'[p] : Later(c)'
    BY <1>m, <2>1, <2>2, <2>3, <2>4 DEF Later
  <2> QED BY <1>m, <2>1, <2>2, <2>3, <2>5 DEF PairLater, Later
<1>4. UseLater(t)'
  <2> SUFFICES ASSUME at'[t] = "use" PROVE UseLater(t)'
    BY DEF UseLater
  <2>1. CASE Merge(t)
    <3>1. own \in list /\ p = None /\ holds' = holds
      BY <1>t, <1>o, <1>p, <2>1 DEF Merge, Goto
    <3>2. \A c \in holds'[own] : Later(c)'
      BY <1>m, <2>1, <3>1 DEF Later
    <3> QED BY <1>m, <2>1, <3>1, <3>2 DEF UseLater, Later, None
  <2>2. CASE UsePair(t)
    <3>1. at[t] = "use pair" /\ agent'[t] = own
      BY <1>o, <2>2 DEF UsePair, Use
    <3>2. holds[own] = {}
      BY <1>t, <1>o, <3>1 DEF LaterOK, PairLater
    <3>3. own \in Id /\ p \in Id
      <4>1. at[t] \in InList
        BY <3>1 DEF InList
      <4>2. p # None
        BY <1>t, <1>o, <1>p, <3>1 DEF PlaceOK
      <4> QED BY <1>o, <1>p, <4>1, <4>2, UsesOwn
    <3>4. holds' = holds \/ holds' = [holds EXCEPT ![p] = {}]
      BY <1>o, <1>p, <2>2 DEF UsePair, Use
    <3>5. holds'[own] = {}
      BY <1>t, <3>2, <3>3, <3>4
    <3> QED BY <3>1, <3>5 DEF UseLater
  <2> QED BY <1>t, <2>1, <2>2, Arrives
<1> QED BY <1>1, <1>2, <1>3, <1>4, <1>5 DEF LaterOK

\* What was set aside keeps its mark and its samples until it is pushed or freed.
LEMMA AsideKeeps ==
    ASSUME IInv, HoldsOK, OrderInv, NEW t \in Thread, Work(t), NEW c \in Id, fate'[c] = "aside"
    PROVE  c \in aligned' /\ c \in holds'[c]
<1> USE DEF chunks, history
<1>t. /\ TypeOK /\ PairOK /\ PlaceOK(t) /\ LaterOK(t)
      /\ holds \in [Id -> SUBSET Id] /\ list \subseteq Id /\ aligned \subseteq list
      /\ fate \in [Id -> Fate] /\ serial \in Nat /\ list \subseteq 1 .. serial
      /\ pair \in [Id -> 0 .. MaxChunk]
  BY Types DEF IInv, OrderInv
<1>a. fate[c] = "aside" => c \in aligned /\ c \in holds[c]
  BY DEF OrderInv, AsideHeld
\* A chunk whose samples end is another one.
<1>b. ASSUME NEW x \in Id, NEW what, what # "aside", Became({x}, what),
             holds' = [holds EXCEPT ![x] = {}]
      PROVE  fate[c] = "aside" /\ c # x /\ c \in holds'[c]
  BY <1>t, <1>a, <1>b DEF Became
<1>1. CASE Save(t)
  <2>1. c # serial'
    BY <1>t, <1>1, <1>a, WorkFrame
  <2> QED BY <1>t, <1>1, <1>a, <2>1, WorkFrame
<1>o. PICK own : own = agent[t]
  OBVIOUS
<1>f. ASSUME at[t] = "end", own \in list PROVE holds[own] = {own} /\ own \notin aligned
  BY <1>t, <1>o, <1>f DEF LaterOK, OwnLater, Filling
<1>2. CASE SetAside(t)
  <2>1. CASE fate' = fate /\ aligned' = aligned
    BY <1>2, <1>a, <2>1 DEF SetAside
  <2>2. CASE ~(fate' = fate /\ aligned' = aligned)
    <3>1. /\ at[t] = "end" /\ own \in list /\ aligned' = aligned \cup {own}
          /\ fate' = [fate EXCEPT ![own] = "aside"] /\ holds' = holds
      BY <1>2, <1>o, <2>2 DEF SetAside
    <3> QED BY <1>t, <1>a, <1>f, <3>1
  <2> QED BY <2>1, <2>2
<1>3. CASE Merge(t)
  <2>1. at[t] = "end" /\ fate' = fate /\ aligned' = aligned
        /\ \/ holds' = holds
           \/ /\ own \in list
              /\ holds' = [holds EXCEPT ![pair[own]] = @ \cup holds[own], ![own] = {}]
    BY <1>3, <1>o DEF Merge
  <2> QED BY <1>t, <1>a, <1>f, <2>1
<1>4. CASE UsePair(t) \/ UseOwn(t) \/ DropPair(t) \/ Drop(t)
  <2>1. at[t] \in {"use pair", "use", "drop pair", "drop"}
    BY <1>4 DEF UsePair, UseOwn, DropPair, Drop
  <2>2. at[t] \in InList /\ (at[t] \in {"use pair", "drop pair"} => pair[own] # None)
    BY <1>t, <1>o, <2>1 DEF InList, PlaceOK
  <2>3. own \in Id /\ (at[t] \in {"use pair", "drop pair"} => pair[own] \in Id)
    BY <1>o, <2>2, UsesOwn
  <2>4. CASE UsePair(t) \/ UseOwn(t)
    <3>1. PICK x \in Id : /\ aligned' = aligned
                          /\ \/ UNCHANGED <<fate, holds>>
                             \/ Became({x}, "pushed") /\ holds' = [holds EXCEPT ![x] = {}]
      BY <1>o, <2>3, <2>4 DEF UsePair, UseOwn, Use
    <3> QED BY <1>a, <1>b, <3>1
  <2>5. CASE DropPair(t) \/ Drop(t)
    <3>1. PICK x \in Id : /\ aligned' = aligned \ {x}
                          /\ Became({x}, "dropped") /\ holds' = [holds EXCEPT ![x] = {}]
      BY <1>o, <2>3, <2>5 DEF DropPair, Drop, Remove
    <3> QED BY <1>a, <1>b, <3>1
  <2> QED BY <1>4, <2>4, <2>5
<1>5. ~DoEOS(t)
  BY <1>t, <1>a DEF DoEOS, ClearList, Became
<1>6. CASE ~(\/ Save(t) \/ SetAside(t) \/ Merge(t) \/ UsePair(t) \/ UseOwn(t) \/ DropPair(t)
             \/ Drop(t) \/ DoEOS(t))
  <2>1. UNCHANGED <<aligned, holds, fate>>
    BY <1>6 DEF Work, InChunk, GetChunk, GetNothing, GetEnd, LeaveLoop, Notice,
       Begin, Sample, Put, UsePart, Downloaded, Complete, Ignore, Rest,
       ReportEnd, TestEnd
  <2> QED BY <1>a, <2>1
<1> QED BY <1>1, <1>2, <1>3, <1>4, <1>5, <1>6

\* What it holds stays later than what is pushed: only it is pushed then, or the
\* chunk that was merged into it and holds nothing.
LEMMA HeldLater ==
    ASSUME IInv, AInv, HoldsOK, OrderInv, NEW t \in Thread, Work(t),
           NEW p \in aligned', NEW c \in holds'[p]
    PROVE  Later(c)'
<1> USE DEF chunks, history
<1>t. /\ TypeOK /\ PairOK /\ PlaceOK(t) /\ LaterOK(t) /\ AsideHeld
      /\ holds \in [Id -> SUBSET Id] /\ list \subseteq Id /\ aligned \subseteq list
      /\ fate \in [Id -> Fate] /\ serial \in Nat /\ list \subseteq 1 .. serial
      /\ pair \in [Id -> 0 .. MaxChunk] /\ at \in [Thread -> Place]
      /\ None \notin list
  BY Types DEF IInv, OrderInv
<1>n. [Next]_vars
  BY DEF Next
<1>h. ASSUME NEW q \in aligned, NEW d \in holds[q]
      PROVE  d \in Id /\ d <= serial /\ by[d] = "video" /\ Later(d)
  BY <1>t, <1>h DEF HoldsOK, PairOK, AsideHeld
\* A step that pushes nothing of the video thread and adds nothing
<1>k. ASSUME p \in aligned, c \in holds[p], ~UsePair("video"), ~UseOwn("video")
      PROVE  Later(c)'
  BY <1>n, <1>h, <1>k, LaterKept
<1>1. CASE t # "video"
  <2>1. p \in aligned
    BY <1>1, OthersSetNoneAside
  <2>2. p \in Id /\ p <= serial /\ by[p] # t
    BY <1>t, <1>1, <2>1, Types DEF PairOK
  <2>3. c \in holds[p]
    BY <2>1, <2>2, OthersHold
  <2> QED BY <1>1, <1>h, <2>1, <2>3, OthersKeep
<1>o. PICK own : own = agent[t]
  OBVIOUS
<1>f. ASSUME at[t] = "end", own \in list
      PROVE  holds[own] = {own} /\ own \notin aligned /\ Later(own)
  BY <1>t, <1>o, <1>f DEF LaterOK, OwnLater, Filling
<1>2. CASE SetAside(t)
  <2>1. holds' = holds /\ by' = by /\ at[t] = "end"
        /\ \/ fate' = fate /\ aligned' = aligned
           \/ /\ fate' = [fate EXCEPT ![own] = "aside"] /\ own \in list
              /\ aligned' = aligned \cup {own}
    BY <1>o, <1>2 DEF SetAside
  <2>2. Later(c)
    BY <1>f, <1>h, <2>1
  <2> QED BY <1>t, <2>1, <2>2 DEF Later
<1>3. CASE Merge(t)
  <2>1. at[t] = "end" /\ fate' = fate /\ by' = by /\ aligned' = aligned
        /\ \/ holds' = holds
           \/ /\ own \in list
              /\ holds' = [holds EXCEPT ![pair[own]] = @ \cup holds[own], ![own] = {}]
    BY <1>3, <1>o DEF Merge
  <2>2. c \in holds[p] \/ (own \in list /\ c = own)
    BY <1>t, <1>f, <2>1
  <2>3. Later(c)
    BY <1>f, <1>h, <2>1, <2>2
  <2> QED BY <2>1, <2>3 DEF Later
<1>4. CASE UsePair("video") \/ UseOwn("video")
  <2> DEFINE mine == agent["video"]
  <2>0. "video" \in Thread /\ PlaceOK("video") /\ LaterOK("video")
    BY Types DEF IInv, OrderInv
  <2>1. at["video"] \in {"use pair", "use"} /\ aligned' = aligned /\ by' = by
    BY <1>4 DEF UsePair, UseOwn, Use
  <2>2. at["video"] \in InList
    BY <2>1 DEF InList
  <2>3. pair[mine] = p /\ p # None /\ p \in Id
    BY <1>t, <2>1 DEF AInv, AsideOK, Paired
  <2>4. mine \in Id
    BY <2>0, <2>2, UsesOwn
  <2>5. holds[mine] = {}
    BY <2>0, <2>1, <2>3 DEF LaterOK, PairLater, UseLater
  <2>6. fate' = fate /\ c \in holds[p]
    <3>1. CASE UsePair("video")
      <4>1. \/ UNCHANGED <<fate, holds>>
            \/ holds' = [holds EXCEPT ![p] = {}]
        BY <2>3, <3>1 DEF UsePair, Use
      <4> QED BY <1>t, <2>3, <4>1
    <3>2. CASE UseOwn("video")
      <4>1. \/ UNCHANGED <<fate, holds>>
            \/ Became({mine}, "pushed") /\ holds' = [holds EXCEPT ![mine] = {}]
        BY <3>2 DEF UseOwn, Use
      <4>2. Became({mine}, "pushed") => fate' = fate
        BY <1>t, <2>5 DEF Became
      <4> QED BY <1>t, <2>3, <2>4, <2>5, <4>1, <4>2
    <3> QED BY <1>4, <3>1, <3>2
  <2>7. Later(c)
    BY <1>h, <2>1, <2>6
  <2> QED BY <2>1, <2>6, <2>7 DEF Later
<1>5. CASE /\ t = "video" /\ ~SetAside(t) /\ ~Merge(t) /\ ~UsePair("video") /\ ~UseOwn("video")
  <2>1. p \in aligned /\ c \in holds[p]
    <3>1. CASE Save(t)
      <4>1. p \in aligned /\ p # serial'
        BY <1>t, <3>1, WorkFrame
      <4> QED BY <1>t, <3>1, <4>1, WorkFrame
    <3>2. CASE DropPair(t) \/ Drop(t) \/ DoEOS(t)
      BY <1>t, <3>2 DEF DropPair, Drop, Remove, DoEOS, ClearList
    <3>3. CASE ~Save(t) /\ ~(DropPair(t) \/ Drop(t) \/ DoEOS(t))
      <4>1. UNCHANGED <<aligned, holds>>
        BY <1>5, <3>3 DEF Work, InChunk, GetChunk, GetNothing, GetEnd,
           LeaveLoop, Notice, Begin, Sample, Put, UsePart, Downloaded, Complete,
           Ignore, Rest, ReportEnd, TestEnd
      <4> QED BY <4>1
    <3> QED BY <3>1, <3>2, <3>3
  <2> QED BY <1>5, <1>k, <2>1
<1> QED BY <1>1, <1>2, <1>3, <1>4, <1>5

\* The controller frees what was set aside with the rest of the list.
LEMMA ControllerOrder ==
    ASSUME IInv, HoldsOK, OrderInv, Controller \/ UNCHANGED vars
    PROVE  AsideHeld' /\ \A u \in Thread : LaterOK(u)'
<1> USE DEF chunks, history
<1>t. /\ TypeOK /\ AsideHeld /\ (\A u \in Thread : LaterOK(u)) /\ aligned \subseteq list
      /\ list \subseteq Id /\ fate \in [Id -> Fate]
  BY Types DEF IInv, OrderInv
<1>1. CASE /\ UNCHANGED <<by, serial, pair, found>>
           /\ UNCHANGED <<list, aligned, holds, fate, at, agent>>
  <2>1. AsideHeld'
    BY <1>t, <1>1 DEF AsideHeld, Later
  <2>2. ASSUME NEW u \in Thread PROVE LaterOK(u)'
    <3>1. LaterOK(u)
      BY <1>t
    <3> QED BY <1>1, <3>1 DEF LaterOK, FoundLater, OwnLater, PartLater, PairLater,
            UseLater, Later, Pairable, None, Filling
  <2> QED BY <2>1, <2>2
<1>2. CASE list' = {} /\ aligned' = {} /\ \A u \in Thread : at'[u] \in {"gone", "idle"}
  <2>1. ASSUME NEW c \in Id, fate'[c] = "aside" PROVE FALSE
    <3>1. CASE Flush
      <4>1. Became(list, "dropped")
        BY <3>1 DEF Flush, ClearList
      <4>2. fate[c] = "aside" /\ \A x \in list : c \notin holds[x]
        BY <1>t, <2>1, <4>1 DEF Became
      <4> QED BY <1>t, <4>2 DEF AsideHeld
    <3>2. CASE ~Flush
      <4>1. UNCHANGED <<fate, aligned>>
        BY <3>2 DEF Controller, vars, Seek, SetStop, CloseCache, Halt, Resume,
           Unblock, ChangeBitrateWhenError, ParserFails, Reopen
      <4> QED BY <1>t, <1>2, <2>1, <4>1 DEF AsideHeld
    <3> QED BY <3>1, <3>2
  <2>2. AsideHeld'
    BY <1>2, <2>1 DEF AsideHeld
  <2>3. ASSUME NEW u \in Thread PROVE LaterOK(u)'
    <3>1. at'[u] \in {"gone", "idle"}
      BY <1>2
    <3>2. PlaceOK(u)'
      BY NextInv DEF IInv, Next
    <3>3. found'[u] = None
      BY <3>1, <3>2 DEF PlaceOK, None
    <3> QED BY <3>1, <3>3 DEF LaterOK, FoundLater, OwnLater, PartLater, PairLater,
            UseLater, None, Filling
  <2> QED BY <2>2, <2>3
<1> QED BY <1>1, <1>2, ControllerFrame

LEMMA OrderCorrect == Spec => []OrderInv
<1>1. Init => OrderInv
  <2> SUFFICES ASSUME Init PROVE OrderInv
    OBVIOUS
  <2>1. (\A c \in Id : fate[c] = "open") /\ aligned = {}
    BY DEF Init
  <2>2. ASSUME NEW t \in Thread PROVE LaterOK(t)
    <3>1. at[t] = "idle" /\ found[t] = None
      BY <2>2 DEF Init
    <3> QED BY <3>1 DEF LaterOK, FoundLater, OwnLater, PartLater, PairLater, UseLater, Filling
  <2> QED BY <2>1, <2>2 DEF OrderInv, AsideHeld
<1>2. IInv /\ AInv /\ HoldsOK /\ LeftInv /\ OrderInv /\ [Next]_vars => OrderInv'
  <2> SUFFICES ASSUME IInv, AInv, HoldsOK, LeftInv, OrderInv, [Next]_vars PROVE OrderInv'
    OBVIOUS
  <2>1. \A c \in Id : fate'[c] # "open" => c <= serial'
    BY BegunStep DEF OrderInv
  <2>2. ASSUME NEW t \in Thread, Work(t)
        PROVE  AsideHeld' /\ \A u \in Thread : LaterOK(u)'
    <3>1. AsideHeld'
      BY <2>2, AsideKeeps, HeldLater DEF AsideHeld
    <3>2. FreeOK(t)
      BY DEF LeftInv
    <3>3. LaterOK(t)'
      BY <2>2, <3>2, SelfLater
    <3>4. ASSUME NEW u \in Thread, u # t PROVE LaterOK(u)'
      BY <2>2, <3>4, OthersLater
    <3> QED BY <3>1, <3>3, <3>4
  <2>3. Controller \/ UNCHANGED vars => AsideHeld' /\ \A u \in Thread : LaterOK(u)'
    BY ControllerOrder
  <2> QED BY <2>1, <2>2, <2>3 DEF OrderInv, Next
<1> QED BY <1>1, <1>2, InvCorrect, AsideCorrect, OverCorrect, LeftCorrect, PTL DEF Spec

\* A thread's step: what leaves a chunk is pushed or dropped, or goes to its pair.
LEMMA OpenWork ==
    ASSUME IInv, AInv, HoldsOK, OrderInv, ~stale, OpenOK, NEW t \in Thread, Work(t)
    PROVE  OpenOK'
<1> USE DEF chunks, history
<1>t. /\ TypeOK /\ PairOK /\ PlaceOK(t) /\ LaterOK(t) /\ ResultOK(t)
      /\ holds \in [Id -> SUBSET Id] /\ list \subseteq Id /\ aligned \subseteq list
      /\ fate \in [Id -> Fate] /\ serial \in Nat /\ list \subseteq 1 .. serial
      /\ pair \in [Id -> 0 .. MaxChunk] /\ at \in [Thread -> Place]
      /\ None \notin list /\ Id \subseteq Nat /\ "video" \in Thread
  BY Types DEF IInv, OrderInv
<1> SUFFICES ASSUME NEW d \in Id, d <= serial', fate'[d] = "open" PROVE Held(d)'
  BY DEF OpenOK
<1>o. PICK own : own = agent[t]
  OBVIOUS
<1>m. t # "video" => (Merged' <=> Merged)
  BY <1>t, OthersStay DEF Merged
<1>h. ASSUME d <= serial, fate[d] = "open"
      PROVE  \E x \in list : d \in holds[x] /\ (x \in aligned => Merged) /\ x \in Id
  BY <1>t, <1>h DEF OpenOK, Held
\* A chunk whose samples end is another one.
<1>b. ASSUME NEW y \in Id, NEW what, what # "open", Became({y}, what)
      PROVE  fate[d] = "open" /\ d \notin holds[y]
  BY <1>t, <1>b DEF Became
\* A step that changes none of it
<1>s. ASSUME UNCHANGED <<list, aligned, holds, fate, serial>>,
             t = "video" => ~Merged
      PROVE  Held(d)'
  BY <1>h, <1>m, <1>s DEF Held
<1>f. ASSUME at[t] = "end", own \in list PROVE holds[own] = {own}
  BY <1>t, <1>o, <1>f DEF LaterOK, OwnLater, Filling
<1>1. CASE Save(t)
  <2>1. /\ serial' = serial + 1 /\ serial' \in Id /\ list' = list \cup {serial'}
        /\ aligned' = aligned /\ holds' = [holds EXCEPT ![serial'] = {serial'}]
        /\ fate' = fate
    BY <1>t, <1>1, WorkFrame
  <2>2. serial' \notin aligned'
    BY <1>t, <2>1
  <2>3. t = "video" => ~Merged
    BY <1>1 DEF Save, Merged
  <2>4. CASE d = serial'
    BY <1>t, <2>1, <2>2, <2>4 DEF Held
  <2>5. CASE d # serial'
    <3>1. d <= serial /\ fate[d] = "open"
      BY <1>t, <2>1, <2>5
    <3>2. PICK x \in list : d \in holds[x] /\ (x \in aligned => Merged) /\ x \in Id
      BY <1>h, <3>1
    <3>3. x \in list' /\ holds'[x] = holds[x]
      BY <1>t, <2>1, <3>2
    <3> QED BY <1>m, <2>1, <2>3, <3>2, <3>3 DEF Held
  <2> QED BY <2>4, <2>5
<1>2. CASE SetAside(t)
  <2>1. t = "video" /\ at[t] = "end" /\ serial' = serial /\ list' = list /\ holds' = holds
    BY <1>t, <1>2 DEF SetAside, ResultOK
  <2>2. ~Merged
    BY <2>1 DEF Merged
  <2>3. CASE fate' = fate /\ aligned' = aligned
    BY <1>s, <2>1, <2>2, <2>3
  <2>4. CASE ~(fate' = fate /\ aligned' = aligned)
    <3>1. own \in list /\ aligned' = aligned \cup {own} /\ fate' = [fate EXCEPT ![own] = "aside"]
      BY <1>2, <1>o, <2>4 DEF SetAside
    <3>2. d # own /\ fate[d] = "open"
      BY <1>t, <3>1
    <3>3. PICK x \in list : d \in holds[x] /\ (x \in aligned => Merged)
      BY <1>h, <2>1, <3>2
    <3>4. x # own
      BY <1>f, <2>1, <3>1, <3>2, <3>3
    <3> QED BY <2>1, <2>2, <3>1, <3>3, <3>4 DEF Held
  <2> QED BY <2>3, <2>4
<1>3. CASE Merge(t)
  <2>1. at[t] = "end" /\ UNCHANGED <<list, aligned, serial, fate>>
    BY <1>3 DEF Merge
  <2>2. CASE holds' = holds
    BY <1>s, <2>1, <2>2 DEF Merged
  <2>3. CASE holds' # holds
    <3>1. /\ own \in list /\ pair[own] # None /\ at' = [at EXCEPT ![t] = "use pair"]
          /\ holds' = [holds EXCEPT ![pair[own]] = @ \cup holds[own], ![own] = {}]
      BY <1>3, <1>o, <2>3 DEF Merge, Goto
    <3>2. by[own] = t
      BY <1>t, <1>o, <3>1 DEF IInv, AgentOK
    <3>3. own \in Id /\ pair[own] \in Id /\ pair[own] # own /\ t = "video"
      <4>1. own \in Id
        BY <1>t, <3>1
      <4>2. t = "video" /\ pair[own] < own
        BY <1>t, <3>1, <3>2, <4>1 DEF PairOK
      <4>3. pair[own] \in Id
        <5>1. pair[own] \in 0 .. MaxChunk /\ pair[own] # 0
          BY <1>t, <3>1, <4>1 DEF None
        <5> QED BY <5>1, DownloadBufferAssumption DEF Id
      <4>4. pair[own] # own
        BY <1>t, <4>1, <4>2, <4>3
      <4> QED BY <4>1, <4>2, <4>3, <4>4
    <3>4. pair[own] \in list
      BY <1>o, <2>1, <3>1, <3>3 DEF IInv, LiveOK, WithPair
    <3>5. Merged'
      BY <1>t, <3>1, <3>3 DEF Merged
    <3>6. PICK x \in list : d \in holds[x] /\ x \in Id
      BY <1>h, <2>1
    <3>7. CASE x = own
      <4>1. d \in holds'[pair[own]]
        BY <1>t, <3>1, <3>3, <3>6, <3>7
      <4> QED BY <2>1, <3>4, <3>5, <4>1 DEF Held
    <3>8. CASE x # own
      <4>1. d \in holds'[x]
        BY <1>t, <3>1, <3>3, <3>6, <3>8
      <4> QED BY <2>1, <3>5, <3>6, <4>1 DEF Held
    <3> QED BY <3>7, <3>8
  <2> QED BY <2>2, <2>3
<1>4. CASE UsePair(t) \/ UseOwn(t) \/ DropPair(t) \/ Drop(t)
  <2>1. at[t] \in {"use pair", "use", "drop pair", "drop"}
    BY <1>4 DEF UsePair, UseOwn, DropPair, Drop
  <2>2. at[t] \in InList /\ (at[t] \in {"use pair", "drop pair"} => pair[own] # None)
    BY <1>t, <1>o, <2>1 DEF InList, PlaceOK
  <2>3. /\ own \in Id /\ by[own] = t
        /\ pair[own] # None => t = "video" /\ pair[own] \in Id
    BY <1>o, <2>2, UsesOwn
  <2>4. ASSUME NEW x \in aligned, t = "video", at[t] \in {"use pair", "use", "drop pair"}
        PROVE  pair[own] = x
    BY <1>o, <2>4 DEF AInv, AsideOK, Paired
  <2>5. CASE UsePair(t)
    <3>1. /\ UNCHANGED <<list, aligned, serial>> /\ at' = [at EXCEPT ![t] = "use"]
          /\ \/ UNCHANGED <<fate, holds>>
             \/ /\ Became({pair[own]}, "pushed")
                /\ holds' = [holds EXCEPT ![pair[own]] = {}]
      BY <1>o, <2>5 DEF UsePair, Use, Goto
    <3>2. t = "video" /\ pair[own] \in Id
      BY <2>2, <2>3, <2>5 DEF UsePair
    <3>3. Merged'
      BY <1>t, <3>1, <3>2 DEF Merged
    <3>4. fate[d] = "open"
      BY <1>b, <3>1, <3>2
    <3>5. PICK x \in list : d \in holds[x] /\ x \in Id
      BY <1>h, <3>1, <3>4
    <3>6. d \in holds'[x]
      BY <1>t, <1>b, <3>1, <3>2, <3>5
    <3> QED BY <3>1, <3>3, <3>5, <3>6 DEF Held
  <2>6. CASE UseOwn(t)
    <3>1. /\ UNCHANGED <<list, aligned, serial>> /\ at[t] = "use"
          /\ at' = [at EXCEPT ![t] = IF pair[own] = None THEN "drop" ELSE "drop pair"]
          /\ \/ UNCHANGED <<fate, holds>>
             \/ /\ Became({own}, "pushed")
                /\ holds' = [holds EXCEPT ![own] = {}]
      BY <1>o, <2>6 DEF UseOwn, Use, Goto
    <3>2. fate[d] = "open"
      BY <1>b, <2>3, <3>1
    <3>3. PICK x \in list : d \in holds[x] /\ (x \in aligned => Merged) /\ x \in Id
      BY <1>h, <3>1, <3>2
    <3>4. d \in holds'[x]
      BY <1>t, <1>b, <2>3, <3>1, <3>3
    <3>5. x \in aligned => Merged'
      <4>1. CASE t # "video"
        BY <1>m, <3>3, <4>1
      <4>2. CASE t = "video" /\ x \in aligned
        <5>1. pair[own] # None
          BY <1>t, <2>4, <3>1, <4>2
        <5>2. at'[t] = "drop pair"
          BY <1>t, <3>1, <5>1
        <5> QED BY <4>2, <5>2 DEF Merged
      <4> QED BY <4>1, <4>2
    <3> QED BY <3>1, <3>3, <3>4, <3>5 DEF Held
  <2>7. CASE DropPair(t)
    <3>1. /\ list' = list \ {pair[own]} /\ aligned' = aligned \ {pair[own]}
          /\ serial' = serial /\ at[t] = "drop pair"
          /\ Became({pair[own]}, "dropped") /\ holds' = [holds EXCEPT ![pair[own]] = {}]
      BY <1>o, <2>7 DEF DropPair, Remove
    <3>2. t = "video" /\ pair[own] \in Id
      BY <2>2, <2>3, <3>1
    <3>3. fate[d] = "open" /\ d \notin holds[pair[own]]
      BY <1>b, <3>1, <3>2
    <3>4. PICK x \in list : d \in holds[x] /\ x \in Id
      BY <1>h, <3>1, <3>3
    <3>5. x \in list' /\ d \in holds'[x]
      BY <1>t, <3>1, <3>3, <3>4
    <3>6. x \notin aligned'
      BY <2>4, <3>1, <3>2
    <3> QED BY <3>5, <3>6 DEF Held
  <2>8. CASE Drop(t)
    <3>1. /\ list' = list \ {own} /\ aligned' = aligned \ {own}
          /\ serial' = serial /\ at[t] = "drop"
          /\ Became({own}, "dropped") /\ holds' = [holds EXCEPT ![own] = {}]
      BY <1>o, <2>8 DEF Drop, Remove
    <3>2. fate[d] = "open" /\ d \notin holds[own]
      BY <1>b, <2>3, <3>1
    <3>3. PICK x \in list : d \in holds[x] /\ (x \in aligned => Merged) /\ x \in Id
      BY <1>h, <3>1, <3>2
    <3>4. x \in list' /\ d \in holds'[x]
      BY <1>t, <3>1, <3>2, <3>3
    <3>5. x \in aligned' => Merged'
      <4>1. t = "video" => ~Merged
        BY <3>1 DEF Merged
      <4> QED BY <1>m, <3>1, <3>3, <4>1
    <3> QED BY <3>4, <3>5 DEF Held
  <2> QED BY <1>4, <2>5, <2>6, <2>7, <2>8
<1>5. CASE DoEOS(t)
  <2>1. Became(list, "lost") /\ serial' = serial
    BY <1>5 DEF DoEOS, ClearList
  <2>2. fate[d] = "open" /\ \A x \in list : d \notin holds[x]
    BY <1>t, <2>1 DEF Became
  <2> QED BY <1>h, <2>1, <2>2
<1>6. CASE ~(\/ Save(t) \/ SetAside(t) \/ Merge(t) \/ UsePair(t) \/ UseOwn(t) \/ DropPair(t)
             \/ Drop(t) \/ DoEOS(t))
  <2>1. UNCHANGED <<list, aligned, holds, fate, serial>>
        /\ at[t] \notin {"use pair", "use", "drop pair"}
    BY <1>6 DEF Work, InChunk, GetChunk, GetNothing, GetEnd, LeaveLoop, Notice,
       Begin, Sample, Put, UsePart, Downloaded, Complete, Ignore, Rest,
       ReportEnd, TestEnd
  <2> QED BY <1>s, <2>1 DEF Merged
<1> QED BY <1>1, <1>2, <1>3, <1>4, <1>5, <1>6

LEMMA OpenCorrect == Spec => [](~stale => OpenOK)
<1>1. Init => OpenOK
  BY DEF Init, OpenOK, Id
<1>2. /\ IInv /\ AInv /\ HoldsOK /\ OrderInv /\ (~stale => OpenOK) /\ [Next]_vars
      => (~stale => OpenOK)'
  <2> SUFFICES ASSUME IInv, AInv, HoldsOK, OrderInv, ~stale => OpenOK, [Next]_vars, ~stale'
               PROVE  OpenOK'
    OBVIOUS
  <2>1. ~stale /\ OpenOK
    BY StaleStays
  <2>t. TypeOK /\ fate \in [Id -> Fate] /\ list \subseteq Id
    BY Types DEF IInv
  <2>2. ASSUME NEW t \in Thread, Work(t) PROVE OpenOK'
    BY <2>1, <2>2, OpenWork
  <2>3. CASE Flush
    <3>1. Became(list, "dropped") /\ serial' = serial
      BY <2>3 DEF Flush, ClearList
    <3>2. ASSUME NEW d \in Id, fate'[d] = "open"
          PROVE  fate[d] = "open" /\ \A x \in list : d \notin holds[x]
      BY <2>t, <3>1, <3>2 DEF Became
    <3> QED BY <2>1, <3>1, <3>2 DEF OpenOK, Held
  <2>4. ASSUME (Controller /\ ~Flush) \/ UNCHANGED vars PROVE OpenOK'
    <3>1. UNCHANGED <<list, aligned, holds, fate, serial>>
      BY <2>4 DEF Controller, vars, chunks, history, Seek, SetStop, CloseCache,
         Halt, Resume, Unblock, ChangeBitrateWhenError, ParserFails, Reopen
    <3>2. at' = at \/ list = {}
      <4>1. CASE Resume \/ Reopen
        <5>1. ctl \in {"parse", "stopped"}
          BY <4>1 DEF Resume, Reopen
        <5> QED BY <5>1 DEF IInv, FlushOK
      <4>2. CASE ~(Resume \/ Reopen)
        BY <2>4, <4>2 DEF Controller, vars, Seek, SetStop, CloseCache, Halt,
           Unblock, ChangeBitrateWhenError, ParserFails
      <4> QED BY <4>1, <4>2
    <3> QED BY <2>1, <3>1, <3>2 DEF OpenOK, Held, Merged
  <2> QED BY <2>2, <2>3, <2>4 DEF Next
<1> QED BY <1>1, <1>2, InvCorrect, AsideCorrect, OverCorrect, OrderCorrect, PTL DEF Spec

\* What a chunk has at its end
LEMMA PushedOrder ==
    ASSUME IInv, AInv, HoldsOK, OrderInv, [Next]_vars,
           NEW c \in Id, NEW d \in Id, Pushed(c), by[d] = by[c]
    PROVE  /\ fate[d] = "aside" => Pushed(d)
           /\ d > c => fate[d] # "pushed"
<1>t. Id \subseteq Nat /\ fate \in [Id -> Fate] /\ "video" \in Thread
  BY Types DEF IInv
<1> DEFINE t == by[c]
<1> DEFINE x == IF at[t] = "use pair" THEN pair[agent[t]] ELSE agent[t]
<1>1. t \in Thread /\ (UsePair(t) \/ UseOwn(t)) /\ c \in holds[x]
  BY PushesOwn
<1>2. LaterOK(t) /\ (at[t] = "use pair" \/ at[t] = "use")
  BY <1>1 DEF OrderInv, UsePair, UseOwn
<1>3. Later(c)
  BY <1>1, <1>2 DEF LaterOK, PairLater, UseLater
<1>4. ASSUME fate[d] = "aside" PROVE Pushed(d)
  <2>1. d \in aligned /\ d \in holds[d] /\ t = "video"
    BY <1>4 DEF OrderInv, AsideHeld, IInv, PairOK
  <2>2. pair[agent[t]] = d /\ d # None
    <3>1. AsideOK(d)
      BY <2>1 DEF AInv
    <3>2. None \notin aligned
      BY Types DEF IInv
    <3> QED BY <1>2, <2>1, <3>1, <3>2 DEF AsideOK, Paired
  <2>3. at[t] = "use pair"
    BY <1>1, <1>2, <2>2 DEF LaterOK, UseLater
  <2>4. Became({d}, "pushed") \/ UNCHANGED fate
    BY <1>1, <2>2, <2>3 DEF UsePair, UseOwn, Use
  <2>5. Became({d}, "pushed")
    BY <2>4 DEF Pushed
  <2> QED BY <1>4, <2>1, <2>5 DEF Became, Pushed
<1>5. d > c => fate[d] # "pushed"
  BY <1>t, <1>3 DEF Later
<1> QED BY <1>4, <1>5

\* What a chunk has when it has outgrown its capacity: whatever its thread began
\* before is pushed or freed, but for the pair.
LEMMA PartOrder ==
    ASSUME IInv, AInv, HoldsOK, LeftInv, OrderInv, ~stale => OpenOK,
           NEW c \in Id, NEW d \in Id, PartPushed(c), by[d] = by[c]
    PROVE  /\ (~stale /\ d < c /\ fate[d] \in {"open", "aside"}) => d = pair[c] /\ ~single
           /\ d > c => fate[d] # "pushed"
<1>1. PICK t \in Thread : at[t] = "outgrown" /\ agent[t] = c
  BY DEF PartPushed
<1>t. /\ TypeOK /\ Id \subseteq Nat /\ fate \in [Id -> Fate] /\ list \subseteq Id
      /\ serial \in Nat /\ None = 0 /\ Id = 1 .. MaxChunk /\ MaxChunk \in Nat
      /\ PairOK /\ AgentOK(t) /\ OwnedOK(t) /\ LaterOK(t)
  BY Types DEF IInv, LeftInv, OrderInv
<1>2. by[c] = t /\ c <= serial
  BY <1>1, <1>t DEF AgentOK
<1>3. d > c => fate[d] # "pushed"
  <2>1. Later(c)
    BY <1>1, <1>t DEF LaterOK, PartLater
  <2> QED BY <1>t, <2>1 DEF Later
<1>4. ASSUME fate[d] = "aside" PROVE d = pair[c] /\ ~single
  <2>1. d \in aligned /\ by[d] = "video"
    BY <1>t, <1>4 DEF OrderInv, AsideHeld, PairOK
  <2>2. AsideOK(d) /\ at["video"] = "outgrown" /\ agent["video"] = c
    BY <1>1, <1>2, <2>1 DEF AInv
  <2> QED BY <2>1, <2>2 DEF AInv, AsideOK, Paired
<1>5. ASSUME ~stale, d < c, fate[d] = "open" PROVE FALSE
  <2>1. d <= serial
    BY <1>2, <1>5, <1>t
  <2>2. Held(d)
    BY <1>5, <2>1 DEF OpenOK
  <2>3. PICK x \in list : d \in holds[x] /\ (x \in aligned => Merged)
    BY <2>2 DEF Held
  <2>4. by[x] = t
    BY <1>2, <1>t, <2>3 DEF HoldsOK
  <2>5. x \notin aligned
    BY <1>1, <1>t, <2>3, <2>4 DEF PairOK, Merged
  <2>6. x = c
    BY <1>1, <1>t, <2>4, <2>5 DEF OwnedOK, Hears, Begun
  <2>7. holds[c] = {c}
    BY <1>1, <1>t, <2>6 DEF LaterOK, OwnLater, Filling
  <2> QED BY <1>5, <1>t, <2>3, <2>6, <2>7
<1> QED BY <1>3, <1>4, <1>5

\* A chunk that was set aside is pushed with the next one of the video thread at
\* the latest, and nothing of a thread is pushed behind a later chunk of it:
\* ChunkAgentUninit uses the pair before the chunk, once they are merged.  The
\* part of a chunk that putSample pushes when the list is full comes after all
\* its thread has begun before, but for that pair; with one stream there is none.
THEOREM PushedInOrder == Spec => InOrder
<1> DEFINE Ordered == \A c \in Id :
          /\ Pushed(c) => \A d \in Id : by[d] = by[c] =>
                /\ (d < c /\ fate[d] = "aside") => Pushed(d)
                /\ d > c => fate[d] # "pushed"
          /\ PartPushed(c) => \A d \in Id : by[d] = by[c] =>
                /\ (~stale /\ d < c /\ fate[d] \in {"open", "aside"})
                        => d = pair[c] /\ ~single
                /\ d > c => fate[d] # "pushed"
<1>1. /\ IInv /\ AInv /\ HoldsOK /\ LeftInv /\ OrderInv /\ (~stale => OpenOK) /\ [Next]_vars
      => [Ordered]_vars
  BY PushedOrder, PartOrder
<1> QED BY <1>1, InvCorrect, AsideCorrect, OverCorrect, LeftCorrect, OrderCorrect,
           OpenCorrect, PTL DEF Spec, InOrder

=============================================================================
