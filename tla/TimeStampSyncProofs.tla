------------------------ MODULE TimeStampSyncProofs ------------------------
(***************************************************************************)
(* What TLAPS proves about TimeStampSync, for all durations, steps and     *)
(* positions that the assumptions admit, however often the threads are     *)
(* started and chunks are dropped.                                         *)
(*                                                                         *)
(* That the threads do not hold each other rests on one fact about one     *)
(* thread: the time it waits for is not after the time it has announced    *)
(* of its own track.  WaitOK says so; the rest of the invariant says how  *)
(* the two gaps of a call relate to the time of its sample, although the   *)
(* lead may have changed between the reads.                                *)
(*                                                                         *)
(* That no track runs ahead rests on SkewInv: the object has the times     *)
(* last announced, and a sample is let through, by Test or by Leave, only  *)
(* a lead ahead of those.  That a thread with both tracks does not wait    *)
(* for itself rests on AloneInv: a track that has begun is known as its    *)
(* own, and one that has not is where the start put it, near the sample.   *)
(***************************************************************************)
EXTENDS TimeStampSync, TLAPS

InCheckAndWait == At \ {"new", "idle", "raise", "quit", "disable", "ended"}

\* A thread is in CheckAndWait with a sample of a track it delivers.
OwnOK(t) == pc[t] \in InCheckAndWait => owner[call[t].track] = t

\* The lead is that of a chunk wherever it is read.
LeadOK(t) ==
    \/ lead \in Leads
    \/ pc[t] \in {"new", "hide", "gone", "quit", "disable", "ended"}
    \/ pc[t] \in {"reset", "carry", "clear"} /\ call[t].kind = "unavailable"

\* A sample of a chunk is a step after the one before it, or not after it.
Stepped(t) ==
    LET k == call[t].track
    IN  \/ call[t].time <= published[k]
        \/ \E s \in Step : call[t].time = published[k] + s

StepOK(t) ==
    \/ pc[t] \in {"reset", "carry", "clear"} /\ call[t].kind # "unavailable"
    \/ pc[t] \in {"far", "far2", "near", "near2", "test", "announce"}
    => Stepped(t)

\* uGap is zero or a lead before the time, perhaps wrapped round.
FarOK(t) ==
    \/ far[t] = 0 /\ \E l \in Leads : call[t].time <= l
    \/ /\ \E l \in Leads : far[t] = Minus(call[t].time, l)
       /\ \E l \in Leads : call[t].time > l

\* uGap2 is zero or half a lead before the time; it can be wrapped round
\* only with a time that no thread waits at.
NearOK(t) ==
    \/ near[t] = 0
    \/ \E l \in Leads : near[t] + (l \div 2) = call[t].time
    \/ far[t] = 0

GapOK(t) ==
    /\ pc[t] = "far2" => \E l \in Leads : call[t].time > l
    /\ pc[t] \in {"near", "near2", "test", "announce"} => FarOK(t)
    /\ pc[t] \in {"test", "announce"} => NearOK(t)
    /\ pc[t] = "announce" /\ must[t] => far[t] > 0
    /\ pc[t] = "wait" => near[t] <= call[t].time

\* An undisturbed thread waits for a time that its own track has reached.
WaitOK(t) ==
    LET k == call[t].track
    IN  k \notin disturbed =>
            /\ pc[t] = "announce" => last[k] \in {published[k], NotAvailable}
            /\ pc[t] = "wait" => near[t] <= last[k]

ThreadOK(t) == OwnOK(t) /\ LeadOK(t) /\ StepOK(t) /\ GapOK(t) /\ WaitOK(t)
IInv == TypeOK /\ \A t \in Thread : ThreadOK(t)

-----------------------------------------------------------------------------
\* Types

\* Leads are times.
LEMMA LeadType == \A l \in Leads : l \in Nat /\ l < W /\ l \div 2 \in Nat /\ l \div 2 <= l
<1> USE SyncAssumption
<1>1. TAKE l \in Leads
<1>2. l \in Nat
  BY <1>1 DEF Leads, Lead
<1>3. l \div 2 \in Nat /\ l \div 2 <= l
  BY <1>2
<1> QED BY <1>1, <1>2, <1>3

\* A difference of times is a time.
LEMMA MinusType == \A a, b \in Time : Minus(a, b) \in Time
BY SyncAssumption DEF Minus, Time

\* Values of the model's operators, and the types
LEMMA ResetTracksType == TypeOK => ResetTracks \subseteq Track
BY DEF TypeOK, ResetTracks, ResetType, Track

LEMMA BeginType == \A own \in Owners : Begin(own) \in [Thread -> At]
BY DEF Begin, At, Thread

LEMMA InitType == Init => TypeOK
<1> SUFFICES ASSUME Init PROVE TypeOK
  OBVIOUS
<1> USE SyncAssumption DEF Init
<1>1. 0 \in Time /\ 0 \in 0 .. Horizon /\ "audio" \in Track /\ 1 \in Nat
  BY DEF Time, Track
<1>2. NoCall \in [track : Track, kind : Kind, time : 0 .. Horizon]
  BY <1>1 DEF NoCall, Kind
<1>3. reset \in [on : BOOLEAN, type : ResetType, time : Time]
  BY <1>1 DEF ResetType
<1>4. pc \in [Thread -> At]
  BY BeginType
<1> QED BY <1>1, <1>2, <1>3, <1>4 DEF TypeOK

LEMMA TypeStep == TypeOK /\ [Next]_vars => TypeOK'
<1> SUFFICES ASSUME TypeOK, [Next]_vars PROVE TypeOK'
  OBVIOUS
<1> USE SyncAssumption DEF TypeOK, Goto
<1> DEFINE Call == [track : Track, kind : Kind, time : 0 .. Horizon]
<1>a. 0 .. Horizon \subseteq Time /\ 0 \in Time /\ NotAvailable \in Time
  BY DEF Time, NotAvailable
<1>b. NoCall \in Call
  BY DEF NoCall, Kind, Track
<1>c. ASSUME NEW t \in Thread PROVE call[t].track \in Track /\ call[t].time \in Time
  BY <1>a, <1>c
<1>d. ASSUME NEW t \in Thread, Return(t)
      PROVE  /\ call' \in [Thread -> Call]
             /\ far' \in [Thread -> Time] /\ near' \in [Thread -> Time]
             /\ must' \in [Thread -> BOOLEAN]
  BY <1>a, <1>b, <1>d DEF Return
<1>e. \A a, b \in Time : Higher(a, b) \in Time
  BY DEF Higher
<1>f. lead \in Time /\ lead \div 2 \in Time
  <2>1. First \in Nat /\ First \div 2 \in Nat /\ First \div 2 <= First
    OBVIOUS
  <2> QED BY <2>1, LeadType DEF Time
<1>g. ASSUME NEW rt \in ResetType, NEW time \in Time, NEW on \in BOOLEAN
      PROVE  /\ [reset EXCEPT !.type = rt, !.time = time]
                    \in [on : BOOLEAN, type : ResetType, time : Time]
             /\ [reset EXCEPT !.on = on]
                    \in [on : BOOLEAN, type : ResetType, time : Time]
  OBVIOUS
<1>1. ASSUME NEW t \in Thread, SetChunkDuration(t) PROVE TypeOK'
  BY <1>1 DEF SetChunkDuration, Leads, At, local, history, bounds
<1>2. ASSUME NEW t \in Thread, Take(t) PROVE TypeOK'
  <2>1. PICK c \in Sample(t) : Take(t)!3!(c)
    BY <1>2 DEF Take
  <2>2. c \in Call /\ c.track \in Track /\ c.time \in Time
    BY <1>a DEF Sample
  <2>3. fresh \ {c.track} \subseteq Track /\ (exempt \/ c.kind # "media") \in BOOLEAN
    OBVIOUS
  <2>4. CASE ~disable
    <3>1. call' \in [Thread -> Call] /\ pc' \in [Thread -> At]
      BY <2>1, <2>2, <2>4 DEF At
    <3>2. exempt' \in BOOLEAN /\ fresh' \subseteq Track
          /\ published' = published /\ peak' = peak
      BY <2>1, <2>3, <2>4
    <3> QED BY <1>2, <3>1, <3>2 DEF Take, shared, bounds
  <2>5. CASE disable
    <3>1. pc' \in [Thread -> At]
      BY <2>1, <2>5 DEF At
    <3>2. published' \in [Track -> Time]
      BY <2>1, <2>2, <2>5
    <3>3. Higher(peak[c.track], c.time) \in Time
      BY <1>e, <2>2
    <3>4. peak' \in [Track -> Time]
      BY <2>1, <2>2, <2>5, <3>3
    <3>5. fresh' \subseteq Track /\ call' = call /\ exempt' = exempt
      BY <2>1, <2>3, <2>5
    <3> QED BY <1>2, <3>1, <3>2, <3>4, <3>5 DEF Take, shared, bounds
  <2> QED BY <2>4, <2>5
<1>3. ASSUME NEW t \in Thread, TestReset(t) PROVE TypeOK'
  BY <1>3 DEF TestReset, AfterReset, At, shared, local, history, bounds
<1>4. ASSUME NEW t \in Thread, Carry(t) PROVE TypeOK'
  <2>1. ResetTime(t) \in Time
    BY <1>c DEF ResetTime
  <2>2. last' \in [Track -> Time] /\ avail' \in [Track -> BOOLEAN]
    BY <1>4, <2>1 DEF Carry
  <2>3. published' \in [Track -> Time]
    BY <1>4, <1>c DEF Carry
  <2>4. disturbed' \subseteq Track /\ exempt' \in BOOLEAN
    BY <1>4 DEF Carry
  <2>5. pc' \in [Thread -> At]
    BY <1>4 DEF Carry, At
  <2> QED BY <1>4, <2>2, <2>3, <2>4, <2>5 DEF Carry, local, bounds
<1>5. ASSUME NEW t \in Thread, Clear(t) PROVE TypeOK'
  BY <1>5 DEF Clear, AfterReset, At, local, history, bounds
<1>6. ASSUME NEW t \in Thread, Hide(t) \/ Gone(t) PROVE TypeOK'
  <2>1. CASE Hide(t)
    BY <2>1, <1>a DEF Hide, At, local, history, bounds
  <2>2. CASE Gone(t)
    BY <2>2, <1>d DEF Gone, At, history, bounds
  <2> QED BY <1>6, <2>1, <2>2
<1>7. ASSUME NEW t \in Thread, CompareFar(t) \/ SubtractFar(t) \/ CompareNear(t) \/ SubtractNear(t)
      PROVE  TypeOK'
  <2>1. Minus(call[t].time, lead) \in Time /\ Minus(call[t].time, lead \div 2) \in Time
    BY <1>c, <1>f, MinusType
  <2>2. CASE CompareFar(t)
    BY <2>2, <1>a DEF CompareFar, At, shared, history, bounds
  <2>3. CASE SubtractFar(t)
    BY <2>3, <2>1 DEF SubtractFar, At, shared, history, bounds
  <2>4. CASE CompareNear(t)
    BY <2>4, <1>a DEF CompareNear, At, shared, history, bounds
  <2>5. CASE SubtractNear(t)
    BY <2>5, <2>1 DEF SubtractNear, At, shared, history, bounds
  <2> QED BY <1>7, <2>2, <2>3, <2>4, <2>5
<1>8. ASSUME NEW t \in Thread, Test(t) PROVE TypeOK'
  <2>1. tid' \in AnyId
    BY <1>8, <1>c DEF Test, AnyId
  <2>2. must' \in [Thread -> BOOLEAN] /\ exempt' \in BOOLEAN
    BY <1>8 DEF Test
  <2>3. disturbed' \subseteq Track
    BY <1>8, <1>c DEF Test
  <2> QED BY <1>8, <2>1, <2>2, <2>3 DEF Test, At, bounds
<1>9. ASSUME NEW t \in Thread, Announce(t) PROVE TypeOK'
  <2>1. last' \in [Track -> Time] /\ published' \in [Track -> Time]
    <3>1. CASE far[t] > last[call[t].track]
      <4>1. /\ last' = [last EXCEPT ![call[t].track] = call[t].time]
            /\ published' = [published EXCEPT ![call[t].track] = call[t].time]
        BY <1>9, <3>1 DEF Announce
      <4> QED BY <1>c, <4>1
    <3>2. CASE ~(far[t] > last[call[t].track])
      BY <1>9, <3>2 DEF Announce
    <3> QED BY <3>1, <3>2
  <2> QED BY <1>9, <2>1 DEF Announce, At, local, bounds
<1>10. ASSUME NEW t \in Thread, Leave(t) PROVE TypeOK'
  BY <1>10 DEF Leave, At, shared, local, history, bounds
<1>11. ASSUME NEW t \in Thread, Pass(t) PROVE TypeOK'
  <2>1. last' \in [Track -> Time] /\ published' \in [Track -> Time] /\ peak' \in [Track -> Time]
    BY <1>11, <1>c, <1>e DEF Pass
  <2>2. pc' \in [Thread -> At]
    BY <1>11 DEF Pass, At
  <2>3. /\ call' \in [Thread -> Call]
        /\ far' \in [Thread -> Time] /\ near' \in [Thread -> Time]
        /\ must' \in [Thread -> BOOLEAN]
    BY <1>11, <1>d DEF Pass, local
  <2> QED BY <1>11, <2>1, <2>2, <2>3 DEF Pass, bounds
<1>12. ASSUME NEW t \in Thread, Show(t) PROVE TypeOK'
  BY <1>12, <1>c, <1>d DEF Show, At, history, bounds
<1>13. ASSUME NEW t \in Thread, Drop(t) \/ End(t) PROVE TypeOK'
  <2>1. reset' \in [on : BOOLEAN, type : ResetType, time : Time]
    <3>1. {"av", t, "immediately"} \subseteq ResetType
      BY DEF Thread, Track, ResetType
    <3> QED BY <1>13, <1>a, <1>g, <3>1 DEF Drop, End
  <2>2. CASE Drop(t)
    BY <2>1, <2>2 DEF Drop, At, local, history
  <2>3. CASE End(t)
    BY <2>1, <2>3 DEF End, At, local, history, bounds
  <2> QED BY <1>13, <2>2, <2>3
<1>14. ASSUME NEW t \in Thread, Raise(t) \/ Disable(t) PROVE TypeOK'
  <2>1. CASE Raise(t)
    BY <2>1, <1>g DEF Raise, At, local, history, bounds
  <2>2. CASE Disable(t)
    BY <2>2 DEF Disable, At, local, history, bounds
  <2> QED BY <1>14, <2>1, <2>2
<1>15. CASE SetStopFlag
  BY <1>15 DEF SetStopFlag, shared, local, history, bounds
<1>16. CASE Seek
  <2>1. pc' \in [Thread -> At]
    BY <1>16, BeginType DEF Seek
  <2>2. PICK p \in Position : Seek!9!(p)
    BY <1>16 DEF Seek
  <2>3. p \in Time
    BY DEF Time
  <2>4. reset' \in [on : BOOLEAN, type : ResetType, time : Time]
    BY <2>2, <2>3 DEF ResetType
  <2>5. published' \in [Track -> Time] /\ peak' \in [Track -> Time]
    BY <2>2, <2>3
  <2>6. owner' \in Owners /\ tid' \in AnyId
    BY <1>16 DEF Seek
  <2>7. /\ fresh' = Track /\ disturbed' = {} /\ exempt' = FALSE
        /\ stop' = FALSE /\ disable' = FALSE /\ starts' \in Nat
    BY <1>16 DEF Seek
  <2>8. UNCHANGED <<last, avail, lead, call, far, near, must, drops>>
    BY <1>16 DEF Seek, local
  <2> QED BY <2>1, <2>4, <2>5, <2>6, <2>7, <2>8
<1>17. CASE UNCHANGED vars
  BY <1>17 DEF vars, shared, local, history, bounds
<1> QED BY <1>1, <1>2, <1>3, <1>4, <1>5, <1>6, <1>7, <1>8, <1>9, <1>10, <1>11,
          <1>12, <1>13, <1>14, <1>15, <1>16, <1>17 DEF Next, Work, InCall

\* Every variable has its type: no time leaves the range of a VO_U64, be the
\* lead changed between any two reads of it.
THEOREM TypeCorrect == Spec => []TypeOK
<1>1. TypeOK /\ [Next]_vars => TypeOK'
  BY TypeStep
<1> QED BY InitType, <1>1, PTL DEF Spec

-----------------------------------------------------------------------------
\* The threads do not hold each other

\* What a step of one thread leaves alone of another: its call, what it has
\* published, and what it has announced unless it is then disturbed.
LEMMA Frame ==
  ASSUME TypeOK, NEW t \in Thread, NEW u \in Thread, u # t,
         OwnOK(t), OwnOK(u), Work(t)
  PROVE  /\ pc'[u] = pc[u] /\ call'[u] = call[u]
         /\ far'[u] = far[u] /\ near'[u] = near[u] /\ must'[u] = must[u]
         /\ owner' = owner /\ lead' \in Leads \cup {lead}
         /\ pc[u] \in InCheckAndWait =>
                LET k == call[u].track
                IN  /\ published'[k] = published[k]
                    /\ k \notin disturbed' =>
                           /\ k \notin disturbed
                           /\ pc[u] \in {"announce", "wait"} => last'[k] = last[k]
<1> USE DEF Work, InCall, Goto
<1> DEFINE k == call[u].track
<1> DEFINE mine == call[t].track
<1> DEFINE PublishedOK == published'[k] = published[k]
<1> DEFINE LastOK == k \notin disturbed' =>
               /\ k \notin disturbed
               /\ pc[u] \in {"announce", "wait"} => last'[k] = last[k]
<1>1. pc'[u] = pc[u]
  BY DEF TypeOK, SetChunkDuration, Take, TestReset, Carry, Clear, Hide, Gone,
     CompareFar, SubtractFar, CompareNear, SubtractNear, Test, Announce, Leave,
     Pass, Show, Drop, End, Raise, Disable
<1>2. call'[u] = call[u] /\ must'[u] = must[u]
  BY DEF TypeOK, SetChunkDuration, Take, TestReset, Carry, Clear, Hide, Gone,
     CompareFar, SubtractFar, CompareNear, SubtractNear, Test, Announce, Leave,
     Pass, Show, Drop, End, Raise, Disable, Return, local
<1>3. far'[u] = far[u] /\ near'[u] = near[u]
  BY DEF TypeOK, SetChunkDuration, Take, TestReset, Carry, Clear, Hide, Gone,
     CompareFar, SubtractFar, CompareNear, SubtractNear, Test, Announce, Leave,
     Pass, Show, Drop, End, Raise, Disable, Return, local
<1>4. owner' = owner
  BY DEF SetChunkDuration, Take, TestReset, Carry, Clear, Hide, Gone,
     CompareFar, SubtractFar, CompareNear, SubtractNear, Test, Announce, Leave,
     Pass, Show, Drop, End, Raise, Disable
<1>5. lead' \in Leads \cup {lead}
  BY DEF SetChunkDuration, Take, TestReset, Carry, Clear, Hide, Gone,
     CompareFar, SubtractFar, CompareNear, SubtractNear, Test, Announce, Leave,
     Pass, Show, Drop, End, Raise, Disable, shared, Leads
<1>6. ASSUME pc[u] \in InCheckAndWait PROVE PublishedOK /\ LastOK
  <2>1. owner[k] = u /\ k \in Track
    BY <1>6 DEF OwnOK, TypeOK
  <2>2. pc[t] \in InCheckAndWait => mine # k
    BY <2>1 DEF OwnOK
  <2>3. CASE Take(t)
    <3>1. PICK c \in Sample(t) : Take(t)!3!(c)
      BY <2>3 DEF Take
    <3>2. c.track # k
      BY <2>1 DEF Sample
    <3>3. PublishedOK
      BY <2>1, <3>1, <3>2 DEF TypeOK
    <3> QED BY <2>3, <3>3 DEF Take, shared
  <2>4. CASE Carry(t)
    <3>1. mine # k
      BY <2>2, <2>4 DEF Carry, InCheckAndWait, At
    <3>2. PublishedOK
      BY <2>1, <2>4, <3>1 DEF Carry, TypeOK
    <3>3. disturbed \subseteq disturbed'
      BY <2>4 DEF Carry
    <3>4. pc[u] \in {"announce", "wait"} /\ last'[k] # last[k] => k \in disturbed'
      BY <2>1, <2>4 DEF Carry
    <3> QED BY <3>2, <3>3, <3>4
  <2>5. CASE Hide(t) \/ Announce(t) \/ Pass(t)
    <3>1. mine # k
      BY <2>2, <2>5 DEF Hide, Announce, Pass, InCheckAndWait, At
    <3>2. last'[k] = last[k] /\ published'[k] = published[k]
      BY <2>1, <2>5, <3>1 DEF Hide, Announce, Pass, history, TypeOK
    <3>3. disturbed' = disturbed
      BY <2>5 DEF Hide, Announce, Pass, history
    <3> QED BY <3>2, <3>3
  <2>6. CASE Test(t)
    <3>1. mine # k
      BY <2>2, <2>6 DEF Test, InCheckAndWait, At
    <3>2. k \in disturbed => k \in disturbed'
      BY <2>6, <3>1 DEF Test
    <3> QED BY <2>6, <3>2 DEF Test
  <2>7. CASE \/ SetChunkDuration(t) \/ TestReset(t) \/ Clear(t) \/ Gone(t)
             \/ CompareFar(t) \/ SubtractFar(t) \/ CompareNear(t) \/ SubtractNear(t)
             \/ Leave(t) \/ Show(t) \/ Drop(t) \/ End(t) \/ Raise(t) \/ Disable(t)
    BY <2>7 DEF SetChunkDuration, TestReset, Clear, Gone, CompareFar, SubtractFar,
       CompareNear, SubtractNear, Leave, Show, Drop, End, Raise, Disable, shared,
       history
  <2> QED BY <2>3, <2>4, <2>5, <2>6, <2>7
<1> QED BY <1>1, <1>2, <1>3, <1>4, <1>5, <1>6

\* So it leaves the other thread as it should be.
LEMMA Others ==
  ASSUME TypeOK, NEW t \in Thread, NEW u \in Thread, u # t,
         OwnOK(t), ThreadOK(u), Work(t)
  PROVE  ThreadOK(u)'
<1> USE DEF ThreadOK
<1> HIDE DEF Work
<1>0. pc[u] \in At
  BY DEF TypeOK
<1>1. OwnOK(u)' /\ LeadOK(u)'
  BY Frame DEF OwnOK, LeadOK
<1>2. StepOK(u)'
  BY Frame, <1>0 DEF StepOK, Stepped, InCheckAndWait, At
<1>3. GapOK(u)'
  BY Frame DEF GapOK, FarOK, NearOK
<1>4. WaitOK(u)'
  BY Frame, <1>0 DEF WaitOK, InCheckAndWait, At
<1> QED BY <1>1, <1>2, <1>3, <1>4

\* A thread that is to announce a sample it must wait with: half a lead before
\* the sample is a time it has published, unless the sample is announced.
LEMMA AnnounceReaches ==
  ASSUME TypeOK, NEW t \in Thread, pc[t] = "announce", ThreadOK(t), must[t],
         NEW k, k = call[t].track, last[k] \in {published[k], NotAvailable},
         ~(far[t] > last[k])
  PROVE  near[t] <= last[k]
<1> DEFINE time == call[t].time
<1>1. /\ k \in Track /\ far[t] \in Time /\ near[t] \in Time /\ time \in 0 .. Horizon
      /\ last[k] \in Time /\ published[k] \in Time
  BY DEF TypeOK
<1>2. time < W - 1 /\ W \in Nat /\ Step \subseteq Nat
  BY <1>1, SyncAssumption
<1>3. CASE last[k] = NotAvailable
  BY <1>1, <1>2, <1>3 DEF Time, NotAvailable
<1>4. CASE last[k] = published[k]
  <2>1. far[t] > 0 /\ FarOK(t) /\ NearOK(t) /\ Stepped(t)
    BY DEF ThreadOK, GapOK, StepOK
  <2>2. PICK l \in Leads : far[t] = Minus(time, l)
    BY <2>1 DEF FarOK
  <2>3. PICK longer \in Leads : time > longer
    BY <2>1 DEF FarOK
  <2>4. CASE near[t] = 0
    BY <1>1, <2>4 DEF Time
  <2>5. ASSUME NEW m \in Leads, near[t] + (m \div 2) = time
        PROVE  near[t] <= last[k]
    <3>1. l \in Nat /\ l < W /\ longer \in Nat /\ m \div 2 \in Nat
      BY LeadType, <2>2, <2>3, <2>5
    <3>2. CASE time <= published[k]
      BY <1>1, <1>4, <2>5, <3>1, <3>2 DEF Time
    <3>3. ASSUME NEW s \in Step, time = published[k] + s
          PROVE  near[t] <= last[k]
      <4>1. CASE s <= m \div 2
        BY <1>1, <1>2, <1>4, <2>5, <3>1, <3>3, <4>1 DEF Time
      <4>2. CASE s > l
        <5>1. time >= l /\ time - l > published[k]
          BY <1>1, <1>2, <3>1, <3>3, <4>2 DEF Time
        <5>2. far[t] > last[k]
          BY <1>1, <1>4, <2>2, <3>1, <5>1 DEF Minus, Time
        <5> QED BY <5>2
      <4> QED BY <4>1, <4>2, <2>2, <2>5, StepAssumption
    <3> QED BY <2>1, <3>2, <3>3 DEF Stepped
  <2> QED BY <2>1, <2>4, <2>5 DEF NearOK
<1> QED BY <1>3, <1>4

\* A step keeps the thread that takes it as it should be.
LEMMA Self ==
  ASSUME TypeOK, TypeOK', NEW t \in Thread, ThreadOK(t), Work(t)
  PROVE  ThreadOK(t)'
<1> USE DEF ThreadOK, Goto
<1> DEFINE k == call[t].track
<1>t. /\ pc \in [Thread -> At] /\ k \in Track /\ call[t].time \in 0 .. Horizon
      /\ far[t] \in Time /\ near[t] \in Time
  BY DEF TypeOK
<1>h. Horizon \in Nat /\ W \in Nat /\ Horizon < W - 1
  BY SyncAssumption
<1>1. CASE SetChunkDuration(t)
  <2>1. pc'[t] = "idle" /\ lead' \in Leads
    BY <1>1, <1>t DEF SetChunkDuration, Leads
  <2> QED BY <2>1 DEF OwnOK, LeadOK, StepOK, GapOK, WaitOK, InCheckAndWait
<1>2. CASE Take(t)
  <2>1. PICK c \in Sample(t) : Take(t)!3!(c)
    BY <1>2 DEF Take
  <2>2. owner' = owner /\ lead' = lead /\ (pc[t] = "idle" => lead \in Leads)
    BY <1>2 DEF Take, shared, LeadOK
  <2>3. CASE disable
    <3>1. (pc'[t] = "idle" /\ lead \in Leads) \/ pc'[t] = "new"
      BY <1>t, <2>1, <2>2, <2>3 DEF Sample
    <3> QED BY <2>2, <3>1 DEF OwnOK, LeadOK, StepOK, GapOK, WaitOK, InCheckAndWait
  <2>4. CASE ~disable
    <3>1. pc'[t] = "reset" /\ call'[t] = c /\ published' = published
      BY <1>t, <2>1, <2>4 DEF TypeOK
    <3>2. owner[c.track] = t /\ (c.kind # "unavailable" => pc[t] = "idle")
      BY DEF Sample
    <3>3. ASSUME c.kind # "unavailable" PROVE Stepped(t)'
      <4>1. c.time \in MediaTime(c.track) /\ c.track \in Track
        BY <3>3 DEF Sample
      <4>2. published[c.track] \in Nat /\ c.time \in Nat
        <5>1. published[c.track] \in Nat
          BY <1>h, <4>1 DEF TypeOK, Time
        <5>2. c.time \in 0 .. Horizon
          BY <4>1 DEF MediaTime
        <5> QED BY <1>h, <5>1, <5>2
      <4>3. c.time <= published[c.track] \/ \E s \in Step : c.time = published[c.track] + s
        <5>1. \/ \E s \in Step : c.time = published[c.track] + s
              \/ \E b \in Back : c.time + b = published[c.track]
          BY <4>1 DEF MediaTime
        <5>2. \A b \in Back : b \in Nat
          BY SyncAssumption
        <5> QED BY <4>2, <5>1, <5>2
      <4> QED BY <3>1, <4>3 DEF Stepped
    <3> QED BY <2>2, <3>1, <3>2, <3>3
            DEF OwnOK, LeadOK, StepOK, GapOK, WaitOK, InCheckAndWait
  <2> QED BY <2>3, <2>4
<1>3. CASE TestReset(t)
  <2>1. UNCHANGED <<owner, lead, call, published>>
    BY <1>3 DEF TestReset, shared, local, history
  <2>2. pc[t] = "reset" /\ pc'[t] \in {"carry", AfterReset(t)}
    BY <1>3, <1>t DEF TestReset
  <2> QED BY <2>1, <2>2
          DEF AfterReset, OwnOK, LeadOK, StepOK, Stepped, GapOK, WaitOK, InCheckAndWait, At
<1>4. CASE Carry(t)
  <2>1. UNCHANGED <<owner, lead, call>> /\ pc[t] = "carry" /\ pc'[t] = "clear"
    BY <1>4, <1>t DEF Carry, local
  <2>2. published'[k] \in {published[k], call[t].time}
    BY <1>4, <1>t DEF Carry, TypeOK
  <2>3. Stepped(t) => Stepped(t)'
    BY <1>t, <2>1, <2>2 DEF Stepped
  <2> QED BY <2>1, <2>3 DEF OwnOK, LeadOK, StepOK, GapOK, WaitOK, InCheckAndWait, At
<1>5. CASE Clear(t)
  <2>1. UNCHANGED <<owner, lead, call, published>>
    BY <1>5 DEF Clear, local, history
  <2>2. pc[t] = "clear" /\ pc'[t] = AfterReset(t)
    BY <1>5, <1>t DEF Clear
  <2> QED BY <2>1, <2>2
          DEF AfterReset, OwnOK, LeadOK, StepOK, Stepped, GapOK, WaitOK, InCheckAndWait, At
<1>6. CASE Hide(t)
  BY <1>6, <1>t DEF Hide, local, OwnOK, LeadOK, StepOK, GapOK, WaitOK, InCheckAndWait, At
<1>7. CASE Gone(t)
  BY <1>7, <1>t DEF Gone, OwnOK, LeadOK, StepOK, GapOK, WaitOK, InCheckAndWait, At
<1>8. CASE CompareFar(t)
  <2>1. UNCHANGED <<owner, lead, call, published>> /\ far'[t] = 0
    BY <1>8, <1>t DEF CompareFar, shared, history, TypeOK
  <2>2. /\ pc[t] = "far" /\ lead \in Leads
        /\ \/ pc'[t] = "far2" /\ call[t].time > lead
           \/ pc'[t] = "near" /\ ~(call[t].time > lead)
    BY <1>8, <1>t DEF CompareFar, LeadOK
  <2>3. FarOK(t)' \/ call[t].time > lead
    BY <1>t, <1>h, <2>1, <2>2, LeadType DEF FarOK
  <2> QED BY <2>1, <2>2, <2>3
          DEF OwnOK, LeadOK, StepOK, Stepped, GapOK, WaitOK, InCheckAndWait, At
<1>9. CASE SubtractFar(t)
  <2>1. /\ UNCHANGED <<owner, lead, call, published>>
        /\ far'[t] = Minus(call[t].time, lead)
    BY <1>9, <1>t DEF SubtractFar, shared, history, TypeOK
  <2>2. pc[t] = "far2" /\ pc'[t] = "near" /\ lead \in Leads
    BY <1>9, <1>t DEF SubtractFar, LeadOK
  <2>3. FarOK(t)'
    BY <2>1, <2>2 DEF FarOK, GapOK
  <2> QED BY <2>1, <2>2, <2>3
          DEF OwnOK, LeadOK, StepOK, Stepped, GapOK, WaitOK, InCheckAndWait, At
<1>10. CASE CompareNear(t)
  <2>1. UNCHANGED <<owner, lead, call, far, published>> /\ near'[t] = 0
    BY <1>10, <1>t DEF CompareNear, shared, history, TypeOK
  <2>2. pc[t] = "near" /\ pc'[t] \in {"near2", "test"} /\ lead \in Leads
    BY <1>10, <1>t DEF CompareNear, LeadOK
  <2>3. FarOK(t)' /\ NearOK(t)'
    BY <2>1, <2>2 DEF FarOK, NearOK, GapOK
  <2> QED BY <2>1, <2>2, <2>3
          DEF OwnOK, LeadOK, StepOK, Stepped, GapOK, WaitOK, InCheckAndWait, At
<1>11. CASE SubtractNear(t)
  <2>1. /\ UNCHANGED <<owner, lead, call, far, published>>
        /\ near'[t] = Minus(call[t].time, lead \div 2)
    BY <1>11, <1>t DEF SubtractNear, shared, history, TypeOK
  <2>2. pc[t] = "near2" /\ pc'[t] = "test" /\ lead \in Leads /\ FarOK(t)
    BY <1>11, <1>t DEF SubtractNear, LeadOK, GapOK
  <2>3. FarOK(t)'
    BY <2>1, <2>2 DEF FarOK
  <2>4. NearOK(t)'
    <3>1. CASE call[t].time >= lead \div 2
      BY <1>t, <1>h, <2>1, <2>2, <3>1, LeadType DEF NearOK, Minus
    <3>2. CASE ~(call[t].time >= lead \div 2)
      <4>1. ASSUME NEW l \in Leads PROVE call[t].time <= l
        <5>1. lead \div 2 <= l
          BY <2>2, StepAssumption
        <5>2. lead \div 2 \in Nat /\ l \in Nat /\ call[t].time \in Nat
          BY <1>t, <1>h, <2>2, LeadType
        <5> QED BY <3>2, <5>1, <5>2
      <4>2. far[t] = 0
        BY <1>t, <1>h, <2>2, <4>1, LeadType DEF FarOK
      <4> QED BY <2>1, <4>2 DEF NearOK
    <3> QED BY <3>1, <3>2
  <2> QED BY <2>1, <2>2, <2>3, <2>4
          DEF OwnOK, LeadOK, StepOK, Stepped, GapOK, WaitOK, InCheckAndWait, At
<1>12. CASE Test(t)
  <2>1. UNCHANGED <<owner, lead, call, far, near, published, last>>
    BY <1>12 DEF Test
  <2>2. pc[t] = "test" /\ pc'[t] = "announce" /\ FarOK(t) /\ NearOK(t)
    BY <1>12, <1>t DEF Test, GapOK
  <2>3. FarOK(t)' /\ NearOK(t)'
    BY <2>1, <2>2 DEF FarOK, NearOK
  <2>4. must'[t] => far[t] > 0
    <3>1. must'[t] => far[t] > last[Other(k)]
      BY <1>12 DEF Test, TypeOK
    <3>2. last[Other(k)] \in Nat
      BY <1>t DEF TypeOK, Other, Track, Time
    <3> QED BY <1>t, <3>1, <3>2 DEF Time
  <2>5. k \notin disturbed' => last[k] \in {published[k], NotAvailable}
    BY <1>12 DEF Test
  <2> QED BY <2>1, <2>2, <2>3, <2>4, <2>5
          DEF OwnOK, LeadOK, StepOK, Stepped, GapOK, WaitOK, InCheckAndWait, At
<1>13. CASE Announce(t)
  <2>1. UNCHANGED <<owner, lead, call, far, near, must, disturbed>> /\ pc[t] = "announce"
    BY <1>13 DEF Announce, local
  <2>2. pc'[t] = IF must[t] THEN "wait" ELSE "pass"
    BY <1>13, <1>t DEF Announce
  <2>3. must[t] => near[t] <= call[t].time
    <3>1. must[t] => far[t] > 0 /\ NearOK(t)
      BY <2>1 DEF GapOK
    <3> QED BY <1>t, <1>h, <3>1, LeadType DEF NearOK, Time
  <2>4. ASSUME must[t], k \notin disturbed PROVE near[t] <= last'[k]
    <3>1. CASE far[t] > last[k]
      <4>1. last'[k] = call[t].time
        BY <1>13, <1>t, <3>1 DEF Announce, TypeOK
      <4> QED BY <2>3, <2>4, <4>1
    <3>2. CASE ~(far[t] > last[k])
      <4>1. last[k] \in {published[k], NotAvailable}
        BY <2>1, <2>4 DEF WaitOK
      <4>2. last' = last
        BY <1>13, <3>2 DEF Announce
      <4> QED BY <2>1, <2>4, <3>2, <4>1, <4>2, AnnounceReaches
    <3> QED BY <3>1, <3>2
  <2> QED BY <2>1, <2>2, <2>3, <2>4
          DEF OwnOK, LeadOK, StepOK, GapOK, WaitOK, InCheckAndWait, At
<1>14. CASE Leave(t)
  BY <1>14, <1>t DEF Leave, shared, local, OwnOK, LeadOK, StepOK, GapOK, WaitOK, InCheckAndWait, At
<1>15. CASE Pass(t)
  <2>1. UNCHANGED <<owner, lead>> /\ pc[t] = "pass" /\ lead \in Leads
    BY <1>15 DEF Pass, LeadOK
  <2>2. \/ pc'[t] \in {"idle", "new"}
        \/ pc'[t] = "show" /\ call' = call
    BY <1>15, <1>t DEF Pass, local
  <2> QED BY <2>1, <2>2 DEF OwnOK, LeadOK, StepOK, GapOK, WaitOK, InCheckAndWait, At
<1>16. CASE Show(t)
  <2>1. lead' = lead /\ lead \in Leads /\ pc'[t] \in {"idle", "new"}
    BY <1>16, <1>t DEF Show, LeadOK
  <2> QED BY <2>1 DEF OwnOK, LeadOK, StepOK, GapOK, WaitOK, InCheckAndWait
<1>17. CASE Drop(t)
  <2>1. lead' = lead /\ lead \in Leads /\ pc'[t] = "raise"
    BY <1>17, <1>t DEF Drop, LeadOK
  <2> QED BY <2>1 DEF OwnOK, LeadOK, StepOK, GapOK, WaitOK, InCheckAndWait
<1>18. CASE End(t)
  BY <1>18, <1>t DEF End, OwnOK, LeadOK, StepOK, GapOK, WaitOK, InCheckAndWait
<1>19. CASE Raise(t)
  BY <1>19, <1>t DEF Raise, OwnOK, LeadOK, StepOK, GapOK, WaitOK, InCheckAndWait
<1>20. CASE Disable(t)
  BY <1>20, <1>t DEF Disable, OwnOK, LeadOK, StepOK, GapOK, WaitOK, InCheckAndWait
<1> QED BY <1>1, <1>2, <1>3, <1>4, <1>5, <1>6, <1>7, <1>8, <1>9, <1>10, <1>11,
          <1>12, <1>13, <1>14, <1>15, <1>16, <1>17, <1>18, <1>19, <1>20
        DEF Work, InCall

\* IInv holds at the start, and every step keeps it.
LEMMA InitIInv == Init => IInv
<1> SUFFICES ASSUME Init, NEW t \in Thread PROVE ThreadOK(t)
  BY InitType DEF IInv
<1>1. pc[t] \in {"new", "ended"}
  BY DEF Init, Begin
<1> QED BY <1>1 DEF ThreadOK, OwnOK, LeadOK, StepOK, GapOK, WaitOK, InCheckAndWait

LEMMA StepIInv == IInv /\ [Next]_vars => IInv'
<1> SUFFICES ASSUME IInv, [Next]_vars PROVE IInv'
  OBVIOUS
<1>1. TypeOK /\ TypeOK' /\ \A t \in Thread : ThreadOK(t)
  BY TypeStep DEF IInv
<1> SUFFICES ASSUME NEW u \in Thread PROVE ThreadOK(u)'
  BY <1>1 DEF IInv
<1>2. ASSUME NEW t \in Thread, Work(t) PROVE ThreadOK(u)'
  <2>1. CASE u = t
    BY <1>1, <1>2, <2>1, Self
  <2>2. CASE u # t
    BY <1>1, <1>2, <2>2, Others DEF ThreadOK
  <2> QED BY <2>1, <2>2
<1>3. CASE SetStopFlag \/ UNCHANGED vars
  <2>1. UNCHANGED <<owner, lead, pc, call, far, near, must, published, last, disturbed>>
    BY <1>3 DEF SetStopFlag, vars, shared, local, history
  <2>2. ThreadOK(u)
    BY <1>1
  <2> QED BY <2>1, <2>2 DEF ThreadOK, OwnOK, LeadOK, StepOK, Stepped, GapOK, FarOK, NearOK, WaitOK
<1>4. CASE Seek
  <2>1. pc'[u] \in {"new", "ended"}
    BY <1>4 DEF Seek, Begin
  <2> QED BY <2>1 DEF ThreadOK, OwnOK, LeadOK, StepOK, GapOK, WaitOK, InCheckAndWait
<1> QED BY <1>2, <1>3, <1>4 DEF Next

LEMMA Invariant == Spec => []IInv
BY InitIInv, StepIInv, PTL DEF Spec

\* The item threads of audio and video never both wait until the other's
\* track comes nearer, unless a reset replaced a time one had announced.
THEOREM NeverBoth == Spec => []NoMutualWait
<1>1. IInv => NoMutualWait
  <2> SUFFICES ASSUME IInv, disturbed = {}, \A t \in Thread : Waiting(t)
               PROVE  FALSE
    BY DEF NoMutualWait
  <2> DEFINE a == call["audio"].track
  <2> DEFINE v == call["video"].track
  <2>1. "audio" \in Thread /\ "video" \in Thread
    BY DEF Thread, Track
  <2>2. a \in Track /\ v \in Track /\ last[a] \in Int /\ last[v] \in Int
        /\ near["audio"] \in Int /\ near["video"] \in Int
    BY <2>1, SyncAssumption DEF IInv, TypeOK, Time
  <2>3. pc["audio"] = "wait" /\ pc["video"] = "wait"
    BY <2>1 DEF Waiting
  <2>4. owner[a] = "audio" /\ owner[v] = "video"
    BY <2>1, <2>3 DEF IInv, ThreadOK, OwnOK, InCheckAndWait, At
  <2>5. v = Other(a) /\ a = Other(v)
    BY <2>2, <2>4 DEF Other, Track
  <2>6. near["audio"] <= last[a] /\ near["video"] <= last[v]
    BY <2>1, <2>3 DEF IInv, ThreadOK, WaitOK
  <2>7. near["audio"] > last[v] /\ near["video"] > last[a]
    BY <2>1, <2>5 DEF Waiting, Held
  <2> QED BY <2>2, <2>6, <2>7
<1> QED BY Invariant, <1>1, PTL

\* No thread waits for a time after that of its own sample, which a
\* difference wrapped round would be.
THEOREM WaitsInReach == Spec => []WaitInReach
<1>1. IInv => WaitInReach
  BY DEF IInv, ThreadOK, GapOK, WaitInReach
<1> QED BY Invariant, <1>1, PTL

-----------------------------------------------------------------------------
\* How far a track may run ahead.  While nothing is exempt, the times the object
\* has are those the threads last announced, and what a thread was let through
\* by can only have grown.

Early == {"new", "idle", "reset", "carry", "raise", "quit", "disable", "ended"}

\* Forced samples and notices are exempt.
KindOK(t) ==
    /\ pc[t] \in InCheckAndWait /\ call[t].kind # "media" => exempt
    /\ pc[t] \in {"hide", "gone"} => exempt

\* The object's times are the announced ones, once the reset is carried out.
SyncOK ==
    ~exempt /\ ~disable =>
        \/ \A k \in Track : last[k] = published[k] /\ avail[k]
        \/ reset.on /\ reset.type = "immediately" /\ \A t \in Thread : pc[t] \in Early

\* What is announced has been let through, or is the sample of the call.
CoverOK(k) ==
    LET t == owner[k]
    IN  ~exempt /\ ~disable =>
            \/ published[k] <= peak[k]
            \/ /\ call[t].track = k /\ published[k] = call[t].time
               /\ pc[t] \in InCheckAndWait \ {"reset", "carry", "hide", "gone", "show"}

\* The time a thread waits for is at most a lead before that of its sample.
ReachOK(t) ==
    pc[t] \in {"test", "announce", "wait"} =>
        \E l \in Leads : call[t].time <= near[t] + l

\* How far a track has come
Come(k) == Higher(peak[k], published[k])

\* A sample that need not wait, or no longer, is at most a lead ahead.
PassOK(t) ==
    /\ ~exempt /\ ~disable /\ ~stop
    /\ pc[t] = "pass" \/ (pc[t] = "announce" /\ ~must[t])
    => \E l \in Leads : call[t].time <= Come(Other(call[t].track)) + l

SkewInv ==
    /\ SyncOK
    /\ \A t \in Thread : KindOK(t) /\ ReachOK(t) /\ PassOK(t)
    /\ \A k \in Track : CoverOK(k)
    /\ Skew

-----------------------------------------------------------------------------
\* One thread that delivers both tracks.

Multiplexed == owner["audio"] = owner["video"]
Out == {"quit", "disable", "ended"}
At1 == pc["video"]
Call1 == call["video"]

\* The notice of a track that is being taken
Noticed == At1 \in {"reset", "carry", "clear", "hide", "gone"} /\ Call1.kind = "unavailable"

\* Only the video thread runs, and not with a disabled object.
AloneOK ==
    /\ \A k \in Track : owner[k] = "video"
    /\ pc["audio"] = "ended"
    /\ disable => At1 = "ended"
    /\ At1 = "raise" => reset.type = "av"
    /\ At1 \in {"carry", "clear"} => reset.on
    /\ At1 \in {"hide", "gone"} => Call1.kind = "unavailable"
    /\ At1 \in {"far", "far2", "near", "near2", "test"} => Call1.kind # "unavailable"
    /\ reset.on => At1 \in {"new", "idle", "raise", "reset", "carry", "clear"} \cup Out
    /\ At1 = "show" => Call1.track \notin fresh
    /\ drops = 0 => reset.type = "immediately"

\* Only the reset of the start sets both times and makes both available.
StartOK ==
    reset.on /\ reset.type = "immediately" /\ At1 \notin Out =>
        /\ \A k \in Track \ fresh : Noticed /\ k = Call1.track
        /\ drops = 0 => \A k \in fresh : published[k] = reset.time

\* A track that has begun is known as the thread's own.
NameOK ==
    /\ \A k \in Track \ fresh :
        tid[k] = "video" \/ ~avail[k] \/ (Noticed /\ k = Call1.track) \/ At1 \in Out
    /\ At1 \in {"announce", "wait", "pass", "show"} => tid[Call1.track] = "video"

\* One that has not is where the start put it.
BehindOK ==
    drops = 0 => \A k \in fresh :
        \/ ~avail[k] \/ last[k] >= published[k] \/ At1 \in Out
        \/ reset.on /\ At1 \in {"new", "idle", "reset", "carry"}

\* The first samples of the tracks are near each other.
CloseOK ==
    At1 \in {"reset", "carry", "clear", "far", "far2", "near", "near2", "test"} =>
        \/ Call1.kind = "unavailable" \/ Other(Call1.track) \notin fresh
        \/ Call1.time <= published[Other(Call1.track)] + Least

\* No gap wraps round, as nobody else changes the lead.
UnwrappedOK ==
    /\ At1 = "far2" => Call1.time > lead
    /\ At1 \in {"near", "near2", "test", "announce"} =>
        far["video"] = 0 \/ \E l \in Leads : far["video"] + l = Call1.time

\* The thread finds that it must wait only after a chunk was dropped.
AloneMust ==
    At1 = "wait" \/ (At1 = "announce" /\ must["video"]) =>
        drops > 0 /\ Other(Call1.track) \in fresh

AloneInv ==
    Multiplexed =>
        /\ AloneOK /\ StartOK /\ NameOK /\ BehindOK /\ CloseOK /\ UnwrappedOK
        /\ AloneMust

-----------------------------------------------------------------------------
\* The proof that nothing runs farther ahead

\* What is exempt, disabled or told to stop stays so until a seek.
LEMMA Lasting ==
  ASSUME TypeOK, NEW t \in Thread, Work(t)
  PROVE  /\ exempt => exempt'
         /\ disable => disable'
         /\ stop' = stop /\ owner' = owner
BY DEF Work, InCall, SetChunkDuration, Take, TestReset, Carry, Clear, Hide, Gone,
   CompareFar, SubtractFar, CompareNear, SubtractNear, Test, Announce, Leave,
   Pass, Show, Drop, End, Raise, Disable, shared, history, TypeOK

\* Samples that may be waited with are of chunks.
LEMMA KindStep ==
  ASSUME TypeOK, TypeOK', NEW t \in Thread, Work(t),
         \A v \in Thread : OwnOK(v), NEW u \in Thread, KindOK(u)
  PROVE  KindOK(u)'
<1>1. CASE u # t
  BY <1>1, Frame, Lasting DEF KindOK
<1>2. CASE u = t
  <2> USE <1>2, Lasting DEF KindOK, Goto, InCheckAndWait, At
  <2>t. pc \in [Thread -> At]
    BY DEF TypeOK
  <2>1. CASE Take(t)
    <3>1. PICK c \in Sample(t) : Take(t)!3!(c)
      BY <2>1 DEF Take
    <3>2. CASE disable
      BY <2>t, <3>1, <3>2
    <3>3. CASE ~disable
      <4>1. call'[t] = c /\ pc'[t] = "reset" /\ exempt' = (exempt \/ c.kind # "media")
        BY <2>t, <3>1, <3>3 DEF TypeOK
      <4> QED BY <4>1
    <3> QED BY <3>2, <3>3
  <2>2. CASE TestReset(t) \/ Clear(t)
    BY <2>t, <2>2 DEF TestReset, Clear, AfterReset, local
  <2>3. CASE Carry(t)
    BY <2>t, <2>3 DEF Carry, local
  <2>4. CASE Hide(t) \/ Gone(t)
    BY <2>t, <2>4 DEF Hide, Gone, local
  <2>5. CASE CompareFar(t) \/ SubtractFar(t) \/ CompareNear(t) \/ SubtractNear(t)
    BY <2>t, <2>5 DEF CompareFar, SubtractFar, CompareNear, SubtractNear
  <2>6. CASE Test(t) \/ Announce(t) \/ Leave(t)
    BY <2>t, <2>6 DEF Test, Announce, Leave, local
  <2>7. CASE Pass(t) \/ Show(t)
    BY <2>t, <2>7 DEF Pass, Show, local
  <2>8. CASE SetChunkDuration(t) \/ Drop(t) \/ End(t) \/ Raise(t) \/ Disable(t)
    BY <2>t, <2>8 DEF SetChunkDuration, Drop, End, Raise, Disable
  <2> QED BY <2>1, <2>2, <2>3, <2>4, <2>5, <2>6, <2>7, <2>8 DEF Work, InCall
<1> QED BY <1>1, <1>2

\* The object keeps the announced times until something is exempt.
LEMMA SyncStep ==
  ASSUME TypeOK, NEW t \in Thread, Work(t), KindOK(t), SyncOK
  PROVE  SyncOK'
<1> SUFFICES ASSUME ~exempt', ~disable'
             PROVE  \/ \A k \in Track : last'[k] = published'[k] /\ avail'[k]
                    \/ reset'.on /\ reset'.type = "immediately" /\ \A u \in Thread : pc'[u] \in Early
  BY DEF SyncOK
<1> DEFINE Same == \A k \in Track : last[k] = published[k] /\ avail[k]
<1> DEFINE Pending == reset.on /\ reset.type = "immediately" /\ \A u \in Thread : pc[u] \in Early
<1>a. ~exempt /\ ~disable /\ (Same \/ Pending)
  BY Lasting DEF SyncOK
<1>t. pc \in [Thread -> At] /\ call[t].track \in Track
      /\ reset \in [on : BOOLEAN, type : ResetType, time : Time]
      /\ last \in [Track -> Time] /\ published \in [Track -> Time]
      /\ avail \in [Track -> BOOLEAN]
  BY DEF TypeOK
<1> HIDE DEF Same, Pending
<1>1. CASE Take(t)
  <2>1. UNCHANGED <<last, avail, reset, published>> /\ pc'[t] \in Early
        /\ \A u \in Thread : u # t => pc'[u] = pc[u]
    BY <1>a, <1>t, <1>1 DEF Take, shared, Goto, Early
  <2> QED BY <1>a, <2>1 DEF Same, Pending
<1>2. CASE SetChunkDuration(t) \/ Raise(t) \/ TestReset(t)
  <2>1. UNCHANGED <<last, avail, published>> /\ reset'.type = reset.type
        /\ (reset.on => reset'.on)
    BY <1>t, <1>2 DEF SetChunkDuration, Raise, TestReset, shared, history
  <2>2. (reset.on => pc'[t] \in Early) /\ \A u \in Thread : u # t => pc'[u] = pc[u]
    BY <1>t, <1>2 DEF SetChunkDuration, Raise, TestReset, Goto, Early
  <2> QED BY <1>a, <2>1, <2>2 DEF Same, Pending
<1>3. CASE Carry(t)
  <2>1. \A k \in ResetTracks : last'[k] = published'[k]
    BY <1>3 DEF Carry
  <2>2. CASE Same
    <3>1. \A k \in Track \ ResetTracks : last'[k] = last[k] /\ published'[k] = published[k]
      BY <1>t, <1>3 DEF Carry
    <3>2. \A k \in Track : avail'[k]
      BY <1>t, <1>3, <2>2 DEF Carry, Same
    <3> QED BY <2>1, <2>2, <3>1, <3>2 DEF Same
  <2>3. CASE Pending
    <3>1. ResetTracks = Track
      BY <2>3 DEF Pending, ResetTracks
    <3>2. \A k \in Track : avail'[k]
      BY <1>t, <1>3, <2>3 DEF Carry, Pending
    <3> QED BY <2>1, <3>1, <3>2
  <2> QED BY <1>a, <2>2, <2>3
<1>4. CASE Clear(t)
  <2>1. Same
    BY <1>a, <1>4 DEF Clear, Pending, Early
  <2> QED BY <1>4, <2>1 DEF Clear, Same, history
<1>5. CASE Hide(t) \/ Gone(t)
  BY <1>a, <1>5 DEF Hide, Gone, KindOK
<1>6. CASE CompareFar(t) \/ SubtractFar(t) \/ CompareNear(t) \/ SubtractNear(t) \/ Test(t) \/ Leave(t)
  <2>1. Same
    BY <1>a, <1>6 DEF CompareFar, SubtractFar, CompareNear, SubtractNear, Test, Leave,
       Pending, Early
  <2> QED BY <1>6, <2>1 DEF CompareFar, SubtractFar, CompareNear, SubtractNear, Test, Leave,
          Same, shared, history
<1>7. CASE Announce(t)
  <2>1. Same
    BY <1>a, <1>7 DEF Announce, Pending, Early
  <2> QED BY <1>t, <1>7, <2>1 DEF Announce, Same
<1>8. CASE Pass(t)
  <2>1. Same
    BY <1>a, <1>8 DEF Pass, Pending, Early
  <2> QED BY <1>t, <1>8, <2>1 DEF Pass, Same
<1>9. CASE Show(t)
  <2>1. Same
    BY <1>a, <1>9 DEF Show, Pending, Early
  <2> QED BY <1>t, <1>9, <2>1 DEF Show, Same, history
<1>10. CASE Drop(t)
  <2>1. Same
    BY <1>a, <1>10 DEF Drop, Pending
  <2> QED BY <1>10, <2>1 DEF Drop, Same
<1>11. CASE End(t)
  <2>1. UNCHANGED <<last, avail, published>> /\ reset'.type = "immediately"
        /\ reset'.on = reset.on
    BY <1>t, <1>11 DEF End, history
  <2>2. pc'[t] \in Early /\ \A u \in Thread : u # t => pc'[u] = pc[u]
    BY <1>t, <1>11 DEF End, Goto, Early
  <2> QED BY <1>a, <2>1, <2>2 DEF Same, Pending
<1>12. CASE Disable(t)
  BY <1>12 DEF Disable
<1> QED BY <1>1, <1>2, <1>3, <1>4, <1>5, <1>6, <1>7, <1>8, <1>9, <1>10, <1>11, <1>12
        DEF Work, InCall

\* A track's announced and passed times change only by its own thread, to the
\* time of its sample.
LEMMA Publishes ==
  ASSUME TypeOK, NEW t \in Thread, OwnOK(t), Work(t), ~disable, NEW k \in Track
  PROVE  LET mine == /\ owner[k] = t /\ call[t].track = k
                     /\ pc[t] \in {"carry", "announce", "pass"}
         IN  /\ published'[k] = published[k] \/ (mine /\ published'[k] = call[t].time)
             /\ \/ peak'[k] = peak[k]
                \/ mine /\ pc[t] = "pass" /\ peak'[k] = Higher(peak[k], call[t].time)
<1> USE DEF TypeOK
<1>1. CASE Carry(t)
  BY <1>1 DEF Carry, OwnOK, InCheckAndWait, At
<1>2. CASE Announce(t)
  BY <1>2 DEF Announce, OwnOK, InCheckAndWait, At
<1>3. CASE Pass(t)
  BY <1>3 DEF Pass, OwnOK, InCheckAndWait, At
<1>4. CASE ~(Carry(t) \/ Announce(t) \/ Pass(t))
  <2>1. UNCHANGED <<published, peak>>
    BY <1>4 DEF Work, InCall, SetChunkDuration, Take, TestReset, Clear, Hide, Gone,
       CompareFar, SubtractFar, CompareNear, SubtractNear, Test, Leave, Show, Drop,
       End, Raise, Disable, history
  <2> QED BY <2>1
<1> QED BY <1>1, <1>2, <1>3, <1>4

\* Higher is the maximum of two times.
LEMMA HigherMax ==
  \A a, b \in Time : /\ Higher(a, b) \in Time /\ Higher(a, b) >= a /\ Higher(a, b) >= b
                     /\ Higher(a, b) = a \/ Higher(a, b) = b
BY SyncAssumption DEF Higher, Time

\* Each step keeps what the other parts of SkewInv say of a track or a thread.
LEMMA CoverStep ==
  ASSUME TypeOK, NEW t \in Thread, Work(t), \A v \in Thread : OwnOK(v),
         KindOK(t), NEW k \in Track, CoverOK(k)
  PROVE  CoverOK(k)'
<1> SUFFICES ASSUME ~exempt', ~disable'
             PROVE  LET o == owner'[k]
                    IN  \/ published'[k] <= peak'[k]
                        \/ /\ call'[o].track = k /\ published'[k] = call'[o].time
                           /\ pc'[o] \in InCheckAndWait \ {"reset", "carry", "hide", "gone", "show"}
  BY DEF CoverOK
<1> DEFINE Placed(place) == place \in InCheckAndWait \ {"reset", "carry", "hide", "gone", "show"}
<1>a. ~exempt /\ ~disable /\ owner' = owner
  BY Lasting
<1>t. /\ pc \in [Thread -> At] /\ call[t].track \in Track /\ owner[k] \in Thread
      /\ call[t].time \in Time /\ peak[k] \in Time /\ published[k] \in Time
  BY SyncAssumption DEF TypeOK, Owners, Thread, Track, Time
<1>1. CASE owner[k] # t
  <2>1. published'[k] = published[k] /\ peak'[k] = peak[k]
    BY <1>a, <1>1, Publishes
  <2>2. pc'[owner[k]] = pc[owner[k]] /\ call'[owner[k]] = call[owner[k]]
    BY <1>t, <1>1, Frame
  <2> QED BY <1>a, <2>1, <2>2 DEF CoverOK
<1>2. CASE owner[k] = t
  <2> USE DEF Goto, InCheckAndWait, At
  <2>c. \/ published[k] <= peak[k]
        \/ call[t].track = k /\ published[k] = call[t].time /\ Placed(pc[t])
    BY <1>a, <1>2 DEF CoverOK
  <2>1. CASE Carry(t)
    <3>1. published[k] <= peak[k]
      BY <2>1, <2>c DEF Carry
    <3>2. call' = call /\ Placed(pc'[t]) /\ peak'[k] = peak[k]
      BY <1>t, <2>1 DEF Carry, local
    <3>3. published'[k] = published[k] \/ (call[t].track = k /\ published'[k] = call[t].time)
      BY <1>a, Publishes
    <3> QED BY <1>a, <1>2, <3>1, <3>2, <3>3
  <2>2. CASE Announce(t)
    <3>1. call' = call /\ Placed(pc'[t]) /\ peak'[k] = peak[k]
      BY <1>t, <2>2 DEF Announce, local
    <3>2. published'[k] = published[k] \/ (call[t].track = k /\ published'[k] = call[t].time)
      BY <1>a, Publishes
    <3> QED BY <1>a, <1>2, <2>c, <3>1, <3>2
  <2>3. CASE Pass(t)
    <3>1. CASE call[t].track = k
      <4>1. published'[k] = call[t].time /\ peak'[k] = Higher(peak[k], call[t].time)
        BY <2>3, <3>1 DEF Pass, TypeOK
      <4> QED BY <1>t, <4>1, HigherMax
    <3>2. CASE call[t].track # k
      <4>1. published'[k] = published[k] /\ peak'[k] = peak[k]
        BY <1>a, <3>2, Publishes
      <4> QED BY <2>c, <3>2, <4>1
    <3> QED BY <3>1, <3>2
  <2>4. CASE Hide(t) \/ Gone(t)
    BY <1>a, <2>4 DEF Hide, Gone, KindOK
  <2>5. CASE TestReset(t) \/ Clear(t) \/ CompareFar(t) \/ SubtractFar(t) \/ CompareNear(t)
             \/ SubtractNear(t) \/ Test(t) \/ Leave(t)
    <3>1. UNCHANGED <<published, peak, call>>
      BY <2>5 DEF TestReset, Clear, CompareFar, SubtractFar, CompareNear, SubtractNear,
         Test, Leave, local, history
    <3>2. Placed(pc[t]) => Placed(pc'[t])
      BY <1>a, <1>t, <2>5 DEF TestReset, Clear, CompareFar, SubtractFar, CompareNear,
         SubtractNear, Test, Leave, AfterReset, KindOK
    <3> QED BY <1>a, <1>2, <2>c, <3>1, <3>2
  <2>6. CASE SetChunkDuration(t) \/ Take(t) \/ Show(t) \/ Drop(t) \/ End(t) \/ Raise(t) \/ Disable(t)
    <3>1. ~Placed(pc[t])
      BY <2>6 DEF SetChunkDuration, Take, Show, Drop, End, Raise, Disable
    <3>2. UNCHANGED <<published, peak>>
      BY <1>a, <2>6 DEF SetChunkDuration, Take, Show, Drop, End, Raise, Disable, history
    <3> QED BY <2>c, <3>1, <3>2
  <2> QED BY <2>1, <2>2, <2>3, <2>4, <2>5, <2>6 DEF Work, InCall
<1> QED BY <1>1, <1>2

\* While nothing is exempt, a track never goes back behind where it has come.
LEMMA Grows ==
  ASSUME TypeOK, NEW t \in Thread, Work(t), OwnOK(t), ~exempt', ~disable',
         NEW k \in Track, CoverOK(k)
  PROVE  Come(k) \in Nat /\ Come(k)' \in Nat /\ Come(k) <= Come(k)'
<1>a. ~exempt /\ ~disable
  BY Lasting
<1>t. /\ call[t].time \in Time /\ peak[k] \in Time /\ published[k] \in Time
      /\ Time \subseteq Nat /\ peak[k] \in Nat /\ published[k] \in Nat
  BY SyncAssumption DEF TypeOK, Time
<1>1. peak'[k] \in Time /\ peak'[k] \in Nat /\ peak[k] <= peak'[k]
  BY <1>a, <1>t, Publishes, HigherMax DEF Time
<1>2. published'[k] = published[k] \/ (published'[k] = call[t].time /\ owner[k] = t)
  BY <1>a, Publishes
<1>3. published[k] <= peak[k] \/ (published[k] = call[owner[k]].time)
  BY <1>a DEF CoverOK
<1>4. CASE published[k] <= peak[k]
  <2>1. Come(k) <= peak[k]
    BY <1>t, <1>4, HigherMax DEF Come
  <2>2. published'[k] \in Time
    BY <1>t, <1>2
  <2>3. peak'[k] <= Come(k)' /\ Come(k)' \in Time /\ Come(k) \in Time
    BY <1>t, <1>1, <2>2, HigherMax DEF Come
  <2>4. Come(k)' \in Nat /\ Come(k) \in Nat
    BY <1>t, <2>3
  <2> QED BY <1>t, <1>1, <2>1, <2>3, <2>4
<1>5. CASE published'[k] = published[k]
  <2>1. Come(k) \in Time /\ Come(k)' \in Time
    BY <1>t, <1>1, <1>5, HigherMax DEF Come
  <2>2. Come(k) <= Come(k)'
    BY <1>t, <1>1, <1>5 DEF Come, Higher
  <2> QED BY <1>t, <2>1, <2>2
<1> QED BY <1>2, <1>3, <1>4, <1>5

\* A sample is at most a lead after the first gap.
LEMMA FarReach ==
  ASSUME TypeOK, NEW t \in Thread, FarOK(t)
  PROVE  \E l \in Leads : call[t].time <= far[t] + l
<1>t. call[t].time \in Nat /\ W \in Nat
  BY SyncAssumption DEF TypeOK
<1>1. ASSUME NEW l \in Leads, far[t] = 0, call[t].time <= l
      PROVE  call[t].time <= far[t] + l
  BY <1>t, <1>1, LeadType
<1>2. ASSUME NEW l \in Leads, far[t] = Minus(call[t].time, l)
      PROVE  call[t].time <= far[t] + l
  BY <1>t, <1>2, LeadType DEF Minus
<1> QED BY <1>1, <1>2 DEF FarOK

LEMMA ReachStep ==
  ASSUME TypeOK, NEW t \in Thread, Work(t), \A v \in Thread : OwnOK(v) /\ LeadOK(v),
         NEW u \in Thread, ReachOK(u)
  PROVE  ReachOK(u)'
<1>1. CASE u # t
  BY <1>1, Frame DEF ReachOK
<1>2. CASE u = t
  <2> USE <1>2 DEF Goto, At
  <2>t. /\ pc \in [Thread -> At] /\ call[t].time \in Nat /\ near \in [Thread -> Time]
        /\ W \in Nat
    BY SyncAssumption DEF TypeOK
  <2>1. CASE CompareNear(t)
    <3>1. near'[t] = 0 /\ call' = call /\ lead \in Leads
      BY <2>t, <2>1 DEF CompareNear, LeadOK
    <3>2. pc'[t] = "test" => call[t].time <= lead \div 2
      BY <2>t, <2>1, <3>1, LeadType DEF CompareNear
    <3>3. pc'[t] = "test" => call[t].time <= 0 + lead
      BY <2>t, <3>1, <3>2, LeadType
    <3>4. pc'[t] \in {"test", "near2"}
      BY <2>t, <2>1 DEF CompareNear
    <3> QED BY <3>1, <3>3, <3>4 DEF ReachOK
  <2>2. CASE SubtractNear(t)
    <3>1. near'[t] = Minus(call[t].time, lead \div 2) /\ call' = call /\ lead \in Leads
      BY <2>t, <2>2 DEF SubtractNear, LeadOK
    <3>2. call[t].time <= near'[t] + lead
      BY <2>t, <3>1, LeadType DEF Minus
    <3> QED BY <3>1, <3>2 DEF ReachOK
  <2>3. CASE Test(t) \/ Announce(t)
    <3>1. UNCHANGED <<call, near>> /\ pc[t] \in {"test", "announce"}
      BY <2>3 DEF Test, Announce, local
    <3> QED BY <3>1 DEF ReachOK
  <2>4. CASE ~(CompareNear(t) \/ SubtractNear(t) \/ Test(t) \/ Announce(t))
    <3>1. pc'[t] \notin {"test", "announce", "wait"}
      BY <2>t, <2>4 DEF Work, InCall, SetChunkDuration, Take, TestReset, Carry, Clear,
         Hide, Gone, CompareFar, SubtractFar, Leave, Pass, Show, Drop, End, Raise,
         Disable, AfterReset
    <3> QED BY <3>1 DEF ReachOK
  <2> QED BY <2>1, <2>2, <2>3, <2>4
<1> QED BY <1>1, <1>2

LEMMA PassStep ==
  ASSUME TypeOK, TypeOK', NEW t \in Thread, Work(t),
         \A v \in Thread : ThreadOK(v) /\ KindOK(v) /\ ReachOK(v),
         SyncOK, \A k \in Track : CoverOK(k), NEW u \in Thread, PassOK(u)
  PROVE  PassOK(u)'
<1> SUFFICES ASSUME ~exempt', ~disable', ~stop',
                    pc'[u] = "pass" \/ (pc'[u] = "announce" /\ ~must'[u])
             PROVE  \E l \in Leads : call'[u].time <= Come(Other(call[u].track))' + l
  BY DEF PassOK
<1>a. ~exempt /\ ~disable /\ ~stop /\ (\A v \in Thread : OwnOK(v))
  BY Lasting DEF ThreadOK
<1>b. \A k \in Track : Come(k) \in Nat /\ Come(k)' \in Nat /\ Come(k) <= Come(k)'
  BY <1>a, Grows
<1>k. PICK k \in Track, o \in Track : call[u].track = k /\ Other(k) = o
  BY DEF TypeOK, Other, Track
<1>t. /\ pc \in [Thread -> At] /\ call[u].time \in Nat
      /\ last \in [Track -> Time] /\ avail \in [Track -> BOOLEAN] /\ Time \subseteq Nat
      /\ must \in [Thread -> BOOLEAN] /\ far[u] \in Nat /\ near[u] \in Nat
      /\ peak[o] \in Time /\ published[o] \in Time /\ published[o] \in Nat
  BY SyncAssumption DEF TypeOK, Other, Track, Time
<1>s. pc[u] \notin Early => last[o] = published[o] /\ avail[o]
  BY <1>a, <1>t DEF SyncOK
<1>c. published[o] <= Come(o)
  BY <1>t, HigherMax DEF Come
<1>l. \A l \in Leads : l \in Nat
  BY LeadType
<1>1. CASE call'[u] = call[u] /\ \E l \in Leads : call[u].time <= Come(o) + l
  <2>1. PICK l \in Leads : call[u].time <= Come(o) + l
    BY <1>1
  <2>2. call[u].time <= Come(o)' + l
    BY <1>b, <1>t, <1>l, <2>1
  <2>3. Come(Other(call[u].track))' = Come(o)'
    BY <1>1, <1>k DEF Come
  <2> QED BY <1>1, <2>2, <2>3
<1>2. CASE u # t
  <2>1. pc'[u] = pc[u] /\ call'[u] = call[u] /\ must'[u] = must[u]
    BY <1>a, <1>2, Frame
  <2> QED BY <1>1, <1>a, <1>k, <2>1 DEF PassOK
<1>3. CASE u = t
  <2>1. CASE Test(t)
    <3>1. pc[t] = "test" /\ call' = call /\ pc'[t] = "announce"
      BY <1>t, <1>3, <2>1 DEF Test, Goto
    <3>2. must'[t] = /\ call[t].kind # "forced" /\ avail[o] /\ far[t] > last[o]
                     /\ tid'[k] # tid'[o]
      BY <1>k, <1>t, <1>3, <2>1 DEF Test, TypeOK
    <3>3. call[t].kind = "media"
      BY <1>a, <3>1 DEF KindOK, InCheckAndWait, At
    <3>4. tid'[k] # tid'[o]
      BY <1>3, <1>k, <2>1 DEF Test
    <3>5. far[t] <= last[o] /\ last[o] = published[o]
      BY <1>3, <1>s, <1>t, <3>1, <3>2, <3>3, <3>4 DEF Early
    <3>6. FarOK(t)
      BY <3>1 DEF ThreadOK, GapOK
    <3>7. PICK l \in Leads : call[t].time <= far[t] + l
      BY <3>6, FarReach
    <3>8. call[t].time <= Come(o) + l
      BY <1>3, <1>b, <1>c, <1>l, <1>t, <3>5, <3>7
    <3> QED BY <1>1, <1>3, <3>1, <3>8
  <2>2. CASE Announce(t)
    <3>1. pc[t] = "announce" /\ call' = call /\ ~must[t]
      BY <1>t, <1>3, <2>2 DEF Announce, Goto, local
    <3> QED BY <1>1, <1>3, <1>a, <1>k, <3>1 DEF PassOK
  <2>3. CASE Leave(t)
    <3>1. pc[t] = "wait" /\ call' = call /\ near[t] <= last[o]
      BY <1>a, <1>k, <1>3, <1>s, <1>t, <2>3 DEF Leave, Held, local, Early
    <3>2. PICK l \in Leads : call[t].time <= near[t] + l
      BY <3>1 DEF ReachOK
    <3>3. call[t].time <= Come(o) + l
      <4>1. last[o] = published[o]
        BY <1>3, <1>s, <3>1 DEF Early
      <4> QED BY <1>3, <1>b, <1>c, <1>l, <1>t, <3>1, <3>2, <4>1
    <3> QED BY <1>1, <1>3, <3>1, <3>3
  <2>4. CASE ~(Test(t) \/ Announce(t) \/ Leave(t))
    <3>1. pc'[t] \notin {"announce", "pass"}
      BY <1>t, <2>4 DEF Work, InCall, SetChunkDuration, Take, TestReset, Carry, Clear,
         Hide, Gone, CompareFar, SubtractFar, CompareNear, SubtractNear, Pass, Show,
         Drop, End, Raise, Disable, AfterReset, Goto, At
    <3> QED BY <1>3, <3>1
  <2> QED BY <2>1, <2>2, <2>3, <2>4
<1> QED BY <1>2, <1>3

LEMMA SkewStep ==
  ASSUME TypeOK, NEW t \in Thread, Work(t), \A v \in Thread : OwnOK(v) /\ PassOK(v),
         \A k \in Track : CoverOK(k), Skew
  PROVE  Skew'
<1> SUFFICES ASSUME ~exempt', ~disable', ~stop', NEW k \in Track
             PROVE  \E l \in Leads : peak'[k] <= Come(Other(k))' + l
  BY DEF Skew, Come
<1>a. ~exempt /\ ~disable /\ ~stop
  BY Lasting
<1> DEFINE o == Other(k)
<1>t. /\ o \in Track /\ peak[k] \in Nat /\ call[t].time \in Nat
      /\ \A l \in Leads : l \in Nat
  BY SyncAssumption, LeadType DEF TypeOK, Other, Track, Time
<1>b. Come(o) \in Nat /\ Come(o)' \in Nat /\ Come(o) <= Come(o)'
  BY <1>t, Grows
<1>1. PICK l \in Leads : peak[k] <= Come(o) + l
  BY <1>a DEF Skew, Come
<1>2. CASE peak'[k] = peak[k]
  <2>1. peak[k] <= Come(o)' + l
    BY <1>1, <1>b, <1>t
  <2> QED BY <1>2, <2>1
<1>3. CASE call[t].track = k /\ pc[t] = "pass" /\ peak'[k] = Higher(peak[k], call[t].time)
  <2>1. PICK m \in Leads : call[t].time <= Come(o) + m
    BY <1>3, <1>a DEF PassOK
  <2>2. CASE peak'[k] = peak[k]
    BY <1>2, <2>2
  <2>3. CASE peak'[k] = call[t].time
    <3>1. call[t].time <= Come(o)' + m
      BY <1>b, <1>t, <2>1
    <3> QED BY <2>3, <3>1
  <2> QED BY <1>3, <2>2, <2>3 DEF Higher
<1> QED BY <1>2, <1>3, <1>a, Publishes

\* There are chunks, so there are leads.
LEMMA LeadExists == Leads # {}
BY SyncAssumption DEF Leads

LEMMA InitSkew == Init => SkewInv
<1> SUFFICES ASSUME Init PROVE SkewInv
  OBVIOUS
<1>1. \A t \in Thread : pc[t] \in {"new", "ended"}
  BY DEF Init, Begin
<1>2. SyncOK
  BY DEF Init, SyncOK
<1>3. Skew
  <2>1. \A l \in Leads : l \in Nat
    BY LeadType
  <2> SUFFICES ASSUME NEW k \in Track
               PROVE  \E l \in Leads : peak[k] <= Higher(peak[Other(k)], published[Other(k)]) + l
    BY DEF Skew
  <2>2. PICK l \in Leads : TRUE
    BY LeadExists
  <2>3. peak[k] = 0 /\ peak[Other(k)] = 0 /\ published[Other(k)] = 0
    BY DEF Init, Other, Track
  <2>4. peak[k] <= Higher(peak[Other(k)], published[Other(k)]) + l
    BY <2>1, <2>3 DEF Higher
  <2> QED BY <2>4
<1>4. \A k \in Track : CoverOK(k)
  BY DEF Init, CoverOK
<1> QED BY <1>1, <1>2, <1>3, <1>4
        DEF SkewInv, KindOK, ReachOK, PassOK, InCheckAndWait

LEMMA StepSkew == IInv /\ SkewInv /\ [Next]_vars => SkewInv'
<1> SUFFICES ASSUME IInv, SkewInv, [Next]_vars PROVE SkewInv'
  OBVIOUS
<1>1. TypeOK /\ TypeOK' /\ \A u \in Thread : ThreadOK(u) /\ OwnOK(u) /\ LeadOK(u)
  BY TypeStep DEF IInv, ThreadOK
<1>2. ASSUME NEW t \in Thread, Work(t) PROVE SkewInv'
  <2>1. SyncOK' /\ Skew'
    BY <1>1, <1>2, SyncStep, SkewStep DEF SkewInv
  <2>2. \A u \in Thread : KindOK(u)' /\ ReachOK(u)'
    BY <1>1, <1>2, KindStep, ReachStep DEF SkewInv
  <2>3. \A u \in Thread : PassOK(u)'
    BY <1>1, <1>2, PassStep DEF SkewInv
  <2>4. \A k \in Track : CoverOK(k)'
    BY <1>1, <1>2, CoverStep DEF SkewInv
  <2> QED BY <2>1, <2>2, <2>3, <2>4 DEF SkewInv
<1>3. CASE SetStopFlag
  BY <1>3 DEF SkewInv, SetStopFlag, shared, local, history, SyncOK, KindOK, ReachOK,
     PassOK, CoverOK, Skew
<1>4. CASE Seek
  <2>1. \A t \in Thread : pc'[t] \in {"new", "ended"}
    BY <1>4 DEF Seek, Begin
  <2>2. SyncOK'
    BY <1>4, <2>1 DEF Seek, SyncOK, Early
  <2>3. PICK p \in Position : \A k \in Track : published'[k] = p /\ peak'[k] = p
    BY <1>4 DEF Seek
  <2>4. p \in Nat
    BY SyncAssumption
  <2>5. \A k \in Track : CoverOK(k)'
    BY <2>3, <2>4 DEF CoverOK
  <2>6. Skew'
    <3>1. PICK l \in Leads : l \in Nat
      BY LeadExists, LeadType
    <3>2. \A k \in Track : Other(k) \in Track
      BY DEF Other, Track
    <3>3. \A k \in Track : peak'[k] <= Higher(peak'[Other(k)], published'[Other(k)]) + l
      BY <2>3, <2>4, <3>1, <3>2 DEF Higher
    <3> QED BY <3>1, <3>3 DEF Skew
  <2> QED BY <2>1, <2>2, <2>5, <2>6 DEF SkewInv, KindOK, ReachOK, PassOK, InCheckAndWait
<1>5. CASE UNCHANGED vars
  BY <1>5 DEF SkewInv, vars, shared, local, history, SyncOK, KindOK, ReachOK,
     PassOK, CoverOK, Come, Skew
<1> QED BY <1>2, <1>3, <1>4, <1>5 DEF Next

\* While nothing forces samples out or replaces the reset of a seek, no track is
\* let through farther ahead of the other than the longest lead.
THEOREM SkewBounded == Spec => []Skew
<1>1. SkewInv => Skew
  BY DEF SkewInv
<1> QED BY Invariant, InitSkew, StepSkew, <1>1, PTL DEF Spec

-----------------------------------------------------------------------------
\* The proof that a thread does not wait for itself

\* The audio thread has nothing to do.
LEMMA OnlyVideo ==
  ASSUME TypeOK, AloneOK, NEW t \in Thread, Work(t)
  PROVE  t = "video"
<1> SUFFICES ASSUME t = "audio" PROVE FALSE
  BY DEF Thread, Track
<1> QED BY DEF AloneOK, Work, InCall, SetChunkDuration, Take, TestReset, Carry, Clear,
        Hide, Gone, CompareFar, SubtractFar, CompareNear, SubtractNear, Test, Announce,
        Leave, Pass, Show, Drop, End, Raise, Disable

\* The types the following proofs need
LEMMA AloneTypes ==
  ASSUME TypeOK
  PROVE  /\ "video" \in Thread /\ "audio" \in Thread
         /\ pc \in [Thread -> At] /\ reset \in [on : BOOLEAN, type : ResetType, time : Time]
         /\ Call1.track \in Track /\ Call1.time \in Nat
         /\ last \in [Track -> Time] /\ published \in [Track -> Time]
         /\ avail \in [Track -> BOOLEAN] /\ tid \in AnyId /\ fresh \subseteq Track
         /\ Time \subseteq Nat
BY SyncAssumption DEF TypeOK, Thread, Track, Call1, Time

\* The sample a thread that is not disabled takes
LEMMA AloneTake ==
  ASSUME TypeOK, AloneOK, Take("video")
  PROVE  /\ At1 \in {"new", "idle"} /\ pc' = [pc EXCEPT !["video"] = "reset"]
         /\ Call1' \in Sample("video")
         /\ fresh' = IF Call1'.kind = "unavailable" THEN fresh \ {Call1'.track} ELSE fresh
         /\ published' = published
<1>1. At1 \in {"new", "idle"} /\ ~disable
  BY DEF Take, AloneOK, At1
<1>2. PICK c \in Sample("video") : Take("video")!3!(c)
  BY DEF Take
<1>3. call' = [call EXCEPT !["video"] = c]
  BY <1>1, <1>2
<1>4. Call1' = c
  BY <1>3, AloneTypes DEF Call1, TypeOK
<1> QED BY <1>1, <1>2, <1>4 DEF Goto

\* A step of the thread keeps each part of AloneInv.
LEMMA AloneOKStep ==
  ASSUME TypeOK, Work("video"), AloneOK
  PROVE  AloneOK'
<1> USE AloneTypes DEF At1, Call1, Out, Goto, At
<1>1. owner' = owner /\ pc'["audio"] = pc["audio"]
  BY DEF Work, InCall, SetChunkDuration, Take, TestReset, Carry, Clear, Hide, Gone,
     CompareFar, SubtractFar, CompareNear, SubtractNear, Test, Announce, Leave,
     Pass, Show, Drop, End, Raise, Disable
<1>2. CASE Take("video")
  <2>1. UNCHANGED <<disable, reset, drops>> /\ At1' = "reset"
    BY <1>2, AloneTake DEF Take, shared, bounds
  <2> QED BY <1>1, <1>2, <2>1, AloneTake DEF AloneOK
<1>3. CASE SetChunkDuration("video") \/ TestReset("video") \/ Clear("video")
  BY <1>1, <1>3 DEF AloneOK, SetChunkDuration, TestReset, Clear, AfterReset, local,
     history, bounds, shared
<1>4. CASE Carry("video")
  BY <1>1, <1>4 DEF AloneOK, Carry, local, bounds
<1>5. CASE Hide("video") \/ Gone("video")
  BY <1>1, <1>5 DEF AloneOK, Hide, Gone, local, bounds
<1>6. CASE CompareFar("video") \/ SubtractFar("video") \/ CompareNear("video") \/ SubtractNear("video")
  BY <1>1, <1>6 DEF AloneOK, CompareFar, SubtractFar, CompareNear, SubtractNear, shared, bounds
<1>7. CASE Test("video") \/ Announce("video") \/ Leave("video")
  BY <1>1, <1>7 DEF AloneOK, Test, Announce, Leave, shared, local, bounds
<1>8. CASE Pass("video")
  BY <1>1, <1>8 DEF AloneOK, Pass, local, bounds
<1>9. CASE Show("video")
  BY <1>1, <1>9 DEF AloneOK, Show, bounds
<1>10. CASE Drop("video")
  <2>1. drops' # 0
    BY <1>10 DEF Drop, TypeOK
  <2>2. reset'.type = "av"
    BY <1>10 DEF Drop, AloneOK
  <2>3. pc' = [pc EXCEPT !["video"] = "raise"] /\ disable' = disable /\ pc["video"] = "idle"
    BY <1>10 DEF Drop
  <2> QED BY <1>1, <2>1, <2>2, <2>3 DEF AloneOK
<1>11. CASE End("video") \/ Raise("video") \/ Disable("video")
  <2>1. CASE End("video")
    BY <1>1, <2>1 DEF AloneOK, End, bounds
  <2>2. CASE Raise("video")
    <3>1. pc["video"] \in {"raise", "quit"} /\ reset'.type = reset.type
          /\ pc'["video"] = IF pc["video"] = "quit" THEN "disable" ELSE "new"
      BY <2>2 DEF Raise
    <3>2. UNCHANGED <<disable, fresh, drops>>
      BY <2>2 DEF Raise, history, bounds
    <3> QED BY <1>1, <3>1, <3>2 DEF AloneOK
  <2>3. CASE Disable("video")
    BY <1>1, <2>3 DEF AloneOK, Disable, bounds
  <2> QED BY <1>11, <2>1, <2>2, <2>3
<1> QED BY <1>2, <1>3, <1>4, <1>5, <1>6, <1>7, <1>8, <1>9, <1>10, <1>11 DEF Work, InCall

LEMMA StartStep ==
  ASSUME TypeOK, Work("video"), AloneOK, AloneOK', StartOK
  PROVE  StartOK'
<1> SUFFICES ASSUME reset'.on, reset'.type = "immediately", At1' \notin Out
             PROVE  /\ \A k \in Track \ fresh' : Noticed' /\ k = Call1'.track
                    /\ drops' = 0 => \A k \in fresh' : published'[k] = reset'.time
  BY DEF StartOK, Out
<1> USE AloneTypes DEF At1, Out, Goto, At
<1>1. CASE Take("video")
  <2>1. reset' = reset /\ drops' = drops
    BY <1>1 DEF Take, shared, bounds
  <2>2. Track \subseteq fresh
    BY <1>1, <2>1, AloneTake DEF StartOK, Noticed
  <2>3. \A k \in Track \ fresh' : Noticed' /\ k = Call1'.track
    BY <1>1, <2>2, AloneTake DEF Noticed
  <2> QED BY <1>1, <2>1, <2>3, AloneTake DEF StartOK
<1>2. CASE SetChunkDuration("video") \/ TestReset("video")
  BY <1>2 DEF SetChunkDuration, TestReset, StartOK, Noticed, Call1, shared, local, history, bounds
<1>3. CASE Carry("video")
  BY <1>3 DEF Carry, StartOK, Noticed, Call1, local, bounds
<1>4. CASE Clear("video")
  BY <1>4 DEF Clear
<1>5. CASE Hide("video") \/ Gone("video") \/ CompareFar("video") \/ SubtractFar("video")
           \/ CompareNear("video") \/ SubtractNear("video") \/ Test("video")
           \/ Announce("video") \/ Leave("video") \/ Pass("video") \/ Show("video")
  <2>1. ~reset.on
    BY <1>5 DEF AloneOK, Hide, Gone, CompareFar, SubtractFar, CompareNear, SubtractNear,
       Test, Announce, Leave, Pass, Show
  <2>2. reset' = reset
    BY <1>5 DEF Hide, Gone, CompareFar, SubtractFar, CompareNear, SubtractNear,
       Test, Announce, Leave, Pass, Show, shared
  <2> QED BY <2>1, <2>2
<1>6. CASE Drop("video")
  <2>1. reset'.type = "av"
    BY <1>6 DEF Drop, AloneOK
  <2> QED BY <2>1
<1>7. CASE End("video") \/ Raise("video") \/ Disable("video")
  BY <1>7 DEF End, Raise, Disable, AloneOK
<1> QED BY <1>1, <1>2, <1>3, <1>4, <1>5, <1>6, <1>7 DEF Work, InCall

LEMMA NameStep ==
  ASSUME TypeOK, Work("video"), AloneOK, StartOK, NameOK
  PROVE  NameOK'
<1> USE AloneTypes DEF At1, Out, Goto, At
<1>1. CASE Take("video")
  <2>1. UNCHANGED <<tid, avail>>
    BY <1>1 DEF Take, shared
  <2> QED BY <1>1, <2>1, AloneTake DEF NameOK, Noticed
<1>2. CASE SetChunkDuration("video") \/ TestReset("video") \/ Clear("video")
  BY <1>2 DEF SetChunkDuration, TestReset, Clear, AfterReset, NameOK, Noticed, Call1,
     shared, local, history
<1>3. CASE Carry("video")
  <2>1. UNCHANGED <<tid, fresh, call>> /\ At1 = "carry" /\ At1' = "clear"
    BY <1>3 DEF Carry, local
  <2>2. CASE reset.type = "immediately"
    <3>1. \A k \in Track \ fresh : Noticed /\ k = Call1.track
      BY <2>1, <2>2 DEF StartOK, AloneOK
    <3> QED BY <2>1, <3>1 DEF NameOK, Noticed, Call1
  <2>3. CASE reset.type # "immediately"
    <3>1. avail' = avail
      BY <1>3, <2>3 DEF Carry
    <3> QED BY <2>1, <3>1 DEF NameOK, Noticed, Call1
  <2> QED BY <2>2, <2>3
<1>4. CASE Hide("video")
  BY <1>4 DEF Hide, NameOK, Noticed, Call1, local, history
<1>5. CASE Gone("video")
  <2>1. UNCHANGED <<tid, fresh>> /\ At1 = "gone" /\ At1' = "new"
        /\ avail' = [avail EXCEPT ![Call1.track] = FALSE]
    BY <1>5 DEF Gone, Call1, history
  <2> QED BY <2>1 DEF NameOK
<1>6. CASE CompareFar("video") \/ SubtractFar("video") \/ CompareNear("video") \/ SubtractNear("video")
  BY <1>6 DEF CompareFar, SubtractFar, CompareNear, SubtractNear, NameOK, Noticed, Call1,
     shared, history
<1>7. CASE Test("video")
  BY <1>7 DEF Test, NameOK, Noticed, Call1, AnyId
<1>8. CASE Announce("video") \/ Leave("video")
  BY <1>8 DEF Announce, Leave, NameOK, Noticed, Call1, shared, local, history
<1>9. CASE Pass("video")
  <2>1. UNCHANGED <<tid, avail>> /\ fresh' = fresh \ {Call1.track} /\ At1 = "pass"
        /\ At1' \in {"idle", "new", "show"} /\ (At1' = "show" => call' = call)
    BY <1>9 DEF Pass, Call1, local
  <2> QED BY <2>1 DEF NameOK, Noticed, Call1
<1>10. CASE Show("video")
  <2>1. UNCHANGED <<tid, fresh>> /\ avail' = [avail EXCEPT ![Call1.track] = TRUE]
        /\ At1 = "show" /\ At1' \in {"idle", "new"}
    BY <1>10 DEF Show, Call1, history
  <2> QED BY <2>1 DEF NameOK, Noticed
<1>11. CASE Drop("video") \/ End("video") \/ Raise("video") \/ Disable("video")
  BY <1>11 DEF Drop, End, Raise, Disable, NameOK, Noticed, history
<1> QED BY <1>1, <1>2, <1>3, <1>4, <1>5, <1>6, <1>7, <1>8, <1>9, <1>10, <1>11 DEF Work, InCall

LEMMA BehindStep ==
  ASSUME TypeOK, Work("video"), AloneOK, StartOK, BehindOK
  PROVE  BehindOK'
<1> USE AloneTypes DEF At1, Out, Goto, At
<1> SUFFICES ASSUME drops' = 0, NEW k \in fresh'
             PROVE  \/ ~avail'[k] \/ last'[k] >= published'[k] \/ At1' \in Out
                    \/ reset'.on /\ At1' \in {"new", "idle", "reset", "carry"}
  BY DEF BehindOK, Out
<1>d. drops = 0
  BY DEF Work, InCall, SetChunkDuration, Take, TestReset, Carry, Clear, Hide, Gone,
     CompareFar, SubtractFar, CompareNear, SubtractNear, Test, Announce, Leave,
     Pass, Show, Drop, End, Raise, Disable, bounds, TypeOK
<1>k. k \in fresh /\ k \in Track
  BY DEF Work, InCall, SetChunkDuration, Take, TestReset, Carry, Clear, Hide, Gone,
     CompareFar, SubtractFar, CompareNear, SubtractNear, Test, Announce, Leave,
     Pass, Show, Drop, End, Raise, Disable, history
<1>b. \/ ~avail[k] \/ last[k] >= published[k] \/ At1 \in Out
      \/ reset.on /\ At1 \in {"new", "idle", "reset", "carry"}
  BY <1>d, <1>k DEF BehindOK
<1>1. CASE Take("video")
  BY <1>1, <1>b, AloneTake DEF Take, shared
<1>2. CASE SetChunkDuration("video") \/ TestReset("video") \/ Clear("video")
  BY <1>2, <1>b DEF SetChunkDuration, TestReset, Clear, AfterReset, shared, history
<1>3. CASE Carry("video")
  <2>1. reset.on /\ reset.type = "immediately" /\ At1 = "carry"
    BY <1>3, <1>d DEF AloneOK, Carry
  <2>2. last'[k] = reset.time /\ published' = published
    BY <1>3, <1>k, <2>1 DEF Carry, ResetTracks, ResetTime
  <2>3. published[k] = reset.time
    BY <1>d, <1>k, <2>1 DEF StartOK
  <2> QED BY <2>2, <2>3
<1>4. CASE Hide("video")
  <2>1. last' = [last EXCEPT ![Call1.track] = NotAvailable]
        /\ UNCHANGED <<avail, published>> /\ At1 = "hide"
    BY <1>4 DEF Hide, Call1, history
  <2>2. NotAvailable >= published[k]
    BY <1>k, SyncAssumption DEF NotAvailable, Time
  <2> QED BY <1>b, <1>k, <2>1, <2>2
<1>5. CASE Gone("video")
  <2>1. UNCHANGED <<last, published>> /\ At1 = "gone"
        /\ avail' = [avail EXCEPT ![Call1.track] = FALSE]
    BY <1>5 DEF Gone, Call1, history
  <2> QED BY <1>b, <1>k, <2>1
<1>6. CASE CompareFar("video") \/ SubtractFar("video") \/ CompareNear("video") \/ SubtractNear("video")
  BY <1>6, <1>b DEF CompareFar, SubtractFar, CompareNear, SubtractNear, shared, history
<1>7. CASE Test("video") \/ Leave("video")
  BY <1>7, <1>b DEF Test, Leave, shared, history
<1>8. CASE Announce("video")
  <2>1. avail' = avail /\ At1 = "announce"
    BY <1>8 DEF Announce
  <2>2. \/ UNCHANGED <<last, published>>
        \/ /\ last' = [last EXCEPT ![Call1.track] = Call1.time]
           /\ published' = [published EXCEPT ![Call1.track] = Call1.time]
    BY <1>8 DEF Announce, Call1
  <2> QED BY <1>b, <1>k, <2>1, <2>2
<1>9. CASE Pass("video")
  <2>1. /\ avail' = avail /\ At1 = "pass"
        /\ last' = [last EXCEPT ![Call1.track] = Call1.time]
        /\ published' = [published EXCEPT ![Call1.track] = Call1.time]
    BY <1>9 DEF Pass, Call1
  <2> QED BY <1>b, <1>k, <2>1
<1>10. CASE Show("video")
  <2>1. UNCHANGED <<last, published>> /\ At1 = "show" /\ k # Call1.track
        /\ avail' = [avail EXCEPT ![Call1.track] = TRUE]
    BY <1>10, <1>k DEF Show, Call1, history, AloneOK
  <2> QED BY <1>b, <1>k, <2>1
<1>11. CASE Drop("video")
  BY <1>11, <1>d DEF Drop
<1>12. CASE End("video") \/ Raise("video") \/ Disable("video")
  <2>1. At1 # "raise"
    BY <1>d DEF AloneOK
  <2> QED BY <1>12, <2>1 DEF End, Raise, Disable
<1> QED BY <1>1, <1>2, <1>3, <1>4, <1>5, <1>6, <1>7, <1>8, <1>9, <1>10, <1>11, <1>12
        DEF Work, InCall

LEMMA CloseStep ==
  ASSUME TypeOK, Work("video"), AloneOK, CloseOK
  PROVE  CloseOK'
<1> USE AloneTypes DEF At1, Goto, At
<1>1. CASE Take("video")
  <2>1. PICK c \in Sample("video") : c = Call1'
    BY <1>1, AloneTake
  <2>2. c.track \in Track /\ Other(c.track) \in Track /\ owner[c.track] = owner[Other(c.track)]
    BY <2>1 DEF Sample, Other, Track, AloneOK
  <2>3. \/ c.kind = "unavailable" \/ Other(c.track) \notin fresh
        \/ c.time <= published[Other(c.track)] + Least
    BY <2>1, <2>2 DEF Sample, MediaTime
  <2> QED BY <1>1, <2>1, <2>3, AloneTake DEF CloseOK
<1>2. CASE Carry("video")
  <2>1. UNCHANGED <<fresh, call>> /\ At1 = "carry"
    BY <1>2 DEF Carry, local
  <2>2. published'[Other(Call1.track)] = published[Other(Call1.track)]
    BY <1>2 DEF Carry, Call1, Other, Track
  <2> QED BY <2>1, <2>2 DEF CloseOK, Call1
<1>3. CASE TestReset("video") \/ Clear("video") \/ CompareFar("video") \/ SubtractFar("video")
           \/ CompareNear("video") \/ SubtractNear("video")
  BY <1>3 DEF TestReset, Clear, CompareFar, SubtractFar, CompareNear, SubtractNear,
     CloseOK, Call1, local, history
<1>4. CASE SetChunkDuration("video") \/ Hide("video") \/ Gone("video") \/ Test("video")
           \/ Announce("video") \/ Leave("video") \/ Pass("video") \/ Show("video")
           \/ Drop("video") \/ End("video") \/ Raise("video") \/ Disable("video")
  BY <1>4 DEF SetChunkDuration, Hide, Gone, Test, Announce, Leave, Pass, Show,
     Drop, End, Raise, Disable, CloseOK
<1> QED BY <1>1, <1>2, <1>3, <1>4 DEF Work, InCall

LEMMA UnwrappedStep ==
  ASSUME TypeOK, Work("video"), LeadOK("video"), UnwrappedOK
  PROVE  UnwrappedOK'
<1> USE AloneTypes DEF At1, Goto, At
<1>t. far \in [Thread -> Time]
  BY DEF TypeOK
<1>1. CASE CompareFar("video")
  BY <1>1, <1>t DEF CompareFar, UnwrappedOK, Call1, shared
<1>2. CASE SubtractFar("video")
  <2>1. At1 = "far2" /\ At1' = "near" /\ call' = call /\ far'["video"] = Minus(Call1.time, lead)
    BY <1>2, <1>t DEF SubtractFar, Call1
  <2>2. lead \in Leads /\ lead \in Nat /\ Call1.time > lead
    BY <2>1, LeadType DEF LeadOK, UnwrappedOK
  <2>3. far'["video"] + lead = Call1.time
    BY <2>1, <2>2 DEF Minus
  <2> QED BY <2>1, <2>2, <2>3 DEF UnwrappedOK, Call1
<1>3. CASE CompareNear("video") \/ SubtractNear("video")
  BY <1>3 DEF CompareNear, SubtractNear, UnwrappedOK, Call1
<1>4. CASE Test("video") \/ Announce("video")
  BY <1>4 DEF Test, Announce, UnwrappedOK, Call1, local
<1>5. CASE SetChunkDuration("video") \/ Take("video") \/ TestReset("video") \/ Carry("video")
           \/ Clear("video") \/ Hide("video") \/ Gone("video") \/ Leave("video")
           \/ Pass("video") \/ Show("video") \/ Drop("video") \/ End("video")
           \/ Raise("video") \/ Disable("video")
  <2>1. At1' \notin {"far2", "near", "near2", "test", "announce"}
    BY <1>5 DEF SetChunkDuration, Take, TestReset, Carry, Clear, Hide, Gone, Leave, Pass,
       Show, Drop, End, Raise, Disable, AfterReset
  <2> QED BY <2>1 DEF UnwrappedOK
<1> QED BY <1>1, <1>2, <1>3, <1>4, <1>5 DEF Work, InCall

\* A lead is at least the least one.
LEMMA LeadLeast == \A l \in Leads : l \in Nat /\ l >= Least /\ Least \in Nat
BY SyncAssumption, LeadType DEF Leads, Lead

LEMMA AloneMustStep ==
  ASSUME TypeOK, Work("video"), AloneOK, NameOK, BehindOK, CloseOK, UnwrappedOK, AloneMust
  PROVE  AloneMust'
<1> USE AloneTypes DEF At1, Goto, At
<1> DEFINE o == Other(Call1.track)
<1>1. CASE Test("video")
  <2>1. UNCHANGED <<call, fresh, drops>> /\ At1 = "test" /\ At1' = "announce"
    BY <1>1 DEF Test, bounds
  <2>2. SUFFICES ASSUME must'["video"] PROVE drops > 0 /\ o \in fresh
    BY <2>1 DEF AloneMust, Call1
  <2>t. o \in Track /\ o # Call1.track /\ Call1.time \in Nat /\ last[o] \in Nat
        /\ published[o] \in Nat /\ far["video"] \in Nat /\ drops \in Nat
    BY SyncAssumption DEF Other, Track, TypeOK, Time
  <2>3. avail[o] /\ far["video"] > last[o] /\ tid'["video"] = tid'["video"]
        /\ tid[o] # "video"
    BY <1>1, <2>2, <2>t DEF Test, TypeOK, Call1, AnyId
  <2>4. o \in fresh
    BY <2>1, <2>3, <2>t DEF NameOK, Noticed, Out
  <2>5. ASSUME drops = 0 PROVE FALSE
    <3>1. last[o] >= published[o]
      BY <2>1, <2>3, <2>4, <2>5 DEF BehindOK, Out
    <3>2. Call1.time <= published[o] + Least
      BY <2>1, <2>4 DEF CloseOK, AloneOK
    <3>3. far["video"] # 0
      BY <2>3, <2>t
    <3>4. PICK l \in Leads : far["video"] + l = Call1.time
      BY <2>1, <3>3 DEF UnwrappedOK
    <3>5. l \in Nat /\ l >= Least /\ Least \in Nat
      BY LeadLeast
    <3> QED BY <2>3, <2>t, <3>1, <3>2, <3>4, <3>5
  <2> QED BY <2>4, <2>5, <2>t
<1>2. CASE Announce("video")
  BY <1>2 DEF Announce, AloneMust, Call1, local, bounds
<1>3. CASE ~(Test("video") \/ Announce("video"))
  <2>1. At1' \notin {"announce", "wait"}
    BY <1>3 DEF Work, InCall, SetChunkDuration, Take, TestReset, Carry, Clear, Hide, Gone,
       CompareFar, SubtractFar, CompareNear, SubtractNear, Leave, Pass, Show, Drop, End,
       Raise, Disable, AfterReset
  <2> QED BY <2>1 DEF AloneMust
<1> QED BY <1>1, <1>2, <1>3

\* A start of a stream that multiplexes its tracks
LEMMA AloneStart ==
  /\ owner \in Owners /\ pc = Begin(owner) /\ ~disable /\ fresh = Track
  /\ reset.on /\ reset.type = "immediately" /\ \A k \in Track : published[k] = reset.time
  => AloneInv
<1> SUFFICES ASSUME owner \in Owners, Multiplexed, pc = Begin(owner), ~disable, fresh = Track,
                    reset.on, reset.type = "immediately",
                    \A k \in Track : published[k] = reset.time
             PROVE  AloneOK /\ StartOK /\ NameOK /\ BehindOK /\ CloseOK /\ UnwrappedOK /\ AloneMust
  BY DEF AloneInv
<1>1. \A k \in Track : owner[k] = "video"
  BY DEF Owners, Multiplexed, Track
<1>2. pc["audio"] = "ended" /\ At1 = "new"
  BY <1>1 DEF Begin, Thread, Track, At1
<1> QED BY <1>1, <1>2 DEF AloneOK, StartOK, NameOK, BehindOK, CloseOK, UnwrappedOK, AloneMust, Out

LEMMA InitAlone == Init => AloneInv
BY AloneStart DEF Init

LEMMA StepAlone == IInv /\ AloneInv /\ [Next]_vars => AloneInv'
<1> SUFFICES ASSUME IInv, AloneInv, [Next]_vars PROVE AloneInv'
  OBVIOUS
<1>1. TypeOK /\ TypeOK' /\ \A t \in Thread : LeadOK(t)
  BY TypeStep DEF IInv, ThreadOK
<1>2. ASSUME NEW t \in Thread, Work(t), Multiplexed' PROVE AloneInv'
  <2>1. Multiplexed
    BY <1>1, <1>2, Lasting DEF Multiplexed
  <2>2. AloneOK /\ StartOK /\ NameOK /\ BehindOK /\ CloseOK /\ UnwrappedOK /\ AloneMust
    BY <2>1 DEF AloneInv
  <2>3. t = "video"
    BY <1>1, <1>2, <2>2, OnlyVideo
  <2>4. Work("video") /\ LeadOK("video")
    BY <1>1, <1>2, <2>3
  <2>5. AloneOK'
    BY <1>1, <2>2, <2>4, AloneOKStep
  <2>6. StartOK' /\ NameOK' /\ BehindOK'
    BY <1>1, <2>2, <2>4, <2>5, StartStep, NameStep, BehindStep
  <2>7. CloseOK' /\ UnwrappedOK' /\ AloneMust'
    BY <1>1, <2>2, <2>4, CloseStep, UnwrappedStep, AloneMustStep
  <2> QED BY <2>5, <2>6, <2>7 DEF AloneInv
<1>3. CASE SetStopFlag \/ UNCHANGED vars
  <2>1. UNCHANGED <<shared, owner, pc, local, history, bounds>>
    BY <1>3 DEF SetStopFlag, vars
  <2> QED BY <2>1 DEF AloneInv, Multiplexed, AloneOK, StartOK, NameOK, BehindOK, CloseOK,
          UnwrappedOK, AloneMust, At1, Call1, Noticed, shared, local, history, bounds
<1>4. CASE Seek
  <2>1. PICK p \in Position : /\ reset' = [on |-> TRUE, type |-> "immediately", time |-> p]
                              /\ published' = [k \in Track |-> p]
    BY <1>4 DEF Seek
  <2>2. owner' \in Owners /\ pc' = Begin(owner)' /\ ~disable' /\ fresh' = Track
    BY <1>4 DEF Seek, Begin
  <2>3. reset'.on /\ reset'.type = "immediately" /\ \A k \in Track : published'[k] = reset'.time
    BY <2>1
  <2>4. (/\ owner \in Owners /\ pc = Begin(owner) /\ ~disable /\ fresh = Track
         /\ reset.on /\ reset.type = "immediately"
         /\ \A k \in Track : published[k] = reset.time
         => AloneInv)'
    BY AloneStart, PTL
  <2> QED BY <2>2, <2>3, <2>4
<1>5. ASSUME ~Multiplexed' PROVE AloneInv'
  BY <1>5 DEF AloneInv
<1> QED BY <1>2, <1>3, <1>4, <1>5 DEF Next

\* The thread of a multiplexed stream never waits for itself, unless a chunk was
\* dropped before the other track's first sample: whatever identities the tracks
\* had, whatever became unavailable and however often playing was started.
THEOREM NeverItself == Spec => []NoSelfWait
<1>1. IInv /\ AloneInv => NoSelfWait
  <2> SUFFICES ASSUME IInv, AloneInv, NEW t \in Thread, Waiting(t),
                      owner[Other(call[t].track)] = t
               PROVE  drops > 0 /\ Other(call[t].track) \in fresh
    BY DEF NoSelfWait
  <2>1. pc[t] = "wait" /\ owner[call[t].track] = t /\ owner \in Owners
        /\ call[t].track \in Track
    BY DEF Waiting, IInv, TypeOK, ThreadOK, OwnOK, InCheckAndWait, At
  <2>2. Multiplexed /\ t = "video"
    BY <2>1 DEF Multiplexed, Owners, Other, Track
  <2> QED BY <2>1, <2>2 DEF AloneInv, AloneMust, At1, Call1
<1> QED BY Invariant, InitAlone, StepAlone, <1>1, PTL DEF Spec

=============================================================================
