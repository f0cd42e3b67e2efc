--------------------------- MODULE TimeStampSync ---------------------------
(***************************************************************************)
(* voAdaptiveStreamingTimeStampSync: how the item threads of audio and     *)
(* video hold each other back, so that neither downloads far ahead.        *)
(*                                                                         *)
(* The object has no lock of its own: each time is a voLockedObject, read  *)
(* and written on its own, and the flags are plain fields.  A step is one  *)
(* such access (or the accesses of one field group), so the steps of the   *)
(* two threads interleave inside CheckAndWait.  A thread delivers one      *)
(* track, or both when the stream multiplexes them.                        *)
(***************************************************************************)
EXTENDS Integers

CONSTANTS
    W,          \* the number of values of a VO_U64
    Duration,   \* durations of chunks
    Margin,     \* 1000 ms
    Least,      \* 5000 ms
    First,      \* MAXDELTA, 2000 ms
    Step,       \* how far a sample may be after the one before it
    Back,       \* how far a sample may be before the one before it
    Position,   \* where playing may start
    Horizon,    \* bounds the times of samples
    MaxStarts,  \* bounds how often the threads are started
    MaxDrops,   \* bounds the dropped chunks
    Absent      \* whether a track may be unavailable, or forced out

\* m_max_deltavalue after a chunk of a duration has begun
Lead(duration) == IF duration + Margin > Least THEN duration + Margin ELSE Least
Leads == {Lead(d) : d \in Duration}

ASSUME SyncAssumption ==
    /\ Duration \subseteq Nat /\ Duration # {} /\ Margin \in Nat /\ Least \in Nat /\ First \in Nat
    /\ Step \subseteq Nat /\ Back \subseteq Nat /\ Position \subseteq Nat
    /\ Horizon \in Nat /\ MaxStarts \in Nat /\ MaxDrops \in Nat
    /\ Absent \in BOOLEAN
    /\ W \in Nat /\ Horizon < W - 1
    /\ \A p \in Position : p < W - 1
    /\ First < W /\ \A l \in Leads : l < W

\* The chunks' durations are of one order, and a sample is either near the
\* one before it or, after a gap, farther away than any lead.
ASSUME StepAssumption ==
    \A l, m \in Leads :
        /\ m \div 2 <= l
        /\ \A s \in Step : s <= l \div 2 \/ s > m

NotAvailable == W - 1               \* TIMESTAMPNOTAVALIABLE
Track == {"audio", "video"}
Thread == Track                     \* the item threads, by their type
Other(k) == IF k = "audio" THEN "video" ELSE "audio"

VARIABLES
    last,       \* m_last_audiotime, m_last_videotime
    avail,      \* m_isaudioavalible, m_isvideoavalible
    disable,    \* m_disable
    lead,       \* m_max_deltavalue
    reset,      \* m_bReset, m_nResetType, m_nResetTime
    tid,        \* m_nAudioThreadID, m_nVideoThreadID: garbage at first
    stop,       \* the controller's m_is_stop
    owner,      \* the thread that delivers each track
    pc,         \* where each thread is
    call,       \* the sample each thread is in CheckAndWait with
    far, near,  \* uGap and uGap2 of that call
    must,       \* bMust2Wait of that call
    published,  \* history: what a track's own thread last announced
    fresh,      \* history: tracks with no sample since the start
    disturbed,  \* history: tracks whose announced time a reset replaced
    peak,       \* history: the latest sample of each track let through
    exempt,     \* history: something let a track run ahead since the start
    starts, drops

shared == <<last, avail, disable, lead, reset, tid>>
local == <<call, far, near, must>>
history == <<published, fresh, disturbed, peak, exempt>>
bounds == <<starts, drops>>
vars == <<shared, stop, owner, pc, local, history, bounds>>

Kind == {"media", "forced", "unavailable"}
ResetType == {"immediately", "video", "audio", "av"}
At == {"new", "idle", "reset", "carry", "clear", "hide", "gone", "far",
       "far2", "near", "near2", "test", "announce", "wait", "pass", "show",
       "raise", "quit", "disable", "ended"}

NoCall == [track |-> "audio", kind |-> "media", time |-> 0]
Owners == {[k \in Track |-> k], [k \in Track |-> "video"]}
Begin(own) ==
    [t \in Thread |-> IF \E k \in Track : own[k] = t THEN "new" ELSE "ended"]

\* Identities of threads that ended may be those of the threads that begin.
AnyId == [Track -> Thread \cup {"other"}]

Init ==
    /\ last = [k \in Track |-> 0]
    /\ avail = [k \in Track |-> TRUE]
    /\ disable = FALSE
    /\ lead = First
    /\ reset = [on |-> TRUE, type |-> "immediately", time |-> 0]
    /\ tid \in AnyId
    /\ stop = FALSE
    /\ owner \in Owners
    /\ pc = Begin(owner)
    /\ call = [t \in Thread |-> NoCall]
    /\ far = [t \in Thread |-> 0] /\ near = [t \in Thread |-> 0]
    /\ must = [t \in Thread |-> FALSE]
    /\ published = [k \in Track |-> 0]
    /\ fresh = Track
    /\ disturbed = {}
    /\ peak = [k \in Track |-> 0]
    /\ exempt = FALSE
    /\ starts = 1 /\ drops = 0

Goto(t, place) == pc' = [pc EXCEPT ![t] = place]

\* What a call has computed is forgotten when it returns.
Return(t) ==
    /\ call' = [call EXCEPT ![t] = NoCall]
    /\ far' = [far EXCEPT ![t] = 0] /\ near' = [near EXCEPT ![t] = 0]
    /\ must' = [must EXCEPT ![t] = FALSE]

-----------------------------------------------------------------------------
\* Chunks and samples of the item threads

\* The chunk's duration is told before its first sample.
SetChunkDuration(t) ==
    /\ pc[t] = "new"
    /\ \E d \in Duration : lead' = Lead(d)
    /\ Goto(t, "idle")
    /\ UNCHANGED <<last, avail, disable, reset, tid, stop, owner, local,
                   history, bounds>>

\* The time of the next sample of a track.  The first ones after a start are
\* near the position the start was for, and those of a multiplex near each
\* other until both tracks have begun.
MediaTime(k) ==
    {time \in 0 .. Horizon :
        /\ \/ \E s \in Step : time = published[k] + s /\ (k \in fresh => s <= Least)
           \/ \E b \in Back : time + b = published[k]
        /\ owner[k] = owner[Other(k)] /\ Other(k) \in fresh
               => time <= published[Other(k)] + Least}

\* The samples a thread may have: of a chunk; of an audio chunk after a
\* dropped one, which is forced out; or the notice that a track is
\* unavailable, which needs no chunk.
Sample(t) ==
    {c \in [track : {k \in Track : owner[k] = t}, kind : Kind, time : 0 .. Horizon] :
        /\ c.kind = "unavailable" => Absent /\ c.time \in {0, published[c.track] + 1}
        /\ c.kind # "unavailable" => pc[t] = "idle" /\ c.time \in MediaTime(c.track)
        /\ c.kind = "forced" => Absent /\ t = "audio"}

Higher(a, b) == IF a > b THEN a ELSE b

\* CheckAndWait is entered; a disabled object lets the sample through.  Item
\* threads stop soon after the controller, which is not told apart.
Take(t) ==
    /\ pc[t] \in {"new", "idle"}
    /\ ~stop
    /\ \E c \in Sample(t) :
        \/ /\ ~disable
           /\ call' = [call EXCEPT ![t] = c]
           /\ Goto(t, "reset")
           /\ exempt' = (exempt \/ c.kind # "media")
           /\ fresh' = IF c.kind = "unavailable" THEN fresh \ {c.track} ELSE fresh
           /\ UNCHANGED <<published, peak>>
        \/ /\ disable
           /\ c.kind # "unavailable"
           /\ published' = [published EXCEPT ![c.track] = c.time]
           /\ peak' = [peak EXCEPT ![c.track] = Higher(@, c.time)]
           /\ fresh' = fresh \ {c.track}
           /\ \E next \in {"idle", "new"} : Goto(t, next)
           /\ UNCHANGED <<call, exempt>>
    /\ UNCHANGED <<shared, stop, owner, far, near, must, disturbed, bounds>>

\* Where the call goes on after Reset2
AfterReset(t) == IF call[t].kind = "unavailable" THEN "hide" ELSE "far"

\* Reset2 looks for a reset, which either thread carries out,
TestReset(t) ==
    /\ pc[t] = "reset"
    /\ Goto(t, IF reset.on THEN "carry" ELSE AfterReset(t))
    /\ UNCHANGED <<shared, stop, owner, local, history, bounds>>

\* the tracks whose time it sets and the time it sets them to, the latter
\* being that of the sample the thread has for all types but one,
ResetTracks ==
    CASE reset.type = "immediately" -> Track
      [] reset.type = "av" -> {k \in Track : avail[k]}
      [] OTHER -> {k \in {reset.type} : avail[k]}
ResetTime(t) == IF reset.type = "immediately" THEN reset.time ELSE call[t].time

\* sets the times,
Carry(t) ==
    /\ pc[t] = "carry"
    /\ LET own == call[t].track IN
        /\ last' = [k \in Track |-> IF k \in ResetTracks THEN ResetTime(t) ELSE last[k]]
        /\ avail' = [k \in Track |-> avail[k] \/ reset.type = "immediately"]
        /\ published' = IF reset.type # "immediately" /\ own \in ResetTracks
                        THEN [published EXCEPT ![own] = call[t].time]
                        ELSE published
        /\ disturbed' = disturbed \cup
                {k \in Track : owner[k] # t /\ call[owner[k]].track = k
                               /\ pc[owner[k]] \in {"announce", "wait"}
                               /\ last'[k] # last[k]}
        /\ exempt' = (exempt \/ \E k \in ResetTracks : last'[k] # published'[k])
    /\ Goto(t, "clear")
    /\ UNCHANGED <<disable, lead, reset, tid, stop, owner, local, fresh, peak,
                   bounds>>

\* and forgets the reset, be it another than the one it found.
Clear(t) ==
    /\ pc[t] = "clear"
    /\ reset' = [reset EXCEPT !.on = FALSE]
    /\ Goto(t, AfterReset(t))
    /\ UNCHANGED <<last, avail, disable, lead, tid, stop, owner, local, history,
                   bounds>>

\* An unavailable track is not waited for: first its time is,
Hide(t) ==
    /\ pc[t] = "hide"
    /\ last' = [last EXCEPT ![call[t].track] = NotAvailable]
    /\ Goto(t, "gone")
    /\ UNCHANGED <<avail, disable, lead, reset, tid, stop, owner, local,
                   history, bounds>>

\* then its flag.
Gone(t) ==
    /\ pc[t] = "gone"
    /\ avail' = [avail EXCEPT ![call[t].track] = FALSE]
    /\ Goto(t, "new")
    /\ Return(t)
    /\ UNCHANGED <<last, disable, lead, reset, tid, stop, owner, history, bounds>>

\* Mutant: the difference is signed.
MinusSigned(a, b) == a - b

\* How far back the other track may be is read from m_max_deltavalue four
\* times, twice for each gap: once to compare and once to subtract, modulo W.
Minus(a, b) == IF a >= b THEN a - b ELSE a + W - b

CompareFar(t) ==
    /\ pc[t] = "far"
    /\ far' = [far EXCEPT ![t] = 0]
    /\ Goto(t, IF call[t].time > lead THEN "far2" ELSE "near")
    /\ UNCHANGED <<shared, stop, owner, call, near, must, history, bounds>>

SubtractFar(t) ==
    /\ pc[t] = "far2"
    /\ far' = [far EXCEPT ![t] = Minus(call[t].time, lead)]
    /\ Goto(t, "near")
    /\ UNCHANGED <<shared, stop, owner, call, near, must, history, bounds>>

CompareNear(t) ==
    /\ pc[t] = "near"
    /\ near' = [near EXCEPT ![t] = 0]
    /\ Goto(t, IF call[t].time > lead \div 2 THEN "near2" ELSE "test")
    /\ UNCHANGED <<shared, stop, owner, call, far, must, history, bounds>>

\* Mutant: the nearer time is a whole lead back too.
SubtractNearWhole(t) ==
    /\ pc[t] = "near2"
    /\ near' = [near EXCEPT ![t] = Minus(call[t].time, lead)]
    /\ Goto(t, "test")
    /\ UNCHANGED <<shared, stop, owner, call, far, must, history, bounds>>

SubtractNear(t) ==
    /\ pc[t] = "near2"
    /\ near' = [near EXCEPT ![t] = Minus(call[t].time, lead \div 2)]
    /\ Goto(t, "test")
    /\ UNCHANGED <<shared, stop, owner, call, far, must, history, bounds>>

\* Mutant: the thread says whose sample it is when it has tested.
TestThenName(t) ==
    /\ pc[t] = "test"
    /\ LET k == call[t].track IN
        /\ tid' = [tid EXCEPT ![k] = t]
        /\ must' = [must EXCEPT ![t] =
                        /\ call[t].kind # "forced"
                        /\ avail[Other(k)]
                        /\ far[t] > last[Other(k)]
                        /\ tid[k] # tid[Other(k)]]
        /\ disturbed' = IF last[k] \in {published[k], NotAvailable}
                        THEN disturbed \ {k} ELSE disturbed \cup {k}
        /\ exempt' = (exempt \/ k \in disturbed' \/ tid'[k] = tid'[Other(k)])
    /\ Goto(t, "announce")
    /\ UNCHANGED <<last, avail, disable, lead, reset, stop, owner, call, far,
                   near, published, fresh, peak, bounds>>

\* The thread says whose sample it is, and finds whether it must wait: it is
\* a lead ahead of the other track, which another thread delivers.
Test(t) ==
    /\ pc[t] = "test"
    /\ LET k == call[t].track IN
        /\ tid' = [tid EXCEPT ![k] = t]
        /\ must' = [must EXCEPT ![t] =
                        /\ call[t].kind # "forced"
                        /\ avail[Other(k)]
                        /\ far[t] > last[Other(k)]
                        /\ tid'[k] # tid'[Other(k)]]
        /\ disturbed' = IF last[k] \in {published[k], NotAvailable}
                        THEN disturbed \ {k} ELSE disturbed \cup {k}
        /\ exempt' = (exempt \/ k \in disturbed' \/ tid'[k] = tid'[Other(k)])
    /\ Goto(t, "announce")
    /\ UNCHANGED <<last, avail, disable, lead, reset, stop, owner, call, far,
                   near, published, fresh, peak, bounds>>

\* Mutant: nothing is announced.
AnnounceNothing(t) ==
    /\ pc[t] = "announce"
    /\ Goto(t, IF must[t] THEN "wait" ELSE "pass")
    /\ UNCHANGED <<shared, stop, owner, local, history, bounds>>

\* A sample far after the last one is announced before it is waited with.
Announce(t) ==
    /\ pc[t] = "announce"
    /\ LET k == call[t].track IN
        IF far[t] > last[k]
        THEN /\ last' = [last EXCEPT ![k] = call[t].time]
             /\ published' = [published EXCEPT ![k] = call[t].time]
        ELSE UNCHANGED <<last, published>>
    /\ Goto(t, IF must[t] THEN "wait" ELSE "pass")
    /\ UNCHANGED <<avail, disable, lead, reset, tid, stop, owner, local, fresh,
                   disturbed, peak, exempt, bounds>>

\* Mutant: the thread waits for its own track.
HeldByItself(t) ==
    ~disable /\ near[t] > last[call[t].track] /\ ~stop /\ avail[Other(call[t].track)]

\* Mutant: a disabled object still holds threads.
HeldWhenDisabled(t) ==
    near[t] > last[Other(call[t].track)] /\ ~stop /\ avail[Other(call[t].track)]

\* Mutant: only the times are looked at.
HeldByTime(t) == near[t] > last[Other(call[t].track)]

\* What the thread waits for: the other track to come near, to be
\* unavailable, or an end of it all.
Held(t) ==
    LET other == Other(call[t].track)
    IN  ~disable /\ near[t] > last[other] /\ ~stop /\ avail[other]

Leave(t) ==
    /\ pc[t] = "wait"
    /\ ~Held(t)
    /\ Goto(t, "pass")
    /\ UNCHANGED <<shared, stop, owner, local, history, bounds>>

\* The sample is let through: its time is the track's, and the track is
\* available again.
Pass(t) ==
    /\ pc[t] = "pass"
    /\ LET k == call[t].track IN
        /\ last' = [last EXCEPT ![k] = call[t].time]
        /\ published' = [published EXCEPT ![k] = call[t].time]
        /\ peak' = [peak EXCEPT ![k] = Higher(@, call[t].time)]
        /\ fresh' = fresh \ {k}
        /\ \/ avail[k] /\ Return(t) /\ \E next \in {"idle", "new"} : Goto(t, next)
           \/ ~avail[k] /\ UNCHANGED local /\ Goto(t, "show")
    /\ UNCHANGED <<avail, disable, lead, reset, tid, stop, owner, disturbed,
                   exempt, bounds>>

Show(t) ==
    /\ pc[t] = "show"
    /\ avail' = [avail EXCEPT ![call[t].track] = TRUE]
    /\ Return(t)
    /\ \E next \in {"idle", "new"} : Goto(t, next)
    /\ UNCHANGED <<last, disable, lead, reset, tid, stop, owner, history, bounds>>

\* A chunk is dropped: its track starts at its next sample, whenever that is.
\* A reset that was still to be carried out, that of a seek say, is replaced.
Drop(t) ==
    /\ pc[t] = "idle"
    /\ drops < MaxDrops
    /\ reset' = [reset EXCEPT !.type = IF \A k \in Track : owner[k] = t THEN "av" ELSE t,
                              !.time = 0]
    /\ Goto(t, "raise")
    /\ drops' = drops + 1
    /\ exempt' = (exempt \/ reset.on)
    /\ UNCHANGED <<last, avail, disable, lead, tid, stop, owner, local, published,
                   fresh, disturbed, peak, starts>>

\* A thread ends, and disables the object, which resets it first.
End(t) ==
    /\ pc[t] \in {"new", "idle"}
    /\ reset' = [reset EXCEPT !.type = "immediately", !.time = 0]
    /\ Goto(t, "quit")
    /\ UNCHANGED <<last, avail, disable, lead, tid, stop, owner, local, history,
                   bounds>>

Raise(t) ==
    /\ pc[t] \in {"raise", "quit"}
    /\ reset' = [reset EXCEPT !.on = TRUE]
    /\ Goto(t, IF pc[t] = "quit" THEN "disable" ELSE "new")
    /\ UNCHANGED <<last, avail, disable, lead, tid, stop, owner, local, history,
                   bounds>>

Disable(t) ==
    /\ pc[t] = "disable"
    /\ disable' = TRUE
    /\ Goto(t, "ended")
    /\ UNCHANGED <<last, avail, lead, reset, tid, stop, owner, local, history,
                   bounds>>

-----------------------------------------------------------------------------
\* The controller

SetStopFlag ==
    /\ ~stop
    /\ stop' = TRUE
    /\ UNCHANGED <<shared, owner, pc, local, history, bounds>>

\* SeekAsync, the item threads having been waited for: Disable( VO_FALSE )
\* and Reset, then the threads start anew, perhaps of another kind of stream.
Seek ==
    /\ stop
    /\ \A t \in Thread : pc[t] = "ended"
    /\ starts < MaxStarts
    /\ stop' = FALSE
    /\ disable' = FALSE
    /\ owner' \in Owners
    /\ pc' = Begin(owner')
    /\ tid' \in AnyId
    /\ \E p \in Position :
        /\ reset' = [on |-> TRUE, type |-> "immediately", time |-> p]
        /\ published' = [k \in Track |-> p]
        /\ peak' = [k \in Track |-> p]
    /\ fresh' = Track /\ disturbed' = {} /\ exempt' = FALSE
    /\ starts' = starts + 1
    /\ UNCHANGED <<last, avail, lead, local, drops>>

\* What a thread does in CheckAndWait, and all that it does
InCall(t) ==
    \/ TestReset(t) \/ Carry(t) \/ Clear(t) \/ Hide(t) \/ Gone(t)
    \/ CompareFar(t) \/ SubtractFar(t) \/ CompareNear(t) \/ SubtractNear(t)
    \/ Test(t) \/ Announce(t) \/ Leave(t) \/ Pass(t) \/ Show(t)

Work(t) ==
    \/ SetChunkDuration(t) \/ Take(t) \/ InCall(t)
    \/ Drop(t) \/ End(t) \/ Raise(t) \/ Disable(t)

Next == (\E t \in Thread : Work(t)) \/ SetStopFlag \/ Seek

Spec == Init /\ [][Next]_vars

\* The threads run, chunks arrive or end, and a seek that waits for the
\* threads goes on when they have ended.
FairSpec == Spec /\ (\A t \in Thread : WF_vars(Work(t))) /\ WF_vars(Seek)

-----------------------------------------------------------------------------
Time == 0 .. W - 1

TypeOK ==
    /\ last \in [Track -> Time]
    /\ avail \in [Track -> BOOLEAN]
    /\ disable \in BOOLEAN
    /\ lead \in Leads \cup {First}
    /\ reset \in [on : BOOLEAN, type : ResetType, time : Time]
    /\ tid \in AnyId
    /\ stop \in BOOLEAN
    /\ owner \in Owners
    /\ pc \in [Thread -> At]
    /\ call \in [Thread -> [track : Track, kind : Kind, time : 0 .. Horizon]]
    /\ far \in [Thread -> Time] /\ near \in [Thread -> Time]
    /\ must \in [Thread -> BOOLEAN]
    /\ published \in [Track -> Time] /\ peak \in [Track -> Time]
    /\ fresh \subseteq Track /\ disturbed \subseteq Track
    /\ exempt \in BOOLEAN
    /\ starts \in Nat /\ drops \in Nat

\* The threads never wait for each other, each held until the other's track
\* comes nearer, unless a reset changed a time one of them had announced.
Waiting(t) == pc[t] = "wait" /\ Held(t)
NoMutualWait == disturbed = {} => ~(\A t \in Thread : Waiting(t))

\* A thread that delivers both tracks does not wait for itself, although it knows
\* its own tracks only by identities that are garbage at first: unless a chunk
\* was dropped, which moves the time of a track that has not begun.
NoSelfWait ==
    \A t \in Thread : Waiting(t) /\ owner[Other(call[t].track)] = t
        => drops > 0 /\ Other(call[t].track) \in fresh

\* A thread waits for a time before that of its sample, although the lead is
\* read anew for each use and another thread may have changed it between.
WaitInReach == \A t \in Thread : pc[t] = "wait" => near[t] <= call[t].time

\* While nothing forces samples out or replaces the reset of a seek, no track is
\* let through farther ahead than the longest lead of what the other has let
\* through or announced.
Skew ==
    ~exempt /\ ~disable /\ ~stop =>
        \A k \in Track : \E l \in Leads :
            peak[k] <= Higher(peak[Other(k)], published[Other(k)]) + l

\* A thread that waits is let on, unless a reset changed an announced time.
WaitEnds == \A t \in Thread : pc[t] = "wait" ~> pc[t] # "wait" \/ disturbed # {}

\* The threads end when they are to stop, whatever they wait for.
StopJoins == stop ~> \A t \in Thread : pc[t] = "ended"

=============================================================================
