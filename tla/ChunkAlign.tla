----------------------------- MODULE ChunkAlign -----------------------------
(***************************************************************************)
(* fBA: how a chunk of the old bitrate, which was set aside when the       *)
(* bitrate changed, and the first chunk of the new bitrate are made into   *)
(* one.  The two overlap in time.  Of each track the old list is cut where *)
(* the new one takes over, and what is left of the new list is appended;   *)
(* then the old lists are pushed on (CacheManager::useChunk).              *)
(*                                                                         *)
(* One thread does this with chunks nobody else has; a step is one track.  *)
(***************************************************************************)
EXTENDS SampleList

CONSTANTS
    Old,    \* the chunks that may have been set aside
    New,    \* the chunks that may come after
    OldEncoding     \* how the old bitrate is encoded

Track == {"audio", "video", "subtitle"}
IsFrame(s) == Kind(s) = "frame"
Marked(s) == Has(s, "unavail")

\* A marker is stamped between the samples around it, and a list that begins with
\* the notice that its track is unavailable has no frames.
Stamps(list) ==
    /\ \A i, j \in DOMAIN list :
            i < j /\ ~(IsFrame(list[i]) /\ IsFrame(list[j])) => list[i].time <= list[j].time
    /\ list # <<>> /\ Marked(list[1]) => ~\E i \in DOMAIN list : IsFrame(list[i])

\* No marker takes back or repeats what another one says.
Lasting(list) ==
    \A i, j \in DOMAIN list : i < j /\ ~IsFrame(list[i]) /\ ~IsFrame(list[j]) =>
        /\ list[i].flags \cap list[j].flags = {}
        /\ Kind(list[i]) \notin Clears(Kind(list[j]))

\* Video begins with a key frame, and only frames are.
Keyed(list) ==
    \A i \in DOMAIN list :
        /\ Has(list[i], "key") => IsFrame(list[i])
        /\ IsFrame(list[i]) /\ ~Has(list[i], "key") => \E j \in 1 .. i - 1 : IsFrame(list[j])

\* What the parsers deliver of a chunk: the old one in the old encoding, the new
\* one in one encoding that it announces.
ASSUME ChunkAssumption ==
    /\ Old \cup New \subseteq [Track -> Seq(Sample)]
    /\ \A chunk \in Old \cup New, track \in {"audio", "video"} : Stamps(chunk[track])
    /\ \A chunk \in Old, track \in {"audio", "video"} : \A i \in DOMAIN chunk[track] :
            IsFrame(chunk[track][i]) => chunk[track][i].fmt = OldEncoding
    /\ \A chunk \in New :
        /\ Keyed(chunk["video"])
        /\ \A track \in Track :
            /\ Lasting(chunk[track])
            /\ \A i \in DOMAIN chunk[track] : Kind(chunk[track][i]) # "eos"
        /\ \A track \in {"audio", "video"} :
            /\ Introduced(chunk[track])
            /\ \A i, j \in DOMAIN chunk[track] :
                    IsFrame(chunk[track][i]) /\ IsFrame(chunk[track][j])
                        => chunk[track][i].fmt = chunk[track][j].fmt

FramesAt(list) == {i \in DOMAIN list : IsFrame(list[i])}
Ascending(list) == \A i, j \in FramesAt(list) : i < j => list[i].time < list[j].time
Times(list) == {list[i].time : i \in FramesAt(list)}

\* From where it begins to its last frame, a list has every frame another one has.
Includes(list, other) ==
    \A t \in Times(other) :
        /\ \E i \in DOMAIN list : list[i].time <= t
        /\ \E e \in Times(list) : t <= e
        => t \in Times(list)

\* The bitrates are encodings of the same frames, at the same times.
ASSUME SameFrames ==
    \A o \in Old, n \in New, track \in {"audio", "video"} :
        Includes(o[track], n[track]) /\ Includes(n[track], o[track])

Order == <<"audio", "video", "subtitle">>           \* iType

VARIABLES
    from,   \* pFrom's lists, which end as what is pushed
    to,     \* pTo's lists
    at,     \* the track the first loop (1 to 3) or the second (4 to 6) is at
    old,    \* history: pFrom's lists as they were
    new     \* history: pTo's lists as they were

vars == <<from, to, at, old, new>>

Init ==
    /\ from \in Old
    /\ to \in New
    /\ at = 1
    /\ old = from /\ new = to

\* Mutant: any video frame will do.
PointsAnyFrame(track, list, start) ==
    {i \in DOMAIN list : track # "subtitle" /\ list[i].time >= start}

\* Where the new list may take over: video at a key frame, audio anywhere,
\* not before the old list begins.  Subtitles are not looked at.
Points(track, list, start) ==
    CASE track = "video" ->
            {i \in DOMAIN list : Has(list[i], "key") /\ list[i].time >= start}
      [] track = "audio" -> {i \in DOMAIN list : list[i].time >= start}
      [] OTHER -> {}

\* Mutant: the old list is cut before the last sample ahead of the point.
CutBeforePoint(track, list, time) ==
    LET late == {i \in DOMAIN list : list[i].time >= time}
    IN  IF late = {} THEN list ELSE SubSeq(list, 1, Min(late) - 2)

\* The old list is cut at its first sample at or after the point.  When video
\* frames from before the point follow that one at once (they are stored in
\* decoding order), it is cut at the last of them.
CutOld(track, list, time) ==
    LET late == {i \in DOMAIN list : list[i].time >= time}
        Follows(j) == \A k \in Min(late) + 1 .. j : list[k].time < time
        ends == {j \in Min(late) .. Len(list) : Follows(j)}
        cut == IF track = "video" THEN Max(ends) ELSE Min(late)
    IN  IF late = {} THEN list ELSE SubSeq(list, 1, cut - 1)

\* The new list, cut to the point (TrackCache::SetPos, which keeps the markers
\* in force as the final buffer's _SetPos does), follows the old one.
Align(track) ==
    LET point == Min(Points(track, to[track], from[track][1].time))
    IN  /\ from' = [from EXCEPT ![track] =
                        CutOld(track, @, to[track][point].time)
                            \o SetPosition(to[track], point)]
        /\ to' = [to EXCEPT ![track] = <<>>]

\* The first loop: nothing is done about a track that either list lacks, or
\* that has no point.
AlignTrack ==
    /\ at \in 1 .. 3
    /\ LET track == Order[at] IN
        IF /\ from[track] # <<>> /\ to[track] # <<>>
           /\ Points(track, to[track], from[track][1].time) # {}
        THEN Align(track)
        ELSE UNCHANGED <<from, to>>
    /\ at' = at + 1
    /\ UNCHANGED <<old, new>>

\* Mutant: the old list is kept whatever the new one begins with.
NeverGivenUp(track) == FALSE

\* An old list that begins after a new one without a point is given up.
GivenUp(track) ==
    /\ from[track] # <<>>
    /\ ~Marked(from[track][1]) /\ ~Marked(to[track][1])
    /\ to[track][1].time < from[track][1].time

\* Mutant: the second loop ends a track early.
AppendTrackButLast ==
    /\ at \in 4 .. 6
    /\ LET track == Order[at - 3] IN
        IF to[track] # <<>> /\ at < 6
        THEN /\ from' = [from EXCEPT ![track] =
                            IF GivenUp(track) THEN to[track] ELSE @ \o to[track]]
             /\ to' = [to EXCEPT ![track] = <<>>]
        ELSE UNCHANGED <<from, to>>
    /\ at' = at + 1
    /\ UNCHANGED <<old, new>>

\* The second loop: what is left of the new list is appended.
AppendTrack ==
    /\ at \in 4 .. 6
    /\ LET track == Order[at - 3] IN
        IF to[track] # <<>>
        THEN /\ from' = [from EXCEPT ![track] =
                            IF GivenUp(track) THEN to[track] ELSE @ \o to[track]]
             /\ to' = [to EXCEPT ![track] = <<>>]
        ELSE UNCHANGED <<from, to>>
    /\ at' = at + 1
    /\ UNCHANGED <<old, new>>

Next == AlignTrack \/ AppendTrack

Spec == Init /\ [][Next]_vars

-----------------------------------------------------------------------------
Aligned == at = 7

\* The chunks are aligned so that the decoder can go from the old bitrate to
\* the new one: no frame of another encoding than the one before it (or than
\* the old chunk's, at the start) comes without its format marker between, nor
\* without being a key frame if it is video.
SwitchDecodable ==
    Aligned => \A track \in {"audio", "video"} : \A j \in DOMAIN from[track] :
        LET list == from[track]
            before == {i \in 1 .. j - 1 : IsFrame(list[i])}
            last == IF before = {} THEN 0 ELSE Max(before)
            encoding == IF last = 0 THEN OldEncoding ELSE list[last].fmt
        IN  IsFrame(list[j]) /\ list[j].fmt # encoding =>
                /\ track = "video" => Has(list[j], "key")
                /\ \E i \in last + 1 .. j - 1 :
                        Has(list[i], "format") /\ list[i].fmt = list[j].fmt

\* The moments the two chunks cover, from the old one's first frame to the new
\* one's last, that can be given at all: past the old list's end video can only be
\* decoded from a key frame of the new list on, so what comes before that is lost.
Playable(track) ==
    LET o == old[track]
        n == new[track]
    IN  {t \in Times(o) \cup Times(n) :
            /\ \E b \in Times(o) : b <= t
            /\ \E e \in Times(n) : t <= e
            /\ \/ track = "audio"
               \/ \E e \in Times(o) : t <= e
               \/ \E k \in FramesAt(n) : /\ Has(n[k], "key") /\ n[k].time <= t
                                         /\ \E b \in Times(o) : b <= n[k].time}

\* The player is given every such moment, wherever the lists are cut.
NoHole ==
    Aligned => \A track \in {"audio", "video"} :
        Ascending(old[track]) /\ Ascending(new[track])
            => Playable(track) \subseteq Times(from[track])

\* Of video stored in decoding order the last frame before the point may be
\* lost, which is erased with what follows it, but no other.
OneFrameAtMost ==
    Aligned => Cardinality(Playable("video") \ Times(from["video"])) <= 1

\* No moment is given twice: time goes up all along both lists that come out,
\* if it did in those that went in.
StillAscending ==
    Aligned => \A track \in {"audio", "video"} :
        Ascending(old[track]) /\ Ascending(new[track]) => Ascending(from[track])

\* Whatever was not given up for the new chunk is pushed: nothing is left
\* behind in the chunk that is freed next, and what is announced of the new
\* chunk's tracks, markers and subtitles included, is in what is pushed.
NothingBehind ==
    Aligned => \A track \in Track :
        /\ to[track] = <<>>
        /\ {s.flags : s \in {m \in Range(new[track]) : ~IsFrame(m)}}
               \subseteq {s.flags : s \in Range(from[track])}

=============================================================================
