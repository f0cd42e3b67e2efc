---------------------------- MODULE MCChunkAlign ----------------------------
(***************************************************************************)
(* Chunks for ChunkAlign.  A frame lasts two units of time, so that a      *)
(* marker, stamped one unit before its frame, is later than the frame      *)
(* before that.  The old bitrate is encoding x, the new one y.             *)
(***************************************************************************)
EXTENDS ChunkAlign

Frame(time, f, key) == [flags |-> IF key THEN {"key"} ELSE {}, time |-> time, fmt |-> f]
Run(first, n, f, keys) ==
    [i \in 1 .. n |-> Frame(2 * (first + i - 1), f, first + i - 1 \in keys)]
Format(time, f) == <<[flags |-> {"format"}, time |-> time, fmt |-> f]>>
Unavailable(time) == <<[flags |-> {"unavail"}, time |-> time, fmt |-> "none"]>>

Chunk(a, v, s) == [audio |-> a, video |-> v, subtitle |-> s]

\* Up to four frames from the fourth on, perhaps cut short, perhaps the first
\* of the stream; video in the order shown or with one frame stored early, or
\* the notice that there is none.
EarlyStored(k, f) == <<Frame(2 * k, f, TRUE), Frame(2 * k + 6, f, FALSE),
                       Frame(2 * k + 2, f, FALSE), Frame(2 * k + 4, f, FALSE)>>
OldVideo == {Run(4, n, "x", {4}) : n \in 1 .. 4} \cup {EarlyStored(4, "x"), <<>>}
                \cup {Format(7, "x") \o Run(4, 3, "x", {4}), Unavailable(9)}
OldAudio == {Run(4, n, "x", {}) : n \in {0, 2, 4}} \cup {Format(7, "x") \o Run(4, 3, "x", {})}
Olds == {Chunk(a, v, <<>>) : a \in OldAudio, v \in OldVideo}

\* Four frames from any of the second to the eighth on, the first a key frame
\* and perhaps another, or one of them stored early, or the notice that there is
\* no video.
NewVideo == {Format(2 * k - 1, "y") \o Run(k, 4, "y", {k, k + second}) :
                k \in 2 .. 8, second \in 0 .. 3}
            \cup {Format(2 * k - 1, "y") \o EarlyStored(k, "y") : k \in {3, 5, 6}}
            \cup {Unavailable(9)}
NewAudio == {Format(2 * k - 1, "y") \o Run(k, 3, "y", {}) : k \in 3 .. 8} \cup {Unavailable(9), <<>>}
NewSubtitle == {<<>>, Run(5, 1, "s", {})}
News == {Chunk(a, v, s) : a \in NewAudio, v \in NewVideo, s \in NewSubtitle}

=============================================================================
