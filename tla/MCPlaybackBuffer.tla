-------------------------- MODULE MCPlaybackBuffer --------------------------
(* Small streams for PlaybackBuffer.  One unit of time is one frame; the      *)
(* sample 0 of a stream is at time 1.                                         *)
EXTENDS PlaybackBuffer

Frame(n, f, key) == [flags |-> IF key THEN {"key"} ELSE {}, time |-> n, fmt |-> f]
Audio(a, b, f) == [i \in 1..(b - a + 1) |-> Frame(a + i - 1, f, FALSE)]
\* A video run that starts with a key frame.
Video(a, b, f) == [i \in 1..(b - a + 1) |-> Frame(a + i - 1, f, i = 1)]
Chunk(a, v, s) == [audio |-> a, video |-> v, subtitle |-> s]

Format(n, f) == <<[flags |-> {"format"}, time |-> n, fmt |-> f]>>
Unavailable(n) == <<[flags |-> {"unavail"}, time |-> n, fmt |-> "none"]>>

\* Audio and video in the same chunks, brought in by one thread.  The second
\* chunk is another encoding whose audio starts one frame early; it has no
\* video, which goes on in the third.
MuxedStream ==
  [av |-> <<Chunk(Audio(1, 2, "x"), Video(1, 2, "x"), <<>>),
            Chunk(Format(1, "y") \o Audio(2, 4, "y"), Unavailable(3), Audio(4, 4, "s")),
            Chunk(Audio(5, 6, "y"), Format(4, "y") \o Video(5, 6, "y"), <<>>)>>]

\* One thread and one stream each, with two units to a frame: a point may lie between
\* two frames, where the marker of the second chunk is.
Spread(list) == [i \in DOMAIN list |-> [list[i] EXCEPT !.time = 2 * @]]
SplitStream ==
  [a |-> <<Chunk(Spread(Audio(1, 2, "x")), <<>>, <<>>),
           Chunk(Format(5, "y") \o Spread(Audio(3, 4, "y")), <<>>, <<>>)>>,
   v |-> <<Chunk(<<>>, Spread(Video(1, 2, "x")), <<>>),
           Chunk(<<>>, Spread(Video(3, 4, "x")), <<>>)>>]

\* Short chunks, then one that hardly fits the buffer.
UnevenStream ==
  [av |-> <<Chunk(Audio(1, 2, "x"), Video(1, 2, "x"), <<>>),
            Chunk(Audio(3, 7, "x"), Video(3, 7, "x"), <<>>)>>]

\* What a track or a list of these streams may last.
LastTime == Max(UNION {StreamTimes(t) : t \in Track})
UpToTwice == 0..(2 * LastTime * FrameInterval)
=============================================================================
