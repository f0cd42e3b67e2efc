--------------------------- MODULE MCSeekControl ---------------------------
(***************************************************************************)
(* Instances of SeekControl for TLC.                                       *)
(***************************************************************************)
EXTENDS SeekControl, TLC

CONSTANTS i1, i2, p1, p2

TwoIds == {i1, i2}
OneId == {i1}
TwoPositions == {p1, p2}
OnePosition == {p1}

\* The identities of threads are interchangeable, and so are positions.
Symmetric == Permutations(Id) \cup Permutations(Position)

=============================================================================
