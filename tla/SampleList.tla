----------------------------- MODULE SampleList -----------------------------
(***************************************************************************)
(* Media samples and the list surgery the buffers perform on them.         *)
(*                                                                         *)
(* A sample is [flags, time, fmt]: the VO_SOURCE2_FLAG_SAMPLE_* bits the   *)
(* buffers test (as a set of names), uTime, and the encoding the payload   *)
(* belongs to (for a NEW_FORMAT sample: the encoding it announces).        *)
(* Payload, size and track ids are left out.                               *)
(***************************************************************************)
EXTENDS Integers, FiniteSets, SequencesExt, FiniteSetsExt

CONSTANT Encoding   \* the encodings of the streams; "none" where there is none

ASSUME EncodingAssumption == "none" \in Encoding

\* The marker kinds, in the order in which _SetPos tests the bits.
Priority == <<"program", "format", "unavail", "eos", "hint", "reset">>

Flag == {"key", "force", "drop"} \cup {Priority[i] : i \in DOMAIN Priority}

Has(s, f) == f \in s.flags

\* _SAMPLE.  A sample that says its track is unavailable carries no picture.
Sample == {s \in [flags : SUBSET Flag, time : Nat, fmt : Encoding] :
             ~({"key", "unavail"} \subseteq s.flags)}

\* |a - b|: the 64-bit time stamps are subtracted the larger minus the smaller.
Apart(a, b) == IF a > b THEN a - b ELSE b - a

\* The marker kind _SetPos sees in a sample: the first bit of its else-if chain.
Kind(s) ==
  LET bits == {i \in DOMAIN Priority : Has(s, Priority[i])}
  IN  IF bits = {} THEN "frame" ELSE Priority[Min(bits)]

\* The slots a marker of kind k empties when it is met.
Clears(k) ==
  CASE k = "program" -> {"format", "unavail"}
    [] k = "format"  -> {"unavail"}
    [] k = "unavail" -> {"format"}
    [] k = "eos"     -> {"program", "format", "hint", "reset"}
    [] OTHER         -> {}

\* Positions before p whose sample is still in its slot when the scan reaches
\* p: the last of its kind, not cleared since.  EOS has no slot that is filled.
Kept(list, p) ==
  {i \in 1..(p - 1) :
     /\ Kind(list[i]) \notin {"frame", "eos"}
     /\ \A j \in (i + 1)..(p - 1) :
          /\ Kind(list[j]) # Kind(list[i])
          /\ Kind(list[i]) \notin Clears(Kind(list[j]))}

\* Mutant: the markers before the position are dropped with the rest.
SetPositionBare(list, p) == SubSeq(list, p, Len(list))

\* The kept markers, but for the last when the new head announces the same thing
\* (the slot sort only finds that marker at its place when it was not the very
\* first sample).
Unrepeated(list, p, kept) ==
  {i \in kept : (\A j \in kept : j <= i) =>
                  \/ i = 1 \/ p > Len(list)
                  \/ list[i].flags \cap list[p].flags \cap {"program", "format"} = {}}

\* A NEW_FORMAT that is kept is stamped just before the new head.
Stamped(s, list, p) ==
  IF Kind(s) # "format" THEN s
  ELSE [s EXCEPT !.time = IF p > Len(list) \/ list[p].time = 0 THEN 0
                                                              ELSE list[p].time - 1]

\* The positions in S one by one, as the sort of the slots has them.
Sorted(S) ==
  [k \in 1..Cardinality(S) |-> CHOOSE i \in S : Cardinality({j \in S : j <= i}) = k]

\* _SetPos: drop everything before position p (p = Len + 1: everything) but
\* keep the markers still in force, in their order.
SetPosition(list, p) ==
  LET Before(kept) == [k \in 1..Cardinality(kept) |-> Stamped(list[Sorted(kept)[k]], list, p)]
  IN  Before(Unrepeated(list, p, Kept(list, p))) \o SubSeq(list, p, Len(list))

\* CalculateDuration: the sum of |last - first| over the runs of samples whose
\* neighbours lie at most gap apart.
SpanOf(list, gap) ==
  LET starts == {i \in DOMAIN list :
                   i = 1 \/ Apart(list[i].time, list[i - 1].time) > gap}
      EndOf(i) == Min({j \in i..Len(list) : j = Len(list) \/ j + 1 \in starts})
  IN  MapThenSumSet(LAMBDA i : Apart(list[EndOf(i)].time, list[i].time), starts)

\* iDuration in PutSamples: first to last, whatever lies between.
Extent(list) == Apart(list[Len(list)].time, list[1].time)

\* The times of the samples that carry media.
FrameTimes(list) == {list[i].time : i \in {j \in DOMAIN list : Kind(list[j]) = "frame"}}

\* The markers after which a frame needs a format marker of its own: the one that
\* brings it, and those that empty its slot.
Turns == {"format", "unavail", "program", "eos"}

\* Every frame comes after a format marker of its encoding with no turn between.
Introduced(list) ==
  \A i \in DOMAIN list : Kind(list[i]) = "frame" =>
    \E j \in 1..(i - 1) :
      /\ Kind(list[j]) = "format" /\ list[j].fmt = list[i].fmt
      /\ \A k \in (j + 1)..(i - 1) : Kind(list[k]) \notin Turns

\* A marker that announces an encoding; the last sample of a list, if it is a
\* frame; and what the list after it may take for announced.
Marker(f) == <<[flags |-> {"format"}, time |-> 0, fmt |-> f]>>
Tip(list) ==
  IF list = <<>> \/ Kind(list[Len(list)]) # "frame" THEN <<>> ELSE <<list[Len(list)]>>
Carried(list) == IF Tip(list) = <<>> THEN <<>> ELSE Marker(list[Len(list)].fmt)
=============================================================================
