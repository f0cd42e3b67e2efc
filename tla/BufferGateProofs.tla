-------------------------- MODULE BufferGateProofs --------------------------
(***************************************************************************)
(* The properties of BufferGate for all limits, levels and lists.          *)
(*                                                                         *)
(* The inductive invariant adds to the types where the limits come from:   *)
(* every threshold is positive, and (when the settable values are ordered) *)
(* quick start never exceeds buffering.                                    *)
(***************************************************************************)
EXTENDS BufferGate, TLAPS

LimitsFrom ==
  /\ limit.buffering \in {BufferingDuration} \cup NewBuffering
  /\ limit.quick \in {QuickStartDuration} \cup NewQuick

IInv == TypeOK /\ LimitsFrom

\* No setting of the limits makes a threshold zero.
LEMMA PositiveThreshold ==
  ASSUME IInv
  PROVE  /\ limit.buffering \in Nat \ {0} /\ limit.quick \in Nat \ {0}
         /\ \A s, u : Threshold(s, u) \in Nat \ {0}
  BY GateAssumption DEF IInv, LimitsFrom, Threshold

\* On only ever changes a shut gate to Running.
LEMMA OpenedType ==
  ASSUME NEW s \in BufferState, NEW l, NEW u
  PROVE  Opened(s, l, u) \in BufferState
  BY DEF Opened, BufferState

LEMMA InitIInv == Init => IInv
<1> SUFFICES ASSUME Init PROVE IInv
  OBVIOUS
<1>1. level \in Levels /\ use \in Uses
  BY GateAssumption DEF Init, Levels, Uses
<1>2. limit \in Limits /\ LimitsFrom
  BY GateAssumption DEF Init, Limits, LimitsFrom
<1> QED BY <1>1, <1>2 DEF Init, IInv, TypeOK, BufferState, Style

\* The types, and where the limits come from, are kept by every step.
LEMMA NextIInv == IInv /\ [Next]_vars => IInv'
<1> SUFFICES ASSUME IInv, [Next]_vars PROVE IInv'
  OBVIOUS
<1> USE DEF IInv, TypeOK, LimitsFrom
<1>1. CASE Offer
  <2>1. level' \in Levels /\ use' \in Uses
    BY <1>1 DEF Offer
  <2>2. state' \in BufferState
    BY <1>1, OpenedType DEF Offer
  <2> QED BY <1>1, <2>1, <2>2 DEF Offer
<1>2. CASE OfferMarker
  <2>1. level' \in Levels /\ use' \in Uses
    BY <1>2 DEF OfferMarker, Uses
  <2>2. state' \in BufferState
    BY <1>2, OpenedType DEF OfferMarker
  <2> QED BY <1>2, <2>1, <2>2 DEF OfferMarker
<1>3. CASE OfferSeeking
  <2>1. state' \in BufferState
    BY <1>3, OpenedType DEF OfferSeeking, BufferState
  <2> QED BY <1>3, <2>1 DEF OfferSeeking
<1>4. CASE Take
  BY <1>4 DEF Take
<1>5. CASE Dry
  BY <1>5 DEF Dry, BufferState
<1>6. CASE Flush
  BY <1>6, GateAssumption DEF Flush, BufferState, Levels, Uses
<1>7. CASE MarkSeek
  BY <1>7 DEF MarkSeek, BufferState
<1>8. CASE SetLimits
  <2>1. limit' \in Limits
    BY <1>8, GateAssumption DEF SetLimits, Limits
  <2>2. LimitsFrom'
    BY <1>8 DEF SetLimits, Limits
  <2> QED BY <1>8, <2>1, <2>2 DEF SetLimits
<1>9. CASE SetStyle
  BY <1>9 DEF SetStyle
<1>10. CASE UNCHANGED vars
  BY <1>10 DEF vars
<1> QED BY <1>1, <1>2, <1>3, <1>4, <1>5, <1>6, <1>7, <1>8, <1>9, <1>10 DEF Next

LEMMA InvariantIInv == Spec => []IInv
  BY InitIInv, NextIInv, PTL DEF Spec

\* Every reachable state has the declared types.
THEOREM TypeCorrect == Spec => []TypeOK
  BY InvariantIInv, PTL DEF IInv

\* The guards of SetParameter keep both thresholds within the maximum, whatever
\* sequence of settings is made.
THEOREM LimitsSafe == Spec => []LimitsWithinMax
<1>1. Init => LimitsWithinMax
  BY GateAssumption DEF Init, LimitsWithinMax
<1>2. IInv /\ LimitsWithinMax /\ [Next]_vars => LimitsWithinMax'
  <2> SUFFICES ASSUME IInv, LimitsWithinMax, [Next]_vars PROVE LimitsWithinMax'
    OBVIOUS
  <2>1. CASE SetLimits
    <3>1. limit \in Limits
      BY DEF IInv, TypeOK
    <3>2. ASSUME NEW d \in NewMax, d > limit.buffering, d > limit.quick,
                 limit' = [limit EXCEPT !.max = d]
          PROVE  LimitsWithinMax'
      BY <3>1, <3>2, GateAssumption DEF LimitsWithinMax, Limits
    <3>3. ASSUME NEW d \in NewBuffering, d < limit.max,
                 limit' = [limit EXCEPT !.buffering = d]
          PROVE  LimitsWithinMax'
      BY <3>1, <3>3, GateAssumption DEF LimitsWithinMax, Limits
    <3>4. ASSUME NEW d \in NewQuick, d < limit.max,
                 limit' = [limit EXCEPT !.quick = d]
          PROVE  LimitsWithinMax'
      BY <3>1, <3>4, GateAssumption DEF LimitsWithinMax, Limits
    <3> QED BY <2>1, <3>2, <3>3, <3>4 DEF SetLimits
  <2>2. CASE ~SetLimits
    <3>1. limit' = limit
      BY <2>2 DEF Next, vars, Offer, OfferMarker, OfferSeeking, Take, Dry, Flush,
         MarkSeek, SetStyle
    <3> QED BY <3>1 DEF LimitsWithinMax
  <2> QED BY <2>1, <2>2
<1> QED BY <1>1, <1>2, InvariantIInv, PTL DEF Spec

\* Whatever On leaves shut is short of something on one of the tracks.
LEMMA OpenedStarves ==
  ASSUME NEW s \in BufferState, NEW l, NEW u, Closed(Opened(s, l, u))
  PROVE  Opened(s, l, u) = s /\ \E t \in Gated : Starved(s, l, u, t)
  BY DEF Opened, Closed, BufferState

\* A shut gate is short of something, from the buffer's creation through every
\* put, seek and dry track.
THEOREM GateShutForWant == Spec => []ShutForWant
<1>1. Init => ShutForWant
  <2> SUFFICES ASSUME Init PROVE Starved(state, level, use, "audio")
    BY DEF ShutForWant, Gated
  <2>1. Threshold(state, use) \in Nat \ {0}
    BY InitIInv, PositiveThreshold
  <2> QED BY <2>1 DEF Init, Starved, Gated
<1>2. IInv /\ ShutForWant /\ [Next]_vars => ShutForWant'
  <2> SUFFICES ASSUME IInv, ShutForWant, [Next]_vars, Closed(state'), ~changed'
               PROVE  \E t \in Gated : Starved(state, level, use, t)'
    BY DEF ShutForWant
  <2> USE DEF IInv, TypeOK
  <2>1. ASSUME NEW s \in BufferState, state' = Opened(s, level', use'),
               UNCHANGED limit
        PROVE  \E t \in Gated : Starved(state, level, use, t)'
    <3>1. state' = s /\ \E t \in Gated : Starved(s, level', use', t)
      BY <2>1, OpenedStarves
    <3> QED BY <3>1, <2>1 DEF Starved, Threshold
  <2>2. CASE Offer \/ OfferMarker
    BY <2>1, <2>2 DEF Offer, OfferMarker
  <2>3. CASE OfferSeeking
    <3>1. state' = Opened("Starting", level', use')
      BY <2>3 DEF OfferSeeking, Closed
    <3> QED BY <2>1, <2>3, <3>1 DEF OfferSeeking, BufferState
  <2>4. CASE Take
    <3>1. PICK t \in Gated : Starved(state, level, use, t)
      BY <2>4 DEF Take, ShutForWant
    <3>2. level'[t] <= level[t]
      <4>1. PICK o \in Gated : /\ level' \in Levels /\ level'[o] <= level[o]
                               /\ \A u \in Gated \ {o} : level'[u] = level[u]
        BY <2>4 DEF Take
      <4>2. CASE t = o
        BY <4>1, <4>2
      <4>3. CASE t # o
        <5>1. level'[t] = level[t] /\ level[t] \in Nat
          BY <3>1, <4>1, <4>3, GateAssumption DEF Levels
        <5> QED BY <5>1
      <4> QED BY <4>2, <4>3
    <3>3. /\ level[t] \in Nat /\ level'[t] \in Nat
          /\ Threshold(state, use) \in Nat
      BY <2>4, GateAssumption, PositiveThreshold DEF Take, Levels
    <3>4. Threshold(state, use)' = Threshold(state, use)
      BY <2>4 DEF Take, Threshold
    <3>5. Starved(state, level, use, t)'
      BY <2>4, <3>1, <3>2, <3>3, <3>4 DEF Take, Starved
    <3> QED BY <3>5
  <2>5. CASE Dry
    <3>1. PICK t \in Gated : level[t] = 0 /\ use[t]
      BY <2>5 DEF Dry
    <3>2. Threshold(state, use)' = limit.buffering
      BY <2>5 DEF Dry, Threshold
    <3>3. Starved(state, level, use, t)'
      BY <2>5, <3>1, <3>2, PositiveThreshold DEF Dry, Starved
    <3> QED BY <3>3
  <2>6. CASE Flush
    <3>1. Threshold(state, use)' = limit.quick
      BY <2>6 DEF Flush, Threshold, Gated
    <3>2. Starved(state, level, use, "video")'
      BY <2>6, <3>1, PositiveThreshold DEF Flush, Starved, Gated
    <3> QED BY <3>2 DEF Gated
  <2>7. CASE MarkSeek
    BY <2>7 DEF MarkSeek, Closed
  <2>8. CASE SetLimits
    BY <2>8 DEF SetLimits
  <2>9. CASE SetStyle \/ UNCHANGED vars
    BY <2>9 DEF SetStyle, vars, ShutForWant, Starved, Threshold
  <2> QED BY <2>2, <2>3, <2>4, <2>5, <2>6, <2>7, <2>8, <2>9 DEF Next
<1> QED BY <1>1, <1>2, InvariantIInv, PTL DEF Spec

\* As long as quick start is never set above buffering, what a shut gate waits
\* for is always let in: with GateShutForWant, the download can always bring the
\* gate closer to opening.
THEOREM GateAdmits == OrderedLimits => (Spec => []StarvedAdmitted)
<1> SUFFICES ASSUME OrderedLimits PROVE Spec => []StarvedAdmitted
  OBVIOUS
<1>1. IInv => StarvedAdmitted
  <2> SUFFICES ASSUME IInv, Closed(state), NEW t \in Gated, NEW extent \in Durations,
                      Starved(state, level, use, t)
               PROVE  Admits(t, extent)
    BY DEF StarvedAdmitted
  <2>1. limit.quick <= limit.buffering
    BY DEF IInv, LimitsFrom, OrderedLimits
  <2>2. level[t] \in Nat
    BY GateAssumption DEF IInv, TypeOK, Levels
  <2>3. Threshold(state, use) <= limit.buffering
    BY <2>1, PositiveThreshold DEF Threshold
  <2>4. level[t] < limit.buffering
    BY <2>2, <2>3, PositiveThreshold DEF Starved
  <2> QED BY <2>4 DEF Admits, Closed
<1> QED BY <1>1, InvariantIInv, PTL
=============================================================================
