----------------------------- MODULE BufferGate -----------------------------
(***************************************************************************)
(* What MediaBuffer promises the download and the player: the gate between *)
(* them.  Of a track only m_uCurDuration (level) and WillAvailable() (use) *)
(* are kept; which samples make up a level is left open.                   *)
(*                                                                         *)
(* PlaybackBuffer implements this specification (PlaybackBuffer!GateSpec). *)
(***************************************************************************)
EXTENDS Integers

CONSTANTS
  MaxDuration, BufferingDuration, QuickStartDuration,  \* constructor arguments
  NewMax, NewBuffering, NewQuick,                      \* values set later
  Durations   \* what a list may last and a track may hold

Gated == {"audio", "video"}
BufferState == {"Starting", "Seeking", "Running", "Buffering"}
Style == {"A", "V", "AV"}

ASSUME GateAssumption ==
  /\ NewMax \subseteq Nat /\ MaxDuration \in Nat
  /\ 0 \in Durations /\ Durations \subseteq Nat
  /\ {BufferingDuration} \cup NewBuffering \subseteq Nat \ {0}
  /\ {QuickStartDuration} \cup NewQuick \subseteq Nat \ {0}
  /\ MaxDuration >= BufferingDuration /\ MaxDuration >= QuickStartDuration

\* The order the header asks for (MediaBuffer.h), as far as quick start and
\* buffering go; nothing in SetParameter sees to it.
OrderedLimits ==
  \A q \in {QuickStartDuration} \cup NewQuick,
     b \in {BufferingDuration} \cup NewBuffering : q <= b

VARIABLES state, style, level, use, limit,
          changed   \* history: a limit was set and nothing was offered since

vars == <<state, style, level, use, limit, changed>>

Limits == [max : Nat, buffering : Nat, quick : Nat]

Init ==
  /\ state = "Starting" /\ style = "AV"
  /\ level = [t \in Gated |-> 0] /\ use = [t \in Gated |-> TRUE]
  /\ limit = [max |-> MaxDuration, buffering |-> BufferingDuration,
              quick |-> QuickStartDuration]
  /\ changed = FALSE

-----------------------------------------------------------------------------
(* The tests the code makes, of a state s, levels l and availabilities u *)

Threshold(s, u) ==
  IF s = "Starting" /\ u["video"] THEN limit.quick ELSE limit.buffering

\* A track that is to come and has not what the gate asks for.
Starved(s, l, u, t) == u[t] /\ l[t] < Threshold(s, u)

Closed(s) == s \in {"Starting", "Buffering"}

\* Mutant: a track must hold more than the threshold.
OpenedAbove(s, l, u) ==
  IF Closed(s) /\ \A t \in Gated : u[t] => l[t] > Threshold(s, u) THEN "Running" ELSE s

\* MediaBuffer::On
Opened(s, l, u) ==
  IF Closed(s) /\ \A t \in Gated : ~Starved(s, l, u, t) THEN "Running" ELSE s

\* Mutant: only the first start is forced.
AdmitsAtStart(t, extent) ==
  \/ state = "Starting" /\ level[t] < limit.buffering
  \/ extent >= limit.max /\ level[t] < limit.max \div 2
  \/ level[t] + extent <= limit.max

\* TrackBuffer::PutSamples, with MediaBuffer's force.
Admits(t, extent) ==
  \/ state # "Running" /\ level[t] < limit.buffering
  \/ extent >= limit.max /\ level[t] < limit.max \div 2
  \/ level[t] + extent <= limit.max

-----------------------------------------------------------------------------
(* Actions *)

Levels == [Gated -> Durations]
Uses == [Gated -> BOOLEAN]

\* A list is offered outside a seek.  A list that does not fit, and a subtitle,
\* leave the levels alone; either way On is called.
Offer ==
  /\ state # "Seeking"
  /\ \/ UNCHANGED <<level, use>>
     \/ \E t \in Gated, extent \in Durations :
          /\ Admits(t, extent)
          /\ level' \in Levels /\ level'[t] >= level[t]
          /\ t = "audio" => level'[t] = level[t] + extent
          /\ use' \in Uses
          /\ \A o \in Gated \ {t} : level'[o] = level[o] /\ use'[o] = use[o]
  /\ state' = Opened(state, level', use')
  /\ changed' = FALSE
  /\ UNCHANGED <<style, limit>>

\* The end-of-stream marker goes into a track that is not full.
OfferMarker ==
  /\ state # "Seeking"
  /\ \E t \in Gated :
       /\ level[t] < limit.max
       /\ level' \in Levels /\ level'[t] >= level[t]
       /\ use' = [use EXCEPT ![t] = FALSE]
       /\ \A o \in Gated \ {t} : level'[o] = level[o]
  /\ state' = Opened(state, level', use')
  /\ changed' = FALSE
  /\ UNCHANGED <<style, limit>>

\* While a seek is under way whatever is offered may also be cut; the offer that
\* completes it starts the buffer again.
OfferSeeking ==
  /\ state = "Seeking"
  /\ level' \in Levels /\ use' \in Uses
  /\ state' \in {"Seeking", Opened("Starting", level', use')}
  /\ changed' = FALSE
  /\ UNCHANGED <<style, limit>>

\* The player takes samples; while the gate is shut only forced audio.
Take ==
  \E t \in Gated :
    /\ state = "Running" \/ t = "audio"
    /\ level' \in Levels /\ level'[t] <= level[t]
    /\ \A o \in Gated \ {t} : level'[o] = level[o]
    /\ UNCHANGED <<state, style, use, limit, changed>>

\* The player finds a track empty: MediaBuffer::Off.
Dry ==
  /\ state = "Running"
  /\ \E t \in Gated :
       /\ level[t] = 0 /\ use[t]
       /\ \/ style = "AV"
          \/ style = "A" /\ (t = "audio" \/ ~use["audio"])
          \/ style = "V" /\ (t = "video" \/ ~use["video"])
  /\ state' = "Buffering"
  /\ UNCHANGED <<style, level, use, limit, changed>>

Flush ==
  /\ state' = "Starting"
  /\ level' = [t \in Gated |-> 0] /\ use' = [t \in Gated |-> TRUE]
  /\ UNCHANGED <<style, limit, changed>>

MarkSeek ==
  /\ state' = "Seeking"
  /\ UNCHANGED <<style, level, use, limit, changed>>

SetLimits ==
  /\ \/ \E d \in NewMax : /\ d > limit.buffering /\ d > limit.quick
                          /\ limit' = [limit EXCEPT !.max = d]
     \/ \E d \in NewBuffering : d < limit.max /\ limit' = [limit EXCEPT !.buffering = d]
     \/ \E d \in NewQuick : d < limit.max /\ limit' = [limit EXCEPT !.quick = d]
  /\ changed' = TRUE
  /\ UNCHANGED <<state, style, level, use>>

SetStyle ==
  /\ style' \in Style
  /\ UNCHANGED <<state, level, use, limit, changed>>

Next == \/ Offer \/ OfferMarker \/ OfferSeeking \/ Take \/ Dry
        \/ Flush \/ MarkSeek \/ SetLimits \/ SetStyle

Spec == Init /\ [][Next]_vars

-----------------------------------------------------------------------------
(* Properties *)

TypeOK ==
  /\ state \in BufferState /\ style \in Style
  /\ level \in Levels /\ use \in Uses
  /\ limit \in Limits /\ changed \in BOOLEAN

\* SetParameter's tests keep both thresholds within the buffer: the gate can
\* always be opened by filling it.
LimitsWithinMax == limit.max >= limit.buffering /\ limit.max >= limit.quick

\* A gate that is shut is shut for want of something: On is called often enough
\* for the player never to wait at a buffer that is filled.
ShutForWant ==
  Closed(state) /\ ~changed => \E t \in Gated : Starved(state, level, use, t)

\* What it is shut for is let in, however full the buffer and however long the
\* list: download and player cannot wait for each other.
StarvedAdmitted ==
  Closed(state) => \A t \in Gated, extent \in Durations :
    Starved(state, level, use, t) => Admits(t, extent)
=============================================================================
