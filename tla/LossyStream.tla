----------------------------- MODULE LossyStream -----------------------------
(***************************************************************************)
(* What a capture promises its listeners: one stream of samples, numbered  *)
(* at its source and heard in whole frames.  A listener hears the samples  *)
(* in order and none twice, and all of them, with two exceptions that are  *)
(* recorded when they happen: samples that are lost for everybody, which   *)
(* takes a full buffer, and a listener that was too late.  The stream ends *)
(* for a listener when it is over and less is left than fills a frame.     *)
(***************************************************************************)
EXTENDS Naturals, FiniteSets, Functions

CONSTANTS
  Listeners,
  Frame,      \* samples of a frame
  Rest        \* more samples than are ever left over at the end

VARIABLES
  made,   \* samples made so far, numbered from 1
  over,   \* no more will be made
  full,   \* a buffer that everything passes is full
  lost,   \* samples that nobody will hear
  late,   \* listeners that may have missed more
  got,    \* the last frame heard by each listener, <<>> before the first
  state   \* "none", "listening", "closed", "gone"

Start ==
  /\ made = 0
  /\ over = FALSE
  /\ lost = {} /\ late = {}
  /\ got = [l \in Listeners |-> <<>>]
  /\ state = [l \in Listeners |-> "none"]

\* The last sample a listener has heard.
Heard(l) == IF got[l] = <<>> THEN 0 ELSE got[l][Frame]

\* A listener that has missed nothing but lost samples since its first frame.
Attentive(l) == l \notin late /\ got[l] # <<>>

\* Samples are made, or get lost, or a listener falls behind.  What somebody has heard
\* is not lost any more.
Make ==
  /\ made' >= made
  /\ made' # made => ~over
  /\ lost \subseteq lost' /\ lost' \subseteq 1 .. made'
  /\ lost' # lost => full
  /\ \A l \in Listeners : \A x \in lost' \ lost : x > Heard(l)
  /\ late \subseteq late'
  /\ UNCHANGED <<over, got, state>>

Finish ==
  /\ over' = TRUE
  /\ UNCHANGED <<made, lost, late, got, state>>

Join(l) ==
  /\ state[l] = "none"
  /\ state' = [state EXCEPT ![l] = "listening"]
  /\ UNCHANGED <<made, over, lost, late, got>>

\* A frame holds what is left of a part of the stream.
Holds(frame, first) ==
  /\ frame \in [1 .. Frame -> first .. made]
  /\ \A i, j \in 1 .. Frame : i < j => frame[i] < frame[j]
  /\ Range(frame) = (first .. frame[Frame]) \ lost

\* The next frame, or a later one for a listener that missed some.
Hear(l) ==
  /\ state[l] = "listening"
  /\ \E first \in Heard(l) + 1 .. made :
       /\ Attentive(l) => first = Heard(l) + 1
       /\ Holds(got'[l], first)
  /\ got' = [got EXCEPT ![l] = got'[l]]
  /\ UNCHANGED <<made, over, lost, late, state>>

Close(l) ==
  /\ state[l] = "listening"
  /\ over
  /\ Attentive(l) => Cardinality((Heard(l) + 1 .. made) \ lost) < Rest
  /\ state' = [state EXCEPT ![l] = "closed"]
  /\ UNCHANGED <<made, over, lost, late, got>>

Leave(l) ==
  /\ state[l] = "listening"
  /\ state' = [state EXCEPT ![l] = "gone"]
  /\ UNCHANGED <<made, over, lost, late, got>>

Step == Make \/ Finish \/ \E l \in Listeners : Join(l) \/ Hear(l) \/ Close(l) \/ Leave(l)

Stream == Start /\ [][Step]_<<made, over, lost, late, got, state>>

=============================================================================
