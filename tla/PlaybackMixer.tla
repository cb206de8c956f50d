--------------------------- MODULE PlaybackMixer ----------------------------
(***************************************************************************)
(* One playback mixer (mumble/audio.rs start_playback) and its senders.    *)
(*                                                                         *)
(* The clients' receive paths and the radio monitor send decoded stereo    *)
(* frames, tagged with their session, through a bounded channel.  The      *)
(* playback thread lays a frame out for the device and appends it to the   *)
(* session's queue, dropping the oldest samples above a limit.  The audio  *)
(* callback takes a block from every queue at once and adds them up.       *)
(*                                                                         *)
(* Queues are guarded by one mutex, so that an append and a callback are   *)
(* each one step.  A sample is its number in its source's stream, in the   *)
(* device's layout: sample k belongs to channel k % Channels.              *)
(***************************************************************************)
EXTENDS Integers, Sequences

CONSTANTS
  Sources,   \* session ids
  Channels,  \* device_channels
  Seconds,   \* device frames in the limit of a queue (24000)
  Lengths,   \* stereo frames in what a source sends at a time
  Periods,   \* device frames in a callback's buffer
  Capacity,  \* of the channel (1024)
  Total      \* stereo frames a source sends in all, a bound for TLC

MaxBuffered == Seconds * Channels

ASSUME ConstantsAssumption ==
  /\ Channels \in Nat \ {0}
  /\ Seconds \in Nat
  /\ Lengths \subseteq Nat
  /\ Periods \subseteq Nat
  /\ Capacity \in Nat
  /\ Total \in Nat

VARIABLES
  sent,     \* stereo frames each source has sent
  inbox,    \* the channel
  running,  \* the output stream is open and the thread serves the channel
  arrived,  \* samples of each source appended so far, in the device's layout
  sources,  \* the queues; an absent source has an empty one
  heard     \* the sample each source is to be heard from

vars == <<sent, inbox, running, arrived, sources, heard>>

Packet == [source : Sources, frames : Lengths]

TypeOK ==
  /\ sent \in [Sources -> Nat]
  /\ inbox \in Seq(Packet)
  /\ running \in BOOLEAN
  /\ arrived \in [Sources -> Nat]
  /\ sources \in [Sources -> Seq(Nat)]
  /\ heard \in [Sources -> Nat]

----------------------------------------------------------------------------

\* playback_tx.send: waits for room; an error, when the thread is gone, is ignored.
Send(s) ==
  /\ \E n \in Lengths :
       /\ sent[s] + n <= Total
       /\ sent' = [sent EXCEPT ![s] = @ + n]
       /\ \/ /\ running
             /\ Len(inbox) < Capacity
             /\ inbox' = Append(inbox, [source |-> s, frames |-> n])
          \/ /\ ~running
             /\ UNCHANGED inbox
  /\ UNCHANGED <<running, arrived, sources, heard>>

\* No device, no usable configuration or no stream: the thread ends before it
\* takes a frame, and the channel is closed.
NoDevice ==
  /\ running
  /\ \A s \in Sources : arrived[s] = 0
  /\ running' = FALSE
  /\ inbox' = <<>>
  /\ UNCHANGED <<sent, arrived, sources, heard>>

\* Mutant: the first sample of a frame repeats the last one before it.
LayoutOffByOne(s, n) == [i \in 1 .. n * Channels |-> arrived[s] + i - 2]

\* The next n stereo frames of s in the device's layout: for stereo the frame as
\* it is, otherwise one downmixed sample for each of the device's channels.
Layout(s, n) == [i \in 1 .. n * Channels |-> arrived[s] + i - 1]

\* Mutant: above the limit the whole queue goes.
CappedAll(q) == IF Len(q) > MaxBuffered THEN <<>> ELSE q

\* Mutant: one sample too many goes.
CappedOneMore(q) ==
  IF Len(q) > MaxBuffered THEN SubSeq(q, Len(q) - MaxBuffered + 2, Len(q)) ELSE q

\* Above the limit the oldest samples go, whole device frames of them.
Capped(q) ==
  LET excess == Len(q) - MaxBuffered
      aligned == excess - (excess % Channels)
  IN  IF Len(q) > MaxBuffered THEN SubSeq(q, aligned + 1, Len(q)) ELSE q

\* The playback thread takes the next packet.
Push ==
  /\ running
  /\ inbox # <<>>
  /\ LET s == Head(inbox).source
         n == Head(inbox).frames
     IN  /\ sources' = [sources EXCEPT ![s] = Capped(@ \o Layout(s, n))]
         /\ arrived' = [arrived EXCEPT ![s] = @ + n * Channels]
  /\ inbox' = Tail(inbox)
  /\ UNCHANGED <<sent, running, heard>>

\* How many samples a block of n takes from queue q.
Taken(q, n) == IF Len(q) < n THEN Len(q) ELSE n

\* Mutant: a starved source keeps what it has until it can fill the block.
CallbackWholeBlocks ==
  /\ running
  /\ \E p \in Periods :
       LET whole(s) == IF Len(sources[s]) < p * Channels THEN 0 ELSE p * Channels
       IN  /\ sources' = [s \in Sources |->
                            SubSeq(sources[s], whole(s) + 1, Len(sources[s]))]
           /\ heard' = [s \in Sources |->
                          IF whole(s) = 0 THEN heard[s] ELSE sources[s][whole(s)] + 1]
  /\ UNCHANGED <<sent, inbox, running, arrived>>

\* The callback adds what each source has to the block and drains it; drained
\* sources leave the map.
Callback ==
  /\ running
  /\ \E p \in Periods :
       LET taken(s) == Taken(sources[s], p * Channels)
       IN  /\ sources' = [s \in Sources |->
                            SubSeq(sources[s], taken(s) + 1, Len(sources[s]))]
           /\ heard' = [s \in Sources |->
                          IF taken(s) = 0 THEN heard[s] ELSE sources[s][taken(s)] + 1]
  /\ UNCHANGED <<sent, inbox, running, arrived>>

----------------------------------------------------------------------------

Init ==
  /\ sent = [s \in Sources |-> 0]
  /\ inbox = <<>>
  /\ running = TRUE
  /\ arrived = [s \in Sources |-> 0]
  /\ sources = [s \in Sources |-> <<>>]
  /\ heard = [s \in Sources |-> 0]

Next == Push \/ Callback \/ NoDevice \/ \E s \in Sources : Send(s)

Spec == Init /\ [][Next]_vars

\* The device asks for blocks and the thread serves the channel.
FairSpec == Spec /\ WF_vars(Push) /\ WF_vars(Callback)

----------------------------------------------------------------------------

\* The left channel stays left: every queue starts and ends with a whole device
\* frame, after every cap, short block and resumption of a source (audio.rs
\* aligned_drain).
Aligned ==
  \A s \in Sources :
    /\ Len(sources[s]) % Channels = 0
    /\ sources[s] # <<>> => sources[s][1] % Channels = 0

\* No sample is heard twice or out of order: what waits comes after all that was
\* heard of the source, without holes up to what arrived last (audio.rs callback).
InOrder ==
  \A s \in Sources :
    LET q == sources[s]
    IN  /\ q # <<>> => heard[s] <= q[1] /\ q[Len(q)] + 1 = arrived[s]
        /\ \A i \in 1 .. Len(q) - 1 : q[i + 1] = q[i] + 1

\* "drop its oldest samples rather than letting its queue grow without bound"
\* (audio.rs start_playback).
Bounded == \A s \in Sources : Len(sources[s]) <= MaxBuffered

\* Each source has its FIFO to itself and loses only its oldest samples, and only
\* above the limit: the mixer implements SourceFifo.
FifoOfSources ==
  INSTANCE SourceFifo WITH
    Sizes <- {n * Channels : n \in Lengths},
    Blocks <- {p * Channels : p \in Periods},
    Limit <- MaxBuffered,
    lo <- [s \in Sources |-> IF sources[s] = <<>> THEN arrived[s] ELSE sources[s][1]],
    hi <- arrived

ImplementsFifo == FifoOfSources!Fifo

\* A source that stops talking is heard to its end (audio.rs callback: "contributes
\* what it has"): nothing stays behind in the channel or in a queue.
Drains == <>[](running => inbox = <<>> /\ \A s \in Sources : sources[s] = <<>>)

=============================================================================
