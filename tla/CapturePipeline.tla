--------------------------- MODULE CapturePipeline ---------------------------
(***************************************************************************)
(* From a capture's callbacks to the clients that send its frames.         *)
(*                                                                         *)
(* A capture thread cuts the samples it gets into frames of 20 ms          *)
(* (mumble/audio.rs) and puts them into a bounded queue without waiting.   *)
(* A thread of the stack moves them into a broadcast ring (stack.rs), from *)
(* which every client, and the radio's local monitor, reads at its own     *)
(* pace (client.rs run): one that falls behind by more than the ring holds *)
(* goes on with the oldest frame there is.  When the capture ends, on      *)
(* Disconnect or because it could not be opened, and the stack has dropped *)
(* its own handle, the ring closes and the clients end.                    *)
(*                                                                         *)
(* A sample is known by its number at the source; what gain, RNNoise and   *)
(* the downmix do to its value is left out.                                *)
(***************************************************************************)
EXTENDS Naturals, Sequences, FiniteSets, Functions

CONSTANTS
  Kinds,      \* "device", "denoised", "loopback" or "test"
  Listeners,  \* the clients and monitors that read the ring
  Frame,      \* OPUS_FRAME_SAMPLES, 960
  Noise,      \* DenoiseState::FRAME_SIZE, 480
  Chunks,     \* samples of a callback
  RawCap,     \* chunks between the loopback's callback and its thread, 256
  QueueCap,   \* frames between the capture and the forwarder, 128
  RingCap,    \* frames of the broadcast ring, 128
  Supply      \* bound: samples the source delivers

ASSUME ConstantsAssumption ==
  /\ Kinds \subseteq {"device", "denoised", "loopback", "test"}
  /\ Frame \in Nat \ {0} /\ Noise \in Nat \ {0}
  /\ Chunks \subseteq Nat
  /\ RawCap \in Nat \ {0} /\ QueueCap \in Nat \ {0} /\ RingCap \in Nat \ {0}
  /\ Supply \in Nat

VARIABLES
  kind,        \* one of Kinds
  made,        \* samples the source has delivered
  raw,         \* chunks in the loopback's channel
  capture,     \* capture_buffer, the samples that wait for the denoiser
  output,      \* output_buffer or accum, the samples that wait for a frame
  line,        \* the capture: "opening", "running", "unarmed", "stopping", "ended"
  queue,       \* frames in the mpsc channel
  forwarding,  \* the forwarder holds its sender of the ring
  sent,        \* all frames sent into the ring, which holds the last RingCap
  returned,    \* run_mumble_stack has returned and dropped its sender
  shutdown,    \* the connection's flag
  state,       \* a listener: "none", "listening", "closed", "gone"
  cursor,      \* frames of sent a listener is done with
  got,         \* the last frame a listener has read, <<>> before the first
  lost,        \* samples dropped before the ring
  late         \* listeners that were too far behind

framing == <<capture, output>>
source == <<kind, made, raw>>
stack == <<returned, shutdown>>
listeners == <<state, cursor, got>>
vars == <<source, framing, line, queue, forwarding, sent, stack, listeners, lost, late>>

Frames == [1 .. Frame -> Nat]

TypeOK ==
  /\ kind \in Kinds
  /\ made \in 0 .. Supply
  /\ raw \in Seq(Seq(Nat)) /\ Len(raw) <= RawCap
  /\ capture \in Seq(Nat) /\ (kind # "denoised" => capture = <<>>)
  /\ output \in Seq(Nat)
  /\ line \in {"opening", "running", "unarmed", "stopping", "ended"}
  /\ queue \in Seq(Frames) /\ Len(queue) <= QueueCap
  /\ forwarding \in BOOLEAN
  /\ sent \in Seq(Frames)
  /\ returned \in BOOLEAN /\ shutdown \in BOOLEAN
  /\ state \in [Listeners -> {"none", "listening", "closed", "gone"}]
  /\ cursor \in [Listeners -> 0 .. Len(sent)]
  /\ got \in [Listeners -> Frames \cup {<<>>}]
  /\ lost \subseteq Nat
  /\ late \subseteq Listeners

----------------------------------------------------------------------------
(* The capture.                                                            *)

\* What follows when the capture's stream is gone: the loopback's thread still
\* empties its channel.
Dropped == IF kind = "loopback" THEN "stopping" ELSE "ended"

\* The device or ffmpeg is opened, or is not.  The loopback's stream also runs when the
\* timer that is to stop it could not be armed, which is logged.
Open ==
  /\ line = "opening"
  /\ line' \in {"running", Dropped} \cup (IF kind = "loopback" THEN {"unarmed"} ELSE {})
  /\ UNCHANGED <<source, framing, queue, forwarding, sent, stack, listeners, lost, late>>

\* The n samples that come next.
Coming(n) == [i \in 1 .. n |-> made + i]

\* The last callback is through with its buffers.
Settled == Len(capture) < Noise /\ Len(output) < Frame

\* A callback of the device; ffmpeg is read a frame at a time.
Callback ==
  /\ kind # "loopback"
  /\ line = "running"
  /\ Settled
  /\ \E n \in IF kind = "test" THEN {Frame} ELSE Chunks :
       /\ made + n <= Supply
       /\ made' = made + n
       /\ IF kind = "denoised"
          THEN capture' = capture \o Coming(n) /\ UNCHANGED output
          ELSE output' = output \o Coming(n) /\ UNCHANGED capture
  /\ UNCHANGED <<kind, raw, line, queue, forwarding, sent, stack, listeners, lost, late>>

\* The loopback's realtime callback drops a chunk its thread has no room for.
Process ==
  /\ kind = "loopback"
  /\ line \in {"running", "unarmed"}
  /\ \E n \in Chunks :
       /\ made + n <= Supply
       /\ made' = made + n
       /\ IF Len(raw) < RawCap
          THEN raw' = Append(raw, Coming(n)) /\ UNCHANGED lost
          ELSE lost' = lost \cup Range(Coming(n)) /\ UNCHANGED raw
  /\ UNCHANGED <<kind, framing, line, queue, forwarding, sent, stack, listeners, late>>

\* Its thread takes a chunk.
Accumulate ==
  /\ raw # <<>>
  /\ Settled
  /\ raw' = Tail(raw)
  /\ output' = output \o Head(raw)
  /\ UNCHANGED <<kind, made, capture, line, queue, forwarding, sent, stack, listeners, lost, late>>

\* RNNoise takes samples in frames of its own.
Denoise ==
  /\ Len(capture) >= Noise
  /\ output' = output \o SubSeq(capture, 1, Noise)
  /\ capture' = SubSeq(capture, Noise + 1, Len(capture))
  /\ UNCHANGED <<source, line, queue, forwarding, sent, stack, listeners, lost, late>>

\* Mutant: the capture waits for nothing and nothing bounds the queue.
CutUnbounded ==
  /\ Len(capture) < Noise
  /\ Len(output) >= Frame
  /\ queue' = Append(queue, SubSeq(output, 1, Frame))
  /\ output' = SubSeq(output, Frame + 1, Len(output))
  /\ UNCHANGED <<source, capture, line, forwarding, sent, stack, listeners, lost, late>>

\* A frame is cut.  try_send drops it when the queue is full.
Cut ==
  /\ Len(capture) < Noise
  /\ Len(output) >= Frame
  /\ LET frame == SubSeq(output, 1, Frame) IN
       IF Len(queue) < QueueCap
       THEN queue' = Append(queue, frame) /\ UNCHANGED lost
       ELSE lost' = lost \cup Range(frame) /\ UNCHANGED queue
  /\ output' = SubSeq(output, Frame + 1, Len(output))
  /\ UNCHANGED <<source, capture, line, forwarding, sent, stack, listeners, late>>

\* Mutant: a loopback capture is not tied to the connection.
StopDevices ==
  /\ line = "running"
  /\ (shutdown /\ kind # "loopback") \/ kind = "test"
  /\ Settled
  /\ line' = Dropped
  /\ UNCHANGED <<source, framing, queue, forwarding, sent, stack, listeners, lost, late>>

\* The capture thread, or the loopback's timer, finds the flag set and drops the
\* stream, which waits for its callback.  ffmpeg ends when it cannot be started again.
\* A stream whose timer is not armed goes on.
Stop ==
  /\ line = "running"
  /\ shutdown \/ kind = "test"
  /\ kind = "loopback" \/ Settled
  /\ line' = Dropped
  /\ UNCHANGED <<source, framing, queue, forwarding, sent, stack, listeners, lost, late>>

\* The loopback's thread ends with its channel.
Drained ==
  /\ line = "stopping"
  /\ raw = <<>>
  /\ Settled
  /\ line' = "ended"
  /\ UNCHANGED <<source, framing, queue, forwarding, sent, stack, listeners, lost, late>>

----------------------------------------------------------------------------
(* The stack.                                                              *)

\* The forwarder sends a frame; no listener holds it up.
Forward ==
  /\ queue # <<>>
  /\ queue' = Tail(queue)
  /\ sent' = Append(sent, Head(queue))
  /\ late' = late \cup {l \in Listeners : state[l] = "listening"
                                          /\ Len(sent') - cursor[l] > RingCap}
  /\ UNCHANGED <<source, framing, line, forwarding, stack, listeners, lost>>

\* It ends with the capture, after the last frame.
ForwarderEnds ==
  /\ forwarding
  /\ line = "ended"
  /\ queue = <<>>
  /\ forwarding' = FALSE
  /\ UNCHANGED <<source, framing, line, queue, sent, stack, listeners, lost, late>>

\* A client is started with a receiver, which begins with the next frame.
Subscribe(l) ==
  /\ ~returned
  /\ state[l] = "none"
  /\ state' = [state EXCEPT ![l] = "listening"]
  /\ cursor' = [cursor EXCEPT ![l] = Len(sent)]
  /\ UNCHANGED <<source, framing, line, queue, forwarding, sent, stack, got, lost, late>>

StackReturns ==
  /\ ~returned
  /\ returned' = TRUE
  /\ UNCHANGED <<source, framing, line, queue, forwarding, sent, shutdown, listeners, lost, late>>

Disconnect ==
  /\ ~shutdown
  /\ shutdown' = TRUE
  /\ UNCHANGED <<source, framing, line, queue, forwarding, sent, returned, listeners, lost, late>>

----------------------------------------------------------------------------
(* The listeners.                                                          *)

Behind(l) == Len(sent) - cursor[l]

\* Mutant: one frame too early is taken for lagging.
LaggedEarly(l) ==
  /\ Behind(l) >= RingCap
  /\ cursor' = [cursor EXCEPT ![l] = Len(sent) - RingCap + 1]
  /\ UNCHANGED <<state, got>>

\* RecvError::Lagged: go on with the oldest frame of the ring.
Lagged(l) ==
  /\ Behind(l) > RingCap
  /\ cursor' = [cursor EXCEPT ![l] = Len(sent) - RingCap]
  /\ UNCHANGED <<state, got>>

\* A frame, for on_mic_pcm or the monitor.
Received(l) ==
  /\ Behind(l) \in 1 .. RingCap
  /\ cursor' = [cursor EXCEPT ![l] = @ + 1]
  /\ got' = [got EXCEPT ![l] = sent[cursor'[l]]]
  /\ UNCHANGED state

\* RecvError::Closed: all senders are gone and the ring is read.
Closed(l) ==
  /\ Behind(l) = 0
  /\ ~forwarding /\ returned
  /\ state' = [state EXCEPT ![l] = "closed"]
  /\ UNCHANGED <<cursor, got>>

\* audio_rx.recv() in the loop of a client or of the monitor.
Read(l) ==
  /\ state[l] = "listening"
  /\ Lagged(l) \/ Received(l) \/ Closed(l)
  /\ UNCHANGED <<source, framing, line, queue, forwarding, sent, stack, lost, late>>

\* The server hangs up or an error leaves the loop.
Leave(l) ==
  /\ state[l] = "listening"
  /\ state' = [state EXCEPT ![l] = "gone"]
  /\ UNCHANGED <<source, framing, line, queue, forwarding, sent, stack, cursor, got, lost, late>>

----------------------------------------------------------------------------

Init ==
  /\ kind \in Kinds
  /\ made = 0 /\ lost = {}
  /\ raw = <<>>
  /\ capture = <<>> /\ output = <<>>
  /\ line = "opening"
  /\ queue = <<>>
  /\ forwarding = TRUE
  /\ sent = <<>>
  /\ returned = FALSE /\ shutdown = FALSE
  /\ state = [l \in Listeners |-> "none"]
  /\ cursor = [l \in Listeners |-> 0]
  /\ got = [l \in Listeners |-> <<>>]
  /\ late = {}

Capture == Open \/ Callback \/ Process \/ Accumulate \/ Denoise \/ Cut \/ Stop \/ Drained
Stack == Forward \/ ForwarderEnds \/ StackReturns \/ Disconnect

Next ==
  \/ Capture
  \/ Stack
  \/ \E l \in Listeners : Subscribe(l) \/ Read(l) \/ Leave(l)

Spec == Init /\ [][Next]_vars

\* The threads and the clients' loops run on; opening a device ends; the stack
\* returns.  Nobody has to disconnect and ffmpeg may run for ever.
Fairness ==
  /\ WF_vars(Open) /\ WF_vars(Accumulate) /\ WF_vars(Denoise) /\ WF_vars(Cut)
  /\ WF_vars(kind # "test" /\ Stop) /\ WF_vars(Drained)
  /\ WF_vars(Forward) /\ WF_vars(ForwarderEnds) /\ WF_vars(StackReturns)
  /\ \A l \in Listeners : WF_vars(Read(l))

FairSpec == Spec /\ Fairness

----------------------------------------------------------------------------
(* What must hold.                                                         *)

LossyStream == INSTANCE LossyStream
  WITH over <- line = "ended",
       full <- Len(queue) = QueueCap \/ Len(raw) = RawCap,
       Rest <- Frame + Noise

\* Whatever the sizes of the callbacks, however long a client or a thread is held up
\* and whoever leaves: samples are lost only while the raw channel or the queue is full
\* (audio.rs try_send), and each of them counts.  A client's frames are whole and in
\* order, and they leave out nothing but the lost samples, unless this very client fell
\* more than the ring behind (client.rs Lagged).  It is told that the capture has ended
\* (client.rs Closed) only after everything that filled a frame.
ImplementsStream == LossyStream!Stream

\* Every client learns of the capture's end, the one that never was opened and the
\* one that Disconnect stops: nobody waits at a silent ring (stack.rs, client.rs
\* Closed).  A test input is not stopped by Disconnect, and nothing stops a loopback
\* whose timer could not be armed (audio.rs pw_capture_loop).
EveryoneTold ==
  line = "ended" \/ (shutdown /\ kind # "test")
    ~> [](\A l \in Listeners : state[l] # "listening") \/ line = "unarmed"

=============================================================================
