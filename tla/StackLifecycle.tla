--------------------------- MODULE StackLifecycle ---------------------------
(***************************************************************************)
(* From Connect to Disconnect: one VoIP stack per connection.              *)
(*                                                                         *)
(* connection::start builds a runtime and spawns run_mumble_stack on it    *)
(* (mumble/stack.rs): a thread opens the microphone, the stack waits 2 s,  *)
(* perhaps creates the virtual radio sink on a blocking thread, starts the *)
(* radio capture and the two playback mixers, spawns the clients and       *)
(* returns.  A client (voip/client.rs run) connects and serves its         *)
(* connection until the server or its audio source ends, or a step fails.  *)
(* connection::stop sets the shutdown flag, which the capture threads      *)
(* poll, and drops the runtime, which cancels the stack and the clients    *)
(* and waits for the blocking thread.                                      *)
(*                                                                         *)
(* Audio input is the real microphone.  Devices, the server and PipeWire   *)
(* are external: opening may fail, connections may be refused or closed.   *)
(***************************************************************************)
EXTENDS Naturals, FiniteSets

CONSTANTS
  MaxConnections,  \* bound: how often the user connects
  VoipClient,      \* which clients: "All", or one of them (CLI --test)
  RadioSource,     \* "Disabled", "AutoSink" or "Device"
  None,            \* no status slot
  Budget           \* how often each failure may happen

Labels == {"Voice", "IC", "PA", "Radio"}
Mixers == {"ambient", "ic"}
Events == {"nodevice", "nosink", "notimer", "refused", "closes", "errors"}

ASSUME ConstantsAssumption ==
  /\ MaxConnections \in Nat
  /\ VoipClient \in Labels \cup {"All"}
  /\ RadioSource \in {"Disabled", "AutoSink", "Device"}
  /\ None \notin {"Connecting", "Connected", "Disconnected"}
  /\ Budget \in [Events -> Nat]

Connections == 1 .. MaxConnections

VARIABLES
  connection,  \* PluginState.connection, 0 for none
  stopping,    \* the flight loop is inside connection::stop
  opened,      \* connections opened so far
  shutdown,    \* MumbleConnection.shutdown
  stack,       \* where run_mumble_stack is
  mic,         \* the microphone's capture thread
  radio,       \* the radio's capture thread
  mixer,       \* the playback threads
  client,      \* the clients' tasks
  status,      \* their slots in VoipStatuses
  left         \* what is left of Budget

main == <<connection, stopping, opened, shutdown>>
audio == <<mic, radio, mixer>>
clients == <<client, status>>
vars == <<main, stack, audio, clients, left>>

StackStates == {"none", "spawned", "waiting", "sink", "returned", "cancelled"}
CaptureStates == {"none", "opening", "open", "closed"}
RadioStates == CaptureStates \cup {"untimed"}
Alive == {"connecting", "online"}

TypeOK ==
  /\ connection \in 0 .. MaxConnections /\ opened \in 0 .. MaxConnections
  /\ stopping \in BOOLEAN
  /\ shutdown \in [Connections -> BOOLEAN]
  /\ stack \in [Connections -> StackStates]
  /\ mic \in [Connections -> CaptureStates]
  /\ radio \in [Connections -> RadioStates]
  /\ mixer \in [Connections -> [Mixers -> CaptureStates]]
  /\ client \in [Connections -> [Labels -> Alive \cup {"none", "ended", "cancelled"}]]
  /\ status \in [Connections -> [Labels -> {None, "Connecting", "Connected", "Disconnected"}]]
  /\ \A c \in Connections, l \in Labels : status[c][l] = None <=> client[c][l] = "none"
  /\ left \in [Events -> Nat]

Spend(event) == left[event] > 0 /\ left' = [left EXCEPT ![event] = @ - 1]

----------------------------------------------------------------------------
(* Connect: the stack comes up.                                            *)

\* connection::start.
Start ==
  /\ connection = 0 /\ ~stopping
  /\ opened < MaxConnections
  /\ opened' = opened + 1
  /\ connection' = opened'
  /\ stack' = [stack EXCEPT ![opened'] = "spawned"]
  /\ UNCHANGED <<stopping, shutdown, audio, clients, left>>

\* The stack's first poll starts the microphone's thread and the 2 s wait.
Begin(c) ==
  /\ stack[c] = "spawned"
  /\ stack' = [stack EXCEPT ![c] = "waiting"]
  /\ mic' = [mic EXCEPT ![c] = "opening"]
  /\ UNCHANGED <<main, radio, mixer, clients, left>>

\* Whether a radio chain belongs to this choice of clients at all.
HasRadio == VoipClient \in {"All", "Radio"} /\ RadioSource # "Disabled"

\* Mutant: the PA client is forgotten.
SpawnedNoPa(withRadio) ==
  (IF VoipClient = "All" THEN {"Voice", "IC"} ELSE {VoipClient} \ {"Radio"})
  \cup (IF withRadio THEN {"Radio"} ELSE {})

\* The clients that are spawned, with or without a radio chain.
Spawned(withRadio) ==
  (IF VoipClient = "All" THEN {"Voice", "IC", "PA"} ELSE {VoipClient} \ {"Radio"})
  \cup (IF withRadio THEN {"Radio"} ELSE {})

\* Mutant: every label gets a slot.
SlotsForAll(withRadio) == [l \in Labels |-> "Connecting"]

\* mk_status: a slot for each client that is spawned.
Slots(withRadio) == [l \in Labels |-> IF l \in Spawned(withRadio) THEN "Connecting" ELSE None]

\* The rest of run_mumble_stack, which does not wait any more.
Spawn(c, withRadio) ==
  /\ stack' = [stack EXCEPT ![c] = "returned"]
  /\ radio' = [radio EXCEPT ![c] = IF withRadio THEN "opening" ELSE @]
  /\ mixer' = [mixer EXCEPT ![c] = [m \in Mixers |-> "opening"]]
  /\ status' = [status EXCEPT ![c] = Slots(withRadio)]
  /\ client' = [client EXCEPT ![c] =
       [l \in Labels |-> IF l \in Spawned(withRadio) THEN "connecting" ELSE "none"]]
  /\ UNCHANGED <<main, mic>>

\* The 2 s are over.
Wake(c) ==
  /\ stack[c] = "waiting"
  /\ IF HasRadio /\ RadioSource = "AutoSink"
     THEN stack' = [stack EXCEPT ![c] = "sink"] /\ UNCHANGED <<main, audio, clients>>
     ELSE Spawn(c, HasRadio)
  /\ UNCHANGED left

\* create_linux_sink returns, at the latest after its timeout of 5 s.
SinkReturns(c) ==
  /\ stack[c] = "sink"
  /\ \/ Spawn(c, TRUE) /\ UNCHANGED left
     \/ Spend("nosink") /\ Spawn(c, FALSE)

----------------------------------------------------------------------------
(* Audio threads.                                                          *)

\* A device is opened, or its thread gives up.
MicOpens(c) ==
  /\ mic[c] = "opening"
  /\ \/ mic' = [mic EXCEPT ![c] = "open"] /\ UNCHANGED left
     \/ mic' = [mic EXCEPT ![c] = "closed"] /\ Spend("nodevice")
  /\ UNCHANGED <<main, stack, radio, mixer, clients>>

\* The radio's capture is also opened when the timer that is to watch the flag could
\* not be armed, which is logged.
RadioOpens(c) ==
  /\ radio[c] = "opening"
  /\ \/ radio' = [radio EXCEPT ![c] = "open"] /\ UNCHANGED left
     \/ radio' = [radio EXCEPT ![c] = "untimed"] /\ Spend("notimer")
     \/ radio' = [radio EXCEPT ![c] = "closed"] /\ Spend("nodevice")
  /\ UNCHANGED <<main, stack, mic, mixer, clients>>

MixerOpens(c, m) ==
  /\ mixer[c][m] = "opening"
  /\ \/ mixer' = [mixer EXCEPT ![c][m] = "open"] /\ UNCHANGED left
     \/ mixer' = [mixer EXCEPT ![c][m] = "closed"] /\ Spend("nodevice")
  /\ UNCHANGED <<main, stack, mic, radio, clients>>

\* Mutant: the microphone's thread never looks at the flag.
MicForgets(c) == FALSE /\ UNCHANGED vars

\* A capture thread polls the flag every 200 ms.
MicStops(c) ==
  /\ mic[c] = "open" /\ shutdown[c]
  /\ mic' = [mic EXCEPT ![c] = "closed"]
  /\ UNCHANGED <<main, stack, radio, mixer, clients, left>>

\* The timer does the same for the radio; a capture without it runs on.
RadioStops(c) ==
  /\ radio[c] = "open" /\ shutdown[c]
  /\ radio' = [radio EXCEPT ![c] = "closed"]
  /\ UNCHANGED <<main, stack, mic, mixer, clients, left>>

\* The tasks that can still send to a mixer: clients, and for the intercom's the
\* task that mirrors the radio, which ends with its source or with the runtime.
Senders(c, m) ==
  LET feeds == IF m = "ic" THEN {"IC"} ELSE Labels \ {"IC"}
      mirrors == m = "ic" /\ radio[c] \notin {"none", "closed"} /\ connection = c
  IN  {l \in feeds : client[c][l] \in Alive} \cup (IF mirrors THEN {"mirror"} ELSE {})

\* A mixer ends when its last sender is gone.
MixerStops(c, m) ==
  /\ mixer[c][m] = "open"
  /\ Senders(c, m) = {}
  /\ mixer' = [mixer EXCEPT ![c][m] = "closed"]
  /\ UNCHANGED <<main, stack, mic, radio, clients, left>>

----------------------------------------------------------------------------
(* Clients.                                                                *)

\* connect succeeds.
Online(c, l) ==
  /\ client[c][l] = "connecting"
  /\ client' = [client EXCEPT ![c][l] = "online"]
  /\ status' = [status EXCEPT ![c][l] = "Connected"]
  /\ UNCHANGED <<main, stack, audio, left>>

\* connect fails: run returns its error, and the slot stays as it is.
Refused(c, l) ==
  /\ client[c][l] = "connecting"
  /\ Spend("refused")
  /\ client' = [client EXCEPT ![c][l] = "ended"]
  /\ UNCHANGED <<main, stack, audio, status>>

\* Mutant: the slot is not touched after the loop.
EndsSilently(c, l) ==
  /\ client[c][l] = "online"
  /\ client' = [client EXCEPT ![c][l] = "ended"]
  /\ UNCHANGED <<main, stack, audio, status>>

\* The loop is left by break.
Ends(c, l) ==
  /\ client[c][l] = "online"
  /\ client' = [client EXCEPT ![c][l] = "ended"]
  /\ status' = [status EXCEPT ![c][l] = "Disconnected"]
  /\ UNCHANGED <<main, stack, audio>>

ServerCloses(c, l) == Ends(c, l) /\ Spend("closes")

\* The capture that feeds a client is gone, and with it the last sender of its
\* broadcast channel; the stack holds one until it returns.
SourceGone(c, l) ==
  /\ stack[c] = "returned"
  /\ IF l = "Radio" THEN radio[c] = "closed" ELSE mic[c] = "closed"

SourceEnds(c, l) == SourceGone(c, l) /\ Ends(c, l) /\ UNCHANGED left

\* A step fails and leaves run by ?, past the line that sets the slot.
StepFails(c, l) ==
  /\ client[c][l] = "online"
  /\ Spend("errors")
  /\ client' = [client EXCEPT ![c][l] = "ended"]
  /\ UNCHANGED <<main, stack, audio, status>>

----------------------------------------------------------------------------
(* Disconnect.                                                             *)

\* connection::stop, or XPluginDisable: MumbleConnection's drop raises the flag,
\* then its runtime is dropped.
Stop ==
  /\ connection # 0 /\ ~stopping
  /\ shutdown' = [shutdown EXCEPT ![connection] = TRUE]
  /\ stopping' = TRUE
  /\ UNCHANGED <<connection, opened, stack, audio, clients, left>>

\* Mutant: the runtime is shut down in the background.
DroppedBackground ==
  /\ stopping
  /\ stopping' = FALSE
  /\ connection' = 0
  /\ UNCHANGED <<opened, shutdown, stack, audio, clients, left>>

\* The runtime is gone: the blocking thread has finished, all tasks are cancelled.
Dropped ==
  /\ stopping
  /\ stack[connection] # "sink"
  /\ stack' = [stack EXCEPT ![connection] = IF @ = "returned" THEN @ ELSE "cancelled"]
  /\ client' = [client EXCEPT ![connection] =
       [l \in Labels |-> IF @[l] \in Alive THEN "cancelled" ELSE @[l]]]
  /\ stopping' = FALSE
  /\ connection' = 0
  /\ UNCHANGED <<opened, shutdown, audio, status, left>>

\* The blocking thread finishes while the runtime is being dropped; the stack does
\* not run on.
SinkAbandoned(c) ==
  /\ stack[c] = "sink" /\ stopping
  /\ stack' = [stack EXCEPT ![c] = "cancelled"]
  /\ UNCHANGED <<main, audio, clients, left>>

----------------------------------------------------------------------------

Init ==
  /\ connection = 0 /\ opened = 0
  /\ stopping = FALSE
  /\ shutdown = [c \in Connections |-> FALSE]
  /\ stack = [c \in Connections |-> "none"]
  /\ mic = [c \in Connections |-> "none"]
  /\ radio = [c \in Connections |-> "none"]
  /\ mixer = [c \in Connections |-> [m \in Mixers |-> "none"]]
  /\ client = [c \in Connections |-> [l \in Labels |-> "none"]]
  /\ status = [c \in Connections |-> [l \in Labels |-> None]]
  /\ left = Budget

Stack(c) == Begin(c) \/ Wake(c) \/ SinkReturns(c) \/ SinkAbandoned(c)
MicThread(c) == MicOpens(c) \/ MicStops(c)
RadioThread(c) == RadioOpens(c) \/ RadioStops(c)
MixerThread(c, m) == MixerOpens(c, m) \/ MixerStops(c, m)
Client(c, l) == Online(c, l) \/ Refused(c, l) \/ SourceEnds(c, l)

Next ==
  \/ Start \/ Stop \/ Dropped
  \/ \E c \in Connections :
       \/ Stack(c) \/ MicThread(c) \/ RadioThread(c)
       \/ \E m \in Mixers : MixerThread(c, m)
       \/ \E l \in Labels : Client(c, l) \/ ServerCloses(c, l) \/ StepFails(c, l)

Spec == Init /\ [][Next]_vars

\* Threads and tasks run; opening a device, connecting and creating the sink end
\* one way or the other.  Nobody need connect or disconnect.
FairSpec ==
  /\ Spec
  /\ WF_vars(Dropped)
  /\ \A c \in Connections :
       /\ WF_vars(Stack(c)) /\ WF_vars(MicThread(c)) /\ WF_vars(RadioThread(c))
       /\ \A m \in Mixers : WF_vars(MixerThread(c, m))
       /\ \A l \in Labels : WF_vars(Client(c, l))

----------------------------------------------------------------------------
(* What a connection promises.                                             *)

\* Clients of at most one connection run, the current one's: after Disconnect
\* returns nobody talks in the user's name, however far the stack had come
\* (connection.rs stop).
OneCrew ==
  \A c \in Connections, l \in Labels : client[c][l] \in Alive => connection = c

\* Nothing of a connection is open or running, except for a radio capture that has no
\* timer: that one nothing ever ends (audio.rs pw_capture_loop).
Quiet(c) ==
  /\ mic[c] \in {"none", "closed"} /\ radio[c] \in {"none", "closed", "untimed"}
  /\ \A m \in Mixers : mixer[c][m] \in {"none", "closed"}
  /\ \A l \in Labels : client[c][l] \notin Alive

\* "Released instead of leaking across reconnects" (audio.rs start_capture,
\* start_loopback_capture): after Disconnect the call returns, and everything the
\* connection had opened or was about to open is closed and stays closed; a radio
\* capture whose timer failed is the one thing that leaks.
Gone(c) == Quiet(c) /\ (stopping => connection # c)
Released == \A c \in Connections : shutdown[c] ~> []Gone(c)

\* Connect brings up every client of the choice, unless something fails or the user
\* disconnects first (stack.rs run_mumble_stack).
Crew == (IF VoipClient = "All" THEN Labels ELSE {VoipClient})
        \ (IF RadioSource = "Disabled" THEN {"Radio"} ELSE {})
AllOnline ==
  \A c \in Connections, l \in Crew :
    connection = c ~> client[c][l] = "online" \/ connection # c \/ left # Budget

\* "That client's live connection status" (mumble/mod.rs VoipStatuses): what the
\* window shows of a client is what the client is doing.
StatusIsLive ==
  connection # 0 => \A l \in Labels :
    /\ status[connection][l] = "Connecting" => client[connection][l] = "connecting"
    /\ status[connection][l] = "Connected" => client[connection][l] = "online"

\* The same as long as no client left run by an error: a refused connection and a
\* failed step skip the line that sets the slot, which then keeps its last value
\* until the next connect.
Unspent(event) == left[event] = Budget[event]
StatusFollows == Unspent("refused") /\ Unspent("errors") => StatusIsLive

=============================================================================
