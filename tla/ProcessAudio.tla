----------------------------- MODULE ProcessAudio -----------------------------
(***************************************************************************)
(* What all connections of the process share when they open audio on       *)
(* Linux (mumble/audio.rs): the environment variable PIPEWIRE_NODE, which  *)
(* says where a device is routed, the lock around it, and the virtual      *)
(* radio sink, whose name is cached once it has been seen.                 *)
(*                                                                         *)
(* run_mumble_stack starts the microphone's thread, waits 2 s, asks for    *)
(* the sink and starts the threads of the two outputs.  Threads of an old  *)
(* connection may still be opening their devices when the next one starts. *)
(* A call for the sink starts a thread that looks for it in the PipeWire   *)
(* graph and creates it if it is not there; the thread goes on when the    *)
(* call has timed out.                                                     *)
(*                                                                         *)
(* All connections here have the sink as their radio source.  What becomes *)
(* of the streams is StackLifecycle's.  PipeWire and other programs are    *)
(* external.                                                               *)
(***************************************************************************)
EXTENDS Naturals, FiniteSets

CONSTANTS
  MaxConnections,  \* bound: how often the user connects
  Nodes,           \* PipeWire nodes by name
  NoNode,          \* no device is configured, the variable is removed
  Wanted,          \* the configured node of each connection and role
  Nobody,          \* the lock is free
  Foreign,         \* the sink of another program
  MaxEvents        \* bound: how many of Events may happen

Connections == 1 .. MaxConnections
Roles == {"mic", "ambient", "ic"}

\* Each happens once at most: a device fails, PipeWire cannot be reached, it does not
\* create the sink, it takes more than 5 s, another program's sink comes or goes, the
\* daemon starts anew.
Events == {"nodevice", "unreachable", "refused", "slow", "comes", "leaves", "restart"}

ASSUME ConstantsAssumption ==
  /\ MaxConnections \in Nat
  /\ Wanted \in [Connections -> [Roles -> Nodes \cup {NoNode}]]
  /\ Nobody \notin Connections \X Roles
  /\ Foreign \notin Connections
  /\ MaxEvents \in Nat

VARIABLES
  stage,     \* a connection: "none", "waiting", "sink", "leaving", "up", "down"
  happened,  \* the connection during which an event was, 0 for not yet
  lock,      \* device_open_lock's holder
  node,      \* PIPEWIRE_NODE
  opener,    \* the threads that open devices
  target,    \* where an opened device is routed
  cached,    \* SINK is set
  answer,    \* what create_linux_sink returned: "none", "ready", "failed"
  thread,    \* pw_null_sink_loop of a connection's call
  seen,      \* it has seen the sink and signalled ready_tx
  news,      \* threads to which the graph has announced a sink
  own,       \* threads whose node exists
  foreign    \* another program's sink exists

devices == <<lock, node, opener, target>>
call == <<cached, answer>>
graph == <<thread, seen, news, own, foreign>>
vars == <<stage, happened, devices, call, graph>>

OpenerStates == {"none", "waiting", "routed", "open", "failed"}
ThreadStates == {"none", "started", "dumped", "creating", "keeping", "idle", "dead", "cut"}

\* create_linux_sink waits for the thread of the connection.
Calling(c) == stage[c] \in {"sink", "leaving"}

TypeOK ==
  /\ stage \in [Connections -> {"none", "waiting", "sink", "leaving", "up", "down"}]
  /\ happened \in [Events -> 0 .. MaxConnections]
  /\ lock \in (Connections \X Roles) \cup {Nobody}
  /\ node \in Nodes \cup {NoNode}
  /\ opener \in [Connections -> [Roles -> OpenerStates]]
  /\ target \in [Connections -> [Roles -> Nodes \cup {NoNode}]]
  /\ cached \in BOOLEAN
  /\ answer \in [Connections -> {"none", "ready", "failed"}]
  /\ thread \in [Connections -> ThreadStates]
  /\ seen \in [Connections -> BOOLEAN]
  /\ news \subseteq Connections
  /\ own \subseteq Connections
  /\ foreign \in BOOLEAN
  /\ \A c \in Connections :
       /\ stage[c] \in {"none", "waiting"} => answer[c] = "none" /\ thread[c] = "none"
       /\ thread[c] # "none" => (answer[c] = "none" <=> Calling(c))

Happens(e) ==
  /\ happened[e] = 0
  /\ Cardinality({f \in Events : happened[f] # 0}) < MaxEvents
  /\ \E c \in Connections :
       /\ stage[c] # "none"
       /\ c + 1 \in Connections => stage[c + 1] = "none"
       /\ happened' = [happened EXCEPT ![e] = c]

----------------------------------------------------------------------------
(* Connections.                                                            *)

\* Start of the stack: the microphone's thread is started.  The runtime of the
\* connection before has been dropped.
Connect(c) ==
  /\ stage[c] = "none"
  /\ c - 1 \in Connections => stage[c - 1] = "down"
  /\ stage' = [stage EXCEPT ![c] = "waiting"]
  /\ opener' = [opener EXCEPT ![c]["mic"] = "waiting"]
  /\ UNCHANGED <<happened, lock, node, target, call, graph>>

\* The two outputs' threads are started.
StartsOutputs(c) ==
  /\ stage' = [stage EXCEPT ![c] = "up"]
  /\ opener' = [opener EXCEPT ![c]["ambient"] = "waiting", ![c]["ic"] = "waiting"]

\* Mutant: the first call's answer stays, a failure too.
WakeOnce(c) ==
  /\ stage[c] = "waiting"
  /\ IF \E d \in Connections : answer[d] # "none"
     THEN /\ answer' = [answer EXCEPT ![c] = IF cached THEN "ready" ELSE "failed"]
          /\ StartsOutputs(c)
          /\ UNCHANGED thread
     ELSE /\ thread' = [thread EXCEPT ![c] = "started"]
          /\ stage' = [stage EXCEPT ![c] = "sink"]
          /\ UNCHANGED <<answer, opener>>
  /\ UNCHANGED <<happened, lock, node, target, cached, seen, news, own, foreign>>

\* The 2 s are over: create_linux_sink is called.
Wake(c) ==
  /\ stage[c] = "waiting"
  /\ IF cached
     THEN /\ answer' = [answer EXCEPT ![c] = "ready"]
          /\ StartsOutputs(c)
          /\ UNCHANGED thread
     ELSE /\ thread' = [thread EXCEPT ![c] = "started"]
          /\ stage' = [stage EXCEPT ![c] = "sink"]
          /\ UNCHANGED <<answer, opener>>
  /\ UNCHANGED <<happened, lock, node, target, cached, seen, news, own, foreign>>

\* The call returns; the stack goes on, unless it has been cancelled.
Return(c, result) ==
  /\ answer' = [answer EXCEPT ![c] = result]
  /\ IF stage[c] = "sink"
     THEN StartsOutputs(c)
     ELSE stage' = [stage EXCEPT ![c] = "down"] /\ UNCHANGED opener

\* Mutant: Disconnect does not wait for the blocking thread.
DisconnectNow(c) ==
  /\ stage[c] \in {"waiting", "sink", "up"}
  /\ stage' = [stage EXCEPT ![c] = "down"]
  /\ UNCHANGED <<happened, devices, call, graph>>

\* Disconnect.  While the call for the sink runs, the runtime waits for it.
Disconnect(c) ==
  /\ stage[c] \in {"waiting", "sink", "up"}
  /\ stage' = [stage EXCEPT ![c] = IF @ = "sink" THEN "leaving" ELSE "down"]
  /\ UNCHANGED <<happened, devices, call, graph>>

----------------------------------------------------------------------------
(* Devices.                                                                *)

\* Mutant: the lock is not taken for the choice of the device.
SelectUnlocked(c, r) ==
  /\ opener[c][r] = "waiting"
  /\ lock' = <<c, r>>
  /\ node' = Wanted[c][r]
  /\ opener' = [opener EXCEPT ![c][r] = "routed"]
  /\ UNCHANGED <<stage, happened, target, call, graph>>

\* The lock is taken, the variable set or removed, and CPAL's "pipewire" chosen.  (If
\* CPAL has none it is the default device, for which the variable means nothing.)
Select(c, r) ==
  /\ opener[c][r] = "waiting"
  /\ lock = Nobody
  /\ lock' = <<c, r>>
  /\ node' = Wanted[c][r]
  /\ opener' = [opener EXCEPT ![c][r] = "routed"]
  /\ UNCHANGED <<stage, happened, target, call, graph>>

\* The device's format is found, the stream is built and played; the lock is released.
Open(c, r) ==
  /\ opener[c][r] = "routed"
  /\ target' = [target EXCEPT ![c][r] = node]
  /\ opener' = [opener EXCEPT ![c][r] = "open"]
  /\ lock' = Nobody
  /\ UNCHANGED <<stage, happened, node, call, graph>>

\* Or one of these steps fails.
Fail(c, r) ==
  /\ opener[c][r] = "routed"
  /\ Happens("nodevice")
  /\ opener' = [opener EXCEPT ![c][r] = "failed"]
  /\ lock' = Nobody
  /\ UNCHANGED <<stage, node, target, call, graph>>

----------------------------------------------------------------------------
(* The thread of a call, pw_null_sink_loop.                                *)

Sinks == own \cup (IF foreign THEN {Foreign} ELSE {})

\* Threads that the graph tells of new sinks, as long as they wait for one.
Watching == {c \in Connections : thread[c] \in {"dumped", "creating", "idle"} /\ ~seen[c]}

\* Phase 1: the nodes there are.
Dump(c) ==
  /\ thread[c] = "started"
  /\ thread' = [thread EXCEPT ![c] = "dumped"]
  /\ seen' = [seen EXCEPT ![c] = Sinks # {}]
  /\ UNCHANGED <<stage, happened, devices, call, news, own, foreign>>

\* PipeWire cannot be reached: the thread ends and drops ready_tx.
Unreachable(c) ==
  /\ thread[c] = "started" \/ (thread[c] = "dumped" /\ ~seen[c])
  /\ Happens("unreachable")
  /\ thread' = [thread EXCEPT ![c] = "dead"]
  /\ news' = news \ {c}
  /\ UNCHANGED <<stage, devices, call, seen, own, foreign>>

\* Mutant: the creation's request is taken for the sink.
DecideTells(c) ==
  /\ thread[c] = "dumped"
  /\ thread' = [thread EXCEPT ![c] = IF seen[c] THEN "keeping" ELSE "creating"]
  /\ seen' = [seen EXCEPT ![c] = TRUE]
  /\ UNCHANGED <<stage, happened, devices, call, news, own, foreign>>

\* Phase 2: the sink is created only if none was seen.
Decide(c) ==
  /\ thread[c] = "dumped"
  /\ thread' = [thread EXCEPT ![c] = IF seen[c] THEN "keeping" ELSE "creating"]
  /\ UNCHANGED <<stage, happened, devices, call, seen, news, own, foreign>>

\* The server makes the node, or does not.
Appear(c) ==
  /\ thread[c] = "creating"
  /\ thread' = [thread EXCEPT ![c] = "keeping"]
  /\ own' = own \cup {c}
  /\ news' = news \cup Watching
  /\ UNCHANGED <<stage, happened, devices, call, seen, foreign>>

Refused(c) ==
  /\ thread[c] = "creating"
  /\ Happens("refused")
  /\ thread' = [thread EXCEPT ![c] = "idle"]
  /\ UNCHANGED <<stage, devices, call, seen, news, own, foreign>>

\* The listener is told of a sink, whosever it is: ready_tx is signalled.
Notice(c) ==
  /\ c \in news
  /\ seen' = [seen EXCEPT ![c] = TRUE]
  /\ news' = news \ {c}
  /\ UNCHANGED <<stage, happened, devices, call, thread, own, foreign>>

----------------------------------------------------------------------------
(* The call, create_linux_sink.                                            *)

\* The signal arrives; only success is cached.
Ready(c) ==
  /\ Calling(c)
  /\ seen[c]
  /\ cached' = TRUE
  /\ Return(c, "ready")
  /\ UNCHANGED <<happened, lock, node, target, graph>>

\* The thread has ended, or nothing comes any more and the 5 s pass.
GivesUp(c) ==
  /\ Calling(c)
  /\ ~seen[c]
  /\ thread[c] \in {"dead", "idle", "cut"}
  /\ Return(c, "failed")
  /\ UNCHANGED <<happened, lock, node, target, cached, graph>>

\* The 5 s pass while the thread is at work.
TimesOut(c) ==
  /\ Calling(c)
  /\ ~seen[c]
  /\ thread[c] \in {"started", "dumped", "creating", "keeping"}
  /\ Happens("slow")
  /\ Return(c, "failed")
  /\ UNCHANGED <<lock, node, target, cached, graph>>

----------------------------------------------------------------------------
(* Other programs and the daemon.                                          *)

Comes ==
  /\ ~foreign
  /\ Happens("comes")
  /\ foreign' = TRUE
  /\ news' = news \cup Watching
  /\ UNCHANGED <<stage, devices, call, thread, seen, own>>

Leaves ==
  /\ foreign
  /\ Happens("leaves")
  /\ foreign' = FALSE
  /\ UNCHANGED <<stage, devices, call, thread, seen, news, own>>

\* The daemon starts anew: all sinks are gone, and the threads that had connected
\* hear nothing more.
Restart ==
  /\ Happens("restart")
  /\ own' = {} /\ foreign' = FALSE /\ news' = {}
  /\ thread' = [c \in Connections |->
       IF thread[c] \in {"dumped", "creating", "keeping", "idle"} THEN "cut" ELSE thread[c]]
  /\ UNCHANGED <<stage, devices, call, seen>>

----------------------------------------------------------------------------

Init ==
  /\ stage = [c \in Connections |-> "none"]
  /\ happened = [e \in Events |-> 0]
  /\ lock = Nobody
  /\ node = NoNode
  /\ opener = [c \in Connections |-> [r \in Roles |-> "none"]]
  /\ target = [c \in Connections |-> [r \in Roles |-> NoNode]]
  /\ cached = FALSE
  /\ answer = [c \in Connections |-> "none"]
  /\ thread = [c \in Connections |-> "none"]
  /\ seen = [c \in Connections |-> FALSE]
  /\ news = {}
  /\ own = {}
  /\ foreign \in BOOLEAN

Device(c, r) == Select(c, r) \/ Open(c, r)
Thread(c) == Dump(c) \/ Decide(c) \/ Appear(c) \/ Notice(c)
Call(c) == Wake(c) \/ Ready(c) \/ GivesUp(c)

Next ==
  \/ \E c \in Connections :
       \/ Connect(c) \/ Disconnect(c) \/ Call(c) \/ Thread(c)
       \/ Unreachable(c) \/ Refused(c) \/ TimesOut(c)
       \/ \E r \in Roles : Device(c, r) \/ Fail(c, r)
  \/ Comes \/ Leaves \/ Restart

Spec == Init /\ [][Next]_vars

\* The threads run on.  The lock need not be fair: each thread takes it once.
FairSpec ==
  /\ Spec
  /\ \A c \in Connections :
       /\ WF_vars(Call(c)) /\ WF_vars(Thread(c))
       /\ \A r \in Roles : WF_vars(Device(c, r))

----------------------------------------------------------------------------
(* What must hold.                                                         *)

\* A device is routed to the node its connection is configured for, whatever other
\* threads set at the same time: the lock is held from the choice of the node until
\* the stream is connected (audio.rs device_open_lock, select_device).
OpensAreRouted ==
  \A c \in Connections, r \in Roles :
    opener[c][r] = "open" => target[c][r] = Wanted[c][r]

Never(events) == \A e \in events : happened[e] = 0

\* A cached name is the name of a sink, unless another program has taken its sink
\* away or the daemon was started anew; and there is one sink only, unless a call has
\* timed out and its thread goes on, or another program makes its own (audio.rs
\* create_linux_sink, pw_null_sink_loop: "creates it only if absent").
SinkReady ==
  /\ cached /\ Never({"leaves", "restart"}) => Sinks # {}
  /\ Never({"slow", "comes"}) => \A s, t \in Sinks : s = t

\* The cached sink has gone: from then on create_linux_sink is content with its name.
Stale == cached /\ Sinks = {}

\* A connection opens its devices and gets a sink that is in the graph, unless something
\* happens while it is the latest, or a sink that was cached before has gone.  Otherwise
\* it does not matter how the connections before it fared: a failed or late call does
\* not "permanently disable the radio relay", and nobody keeps the lock (audio.rs
\* create_linux_sink, start_capture, start_playback).
ComesUp ==
  \A c \in Connections :
    stage[c] = "waiting" ~>
      \/ /\ answer[c] = "ready" /\ Sinks # {}
         /\ \A r \in Roles : opener[c][r] = "open"
      \/ Stale
      \/ stage[c] \in {"leaving", "down"}
      \/ \E e \in Events : happened[e] = c

=============================================================================
