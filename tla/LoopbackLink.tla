---------------------------- MODULE LoopbackLink ----------------------------
(***************************************************************************)
(* How the radio capture finds its source in the PipeWire graph            *)
(* (mumble/audio.rs pw_capture_loop).                                      *)
(*                                                                         *)
(* The capture does not ask the session manager for a connection.  It      *)
(* listens to the registry for the source's node, for its own stream's     *)
(* node and for all ports, and after each announcement links what it can:  *)
(* every own input port that is not linked yet to the output port of the   *)
(* same channel.  Announcements come in the order in which PipeWire        *)
(* creates the objects; removals are not listened to.  A 200 ms timer      *)
(* watches the connection's shutdown flag and ends the loop; if it cannot  *)
(* be armed, the loop goes on without it, and nothing ends the capture.    *)
(*                                                                         *)
(* PipeWire and the source are external: the source may come after the     *)
(* capture, go and come back.  Only one program runs this capture.         *)
(***************************************************************************)
EXTENDS Naturals, Sequences, FiniteSets

CONSTANTS
  SourceIds,   \* node ids the source may get
  Ours,        \* id of this capture's own stream node
  Outs,        \* output ports of the source: 1 mono, 2 stereo
  Inputs,      \* input ports of a capture stream (2)
  None,        \* Option::None
  Budget       \* how often each environment event may happen

Events == {"appear", "vanish", "linkfails", "startfails", "timerfails"}

ASSUME LinkAssumption ==
  /\ Ours \notin SourceIds
  /\ None \notin SourceIds \cup {Ours}
  /\ Outs \in Nat \ {0} /\ Inputs \in Nat \ {0}
  /\ Budget \in [Events -> Nat]

NodeIds == SourceIds \cup {Ours}

\* The two kinds of registry objects; indices count from 0.
Node(id, name) == [type |-> "Node", id |-> id, name |-> name]
Port(node, index, out) == [type |-> "Port", node |-> node, index |-> index, out |-> out]

Nodes ==
  [type : {"Node"}, id : SourceIds, name : {"source"}]
    \cup [type : {"Node"}, id : {Ours}, name : {"loopback"}]
Ports == [type : {"Port"}, node : NodeIds, index : 0 .. Outs + Inputs, out : BOOLEAN]

VARIABLES
  source,        \* the source's node id, None while it is gone
  sourcePorts,   \* how many of its ports exist
  ourPorts,      \* how many ports of the own stream exist; None: no node yet
  wires,         \* links of this capture that PipeWire holds
  loop,          \* "new", "running", "ended"
  events,        \* announcements on their way to the loop
  targetNode,    \* Graph.target_node
  ourNode,       \* Graph.our_node
  ports,         \* Graph.ports
  linkedInputs,  \* Graph.linked_inputs
  shutdown,      \* the connection's flag
  armed,         \* the shutdown timer ticks
  left           \* what is left of Budget

pipewire == <<source, sourcePorts, ourPorts, wires>>
graph == <<targetNode, ourNode, ports, linkedInputs>>
stopper == <<shutdown, armed>>
linkVars == <<pipewire, loop, events, graph, stopper, left>>

LinkTypeOK ==
  /\ source \in SourceIds \cup {None}
  /\ sourcePorts \in 0 .. Outs
  /\ ourPorts \in {None} \cup 0 .. Inputs
  /\ wires \subseteq [src : Ports, dst : Ports]
  /\ loop \in {"new", "running", "ended"}
  /\ events \in Seq(Nodes \cup Ports)
  /\ targetNode \in SourceIds \cup {None}
  /\ ourNode \in {Ours, None}
  /\ ports \in Seq(Ports)
  /\ linkedInputs \subseteq Ports
  /\ shutdown \in BOOLEAN /\ armed \in BOOLEAN
  /\ left \in [Events -> Nat]

\* It has not happened yet.
Unspent(event) == left[event] = Budget[event]

Spend(event) == left[event] > 0 /\ left' = [left EXCEPT ![event] = @ - 1]

----------------------------------------------------------------------------
(* PipeWire.                                                               *)

\* The first n ports of a node.
PortsOf(node, n, out) == [i \in 1 .. n |-> Port(node, i - 1, out)]

\* Everything in the registry before the capture's stream, in order of creation.
Dump ==
  IF source = None THEN <<>>
  ELSE <<Node(source, "source")>> \o PortsOf(source, sourcePorts, TRUE)

\* A listener is told of what is created from now on.
Announce(global) == events' = IF loop = "running" THEN Append(events, global) ELSE events

SourceAppears ==
  /\ source = None
  /\ Spend("appear")
  /\ source' \in SourceIds
  /\ Announce(Node(source', "source"))
  /\ UNCHANGED <<sourcePorts, ourPorts, wires, loop, graph, stopper>>

SourcePort ==
  /\ source # None
  /\ sourcePorts < Outs
  /\ sourcePorts' = sourcePorts + 1
  /\ Announce(Port(source, sourcePorts, TRUE))
  /\ UNCHANGED <<source, ourPorts, wires, loop, graph, stopper, left>>

\* The source's node goes, with its ports and their links.
SourceVanishes ==
  /\ source # None
  /\ Spend("vanish")
  /\ source' = None
  /\ sourcePorts' = 0
  /\ wires' = {w \in wires : w.src.node # source}
  /\ UNCHANGED <<ourPorts, loop, events, graph, stopper>>

\* PipeWire exports the connected stream, then one input port after the other.
StreamNode ==
  /\ loop = "running"
  /\ ourPorts = None
  /\ ourPorts' = 0
  /\ Announce(Node(Ours, "loopback"))
  /\ UNCHANGED <<source, sourcePorts, wires, loop, graph, stopper, left>>

StreamPort ==
  /\ loop = "running"
  /\ ourPorts # None
  /\ ourPorts < Inputs
  /\ ourPorts' = ourPorts + 1
  /\ Announce(Port(Ours, ourPorts, FALSE))
  /\ UNCHANGED <<source, sourcePorts, wires, loop, graph, stopper, left>>

----------------------------------------------------------------------------
(* The capture loop.                                                       *)

\* The listener is registered, the stream connected and the timer armed.  An error of
\* the timer is only logged; any other one ends the loop.
Start ==
  /\ loop = "new"
  /\ \/ /\ loop' = "running"
        /\ events' = Dump
        /\ \/ armed' = TRUE /\ UNCHANGED left
           \/ armed' = FALSE /\ Spend("timerfails")
     \/ /\ Spend("startfails")
        /\ loop' = "ended"
        /\ UNCHANGED <<events, armed>>
  /\ UNCHANGED <<pipewire, graph, shutdown>>

\* Where the output ports of a node are among the ports ps.
OutputsOf(ps, node) == {i \in DOMAIN ps : ps[i].node = node /\ ps[i].out}

\* The place of the i-th port when those of outs are sorted by channel.
Place(ps, outs, i) ==
  Cardinality({j \in outs : ps[j].index < ps[i].index \/ (ps[j].index = ps[i].index /\ j < i)})

\* Mutant: every input is linked to the first output.
OutputForFirst(ps, outs, index) == ps[CHOOSE i \in outs : Place(ps, outs, i) = 0]

\* The output for an input of this channel; a source with fewer channels clamps.
OutputFor(ps, outs, index) ==
  LET place == IF index < Cardinality(outs) THEN index ELSE Cardinality(outs) - 1
  IN  ps[CHOOSE i \in outs : Place(ps, outs, i) = place]

\* The ports with an announcement in ps.
Seen(ps) == {ps[i] : i \in DOMAIN ps}

\* Mutant: linking is done once and for all.
PendingOnce(ps, node) ==
  {p \in Seen(ps) : p.node = node /\ ~p.out /\ linkedInputs = {}}

\* Mutant: inputs that are linked are linked again.
PendingAlways(ps, node) == {p \in Seen(ps) : p.node = node /\ ~p.out}

\* Input ports that are not linked yet.
Pending(ps, node) == {p \in Seen(ps) : p.node = node /\ ~p.out /\ p \notin linkedInputs}

\* A link to an object that is gone by now is created in name only.
Exists(port) == port.node = source /\ port.index < sourcePorts

\* attempt_link with graph t, o, ps; some links may fail and stay pending.
AttemptLink(t, o, ps) ==
  LET outs == OutputsOf(ps, t)
      due == IF t = None \/ o = None \/ outs = {} THEN {} ELSE Pending(ps, o)
  IN  \E done \in SUBSET due :
        /\ \/ done = due /\ UNCHANGED left
           \/ done # due /\ Spend("linkfails")
        /\ linkedInputs' = linkedInputs \cup done
        /\ LET created == {[src |-> OutputFor(ps, outs, p.index), dst |-> p] : p \in done}
           IN  wires' = wires \cup {w \in created : Exists(w.src)}

\* Mutant: the first node counts, whatever its name.
FirstAny(known, g, name) == IF g.type = "Node" /\ known = None THEN g.id ELSE known

\* The first node of a name counts (get_or_insert).
FirstNamed(known, g, name) ==
  IF g.type = "Node" /\ g.name = name /\ known = None THEN g.id ELSE known

\* The registry listener.
Global ==
  /\ loop = "running"
  /\ events # <<>>
  /\ events' = Tail(events)
  /\ LET g == Head(events)
     IN  /\ targetNode' = FirstNamed(targetNode, g, "source")
         /\ ourNode' = FirstNamed(ourNode, g, "loopback")
         /\ ports' = IF g.type = "Port" THEN Append(ports, g) ELSE ports
  /\ AttemptLink(targetNode', ourNode', ports')
  /\ UNCHANGED <<source, sourcePorts, ourPorts, loop, stopper>>

\* The user disconnects (MumbleConnection::drop).
Shutdown ==
  /\ ~shutdown
  /\ shutdown' = TRUE
  /\ UNCHANGED <<pipewire, loop, events, graph, armed, left>>

\* Mutant: the timer drops the stream, and the links stay with their proxies.
TimerKeepsLinks ==
  /\ loop = "running"
  /\ shutdown /\ armed
  /\ loop' = "ended"
  /\ ourPorts' = None
  /\ events' = <<>>
  /\ UNCHANGED <<source, sourcePorts, wires, graph, stopper, left>>

\* The timer quits the loop; the stream and the links are dropped.
Timer ==
  /\ loop = "running"
  /\ shutdown /\ armed
  /\ loop' = "ended"
  /\ ourPorts' = None
  /\ wires' = {}
  /\ events' = <<>>
  /\ UNCHANGED <<source, sourcePorts, graph, stopper, left>>

----------------------------------------------------------------------------

LinkInit ==
  /\ source \in SourceIds \cup {None}
  /\ sourcePorts = IF source = None THEN 0 ELSE Outs
  /\ ourPorts = None
  /\ wires = {}
  /\ loop = "new"
  /\ events = <<>>
  /\ targetNode = None
  /\ ourNode = None
  /\ ports = <<>>
  /\ linkedInputs = {}
  /\ shutdown = FALSE /\ armed = FALSE
  /\ left = Budget

PipeWire == SourcePort \/ StreamNode \/ StreamPort

LinkNext == PipeWire \/ SourceAppears \/ SourceVanishes \/ Start \/ Global \/ Shutdown \/ Timer

LinkSpec == LinkInit /\ [][LinkNext]_linkVars

\* PipeWire completes a node once it exists; the loop serves its events and, if it is
\* armed, its timer.  A source need not appear, and the user need not disconnect.
FairLinkSpec ==
  /\ LinkSpec
  /\ WF_linkVars(PipeWire) /\ WF_linkVars(Start) /\ WF_linkVars(Global) /\ WF_linkVars(Timer)

----------------------------------------------------------------------------
(* What the capture promises.                                              *)

\* No input ever hears two outputs.
OneSourcePerInput == \A v, w \in wires : v.dst = w.dst => v = w

Patchbay == INSTANCE Patchbay WITH used <- linkedInputs, closed <- loop = "ended"

\* "Each is wired exactly once" (audio.rs linked_inputs), whatever the order of
\* announcements and however often linking is tried: an input gets at most one wire
\* in its life, a wire goes with its source or with the capture only, and a capture
\* that has ended holds none and makes none.
ImplementsPatchbay == Patchbay!Patching

\* "Each of our input ports is wired to the source output port with the same
\* channel index (a mono source clamps to its single port)", "retrying the link
\* on each change so ordering of globals doesn't matter" (audio.rs attempt_link and
\* registry listener).
ChannelsMatch ==
  \A w \in wires :
    w.src.index = IF w.dst.index < Outs THEN w.dst.index ELSE Outs - 1

\* The same for a source that was complete before the capture started, although it
\* may have gone since and links may have failed and been tried again.
EarlyChannelsMatch == Unspent("appear") => ChannelsMatch

\* "Radio capture will be silent until it appears" (audio.rs, the check after the
\* first dump), and not for longer: if the source has appeared once, before the
\* capture or after it, and no link fails, in the end all inputs of a capture that
\* runs are linked to it.
SourceIsThere == source # None /\ sourcePorts = Outs
AllWired ==
  \A i \in 0 .. Inputs - 1 : \E w \in wires : w.dst = Port(Ours, i, FALSE)
Heard ==
  <>[](SourceIsThere /\ loop = "running" /\ Unspent("vanish") /\ Unspent("linkfails"))
    => <>[]AllWired

\* "Torn down when the connection ends, instead of leaking across reconnects"
\* (audio.rs start_loopback_capture): after Disconnect the loop ends, and takes
\* its links and its stream with it, unless its timer could not be armed.  (Then the
\* capture stays, whatever the comment says.)
Released ==
  shutdown ~>
    \/ [](loop = "ended" /\ wires = {} /\ ourPorts = None)
    \/ loop = "running" /\ ~armed

=============================================================================
