------------------------------ MODULE Patchbay ------------------------------
(***************************************************************************)
(* What a capture that links itself promises: its inputs are wired one by  *)
(* one or several at a time, each to one output and once in its life.  A   *)
(* wire stays where it was put until the node of its output goes, or the   *)
(* patchbay is closed, after which there are no wires any more.            *)
(***************************************************************************)

CONSTANT NodeIds  \* the nodes that may go

VARIABLES
  wires,   \* records with the ports src and dst
  used,    \* inputs that have been wired
  closed

Bare == wires = {} /\ used = {} /\ closed = FALSE

\* Some inputs are wired, if what they are wired to is still there.
Plug ==
  /\ ~closed
  /\ used \subseteq used'
  /\ wires \subseteq wires'
  /\ \A w \in wires' \ wires : w.dst \in used' \ used
  /\ \A v, w \in wires' \ wires : v.dst = w.dst => v = w
  /\ UNCHANGED closed

\* A node goes with all wires from it.
Unplug ==
  /\ \E node \in NodeIds : wires' = {w \in wires : w.src.node # node}
  /\ UNCHANGED <<used, closed>>

Close ==
  /\ closed' = TRUE
  /\ wires' = {}
  /\ UNCHANGED used

Patching == Bare /\ [][Plug \/ Unplug \/ Close]_<<wires, used, closed>>

=============================================================================
