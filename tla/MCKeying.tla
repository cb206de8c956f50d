------------------------------ MODULE MCKeying ------------------------------
(***************************************************************************)
(* Keying for TLC: the datarefs and clients of either host.                *)
(***************************************************************************)
EXTENDS Keying, TLC

MCSetup(host, existing, started, change, fail, reconnect) ==
  [host |-> host, existing |-> existing, started |-> started,
   budget |-> [change |-> change, fail |-> fail, reconnect |-> reconnect]]

BothSeats(f) == {Ref(f, s) : s \in Seats}

\* What the PA client depends on: the key of both seats, the selector of one.
PaRefs == {Seat, Ref("mic", "FirstOfficer")} \cup BothSeats("acp_rt")
\* The radio relay's receiver and speaker.
RelayRefs == {Seat, Ref("spkr_tog", "FirstOfficer"), Ref("com2_rx", "Any")}
\* The interphone key of one seat and the radio key of the other.
InterphoneRefs == {Seat, Ref("acp_ic", "FirstOfficer"), Ref("contwheel_rt", "Captain")}

MCDataRefs == PaRefs \cup RelayRefs \cup InterphoneRefs
MCSetups ==
  {MCSetup("plugin", PaRefs, {"PA"}, 2, 0, 1),
   MCSetup("bridge", RelayRefs, {"Radio"}, 2, 1, 0),
   MCSetup("bridge", InterphoneRefs, {"IC"}, 2, 1, 0)}

=============================================================================
