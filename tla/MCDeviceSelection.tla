------------------------- MODULE MCDeviceSelection --------------------------
(***************************************************************************)
(* DeviceSelection for TLC.                                                *)
(***************************************************************************)
EXTENDS DeviceSelection

CONSTANTS o1, i1, i2

Events8(pick, plug, bare, fail, unwritten, crash, disable, early) ==
  [e \in Events |->
     CASE e = "pick" -> pick
       [] e = "plug" -> plug
       [] e = "bare" -> bare
       [] e = "fail" -> fail
       [] e = "unwritten" -> unwritten
       [] e = "crash" -> crash
       [] e = "disable" -> disable
       [] e = "early" -> early]

\* Nothing was ever configured, or a device for everything.
MCSaved == {Default, [out |-> [r \in Roles |-> o1], mic |-> i1, radio |-> i1]}

\* One pick and one restart, both input devices gone once, everything else once.
AnyBudget == Events8(1, 2, 1, 1, 1, 1, 1, 1)

=============================================================================
