-------------------------- MODULE TrustFlowProofs ---------------------------
(***************************************************************************)
(* The trust flow for any number of hosts, certificates and clicks.        *)
(*                                                                         *)
(* FlowInv is the induction: the generation ties a result in the slot to   *)
(* the probe that is waited for, hence to its host, and the pin copied     *)
(* when the probe started stays the remembered one until it ends.          *)
(***************************************************************************)
EXTENDS TrustFlow, TLAPS

\* A result that carries the awaited generation comes from the awaited host.
ResultFromHost ==
  trust.kind = "Probing" =>
    /\ \A p \in probes : p.gen = trust.gen => p.host = trust.key
    /\ slot # None /\ slot.gen = trust.gen => slot.result \in CertsOf[trust.key] \cup {Failure}

OwnCerts ==
  /\ \A h \in Hosts : presented[h] \in CertsOf[h] \cup {Failure}
  /\ trust.kind = "Decide" => trust.pem \in CertsOf[trust.key] \cup {None}

PinIsCurrent == trust.kind = "Probing" => trust.stored = knownHosts[trust.key]

\* The flow runs only on behalf of a user who wants to connect, and nobody clicks
\* between a request and the flight loop that serves it.
Intent ==
  /\ trust.kind = "Probing" => wants
  /\ shouldConnect /\ trust.kind # "Idle" => clicked

FlowInv ==
  /\ TypeOK
  /\ CertsStayWithHost
  /\ OwnCerts
  /\ ResultFromHost
  /\ PinIsCurrent
  /\ Intent
  /\ CancelHolds

\* With the fields left alone, the flow is about the server that is shown.
ShownServer ==
  /\ trust.kind = "Probing" => trust.key = server /\ ~serverCa
  /\ trust.kind = "Decide" => trust.key = server
  /\ shouldConnect => serverCa \/ knownHosts[server] # None
  /\ connection # None => connection.ca \/ connection.anchor # None

----------------------------------------------------------------------------
(* Types.                                                                  *)

\* A state of the flow stays one when generations are handed out.
LEMMA TrustStatesGrow ==
  ASSUME NEW g \in Nat
  PROVE  /\ TrustStates(g) \subseteq TrustStates(g + 1)
         /\ Slots(g) \subseteq Slots(g + 1)
         /\ [gen : 0 .. g - 1, host : Hosts] \subseteq [gen : 0 .. g, host : Hosts]
  BY DEF TrustStates, Slots

\* The rest of a frame keeps the types (tofu.rs poll_step).
LEMMA FrameTypes ==
  ASSUME NEW g \in Nat, NEW t \in TrustStates(g), slot \in Slots(g),
         shouldConnect \in BOOLEAN, NEW asks \in BOOLEAN, Frame(t, asks)
  PROVE  /\ trust' \in TrustStates(g)
         /\ slot' \in Slots(g)
         /\ shouldConnect' \in BOOLEAN
<1>1. CASE Finished(t)
  <2>1. t.key \in Hosts /\ t.stored \in Certs \cup {None, Corrupt}
    BY <1>1 DEF Finished, TrustStates, Idle
  <2>2. slot.result \in Certs \cup {Failure}
    BY <1>1 DEF Finished, Slots
  <2>3. Resolved(t, slot.result) \in TrustStates(g)
    BY <2>1, <2>2, ConstantsAssumption DEF Resolved, TrustStates, Decide, OldFingerprint
  <2> QED
    BY <1>1, <2>3 DEF Frame, Slots, Silent
<1>2. CASE ~Finished(t)
  BY <1>2 DEF Frame
<1> QED
  BY <1>1, <1>2

\* Every value stays in its set (gui/draw/mod.rs, gui/trust.rs, connection.rs).
LEMMA TypeInit == Init => TypeOK
<1> SUFFICES ASSUME Init PROVE TypeOK
  OBVIOUS
<1>1. trust \in TrustStates(nextGen) /\ slot \in Slots(nextGen)
  BY DEF Init, TrustStates, Slots
<1>2. knownHosts \in Remembered /\ disk \in Remembered
  BY DEF Init, Remembered
<1>3. left \in [Events -> Nat]
  BY ConstantsAssumption DEF Init
<1> QED
  BY <1>1, <1>2, <1>3 DEF Init, TypeOK

LEMMA TypeStep == TypeOK /\ [Next]_vars => TypeOK'
<1> SUFFICES ASSUME TypeOK, [Next]_vars PROVE TypeOK'
  OBVIOUS
<1> USE DEF gui, store, request
<1>1. nextGen \in Nat /\ trust \in TrustStates(nextGen) /\ slot \in Slots(nextGen)
  BY DEF TypeOK
<1>2. \A event \in Events : Spend(event) => left' \in [Events -> Nat]
  BY DEF TypeOK, Spend
<1>3. CASE Draw
  <2>1. trust' \in TrustStates(nextGen) /\ slot' \in Slots(nextGen) /\ shouldConnect' \in BOOLEAN
    BY <1>1, <1>3, FrameTypes DEF Draw, TypeOK
  <2> QED
    BY <1>3, <2>1 DEF Draw, TypeOK
<1>4. CASE ClickConnect
  <2>1. CASE serverCa
    <3>1. Frame(trust, TRUE) /\ UNCHANGED <<nextGen, probes, left>>
      BY <1>4, <2>1 DEF ClickConnect
    <3>2. trust' \in TrustStates(nextGen) /\ slot' \in Slots(nextGen) /\ shouldConnect' \in BOOLEAN
      BY <1>1, <3>1, FrameTypes DEF TypeOK
    <3> QED
      BY <1>4, <3>1, <3>2 DEF ClickConnect, Click, TypeOK
  <2>2. CASE ~serverCa
    <3>1. /\ Spend("probe")
          /\ nextGen' = nextGen + 1
          /\ probes' = probes \cup {[gen |-> nextGen, host |-> server]}
          /\ Frame(Probing(nextGen, server, knownHosts[server]), FALSE)
      BY <1>4, <2>2 DEF ClickConnect
    <3>2. left' \in [Events -> Nat]
      BY <1>2, <3>1 DEF Events
    <3>3. Probing(nextGen, server, knownHosts[server]) \in TrustStates(nextGen + 1)
      BY DEF TypeOK, TrustStates, Probing, Remembered
    <3>4. slot \in Slots(nextGen + 1)
      BY <1>1, TrustStatesGrow
    <3>5. /\ trust' \in TrustStates(nextGen')
          /\ slot' \in Slots(nextGen')
          /\ shouldConnect' \in BOOLEAN
      <4>1. nextGen + 1 \in Nat /\ shouldConnect \in BOOLEAN
        BY <1>1 DEF TypeOK
      <4> QED
        BY <4>1, <3>1, <3>3, <3>4, FrameTypes
    <3>6. probes' \subseteq [gen : 0 .. nextGen' - 1, host : Hosts]
      BY <1>1, <3>1 DEF TypeOK
    <3> QED
      BY <1>1, <1>4, <3>1, <3>2, <3>5, <3>6 DEF ClickConnect, Click, TypeOK
  <2> QED
    BY <2>1, <2>2
<1>5. CASE ClickDisconnect
  <2>1. Idle \in TrustStates(nextGen) /\ Frame(Idle, FALSE)
    BY <1>5 DEF ClickDisconnect, TrustStates
  <2>2. trust' \in TrustStates(nextGen) /\ slot' \in Slots(nextGen) /\ shouldConnect' \in BOOLEAN
    BY <1>1, <2>1, FrameTypes DEF TypeOK
  <2>3. left' \in [Events -> Nat]
    BY <1>2, <1>5 DEF ClickDisconnect, Events, TypeOK
  <2> QED
    BY <1>5, <2>2, <2>3 DEF ClickDisconnect, Click, TypeOK
<1>6. CASE ClickTrust
  <2>1. trust.key \in Hosts /\ trust.pem \in Certs
    BY <1>1, <1>6 DEF ClickTrust, TrustStates, Idle
  <2>2. knownHosts' \in Remembered /\ disk' \in Remembered
    BY <1>6, <2>1 DEF ClickTrust, Remember, TypeOK, Remembered
  <2> QED
    BY <1>6, <2>2 DEF ClickTrust, Click, TypeOK, TrustStates
<1>7. CASE ClickCancel
  BY <1>7 DEF ClickCancel, Click, TypeOK, TrustStates
<1>8. CASE Edit \/ TogglePicker
  <2>1. left' \in [Events -> Nat]
    BY <1>2, <1>8 DEF Edit, TogglePicker, Events
  <2> QED
    BY <1>8, <2>1 DEF Edit, TogglePicker, TypeOK
<1>9. CASE FinishProbe
  BY <1>9 DEF FinishProbe, TypeOK, Slots
<1>10. CASE Rotate
  <2>1. left' \in [Events -> Nat]
    BY <1>2, <1>10 DEF Rotate, Events
  <2>2. presented' \in [Hosts -> Certs \cup {Failure}]
    BY <1>10 DEF Rotate, TypeOK, Certs
  <2> QED
    BY <1>10, <2>1, <2>2 DEF Rotate, TypeOK
<1>11. CASE FlightLoop
  <2>1. connection' \in {None} \cup Connections
    BY <1>11 DEF FlightLoop, TypeOK
  <2> QED
    BY <1>11, <2>1 DEF FlightLoop, TypeOK
<1>12. CASE Restart
  <2>1. left' \in [Events -> Nat]
    BY <1>2, <1>12 DEF Restart, Events
  <2> QED
    BY <1>12, <2>1 DEF Restart, TypeOK, TrustStates, Slots
<1>13. CASE UNCHANGED vars
  BY <1>13 DEF vars, TypeOK
<1> QED
  BY <1>3, <1>4, <1>5, <1>6, <1>7, <1>8, <1>9, <1>10, <1>11, <1>12, <1>13 DEF Next, User

\* Spec => []TypeOK: types hold for every set of hosts, certificates and budgets.
THEOREM TypeCorrect == Spec => []TypeOK
  BY TypeInit, TypeStep, PTL DEF Spec

----------------------------------------------------------------------------
(* Certificates, intent and pins.                                          *)

\* The certificates a host may present are certificates.
LEMMA CertsOfHost ==
  ASSUME NEW h \in Hosts
  PROVE  CertsOf[h] \subseteq Certs
  BY DEF Certs

\* What the rest of a frame does (tofu.rs poll_step, resolve_probe) when the flow
\* was in state t, whose result is its host's and whose pin is the current one.
LEMMA FrameFlow ==
  ASSUME NEW g \in Nat, NEW t \in TrustStates(g), slot \in Slots(g),
         NEW asks \in BOOLEAN, Frame(t, asks), shouldConnect \in BOOLEAN,
         t.kind = "Probing" /\ slot # None /\ slot.gen = t.gen
           => slot.result \in CertsOf[t.key] \cup {Failure},
         t.kind = "Decide" => t.pem \in CertsOf[t.key] \cup {None}
  PROVE  /\ trust'.kind = "Probing" => trust' = t /\ slot' = slot
         /\ trust'.kind = "Decide" => trust'.pem \in CertsOf[trust'.key] \cup {None}
         /\ trust'.kind = "Decide" => t.kind \in {"Probing", "Decide"}
         /\ trust'.kind # "Idle" => trust'.key = t.key
         /\ shouldConnect' /\ ~shouldConnect =>
              \/ asks
              \/ /\ trust'.kind = "Idle"
                 /\ t.kind = "Probing"
                 /\ slot.result \in Certs
                 /\ slot.result = t.stored
         /\ shouldConnect => shouldConnect'
         /\ asks => shouldConnect'
<1>1. CASE Finished(t)
  <2>1. /\ t.kind = "Probing"
        /\ t.key \in Hosts
        /\ t.stored \in Certs \cup {None, Corrupt}
    BY <1>1 DEF Finished, TrustStates, Idle
  <2>2. slot.result \in CertsOf[t.key] \cup {Failure}
    BY <1>1 DEF Finished
  <2>3. slot.result # Failure => slot.result \in Certs
    BY <2>1, <2>2, CertsOfHost
  <2>4. /\ trust' = Resolved(t, slot.result)
        /\ shouldConnect' = (shouldConnect \/ asks \/ Silent(t, slot.result))
    BY <1>1 DEF Frame
  <2>5. /\ trust'.kind \in {"Idle", "Decide"}
        /\ trust'.kind = "Decide" =>
             /\ trust'.pem \in CertsOf[trust'.key] \cup {None}
             /\ trust'.key = t.key
    BY <2>1, <2>2, <2>4 DEF Resolved, Decide, Idle
  <2>6. Silent(t, slot.result) =>
          /\ slot.result \in Certs
          /\ slot.result = t.stored
          /\ trust'.kind = "Idle"
    BY <2>1, <2>3, <2>4, ConstantsAssumption DEF Silent, OldFingerprint, Resolved, Idle
  <2> QED
    BY <2>1, <2>4, <2>5, <2>6
<1>2. CASE ~Finished(t)
  <2>1. trust' = t /\ slot' = slot /\ shouldConnect' = (shouldConnect \/ asks)
    BY <1>2 DEF Frame
  <2> QED
    BY <2>1 DEF TrustStates, Idle
<1> QED
  BY <1>1, <1>2

\* FlowInv says all that FrameFlow needs about the flow as it is.
LEMMA FrameFacts ==
  ASSUME FlowInv, NEW asks \in BOOLEAN, Frame(trust, asks)
  PROVE  /\ trust'.kind = "Probing" => trust' = trust /\ slot' = slot
         /\ trust'.kind = "Decide" => trust'.pem \in CertsOf[trust'.key] \cup {None}
         /\ trust'.kind = "Decide" => trust.kind \in {"Probing", "Decide"}
         /\ trust'.kind # "Idle" => trust'.key = trust.key
         /\ shouldConnect' /\ ~shouldConnect =>
              \/ asks
              \/ /\ trust'.kind = "Idle"
                 /\ trust.kind = "Probing"
                 /\ slot.result \in Certs
                 /\ slot.result = trust.stored
         /\ shouldConnect => shouldConnect'
         /\ asks => shouldConnect'
<1>1. /\ nextGen \in Nat /\ trust \in TrustStates(nextGen) /\ slot \in Slots(nextGen)
      /\ shouldConnect \in BOOLEAN
  BY DEF FlowInv, TypeOK
<1>2. /\ trust.kind = "Probing" /\ slot # None /\ slot.gen = trust.gen
           => slot.result \in CertsOf[trust.key] \cup {Failure}
      /\ trust.kind = "Decide" => trust.pem \in CertsOf[trust.key] \cup {None}
  BY DEF FlowInv, ResultFromHost, OwnCerts
<1> QED
  BY <1>1, <1>2, FrameFlow

\* A probe of a fresh generation starts the flow; the slot cannot answer it yet.
LEMMA ProbeStarts ==
  ASSUME TypeOK, Frame(Probing(nextGen, server, knownHosts[server]), FALSE)
  PROVE  /\ trust' = Probing(nextGen, server, knownHosts[server])
         /\ slot' = slot
         /\ shouldConnect' = shouldConnect
<1>1. slot # None => slot.gen # nextGen
  BY DEF TypeOK, Slots
<1>2. ~Finished(Probing(nextGen, server, knownHosts[server]))
  BY <1>1 DEF Finished, Probing
<1> QED
  BY <1>2 DEF Frame, TypeOK

\* Disconnect ends the flow (gui/draw/mod.rs).
LEMMA FlowEnds ==
  ASSUME TypeOK, Frame(Idle, FALSE)
  PROVE  trust' = Idle /\ slot' = slot /\ shouldConnect' = shouldConnect
  BY DEF Frame, Finished, Idle, TypeOK

LEMMA FlowInit == Init => FlowInv
<1> SUFFICES ASSUME Init PROVE FlowInv
  OBVIOUS
<1>1. TypeOK
  BY TypeInit
<1>2. CertsStayWithHost
  BY DEF Init, CertsStayWithHost
<1>3. OwnCerts /\ ResultFromHost /\ PinIsCurrent
  BY DEF Init, OwnCerts, ResultFromHost, PinIsCurrent, Idle
<1>4. Intent /\ CancelHolds
  BY DEF Init, Intent, CancelHolds, Idle
<1> QED
  BY <1>1, <1>2, <1>3, <1>4 DEF FlowInv

LEMMA FlowStep == FlowInv /\ [Next]_vars => FlowInv'
<1> SUFFICES ASSUME FlowInv, [Next]_vars PROVE FlowInv'
  OBVIOUS
<1> USE DEF gui, store, request
<1>1. TypeOK /\ TypeOK'
  BY TypeStep DEF FlowInv
<1>2. nextGen \in Nat /\ trust \in TrustStates(nextGen) /\ slot \in Slots(nextGen)
  BY <1>1 DEF TypeOK
<1>3. CASE Draw
  <2>1. Frame(trust, FALSE)
    BY <1>3 DEF Draw
  <2>2. CertsStayWithHost'
    BY <1>3 DEF Draw, FlowInv, CertsStayWithHost
  <2>3. (OwnCerts /\ ResultFromHost /\ PinIsCurrent)'
    BY <1>3, <2>1, FrameFacts DEF Draw, FlowInv, OwnCerts, ResultFromHost, PinIsCurrent
  <2>4. (Intent /\ CancelHolds)'
    BY <1>1, <1>2, <1>3, <2>1, FrameFacts
    DEF Draw, FlowInv, Intent, CancelHolds, TypeOK, TrustStates, Idle
  <2> QED
    BY <1>1, <2>2, <2>3, <2>4 DEF FlowInv
<1>4. CASE ClickConnect
  <2>1. CertsStayWithHost'
    BY <1>4 DEF ClickConnect, Click, FlowInv, CertsStayWithHost
  <2>2. wants' = TRUE /\ clicked' = TRUE
    BY <1>4 DEF ClickConnect, Click
  <2>3. (Intent /\ CancelHolds)'
    BY <2>2 DEF Intent, CancelHolds
  <2>4. CASE serverCa
    <3>1. Frame(trust, TRUE) /\ UNCHANGED <<probes, presented, knownHosts>>
      BY <1>4, <2>4 DEF ClickConnect, Click
    <3>2. (OwnCerts /\ ResultFromHost /\ PinIsCurrent)'
      BY <3>1, FrameFacts DEF FlowInv, OwnCerts, ResultFromHost, PinIsCurrent
    <3> QED
      BY <1>1, <2>1, <2>3, <3>2 DEF FlowInv
  <2>5. CASE ~serverCa
    <3>1. /\ probes' = probes \cup {[gen |-> nextGen, host |-> server]}
          /\ Frame(Probing(nextGen, server, knownHosts[server]), FALSE)
          /\ UNCHANGED <<presented, knownHosts>>
      BY <1>4, <2>5 DEF ClickConnect, Click
    <3>2. /\ trust' = Probing(nextGen, server, knownHosts[server])
          /\ slot' = slot
      BY <1>1, <3>1, ProbeStarts
    <3>3. OwnCerts' /\ PinIsCurrent'
      BY <3>1, <3>2 DEF FlowInv, OwnCerts, PinIsCurrent, Probing
    <3>4. \A p \in probes : p.gen # nextGen
      BY <1>1 DEF TypeOK
    <3>5. slot # None => slot.gen # nextGen
      BY <1>2 DEF Slots
    <3>6. ResultFromHost'
      BY <3>1, <3>2, <3>4, <3>5 DEF ResultFromHost, Probing
    <3> QED
      BY <1>1, <2>1, <2>3, <3>3, <3>6 DEF FlowInv
  <2> QED
    BY <2>4, <2>5
<1>5. CASE ClickDisconnect
  <2>1. trust' = Idle /\ slot' = slot /\ shouldConnect' = shouldConnect
    BY <1>1, <1>5, FlowEnds DEF ClickDisconnect
  <2>2. CertsStayWithHost'
    BY <1>5 DEF ClickDisconnect, Click, FlowInv, CertsStayWithHost
  <2>3. (OwnCerts /\ ResultFromHost /\ PinIsCurrent)'
    BY <1>5, <2>1
    DEF ClickDisconnect, Click, FlowInv, OwnCerts, ResultFromHost, PinIsCurrent, Idle
  <2>4. (Intent /\ CancelHolds)'
    BY <1>5, <2>1 DEF ClickDisconnect, Intent, CancelHolds, Idle
  <2> QED
    BY <1>1, <2>2, <2>3, <2>4 DEF FlowInv
<1>6. CASE ClickTrust
  <2>1. /\ trust.key \in Hosts
        /\ trust.pem \in CertsOf[trust.key]
    BY <1>2, <1>6 DEF ClickTrust, TrustStates, Idle, FlowInv, OwnCerts
  <2>2. /\ knownHosts' = [knownHosts EXCEPT ![trust.key] = trust.pem]
        /\ disk' \in {knownHosts', disk}
        /\ connection' = connection
    BY <1>6 DEF ClickTrust, Remember, Click
  <2>3. CertsStayWithHost'
    BY <1>1, <2>1, <2>2 DEF FlowInv, CertsStayWithHost, TypeOK, Remembered
  <2>4. (OwnCerts /\ ResultFromHost /\ PinIsCurrent)'
    BY <1>6
    DEF ClickTrust, Click, FlowInv, OwnCerts, ResultFromHost, PinIsCurrent, Idle
  <2>5. (Intent /\ CancelHolds)'
    BY <1>6 DEF ClickTrust, Intent, CancelHolds, Idle
  <2> QED
    BY <1>1, <2>3, <2>4, <2>5 DEF FlowInv
<1>7. CASE ClickCancel
  <2>1. ~shouldConnect
    BY <1>7 DEF ClickCancel, Click, FlowInv, Intent
  <2>2. CertsStayWithHost'
    BY <1>7 DEF ClickCancel, Click, FlowInv, CertsStayWithHost
  <2>3. (OwnCerts /\ ResultFromHost /\ PinIsCurrent)'
    BY <1>7
    DEF ClickCancel, Click, FlowInv, OwnCerts, ResultFromHost, PinIsCurrent, Idle
  <2>4. (Intent /\ CancelHolds)'
    BY <1>7, <2>1 DEF ClickCancel, Intent, CancelHolds, Idle
  <2> QED
    BY <1>1, <2>2, <2>3, <2>4 DEF FlowInv
<1>8. CASE Edit \/ TogglePicker
  <2>1. CertsStayWithHost'
    BY <1>8 DEF Edit, TogglePicker, FlowInv, CertsStayWithHost
  <2>2. (OwnCerts /\ ResultFromHost /\ PinIsCurrent)'
    BY <1>8 DEF Edit, TogglePicker, FlowInv, OwnCerts, ResultFromHost, PinIsCurrent
  <2>3. (Intent /\ CancelHolds)'
    BY <1>8 DEF Edit, TogglePicker, FlowInv, Intent, CancelHolds
  <2> QED
    BY <1>1, <2>1, <2>2, <2>3 DEF FlowInv
<1>9. CASE FinishProbe
  <2>1. CertsStayWithHost'
    BY <1>9 DEF FinishProbe, FlowInv, CertsStayWithHost
  <2>2. OwnCerts' /\ PinIsCurrent'
    BY <1>9 DEF FinishProbe, FlowInv, OwnCerts, PinIsCurrent
  <2>3. ResultFromHost'
    <3>1. PICK p \in probes :
            /\ slot' = [gen |-> p.gen, result |-> presented[p.host]]
            /\ probes' = probes \ {p}
            /\ trust' = trust
      BY <1>9 DEF FinishProbe
    <3>2. p.host \in Hosts
      BY <1>1 DEF TypeOK
    <3> QED
      BY <3>1, <3>2 DEF FlowInv, ResultFromHost, OwnCerts
  <2>4. (Intent /\ CancelHolds)'
    BY <1>9 DEF FinishProbe, FlowInv, Intent, CancelHolds
  <2> QED
    BY <1>1, <2>1, <2>2, <2>3, <2>4 DEF FlowInv
<1>10. CASE Rotate
  <2>1. CertsStayWithHost'
    BY <1>10 DEF Rotate, FlowInv, CertsStayWithHost
  <2>2. (ResultFromHost /\ PinIsCurrent)'
    BY <1>10 DEF Rotate, FlowInv, ResultFromHost, PinIsCurrent
  <2>3. OwnCerts'
    BY <1>1, <1>10 DEF Rotate, FlowInv, OwnCerts, TypeOK
  <2>4. (Intent /\ CancelHolds)'
    BY <1>10 DEF Rotate, FlowInv, Intent, CancelHolds
  <2> QED
    BY <1>1, <2>1, <2>2, <2>3, <2>4 DEF FlowInv
<1>11. CASE FlightLoop
  <2>1. CertsStayWithHost'
    <3>1. connection' # None => connection'.anchor \in CertsOf[connection'.server] \cup {None}
      BY <1>1, <1>11 DEF FlightLoop, Start, FlowInv, CertsStayWithHost, TypeOK
    <3> QED
      BY <1>11, <3>1 DEF FlightLoop, FlowInv, CertsStayWithHost
  <2>2. (OwnCerts /\ ResultFromHost /\ PinIsCurrent)'
    BY <1>11 DEF FlightLoop, FlowInv, OwnCerts, ResultFromHost, PinIsCurrent
  <2>3. (Intent /\ CancelHolds)'
    BY <1>11 DEF FlightLoop, FlowInv, Intent, CancelHolds
  <2> QED
    BY <1>1, <2>1, <2>2, <2>3 DEF FlowInv
<1>12. CASE Restart
  <2>1. CertsStayWithHost'
    BY <1>12 DEF Restart, FlowInv, CertsStayWithHost
  <2>2. (OwnCerts /\ ResultFromHost /\ PinIsCurrent)'
    BY <1>12 DEF Restart, FlowInv, OwnCerts, ResultFromHost, PinIsCurrent, Idle
  <2>3. (Intent /\ CancelHolds)'
    BY <1>12 DEF Restart, Intent, CancelHolds, Idle
  <2> QED
    BY <1>1, <2>1, <2>2, <2>3 DEF FlowInv
<1>13. CASE UNCHANGED vars
  BY <1>1, <1>13
  DEF vars, FlowInv, CertsStayWithHost, OwnCerts, ResultFromHost, PinIsCurrent, Intent, CancelHolds
<1> QED
  BY <1>3, <1>4, <1>5, <1>6, <1>7, <1>8, <1>9, <1>10, <1>11, <1>12, <1>13 DEF Next, User

\* Spec => []CertsStayWithHost: however many probes run, end late or are cancelled
\* while the fields change, a certificate is remembered for, and a connection
\* checked against, the host that presented it (known_hosts.rs, connection.rs).
THEOREM CertificatesStay == Spec => []CertsStayWithHost
<1>1. FlowInv => CertsStayWithHost
  BY DEF FlowInv
<1> QED
  BY <1>1, FlowInit, FlowStep, PTL DEF Spec

\* Spec => []CancelHolds: a result that comes after Disconnect, Cancel or Close
\* opens no connection (tofu.rs, gui/draw/mod.rs).
THEOREM CancellationHolds == Spec => []CancelHolds
<1>1. FlowInv => CancelHolds
  BY DEF FlowInv
<1> QED
  BY <1>1, FlowInit, FlowStep, PTL DEF Spec

\* A step that requests a connection while a probe is awaited takes its result.
LEMMA SilentStep ==
  ASSUME FlowInv, [Next]_vars, shouldConnect', ~shouldConnect, trust.kind = "Probing"
  PROVE  knownHosts[trust.key] = slot.result
<1> USE DEF gui, store, request
<1>1. CASE Draw
  <2>1. Frame(trust, FALSE)
    BY <1>1 DEF Draw
  <2> QED
    BY <2>1, FrameFacts DEF FlowInv, PinIsCurrent
<1>2. CASE ClickConnect
  BY <1>2 DEF ClickConnect, ButtonDisconnects, Idle
<1>3. CASE ClickDisconnect
  BY <1>3, FlowEnds DEF ClickDisconnect, FlowInv
<1>4. CASE ClickTrust
  BY <1>4 DEF ClickTrust
<1>5. CASE \/ ClickCancel \/ Edit \/ TogglePicker \/ FinishProbe \/ Rotate \/ FlightLoop
           \/ Restart \/ UNCHANGED vars
  BY <1>5 DEF ClickCancel, Edit, TogglePicker, FinishProbe, Rotate, FlightLoop, Restart, vars
<1> QED
  BY <1>1, <1>2, <1>3, <1>4, <1>5 DEF Next, User

\* Spec => SilentMeansPinned: the pin that resolve_probe compares with was copied
\* when the probe started, and still is the remembered one (tofu.rs).
THEOREM SilentConnectionsArePinned == Spec => SilentMeansPinned
<1>1. FlowInv /\ [Next]_vars
        => [/\ shouldConnect' /\ ~shouldConnect
            /\ trust.kind = "Probing"
            => knownHosts[trust.key] = slot.result]_vars
  BY SilentStep
<1> QED
  BY <1>1, FlowInit, FlowStep, PTL DEF Spec, SilentMeansPinned

----------------------------------------------------------------------------
(* With the fields left alone while the flow runs.                         *)

\* Nothing undoes an edit.
LEMMA EditedStays ==
  ASSUME edited, [Next]_vars
  PROVE  edited'
  BY DEF Next, User, Draw, ClickConnect, ClickDisconnect, ClickTrust, ClickCancel, Edit,
         TogglePicker, FinishProbe, Rotate, FlightLoop, Restart, vars, gui

\* ShownServer is kept by every step that leaves no edit, given FlowInv.
LEMMA ShownStep ==
  ASSUME ~edited', FlowInv, ShownServer, [Next]_vars
  PROVE  ShownServer'
<1> USE DEF gui, store, request
<1>1. TypeOK /\ trust \in TrustStates(nextGen)
  BY DEF FlowInv, TypeOK
<1>2. CASE Draw
  <2>1. Frame(trust, FALSE) /\ UNCHANGED <<server, serverCa, knownHosts, connection>>
    BY <1>2 DEF Draw
  <2>2. trust'.kind = "Decide" => trust'.key = server
    BY <2>1, FrameFacts DEF ShownServer
  <2>3. shouldConnect' => serverCa \/ knownHosts[server] # None
    BY <2>1, FrameFacts, ConstantsAssumption DEF ShownServer, FlowInv, PinIsCurrent
  <2>4. trust'.kind = "Probing" => trust'.key = server /\ ~serverCa
    BY <2>1, FrameFacts DEF ShownServer
  <2> QED
    BY <2>1, <2>2, <2>3, <2>4 DEF ShownServer
<1>3. CASE ClickConnect
  <2>1. UNCHANGED <<server, serverCa, knownHosts, connection>>
    BY <1>3 DEF ClickConnect, Click
  <2>2. CASE serverCa
    <3>1. Frame(trust, TRUE) /\ trust = Idle
      BY <1>3, <2>2 DEF ClickConnect, ButtonDisconnects
    <3>2. trust' = Idle
      BY <3>1 DEF Frame, Finished, Idle
    <3> QED
      BY <2>1, <2>2, <3>2 DEF ShownServer, Idle
  <2>3. CASE ~serverCa
    <3>1. Frame(Probing(nextGen, server, knownHosts[server]), FALSE)
      BY <1>3, <2>3 DEF ClickConnect
    <3>2. /\ trust' = Probing(nextGen, server, knownHosts[server])
          /\ shouldConnect' = shouldConnect
      BY <1>1, <3>1, ProbeStarts
    <3> QED
      BY <2>1, <2>3, <3>2 DEF ShownServer, Probing
  <2> QED
    BY <2>2, <2>3
<1>4. CASE ClickDisconnect
  <2>1. trust' = Idle /\ shouldConnect' = shouldConnect
    BY <1>1, <1>4, FlowEnds DEF ClickDisconnect
  <2> QED
    BY <1>4, <2>1 DEF ClickDisconnect, Click, ShownServer, Idle
<1>5. CASE ClickTrust
  <2>1. trust.key = server /\ server \in Hosts /\ knownHosts \in Remembered
    BY <1>1, <1>5 DEF ClickTrust, ShownServer, TypeOK
  <2>2. knownHosts'[server] # None
    BY <1>5, <2>1 DEF ClickTrust, Remember, Remembered
  <2> QED
    BY <1>5, <2>2 DEF ClickTrust, Click, ShownServer, Idle
<1>6. CASE ClickCancel
  BY <1>6 DEF ClickCancel, Click, ShownServer, Idle
<1>7. CASE Edit
  <2>1. trust = Idle /\ ~shouldConnect
    BY <1>7 DEF Edit
  <2> QED
    BY <1>7, <2>1 DEF Edit, ShownServer, Idle
<1>8. CASE TogglePicker \/ FinishProbe \/ Rotate
  BY <1>8 DEF TogglePicker, FinishProbe, Rotate, ShownServer
<1>9. CASE FlightLoop
  <2>1. connection' # None => connection'.ca \/ connection'.anchor # None
    BY <1>9 DEF FlightLoop, Start, ShownServer
  <2> QED
    BY <1>9, <2>1 DEF FlightLoop, ShownServer
<1>10. CASE Restart
  BY <1>10 DEF Restart, ShownServer, Idle
<1>11. CASE UNCHANGED vars
  BY <1>11 DEF vars, ShownServer
<1> QED
  BY <1>2, <1>3, <1>4, <1>5, <1>6, <1>7, <1>8, <1>9, <1>10, <1>11 DEF Next, User

\* A user who does not edit the fields while connecting is connected only after
\* the server's certificate is remembered or a Server CA is set (connection.rs).
THEOREM ConnectionsAnchored == Spec => []ConnectionIsAnchored
<1>1. Init => edited \/ ShownServer
  BY DEF Init, ShownServer, Idle
<1>2. FlowInv /\ (edited \/ ShownServer) /\ [Next]_vars => (edited \/ ShownServer)'
  BY ShownStep, EditedStays
<1>3. (edited \/ ShownServer) => ConnectionIsAnchored
  BY DEF ShownServer, ConnectionIsAnchored
<1> QED
  BY <1>1, <1>2, <1>3, FlowInit, FlowStep, PTL DEF Spec

=============================================================================
