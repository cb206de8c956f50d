----------------------- MODULE DeviceSelectionProofs ------------------------
(***************************************************************************)
(* Proofs about DeviceSelection.                                           *)
(***************************************************************************)
EXTENDS DeviceSelection, TLAPS

LEMMA SpendType ==
  ASSUME NEW happenings \in SUBSET Events, left \in [Events -> Nat], Spend(happenings)
  PROVE  left' \in [Events -> Nat]
BY DEF Spend

LEMMA TouchType ==
  ASSUME NEW happenings \in SUBSET Events, left \in [Events -> Nat], Touch(happenings)
  PROVE  left' \in [Events -> Nat]
BY SpendType DEF Touch, Events

LEMMA UnwrittenType == \A failed \in BOOLEAN : Unwritten(failed) \in SUBSET Events
BY DEF Unwritten, Events

LEMMA SaveType ==
  ASSUME NEW failed \in BOOLEAN, config \in Selections, selected \in Selections, Save(failed)
  PROVE  config' \in Selections
BY DEF Save, Default, Selections

\* Connecting, disconnecting and saving leave all but the file and "connected" alone.
LEMMA SettingsStay ==
  ASSUME Connect \/ Disconnect \/ PickLogLevel
  PROVE  /\ running /\ running'
         /\ UNCHANGED <<initial, outs, ins, selected, slot, present, chosen>>
<1>1. CASE Connect
  BY <1>1 DEF Connect, Touch
<1>2. CASE Disconnect
  BY <1>2 DEF Disconnect, Touch
<1>3. CASE PickLogLevel
  BY <1>3 DEF PickLogLevel, Touch, gui
<1> QED
  BY <1>1, <1>2, <1>3

LEMMA ResolveListed ==
  ASSUME NEW names, NEW name
  PROVE  Resolve(name, names) \in names \cup {Empty} /\ Resolve(name, names) \in {name, Empty}
BY DEF Resolve

LEMMA NoneIsNoList == None \notin SUBSET Outs
BY ConstantsAssumption

\* Every state has the declared types: a name that is looked up is listed or Empty.
THEOREM TypeCorrect == Spec => []TypeOK
<1>1. Init => TypeOK
  <2>1. Default \in Selections
    BY DEF Default, Selections
  <2>2. [outs |-> Outs, ins |-> Ins] \in Snapshots
    BY DEF Snapshots
  <2>3. QED
    BY <2>1, <2>2, ConstantsAssumption DEF Init, TypeOK
<1>2. ASSUME TypeOK, [Next]_vars
      PROVE  TypeOK'
  <2> USE <1>2 DEF TypeOK
  <2>1. CASE Plug
    <3>1. present' \in Snapshots
      BY <2>1 DEF Plug, Snapshots
    <3>2. left' \in [Events -> Nat]
      BY <2>1, SpendType DEF Events, Plug
    <3>3. QED
      BY <2>1, <3>1, <3>2 DEF Plug, gui
  <2>2. CASE Enumerate
    <3>1. slot' \in Snapshots
      BY <2>2 DEF Enumerate, Snapshots
    <3>2. left' \in [Events -> Nat]
      BY <2>2, SpendType DEF Events, Enumerate
    <3>3. QED
      BY <2>2, <3>1, <3>2 DEF Enumerate
  <2>3. CASE Refresh
    <3>1. slot \in Snapshots
      BY <2>3 DEF Refresh
    <3>2. selected' \in Selections
      BY <2>3, <3>1, ResolveListed DEF Refresh, Selections, Snapshots
    <3>3. QED
      BY <2>3, <3>1, <3>2 DEF Refresh, Snapshots
  <2>4. CASE PickOut
    <3>1. PICK r \in Roles, d \in outs \cup {Empty} :
             /\ selected' = [selected EXCEPT !.out[r] = d]
             /\ chosen' = [chosen EXCEPT !.out[r] = d]
      BY <2>4 DEF PickOut
    <3>2. d \in Outs \cup {Empty}
      BY <2>4 DEF PickOut
    <3>3. selected' \in Selections /\ chosen' \in Selections
      BY <3>1, <3>2 DEF Selections
    <3>4. left' \in [Events -> Nat]
      BY <2>4, TouchType DEF Events, PickOut, Picks
    <3>5. QED
      BY <2>4, <3>3, <3>4 DEF PickOut, Picks
  <2>5. CASE PickMic
    <3>1. selected' \in Selections /\ chosen' \in Selections
      BY <2>5 DEF PickMic, Selections
    <3>2. left' \in [Events -> Nat]
      BY <2>5, TouchType DEF Events, PickMic, Picks
    <3>3. QED
      BY <2>5, <3>1, <3>2 DEF PickMic, Picks
  <2>6. CASE PickRadio
    <3>1. selected' \in Selections /\ chosen' \in Selections
      BY <2>6 DEF PickRadio, Selections
    <3>2. left' \in [Events -> Nat]
      BY <2>6, TouchType DEF Events, PickRadio, Picks
    <3>3. QED
      BY <2>6, <3>1, <3>2 DEF PickRadio, Picks
  <2>7. CASE Connect
    <3>1. left' \in [Events -> Nat]
      BY <2>7, TouchType, UnwrittenType DEF Connect
    <3>2. config' \in Selections
      BY <2>7, SaveType DEF Connect
    <3>3. QED
      BY <2>7, <3>1, <3>2 DEF Connect
  <2>8. CASE Disconnect
    <3>1. left' \in [Events -> Nat]
      BY <2>8, TouchType DEF Disconnect
    <3>2. QED
      BY <2>8, <3>1 DEF Disconnect
  <2>9. CASE PickLogLevel
    <3>1. left' \in [Events -> Nat]
      BY <2>9, TouchType, UnwrittenType DEF PickLogLevel
    <3>2. config' \in Selections
      BY <2>9, SaveType DEF PickLogLevel
    <3>3. QED
      BY <2>9, <3>1, <3>2 DEF PickLogLevel, gui
  <2>10. CASE Enable
    <3>1. Default \in Selections
      BY DEF Default, Selections
    <3>2. QED
      BY <2>10, <3>1 DEF Enable
  <2>11. CASE Disable
    <3>1. left' \in [Events -> Nat]
      BY <2>11, TouchType, UnwrittenType DEF Events, Disable
    <3>2. config' \in Selections /\ chosen' \in Selections
      BY <2>11, SaveType DEF Disable
    <3>3. QED
      BY <2>11, <3>1, <3>2 DEF Disable
  <2>12. CASE Crash
    <3>1. left' \in [Events -> Nat]
      BY <2>12, SpendType DEF Events, Crash
    <3>2. QED
      BY <2>12, <3>1 DEF Crash
  <2>13. CASE UNCHANGED vars
    BY <2>13 DEF vars, gui
  <2>14. QED
    BY <2>1, <2>2, <2>3, <2>4, <2>5, <2>6, <2>7, <2>8, <2>9, <2>10, <2>11, <2>12, <2>13
    DEF Next
<1>3. QED
  BY <1>1, <1>2, PTL DEF Spec

\* Replacing a list and looking the selection up in it leaves no index outside.
THEOREM SelectionStaysListed == Spec => []SelectionIsListed
<1>1. Init => SelectionIsListed
  BY DEF Init, SelectionIsListed
<1>2. ASSUME TypeOK, TypeOK', SelectionIsListed, [Next]_vars
      PROVE  SelectionIsListed'
  <2> USE <1>2 DEF SelectionIsListed
  <2>1. CASE Refresh
    <3>1. slot \in Snapshots
      BY <2>1 DEF Refresh, TypeOK
    <3>2. outs' # None
      BY <2>1, <3>1, NoneIsNoList DEF Refresh, Snapshots
    <3>3. \A r \in Roles : selected'.out[r] \in outs' \cup {Empty}
      BY <2>1, ResolveListed DEF Refresh
    <3>4. selected'.mic \in ins' \cup {Empty}
      BY <2>1, ResolveListed DEF Refresh
    <3>5. selected'.radio \in ins' \cup {Empty, AutoSink}
      <4>1. Resolve(Wanted.radio, slot.ins \cup {AutoSink}) \in (slot.ins \cup {AutoSink}) \cup {Empty}
        BY ResolveListed
      <4>2. /\ ins' = slot.ins
            /\ selected'.radio = Resolve(Wanted.radio, slot.ins \cup {AutoSink})
        BY <2>1 DEF Refresh
      <4>3. QED
        BY <4>1, <4>2
    <3>6. QED
      <4>1. \A r \in Roles : selected'.out[r] # Empty => outs' # None /\ selected'.out[r] \in outs'
        BY <3>2, <3>3
      <4>2. QED
        BY <4>1, <3>4, <3>5
  <2>2. CASE PickOut
    BY <2>2 DEF PickOut, Picks, TypeOK, Selections
  <2>3. CASE PickMic
    BY <2>3 DEF PickMic, Picks, TypeOK, Selections
  <2>4. CASE PickRadio
    BY <2>4 DEF PickRadio, Picks, TypeOK, Selections
  <2>5. CASE Enable
    BY <2>5 DEF Enable, Default
  <2>6. CASE Plug \/ Enumerate \/ Connect \/ Disconnect \/ PickLogLevel \/ UNCHANGED vars
    BY <2>6 DEF Plug, Enumerate, Connect, Disconnect, PickLogLevel, gui, vars
  <2>7. CASE Disable \/ Crash
    BY <2>7 DEF Disable, Crash
  <2>8. QED
    BY <1>2, <2>1, <2>2, <2>3, <2>4, <2>5, <2>6, <2>7 DEF Next
<1>3. QED
  BY <1>1, <1>2, TypeCorrect, PTL DEF Spec

----------------------------------------------------------------------------
(* Outputs.  What is shown is the user's or Empty; before the first list   *)
(* what counts is what was loaded, and between two sessions what was       *)
(* saved.                                                                  *)

OutputInv ==
  \A r \in Roles :
    /\ running => selected.out[r] \in {chosen.out[r], Empty}
    /\ running /\ outs = None => initial.out[r] \in {chosen.out[r], Empty}
    /\ ~running => config.out[r] \in {chosen.out[r], Empty}

LEMMA OutputsStayChosen == Spec => []OutputInv
<1>1. Init => OutputInv
  BY DEF Init, OutputInv
<1>2. ASSUME TypeOK, TypeOK', OutputInv, [Next]_vars
      PROVE  OutputInv'
  <2> SUFFICES ASSUME NEW r \in Roles
               PROVE  /\ running' => selected'.out[r] \in {chosen'.out[r], Empty}
                      /\ running' /\ outs' = None => initial'.out[r] \in {chosen'.out[r], Empty}
                      /\ ~running' => config'.out[r] \in {chosen'.out[r], Empty}
    BY DEF OutputInv
  <2> USE <1>2 DEF OutputInv
  <2>1. CASE Refresh
    <3>1. slot \in Snapshots
      BY <2>1 DEF Refresh, TypeOK
    <3>2. outs' # None
      BY <2>1, <3>1, NoneIsNoList DEF Refresh, Snapshots
    <3>3. Wanted.out[r] \in {chosen.out[r], Empty}
      BY <2>1 DEF Refresh, Wanted
    <3>4. selected'.out[r] \in {Wanted.out[r], Empty}
      BY <2>1, ResolveListed DEF Refresh
    <3>5. QED
      BY <2>1, <3>2, <3>3, <3>4 DEF Refresh
  <2>2. CASE PickOut
    BY <2>2 DEF PickOut, Picks, Touch, TypeOK, Selections
  <2>3. CASE PickMic
    BY <2>3 DEF PickMic, Picks, Touch, TypeOK, Selections
  <2>4. CASE PickRadio
    BY <2>4 DEF PickRadio, Picks, Touch, TypeOK, Selections
  <2>5. CASE Enable
    BY <2>5 DEF Enable, Default
  <2>6. CASE Plug \/ Enumerate \/ UNCHANGED vars
    BY <2>6 DEF Plug, Enumerate, gui, vars
  <2>7. CASE Connect \/ Disconnect \/ PickLogLevel
    BY <2>7, SettingsStay
  <2>8. CASE Disable
    BY <2>8 DEF Disable, Touch, Save, Default
  <2>9. CASE Crash
    BY <2>9 DEF Crash
  <2>10. QED
    BY <1>2, <2>1, <2>2, <2>3, <2>4, <2>5, <2>6, <2>7, <2>8, <2>9 DEF Next
<1>3. QED
  BY <1>1, <1>2, TypeCorrect, PTL DEF Spec

----------------------------------------------------------------------------
(* Inputs.  The configured names are looked up while the list is empty,    *)
(* which must be only before the first one.                                *)

Steady == Ins # {} /\ Unspent({"bare", "fail", "early"})

Turned(names) ==
  names.mic \in {chosen.mic, Empty} /\ names.radio \in {chosen.radio, Empty}

BudgetInv == \A e \in Events : left[e] <= Budget[e]

InputInv ==
  Steady =>
    /\ present.ins # {}
    /\ slot # None => slot.ins # {}
    /\ running /\ outs # None => ins # {}
    /\ running => Turned(selected)
    /\ running /\ outs = None => Turned(initial)
    /\ ~running => Turned(config)

\* What is spent is not unspent any more.
LEMMA Spent ==
  ASSUME TypeOK, BudgetInv, NEW happenings \in SUBSET Events, Spend(happenings)
  PROVE  /\ BudgetInv'
         /\ \A e \in Events : left'[e] = Budget[e] => left[e] = Budget[e] /\ e \notin happenings
<1>1. /\ \A e \in Events : left[e] \in Nat /\ Budget[e] \in Nat /\ left[e] <= Budget[e]
      /\ \A e \in Events : left'[e] = IF e \in happenings THEN left[e] - 1 ELSE left[e]
  BY ConstantsAssumption DEF TypeOK, BudgetInv, Spend
<1> QED
  BY <1>1 DEF BudgetInv

LEMMA Spends ==
  ASSUME TypeOK, BudgetInv, [Next]_vars
  PROVE  BudgetInv' /\ \A e \in Events : left'[e] = Budget[e] => left[e] = Budget[e]
<1>1. CASE left' = left
  BY <1>1 DEF BudgetInv
<1>2. ASSUME NEW happenings \in SUBSET Events, Spend(happenings)
      PROVE  BudgetInv' /\ \A e \in Events : left'[e] = Budget[e] => left[e] = Budget[e]
  BY <1>2, Spent
<1>3. ASSUME NEW happenings \in SUBSET Events, Touch(happenings)
      PROVE  BudgetInv' /\ \A e \in Events : left'[e] = Budget[e] => left[e] = Budget[e]
  <2>1. happenings \cup (IF outs = None THEN {"early"} ELSE {}) \in SUBSET Events
    BY DEF Events
  <2> QED
    BY <1>2, <1>3, <2>1 DEF Touch
<1>4. CASE Connect \/ PickLogLevel \/ Disable
  <2>1. PICK failed \in BOOLEAN :
          Touch(Unwritten(failed)) \/ Touch({"disable"} \cup Unwritten(failed))
    BY <1>4 DEF Connect, PickLogLevel, Disable
  <2> QED
    BY <1>3, <2>1 DEF Unwritten, Events
<1>5. CASE PickOut \/ PickMic \/ PickRadio \/ Disconnect
  BY <1>3, <1>5 DEF PickOut, PickMic, PickRadio, Picks, Disconnect, Events
<1>6. CASE Plug \/ Enumerate \/ Crash
  BY <1>1, <1>2, <1>6 DEF Plug, Enumerate, Crash, Events
<1> QED
  BY <1>1, <1>4, <1>5, <1>6 DEF Next, vars, Refresh, Enable

\* Who touches the window before the first list has not waited.
LEMMA TouchedEarly ==
  ASSUME TypeOK, BudgetInv, NEW happenings \in SUBSET Events, Touch(happenings),
         left'["early"] = Budget["early"]
  PROVE  outs # None /\ running
<1>1. Spend(happenings \cup IF outs = None THEN {"early"} ELSE {}) /\ running
  BY DEF Touch
<1>2. outs = None => "early" \in happenings \cup IF outs = None THEN {"early"} ELSE {}
  OBVIOUS
<1>3. happenings \cup (IF outs = None THEN {"early"} ELSE {}) \in SUBSET Events
  BY DEF Events
<1> QED
  BY <1>1, <1>2, <1>3, Spent DEF Events

LEMMA InputStep ==
  ASSUME TypeOK, BudgetInv, InputInv, [Next]_vars
  PROVE  InputInv'
<1> SUFFICES ASSUME Steady'
             PROVE  /\ present'.ins # {}
                    /\ slot' # None => slot'.ins # {}
                    /\ running' /\ outs' # None => ins' # {}
                    /\ running' => Turned(selected)'
                    /\ running' /\ outs' = None => Turned(initial)'
                    /\ ~running' => Turned(config)'
  BY DEF InputInv
<1>1. /\ present.ins # {}
      /\ slot # None => slot.ins # {}
      /\ running /\ outs # None => ins # {}
      /\ running => Turned(selected)
      /\ running /\ outs = None => Turned(initial)
      /\ ~running => Turned(config)
  BY Spends DEF InputInv, Steady, Unspent, Events
<1>2. \A e \in {"bare", "fail", "early"} : left'[e] = Budget[e]
  BY DEF Steady, Unspent
<1>3. CASE Plug
  <2>1. present'.ins # {}
    <3>1. PICK happenings \in SUBSET Events :
            /\ Spend(happenings)
            /\ present.ins # {} /\ present'.ins = {} => "bare" \in happenings
      BY <1>3 DEF Plug, Events
    <3> QED
      BY <1>1, <1>2, <3>1, Spent DEF Events
  <2> QED
    BY <1>1, <1>3, <2>1 DEF Plug, gui, Turned
<1>4. CASE Enumerate
  <2>1. slot' = present
    BY <1>2, <1>4, Spent DEF Enumerate, Events
  <2> QED
    BY <1>1, <1>4, <2>1 DEF Enumerate, Turned
<1>5. CASE Refresh
  <2>1. slot \in Snapshots /\ slot.ins # {} /\ running
    BY <1>1, <1>5 DEF Refresh, TypeOK
  <2>2. Turned(Wanted)
    BY <1>1, <2>1 DEF Wanted, Turned
  <2>3. selected'.mic \in {Wanted.mic, Empty} /\ selected'.radio \in {Wanted.radio, Empty}
    BY <1>5, ResolveListed DEF Refresh
  <2>4. outs' # None
    BY <1>5, <2>1, NoneIsNoList DEF Refresh, Snapshots
  <2> QED
    BY <1>1, <1>5, <2>1, <2>2, <2>3, <2>4 DEF Refresh, Turned
<1>6. CASE PickOut \/ PickMic \/ PickRadio
  <2>1. outs # None /\ running
    BY <1>2, <1>6, TouchedEarly DEF PickOut, PickMic, PickRadio, Picks, Events
  <2>2. Turned(selected)'
    BY <1>1, <1>6, <2>1 DEF PickOut, PickMic, PickRadio, Turned, TypeOK, Selections
  <2> QED
    BY <1>1, <1>6, <2>1, <2>2 DEF PickOut, PickMic, PickRadio, Picks
<1>7. CASE Connect \/ Disconnect \/ PickLogLevel
  BY <1>1, <1>7, SettingsStay DEF Turned
<1>8. CASE Enable
  BY <1>1, <1>8 DEF Enable, Default, Turned
<1>9. CASE Disable
  BY <1>1, <1>9 DEF Disable, Touch, Save, Default, Turned
<1>10. CASE Crash
  BY <1>1, <1>10 DEF Crash, Turned
<1>11. CASE UNCHANGED vars
  BY <1>1, <1>11 DEF vars, gui, Turned
<1> QED
  BY <1>3, <1>4, <1>5, <1>6, <1>7, <1>8, <1>9, <1>10, <1>11 DEF Next

\* Nothing is selected that the user has turned away from (gui/mod.rs
\* refresh_output_devices, save_config).
THEOREM SelectionStaysChosen == Spec => []SelectionIsChosen
<1>1. Init => BudgetInv /\ InputInv
  <2>1. Init => BudgetInv
    BY ConstantsAssumption DEF Init, BudgetInv
  <2>2. Init => InputInv
    BY DEF Init, InputInv, Steady, Turned, Default
  <2> QED
    BY <2>1, <2>2
<1>2. TypeOK /\ BudgetInv /\ InputInv /\ [Next]_vars => BudgetInv' /\ InputInv'
  BY Spends, InputStep
<1>3. OutputInv /\ InputInv => SelectionIsChosen
  BY DEF OutputInv, InputInv, Steady, Turned, SelectionIsChosen
<1> QED
  BY <1>1, <1>2, <1>3, TypeCorrect, OutputsStayChosen, PTL DEF Spec

\* What the window shows and the pipelines open is a listed device of the user's choice,
\* or nothing (gui/mod.rs refresh_output_devices).
THEOREM SelectionsHold == Spec => []SelectionHolds
BY SelectionStaysListed, SelectionStaysChosen, PTL DEF SelectionHolds

----------------------------------------------------------------------------
(* A user who waits for the lists, on a machine whose devices stay: the    *)
(* choice passes from config.toml to the configured names, from there to   *)
(* the selection when the first list arrives, and back when it is saved.   *)

Waits == Ins # {} /\ Unspent({"plug", "fail", "unwritten", "early"})

All == [outs |-> Outs, ins |-> Ins]

RestoreInv ==
  Waits =>
    /\ present = All
    /\ slot # None => slot = All
    /\ running /\ outs # None => outs = Outs /\ ins = Ins /\ selected = chosen
    /\ running /\ outs = None => ins = {} /\ initial = chosen
    /\ ~running => config = chosen

\* In a list of all devices every selection is found.
LEMMA ResolveAll ==
  /\ \A name \in Outs \cup {Empty} : Resolve(name, Outs) = name
  /\ \A name \in Ins \cup {Empty} : Resolve(name, Ins) = name
  /\ \A name \in Ins \cup {Empty, AutoSink} : Resolve(name, Ins \cup {AutoSink}) = name
BY DEF Resolve

LEMMA RestoreStep ==
  ASSUME TypeOK, BudgetInv, RestoreInv, [Next]_vars
  PROVE  RestoreInv'
<1> SUFFICES ASSUME Waits'
             PROVE  /\ present' = All
                    /\ slot' # None => slot' = All
                    /\ running' /\ outs' # None => outs' = Outs /\ ins' = Ins /\ selected' = chosen'
                    /\ running' /\ outs' = None => ins' = {} /\ initial' = chosen'
                    /\ ~running' => config' = chosen'
  BY DEF RestoreInv
<1>1. /\ present = All
      /\ slot # None => slot = All
      /\ running /\ outs # None => outs = Outs /\ ins = Ins /\ selected = chosen
      /\ running /\ outs = None => ins = {} /\ initial = chosen
      /\ ~running => config = chosen
  BY Spends DEF RestoreInv, Waits, Unspent, Events
<1>2. Ins # {} /\ \A e \in {"plug", "fail", "unwritten", "early"} : left'[e] = Budget[e]
  BY DEF Waits, Unspent
<1>3. CASE Plug
  <2>1. PICK happenings \in SUBSET Events : Spend(happenings) /\ "plug" \in happenings
    BY <1>3 DEF Plug, Events
  <2> QED
    BY <1>2, <2>1, Spent DEF Events
<1>4. CASE Enumerate
  <2>1. slot' = present
    BY <1>2, <1>4, Spent DEF Enumerate, Events
  <2> QED
    BY <1>1, <1>4, <2>1 DEF Enumerate
<1>5. CASE Refresh
  <2>1. slot.outs = Outs /\ slot.ins = Ins /\ running
    BY <1>1, <1>5 DEF Refresh, All
  <2>2. Wanted = [out |-> chosen.out, mic |-> chosen.mic, radio |-> chosen.radio]
    BY <1>1, <1>2, <2>1 DEF Wanted
  <2>3. chosen \in Selections
    BY DEF TypeOK
  <2>4. selected' = [out   |-> [r \in Roles |-> Resolve(chosen.out[r], Outs)],
                     mic   |-> Resolve(chosen.mic, Ins),
                     radio |-> Resolve(chosen.radio, Ins \cup {AutoSink})]
    BY <1>5, <2>1, <2>2 DEF Refresh
  <2>5. selected' = chosen
    <3>1. [r \in Roles |-> Resolve(chosen.out[r], Outs)] = chosen.out
      BY <2>3, ResolveAll DEF Selections
    <3>2. chosen = [out |-> chosen.out, mic |-> chosen.mic, radio |-> chosen.radio]
      BY <2>3 DEF Selections
    <3> QED
      BY <2>3, <2>4, <3>1, <3>2, ResolveAll DEF Selections
  <2>6. outs' = Outs /\ outs' # None /\ ins' = Ins
    BY <1>5, <2>1, NoneIsNoList DEF Refresh
  <2> QED
    BY <1>1, <1>5, <2>1, <2>5, <2>6 DEF Refresh
<1>6. CASE PickOut \/ PickMic \/ PickRadio
  <2>1. outs # None /\ running
    BY <1>2, <1>6, TouchedEarly DEF PickOut, PickMic, PickRadio, Picks, Events
  <2>2. selected' = chosen'
    BY <1>1, <1>6, <2>1 DEF PickOut, PickMic, PickRadio
  <2> QED
    BY <1>1, <1>6, <2>1, <2>2 DEF PickOut, PickMic, PickRadio, Picks
<1>7. CASE Connect \/ Disconnect \/ PickLogLevel
  BY <1>1, <1>7, SettingsStay
<1>8. CASE Enable
  BY <1>1, <1>8 DEF Enable
<1>9. CASE Disable
  <2>1. PICK failed \in BOOLEAN :
          /\ Touch({"disable"} \cup Unwritten(failed))
          /\ Save(failed)
          /\ chosen' = IF failed THEN config' ELSE chosen
    BY <1>9 DEF Disable
  <2>2. {"disable"} \cup Unwritten(failed) \in SUBSET Events
    BY UnwrittenType DEF Events
  <2>3. ~failed
    <3>1. \E happenings \in SUBSET Events :
            Spend(happenings) /\ (failed => "unwritten" \in happenings)
      BY <2>1, <2>2 DEF Touch, Unwritten, Events
    <3> QED
      BY <1>2, <3>1, Spent DEF Events
  <2>4. outs # None /\ running
    BY <1>2, <2>1, <2>2, TouchedEarly
  <2> QED
    BY <1>1, <1>9, <2>1, <2>3, <2>4 DEF Disable, Save
<1>10. CASE Crash
  BY <1>1, <1>10 DEF Crash
<1>11. CASE UNCHANGED vars
  BY <1>1, <1>11 DEF vars, gui
<1> QED
  BY <1>3, <1>4, <1>5, <1>6, <1>7, <1>8, <1>9, <1>10, <1>11 DEF Next

\* What the user chose comes back after every restart (gui/mod.rs save_config,
\* GuiState::new, refresh_output_devices).
THEOREM ChoicesAreRestored == Spec => []ChoiceRestored
<1>1. Init => BudgetInv /\ RestoreInv
  <2>1. Init => BudgetInv
    BY ConstantsAssumption DEF Init, BudgetInv
  <2>2. Init => RestoreInv
    BY DEF Init, RestoreInv, All
  <2> QED
    BY <2>1, <2>2
<1>2. TypeOK /\ BudgetInv /\ RestoreInv /\ [Next]_vars => BudgetInv' /\ RestoreInv'
  BY Spends, RestoreStep
<1>3. RestoreInv => ChoiceRestored
  BY DEF RestoreInv, Waits, ChoiceRestored
<1> QED
  BY <1>1, <1>2, <1>3, TypeCorrect, PTL DEF Spec

=============================================================================
