-------------------------- MODULE DeviceSelection ---------------------------
(***************************************************************************)
(* Which audio devices the plugin uses: the pickers of its window, the     *)
(* device lists behind them and config.toml (gui/mod.rs, gui/config.rs).   *)
(*                                                                         *)
(* A background thread enumerates the devices every 2 s and leaves the     *)
(* result in a slot; the flight loop takes it, replaces the lists and      *)
(* looks up each selected device in the new ones.  config.toml is read     *)
(* when the plugin is enabled, before there is any list, and written on    *)
(* Connect, on a change of the log level and when the plugin is disabled;  *)
(* the error of a write that fails is dropped.                             *)
(*                                                                         *)
(* The code keeps a selection as an index into a list that it replaces     *)
(* together with the index; here a selection is the name at that index,    *)
(* and Empty where the code reads "" (the system default, or no radio).    *)
(***************************************************************************)
EXTENDS Naturals, FiniteSets

CONSTANTS
  Outs,      \* output devices
  Ins,       \* input devices: microphones, and sources for the radio
  Roles,     \* what outputs are selected for: "ambient", "ic"
  Empty,     \* the empty name
  AutoSink,  \* RADIO_AUTO_SINK
  None,      \* Option::None, and lists that were never filled
  Saved,     \* what config.toml may hold at first
  Budget     \* how often each event may happen

Selections ==
  [out : [Roles -> Outs \cup {Empty}], mic : Ins \cup {Empty}, radio : Ins \cup {Empty, AutoSink}]

\* "bare": no input device is left; "fail": an enumeration, and "unwritten": a write of
\* config.toml fails; "early": the user does not wait for the lists.
Events == {"pick", "plug", "bare", "fail", "unwritten", "crash", "disable", "early"}

ASSUME ConstantsAssumption ==
  /\ {Empty, AutoSink, None} \cap (Outs \cup Ins) = {}
  /\ \A S \in SUBSET Outs : S # None
  /\ AutoSink # Empty
  /\ Saved \subseteq Selections
  /\ Budget \in [Events -> Nat]

VARIABLES
  config,     \* the devices in config.toml
  running,    \* the plugin is enabled: there is a GuiState
  initial,    \* initial_ambient_device .. initial_radio_source
  outs, ins,  \* output_devices; mic_input_devices and radio_input_devices
  selected,   \* selected_ambient, selected_ic, selected_mic, selected_radio
  slot,       \* pending_devices
  connected,  \* is_connected: the pickers are disabled
  present,    \* the devices of the machine
  chosen,     \* what the user chose last, as far as it was ever saved
  left        \* what is left of Budget

gui == <<running, initial, outs, ins, selected, slot, connected>>
vars == <<config, gui, present, chosen, left>>

Snapshots == [outs : SUBSET Outs, ins : SUBSET Ins]

Default == [out |-> [r \in Roles |-> Empty], mic |-> Empty, radio |-> Empty]

TypeOK ==
  /\ config \in Selections /\ initial \in Selections
  /\ selected \in Selections /\ chosen \in Selections
  /\ running \in BOOLEAN /\ connected \in BOOLEAN
  /\ outs \in (SUBSET Outs) \cup {None}
  /\ ins \subseteq Ins
  /\ slot \in Snapshots \cup {None}
  /\ present \in Snapshots
  /\ left \in [Events -> Nat]

\* None of these has happened yet.
Unspent(happenings) == \A e \in happenings : left[e] = Budget[e]

Spend(happenings) ==
  /\ \A e \in happenings : left[e] > 0
  /\ left' = [e \in Events |-> IF e \in happenings THEN left[e] - 1 ELSE left[e]]

\* The user touches the window or disables the plugin.
Touch(happenings) ==
  /\ running
  /\ Spend(happenings \cup IF outs = None THEN {"early"} ELSE {})

----------------------------------------------------------------------------
(* Devices and lists.                                                      *)

\* A device is plugged in or pulled out.
Plug ==
  /\ \/ \E d \in Outs : present' = [present EXCEPT !.outs = (@ \ {d}) \cup ({d} \ @)]
     \/ \E d \in Ins : present' = [present EXCEPT !.ins = (@ \ {d}) \cup ({d} \ @)]
  /\ Spend({"plug"} \cup IF present.ins # {} /\ present'.ins = {} THEN {"bare"} ELSE {})
  /\ UNCHANGED <<config, gui, chosen>>

\* Mutant: the thread enumerates once.
EnumerateOnce ==
  /\ running
  /\ slot = None /\ outs = None
  /\ slot' = present
  /\ UNCHANGED <<config, running, initial, outs, ins, selected, connected, present, chosen, left>>

\* The background thread's round trip: an error yields empty lists.
Enumerate ==
  /\ running
  /\ \/ /\ slot' = present
        /\ UNCHANGED left
     \/ /\ Spend({"fail"})
        /\ slot' = [outs |-> {}, ins |-> {}]
  /\ UNCHANGED <<config, running, initial, outs, ins, selected, connected, present, chosen>>

\* Mutant: a name that is not listed any more has no place.
ResolveUnfound(name, names) == IF name \in names THEN name ELSE None

\* The place of a name in a new list, 0 if it is not listed.
Resolve(name, names) == IF name \in names THEN name ELSE Empty

\* Mutant: the configured devices are looked up on every refresh.
WantedInitial == initial

\* The names to look up: those in the config while the list is empty.
Wanted ==
  [out   |-> IF outs = None THEN initial.out ELSE selected.out,
   mic   |-> IF ins = {} THEN initial.mic ELSE selected.mic,
   radio |-> IF ins = {} THEN initial.radio ELSE selected.radio]

\* refresh_output_devices, in the flight loop.
Refresh ==
  /\ running
  /\ slot # None
  /\ slot' = None
  /\ outs' = slot.outs
  /\ ins' = slot.ins
  /\ selected' =
       [out   |-> [r \in Roles |-> Resolve(Wanted.out[r], slot.outs)],
        mic   |-> Resolve(Wanted.mic, slot.ins),
        radio |-> Resolve(Wanted.radio, slot.ins \cup {AutoSink})]
  /\ UNCHANGED <<config, running, initial, connected, present, chosen, left>>

----------------------------------------------------------------------------
(* The user.                                                               *)

Picks ==
  /\ Touch({"pick"})
  /\ ~connected
  /\ UNCHANGED <<config, running, initial, outs, ins, slot, connected, present>>

PickOut ==
  /\ Picks
  /\ outs # None
  /\ \E r \in Roles, d \in outs \cup {Empty} :
        /\ selected' = [selected EXCEPT !.out[r] = d]
        /\ chosen' = [chosen EXCEPT !.out[r] = d]

\* The picker is hidden while there is no input device.
PickMic ==
  /\ Picks
  /\ ins # {}
  /\ \E d \in ins \cup {Empty} :
        /\ selected' = [selected EXCEPT !.mic = d]
        /\ chosen' = [chosen EXCEPT !.mic = d]

PickRadio ==
  /\ Picks
  /\ \E d \in ins \cup {Empty, AutoSink} :
        /\ selected' = [selected EXCEPT !.radio = d]
        /\ chosen' = [chosen EXCEPT !.radio = d]

\* Mutant: the radio source is left out.
SaveNoRadio(failed) == config' = IF failed THEN config ELSE [selected EXCEPT !.radio = Empty]

\* save_config: an index outside its list is saved as "".  std::fs::write empties the
\* file first, so that one which fails leaves the old file or an empty one.
Save(failed) == config' \in IF failed THEN {config, Default} ELSE {selected}

Unwritten(failed) == IF failed THEN {"unwritten"} ELSE {}

\* connection::start, which reads the selection and saves.
Connect ==
  /\ \E failed \in BOOLEAN : Touch(Unwritten(failed)) /\ Save(failed)
  /\ ~connected
  /\ connected' = TRUE
  /\ UNCHANGED <<running, initial, outs, ins, selected, slot, present, chosen>>

Disconnect ==
  /\ Touch({})
  /\ connected
  /\ connected' = FALSE
  /\ UNCHANGED <<config, running, initial, outs, ins, selected, slot, present, chosen>>

\* The draw callback saves when another log level is picked.
PickLogLevel ==
  /\ \E failed \in BOOLEAN : Touch(Unwritten(failed)) /\ Save(failed)
  /\ UNCHANGED <<gui, present, chosen>>

----------------------------------------------------------------------------
(* The plugin.                                                             *)

\* A new GuiState, with the configuration and without lists.
Enable ==
  /\ ~running
  /\ running' = TRUE
  /\ initial' = config
  /\ outs' = None
  /\ ins' = {}
  /\ selected' = Default
  /\ slot' = None
  /\ connected' = FALSE
  /\ UNCHANGED <<config, present, chosen, left>>

\* XPluginDisable saves; the GuiState, its slot and its thread go.  What could not be
\* written is lost.
Disable ==
  /\ \E failed \in BOOLEAN :
        /\ Touch({"disable"} \cup Unwritten(failed))
        /\ Save(failed)
        /\ chosen' = IF failed THEN config' ELSE chosen
  /\ running' = FALSE
  /\ UNCHANGED <<initial, outs, ins, selected, slot, connected, present>>

\* X-Plane dies without saving: choices since the last save are lost.
Crash ==
  /\ running
  /\ Spend({"crash"})
  /\ running' = FALSE
  /\ chosen' = config
  /\ UNCHANGED <<config, initial, outs, ins, selected, slot, connected, present>>

Init ==
  /\ present = [outs |-> Outs, ins |-> Ins]
  /\ config \in Saved
  /\ running = FALSE
  /\ initial = Default
  /\ outs = None
  /\ ins = {}
  /\ selected = Default
  /\ slot = None
  /\ connected = FALSE
  /\ chosen = config
  /\ left = Budget

Next ==
  \/ Plug \/ Enumerate \/ Refresh
  \/ PickOut \/ PickMic \/ PickRadio
  \/ Connect \/ Disconnect \/ PickLogLevel
  \/ Enable \/ Disable \/ Crash

Spec == Init /\ [][Next]_vars

\* The thread enumerates for as long as the plugin is enabled, and the flight
\* loop runs 20 times a second.  Nothing else need happen.
FairSpec == Spec /\ WF_vars(Enumerate) /\ WF_vars(Refresh)

----------------------------------------------------------------------------
(* What the selection promises.                                            *)

\* Every selected index lies in its list: the pickers, save_config and the four
\* accessors that read a list by the index find what the window shows
\* (gui/mod.rs refresh_output_devices, radio_params).
SelectionIsListed ==
  running => /\ \A r \in Roles : selected.out[r] # Empty => outs # None /\ selected.out[r] \in outs
             /\ selected.mic \in ins \cup {Empty}
             /\ selected.radio \in ins \cup {Empty, AutoSink}

\* No device is ever used that the user has turned away from, whatever comes and goes:
\* what is selected is the user's choice or nothing.  For inputs, "config-preferred
\* device names — used on the first snapshot arrival" (gui/mod.rs) and only then, as
\* long as some input device is found and the user waits for the lists.
SelectionIsChosen ==
  running =>
    /\ \A r \in Roles : selected.out[r] \in {chosen.out[r], Empty}
    /\ Ins # {} /\ Unspent({"bare", "fail", "early"})
         => /\ selected.mic \in {chosen.mic, Empty}
            /\ selected.radio \in {chosen.radio, Empty}

\* Whatever comes and goes, the window shows and opens a listed device of the user's
\* choice, or nothing (gui/mod.rs refresh_output_devices).
SelectionHolds == SelectionIsListed /\ SelectionIsChosen

\* "Configuration (except secrets) persists" (README): once the devices are listed, the
\* window shows the user's choice, also after restarts, on a machine that has an input
\* device and whose devices stay, and for a user who waits for the lists.  (Who does not
\* wait loses the choice: saving before the first list writes empty names.)  No write of
\* config.toml has failed: a failed one empties the file or keeps an older choice.
ChoiceRestored ==
  Ins # {} /\ Unspent({"plug", "fail", "unwritten", "early"}) /\ running /\ outs # None
    => selected = chosen

\* The lists catch up with the machine while the plugin stays enabled, after
\* failed enumerations too.
ListsFollow ==
  <>[]running => <>[](outs = present.outs /\ ins = present.ins)

=============================================================================
