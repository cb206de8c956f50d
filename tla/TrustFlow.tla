----------------------------- MODULE TrustFlow ------------------------------
(***************************************************************************)
(* Connecting from the plugin's window: the trust-on-first-use flow.       *)
(*                                                                         *)
(* The draw callback (gui/draw/mod.rs) owns a state machine (gui/trust.rs, *)
(* gui/draw/tofu.rs): a click on Connect starts a background probe of the  *)
(* server's certificate, a later frame finds the result in a slot shared   *)
(* with every probe thread, compares it with the certificate remembered in *)
(* known_hosts and connects or asks the user.  The draw callback only      *)
(* raises should_connect and should_disconnect; the flight loop            *)
(* (lib.rs, connection.rs) carries them out 20 times a second, with the    *)
(* server the window shows then.                                           *)
(*                                                                         *)
(* A host stands for the canonical host:port key.  One frame is one step,  *)
(* as is one run of the flight loop: both are callbacks of X-Plane's main  *)
(* thread.  Probe threads finish in any order.                             *)
(***************************************************************************)
EXTENDS Naturals, FiniteSets

CONSTANTS
  Hosts,    \* canonical keys of the servers
  CertsOf,  \* the certificates a host may present
  None,     \* Option::None
  Corrupt,  \* a remembered entry that cannot be parsed
  Failure,  \* a probe's Err
  Budget    \* how often each event may happen

Events == {"probe", "cancel", "edit", "rotate", "restart"}
Certs == UNION {CertsOf[h] : h \in Hosts}

ASSUME ConstantsAssumption ==
  /\ Budget \in [Events -> Nat]
  /\ DOMAIN CertsOf = Hosts
  /\ {None, Corrupt, Failure} \cap Certs = {}
  /\ None # Corrupt /\ None # Failure
  /\ None \notin Hosts

VARIABLES
  server,            \* GuiState.server and port, by their key
  serverCa,          \* a Server CA path is set
  knownHosts,        \* KnownHosts.entries
  disk,              \* known_hosts.toml
  trust,             \* GuiState.trust_state
  nextGen,           \* PROBE_GEN
  slot,              \* ProbeSlot
  probes,            \* probe threads that have not finished
  picker,            \* the file picker is open
  shouldConnect,     \* GuiState.should_connect
  shouldDisconnect,  \* GuiState.should_disconnect
  connection,        \* PluginState.connection
  presented,         \* what each host answers a probe with
  clicked,           \* the user has clicked since the flight loop last ran
  wants,             \* the last click asked for a connection
  edited,            \* history: server or Server CA were edited while connecting
  left               \* what is left of Budget

gui == <<server, serverCa, picker, edited>>
store == <<knownHosts, disk>>
request == <<shouldConnect, shouldDisconnect>>
vars == <<gui, store, trust, nextGen, slot, probes, request, connection, presented,
          clicked, wants, left>>

Idle == [kind |-> "Idle"]
Probing(g, h, c) == [kind |-> "Probing", gen |-> g, key |-> h, stored |-> c]
Decide(h, c, why) == [kind |-> "Decide", key |-> h, pem |-> c, why |-> why]

Remembered == [Hosts -> Certs \cup {None, Corrupt}]

\* States of the flow and results in the slot, with generations below g.
TrustStates(g) ==
  {Idle}
  \cup [kind : {"Probing"}, gen : 0 .. g - 1, key : Hosts, stored : Certs \cup {None, Corrupt}]
  \cup [kind : {"Decide"}, key : Hosts, pem : Certs, why : {"Unknown", "Changed"}]
  \cup [kind : {"Decide"}, key : Hosts, pem : {None}, why : {"Failed"}]
Slots(g) == {None} \cup [gen : 0 .. g - 1, result : Certs \cup {Failure}]

Connections == [server : Hosts, ca : BOOLEAN, anchor : Certs \cup {None}]

TypeOK ==
  /\ server \in Hosts
  /\ serverCa \in BOOLEAN
  /\ knownHosts \in Remembered
  /\ disk \in Remembered
  /\ nextGen \in Nat
  /\ trust \in TrustStates(nextGen)
  /\ slot \in Slots(nextGen)
  /\ probes \subseteq [gen : 0 .. nextGen - 1, host : Hosts]
  /\ picker \in BOOLEAN
  /\ shouldConnect \in BOOLEAN
  /\ shouldDisconnect \in BOOLEAN
  /\ connection \in {None} \cup Connections
  /\ presented \in [Hosts -> Certs \cup {Failure}]
  /\ clicked \in BOOLEAN
  /\ wants \in BOOLEAN
  /\ edited \in BOOLEAN
  /\ left \in [Events -> Nat]

Spend(event) == left[event] > 0 /\ left' = [left EXCEPT ![event] = @ - 1]

----------------------------------------------------------------------------
(* One frame of the window.                                                *)

\* Mutant: any result in the slot is taken, whatever its generation.
FinishedAny(t) == t.kind = "Probing" /\ slot # None

\* Mutant: the wait is for the generation after the probe's own.
FinishedLate(t) == t.kind = "Probing" /\ slot # None /\ slot.gen = t.gen + 1

\* poll_step takes the result only if it carries the generation being waited for.
Finished(t) == t.kind = "Probing" /\ slot # None /\ slot.gen = t.gen

\* The fingerprint of a remembered certificate; a corrupt entry has none.
OldFingerprint(c) == IF c = Corrupt THEN None ELSE c

\* Mutant: a failed probe is taken for an unknown certificate.
ResolvedError(t, r) ==
  IF OldFingerprint(t.stored) = r THEN Idle
  ELSE Decide(t.key, r, IF OldFingerprint(t.stored) = None THEN "Unknown" ELSE "Changed")

\* resolve_probe: the next state of the flow once the result is there.
Resolved(t, r) ==
  IF r = Failure THEN Decide(t.key, None, "Failed")
  ELSE IF OldFingerprint(t.stored) = r THEN Idle
  ELSE Decide(t.key, r, IF OldFingerprint(t.stored) = None THEN "Unknown" ELSE "Changed")

\* Mutant: a changed certificate connects like an unchanged one.
SilentKnown(t, r) == r # Failure /\ OldFingerprint(t.stored) # None

\* Mutant: a host never trusted before connects without asking.
SilentUnknown(t, r) == r # Failure /\ OldFingerprint(t.stored) \in {None, r}

\* An unchanged certificate connects without asking.
Silent(t, r) == r # Failure /\ OldFingerprint(t.stored) = r

\* The rest of a frame once its buttons have left trust state t; asks when a
\* button asked for the connection itself.
Frame(t, asks) ==
  \/ /\ Finished(t)
     /\ trust' = Resolved(t, slot.result)
     /\ slot' = None
     /\ shouldConnect' = (shouldConnect \/ asks \/ Silent(t, slot.result))
  \/ /\ ~Finished(t)
     /\ trust' = t
     /\ UNCHANGED slot
     /\ shouldConnect' = (shouldConnect \/ asks)

\* A frame without a click.
Draw ==
  /\ Frame(trust, FALSE)
  /\ UNCHANGED <<gui, store, nextGen, probes, shouldDisconnect, connection, presented,
                 clicked, wants, left>>

Click ==
  /\ ~clicked
  /\ clicked' = TRUE
  /\ UNCHANGED <<connection, presented>>

\* The button reads Disconnect while connected, while the flow runs and while
\* the file picker is open.
ButtonDisconnects == connection # None \/ trust # Idle \/ picker

\* start_probe: the thread writes its result under the next generation.
ClickConnect ==
  /\ Click
  /\ ~ButtonDisconnects
  /\ wants' = TRUE
  /\ \/ /\ serverCa
        /\ Frame(trust, TRUE)
        /\ UNCHANGED <<nextGen, probes, left>>
     \/ /\ ~serverCa
        /\ Spend("probe")
        /\ nextGen' = nextGen + 1
        /\ probes' = probes \cup {[gen |-> nextGen, host |-> server]}
        /\ Frame(Probing(nextGen, server, knownHosts[server]), FALSE)
  /\ UNCHANGED <<gui, store, shouldDisconnect>>

\* Mutant: the flow goes on after Disconnect.
ClickDisconnectKeepsProbing ==
  /\ Click
  /\ ButtonDisconnects
  /\ trust.kind = "Probing" => Spend("cancel")
  /\ trust.kind # "Probing" => UNCHANGED left
  /\ wants' = FALSE
  /\ shouldDisconnect' = TRUE
  /\ Frame(trust, FALSE)
  /\ UNCHANGED <<gui, store, nextGen, probes>>

\* Disconnect also drops the trust decision in progress.
ClickDisconnect ==
  /\ Click
  /\ ButtonDisconnects
  /\ trust.kind = "Probing" => Spend("cancel")
  /\ trust.kind # "Probing" => UNCHANGED left
  /\ wants' = FALSE
  /\ shouldDisconnect' = TRUE
  /\ Frame(Idle, FALSE)
  /\ UNCHANGED <<gui, store, nextGen, probes>>

\* insert_and_save: a failed write is only logged.
Remember(h, c) ==
  /\ knownHosts' = [knownHosts EXCEPT ![h] = c]
  /\ disk' \in {knownHosts', disk}

ClickTrust ==
  /\ Click
  /\ trust.kind = "Decide"
  /\ trust.pem # None
  /\ trust' = Idle
  /\ wants' = TRUE
  /\ shouldConnect' = TRUE
  /\ Remember(trust.key, trust.pem)
  /\ UNCHANGED <<gui, nextGen, slot, probes, shouldDisconnect, left>>

\* Cancel, or Close when the probe failed.
ClickCancel ==
  /\ Click
  /\ trust.kind = "Decide"
  /\ trust' = Idle
  /\ wants' = FALSE
  /\ UNCHANGED <<gui, store, nextGen, slot, probes, request, left>>

\* The fields stay editable; the frame they change in does not matter here.
Edit ==
  /\ Spend("edit")
  /\ edited' = (edited \/ trust # Idle \/ shouldConnect)
  /\ \/ server' \in Hosts \ {server} /\ UNCHANGED <<serverCa, picker>>
     \/ serverCa' = ~serverCa /\ UNCHANGED <<server, picker>>
  /\ UNCHANGED <<store, trust, nextGen, slot, probes, request, connection, presented,
                 clicked, wants>>

TogglePicker ==
  /\ Spend("edit")
  /\ picker' = ~picker
  /\ UNCHANGED <<server, serverCa, edited, store, trust, nextGen, slot, probes, request,
                 connection, presented, clicked, wants>>

----------------------------------------------------------------------------
(* The probe threads and the servers.                                      *)

\* A thread overwrites whatever the slot holds.
FinishProbe ==
  \E p \in probes :
    /\ slot' = [gen |-> p.gen, result |-> presented[p.host]]
    /\ probes' = probes \ {p}
    /\ UNCHANGED <<gui, store, trust, nextGen, request, connection, presented, clicked,
                   wants, left>>

\* A server gets another certificate or becomes (un)reachable.
Rotate ==
  /\ Spend("rotate")
  /\ \E h \in Hosts :
       \E answer \in (CertsOf[h] \cup {Failure}) \ {presented[h]} :
         presented' = [presented EXCEPT ![h] = answer]
  /\ UNCHANGED <<gui, store, trust, nextGen, slot, probes, request, connection, clicked, wants>>

----------------------------------------------------------------------------
(* The flight loop: start, then stop.                                      *)

\* connection::start gives up on a bad client certificate, a bad Server CA or a
\* corrupt remembered certificate, and leaves the connection as it was.
Start(c) ==
  \/ c = connection
  \/ /\ serverCa
     /\ c = [server |-> server, ca |-> TRUE, anchor |-> None]
  \/ /\ ~serverCa
     /\ knownHosts[server] # Corrupt
     /\ c = [server |-> server, ca |-> FALSE, anchor |-> knownHosts[server]]

FlightLoop ==
  /\ clicked \/ shouldConnect \/ shouldDisconnect
  /\ \E c \in {connection} \cup Connections :
       /\ IF shouldConnect THEN Start(c) ELSE c = connection
       /\ connection' = IF shouldDisconnect THEN None ELSE c
  /\ shouldConnect' = FALSE
  /\ shouldDisconnect' = FALSE
  /\ clicked' = FALSE
  /\ UNCHANGED <<gui, store, trust, nextGen, slot, probes, presented, wants, left>>

\* XPluginDisable, then XPluginEnable: a new window with a new slot, the saved
\* settings and the known hosts read from disk; PROBE_GEN is a static.
Restart ==
  /\ Spend("restart")
  /\ knownHosts' = disk
  /\ trust' = Idle
  /\ slot' = None
  /\ probes' = {}
  /\ picker' = FALSE
  /\ shouldConnect' = FALSE
  /\ shouldDisconnect' = FALSE
  /\ connection' = None
  /\ clicked' = FALSE
  /\ wants' = FALSE
  /\ UNCHANGED <<server, serverCa, edited, disk, nextGen, presented>>

----------------------------------------------------------------------------

Init ==
  /\ server \in Hosts
  /\ serverCa \in BOOLEAN
  /\ disk \in [Hosts -> Certs \cup {None, Corrupt}]
  /\ \A h \in Hosts : disk[h] \in CertsOf[h] \cup {None, Corrupt}
  /\ knownHosts = disk
  /\ trust = Idle
  /\ nextGen = 0
  /\ slot = None
  /\ probes = {}
  /\ picker = FALSE
  /\ shouldConnect = FALSE
  /\ shouldDisconnect = FALSE
  /\ connection = None
  /\ presented \in [Hosts -> Certs \cup {Failure}]
  /\ \A h \in Hosts : presented[h] \in CertsOf[h] \cup {Failure}
  /\ clicked = FALSE
  /\ wants = FALSE
  /\ edited = FALSE
  /\ left = Budget

User == ClickConnect \/ ClickDisconnect \/ ClickTrust \/ ClickCancel \/ Edit \/ TogglePicker

Next == Draw \/ User \/ FinishProbe \/ Rotate \/ FlightLoop \/ Restart

Spec == Init /\ [][Next]_vars

\* The window is visible and drawn, X-Plane runs the flight loop, and a probe
\* ends: its connect, read and write time out after 10 s each.
FairSpec == Spec /\ WF_vars(Draw) /\ WF_vars(FinishProbe) /\ WF_vars(FlightLoop)

----------------------------------------------------------------------------
(* What the flow must get right.                                           *)

\* Certificates stay with the host that presented them: whatever the window
\* shows while probes of several hosts run, end late or are cancelled, what is
\* remembered for a host (known_hosts.rs), in memory and on disk, and what a
\* connection to it is checked against (connection.rs), is one of its own.
CertsStayWithHost ==
  /\ \A h \in Hosts : /\ knownHosts[h] \in CertsOf[h] \cup {None, Corrupt}
                      /\ disk[h] \in CertsOf[h] \cup {None, Corrupt}
  /\ connection # None => connection.anchor \in CertsOf[connection.server] \cup {None}

\* "The draw loop only sets should_connect once the user has trusted it"
\* (connection.rs, before server_trust): without a Server CA, and with the
\* fields left alone while connecting, a connection is checked against a
\* remembered certificate.
ConnectionIsAnchored ==
  ~edited /\ connection # None => connection.ca \/ connection.anchor # None

\* A connection is requested without asking only when the certificate is the one
\* remembered (tofu.rs resolve_probe).  The flow compares with the pin it copied
\* when the probe started; the pin it would read now, when the probe's end raises
\* should_connect, still is what the probed host presented.
SilentMeansPinned ==
  [][/\ shouldConnect' /\ ~shouldConnect
     /\ trust.kind = "Probing"
     => knownHosts[trust.key] = slot.result]_vars

\* Cancelling holds: after Disconnect, Cancel or Close no result that was still
\* on its way opens a connection (gui/draw/mod.rs, tofu.rs).
CancelHolds == shouldConnect /\ ~wants => shouldDisconnect

\* A result "from a superseded/cancelled probe is ignored" (trust.rs, ProbeSlot):
\* the probe being waited for ends the wait.
ProbeResolves == trust.kind = "Probing" ~> trust.kind # "Probing"

\* The awaited result is in the slot or on its way, and no other thread is left.
Undisturbed ==
  /\ trust.kind = "Probing"
  /\ \A p \in probes : p.gen = trust.gen
  /\ probes = {} => slot # None /\ slot.gen = trust.gen

\* The same, as far as poll_step and start_probe (tofu.rs) see to it: once no
\* older thread is running, a probe ends the wait, whatever is left in the slot
\* and whatever is clicked or edited meanwhile.
ProbeEnds == Undisturbed ~> trust.kind # "Probing"

=============================================================================
