------------------------------- MODULE Keying -------------------------------
(***************************************************************************)
(* From the cockpit's switches to the voice packets of one connection.     *)
(*                                                                         *)
(* X-Plane's datarefs are read one after the other, by the plugin's flight *)
(* loop (lib.rs poll_datarefs) or by the CLI's bridge (xplane.rs), into    *)
(* the CockpitState (state.rs) that the VoIP clients share.  Each seat has *)
(* its own switches; update_from_float keeps those of the seat occupied.   *)
(* For every microphone frame a client looks at the state and sends the    *)
(* frame, ends its talk spurt or stays silent (session.rs on_mic_pcm).     *)
(*                                                                         *)
(* The plugin holds the state's lock for a whole pass, on X-Plane's own    *)
(* thread: neither the clients nor the simulator move during it, and it    *)
(* looks missing datarefs up again.  The bridge asks X-Plane once which    *)
(* datarefs there are, takes the lock for each value and waits for HTTP in *)
(* between; a request may fail.  A dataref is modelled by the field it     *)
(* feeds and the side it belongs to; an integer without a meaning is       *)
(* Unknown.                                                                *)
(***************************************************************************)
EXTENDS Naturals, Sequences, FiniteSets

CONSTANTS
  Clients,   \* the transmitting clients
  DataRefs,  \* the datarefs that are modelled
  Setups,    \* who polls, which datarefs exist, which clients are started
  Unknown,   \* an enum value from_int rejects
  Unread     \* no value has been read

Seats == {"Captain", "FirstOfficer"}
Hosts == {"plugin", "bridge"}
Events == {"change", "fail", "reconnect"}

Switches == {"acp_ic", "acp_rt", "mic", "spkr_tog", "contwheel_ic", "contwheel_rt"}
Common == {"seat", "role", "is_guest", "com1_rx", "com2_rx"}

Ref(f, s) == [field |-> f, side |-> s]
Seat == Ref("seat", "Any")

\* DataRefId::all, without the datarefs that no gate depends on.
AllRefs ==
  <<Seat, Ref("role", "Any"),
    Ref("acp_ic", "Captain"), Ref("acp_rt", "Captain"), Ref("mic", "Captain"),
    Ref("spkr_tog", "Captain"),
    Ref("acp_ic", "FirstOfficer"), Ref("acp_rt", "FirstOfficer"),
    Ref("mic", "FirstOfficer"), Ref("spkr_tog", "FirstOfficer"),
    Ref("contwheel_ic", "Captain"), Ref("contwheel_ic", "FirstOfficer"),
    Ref("contwheel_rt", "Captain"), Ref("contwheel_rt", "FirstOfficer"),
    Ref("is_guest", "Any"), Ref("com1_rx", "Any"), Ref("com2_rx", "Any")>>

Rank(r) == CHOOSE i \in DOMAIN AllRefs : AllRefs[i] = r

\* What a field of CockpitState may hold.
Values(f) ==
  CASE f = "seat" -> Seats
    [] f = "role" -> {"Pilot", "Other"}
    [] f = "mic" -> {"Radio", "Pa"}
    [] OTHER -> BOOLEAN

Enums == {"seat", "role", "mic"}

\* What the simulator may show for it.
Shown(r) == Values(r.field) \cup (IF r.field \in Enums THEN {Unknown} ELSE {})

ASSUME ConstantsAssumption ==
  /\ Clients \subseteq {"IC", "PA", "Radio"}
  /\ DataRefs \subseteq [field : Switches, side : Seats] \cup [field : Common, side : {"Any"}]
  /\ Setups \subseteq [host : Hosts, existing : SUBSET DataRefs, started : SUBSET Clients,
                        budget : [Events -> Nat]]
  /\ \A f \in Switches \cup Common : {Unknown, Unread} \cap Values(f) = {}
  /\ Unknown # Unread

VARIABLES
  setup,         \* one of Setups
  discovered,    \* the list of datarefs has been fetched; always in the plugin
  sim,           \* the datarefs' values in X-Plane
  order,         \* PluginState.datarefs; the bridge's id_to_enum as it is iterated
  pos,           \* index of the next dataref of the pass, 0 between passes
  cs,            \* CockpitState
  seen,          \* the value last read of each dataref
  crypt,         \* clients whose Session.crypt is Some
  transmitting,  \* clients whose Session.was_transmitting is set
  last,          \* the last audio packet of each client
  left           \* how often values may still change, requests fail, ...

Plugin == setup.host = "plugin"

poller == <<setup, discovered, order, pos>>
clients == <<crypt, transmitting, last>>
vars == <<sim, poller, cs, seen, clients, left>>

Resolved == {order[i] : i \in DOMAIN order}

TypeOK ==
  /\ setup \in Setups
  /\ discovered \in BOOLEAN
  /\ \A r \in DataRefs : sim[r] \in Shown(r)
  /\ order \in Seq(DataRefs)
  /\ pos \in 0 .. Len(order)
  /\ pos # 0 => discovered
  /\ DOMAIN cs = Switches \cup Common
  /\ \A f \in Switches \cup Common : cs[f] \in Values(f)
  /\ DOMAIN seen = DataRefs
  /\ \A r \in DataRefs : seen[r] \in Shown(r) \cup {Unread}
  /\ crypt \subseteq Clients
  /\ transmitting \subseteq crypt
  /\ last \in [Clients -> {"none", "voice", "end"}]
  /\ left \in [Events -> Nat]

Spend(event) == left[event] > 0 /\ left' = [left EXCEPT ![event] = @ - 1]

----------------------------------------------------------------------------
(* CockpitState.                                                           *)

DefaultState ==
  [f \in Switches \cup Common |->
     CASE f = "seat" -> "Captain"
       [] f = "role" -> "Pilot"
       [] f = "mic" -> "Radio"
       [] OTHER -> FALSE]

\* Mutant: the other seat's switches count as well.
OwnsAll(r) == TRUE

\* Whether a dataref belongs to the seat occupied, or to no seat.
Owns(r) == r.side \in {"Any", cs["seat"]}

\* Mutant: a value without a meaning is stored.
UpdateUnchecked(r, v) == IF Owns(r) THEN [cs EXCEPT ![r.field] = v] ELSE cs

\* update_from_float: a value without a meaning is only logged.
Update(r, v) == IF Owns(r) /\ v # Unknown THEN [cs EXCEPT ![r.field] = v] ELSE cs

Keyed == cs["acp_rt"] \/ cs["contwheel_rt"]

\* should_transmit_ic, should_transmit_pa and should_transmit_radio; the relay
\* client only exists with a source.
Gate(c) ==
  CASE c = "IC" -> cs["role"] = "Pilot" /\ (cs["acp_ic"] \/ cs["contwheel_ic"]) /\ ~Keyed
    [] c = "PA" -> cs["role"] = "Pilot" /\ cs["mic"] = "Pa" /\ Keyed
    [] c = "Radio" -> ~cs["is_guest"] /\ (cs["com1_rx"] \/ cs["com2_rx"]) /\ cs["spkr_tog"]

----------------------------------------------------------------------------
(* The pollers.                                                            *)

Distinct(s) == \A i, j \in DOMAIN s : s[i] = s[j] => i = j
Increasing(s) == \A i, j \in DOMAIN s : i < j => Rank(s[i]) < Rank(s[j])

\* Lists of different members of S, in the order of DataRefId::all for the
\* plugin and in any order for the bridge, which iterates a HashMap.
Listings(S) ==
  {s \in UNION {[1 .. n -> S] : n \in 0 .. Cardinality(S)} :
     Distinct(s) /\ (Plugin => Increasing(s))}

\* run_bridge asks which datarefs there are; one registered later is never
\* polled.  A request that fails is repeated after 5 s (run_bridge_forever).
Discover ==
  /\ ~Plugin
  /\ ~discovered
  /\ \/ /\ order' \in Listings(setup.existing)
        /\ discovered' = TRUE
        /\ UNCHANGED left
     \/ /\ Spend("fail")
        /\ UNCHANGED <<order, discovered>>
  /\ UNCHANGED <<setup, pos, sim, cs, seen, clients>>

\* The clients find the state locked during a pass of the plugin.
Locked == Plugin /\ pos # 0

\* A pass begins.  In the plugin retry_pending_datarefs runs first: now and then
\* it looks the missing datarefs up again and appends those it finds.
StartPass ==
  /\ discovered
  /\ pos = 0
  /\ \E found \in IF Plugin THEN Listings(setup.existing \ Resolved) ELSE {<<>>} :
       order' = order \o found
  /\ pos' = IF order' = <<>> THEN 0 ELSE 1
  /\ UNCHANGED <<setup, discovered, sim, cs, seen, clients, left>>

Advance == pos' = IF pos = Len(order) THEN 0 ELSE pos + 1

Read ==
  /\ pos # 0
  /\ cs' = Update(order[pos], sim[order[pos]])
  /\ seen' = [seen EXCEPT ![order[pos]] = sim[order[pos]]]
  /\ Advance
  /\ UNCHANGED <<setup, discovered, sim, order, clients, left>>

\* The bridge skips a dataref whose request fails, times out or is no number.
ReadFails ==
  /\ ~Plugin
  /\ pos # 0
  /\ Spend("fail")
  /\ Advance
  /\ UNCHANGED <<setup, discovered, sim, order, cs, seen, clients>>

----------------------------------------------------------------------------
(* The clients.                                                            *)

CryptSetup(c) ==
  /\ c \in setup.started \ crypt
  /\ crypt' = crypt \cup {c}
  /\ UNCHANGED <<sim, poller, cs, seen, transmitting, last, left>>

\* Mutant: a closed gate just stops the packets.
MicFrameNoEnd(c) ==
  /\ c \in crypt
  /\ ~Locked
  /\ Gate(c)
  /\ transmitting' = transmitting \cup {c}
  /\ last' = [last EXCEPT ![c] = "voice"]
  /\ UNCHANGED <<sim, poller, cs, seen, crypt, left>>

\* on_mic_pcm: nothing is sent before CryptSetup; the first frame after the gate
\* has closed is sent as the end of the spurt.
MicFrame(c) ==
  /\ c \in crypt
  /\ ~Locked
  /\ \/ /\ Gate(c)
        /\ transmitting' = transmitting \cup {c}
        /\ last' = [last EXCEPT ![c] = "voice"]
     \/ /\ ~Gate(c)
        /\ c \in transmitting
        /\ transmitting' = transmitting \ {c}
        /\ last' = [last EXCEPT ![c] = "end"]
  /\ UNCHANGED <<sim, poller, cs, seen, crypt, left>>

----------------------------------------------------------------------------
(* The simulator and the user.                                             *)

\* A switch is moved, the seat or the role changes, a receiver opens.
Change ==
  /\ Spend("change")
  /\ ~Locked
  /\ \E r \in setup.existing : \E v \in Shown(r) \ {sim[r]} : sim' = [sim EXCEPT ![r] = v]
  /\ UNCHANGED <<poller, cs, seen, clients>>

\* Disconnect and connect in the plugin: a new state and new clients.
Reconnect ==
  /\ Plugin
  /\ pos = 0
  /\ Spend("reconnect")
  /\ cs' = DefaultState
  /\ seen' = [r \in DataRefs |-> Unread]
  /\ crypt' = {}
  /\ transmitting' = {}
  /\ last' = [c \in Clients |-> "none"]
  /\ UNCHANGED <<sim, poller>>

----------------------------------------------------------------------------

\* A flight begins with the switches at rest, the user in either seat.
Init ==
  /\ \E s \in Seats :
       sim = [r \in DataRefs |-> IF r = Seat THEN s ELSE DefaultState[r.field]]
  /\ setup \in Setups
  /\ discovered = Plugin
  /\ order \in IF Plugin THEN Listings(setup.existing) ELSE {<<>>}
  /\ pos = 0
  /\ cs = DefaultState
  /\ seen = [r \in DataRefs |-> Unread]
  /\ crypt = {}
  /\ transmitting = {}
  /\ last = [c \in Clients |-> "none"]
  /\ left = setup.budget

Poller == Discover \/ StartPass \/ Read \/ ReadFails
Frames == \E c \in Clients : CryptSetup(c) \/ MicFrame(c)

Next == Poller \/ Frames \/ Change \/ Reconnect

Spec == Init /\ [][Next]_vars

\* The bridge repeats its question; the flight loop or the bridge's interval runs
\* on; the server sets the crypt state up; the capture delivers a frame every 20 ms
\* to every client, which gets the lock between two passes: they are 50 ms apart
\* and short.
Fairness ==
  /\ WF_vars(Discover)
  /\ WF_vars(StartPass)
  /\ WF_vars(Read)
  /\ \A c \in Clients : WF_vars(CryptSetup(c)) /\ SF_vars(MicFrame(c))

FairSpec == Spec /\ Fairness

----------------------------------------------------------------------------
(* What must hold.                                                         *)

\* The seat is read before every switch of a seat.
SeatFirst ==
  \A i, j \in DOMAIN order : order[j] = Seat /\ order[i].side # "Any" => j < i

\* r, as last read, is in force.
InForce(r) == Owns(r) /\ seen[r] \notin {Unread, Unknown} => cs[r.field] = seen[r]

\* Whenever a client looks, the plugin's state holds what one single pass read of
\* the switches of the seat that pass found the user in (state.rs owns, lib.rs
\* poll_datarefs): a change of seats never mixes the switches of both, whichever
\* of them were resolved late.  It relies on the seat being polled first.
PassExact == Plugin /\ SeatFirst /\ pos = 0 => \A r \in Resolved : InForce(r)

\* r, as the simulator shows it, is in force.
Followed(r) == Owns(r) /\ sim[r] # Unknown => cs[r.field] = sim[r]

\* Once the cockpit is left alone every dataref that was found is followed, in
\* whatever order they are polled and whichever requests failed, and every client
\* is on the air exactly when its gate is open, its last packet an end otherwise.
AirFollows ==
  <>[](/\ discovered
       /\ \A r \in Resolved : Followed(r)
       /\ \A c \in setup.started : (last[c] = "voice") <=> Gate(c))

=============================================================================
