---------------------------- MODULE ZoneChannels ----------------------------
(***************************************************************************)
(* One VoIP client of the stack and the channel it has to be in.           *)
(*                                                                         *)
(* The client (mumble/voip/session.rs, driven by the select loop of        *)
(* mumble/voip/client.rs) keeps a cache of the server's channels by name,  *)
(* asks the Mumble server over TCP to move it or to create a channel, and  *)
(* learns where it is only from the server's messages.  The ambient        *)
(* (Voice) client follows the cockpit's zone: every 5 s it compares the    *)
(* zone with the one the server last confirmed.  IC, PA and Radio clients  *)
(* have no zone channels and join one fixed channel.                       *)
(*                                                                         *)
(* A zone stands for its channel's name ("<session>_ambient_fbo",          *)
(* "<session>_ambient_aircraft"), so pending_channel, a pair of a name and *)
(* its zone, is a zone.  The two TCP directions are FIFO queues.  The      *)
(* server and the other users are external: temporary channels go when     *)
(* their last user leaves, ids are reused, a name exists once.             *)
(***************************************************************************)
EXTENDS Naturals, Sequences, FiniteSets

CONSTANTS
  Ids,         \* channel ids the server hands out
  Root,        \* id of the root channel, where a client starts
  None,        \* Option::None
  Budget,      \* how often each environment event may happen
  Settled,     \* TRUE: the zone changes only once the last change has settled
  MaxInFlight  \* a zone tick waits while more messages than this are in flight

Zones == {"InFbo", "AroundOrInAircraft"}
Events == {"zone", "occupy", "vacate", "kick", "noise"}

ASSUME ConstantsAssumption ==
  /\ Settled \in BOOLEAN
  /\ Root \notin Ids
  /\ None \notin Ids \cup {Root, "me", "other"} \cup Zones
  /\ Budget \in [Events -> Nat]
  /\ MaxInFlight \in Nat

VARIABLES
  zone,           \* CockpitState.zone, shared with the pollers
  ambient,        \* Session.zone_channels is Some: a Voice client
  target,         \* MumbleVoipClient.target_channel, read from zone at start
  mySession,      \* Session.my_session
  channels,       \* Session.channels, restricted to the zone channels
  channelJoined,  \* Session.channel_joined
  currentZone,    \* Session.current_zone
  pending,        \* Session.pending_channel
  toServer,       \* control packets on their way to the server
  toClient,       \* control packets on their way to the client
  authenticated,  \* the server has handled Authenticate
  srvChannels,    \* the server's zone channels, by name
  loc,            \* id of the channel the server has this client in
  occupied,       \* zone channels some other user is in
  left            \* what is left of Budget

session == <<mySession, channels, channelJoined, currentZone, pending>>
server == <<authenticated, srvChannels, loc, occupied>>
vars == <<zone, ambient, target, session, toServer, toClient, server, left>>

----------------------------------------------------------------------------
(* Messages.                                                               *)

ToServerMsg ==
  [type : {"Authenticate"}]
  \cup [type : {"Context"}]
  \cup [type : {"Move"}, id : Ids]
  \cup [type : {"Create"}, name : Zones]

ToClientMsg ==
  [type : {"ChannelState"}, name : Zones, id : Ids]
  \cup [type : {"ChannelState"}, name : {None}, id : {Root}]
  \cup [type : {"ChannelRemove"}, id : Ids]
  \cup [type : {"UserState"}, session : {"me", "other"}, id : Ids \cup {Root, None}]
  \cup [type : {"ServerSync"}]
  \cup [type : {"PermissionDenied"}]

ChannelState(n, c) == [type |-> "ChannelState", name |-> n, id |-> c]
ChannelRemove(c) == [type |-> "ChannelRemove", id |-> c]
UserState(s, c) == [type |-> "UserState", session |-> s, id |-> c]
Create(n) == [type |-> "Create", name |-> n]
Move(c) == [type |-> "Move", id |-> c]

TypeOK ==
  /\ zone \in Zones
  /\ ambient \in BOOLEAN
  /\ target \in Zones
  /\ mySession \in {None, "me"}
  /\ channels \in [Zones -> Ids \cup {None}]
  /\ channelJoined \in BOOLEAN
  /\ currentZone \in Zones \cup {None}
  /\ pending \in Zones \cup {None}
  /\ toServer \in Seq(ToServerMsg)
  /\ toClient \in Seq(ToClientMsg)
  /\ authenticated \in BOOLEAN
  /\ srvChannels \in [Zones -> Ids \cup {None}]
  /\ loc \in Ids \cup {Root}
  /\ occupied \subseteq Zones
  /\ left \in [Events -> Nat]

----------------------------------------------------------------------------
(* The client.  Each handler consumes the head of toClient and appends its *)
(* packets to toServer.                                                    *)

Receive(type) ==
  /\ toClient # <<>>
  /\ Head(toClient).type = type
  /\ toClient' = Tail(toClient)
  /\ UNCHANGED <<zone, ambient, target, server, left>>

Send(packets) == toServer' = toServer \o packets

\* send_channel_move: without a session nothing is sent.
ChannelMove(c) == IF mySession = None THEN <<>> ELSE <<Move(c)>>

\* The cache after a ChannelState that carries a name and an id.
Learn(n, c) == [channels EXCEPT ![n] = c]

\* Mutant: a removed channel stays in the cache.
ForgetNothing(c) == channels

\* The cache after a ChannelRemove: retain the entries with another id.
Forget(c) == [n \in Zones |-> IF channels[n] = c THEN None ELSE channels[n]]

\* The initial join is due; it is done only once a session is known.
FirstSight(n) == ~channelJoined /\ n = target

RecvChannelState ==
  /\ Receive("ChannelState")
  /\ LET n == Head(toClient).name
         c == Head(toClient).id
     IN  \/ /\ n = None
            /\ UNCHANGED <<session, toServer>>
         \/ /\ n # None
            /\ FirstSight(n) /\ mySession = None
            /\ channels' = Learn(n, c)
            /\ UNCHANGED <<mySession, channelJoined, currentZone, pending, toServer>>
         \/ /\ n # None
            /\ ~(FirstSight(n) /\ mySession = None)
            /\ channels' = Learn(n, c)
            /\ channelJoined' = (channelJoined \/ FirstSight(n))
            /\ pending' = IF pending = n THEN None ELSE pending
            /\ Send((IF FirstSight(n) THEN <<Move(c)>> ELSE <<>>)
                    \o (IF pending = n THEN ChannelMove(c) ELSE <<>>))
            /\ UNCHANGED <<mySession, currentZone>>

RecvChannelRemove ==
  /\ Receive("ChannelRemove")
  /\ channels' = Forget(Head(toClient).id)
  /\ UNCHANGED <<mySession, channelJoined, currentZone, pending, toServer>>

\* Mutant: a missing target channel is not created.
RecvServerSyncJoinOnly ==
  /\ Receive("ServerSync")
  /\ mySession' = "me"
  /\ IF channels[target] # None
       THEN /\ Send(<<[type |-> "Context"], Move(channels[target])>>)
            /\ channelJoined' = TRUE
       ELSE /\ Send(<<[type |-> "Context"]>>)
            /\ UNCHANGED channelJoined
  /\ UNCHANGED <<channels, currentZone, pending>>

RecvServerSync ==
  /\ Receive("ServerSync")
  /\ mySession' = "me"
  /\ LET context == [type |-> "Context"]
     IN  \/ /\ channels[target] # None
            /\ Send(<<context, Move(channels[target])>>)
            /\ channelJoined' = TRUE
         \/ /\ channels[target] = None
            /\ Send(<<context, Create(target)>>)
            /\ UNCHANGED channelJoined
  /\ UNCHANGED <<channels, currentZone, pending>>

\* The zone a channel id stands for in the cache; the FBO channel is tried first.
CachedZone(c) ==
  IF channels["InFbo"] = c THEN "InFbo"
  ELSE IF channels["AroundOrInAircraft"] = c THEN "AroundOrInAircraft"
  ELSE None

\* Mutant: every user's state confirms a zone.
ConfirmAnyone(m) ==
  IF mySession # None /\ m.id # None /\ ambient /\ CachedZone(m.id) # None
  THEN CachedZone(m.id)
  ELSE currentZone

\* on_user_state: only this client's own state, with a channel, confirms a zone.
Confirm(m) ==
  IF /\ mySession # None
     /\ mySession = m.session
     /\ m.id # None
     /\ ambient
     /\ CachedZone(m.id) # None
  THEN CachedZone(m.id)
  ELSE currentZone

RecvUserState ==
  /\ Receive("UserState")
  /\ currentZone' = Confirm(Head(toClient))
  /\ UNCHANGED <<mySession, channels, channelJoined, pending, toServer>>

\* The code waits for the next tick to retry through the cached id.
RecvPermissionDenied ==
  /\ Receive("PermissionDenied")
  /\ UNCHANGED <<session, toServer>>

\* Mutant: the id of the wanted channel is remembered instead of its name.
NextPendingId == IF currentZone = zone THEN pending ELSE channels[zone]

\* Mutant: no retry of the move through the cached id.
RequestsCreateOnly ==
  IF currentZone # zone /\ pending # zone THEN <<Create(zone)>> ELSE <<>>

\* What check_zone_channel leaves in pending_channel and what it sends.
NextPending == IF currentZone = zone THEN pending ELSE zone

Requests ==
  IF currentZone = zone THEN <<>>
  ELSE (IF channels[zone] # None THEN ChannelMove(channels[zone]) ELSE <<>>)
       \o (IF pending # zone THEN <<Create(zone)>> ELSE <<>>)

CheckZoneChannel ==
  /\ ambient
  /\ Len(toServer) + Len(toClient) <= MaxInFlight
  /\ pending' = NextPending
  /\ Send(Requests)
  /\ UNCHANGED <<zone, ambient, target, mySession, channels, channelJoined, currentZone,
                 toClient, server, left>>

----------------------------------------------------------------------------
(* The Mumble server, as far as the client relies on it.                   *)

Used == {srvChannels[n] : n \in Zones} \ {None}
Unused == Ids \ Used

\* Packets reach the client once it is authenticated.
Notify(packets) == toClient' = IF authenticated THEN toClient \o packets ELSE toClient

\* The zone channel that disappears when this client goes from loc to c.
Emptied(c) == {n \in Zones \ occupied : loc # c /\ srvChannels[n] = loc}

\* This client enters channel c: it is told so, then of the emptied channel.
\* created are the packets that announced c, chans the channels with c in them.
Enter(c, created, chans) ==
  /\ loc' = c
  /\ srvChannels' = [n \in Zones |-> IF n \in Emptied(c) THEN None ELSE chans[n]]
  /\ Notify(created \o <<UserState("me", c)>>
            \o (IF Emptied(c) # {} THEN <<ChannelRemove(loc)>> ELSE <<>>))

Handle(type) ==
  /\ toServer # <<>>
  /\ Head(toServer).type = type
  /\ toServer' = Tail(toServer)
  /\ UNCHANGED <<zone, ambient, target, session, occupied, left>>

\* What the server guarantees about its channels.
ServerSane ==
  /\ \A n \in occupied : srvChannels[n] # None
  /\ \A m, n \in Zones : srvChannels[m] = srvChannels[n] /\ srvChannels[m] # None => m = n

\* Part of the snapshot: the channel called n, when there is one.
Listed(n) ==
  IF srvChannels[n] # None THEN <<ChannelState(n, srvChannels[n])>> ELSE <<>>

\* The state of the server is sent before ServerSync, channels in any order.
SrvAuthenticate ==
  /\ Handle("Authenticate")
  /\ authenticated' = TRUE
  /\ \E m, n \in Zones :
       /\ m # n
       /\ toClient' = toClient \o Listed(m) \o Listed(n)
                      \o <<UserState("me", Root), [type |-> "ServerSync"]>>
  /\ UNCHANGED <<srvChannels, loc>>

SrvContext ==
  /\ Handle("Context")
  /\ UNCHANGED <<toClient, authenticated, srvChannels, loc>>

\* A move to a channel that is gone is dropped; one to the channel the client
\* is in already may or may not be echoed.
SrvMove ==
  /\ Handle("Move")
  /\ LET c == Head(toServer).id
     IN  \/ /\ c \in Used
            /\ Enter(c, <<>>, srvChannels)
         \/ /\ c \notin Used \/ c = loc
            /\ UNCHANGED <<toClient, srvChannels, loc>>
  /\ UNCHANGED authenticated

\* A temporary channel is created unless its name exists; the server may put
\* the creator into it.
SrvCreate ==
  /\ Handle("Create")
  /\ LET n == Head(toServer).name
     IN  \/ /\ srvChannels[n] # None
            /\ Notify(<<[type |-> "PermissionDenied"]>>)
            /\ UNCHANGED <<srvChannels, loc>>
         \/ /\ srvChannels[n] = None
            /\ \E c \in Unused :
                 \/ Enter(c, <<ChannelState(n, c)>>, [srvChannels EXCEPT ![n] = c])
                 \/ /\ srvChannels' = [srvChannels EXCEPT ![n] = c]
                    /\ Notify(<<ChannelState(n, c)>>)
                    /\ UNCHANGED loc
  /\ UNCHANGED authenticated

----------------------------------------------------------------------------
(* The environment: the cockpit's zone, the other users, administrators.   *)

Quiet == toServer = <<>> /\ toClient = <<>>

Spend(event) ==
  /\ left[event] > 0
  /\ left' = [left EXCEPT ![event] = @ - 1]
  /\ UNCHANGED <<ambient, target, session, toServer, authenticated>>

\* A new zone value arrives by UDP (CockpitState::update_from_float).
SetZone ==
  /\ Spend("zone")
  /\ Settled => Quiet /\ currentZone = zone
  /\ zone' \in Zones \ {zone}
  /\ UNCHANGED <<toClient, srvChannels, loc, occupied>>

\* Another user enters a zone channel, creating it when it does not exist.
Occupy ==
  /\ Spend("occupy")
  /\ \E n \in Zones \ occupied :
       /\ occupied' = occupied \cup {n}
       /\ \/ /\ srvChannels[n] # None
             /\ Notify(<<UserState("other", srvChannels[n])>>)
             /\ UNCHANGED srvChannels
          \/ /\ srvChannels[n] = None
             /\ \E c \in Unused :
                  /\ srvChannels' = [srvChannels EXCEPT ![n] = c]
                  /\ Notify(<<ChannelState(n, c), UserState("other", c)>>)
  /\ UNCHANGED <<zone, loc>>

\* The last other user leaves a zone channel.
Vacate ==
  /\ Spend("vacate")
  /\ \E n \in occupied :
       /\ occupied' = occupied \ {n}
       /\ \/ /\ srvChannels[n] = loc
             /\ Notify(<<UserState("other", Root)>>)
             /\ UNCHANGED srvChannels
          \/ /\ srvChannels[n] # loc
             /\ srvChannels' = [srvChannels EXCEPT ![n] = None]
             /\ Notify(<<UserState("other", Root), ChannelRemove(srvChannels[n])>>)
  /\ UNCHANGED <<zone, loc>>

\* An administrator moves this client out of its zone channel.
Kick ==
  /\ Spend("kick")
  /\ authenticated
  /\ loc # Root
  /\ Enter(Root, <<>>, srvChannels)
  /\ UNCHANGED <<zone, occupied>>

\* Packets about neither a channel's name nor this client's channel.
Noise ==
  /\ Spend("noise")
  /\ \E m \in {ChannelState(None, Root), UserState("me", None)} : Notify(<<m>>)
  /\ UNCHANGED <<zone, srvChannels, loc, occupied>>

----------------------------------------------------------------------------

Init ==
  /\ zone \in Zones
  /\ ambient \in BOOLEAN
  /\ target = IF ambient THEN zone ELSE "AroundOrInAircraft"
  /\ mySession = None
  /\ channels = [n \in Zones |-> None]
  /\ channelJoined = FALSE
  /\ currentZone = None
  /\ pending = None
  /\ toServer = <<[type |-> "Authenticate"]>>
  /\ toClient = <<>>
  /\ authenticated = FALSE
  /\ occupied \in SUBSET Zones
  /\ srvChannels \in [Zones -> Ids \cup {None}]
  /\ \A n \in Zones : srvChannels[n] # None <=> n \in occupied
  /\ \A m, n \in occupied : srvChannels[m] = srvChannels[n] => m = n
  /\ loc = Root
  /\ left = Budget

Client ==
  \/ RecvChannelState \/ RecvChannelRemove \/ RecvServerSync
  \/ RecvUserState \/ RecvPermissionDenied

Server == SrvAuthenticate \/ SrvContext \/ SrvMove \/ SrvCreate

Environment == SetZone \/ Occupy \/ Vacate \/ Kick \/ Noise

Next == Client \/ CheckZoneChannel \/ Server \/ Environment

Spec == Init /\ [][Next]_vars

\* The select loop serves the control stream and the interval again and again,
\* and the server answers; nothing obliges the environment to act.
Fairness == WF_vars(Client) /\ WF_vars(CheckZoneChannel) /\ WF_vars(Server)

FairSpec == Spec /\ Fairness

----------------------------------------------------------------------------
(* What the client must get right.                                         *)

Announces(m, n) == m.type = "ChannelState" /\ m.name = n

\* The last word on name n is packet i, or the cache entry when i = 0: no later
\* packet announces n, and the id it gives is the server's unless a later packet
\* removes that id.
LastWord(n, cached, packets, actual, i) ==
  LET c == IF i = 0 THEN cached ELSE packets[i].id
      later == (i + 1)..Len(packets)
  IN  /\ i > 0 => Announces(packets[i], n)
      /\ \A j \in later : ~Announces(packets[j], n)
      /\ actual = IF \E j \in later : packets[j] = ChannelRemove(c) THEN None ELSE c

\* A cache entry, corrected by the packets in flight, is the server's entry.
Coherent(n, cached, packets, actual) ==
  \E i \in 0..Len(packets) : LastWord(n, cached, packets, actual, i)

\* The cache (session.rs on_channel_state, on_channel_remove) never diverges
\* from the server's channels.  An announcement overwrites by name and a removal
\* deletes by value, and ids are reused, so the order of the packets matters.
CacheCoherent ==
  authenticated =>
    \A n \in Zones : Coherent(n, channels[n], toClient, srvChannels[n])

\* CacheCoherent with what makes it inductive: before the server has handled
\* Authenticate the client has heard nothing.
CacheInv ==
  /\ ServerSane
  /\ ~authenticated => toClient = <<>> /\ channels = [n \in Zones |-> None]
  /\ CacheCoherent

\* The server's word on where this client is.
Echoes(m) == m.type = "UserState" /\ m.session = "me" /\ m.id # None

\* The zone check stops retrying when current_zone equals the zone, so the zone
\* confirmed from an echoed id through the cache (session.rs on_user_state) must
\* be the one of the channel the server has the client in.  Once the last echo is
\* handled, a client inside a zone channel has confirmed exactly that zone.
ConfirmedZoneIsLocation ==
  /\ ambient
  /\ mySession # None
  /\ \A i \in DOMAIN toClient : ~Echoes(toClient[i])
  => \A n \in Zones : srvChannels[n] = loc => currentZone = n

\* "Retries on every tick until the server confirms the move via UserState -- no
\* silent failure, unlimited retry" (session.rs, doc of check_zone_channel): with
\* nothing in flight and the zone not confirmed, the next tick sends a request.
NoSilentStall ==
  ambient /\ authenticated /\ Quiet /\ currentZone # zone => Requests # <<>>

\* Zone changes have waited for the last one to settle, no other user has left a zone
\* channel and no administrator has moved this client.
Undisturbed == Settled /\ \A e \in {"vacate", "kick"} : left[e] = Budget[e]

\* The same promise, as far as the code keeps it, and about where the client really is:
\* as long as nothing of this kind has happened, the next tick of a client that is not
\* in its zone's channel asks the server for something (session.rs check_zone_channel),
\* whoever joins, whoever creates a channel first, and whatever was denied before.
RetriesGoOn ==
  Undisturbed /\ ambient /\ authenticated /\ Quiet /\ srvChannels[zone] # loc
    => Requests # <<>>

\* In a run that is never disturbed in this sense, a zone that no longer changes is
\* confirmed, and the server keeps the client in its channel (session.rs
\* check_zone_channel, on_channel_state, on_user_state): whether the channel was there,
\* is created by the client or, before its creation is handled and so denied, by another
\* user.  A departure of others, a kick or a zone change on top of another may end the
\* retries for good, as NoSilentStall shows, and nothing is claimed of such runs.
ZoneFollowed ==
  \A z \in Zones :
    <>[](Undisturbed /\ ambient /\ zone = z)
      => <>[](currentZone = z /\ srvChannels[z] = loc)

\* "PA (Public Address) Client -- always in the aircraft channel" (stack.rs): a
\* client with a fixed channel joins it, be it there, created or just announced,
\* and stays, as long as no other user leaves it.
TargetJoined == <>[](~ambient => srvChannels[target] = loc)

=============================================================================
