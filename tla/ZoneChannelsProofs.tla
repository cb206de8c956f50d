------------------------- MODULE ZoneChannelsProofs -------------------------
(***************************************************************************)
(* Theorems about ZoneChannels, for every set of channel ids, every budget *)
(* of environment events and every bound on the packets in flight.         *)
(***************************************************************************)
EXTENDS ZoneChannels, SequenceTheorems, TLAPS

USE ConstantsAssumption DEF Zones, Events

----------------------------------------------------------------------------
(* What the handlers append is a sequence of packets.                      *)

\* Packets built by the constructors are packets of the right direction.
LEMMA PacketTypes ==
  /\ \A n \in Zones, c \in Ids : ChannelState(n, c) \in ToClientMsg
  /\ ChannelState(None, Root) \in ToClientMsg
  /\ \A c \in Ids : ChannelRemove(c) \in ToClientMsg
  /\ \A s \in {"me", "other"}, c \in Ids \cup {Root, None} : UserState(s, c) \in ToClientMsg
  /\ [type |-> "ServerSync"] \in ToClientMsg
  /\ [type |-> "PermissionDenied"] \in ToClientMsg
  /\ \A n \in Zones : Create(n) \in ToServerMsg
  /\ \A c \in Ids : Move(c) \in ToServerMsg
  /\ [type |-> "Context"] \in ToServerMsg
  /\ [type |-> "Authenticate"] \in ToServerMsg
BY DEF ToClientMsg, ToServerMsg, ChannelState, ChannelRemove, UserState, Create, Move

\* The packet a handler consumes has the fields its type promises.
LEMMA ReceivedFields ==
  ASSUME NEW m \in ToClientMsg
  PROVE  /\ m.type = "ChannelState" => m.name = None \/ (m.name \in Zones /\ m.id \in Ids)
         /\ m.type = "ChannelRemove" => m.id \in Ids
         /\ m.type = "UserState" => m.session \in {"me", "other"}
                                    /\ m.id \in Ids \cup {Root, None}
BY DEF ToClientMsg

LEMMA HandledFields ==
  ASSUME NEW m \in ToServerMsg
  PROVE  /\ m.type = "Move" => m.id \in Ids
         /\ m.type = "Create" => m.name \in Zones
BY DEF ToServerMsg

----------------------------------------------------------------------------
(* Type correctness.                                                       *)

LEMMA TypeInit == Init => TypeOK
<1> SUFFICES ASSUME Init
             PROVE  TypeOK
  OBVIOUS
<1>1. toServer \in Seq(ToServerMsg) /\ toClient \in Seq(ToClientMsg)
  BY PacketTypes DEF Init
<1>2. left \in [Events -> Nat]
  BY DEF Init
<1>3. target \in Zones /\ channels \in [Zones -> Ids \cup {None}]
  BY DEF Init
<1> QED
  BY <1>1, <1>2, <1>3 DEF Init, TypeOK

\* A handler of the client: what is left of its queue is well typed.
LEMMA TypeReceive ==
  ASSUME TypeOK, NEW type, Receive(type)
  PROVE  /\ Head(toClient) \in ToClientMsg
         /\ Head(toClient).type = type
         /\ toClient' \in Seq(ToClientMsg)
         /\ zone' \in Zones /\ ambient' \in BOOLEAN /\ target' \in Zones
         /\ authenticated' \in BOOLEAN
         /\ srvChannels' \in [Zones -> Ids \cup {None}]
         /\ loc' \in Ids \cup {Root}
         /\ occupied' \subseteq Zones
         /\ left' \in [Events -> Nat]
BY HeadTailProperties DEF TypeOK, Receive, server

LEMMA TypeChannelMove ==
  ASSUME TypeOK, NEW c \in Ids
  PROVE  ChannelMove(c) \in Seq(ToServerMsg)
BY PacketTypes DEF TypeOK, ChannelMove

LEMMA TypeSend ==
  ASSUME TypeOK, NEW packets \in Seq(ToServerMsg), Send(packets)
  PROVE  toServer' \in Seq(ToServerMsg)
BY ConcatProperties DEF TypeOK, Send

LEMMA TypeClient == TypeOK /\ Client => TypeOK'
<1> SUFFICES ASSUME TypeOK, Client
             PROVE  TypeOK'
  OBVIOUS
<1>1. CASE RecvChannelState
  <2> DEFINE m == Head(toClient)
  <2>1. m \in ToClientMsg /\ m.type = "ChannelState"
    BY <1>1, TypeReceive DEF RecvChannelState
  <2>2. m.name = None \/ (m.name \in Zones /\ m.id \in Ids)
    BY <2>1, ReceivedFields
  <2>3. ASSUME m.name # None
        PROVE  /\ Learn(m.name, m.id) \in [Zones -> Ids \cup {None}]
               /\ ChannelMove(m.id) \in Seq(ToServerMsg)
               /\ Move(m.id) \in ToServerMsg
    BY <2>2, <2>3, TypeChannelMove, PacketTypes DEF TypeOK, Learn
  <2>4. CASE m.name = None
    BY <1>1, <2>4, TypeReceive DEF RecvChannelState, TypeOK, session
  <2>5. CASE m.name # None
    <3>1. mySession' = mySession /\ currentZone' = currentZone
          /\ channels' = Learn(m.name, m.id)
      BY <1>1, <2>5 DEF RecvChannelState, session
    <3>2. channelJoined' \in BOOLEAN /\ pending' \in Zones \cup {None}
      BY <1>1, <2>5 DEF RecvChannelState, FirstSight, TypeOK
    <3>3. toServer' \in Seq(ToServerMsg)
      <4> DEFINE join == IF FirstSight(m.name) THEN <<Move(m.id)>> ELSE <<>>
                 move == IF pending = m.name THEN ChannelMove(m.id) ELSE <<>>
      <4>1. toServer' = toServer \/ Send(join \o move)
        BY <1>1, <2>5 DEF RecvChannelState
      <4>2. join \in Seq(ToServerMsg) /\ move \in Seq(ToServerMsg)
        BY <2>3, <2>5
      <4>3. join \o move \in Seq(ToServerMsg)
        BY <4>2, ConcatProperties
      <4> QED  BY <4>1, <4>3, TypeSend DEF TypeOK
    <3> QED
      BY <1>1, <2>5, <2>3, <3>1, <3>2, <3>3, TypeReceive DEF RecvChannelState, TypeOK
  <2> QED  BY <2>4, <2>5
<1>2. CASE RecvChannelRemove
  BY <1>2, TypeReceive DEF RecvChannelRemove, Forget, TypeOK
<1>3. CASE RecvServerSync
  <2>1. toServer' \in Seq(ToServerMsg)
    <3>1. CASE channels[target] # None
      <4>1. Send(<<[type |-> "Context"], Move(channels[target])>>)
        BY <1>3, <3>1 DEF RecvServerSync
      <4>2. <<[type |-> "Context"], Move(channels[target])>> \in Seq(ToServerMsg)
        BY <3>1, PacketTypes DEF TypeOK
      <4> QED  BY <4>1, <4>2, TypeSend
    <3>2. CASE channels[target] = None
      <4>1. Send(<<[type |-> "Context"], Create(target)>>)
        BY <1>3, <3>2 DEF RecvServerSync
      <4>2. <<[type |-> "Context"], Create(target)>> \in Seq(ToServerMsg)
        BY <3>2, PacketTypes DEF TypeOK
      <4> QED  BY <4>1, <4>2, TypeSend
    <3> QED  BY <3>1, <3>2
  <2> QED
    BY <1>3, <2>1, TypeReceive DEF RecvServerSync, TypeOK
<1>4. CASE RecvUserState
  BY <1>4, TypeReceive DEF RecvUserState, Confirm, CachedZone, TypeOK
<1>5. CASE RecvPermissionDenied
  BY <1>5, TypeReceive DEF RecvPermissionDenied, TypeOK, session
<1> QED
  BY <1>1, <1>2, <1>3, <1>4, <1>5 DEF Client

LEMMA TypeCheck == TypeOK /\ CheckZoneChannel => TypeOK'
<1> SUFFICES ASSUME TypeOK, CheckZoneChannel
             PROVE  TypeOK'
  OBVIOUS
<1>1. Requests \in Seq(ToServerMsg)
  BY TypeChannelMove, PacketTypes, ConcatProperties DEF Requests, TypeOK
<1>2. toServer' \in Seq(ToServerMsg)
  BY <1>1, TypeSend DEF CheckZoneChannel
<1> QED
  BY <1>2 DEF CheckZoneChannel, NextPending, TypeOK, server

\* The packets of a move into channel c.
LEMMA TypeEnter ==
  ASSUME TypeOK, NEW c \in Ids \cup {Root}, NEW created \in Seq(ToClientMsg),
         NEW chans \in [Zones -> Ids \cup {None}], Enter(c, created, chans)
  PROVE  /\ toClient' \in Seq(ToClientMsg)
         /\ loc' \in Ids \cup {Root}
         /\ srvChannels' \in [Zones -> Ids \cup {None}]
<1> DEFINE gone == IF Emptied(c) # {} THEN <<ChannelRemove(loc)>> ELSE <<>>
<1>1. Emptied(c) # {} => loc \in Ids
  BY DEF Emptied, TypeOK
<1>2. gone \in Seq(ToClientMsg) /\ <<UserState("me", c)>> \in Seq(ToClientMsg)
  BY <1>1, PacketTypes
<1>3. created \o <<UserState("me", c)>> \o gone \in Seq(ToClientMsg)
  BY <1>2, ConcatProperties
<1>4. toClient' \in Seq(ToClientMsg)
  BY <1>3, ConcatProperties DEF Enter, Notify, TypeOK
<1> QED
  BY <1>4 DEF Enter

LEMMA TypeNotify ==
  ASSUME TypeOK, NEW packets \in Seq(ToClientMsg), Notify(packets)
  PROVE  toClient' \in Seq(ToClientMsg)
BY ConcatProperties DEF TypeOK, Notify

\* TypeOK in two parts: what the server and the environment leave alone, and
\* the queues, the zone and the server.
ClientTyped ==
  /\ ambient \in BOOLEAN
  /\ target \in Zones
  /\ mySession \in {None, "me"}
  /\ channels \in [Zones -> Ids \cup {None}]
  /\ channelJoined \in BOOLEAN
  /\ currentZone \in Zones \cup {None}
  /\ pending \in Zones \cup {None}

WorldTyped ==
  /\ zone \in Zones
  /\ toServer \in Seq(ToServerMsg)
  /\ toClient \in Seq(ToClientMsg)
  /\ authenticated \in BOOLEAN
  /\ srvChannels \in [Zones -> Ids \cup {None}]
  /\ loc \in Ids \cup {Root}
  /\ occupied \subseteq Zones
  /\ left \in [Events -> Nat]

LEMMA TypeParts == TypeOK => ClientTyped /\ WorldTyped
BY DEF TypeOK, ClientTyped, WorldTyped

LEMMA TypeWhole == ClientTyped' /\ WorldTyped' => TypeOK'
BY DEF TypeOK, ClientTyped, WorldTyped

\* A handler of the server: what is left of its queue is well typed.
LEMMA TypeHandle ==
  ASSUME TypeOK, NEW type, Handle(type)
  PROVE  /\ Head(toServer) \in ToServerMsg
         /\ Head(toServer).type = type
         /\ toServer' \in Seq(ToServerMsg)
         /\ ClientTyped'
         /\ zone' \in Zones /\ occupied' \subseteq Zones /\ left' \in [Events -> Nat]
<1>1. /\ Head(toServer) \in ToServerMsg
      /\ Head(toServer).type = type
      /\ toServer' \in Seq(ToServerMsg)
  BY HeadTailProperties DEF TypeOK, Handle
<1>2. UNCHANGED <<zone, ambient, target, mySession, channels, channelJoined, currentZone,
                  pending, occupied, left>>
  BY DEF Handle, session
<1>3. ClientTyped'
  BY <1>2, TypeParts DEF ClientTyped
<1>4. zone' \in Zones /\ occupied' \subseteq Zones /\ left' \in [Events -> Nat]
  BY <1>2, TypeParts DEF WorldTyped
<1> QED
  BY <1>1, <1>3, <1>4

\* The rest of what a handler of the server has to keep.
LEMMA TypeHandled ==
  ASSUME TypeOK, NEW type, Handle(type), toClient' \in Seq(ToClientMsg),
         authenticated' \in BOOLEAN, srvChannels' \in [Zones -> Ids \cup {None}],
         loc' \in Ids \cup {Root}
  PROVE  TypeOK'
<1>1. WorldTyped'
  BY TypeHandle DEF WorldTyped
<1> QED
  BY <1>1, TypeHandle, TypeWhole

LEMMA TypeServer == TypeOK /\ Server => TypeOK'
<1> SUFFICES ASSUME TypeOK, Server
             PROVE  TypeOK'
  OBVIOUS
<1>1. CASE SrvAuthenticate
  <2>1. PICK m, n \in Zones :
          toClient' = toClient \o Listed(m) \o Listed(n)
                      \o <<UserState("me", Root), [type |-> "ServerSync"]>>
    BY <1>1 DEF SrvAuthenticate
  <2>2. \A z \in Zones : Listed(z) \in Seq(ToClientMsg)
    BY PacketTypes DEF Listed, TypeOK
  <2>3. <<UserState("me", Root), [type |-> "ServerSync"]>> \in Seq(ToClientMsg)
    BY PacketTypes
  <2>4. toClient' \in Seq(ToClientMsg)
    BY <2>1, <2>2, <2>3, ConcatProperties DEF TypeOK
  <2>5. /\ authenticated' \in BOOLEAN
        /\ srvChannels' \in [Zones -> Ids \cup {None}]
        /\ loc' \in Ids \cup {Root}
        /\ Handle("Authenticate")
    BY <1>1, TypeParts DEF SrvAuthenticate, WorldTyped
  <2> QED  BY <2>4, <2>5, TypeHandled
<1>2. CASE SrvContext
  <2>1. /\ toClient' \in Seq(ToClientMsg)
        /\ authenticated' \in BOOLEAN
        /\ srvChannels' \in [Zones -> Ids \cup {None}]
        /\ loc' \in Ids \cup {Root}
        /\ Handle("Context")
    BY <1>2, TypeParts DEF SrvContext, WorldTyped
  <2> QED  BY <2>1, TypeHandled
<1>3. CASE SrvMove
  <2> DEFINE c == Head(toServer).id
  <2>0. Handle("Move") /\ authenticated' \in BOOLEAN
    BY <1>3, TypeParts DEF SrvMove, WorldTyped
  <2>1. c \in Ids
    BY <2>0, TypeHandle, HandledFields
  <2>2. CASE Enter(c, <<>>, srvChannels)
    <3>1. <<>> \in Seq(ToClientMsg)
      OBVIOUS
    <3>2. srvChannels \in [Zones -> Ids \cup {None}]
      BY TypeParts DEF WorldTyped
    <3>3. /\ toClient' \in Seq(ToClientMsg)
          /\ loc' \in Ids \cup {Root}
          /\ srvChannels' \in [Zones -> Ids \cup {None}]
      BY <2>1, <2>2, <3>1, <3>2, TypeEnter
    <3> QED  BY <2>0, <3>3, TypeHandled
  <2>3. CASE UNCHANGED <<toClient, srvChannels, loc>>
    <3>1. /\ toClient' \in Seq(ToClientMsg)
          /\ loc' \in Ids \cup {Root}
          /\ srvChannels' \in [Zones -> Ids \cup {None}]
      BY <2>3, TypeParts DEF WorldTyped
    <3> QED  BY <2>0, <3>1, TypeHandled
  <2> QED  BY <1>3, <2>2, <2>3 DEF SrvMove
<1>4. CASE SrvCreate
  <2> DEFINE n == Head(toServer).name
  <2>0. Handle("Create") /\ authenticated' \in BOOLEAN
    BY <1>4, TypeParts DEF SrvCreate, WorldTyped
  <2>1. n \in Zones
    BY <2>0, TypeHandle, HandledFields
  <2>2. CASE /\ Notify(<<[type |-> "PermissionDenied"]>>)
             /\ UNCHANGED <<srvChannels, loc>>
    <3>1. <<[type |-> "PermissionDenied"]>> \in Seq(ToClientMsg)
      BY PacketTypes
    <3>2. toClient' \in Seq(ToClientMsg)
      BY <2>2, <3>1, TypeNotify
    <3>3. srvChannels' \in [Zones -> Ids \cup {None}] /\ loc' \in Ids \cup {Root}
      BY <2>2, TypeParts DEF WorldTyped
    <3> QED  BY <2>0, <3>2, <3>3, TypeHandled
  <2>3. ASSUME NEW c \in Unused,
               Enter(c, <<ChannelState(n, c)>>, [srvChannels EXCEPT ![n] = c])
        PROVE  TypeOK'
    <3>1. <<ChannelState(n, c)>> \in Seq(ToClientMsg) /\ c \in Ids
      BY <2>1, PacketTypes DEF Unused
    <3>2. [srvChannels EXCEPT ![n] = c] \in [Zones -> Ids \cup {None}]
      BY <2>1, <3>1 DEF TypeOK
    <3>3. /\ toClient' \in Seq(ToClientMsg)
          /\ loc' \in Ids \cup {Root}
          /\ srvChannels' \in [Zones -> Ids \cup {None}]
      BY <2>3, <3>1, <3>2, TypeEnter
    <3> QED  BY <2>0, <3>3, TypeHandled
  <2>4. ASSUME NEW c \in Unused,
               srvChannels' = [srvChannels EXCEPT ![n] = c],
               Notify(<<ChannelState(n, c)>>), UNCHANGED loc
        PROVE  TypeOK'
    <3>1. <<ChannelState(n, c)>> \in Seq(ToClientMsg) /\ c \in Ids
      BY <2>1, PacketTypes DEF Unused
    <3>2. toClient' \in Seq(ToClientMsg)
      BY <2>4, <3>1, TypeNotify
    <3>3. srvChannels' \in [Zones -> Ids \cup {None}] /\ loc' \in Ids \cup {Root}
      BY <2>1, <2>4, <3>1, TypeParts DEF WorldTyped
    <3> QED  BY <2>0, <3>2, <3>3, TypeHandled
  <2> QED  BY <1>4, <2>2, <2>3, <2>4 DEF SrvCreate
<1> QED
  BY <1>1, <1>2, <1>3, <1>4 DEF Server

LEMMA TypeSpend ==
  ASSUME TypeOK, NEW event \in Events, Spend(event)
  PROVE  /\ left' \in [Events -> Nat]
         /\ ClientTyped'
         /\ toServer' \in Seq(ToServerMsg) /\ authenticated' \in BOOLEAN
<1>1. UNCHANGED <<ambient, target, mySession, channels, channelJoined, currentZone, pending,
                  toServer, authenticated>>
  BY DEF Spend, session
<1>2. ClientTyped'
  BY <1>1, TypeParts DEF ClientTyped
<1>3. toServer' \in Seq(ToServerMsg) /\ authenticated' \in BOOLEAN
  BY <1>1, TypeParts DEF WorldTyped
<1>4. left' \in [Events -> Nat]
  BY TypeParts, SMTT(30) DEF Spend, WorldTyped
<1> QED
  BY <1>2, <1>3, <1>4

\* The rest of what an event of the environment has to keep.
LEMMA TypeSpent ==
  ASSUME TypeOK, NEW event \in Events, Spend(event), zone' \in Zones,
         toClient' \in Seq(ToClientMsg), srvChannels' \in [Zones -> Ids \cup {None}],
         loc' \in Ids \cup {Root}, occupied' \subseteq Zones
  PROVE  TypeOK'
<1>1. WorldTyped'
  BY TypeSpend DEF WorldTyped
<1> QED
  BY <1>1, TypeSpend, TypeWhole

LEMMA TypeEnvironment == TypeOK /\ ServerSane /\ Environment => TypeOK'
<1> SUFFICES ASSUME TypeOK, ServerSane, Environment
             PROVE  TypeOK'
  OBVIOUS
<1>0. \A c \in Ids \cup {Root}, s \in {"me", "other"} :
        <<UserState(s, c)>> \in Seq(ToClientMsg)
  BY PacketTypes
<1>1. CASE SetZone
  <2>1. /\ zone' \in Zones
        /\ toClient' \in Seq(ToClientMsg)
        /\ srvChannels' \in [Zones -> Ids \cup {None}]
        /\ loc' \in Ids \cup {Root}
        /\ occupied' \subseteq Zones
        /\ Spend("zone")
    BY <1>1, TypeParts DEF SetZone, WorldTyped
  <2> QED  BY <2>1, TypeSpent
<1>2. CASE Occupy
  <2>1. PICK n \in Zones \ occupied :
          /\ occupied' = occupied \cup {n}
          /\ \/ /\ srvChannels[n] # None
                /\ Notify(<<UserState("other", srvChannels[n])>>)
                /\ UNCHANGED srvChannels
             \/ /\ srvChannels[n] = None
                /\ \E c \in Unused :
                     /\ srvChannels' = [srvChannels EXCEPT ![n] = c]
                     /\ Notify(<<ChannelState(n, c), UserState("other", c)>>)
    BY <1>2 DEF Occupy
  <2>2. toClient' \in Seq(ToClientMsg) /\ srvChannels' \in [Zones -> Ids \cup {None}]
    <3>1. CASE srvChannels[n] # None
      BY <2>1, <3>1, <1>0, TypeNotify DEF TypeOK
    <3>2. CASE srvChannels[n] = None
      <4>1. PICK c \in Unused : /\ srvChannels' = [srvChannels EXCEPT ![n] = c]
                                /\ Notify(<<ChannelState(n, c), UserState("other", c)>>)
        BY <2>1, <3>2
      <4>2. <<ChannelState(n, c), UserState("other", c)>> \in Seq(ToClientMsg)
        BY PacketTypes DEF Unused
      <4> QED  BY <4>1, <4>2, TypeNotify DEF TypeOK, Unused
    <3> QED  BY <3>1, <3>2
  <2>3. /\ zone' \in Zones
        /\ loc' \in Ids \cup {Root}
        /\ occupied' \subseteq Zones
        /\ Spend("occupy")
    BY <1>2, <2>1, TypeParts DEF Occupy, WorldTyped
  <2> QED  BY <2>2, <2>3, TypeSpent
<1>3. CASE Vacate
  <2>1. PICK n \in occupied :
          /\ occupied' = occupied \ {n}
          /\ \/ /\ srvChannels[n] = loc
                /\ Notify(<<UserState("other", Root)>>)
                /\ UNCHANGED srvChannels
             \/ /\ srvChannels[n] # loc
                /\ srvChannels[n] # None
                /\ srvChannels' = [srvChannels EXCEPT ![n] = None]
                /\ Notify(<<UserState("other", Root), ChannelRemove(srvChannels[n])>>)
    BY <1>3 DEF Vacate, ServerSane
  <2>2. n \in Zones
    BY DEF TypeOK
  <2>3. toClient' \in Seq(ToClientMsg)
    <3>1. CASE srvChannels[n] = None
      BY <2>1, <2>2, <3>1, <1>0, TypeNotify DEF TypeOK
    <3>2. CASE srvChannels[n] # None
      <4>1. <<UserState("other", Root), ChannelRemove(srvChannels[n])>> \in Seq(ToClientMsg)
        BY <2>2, <3>2, PacketTypes DEF TypeOK
      <4> QED  BY <2>1, <4>1, <1>0, TypeNotify
    <3> QED  BY <3>1, <3>2
  <2>4. /\ srvChannels' \in [Zones -> Ids \cup {None}]
        /\ occupied' \subseteq Zones
    <3>1. srvChannels' = srvChannels \/ srvChannels' = [srvChannels EXCEPT ![n] = None]
      BY <2>1
    <3>2. srvChannels' \in [Zones -> Ids \cup {None}]
      BY <2>2, <3>1 DEF TypeOK
    <3>3. occupied' \subseteq Zones
      BY <2>1 DEF TypeOK
    <3> QED  BY <3>2, <3>3
  <2>5. zone' \in Zones /\ loc' \in Ids \cup {Root} /\ Spend("vacate")
    BY <1>3, TypeParts DEF Vacate, WorldTyped
  <2> QED  BY <2>3, <2>4, <2>5, TypeSpent
<1>4. CASE Kick
  <2>1. <<>> \in Seq(ToClientMsg) /\ srvChannels \in [Zones -> Ids \cup {None}]
    BY DEF TypeOK
  <2>2. Enter(Root, <<>>, srvChannels) /\ Spend("kick") /\ zone' \in Zones /\ occupied' \subseteq Zones
    BY <1>4, TypeParts DEF Kick, WorldTyped
  <2>3. /\ toClient' \in Seq(ToClientMsg)
        /\ loc' \in Ids \cup {Root}
        /\ srvChannels' \in [Zones -> Ids \cup {None}]
    BY <2>1, <2>2, TypeEnter
  <2> QED  BY <2>2, <2>3, TypeSpent
<1>5. CASE Noise
  <2>1. \A m \in {ChannelState(None, Root), UserState("me", None)} :
          <<m>> \in Seq(ToClientMsg)
    BY PacketTypes
  <2>2. toClient' \in Seq(ToClientMsg)
    BY <1>5, <2>1, TypeNotify DEF Noise
  <2>3. /\ zone' \in Zones
        /\ srvChannels' \in [Zones -> Ids \cup {None}]
        /\ loc' \in Ids \cup {Root}
        /\ occupied' \subseteq Zones
        /\ Spend("noise")
    BY <1>5, TypeParts DEF Noise, WorldTyped
  <2> QED  BY <2>2, <2>3, TypeSpent
<1> QED
  BY <1>1, <1>2, <1>3, <1>4, <1>5 DEF Environment

----------------------------------------------------------------------------
(* The server's channels.                                                  *)

LEMMA SaneInit == Init => ServerSane
BY DEF Init, ServerSane

\* Entering a channel that is on the list, after adding it if it was created.
LEMMA SaneEnter ==
  ASSUME TypeOK, NEW c, NEW created, NEW chans \in [Zones -> Ids \cup {None}],
         \A n \in occupied : chans[n] # None,
         \A m, n \in Zones : chans[m] = chans[n] /\ chans[m] # None => m = n,
         occupied' = occupied, Enter(c, created, chans)
  PROVE  ServerSane'
BY DEF ServerSane, Enter, Emptied, TypeOK

LEMMA SaneNext == TypeOK /\ ServerSane /\ [Next]_vars => ServerSane'
<1> SUFFICES ASSUME TypeOK, ServerSane, [Next]_vars
             PROVE  ServerSane'
  OBVIOUS
<1>0. srvChannels \in [Zones -> Ids \cup {None}] /\ occupied \subseteq Zones
  BY DEF TypeOK
<1>1. CASE Client
  BY <1>1 DEF Client, RecvChannelState, RecvChannelRemove, RecvServerSync, RecvUserState,
              RecvPermissionDenied, Receive, server, ServerSane
<1>2. CASE CheckZoneChannel \/ UNCHANGED vars
  BY <1>2 DEF CheckZoneChannel, server, vars, ServerSane
<1>3. CASE SrvAuthenticate \/ SrvContext
  BY <1>3 DEF SrvAuthenticate, SrvContext, Handle, ServerSane
<1>4. CASE SrvMove
  BY <1>4, <1>0, SaneEnter DEF SrvMove, Handle, ServerSane
<1>5. CASE SrvCreate
  <2> DEFINE n == Head(toServer).name
  <2>1. occupied' = occupied
    BY <1>5 DEF SrvCreate, Handle
  <2>2. CASE UNCHANGED srvChannels
    BY <2>1, <2>2 DEF ServerSane
  <2>3. ASSUME NEW c \in Unused, srvChannels[n] = None
        PROVE  LET chans == [srvChannels EXCEPT ![n] = c]
               IN  /\ chans \in [Zones -> Ids \cup {None}]
                   /\ \A z \in occupied : chans[z] # None
                   /\ \A y, z \in Zones : chans[y] = chans[z] /\ chans[y] # None => y = z
    BY <1>0, <2>3 DEF Unused, Used, ServerSane
  <2>4. ASSUME NEW c \in Unused, srvChannels[n] = None,
               Enter(c, <<ChannelState(n, c)>>, [srvChannels EXCEPT ![n] = c])
        PROVE  ServerSane'
    <3> DEFINE chans == [srvChannels EXCEPT ![n] = c]
    <3>1. /\ chans \in [Zones -> Ids \cup {None}]
          /\ \A z \in occupied : chans[z] # None
          /\ \A y, z \in Zones : chans[y] = chans[z] /\ chans[y] # None => y = z
      BY <2>3, <2>4
    <3>2. Enter(c, <<ChannelState(n, c)>>, chans)
      BY <2>4
    <3> HIDE DEF chans
    <3> QED  BY <2>1, <3>1, <3>2, SaneEnter
  <2>5. ASSUME NEW c \in Unused, srvChannels[n] = None,
               srvChannels' = [srvChannels EXCEPT ![n] = c]
        PROVE  ServerSane'
    BY <2>1, <2>3, <2>5 DEF ServerSane
  <2> QED  BY <1>5, <2>2, <2>4, <2>5 DEF SrvCreate
<1>6. CASE SetZone \/ Noise
  BY <1>6 DEF SetZone, Noise, ServerSane
<1>7. CASE Occupy
  <2>1. PICK n \in Zones \ occupied :
          /\ occupied' = occupied \cup {n}
          /\ \/ srvChannels[n] # None /\ UNCHANGED srvChannels
             \/ \E c \in Unused : srvChannels' = [srvChannels EXCEPT ![n] = c]
    BY <1>7 DEF Occupy
  <2>2. CASE srvChannels[n] # None /\ UNCHANGED srvChannels
    BY <2>1, <2>2 DEF ServerSane
  <2>3. ASSUME NEW c \in Unused, srvChannels' = [srvChannels EXCEPT ![n] = c]
        PROVE  ServerSane'
    <3>1. c # None /\ \A z \in Zones : srvChannels[z] # c
      BY <2>3 DEF Unused, Used
    <3> QED  BY <1>0, <2>1, <2>3, <3>1 DEF ServerSane
  <2> QED  BY <2>1, <2>2, <2>3
<1>8. CASE Vacate
  BY <1>8, <1>0 DEF Vacate, ServerSane
<1>9. CASE Kick
  BY <1>9, <1>0, SaneEnter DEF Kick, ServerSane
<1> QED
  BY <1>1, <1>2, <1>3, <1>4, <1>5, <1>6, <1>7, <1>8, <1>9 DEF Next, Server, Environment

\* Every variable keeps its type, whatever the packets in flight.
THEOREM TypeCorrect == Spec => []TypeOK
<1>1. Init => TypeOK /\ ServerSane
  BY TypeInit, SaneInit
<1>2. TypeOK /\ ServerSane /\ [Next]_vars => (TypeOK /\ ServerSane)'
  <2>1. TypeOK /\ UNCHANGED vars => TypeOK'
    BY DEF TypeOK, vars, session, server
  <2> QED
    BY <2>1, TypeClient, TypeCheck, TypeServer, TypeEnvironment, SaneNext DEF Next
<1> QED
  BY <1>1, <1>2, PTL DEF Spec

----------------------------------------------------------------------------
(* Coherence of one name under the two ends of the queue.                  *)

\* Packets that neither announce the name nor remove its id change nothing.
LEMMA AppendSilent ==
  ASSUME NEW n \in Zones, NEW cached, NEW actual,
         NEW packets \in Seq(ToClientMsg), NEW more \in Seq(ToClientMsg),
         Coherent(n, cached, packets, actual),
         \A j \in 1..Len(more) : ~Announces(more[j], n) /\ more[j] # ChannelRemove(actual)
  PROVE  Coherent(n, cached, packets \o more, actual)
<1> DEFINE q == packets \o more
<1>1. /\ Len(q) = Len(packets) + Len(more)
      /\ \A j \in 1..Len(packets) : q[j] = packets[j]
      /\ \A j \in Len(packets) + 1 .. Len(q) :
           j - Len(packets) \in 1..Len(more) /\ q[j] = more[j - Len(packets)]
  BY ConcatProperties
<1>2. Len(packets) \in Nat /\ Len(more) \in Nat
  OBVIOUS
<1>3. PICK i \in 0..Len(packets) : LastWord(n, cached, packets, actual, i)
  BY DEF Coherent
<1> DEFINE c == IF i = 0 THEN cached ELSE packets[i].id
<1>4. \A j \in i + 1 .. Len(q) : ~Announces(q[j], n)
  BY <1>1, <1>2, <1>3 DEF LastWord
<1>5. (\E j \in i + 1 .. Len(packets) : packets[j] = ChannelRemove(c))
        => \E j \in i + 1 .. Len(q) : q[j] = ChannelRemove(c)
  BY <1>1, <1>2, SMTT(30)
<1>6. (\E j \in i + 1 .. Len(q) : q[j] = ChannelRemove(c))
        => (\E j \in i + 1 .. Len(packets) : packets[j] = ChannelRemove(c)) \/ actual # c
  BY <1>1, <1>2, SMTT(30)
<1>7. actual = IF \E j \in i + 1 .. Len(packets) : packets[j] = ChannelRemove(c)
               THEN None ELSE c
  BY <1>3 DEF LastWord
<1>8. actual = IF \E j \in i + 1 .. Len(q) : q[j] = ChannelRemove(c) THEN None ELSE c
  BY <1>5, <1>6, <1>7
<1>9. i > 0 => Announces(q[i], n) /\ q[i].id = packets[i].id
  BY <1>1, <1>3 DEF LastWord
<1>10. LastWord(n, cached, q, actual, i)
  BY <1>4, <1>8, <1>9 DEF LastWord
<1> QED
  BY <1>1, <1>2, <1>10 DEF Coherent

\* The last packet about the name is an announcement.
LEMMA AppendAnnounced ==
  ASSUME NEW n \in Zones, NEW cached,
         NEW packets \in Seq(ToClientMsg), NEW more \in Seq(ToClientMsg),
         NEW k \in 1..Len(more), Announces(more[k], n),
         \A j \in k + 1 .. Len(more) : ~Announces(more[j], n)
                                       /\ more[j] # ChannelRemove(more[k].id)
  PROVE  Coherent(n, cached, packets \o more, more[k].id)
<1> DEFINE q == packets \o more
           i == Len(packets) + k
<1>1. Len(packets) \in Nat /\ Len(more) \in Nat
  OBVIOUS
<1>2. /\ Len(q) = Len(packets) + Len(more)
      /\ \A j \in 1 .. Len(packets) + Len(more) :
           q[j] = IF j <= Len(packets) THEN packets[j] ELSE more[j - Len(packets)]
  BY ConcatProperties
<1>3. i \in 1..Len(q) /\ q[i] = more[k]
  BY <1>1, <1>2
<1>4. \A j \in i + 1 .. Len(q) :
        j - Len(packets) \in k + 1 .. Len(more) /\ q[j] = more[j - Len(packets)]
  BY <1>1, <1>2
<1>5. LastWord(n, cached, q, more[k].id, i)
  BY <1>3, <1>4, SMTT(30) DEF LastWord
<1> QED
  BY <1>1, <1>2, <1>3, <1>5 DEF Coherent

\* The packets remove the id and do not announce the name.
LEMMA AppendRemoved ==
  ASSUME NEW n \in Zones, NEW cached, NEW actual,
         NEW packets \in Seq(ToClientMsg), NEW more \in Seq(ToClientMsg),
         Coherent(n, cached, packets, actual),
         \A j \in 1..Len(more) : ~Announces(more[j], n),
         \E j \in 1..Len(more) : more[j] = ChannelRemove(actual)
  PROVE  Coherent(n, cached, packets \o more, None)
<1> DEFINE q == packets \o more
<1>1. /\ Len(q) = Len(packets) + Len(more)
      /\ \A j \in 1..Len(packets) : q[j] = packets[j]
      /\ \A j \in Len(packets) + 1 .. Len(q) :
           j - Len(packets) \in 1..Len(more) /\ q[j] = more[j - Len(packets)]
      /\ \A j \in 1..Len(more) : q[Len(packets) + j] = more[j]
  BY ConcatProperties
<1>2. Len(packets) \in Nat /\ Len(more) \in Nat
  OBVIOUS
<1>3. PICK i \in 0..Len(packets) : LastWord(n, cached, packets, actual, i)
  BY DEF Coherent
<1> DEFINE c == IF i = 0 THEN cached ELSE packets[i].id
<1>4. \A j \in i + 1 .. Len(q) : ~Announces(q[j], n)
  BY <1>1, <1>2, <1>3, SMTT(30) DEF LastWord
<1>5. (\E j \in i + 1 .. Len(packets) : packets[j] = ChannelRemove(c))
        => \E j \in i + 1 .. Len(q) : q[j] = ChannelRemove(c)
  BY <1>1, <1>2
<1>6. actual = c => \E j \in i + 1 .. Len(q) : q[j] = ChannelRemove(c)
  <2>1. PICK k \in 1..Len(more) : more[k] = ChannelRemove(actual)
    OBVIOUS
  <2>2. Len(packets) + k \in i + 1 .. Len(q) /\ q[Len(packets) + k] = more[k]
    BY <1>1, <1>2
  <2> QED  BY <2>1, <2>2
<1>7. actual = IF \E j \in i + 1 .. Len(packets) : packets[j] = ChannelRemove(c)
               THEN None ELSE c
  BY <1>3 DEF LastWord
<1>8. \E j \in i + 1 .. Len(q) : q[j] = ChannelRemove(c)
  BY <1>5, <1>6, <1>7
<1>9. i > 0 => Announces(q[i], n) /\ q[i].id = packets[i].id
  BY <1>1, <1>3 DEF LastWord
<1>10. LastWord(n, cached, q, None, i)
  <2>1. c = IF i = 0 THEN cached ELSE q[i].id
    BY <1>9
  <2> QED  BY <1>4, <1>8, <1>9, <2>1 DEF LastWord
<1> QED
  BY <1>1, <1>2, <1>10 DEF Coherent

\* What the client does to its entry when it consumes the head of the queue.
Updated(m, n, cached) ==
  IF Announces(m, n) THEN m.id ELSE IF m = ChannelRemove(cached) THEN None ELSE cached

LEMMA ConsumeHead ==
  ASSUME NEW n \in Zones, NEW cached, NEW actual,
         NEW packets \in Seq(ToClientMsg), packets # <<>>,
         Coherent(n, cached, packets, actual)
  PROVE  Coherent(n, Updated(Head(packets), n, cached), Tail(packets), actual)
<1> DEFINE q == Tail(packets)
           m == Head(packets)
<1>1. /\ Len(packets) \in Nat \ {0}
      /\ Len(q) = Len(packets) - 1
      /\ \A j \in 1..Len(q) : q[j] = packets[j + 1]
      /\ \A j \in 2..Len(packets) : q[j - 1] = packets[j]
      /\ m = packets[1]
  BY HeadTailProperties
<1>2. PICK i \in 0..Len(packets) : LastWord(n, cached, packets, actual, i)
  BY DEF Coherent
<1>3. CASE i = 0
  <2>1. ~Announces(m, n) /\ \A j \in 1..Len(q) : ~Announces(q[j], n)
    BY <1>1, <1>2, <1>3 DEF LastWord
  <2>2. actual = IF \E j \in 1..Len(packets) : packets[j] = ChannelRemove(cached)
                 THEN None ELSE cached
    BY <1>2, <1>3 DEF LastWord
  <2>3. (\E j \in 1..Len(packets) : packets[j] = ChannelRemove(cached))
        <=> (m = ChannelRemove(cached) \/ \E j \in 1..Len(q) : q[j] = ChannelRemove(cached))
    <3>1. ASSUME NEW j \in 1..Len(packets), packets[j] = ChannelRemove(cached)
          PROVE  m = ChannelRemove(cached) \/ \E k \in 1..Len(q) : q[k] = ChannelRemove(cached)
      <4>1. CASE j = 1
        BY <1>1, <3>1, <4>1
      <4>2. CASE j # 1
        <5>1. j - 1 \in 1..Len(q) /\ q[j - 1] = packets[j]
          BY <1>1, <4>2
        <5> QED
          BY <3>1, <5>1
      <4> QED
        BY <4>1, <4>2
    <3>2. ASSUME NEW j \in 1..Len(q), q[j] = ChannelRemove(cached)
          PROVE  \E k \in 1..Len(packets) : packets[k] = ChannelRemove(cached)
      <4>1. j + 1 \in 1..Len(packets) /\ packets[j + 1] = q[j]
        BY <1>1
      <4> QED
        BY <3>2, <4>1
    <3>3. m = ChannelRemove(cached) => packets[1] = ChannelRemove(cached) /\ 1 \in 1..Len(packets)
      BY <1>1
    <3> QED
      BY <3>1, <3>2, <3>3
  <2>4. LastWord(n, Updated(m, n, cached), q, actual, 0)
    <3>1. CASE m = ChannelRemove(cached)
      BY <2>1, <2>2, <2>3, <3>1 DEF LastWord, Updated
    <3>2. CASE m # ChannelRemove(cached)
      BY <2>1, <2>2, <2>3, <3>2 DEF LastWord, Updated
    <3> QED  BY <3>1, <3>2
  <2> QED  BY <1>1, <2>4 DEF Coherent
<1>4. CASE i > 0
  <2> DEFINE c == packets[i].id
             i0 == i - 1
  <2>1. Announces(packets[i], n) /\ \A j \in i + 1 .. Len(packets) : ~Announces(packets[j], n)
    BY <1>2, <1>4 DEF LastWord
  <2>2. actual = IF \E j \in i + 1 .. Len(packets) : packets[j] = ChannelRemove(c)
                 THEN None ELSE c
    BY <1>2, <1>4 DEF LastWord
  <2>3. (\E j \in i + 1 .. Len(packets) : packets[j] = ChannelRemove(c))
        <=> \E j \in i0 + 1 .. Len(q) : q[j] = ChannelRemove(c)
    <3>1. \A j \in i + 1 .. Len(packets) : j - 1 \in i0 + 1 .. Len(q) /\ q[j - 1] = packets[j]
      BY <1>1, <1>4
    <3>2. \A j \in i0 + 1 .. Len(q) : j + 1 \in i + 1 .. Len(packets) /\ q[j] = packets[j + 1]
      BY <1>1, <1>4
    <3> QED  BY <3>1, <3>2
  <2>4. \A j \in i0 + 1 .. Len(q) : ~Announces(q[j], n)
    BY <1>1, <1>4, <2>1
  <2>5. i0 \in 0..Len(q) /\ (i0 > 0 => q[i0] = packets[i])
    BY <1>1, <1>4
  <2>6. i0 = 0 => Updated(m, n, cached) = c
    BY <1>1, <1>4, <2>1 DEF Updated
  <2>7. LastWord(n, Updated(m, n, cached), q, actual, i0)
    <3>1. c = IF i0 = 0 THEN Updated(m, n, cached) ELSE q[i0].id
      BY <2>5, <2>6
    <3>2. actual = IF \E j \in i0 + 1 .. Len(q) : q[j] = ChannelRemove(c) THEN None ELSE c
      BY <2>2, <2>3
    <3> QED  BY <2>1, <2>4, <2>5, <3>1, <3>2 DEF LastWord
  <2> QED  BY <2>5, <2>7 DEF Coherent
<1> QED
  BY <1>3, <1>4

----------------------------------------------------------------------------
(* The cache and the packets in flight.                                    *)

\* What a packet is about can be told from its type.
LEMMA PacketKinds ==
  /\ \A n, y \in Zones : \A c : Announces(ChannelState(n, c), y) <=> n = y
  /\ \A n, c : ChannelState(n, c).id = c
  /\ \A n \in Zones : \A c : ~Announces(ChannelRemove(c), n)
  /\ \A n \in Zones : \A s, c : ~Announces(UserState(s, c), n)
  /\ \A c, d : ChannelRemove(c) = ChannelRemove(d) <=> c = d
  /\ \A m, c : m = ChannelRemove(c) => m.type = "ChannelRemove" /\ m.id = c
  /\ \A m, c : m.type # "ChannelRemove" => m # ChannelRemove(c)
  /\ \A n, c : ChannelState(n, c).type = "ChannelState"
  /\ \A s, c : UserState(s, c).type = "UserState"
  /\ \A m, n : m.type # "ChannelState" => ~Announces(m, n)
BY DEF Announces, ChannelState, ChannelRemove, UserState

PreAuth == ~authenticated => toClient = <<>> /\ channels = [n \in Zones |-> None]

\* A handler that updates every entry as the consumed packet says.
LEMMA CacheReceive ==
  ASSUME TypeOK, CacheInv, NEW type, Receive(type),
         \A n \in Zones : channels'[n] = Updated(Head(toClient), n, channels[n])
  PROVE  CacheCoherent' /\ PreAuth'
<1>1. authenticated /\ authenticated' = authenticated /\ srvChannels' = srvChannels
  BY DEF Receive, CacheInv, server
<1>2. toClient \in Seq(ToClientMsg) /\ toClient # <<>> /\ toClient' = Tail(toClient)
  BY DEF Receive, TypeOK
<1>3. \A n \in Zones : Coherent(n, channels[n], toClient, srvChannels[n])
  BY <1>1 DEF CacheInv, CacheCoherent
<1>4. \A n \in Zones :
        Coherent(n, Updated(Head(toClient), n, channels[n]), Tail(toClient), srvChannels[n])
  BY <1>2, <1>3, ConsumeHead
<1>5. \A n \in Zones : Coherent(n, channels'[n], toClient', srvChannels'[n])
  BY <1>1, <1>2, <1>4
<1>6. CacheCoherent'
  BY <1>5 DEF CacheCoherent
<1> QED
  BY <1>1, <1>6 DEF PreAuth

\* Each handler of the client updates every entry as the consumed packet says.
LEMMA ClientUpdates ==
  ASSUME TypeOK, Client
  PROVE  /\ \E type : Receive(type)
         /\ \A n \in Zones : channels'[n] = Updated(Head(toClient), n, channels[n])
<1> DEFINE m == Head(toClient)
<1>0. channels \in [Zones -> Ids \cup {None}] /\ None \notin Zones
  BY DEF TypeOK
<1>1. CASE RecvChannelState
  <2>1. m \in ToClientMsg /\ m.type = "ChannelState"
    BY <1>1, TypeReceive DEF RecvChannelState
  <2>2. m.name = None \/ (m.name \in Zones /\ m.id \in Ids)
    BY <2>1, ReceivedFields
  <2>3. \A n \in Zones : Updated(m, n, channels[n])
                           = IF m.name = n THEN m.id ELSE channels[n]
    BY <2>1, PacketKinds DEF Updated, Announces
  <2>4. CASE m.name = None
    BY <1>0, <1>1, <2>3, <2>4 DEF RecvChannelState, session
  <2>5. CASE m.name # None
    <3>1. channels' = Learn(m.name, m.id)
      BY <1>1, <2>5 DEF RecvChannelState
    <3> QED  BY <1>0, <1>1, <2>2, <2>3, <2>5, <3>1 DEF RecvChannelState, Learn
  <2> QED  BY <2>4, <2>5
<1>2. CASE RecvChannelRemove
  <2>1. m \in ToClientMsg /\ m.type = "ChannelRemove"
    BY <1>2, TypeReceive DEF RecvChannelRemove
  <2>2. m = ChannelRemove(m.id)
    BY <2>1 DEF ToClientMsg, ChannelRemove
  <2>3. \A n \in Zones : Updated(m, n, channels[n])
                           = IF channels[n] = m.id THEN None ELSE channels[n]
    BY <2>1, <2>2, PacketKinds DEF Updated
  <2> QED  BY <1>2, <2>3 DEF RecvChannelRemove, Forget
<1>3. CASE RecvServerSync \/ RecvUserState \/ RecvPermissionDenied
  <2>1. PICK type \in {"ServerSync", "UserState", "PermissionDenied"} : Receive(type)
    BY <1>3 DEF RecvServerSync, RecvUserState, RecvPermissionDenied
  <2>2. m.type = type
    BY <2>1, TypeReceive
  <2>3. \A n \in Zones : Updated(m, n, channels[n]) = channels[n]
    BY <2>1, <2>2, PacketKinds DEF Updated
  <2>4. channels' = channels
    BY <1>3 DEF RecvServerSync, RecvUserState, RecvPermissionDenied, session
  <2> QED  BY <2>1, <2>3, <2>4
<1> QED
  BY <1>1, <1>2, <1>3 DEF Client

LEMMA CacheClient == TypeOK /\ CacheInv /\ Client => CacheCoherent' /\ PreAuth'
BY ClientUpdates, CacheReceive

\* A step of the server or of the environment that sends these packets.
LEMMA CacheNotify ==
  ASSUME TypeOK, CacheInv, NEW packets, Notify(packets),
         UNCHANGED <<authenticated, channels>>,
         authenticated => \A n \in Zones :
           Coherent(n, channels[n], toClient \o packets, srvChannels'[n])
  PROVE  CacheCoherent' /\ PreAuth'
<1>1. CASE authenticated
  <2>1. \A n \in Zones : Coherent(n, channels'[n], toClient', srvChannels'[n])
    BY <1>1 DEF Notify
  <2> QED  BY <1>1, <2>1 DEF CacheCoherent, PreAuth
<1>2. CASE ~authenticated
  BY <1>2 DEF Notify, CacheInv, CacheCoherent, PreAuth
<1> QED
  BY <1>1, <1>2

\* Nothing that matters to the cache changes.
LEMMA CacheStutter ==
  ASSUME CacheInv, UNCHANGED <<authenticated, channels, toClient, srvChannels>>
  PROVE  CacheCoherent' /\ PreAuth'
BY DEF CacheInv, CacheCoherent, PreAuth

LEMMA PacketsAssociative ==
  ASSUME NEW s \in Seq(ToClientMsg), NEW t \in Seq(ToClientMsg), NEW u \in Seq(ToClientMsg)
  PROVE  (s \o t) \o u = s \o (t \o u)
BY ConcatAssociative, SMTT(30)

\* The client enters channel c: whatever announced it, chans is coherent with it.
LEMMA CacheEnter ==
  ASSUME TypeOK, CacheInv, NEW c \in Ids \cup {Root}, NEW created \in Seq(ToClientMsg),
         NEW chans \in [Zones -> Ids \cup {None}], Enter(c, created, chans),
         \A m, n \in Zones : chans[m] = chans[n] /\ chans[m] # None => m = n,
         \A n \in Zones : srvChannels[n] # None => chans[n] = srvChannels[n],
         UNCHANGED <<authenticated, channels>>,
         authenticated => \A n \in Zones :
           Coherent(n, channels[n], toClient \o created, chans[n])
  PROVE  CacheCoherent' /\ PreAuth'
<1> DEFINE gone == IF Emptied(c) # {} THEN <<ChannelRemove(loc)>> ELSE <<>>
           tail == <<UserState("me", c)>> \o gone
<1>1. Emptied(c) # {} => loc \in Ids
  BY DEF Emptied, TypeOK
<1>2. gone \in Seq(ToClientMsg) /\ <<UserState("me", c)>> \in Seq(ToClientMsg)
  BY <1>1, PacketTypes
<1>3. /\ tail \in Seq(ToClientMsg)
      /\ \A j \in 1..Len(tail) : \/ tail[j] = UserState("me", c)
                                 \/ Emptied(c) # {} /\ tail[j] = ChannelRemove(loc)
      /\ Emptied(c) # {} => 2 \in 1..Len(tail) /\ tail[2] = ChannelRemove(loc)
  <2>1. CASE Emptied(c) # {}
    BY <1>2, <2>1
  <2>2. CASE Emptied(c) = {}
    BY <1>2, <2>2
  <2> QED  BY <2>1, <2>2
<1>4. toClient \in Seq(ToClientMsg)
  BY DEF TypeOK
<1>5. Notify((created \o <<UserState("me", c)>>) \o gone)
  BY DEF Enter
<1>6. toClient \o ((created \o <<UserState("me", c)>>) \o gone) = (toClient \o created) \o tail
  <2> DEFINE echo == <<UserState("me", c)>>
  <2>1. echo \in Seq(ToClientMsg) /\ gone \in Seq(ToClientMsg) /\ tail = echo \o gone
    BY <1>2
  <2> HIDE DEF echo, gone, tail
  <2>2. (created \o echo) \o gone = created \o tail
    BY <2>1, PacketsAssociative, ZenonT(30)
  <2>3. toClient \o (created \o tail) = (toClient \o created) \o tail
    BY <1>3, <1>4, PacketsAssociative, ZenonT(30)
  <2>4. toClient \o ((created \o echo) \o gone) = (toClient \o created) \o tail
    BY <2>2, <2>3
  <2> QED  BY <2>4 DEF echo
<1> HIDE DEF tail, gone
<1>7. ASSUME authenticated, NEW z \in Zones
      PROVE  Coherent(z, channels[z], (toClient \o created) \o tail, srvChannels'[z])
  <2>0. Coherent(z, channels[z], toClient \o created, chans[z])
        /\ toClient \o created \in Seq(ToClientMsg)
    BY <1>4, <1>7, ConcatProperties
  <2>1. \A j \in 1..Len(tail) : ~Announces(tail[j], z)
    BY <1>3, PacketKinds
  <2>2. CASE z \in Emptied(c)
    <3>1. srvChannels'[z] = None /\ Emptied(c) # {}
      BY <2>2 DEF Enter
    <3>2. chans[z] = loc
      BY <1>1, <2>2 DEF Emptied
    <3>3. \E j \in 1..Len(tail) : tail[j] = ChannelRemove(chans[z])
      BY <1>3, <3>1, <3>2
    <3> QED  BY <1>3, <2>0, <2>1, <3>1, <3>3, AppendRemoved
  <2>3. CASE z \notin Emptied(c)
    <3>1. srvChannels'[z] = chans[z]
      BY <2>3 DEF Enter
    <3>2. Emptied(c) # {} => chans[z] # loc
      <4>1. ASSUME NEW y \in Emptied(c)
            PROVE  chans[y] = loc /\ loc # None /\ y \in Zones
        BY <1>1, <4>1 DEF Emptied
      <4> QED  BY <2>3, <4>1
    <3>3. \A j \in 1..Len(tail) : tail[j] # ChannelRemove(chans[z])
      BY <1>3, <3>2, PacketKinds, SMTT(30)
    <3> QED  BY <1>3, <2>0, <2>1, <3>1, <3>3, AppendSilent
  <2> QED  BY <2>2, <2>3
<1> QED
  BY <1>5, <1>6, <1>7, CacheNotify

\* A channel that is created and announced: the new list is coherent with the cache.
LEMMA CacheCreated ==
  ASSUME TypeOK, CacheInv, NEW n \in Zones, NEW c \in Unused, srvChannels[n] = None
  PROVE  LET chans == [srvChannels EXCEPT ![n] = c]
             created == <<ChannelState(n, c)>>
         IN  /\ c \in Ids /\ created \in Seq(ToClientMsg)
             /\ chans \in [Zones -> Ids \cup {None}]
             /\ \A y, z \in Zones : chans[y] = chans[z] /\ chans[y] # None => y = z
             /\ \A z \in Zones : srvChannels[z] # None => chans[z] = srvChannels[z]
             /\ authenticated => \A z \in Zones :
                  Coherent(z, channels[z], toClient \o created, chans[z])
<1>0. /\ toClient \in Seq(ToClientMsg) /\ srvChannels \in [Zones -> Ids \cup {None}]
      /\ \A y, z \in Zones : srvChannels[y] = srvChannels[z] /\ srvChannels[y] # None => y = z
      /\ authenticated => \A z \in Zones : Coherent(z, channels[z], toClient, srvChannels[z])
  BY DEF TypeOK, CacheInv, ServerSane, CacheCoherent
<1> DEFINE chans == [srvChannels EXCEPT ![n] = c]
           created == <<ChannelState(n, c)>>
<1>1. c \in Ids /\ c # None /\ \A z \in Zones : srvChannels[z] # c
  BY <1>0 DEF Unused, Used
<1>2. created \in Seq(ToClientMsg) /\ Len(created) = 1 /\ created[1] = ChannelState(n, c)
  BY <1>1, PacketTypes
<1>3. /\ chans \in [Zones -> Ids \cup {None}]
      /\ chans[n] = c /\ \A z \in Zones : z # n => chans[z] = srvChannels[z]
  BY <1>0, <1>1
<1> HIDE DEF chans, created
<1>4. ASSUME authenticated, NEW z \in Zones
      PROVE  Coherent(z, channels[z], toClient \o created, chans[z])
  <2>1. CASE z = n
    <3>1. Announces(created[1], n) /\ created[1].id = chans[z]
      BY <1>2, <1>3, <2>1, PacketKinds
    <3>2. 1 \in 1..Len(created) /\ \A j \in 1 + 1 .. Len(created) : FALSE
      BY <1>2
    <3>3. Coherent(n, channels[z], toClient \o created, created[1].id)
      BY <1>0, <1>2, <3>1, <3>2, AppendAnnounced
    <3> QED  BY <2>1, <3>1, <3>3
  <2>2. CASE z # n
    <3>1. \A j \in 1..Len(created) :
            ~Announces(created[j], z) /\ created[j] # ChannelRemove(srvChannels[z])
      BY <1>2, <2>2, PacketKinds
    <3> QED  BY <1>0, <1>2, <1>3, <1>4, <2>2, <3>1, AppendSilent
  <2> QED  BY <2>1, <2>2
<1>5. \A y, z \in Zones : chans[y] = chans[z] /\ chans[y] # None => y = z
  BY <1>0, <1>1, <1>3
<1>6. \A z \in Zones : srvChannels[z] # None => chans[z] = srvChannels[z]
  BY <1>3
<1> QED  BY <1>1, <1>2, <1>3, <1>4, <1>5, <1>6 DEF chans, created

LEMMA CacheServer == TypeOK /\ CacheInv /\ Server => CacheCoherent' /\ PreAuth'
<1> SUFFICES ASSUME TypeOK, CacheInv, Server
             PROVE  CacheCoherent' /\ PreAuth'
  OBVIOUS
<1>0. /\ toClient \in Seq(ToClientMsg) /\ srvChannels \in [Zones -> Ids \cup {None}]
      /\ \A m, n \in Zones : srvChannels[m] = srvChannels[n] /\ srvChannels[m] # None => m = n
      /\ authenticated => \A n \in Zones : Coherent(n, channels[n], toClient, srvChannels[n])
      /\ ~authenticated => toClient = <<>> /\ channels = [n \in Zones |-> None]
  BY DEF TypeOK, CacheInv, ServerSane, CacheCoherent
<1>00. toClient \o <<>> = toClient /\ <<>> \in Seq(ToClientMsg)
  BY <1>0, ConcatEmptySeq
<1>1. CASE SrvAuthenticate
  <2> DEFINE last == <<UserState("me", Root), [type |-> "ServerSync"]>>
  <2>1. PICK m, n \in Zones : m # n /\ toClient' = toClient \o Listed(m) \o Listed(n) \o last
    BY <1>1 DEF SrvAuthenticate
  <2>2. last \in Seq(ToClientMsg)
        /\ \A j \in 1..Len(last) : last[j].type \notin {"ChannelState", "ChannelRemove"}
    BY PacketTypes, PacketKinds
  <2>3. \A z \in Zones : Listed(z) \in Seq(ToClientMsg)
    BY <1>0, PacketTypes DEF Listed
  <2>4. ASSUME NEW z \in Zones, NEW packets \in Seq(ToClientMsg), srvChannels[z] # None
        PROVE  Coherent(z, channels[z], packets \o Listed(z), srvChannels[z])
    <3> DEFINE ms == Listed(z)
    <3>1. Len(ms) = 1 /\ ms[1] = ChannelState(z, srvChannels[z])
      BY <2>4 DEF Listed
    <3>2. Announces(ms[1], z) /\ ms[1].id = srvChannels[z]
      BY <3>1, PacketKinds
    <3>3. ms \in Seq(ToClientMsg)
      BY <2>3
    <3> HIDE DEF ms
    <3>4. Coherent(z, channels[z], packets \o ms, ms[1].id)
      <4>1. 1 \in 1..Len(ms) /\ \A j \in 1 + 1 .. Len(ms) : FALSE
        BY <3>1
      <4> QED  BY <3>2, <3>3, <4>1, AppendAnnounced
    <3> QED  BY <3>2, <3>4 DEF ms
  <2>5. ASSUME NEW y \in Zones, NEW z \in Zones, y # z, NEW packets \in Seq(ToClientMsg),
               Coherent(z, channels[z], packets, srvChannels[z])
        PROVE  Coherent(z, channels[z], packets \o Listed(y), srvChannels[z])
    <3>1. \A j \in 1..Len(Listed(y)) : Listed(y)[j] = ChannelState(y, srvChannels[y])
      BY DEF Listed
    <3>2. \A j \in 1..Len(Listed(y)) :
            ~Announces(Listed(y)[j], z) /\ Listed(y)[j] # ChannelRemove(srvChannels[z])
      BY <2>5, <3>1, PacketKinds
    <3> QED  BY <2>3, <2>5, <3>2, AppendSilent
  <2>6. ASSUME NEW z \in Zones, NEW packets \in Seq(ToClientMsg), srvChannels[z] = None,
               Coherent(z, channels[z], packets, srvChannels[z])
        PROVE  Coherent(z, channels[z], packets \o Listed(z), srvChannels[z])
    <3>1. Listed(z) = <<>>
      BY <2>6 DEF Listed
    <3> QED  BY <2>6, <3>1, ConcatEmptySeq
  <2>7. ASSUME NEW z \in Zones, srvChannels[z] = None
        PROVE  Coherent(z, channels[z], toClient, srvChannels[z])
    <3>1. CASE authenticated
      BY <1>0, <3>1
    <3>2. CASE ~authenticated
      <4>1. toClient = <<>> /\ channels[z] = None
        BY <1>0, <3>2
      <4>2. LastWord(z, None, <<>>, None, 0)
        BY DEF LastWord
      <4> QED  BY <2>7, <4>1, <4>2 DEF Coherent
    <3> QED  BY <3>1, <3>2
  <2>8. /\ toClient \o Listed(m) \in Seq(ToClientMsg)
        /\ toClient \o Listed(m) \o Listed(n) \in Seq(ToClientMsg)
    BY <1>0, <2>3, ConcatProperties
  <2>9. ASSUME NEW z \in Zones
        PROVE  Coherent(z, channels[z], toClient \o Listed(m) \o Listed(n), srvChannels[z])
    <3>1. CASE z = m
      <4>1. Coherent(z, channels[z], toClient \o Listed(m), srvChannels[z])
        BY <1>0, <2>4, <2>6, <2>7, <3>1
      <4> QED  BY <2>1, <2>5, <2>8, <3>1, <4>1
    <3>2. CASE z = n /\ srvChannels[z] # None
      BY <2>4, <2>8, <3>2
    <3>3. CASE z = n /\ srvChannels[z] = None
      <4>1. Coherent(z, channels[z], toClient \o Listed(m), srvChannels[z])
        BY <1>0, <2>1, <2>5, <2>7, <3>3
      <4> QED  BY <2>6, <2>8, <3>3, <4>1
    <3> QED  BY <2>1, <3>1, <3>2, <3>3
  <2>10. ASSUME NEW z \in Zones
         PROVE  Coherent(z, channels[z], toClient', srvChannels[z])
    <3>1. \A j \in 1..Len(last) :
            ~Announces(last[j], z) /\ last[j] # ChannelRemove(srvChannels[z])
      BY <2>2, PacketKinds
    <3> HIDE DEF last
    <3> QED  BY <2>1, <2>2, <2>8, <2>9, <3>1, AppendSilent
  <2>11. UNCHANGED <<channels, srvChannels>> /\ authenticated'
    BY <1>1 DEF SrvAuthenticate, Handle, session
  <2> QED  BY <2>10, <2>11 DEF CacheCoherent, PreAuth
<1>2. CASE SrvContext
  BY <1>2, CacheStutter DEF SrvContext, Handle, session
<1>3. CASE SrvMove
  <2> DEFINE c == Head(toServer).id
  <2>0. Handle("Move") /\ UNCHANGED authenticated
    BY <1>3 DEF SrvMove
  <2>1. c \in Ids /\ UNCHANGED <<authenticated, channels>>
    BY <2>0, TypeHandle, HandledFields DEF Handle, session
  <2>2. CASE Enter(c, <<>>, srvChannels)
    BY <1>0, <1>00, <2>1, <2>2, CacheEnter
  <2>3. CASE UNCHANGED <<toClient, srvChannels, loc>>
    BY <2>1, <2>3, CacheStutter
  <2> QED  BY <1>3, <2>2, <2>3 DEF SrvMove
<1>4. CASE SrvCreate
  <2> DEFINE n == Head(toServer).name
             denied == <<[type |-> "PermissionDenied"]>>
  <2>0. Handle("Create") /\ UNCHANGED authenticated
    BY <1>4 DEF SrvCreate
  <2>1. n \in Zones /\ UNCHANGED <<authenticated, channels>>
    BY <2>0, TypeHandle, HandledFields DEF Handle, session
  <2> HIDE DEF n
  <2>2. CASE Notify(denied) /\ UNCHANGED <<srvChannels, loc>>
    <3>1. denied \in Seq(ToClientMsg)
          /\ \A j \in 1..Len(denied) : denied[j].type = "PermissionDenied"
      BY PacketTypes
    <3>2. ASSUME authenticated, NEW z \in Zones
          PROVE  Coherent(z, channels[z], toClient \o denied, srvChannels'[z])
      <4> HIDE DEF denied
      <4>1. \A j \in 1..Len(denied) :
              ~Announces(denied[j], z) /\ denied[j] # ChannelRemove(srvChannels[z])
        BY <3>1, PacketKinds
      <4>2. Coherent(z, channels[z], toClient \o denied, srvChannels[z])
        BY <1>0, <3>1, <3>2, <4>1, AppendSilent
      <4> QED  BY <2>2, <4>2
    <3> QED  BY <2>1, <2>2, <3>2, CacheNotify
  <2>4. ASSUME NEW c \in Unused, srvChannels[n] = None,
               \/ Enter(c, <<ChannelState(n, c)>>, [srvChannels EXCEPT ![n] = c])
               \/ /\ srvChannels' = [srvChannels EXCEPT ![n] = c]
                  /\ Notify(<<ChannelState(n, c)>>)
        PROVE  CacheCoherent' /\ PreAuth'
    <3> DEFINE chans == [srvChannels EXCEPT ![n] = c]
               created == <<ChannelState(n, c)>>
    <3>1. /\ c \in Ids /\ created \in Seq(ToClientMsg)
          /\ chans \in [Zones -> Ids \cup {None}]
          /\ \A y, z \in Zones : chans[y] = chans[z] /\ chans[y] # None => y = z
          /\ \A z \in Zones : srvChannels[z] # None => chans[z] = srvChannels[z]
          /\ authenticated => \A z \in Zones :
               Coherent(z, channels[z], toClient \o created, chans[z])
      BY <2>1, <2>4, CacheCreated
    <3>2. Enter(c, created, chans) \/ (srvChannels' = chans /\ Notify(created))
      BY <2>4
    <3> HIDE DEF chans, created
    <3>3. CASE Enter(c, created, chans)
      BY <2>1, <3>1, <3>3, CacheEnter
    <3>4. CASE srvChannels' = chans /\ Notify(created)
      BY <2>1, <3>1, <3>4, CacheNotify
    <3> QED  BY <3>2, <3>3, <3>4
  <2> QED  BY <1>4, <2>2, <2>4 DEF SrvCreate, n
<1> QED
  BY <1>1, <1>2, <1>3, <1>4 DEF Server

\* Packets that are about users only.
LEMMA CacheUserPackets ==
  ASSUME TypeOK, CacheInv, NEW packets \in Seq(ToClientMsg), Notify(packets),
         \A j \in 1..Len(packets) :
           \A n \in Zones : ~Announces(packets[j], n) /\ packets[j].type # "ChannelRemove",
         UNCHANGED <<authenticated, channels, srvChannels>>
  PROVE  CacheCoherent' /\ PreAuth'
<1>1. ASSUME authenticated, NEW n \in Zones
      PROVE  Coherent(n, channels[n], toClient \o packets, srvChannels[n])
  <2>1. Coherent(n, channels[n], toClient, srvChannels[n])
    BY <1>1 DEF CacheInv, CacheCoherent
  <2>2. \A j \in 1..Len(packets) :
          ~Announces(packets[j], n) /\ packets[j] # ChannelRemove(srvChannels[n])
    BY PacketKinds
  <2> QED  BY <2>1, <2>2, AppendSilent DEF TypeOK
<1> QED
  BY <1>1, CacheNotify

LEMMA CacheEnvironment == TypeOK /\ CacheInv /\ Environment => CacheCoherent' /\ PreAuth'
<1> SUFFICES ASSUME TypeOK, CacheInv, Environment
             PROVE  CacheCoherent' /\ PreAuth'
  OBVIOUS
<1>0. /\ toClient \in Seq(ToClientMsg) /\ srvChannels \in [Zones -> Ids \cup {None}]
      /\ loc \in Ids \cup {Root}
      /\ \A n \in occupied : n \in Zones /\ srvChannels[n] # None
      /\ \A m, n \in Zones : srvChannels[m] = srvChannels[n] /\ srvChannels[m] # None => m = n
      /\ authenticated => \A n \in Zones : Coherent(n, channels[n], toClient, srvChannels[n])
  BY DEF TypeOK, CacheInv, ServerSane, CacheCoherent
<1>00. toClient \o <<>> = toClient /\ <<>> \in Seq(ToClientMsg)
  BY <1>0, ConcatEmptySeq
<1>1. \A event \in Events : Spend(event) => UNCHANGED <<authenticated, channels>>
  BY DEF Spend, session
<1>2. \A s \in {"me", "other"}, c \in Ids \cup {Root, None} :
        /\ <<UserState(s, c)>> \in Seq(ToClientMsg)
        /\ \A j \in 1..Len(<<UserState(s, c)>>) : \A n \in Zones :
             /\ ~Announces(<<UserState(s, c)>>[j], n)
             /\ <<UserState(s, c)>>[j].type # "ChannelRemove"
  BY PacketTypes, PacketKinds
<1>3. CASE SetZone
  BY <1>1, <1>3, CacheStutter DEF SetZone
<1>4. CASE Occupy
  <2>1. PICK n \in Zones \ occupied :
          \/ /\ srvChannels[n] # None
             /\ Notify(<<UserState("other", srvChannels[n])>>)
             /\ UNCHANGED srvChannels
          \/ /\ srvChannels[n] = None
             /\ \E c \in Unused :
                  /\ srvChannels' = [srvChannels EXCEPT ![n] = c]
                  /\ Notify(<<ChannelState(n, c), UserState("other", c)>>)
    BY <1>4 DEF Occupy
  <2>2. UNCHANGED <<authenticated, channels>>
    BY <1>1, <1>4 DEF Occupy
  <2>3. CASE /\ srvChannels[n] # None
             /\ Notify(<<UserState("other", srvChannels[n])>>)
             /\ UNCHANGED srvChannels
    <3> DEFINE packets == <<UserState("other", srvChannels[n])>>
    <3>1. srvChannels[n] \in Ids
      BY <1>0, <2>3
    <3>2. packets \in Seq(ToClientMsg)
          /\ \A j \in 1..Len(packets) : \A z \in Zones :
               ~Announces(packets[j], z) /\ packets[j].type # "ChannelRemove"
      BY <1>2, <3>1
    <3>3. Notify(packets)
      BY <2>3
    <3> HIDE DEF packets
    <3> QED  BY <2>2, <2>3, <3>2, <3>3, CacheUserPackets
  <2>4. ASSUME NEW c \in Unused, srvChannels[n] = None,
               srvChannels' = [srvChannels EXCEPT ![n] = c],
               Notify(<<ChannelState(n, c), UserState("other", c)>>)
        PROVE  CacheCoherent' /\ PreAuth'
    <3> DEFINE packets == <<ChannelState(n, c), UserState("other", c)>>
    <3>1. c \in Ids
      BY <2>4 DEF Unused
    <3>2. /\ packets \in Seq(ToClientMsg) /\ Len(packets) = 2
          /\ packets[1] = ChannelState(n, c) /\ packets[2] = UserState("other", c)
      BY <2>1, <3>1, PacketTypes
    <3>3. Notify(packets)
      BY <2>4
    <3> HIDE DEF packets
    <3>4. ASSUME authenticated, NEW z \in Zones
          PROVE  Coherent(z, channels[z], toClient \o packets, srvChannels'[z])
      <4>1. CASE z = n
        <5>1. Announces(packets[1], z) /\ packets[1].id = c
          BY <3>2, <4>1, PacketKinds
        <5>2. 1 \in 1..Len(packets) /\ \A j \in 1 + 1 .. Len(packets) :
                ~Announces(packets[j], z) /\ packets[j] # ChannelRemove(packets[1].id)
          BY <3>2, PacketKinds
        <5>3. Coherent(z, channels[z], toClient \o packets, packets[1].id)
          BY <1>0, <3>2, <5>1, <5>2, AppendAnnounced
        <5>4. srvChannels'[z] = c
          BY <1>0, <2>4, <4>1
        <5> QED  BY <5>1, <5>3, <5>4
      <4>2. CASE z # n
        <5>1. \A j \in 1..Len(packets) :
                ~Announces(packets[j], z) /\ packets[j] # ChannelRemove(srvChannels[z])
          BY <3>2, <4>2, PacketKinds
        <5>2. Coherent(z, channels[z], toClient \o packets, srvChannels[z])
          BY <1>0, <3>2, <3>4, <5>1, AppendSilent
        <5>3. srvChannels'[z] = srvChannels[z]
          BY <1>0, <2>4, <4>2
        <5> QED  BY <5>2, <5>3
      <4> QED  BY <4>1, <4>2
    <3> QED  BY <2>2, <3>3, <3>4, CacheNotify
  <2> QED  BY <2>1, <2>3, <2>4
<1>5. CASE Vacate
  <2>1. PICK n \in occupied :
          \/ /\ srvChannels[n] = loc
             /\ Notify(<<UserState("other", Root)>>)
             /\ UNCHANGED srvChannels
          \/ /\ srvChannels[n] # loc
             /\ srvChannels' = [srvChannels EXCEPT ![n] = None]
             /\ Notify(<<UserState("other", Root), ChannelRemove(srvChannels[n])>>)
    BY <1>5 DEF Vacate
  <2>2. UNCHANGED <<authenticated, channels>>
    BY <1>1, <1>5 DEF Vacate
  <2>3. CASE /\ Notify(<<UserState("other", Root)>>)
             /\ UNCHANGED srvChannels
    <3> DEFINE packets == <<UserState("other", Root)>>
    <3>1. packets \in Seq(ToClientMsg)
          /\ \A j \in 1..Len(packets) : \A z \in Zones :
               ~Announces(packets[j], z) /\ packets[j].type # "ChannelRemove"
      BY <1>2
    <3>2. Notify(packets)
      BY <2>3
    <3> HIDE DEF packets
    <3> QED  BY <2>2, <2>3, <3>1, <3>2, CacheUserPackets
  <2>4. CASE /\ srvChannels' = [srvChannels EXCEPT ![n] = None]
             /\ Notify(<<UserState("other", Root), ChannelRemove(srvChannels[n])>>)
    <3> DEFINE packets == <<UserState("other", Root), ChannelRemove(srvChannels[n])>>
    <3>1. n \in Zones /\ srvChannels[n] \in Ids
      BY <1>0
    <3>2. /\ packets \in Seq(ToClientMsg) /\ Len(packets) = 2
          /\ packets[1] = UserState("other", Root)
          /\ packets[2] = ChannelRemove(srvChannels[n])
      BY <3>1, PacketTypes
    <3>3. Notify(packets)
      BY <2>4
    <3> HIDE DEF packets
    <3>4. ASSUME authenticated, NEW z \in Zones
          PROVE  Coherent(z, channels[z], toClient \o packets, srvChannels'[z])
      <4>1. Coherent(z, channels[z], toClient, srvChannels[z])
        BY <1>0, <3>4
      <4>2. \A j \in 1..Len(packets) : ~Announces(packets[j], z)
        BY <3>2, PacketKinds
      <4>3. CASE z = n
        <5>1. 2 \in 1..Len(packets) /\ packets[2] = ChannelRemove(srvChannels[z])
          BY <3>2, <4>3
        <5>2. Coherent(z, channels[z], toClient \o packets, None)
          BY <1>0, <3>2, <4>1, <4>2, <5>1, AppendRemoved
        <5>3. srvChannels'[z] = None
          BY <1>0, <2>4, <4>3
        <5> QED  BY <5>2, <5>3
      <4>4. CASE z # n
        <5>1. srvChannels[z] # srvChannels[n]
          BY <1>0, <3>1, <4>4
        <5>2. \A j \in 1..Len(packets) : packets[j] # ChannelRemove(srvChannels[z])
          BY <3>2, <5>1, PacketKinds
        <5>3. Coherent(z, channels[z], toClient \o packets, srvChannels[z])
          BY <1>0, <3>2, <4>1, <4>2, <5>2, AppendSilent
        <5>4. srvChannels'[z] = srvChannels[z]
          BY <1>0, <2>4, <4>4
        <5> QED  BY <5>3, <5>4
      <4> QED  BY <4>3, <4>4
    <3> QED  BY <2>2, <3>3, <3>4, CacheNotify
  <2> QED  BY <2>1, <2>3, <2>4
<1>6. CASE Kick
  <2>1. UNCHANGED <<authenticated, channels>> /\ Enter(Root, <<>>, srvChannels)
    BY <1>1, <1>6 DEF Kick
  <2> QED  BY <1>0, <1>00, <2>1, CacheEnter
<1>7. CASE Noise
  <2>1. PICK m \in {ChannelState(None, Root), UserState("me", None)} : Notify(<<m>>)
    BY <1>7 DEF Noise
  <2>2. UNCHANGED <<authenticated, channels, srvChannels>>
    BY <1>1, <1>7 DEF Noise
  <2> DEFINE packets == <<m>>
  <2>3. /\ m \in ToClientMsg /\ m.type # "ChannelRemove"
        /\ \A z \in Zones : ~Announces(m, z)
    BY PacketTypes, PacketKinds DEF Announces, ChannelState
  <2>4. packets \in Seq(ToClientMsg) /\ \A j \in 1..Len(packets) : packets[j] = m
    BY <2>3
  <2>5. Notify(packets)
    BY <2>1
  <2> HIDE DEF packets
  <2> QED  BY <2>2, <2>3, <2>4, <2>5, CacheUserPackets
<1> QED
  BY <1>3, <1>4, <1>5, <1>6, <1>7 DEF Environment

LEMMA CacheInit == Init => CacheInv
<1> SUFFICES ASSUME Init
             PROVE  CacheInv
  OBVIOUS
<1> QED
  BY SaneInit DEF Init, CacheInv, CacheCoherent

LEMMA CacheNext == TypeOK /\ CacheInv /\ [Next]_vars => CacheInv'
<1> SUFFICES ASSUME TypeOK, CacheInv, [Next]_vars
             PROVE  CacheInv'
  OBVIOUS
<1>1. ServerSane'
  BY SaneNext DEF CacheInv
<1>2. CASE CheckZoneChannel \/ UNCHANGED vars
  <2>1. UNCHANGED <<authenticated, channels, toClient, srvChannels>>
    BY <1>2 DEF CheckZoneChannel, vars, session, server
  <2> QED  BY <1>1, <2>1, CacheStutter DEF CacheInv, PreAuth
<1> QED
  BY <1>1, <1>2, CacheClient, CacheServer, CacheEnvironment DEF Next, CacheInv, PreAuth

LEMMA CacheStays == Spec => [](TypeOK /\ CacheInv)
<1>1. Init => TypeOK /\ CacheInv
  BY TypeInit, CacheInit
<1>2. TypeOK /\ CacheInv /\ [Next]_vars => (TypeOK /\ CacheInv)'
  <2>1. TypeOK /\ UNCHANGED vars => TypeOK'
    BY DEF TypeOK, vars, session, server
  <2> QED
    BY <2>1, TypeClient, TypeCheck, TypeServer, TypeEnvironment, CacheNext DEF Next, CacheInv
<1> QED
  BY <1>1, <1>2, PTL DEF Spec

\* The client's cache, corrected by the packets in flight, is the server's list of
\* zone channels in every reachable state: no order of creations, removals and
\* re-used ids makes a client look for a channel under a wrong id for longer than
\* the packets take (session.rs on_channel_state, on_channel_remove).
THEOREM CacheStaysCoherent == Spec => []CacheCoherent
<1>1. CacheInv => CacheCoherent
  BY DEF CacheInv
<1> QED
  BY <1>1, CacheStays, PTL

----------------------------------------------------------------------------
(* Where the server has the client.  The last echo in flight, looked up in *)
(* the cache as it will be then, confirms the zone of the client's channel.*)

\* Authenticate is the first packet to the server, and comes once.
AuthInv ==
  /\ ~authenticated => /\ loc = Root /\ mySession = None
                       /\ toServer # <<>> /\ toServer[1].type = "Authenticate"
  /\ \A i \in 1..Len(toServer) : toServer[i].type = "Authenticate" => i = 1 /\ ~authenticated

LocInv == loc = Root \/ \E n \in Zones : srvChannels[n] = loc

\* The session is known after these packets.
Known(packets) ==
  mySession # None \/ \E i \in 1..Len(packets) : packets[i].type = "ServerSync"

SyncInv == authenticated => Known(toClient)

Echoless(packets) == \A i \in 1..Len(packets) : ~Echoes(packets[i])

\* The last echo comes after before, when the session is known and n is the only
\* cached name of loc.
EchoUnderway(n) ==
  \E before \in Seq(ToClientMsg), after \in Seq(ToClientMsg) :
    /\ toClient = (before \o <<UserState("me", loc)>>) \o after
    /\ Echoless(after)
    /\ Known(before)
    /\ \E names \in [Zones -> Ids \cup {None}] :
         /\ \A m \in Zones : Coherent(m, channels[m], before, names[m])
         /\ \A m \in Zones : names[m] = loc <=> m = n

EchoInv ==
  authenticated /\ ambient =>
    \A n \in Zones : srvChannels[n] = loc =>
      EchoUnderway(n) \/ (Echoless(toClient) /\ currentZone = n)

PlaceInv == AuthInv /\ LocInv /\ SyncInv /\ EchoInv

LEMMA PlaceInit == Init => PlaceInv
<1> SUFFICES ASSUME Init
             PROVE  PlaceInv
  OBVIOUS
<1>1. AuthInv
  BY DEF Init, AuthInv
<1> QED
  BY <1>1 DEF Init, PlaceInv, LocInv, SyncInv, EchoInv

LEMMA OneMore ==
  ASSUME NEW packets \in Seq(ToClientMsg), NEW m \in ToClientMsg
  PROVE  /\ packets \o <<m>> \in Seq(ToClientMsg)
         /\ Len(packets \o <<m>>) = Len(packets) + 1
         /\ \A i \in 1..Len(packets) + 1 :
              (packets \o <<m>>)[i] = IF i <= Len(packets) THEN packets[i] ELSE m
<1> DEFINE one == <<m>>
<1>1. one \in Seq(ToClientMsg) /\ Len(one) = 1 /\ one[1] = m
  OBVIOUS
<1> HIDE DEF one
<1>2. /\ packets \o one \in Seq(ToClientMsg)
      /\ Len(packets \o one) = Len(packets) + Len(one)
      /\ \A i \in 1..Len(packets) + Len(one) :
           (packets \o one)[i] = IF i <= Len(packets) THEN packets[i] ELSE one[i - Len(packets)]
  BY <1>1, ConcatProperties
<1>3. \A i \in 1..Len(packets) + 1 : i <= Len(packets) \/ i - Len(packets) = 1
  OBVIOUS
<1>4. \A i \in 1..Len(packets) + 1 :
        (packets \o one)[i] = IF i <= Len(packets) THEN packets[i] ELSE m
  BY <1>1, <1>2, <1>3
<1> QED
  BY <1>1, <1>2, <1>4 DEF one

LEMMA SplitElements ==
  ASSUME NEW before \in Seq(ToClientMsg), NEW after \in Seq(ToClientMsg), NEW echo \in ToClientMsg,
         NEW packets, packets = (before \o <<echo>>) \o after
  PROVE  /\ packets \in Seq(ToClientMsg)
         /\ Len(packets) = Len(before) + 1 + Len(after)
         /\ \A i \in 1..Len(before) : packets[i] = before[i]
         /\ packets[Len(before) + 1] = echo
         /\ \A i \in 1..Len(after) : packets[Len(before) + 1 + i] = after[i]
<1> DEFINE front == before \o <<echo>>
<1>1. /\ front \in Seq(ToClientMsg)
      /\ Len(front) = Len(before) + 1
      /\ \A i \in 1..Len(before) + 1 : front[i] = IF i <= Len(before) THEN before[i] ELSE echo
  BY OneMore
<1> HIDE DEF front
<1>2. /\ front \o after \in Seq(ToClientMsg)
      /\ Len(front \o after) = Len(front) + Len(after)
      /\ \A i \in 1..Len(front) + Len(after) :
           (front \o after)[i] = IF i <= Len(front) THEN front[i] ELSE after[i - Len(front)]
  BY <1>1, ConcatProperties
<1>3. /\ \A i \in 1..Len(before) : (front \o after)[i] = before[i]
      /\ (front \o after)[Len(before) + 1] = echo
  BY <1>1, <1>2
<1>4. ASSUME NEW i \in 1..Len(after)
      PROVE  (front \o after)[Len(before) + 1 + i] = after[i]
  <2>1. /\ Len(before) + 1 + i \in 1..Len(front) + Len(after)
        /\ ~(Len(before) + 1 + i <= Len(front)) /\ Len(before) + 1 + i - Len(front) = i
    BY <1>1
  <2> QED
    BY <1>2, <2>1
<1> QED
  BY <1>1, <1>2, <1>3, <1>4 DEF front

LEMMA SplitHead ==
  ASSUME NEW before \in Seq(ToClientMsg), NEW after \in Seq(ToClientMsg), NEW echo \in ToClientMsg,
         NEW packets, packets = (before \o <<echo>>) \o after
  PROVE  /\ packets # <<>>
         /\ before = <<>> => Head(packets) = echo /\ Tail(packets) = after
         /\ before # <<>> => /\ Head(packets) = Head(before)
                            /\ Tail(packets) = (Tail(before) \o <<echo>>) \o after
<1>1. /\ packets \in Seq(ToClientMsg)
      /\ Len(packets) = Len(before) + 1 + Len(after)
      /\ \A i \in 1..Len(before) : packets[i] = before[i]
      /\ packets[Len(before) + 1] = echo
      /\ \A i \in 1..Len(after) : packets[Len(before) + 1 + i] = after[i]
  BY SplitElements
<1>2. /\ packets # <<>> /\ Head(packets) = packets[1]
      /\ Tail(packets) \in Seq(ToClientMsg) /\ Len(Tail(packets)) = Len(packets) - 1
      /\ \A i \in 1..Len(packets) - 1 : Tail(packets)[i] = packets[i + 1]
  BY <1>1, HeadTailProperties
<1>3. CASE before = <<>>
  <2>1. Head(packets) = echo
    BY <1>1, <1>2, <1>3
  <2>2. Len(Tail(packets)) = Len(after) /\ \A i \in 1..Len(after) : Tail(packets)[i] = after[i]
    BY <1>1, <1>2, <1>3
  <2> QED
    BY <1>2, <1>3, <2>1, <2>2, SeqEqual
<1>4. CASE before # <<>>
  <2> DEFINE rest == Tail(before)
             split == (rest \o <<echo>>) \o after
  <2>1. /\ rest \in Seq(ToClientMsg) /\ Len(rest) = Len(before) - 1 /\ Len(before) \in Nat \ {0}
        /\ \A i \in 1..Len(before) - 1 : rest[i] = before[i + 1]
        /\ Head(before) = before[1]
    BY <1>4, HeadTailProperties
  <2>0. split = (rest \o <<echo>>) \o after
    OBVIOUS
  <2> HIDE DEF rest, split
  <2>2. /\ split \in Seq(ToClientMsg)
        /\ Len(split) = Len(rest) + 1 + Len(after)
        /\ \A i \in 1..Len(rest) : split[i] = rest[i]
        /\ split[Len(rest) + 1] = echo
        /\ \A i \in 1..Len(after) : split[Len(rest) + 1 + i] = after[i]
    <3>1. rest \in Seq(ToClientMsg)
      BY <2>1
    <3> QED
      BY <2>0, <3>1, SplitElements
  <2>3. ASSUME NEW i \in 1..Len(split)
        PROVE  Tail(packets)[i] = split[i]
    <3>1. Tail(packets)[i] = packets[i + 1] /\ Len(after) \in Nat
      BY <1>1, <1>2, <2>1, <2>2
    <3>2. CASE i < Len(before)
      BY <1>1, <2>1, <2>2, <3>1, <3>2
    <3>3. CASE i = Len(before)
      BY <1>1, <2>1, <2>2, <3>1, <3>3
    <3>4. CASE i > Len(before)
      <4> DEFINE k == i - Len(before)
      <4>1. k \in 1..Len(after) /\ i + 1 = Len(before) + 1 + k /\ i = Len(rest) + 1 + k
        BY <2>1, <2>2, <3>1, <3>4
      <4> HIDE DEF k
      <4>2. packets[i + 1] = after[k] /\ split[i] = after[k]
        BY <1>1, <2>2, <4>1
      <4> QED
        BY <3>1, <4>2
    <3> QED
      BY <2>1, <2>2, <3>2, <3>3, <3>4
  <2>4. Tail(packets) = split
    <3>1. Len(Tail(packets)) = Len(split) /\ Len(split) \in Nat
      BY <1>1, <1>2, <2>1, <2>2
    <3> QED
      BY <1>2, <2>2, <2>3, <3>1, SeqEqual
  <2>5. Head(packets) = Head(before)
    BY <1>1, <1>2, <2>1
  <2> QED
    BY <1>2, <1>4, <2>4, <2>5 DEF rest, split
<1> QED
  BY <1>3, <1>4

LEMMA EchoKinds ==
  /\ \A c : Echoes(UserState("me", c)) <=> c # None
  /\ \A c : ~Echoes(UserState("other", c))
  /\ \A n, c : ~Echoes(ChannelState(n, c))
  /\ \A c : ~Echoes(ChannelRemove(c))
  /\ \A m : m.type # "UserState" => ~Echoes(m)
BY DEF Echoes, UserState, ChannelState, ChannelRemove

\* More packets.
LEMMA MorePackets ==
  ASSUME NEW packets \in Seq(ToClientMsg), NEW more \in Seq(ToClientMsg)
  PROVE  /\ Known(packets) => Known(packets \o more)
         /\ Echoless(packets) /\ Echoless(more) => Echoless(packets \o more)
<1>1. /\ Len(packets \o more) = Len(packets) + Len(more)
      /\ \A i \in 1..Len(packets) + Len(more) :
           (packets \o more)[i] = IF i <= Len(packets) THEN packets[i] ELSE more[i - Len(packets)]
  BY ConcatProperties
<1>2. Len(packets) \in Nat /\ Len(more) \in Nat
  OBVIOUS
<1>3. ASSUME NEW i \in 1..Len(packets)
      PROVE  i \in 1..Len(packets \o more) /\ (packets \o more)[i] = packets[i]
  BY <1>1, <1>2
<1>4. ASSUME NEW i \in 1..Len(packets \o more)
      PROVE  \/ i \in 1..Len(packets) /\ (packets \o more)[i] = packets[i]
             \/ i - Len(packets) \in 1..Len(more) /\ (packets \o more)[i] = more[i - Len(packets)]
  BY <1>1, <1>2
<1>5. Known(packets) => Known(packets \o more)
  BY <1>3 DEF Known
<1>6. Echoless(packets) /\ Echoless(more) => Echoless(packets \o more)
  BY <1>4, SMTT(30) DEF Echoless
<1> QED
  BY <1>5, <1>6

\* One packet less, handled by the client.
LEMMA OneLess ==
  ASSUME NEW packets \in Seq(ToClientMsg), packets # <<>>
  PROVE  /\ Echoless(packets) => ~Echoes(Head(packets)) /\ Echoless(Tail(packets))
         /\ Known(packets) => \/ mySession # None
                             \/ Head(packets).type = "ServerSync"
                             \/ \E i \in 1..Len(Tail(packets)) : Tail(packets)[i].type = "ServerSync"
<1>1. /\ Len(packets) \in Nat \ {0} /\ Len(Tail(packets)) = Len(packets) - 1
      /\ \A i \in 1..Len(packets) - 1 : Tail(packets)[i] = packets[i + 1]
      /\ Head(packets) = packets[1]
  BY HeadTailProperties
<1>2. ASSUME NEW i \in 1..Len(Tail(packets))
      PROVE  i + 1 \in 1..Len(packets) /\ Tail(packets)[i] = packets[i + 1]
  BY <1>1
<1>3. ASSUME NEW i \in 1..Len(packets)
      PROVE  i = 1 \/ (i - 1 \in 1..Len(Tail(packets)) /\ Tail(packets)[i - 1] = packets[i])
  BY <1>1
<1>4. 1 \in 1..Len(packets)
  BY <1>1
<1>5. Echoless(packets) => ~Echoes(Head(packets)) /\ Echoless(Tail(packets))
  BY <1>1, <1>2, <1>4 DEF Echoless
<1>6. ASSUME Known(packets), mySession = None
      PROVE  \/ Head(packets).type = "ServerSync"
             \/ \E i \in 1..Len(Tail(packets)) : Tail(packets)[i].type = "ServerSync"
  <2>1. PICK i \in 1..Len(packets) : packets[i].type = "ServerSync"
    BY <1>6 DEF Known
  <2> QED
    BY <1>1, <1>3, <2>1
<1> QED
  BY <1>5, <1>6

LEMMA ClientStep ==
  ASSUME TypeOK, Client
  PROVE  /\ toClient # <<>> /\ toClient' = Tail(toClient)
         /\ UNCHANGED <<ambient, authenticated, srvChannels, loc>>
         /\ mySession' = IF Head(toClient).type = "ServerSync" THEN "me" ELSE mySession
         /\ currentZone' = IF Head(toClient).type = "UserState" THEN Confirm(Head(toClient))
                           ELSE currentZone
<1>1. \E type : Receive(type)
  BY ClientUpdates
<1>2. /\ toClient # <<>> /\ toClient' = Tail(toClient)
      /\ UNCHANGED <<ambient, authenticated, srvChannels, loc>>
  BY <1>1 DEF Receive, server
<1>3. CASE RecvChannelState \/ RecvChannelRemove \/ RecvPermissionDenied
  <2>1. Head(toClient).type \in {"ChannelState", "ChannelRemove", "PermissionDenied"}
    BY <1>3 DEF RecvChannelState, RecvChannelRemove, RecvPermissionDenied, Receive
  <2>2. UNCHANGED <<mySession, currentZone>>
    BY <1>3 DEF RecvChannelState, RecvChannelRemove, RecvPermissionDenied, session
  <2> QED
    BY <1>2, <2>1, <2>2
<1>4. CASE RecvServerSync
  BY <1>2, <1>4 DEF RecvServerSync, Receive
<1>5. CASE RecvUserState
  BY <1>2, <1>5 DEF RecvUserState, Receive
<1> QED
  BY <1>3, <1>4, <1>5 DEF Client

\* The client asks for nothing but moves, channels and the context.
LEMMA AuthSent ==
  ASSUME TypeOK, AuthInv, Client \/ CheckZoneChannel,
         Client => authenticated
  PROVE  AuthInv'
<1> DEFINE Asks == {m \in ToServerMsg : m.type # "Authenticate"}
<1>1. /\ \A n \in Zones : Create(n) \in Asks
      /\ \A c \in Ids : Move(c) \in Asks
      /\ [type |-> "Context"] \in Asks
  BY PacketTypes DEF Create, Move
<1> HIDE DEF Asks
<1>2. \A c \in Ids : ChannelMove(c) \in Seq(Asks)
  BY <1>1 DEF ChannelMove
<1>3. \E packets \in Seq(Asks) : toServer' = toServer \o packets
  <2>0. <<>> \in Seq(Asks) /\ toServer \o <<>> = toServer
    BY ConcatEmptySeq DEF TypeOK
  <2>1. CASE CheckZoneChannel
    <3>1. Requests \in Seq(Asks)
      <4>1. channels[zone] # None => channels[zone] \in Ids
        BY DEF TypeOK
      <4>2. zone \in Zones
        BY DEF TypeOK
      <4>3. (IF channels[zone] # None THEN ChannelMove(channels[zone]) ELSE <<>>) \in Seq(Asks)
        BY <1>2, <2>0, <4>1
      <4>4. (IF pending # zone THEN <<Create(zone)>> ELSE <<>>) \in Seq(Asks)
        BY <1>1, <2>0, <4>2
      <4> QED
        BY <2>0, <4>3, <4>4, ConcatProperties DEF Requests
    <3> QED
      BY <2>1, <3>1 DEF CheckZoneChannel, Send
  <2>2. CASE RecvChannelState
    <3> DEFINE m == Head(toClient)
               join == IF FirstSight(m.name) THEN <<Move(m.id)>> ELSE <<>>
               move == IF pending = m.name THEN ChannelMove(m.id) ELSE <<>>
    <3>1. m.name = None \/ m.id \in Ids
      BY <2>2, TypeReceive, ReceivedFields DEF RecvChannelState
    <3>2. CASE UNCHANGED toServer
      BY <2>0, <3>2
    <3>3. CASE m.name # None /\ Send(join \o move)
      <4>1. join \in Seq(Asks) /\ move \in Seq(Asks)
        BY <1>1, <1>2, <2>0, <3>1, <3>3
      <4> HIDE DEF join, move
      <4> QED
        BY <3>3, <4>1, ConcatProperties DEF Send
    <3> QED
      BY <2>2, <3>2, <3>3 DEF RecvChannelState
  <2>3. CASE RecvServerSync
    <3>1. target \in Zones /\ (channels[target] # None => channels[target] \in Ids)
      BY DEF TypeOK
    <3>2. <<[type |-> "Context"], Create(target)>> \in Seq(Asks)
      BY <1>1, <3>1
    <3>3. channels[target] # None => <<[type |-> "Context"], Move(channels[target])>> \in Seq(Asks)
      BY <1>1, <3>1
    <3> QED
      BY <2>3, <3>2, <3>3 DEF RecvServerSync, Send
  <2>4. CASE RecvChannelRemove \/ RecvUserState \/ RecvPermissionDenied
    BY <2>0, <2>4 DEF RecvChannelRemove, RecvUserState, RecvPermissionDenied
  <2> QED
    BY <2>1, <2>2, <2>3, <2>4 DEF Client
<1>4. PICK packets \in Seq(Asks) : toServer' = toServer \o packets
  BY <1>3
<1>5. /\ packets \in Seq(ToServerMsg) /\ toServer \in Seq(ToServerMsg)
      /\ \A i \in 1..Len(packets) : packets[i].type # "Authenticate"
  <2>1. packets \in Seq(ToServerMsg)
    BY SeqMonotonic DEF Asks
  <2>2. \A i \in 1..Len(packets) : packets[i] \in Asks
    BY ElementOfSeq
  <2> QED
    BY <2>1, <2>2 DEF Asks, TypeOK
<1>6. /\ Len(toServer) \in Nat /\ Len(packets) \in Nat
      /\ Len(toServer') = Len(toServer) + Len(packets)
      /\ \A i \in 1..Len(toServer) + Len(packets) :
           toServer'[i] = IF i <= Len(toServer) THEN toServer[i] ELSE packets[i - Len(toServer)]
  BY <1>4, <1>5, ConcatProperties
<1>7. ASSUME NEW i \in 1..Len(toServer'), toServer'[i].type = "Authenticate"
      PROVE  i \in 1..Len(toServer) /\ toServer[i].type = "Authenticate"
  <2>1. CASE i <= Len(toServer)
    BY <1>6, <1>7, <2>1
  <2>2. CASE ~(i <= Len(toServer))
    <3>1. i - Len(toServer) \in 1..Len(packets) /\ toServer'[i] = packets[i - Len(toServer)]
      BY <1>6, <2>2
    <3> QED
      BY <1>5, <1>7, <3>1
  <2> QED
    BY <2>1, <2>2
<1>8. toServer # <<>> => toServer' # <<>> /\ toServer'[1] = toServer[1]
  <2>1. toServer # <<>> => Len(toServer) > 0
    BY <1>5
  <2> QED
    BY <1>6, <2>1
<1>9. UNCHANGED <<authenticated, loc>> /\ (~authenticated => mySession' = mySession)
  <2>1. CASE Client
    BY <2>1, ClientStep
  <2>2. CASE CheckZoneChannel
    BY <2>2 DEF CheckZoneChannel, server
  <2> QED
    BY <2>1, <2>2
<1> QED
  BY <1>7, <1>8, <1>9 DEF AuthInv

\* A packet that the server handles.
LEMMA AuthHandled ==
  ASSUME TypeOK, AuthInv, NEW type, Handle(type),
         authenticated' <=> (authenticated \/ type = "Authenticate")
  PROVE  /\ AuthInv'
         /\ authenticated <=> type # "Authenticate"
<1>1. toServer \in Seq(ToServerMsg) /\ toServer # <<>> /\ toServer' = Tail(toServer)
      /\ Head(toServer).type = type
  BY DEF Handle, TypeOK
<1>2. /\ Len(toServer) \in Nat \ {0} /\ Len(toServer') = Len(toServer) - 1
      /\ \A i \in 1..Len(toServer') : i + 1 \in 1..Len(toServer) /\ toServer'[i] = toServer[i + 1]
      /\ toServer[1].type = type /\ 1 \in 1..Len(toServer)
  BY <1>1, HeadTailProperties
<1>3. authenticated <=> type # "Authenticate"
  BY <1>2 DEF AuthInv
<1>4. \A i \in 1..Len(toServer') : toServer'[i].type # "Authenticate"
  BY <1>2 DEF AuthInv
<1> QED
  BY <1>3, <1>4 DEF AuthInv

LEMMA AuthSpent ==
  ASSUME AuthInv, NEW event, Spend(event), loc' = loc \/ authenticated
  PROVE  AuthInv'
BY DEF AuthInv, Spend, session

\* The client handles a packet: the echo comes nearer, or confirms the zone.
LEMMA PlaceClient ==
  ASSUME TypeOK, CacheInv, PlaceInv, Client
  PROVE  PlaceInv'
<1> DEFINE m == Head(toClient)
<1>1. /\ toClient \in Seq(ToClientMsg) /\ toClient # <<>> /\ toClient' = Tail(toClient)
      /\ UNCHANGED <<ambient, authenticated, srvChannels, loc>>
      /\ mySession' = IF m.type = "ServerSync" THEN "me" ELSE mySession
      /\ currentZone' = IF m.type = "UserState" THEN Confirm(m) ELSE currentZone
      /\ mySession \in {None, "me"}
  BY ClientStep DEF TypeOK
<1>2. authenticated
  BY <1>1 DEF CacheInv
<1>3. AuthInv'
  BY <1>2, AuthSent DEF PlaceInv
<1>4. LocInv'
  BY <1>1 DEF PlaceInv, LocInv
<1>5. ASSUME NEW packets \in Seq(ToClientMsg), packets # <<>>, Head(packets) = m, Known(packets)
      PROVE  \/ mySession' # None
             \/ \E i \in 1..Len(Tail(packets)) : Tail(packets)[i].type = "ServerSync"
  BY <1>1, <1>5, OneLess
<1>6. SyncInv'
  BY <1>1, <1>2, <1>5 DEF PlaceInv, SyncInv, Known
<1>7. ~Echoes(m) => currentZone' = currentZone
  BY <1>1 DEF Confirm, Echoes
<1>8. ASSUME ambient, NEW n \in Zones, srvChannels[n] = loc
      PROVE  (EchoUnderway(n) \/ (Echoless(toClient) /\ currentZone = n))'
  <2>0. loc # None
    BY DEF TypeOK
  <2>1. CASE Echoless(toClient) /\ currentZone = n
    <3>1. ~Echoes(m) /\ Echoless(Tail(toClient))
      BY <1>1, <2>1, OneLess
    <3> QED
      BY <1>1, <1>7, <2>1, <3>1 DEF Echoless
  <2>2. CASE EchoUnderway(n)
    <3>1. PICK before \in Seq(ToClientMsg), after \in Seq(ToClientMsg) :
            /\ toClient = (before \o <<UserState("me", loc)>>) \o after
            /\ Echoless(after)
            /\ Known(before)
            /\ \E names \in [Zones -> Ids \cup {None}] :
                 /\ \A z \in Zones : Coherent(z, channels[z], before, names[z])
                 /\ \A z \in Zones : names[z] = loc <=> z = n
      BY <2>2 DEF EchoUnderway
    <3>2. PICK names \in [Zones -> Ids \cup {None}] :
            /\ \A z \in Zones : Coherent(z, channels[z], before, names[z])
            /\ \A z \in Zones : names[z] = loc <=> z = n
      BY <3>1
    <3> DEFINE echo == UserState("me", loc)
    <3>3. echo \in ToClientMsg /\ toClient = (before \o <<echo>>) \o after
      BY <3>1, PacketTypes DEF TypeOK
    <3>4. echo.type = "UserState" /\ echo.session = "me" /\ echo.id = loc
      BY DEF UserState
    <3> HIDE DEF echo
    <3>5. /\ before = <<>> => m = echo /\ Tail(toClient) = after
          /\ before # <<>> => /\ m = Head(before)
                             /\ Tail(toClient) = (Tail(before) \o <<echo>>) \o after
      <4>1. echo \in ToClientMsg
        BY <3>3
      <4>2. toClient = (before \o <<echo>>) \o after
        BY <3>3
      <4> QED
        BY <4>1, <4>2, SplitHead, SMTT(60)
    <3>6. CASE before = <<>>
      <4>1. mySession = "me"
        BY <1>1, <3>1, <3>6 DEF Known
      <4>2. \A z \in Zones : channels[z] = names[z]
        BY <3>2, <3>6 DEF Coherent, LastWord
      <4>3. CachedZone(loc) = n
        BY <3>2, <4>2 DEF CachedZone
      <4>4. Confirm(m) = n
        BY <1>8, <2>0, <3>4, <3>5, <3>6, <4>1, <4>3 DEF Confirm
      <4>5. currentZone' = n
        BY <1>1, <3>4, <3>5, <3>6, <4>4
      <4> QED
        BY <1>1, <3>1, <3>5, <3>6, <4>5 DEF Echoless
    <3>7. CASE before # <<>>
      <4>1. Tail(before) \in Seq(ToClientMsg)
        BY <3>7, HeadTailProperties
      <4>2. toClient' = (Tail(before) \o <<UserState("me", loc')>>) \o after
        BY <1>1, <3>5, <3>7 DEF echo
      <4>3. Known(Tail(before))'
        BY <1>5, <3>1, <3>5, <3>7 DEF Known
      <4>4. \A z \in Zones : Coherent(z, channels'[z], Tail(before), names[z])
        <5>1. \A z \in Zones : channels'[z] = Updated(m, z, channels[z])
          BY ClientUpdates
        <5>2. ASSUME NEW z \in Zones
              PROVE  Coherent(z, Updated(Head(before), z, channels[z]), Tail(before), names[z])
          BY <3>2, <3>7, ConsumeHead
        <5> QED
          BY <3>5, <3>7, <5>1, <5>2
      <4>5. \A z \in Zones : names[z] = loc' <=> z = n
        BY <1>1, <3>2
      <4>6. Echoless(after)'
        BY <3>1 DEF Echoless
      <4> QED
        BY <4>1, <4>2, <4>3, <4>4, <4>5, <4>6 DEF EchoUnderway
    <3> QED
      BY <3>6, <3>7
  <2> QED
    BY <1>2, <1>8, <2>1, <2>2 DEF PlaceInv, EchoInv
<1>9. EchoInv'
  BY <1>1, <1>8 DEF EchoInv
<1> QED
  BY <1>3, <1>4, <1>6, <1>9 DEF PlaceInv

\* Packets without an echo, while the client's channel keeps its name.
LEMMA PlaceNotify ==
  ASSUME TypeOK, PlaceInv, NEW packets \in Seq(ToClientMsg), Notify(packets), Echoless(packets),
         UNCHANGED <<authenticated, ambient, mySession, channels, currentZone, loc>>,
         \A n \in Zones : srvChannels'[n] = loc <=> srvChannels[n] = loc,
         AuthInv'
  PROVE  PlaceInv'
<1>1. LocInv'
  BY DEF PlaceInv, LocInv
<1>2. CASE ~authenticated
  BY <1>1, <1>2 DEF PlaceInv, SyncInv, EchoInv
<1>3. CASE authenticated
  <2>1. toClient' = toClient \o packets /\ toClient \in Seq(ToClientMsg)
    BY <1>3 DEF Notify, TypeOK
  <2>2. SyncInv'
    <3>1. Known(toClient \o packets)
      BY <1>3, <2>1, MorePackets DEF PlaceInv, SyncInv
    <3> QED
      BY <2>1, <3>1 DEF SyncInv, Known
  <2>3. ASSUME ambient, NEW n \in Zones, srvChannels[n] = loc
        PROVE  (EchoUnderway(n) \/ (Echoless(toClient) /\ currentZone = n))'
    <3>1. CASE Echoless(toClient) /\ currentZone = n
      <4>1. Echoless(toClient \o packets)
        BY <2>1, <3>1, MorePackets
      <4> QED
        BY <2>1, <3>1, <4>1 DEF Echoless
    <3>2. CASE EchoUnderway(n)
      <4>1. PICK before \in Seq(ToClientMsg), after \in Seq(ToClientMsg) :
              /\ toClient = (before \o <<UserState("me", loc)>>) \o after
              /\ Echoless(after)
              /\ Known(before)
              /\ \E names \in [Zones -> Ids \cup {None}] :
                   /\ \A z \in Zones : Coherent(z, channels[z], before, names[z])
                   /\ \A z \in Zones : names[z] = loc <=> z = n
        BY <3>2 DEF EchoUnderway
      <4>2. /\ after \o packets \in Seq(ToClientMsg)
            /\ Echoless(after \o packets)
        BY <4>1, MorePackets, ConcatProperties
      <4>3. toClient' = (before \o <<UserState("me", loc')>>) \o (after \o packets)
        <5> DEFINE front == before \o <<UserState("me", loc)>>
        <5>1. front \in Seq(ToClientMsg)
          BY PacketTypes, OneMore DEF TypeOK
        <5>2. toClient' = (front \o after) \o packets
          BY <2>1, <4>1
        <5>3. loc' = loc
          OBVIOUS
        <5> HIDE DEF front
        <5>4. toClient' = front \o (after \o packets)
          BY <5>1, <5>2, PacketsAssociative, ZenonT(30)
        <5> QED
          BY <5>3, <5>4 DEF front
      <4>4. Echoless(after \o packets)' /\ Known(before)'
        BY <4>1, <4>2 DEF Echoless, Known
      <4>5. \E names \in [Zones -> Ids \cup {None}] :
              /\ \A z \in Zones : Coherent(z, channels'[z], before, names[z])
              /\ \A z \in Zones : names[z] = loc' <=> z = n
        BY <4>1
      <4>6. EchoUnderway(n)'
        BY <4>2, <4>3, <4>4, <4>5 DEF EchoUnderway
      <4> QED
        BY <4>6
    <3> QED
      BY <1>3, <2>3, <3>1, <3>2 DEF PlaceInv, EchoInv
  <2>4. EchoInv'
    BY <2>3 DEF EchoInv
  <2> QED
    BY <1>1, <2>2, <2>4 DEF PlaceInv
<1> QED
  BY <1>2, <1>3

Regroups(s, t, u, v) == s \o ((t \o u) \o v) = ((s \o t) \o u) \o v

LEMMA PacketsRegroup ==
  ASSUME NEW s \in Seq(ToClientMsg), NEW t \in Seq(ToClientMsg),
         NEW u \in Seq(ToClientMsg), NEW v \in Seq(ToClientMsg)
  PROVE  Regroups(s, t, u, v)
<1>1. t \o u \in Seq(ToClientMsg)
  BY ConcatProperties
<1>2. (s \o (t \o u)) \o v = s \o ((t \o u) \o v)
  <2> DEFINE middle == t \o u
  <2>1. middle \in Seq(ToClientMsg)
    BY <1>1
  <2> HIDE DEF middle
  <2>2. (s \o middle) \o v = s \o (middle \o v)
    BY <2>1, PacketsAssociative, ZenonT(30)
  <2> QED
    BY <2>2 DEF middle
<1>3. (s \o t) \o u = s \o (t \o u)
  BY PacketsAssociative, ZenonT(30)
<1> QED
  BY <1>2, <1>3 DEF Regroups

\* What the server sends when it moves the client: the echo, and a removal perhaps.
LEMMA EnterPackets ==
  ASSUME TypeOK, authenticated, NEW c \in Ids \cup {Root}, NEW created \in Seq(ToClientMsg),
         NEW chans, Enter(c, created, chans)
  PROVE  \E after \in Seq(ToClientMsg) :
           /\ Echoless(after)
           /\ toClient' = ((toClient \o created) \o <<UserState("me", c)>>) \o after
<1> DEFINE gone == IF Emptied(c) # {} THEN <<ChannelRemove(loc)>> ELSE <<>>
           echo == <<UserState("me", c)>>
<1>1. Emptied(c) # {} => loc \in Ids
  BY DEF Emptied, TypeOK
<1>2. gone \in Seq(ToClientMsg) /\ Echoless(gone)
  <2>1. CASE Emptied(c) = {}
    BY <2>1 DEF Echoless
  <2>2. CASE Emptied(c) # {}
    <3>1. gone = <<ChannelRemove(loc)>>
      BY <2>2
    <3>2. gone \in Seq(ToClientMsg) /\ Len(gone) = 1 /\ gone[1] = ChannelRemove(loc)
      BY <1>1, <2>2, <3>1, PacketTypes
    <3> HIDE DEF gone
    <3> QED
      BY <3>2, EchoKinds DEF Echoless
  <2> QED
    BY <2>1, <2>2
<1>3. echo \in Seq(ToClientMsg) /\ toClient \in Seq(ToClientMsg)
  BY PacketTypes DEF TypeOK
<1>4. toClient' = toClient \o ((created \o echo) \o gone)
  BY DEF Enter, Notify
<1> HIDE DEF gone, echo
<1>5. Regroups(toClient, created, echo, gone)
  BY <1>2, <1>3, PacketsRegroup
<1> QED
  BY <1>2, <1>4, <1>5 DEF Regroups, echo

\* The server moves the client and says so.
LEMMA PlaceEnter ==
  ASSUME TypeOK, PlaceInv, authenticated,
         NEW c \in Ids \cup {Root}, NEW created \in Seq(ToClientMsg),
         NEW chans \in [Zones -> Ids \cup {None}], Enter(c, created, chans),
         \A y, z \in Zones : chans[y] = chans[z] /\ chans[y] # None => y = z,
         \A z \in Zones : srvChannels[z] # None => chans[z] = srvChannels[z],
         \A z \in Zones : Coherent(z, channels[z], toClient \o created, chans[z]),
         c = Root \/ \E z \in Zones : chans[z] = c,
         UNCHANGED <<authenticated, ambient, mySession, channels, currentZone>>,
         AuthInv'
  PROVE  PlaceInv'
<1> DEFINE echo == <<UserState("me", c)>>
           before == toClient \o created
<1>1. c # None /\ loc # None /\ toClient \in Seq(ToClientMsg) /\ loc' = c
  BY DEF TypeOK, Enter
<1>2. PICK after \in Seq(ToClientMsg) : Echoless(after) /\ toClient' = (before \o echo) \o after
  BY EnterPackets
<1>3. echo \in Seq(ToClientMsg)
  BY PacketTypes
<1>4. before \in Seq(ToClientMsg) /\ Known(before)
  BY <1>1, MorePackets, ConcatProperties DEF PlaceInv, SyncInv
<1>5. /\ \A z \in Zones : Coherent(z, channels'[z], before, chans[z])
      /\ srvChannels' = [z \in Zones |-> IF z \in Emptied(c) THEN None ELSE chans[z]]
  BY DEF Enter
<1> HIDE DEF echo, before
<1>6. LocInv'
  <2>1. ASSUME NEW z \in Zones, chans[z] = c
        PROVE  srvChannels'[z] = c
    <3>1. z \notin Emptied(c)
      BY <1>1, <2>1 DEF Emptied
    <3> QED
      BY <1>5, <2>1, <3>1
  <2> QED
    BY <1>1, <2>1 DEF LocInv
<1>7. SyncInv'
  <2>1. Known(before \o echo) /\ before \o echo \in Seq(ToClientMsg)
    BY <1>3, <1>4, MorePackets, ConcatProperties
  <2>2. Known((before \o echo) \o after)
    BY <2>1, MorePackets
  <2> QED
    BY <1>2, <2>2 DEF SyncInv, Known
<1>8. ASSUME NEW n \in Zones, srvChannels'[n] = c
      PROVE  EchoUnderway(n)'
  <2>1. chans[n] = c
    BY <1>1, <1>5, <1>8
  <2>2. \A z \in Zones : chans[z] = loc' <=> z = n
    BY <1>1, <2>1
  <2>3. PICK first \in Seq(ToClientMsg), rest \in Seq(ToClientMsg) :
          /\ toClient' = (first \o <<UserState("me", loc')>>) \o rest
          /\ Echoless(rest) /\ Known(first)
          /\ \A z \in Zones : Coherent(z, channels'[z], first, chans[z])
    BY <1>1, <1>2, <1>4, <1>5 DEF echo
  <2>4. Echoless(rest)' /\ Known(first)'
    BY <2>3 DEF Echoless, Known
  <2> QED
    BY <2>2, <2>3, <2>4 DEF EchoUnderway
<1>9. EchoInv'
  BY <1>1, <1>8 DEF EchoInv
<1> QED
  BY <1>6, <1>7, <1>9 DEF PlaceInv

LEMMA PlaceServer ==
  ASSUME TypeOK, CacheInv, PlaceInv, Server
  PROVE  PlaceInv'
<1>0. /\ toClient \in Seq(ToClientMsg) /\ srvChannels \in [Zones -> Ids \cup {None}]
      /\ loc \in Ids \cup {Root} /\ AuthInv
      /\ \A y, z \in Zones : srvChannels[y] = srvChannels[z] /\ srvChannels[y] # None => y = z
      /\ authenticated => \A z \in Zones : Coherent(z, channels[z], toClient, srvChannels[z])
      /\ UNCHANGED <<ambient, mySession, channels, currentZone>>
  <2>1. \E type : Handle(type)
    BY DEF Server, SrvAuthenticate, SrvContext, SrvMove, SrvCreate
  <2> QED
    BY <2>1 DEF TypeOK, PlaceInv, CacheInv, CacheCoherent, ServerSane, Handle, session
<1>1. toClient \o <<>> = toClient /\ <<>> \in Seq(ToClientMsg) /\ Echoless(<<>>)
  BY <1>0, ConcatEmptySeq DEF Echoless
<1>2. CASE SrvAuthenticate
  <2>1. AuthInv' /\ ~authenticated /\ authenticated' /\ UNCHANGED <<srvChannels, loc>>
    <3>1. Handle("Authenticate") /\ authenticated' = TRUE /\ UNCHANGED <<srvChannels, loc>>
      BY <1>2 DEF SrvAuthenticate
    <3>2. AuthInv' /\ (authenticated <=> "Authenticate" # "Authenticate")
      BY <1>0, <3>1, AuthHandled
    <3> QED
      BY <3>1, <3>2
  <2>2. loc = Root /\ \A n \in Zones : srvChannels'[n] # loc'
    BY <1>0, <2>1 DEF AuthInv
  <2>3. Known(toClient)'
    <3> DEFINE last == <<UserState("me", Root), [type |-> "ServerSync"]>>
    <3>1. PICK m, n \in Zones : toClient' = toClient \o Listed(m) \o Listed(n) \o last
      BY <1>2 DEF SrvAuthenticate
    <3>2. toClient \o Listed(m) \o Listed(n) \in Seq(ToClientMsg)
      <4>1. Listed(m) \in Seq(ToClientMsg) /\ Listed(n) \in Seq(ToClientMsg)
        BY <1>0, PacketTypes DEF Listed
      <4> QED
        BY <1>0, <4>1, ConcatProperties
    <3>3. last \in Seq(ToClientMsg) /\ Len(last) = 2 /\ last[2].type = "ServerSync"
      BY PacketTypes
    <3> DEFINE first == toClient \o Listed(m) \o Listed(n)
    <3>4. toClient' = first \o last /\ first \in Seq(ToClientMsg)
      BY <3>1, <3>2
    <3> HIDE DEF first, last
    <3>5. /\ Len(toClient') = Len(first) + 2 /\ Len(first) \in Nat
          /\ toClient'[Len(first) + 2] = last[2]
      <4>1. /\ Len(first \o last) = Len(first) + Len(last)
            /\ \A i \in 1 .. Len(first) + Len(last) :
                 (first \o last)[i] = IF i <= Len(first) THEN first[i] ELSE last[i - Len(first)]
        <5>1. first \in Seq(ToClientMsg) /\ last \in Seq(ToClientMsg)
          BY <3>3, <3>4
        <5> QED
          BY <5>1, ConcatProperties
      <4>2. Len(first) \in Nat
        BY <3>4
      <4>3. (first \o last)[Len(first) + 2] = last[(Len(first) + 2) - Len(first)]
        BY <3>3, <4>1, <4>2
      <4>4. (Len(first) + 2) - Len(first) = 2
        BY <4>2
      <4> QED
        BY <3>3, <3>4, <4>1, <4>2, <4>3, <4>4
    <3> QED
      BY <3>3, <3>5 DEF Known
  <2> QED
    BY <2>1, <2>2, <2>3 DEF PlaceInv, LocInv, SyncInv, EchoInv
<1>3. CASE SrvContext
  <2>1. AuthInv' /\ authenticated /\ UNCHANGED <<authenticated, toClient, srvChannels, loc>>
    <3>1. Handle("Context") /\ UNCHANGED <<authenticated, toClient, srvChannels, loc>>
      BY <1>3 DEF SrvContext
    <3>2. authenticated' <=> (authenticated \/ "Context" = "Authenticate")
      BY <3>1
    <3>3. AuthInv' /\ (authenticated <=> "Context" # "Authenticate")
      BY <1>0, <3>1, <3>2, AuthHandled
    <3> QED
      BY <3>1, <3>3
  <2> QED
    BY <1>0, <1>1, <2>1, PlaceNotify DEF Notify
<1>4. CASE SrvMove
  <2> DEFINE c == Head(toServer).id
  <2>1. Handle("Move") /\ AuthInv' /\ authenticated /\ authenticated' = authenticated
    <3>1. Handle("Move") /\ authenticated' = authenticated
      BY <1>4 DEF SrvMove
    <3>2. authenticated' <=> (authenticated \/ "Move" = "Authenticate")
      BY <3>1
    <3>3. AuthInv' /\ (authenticated <=> "Move" # "Authenticate")
      BY <1>0, <3>1, <3>2, AuthHandled
    <3> QED
      BY <3>1, <3>3
  <2>2. c \in Ids
    BY <2>1, TypeHandle, HandledFields
  <2> HIDE DEF c
  <2>3. CASE c \in Used /\ Enter(c, <<>>, srvChannels)
    <3>1. \E z \in Zones : srvChannels[z] = c
      BY <2>3 DEF Used
    <3>2. \A z \in Zones : Coherent(z, channels[z], toClient \o <<>>, srvChannels[z])
      BY <1>0, <1>1, <2>1
    <3> QED
      BY <1>0, <1>1, <2>1, <2>2, <2>3, <3>1, <3>2, PlaceEnter
  <2>4. CASE UNCHANGED <<toClient, srvChannels, loc>>
    BY <1>0, <1>1, <2>1, <2>4, PlaceNotify DEF Notify
  <2> QED
    BY <1>4, <2>3, <2>4 DEF SrvMove, c
<1>5. CASE SrvCreate
  <2> DEFINE n == Head(toServer).name
             denied == <<[type |-> "PermissionDenied"]>>
  <2>1. Handle("Create") /\ AuthInv' /\ authenticated /\ authenticated' = authenticated
    <3>1. Handle("Create") /\ authenticated' = authenticated
      BY <1>5 DEF SrvCreate
    <3>2. authenticated' <=> (authenticated \/ "Create" = "Authenticate")
      BY <3>1
    <3>3. AuthInv' /\ (authenticated <=> "Create" # "Authenticate")
      BY <1>0, <3>1, <3>2, AuthHandled
    <3> QED
      BY <3>1, <3>3
  <2>2. n \in Zones
    BY <2>1, TypeHandle, HandledFields
  <2> HIDE DEF n
  <2>3. CASE Notify(denied) /\ UNCHANGED <<srvChannels, loc>>
    <3>1. denied \in Seq(ToClientMsg) /\ Echoless(denied)
      BY PacketTypes, EchoKinds DEF Echoless
    <3> HIDE DEF denied
    <3> QED
      BY <1>0, <2>1, <2>3, <3>1, PlaceNotify
  <2>4. ASSUME NEW c \in Unused, srvChannels[n] = None,
               \/ Enter(c, <<ChannelState(n, c)>>, [srvChannels EXCEPT ![n] = c])
               \/ /\ srvChannels' = [srvChannels EXCEPT ![n] = c]
                  /\ Notify(<<ChannelState(n, c)>>)
                  /\ UNCHANGED loc
        PROVE  PlaceInv'
    <3> DEFINE chans == [srvChannels EXCEPT ![n] = c]
               created == <<ChannelState(n, c)>>
    <3>1. /\ c \in Ids /\ created \in Seq(ToClientMsg)
          /\ chans \in [Zones -> Ids \cup {None}]
          /\ \A y, z \in Zones : chans[y] = chans[z] /\ chans[y] # None => y = z
          /\ \A z \in Zones : srvChannels[z] # None => chans[z] = srvChannels[z]
          /\ \A z \in Zones : Coherent(z, channels[z], toClient \o created, chans[z])
      BY <2>1, <2>2, <2>4, CacheCreated
    <3>2. Enter(c, created, chans) \/ (srvChannels' = chans /\ Notify(created) /\ UNCHANGED loc)
      BY <2>4
    <3>3. chans[n] = c /\ \A z \in Zones : z # n => chans[z] = srvChannels[z]
      BY <1>0, <2>2, <3>1
    <3>4. Echoless(created)
      BY EchoKinds DEF Echoless
    <3>5. c # loc /\ srvChannels[n] # loc
      BY <1>0, <2>4 DEF Unused, Used, PlaceInv, LocInv
    <3> HIDE DEF chans, created
    <3>6. CASE Enter(c, created, chans)
      BY <1>0, <2>1, <2>2, <3>1, <3>3, <3>6, PlaceEnter
    <3>7. CASE srvChannels' = chans /\ Notify(created) /\ UNCHANGED loc
      <4>1. \A z \in Zones : srvChannels'[z] = loc <=> srvChannels[z] = loc
        BY <3>3, <3>5, <3>7
      <4> QED
        BY <1>0, <2>1, <3>1, <3>4, <3>7, <4>1, PlaceNotify
    <3> QED
      BY <3>2, <3>6, <3>7
  <2> QED
    BY <1>5, <2>3, <2>4 DEF SrvCreate, n
<1> QED
  BY <1>2, <1>3, <1>4, <1>5 DEF Server

LEMMA PlaceEnvironment ==
  ASSUME TypeOK, CacheInv, PlaceInv, Environment
  PROVE  PlaceInv'
<1>0. /\ toClient \in Seq(ToClientMsg) /\ srvChannels \in [Zones -> Ids \cup {None}]
      /\ loc \in Ids \cup {Root} /\ AuthInv
      /\ \A n \in occupied : n \in Zones /\ srvChannels[n] # None
      /\ \A y, z \in Zones : srvChannels[y] = srvChannels[z] /\ srvChannels[y] # None => y = z
      /\ authenticated => \A z \in Zones : Coherent(z, channels[z], toClient, srvChannels[z])
      /\ UNCHANGED <<ambient, mySession, channels, currentZone, authenticated>>
  <2>1. \E event : Spend(event)
    BY DEF Environment, SetZone, Occupy, Vacate, Kick, Noise
  <2> QED
    BY <2>1 DEF TypeOK, PlaceInv, CacheInv, CacheCoherent, ServerSane, Spend, session
<1>1. toClient \o <<>> = toClient /\ <<>> \in Seq(ToClientMsg) /\ Echoless(<<>>)
  BY <1>0, ConcatEmptySeq DEF Echoless
<1>2. AuthInv'
  <2>1. \E event : Spend(event) /\ (loc' = loc \/ authenticated)
    BY DEF Environment, SetZone, Occupy, Vacate, Kick, Noise
  <2> QED
    BY <1>0, <2>1, AuthSpent
<1>3. CASE SetZone
  <2>1. UNCHANGED <<toClient, srvChannels, loc>>
    BY <1>3 DEF SetZone
  <2> QED
    BY <1>0, <1>1, <1>2, <2>1, PlaceNotify DEF Notify
<1>4. CASE Occupy
  <2>1. loc' = loc
    BY <1>4 DEF Occupy
  <2>2. PICK n \in Zones :
          \/ /\ srvChannels[n] # None
             /\ Notify(<<UserState("other", srvChannels[n])>>)
             /\ UNCHANGED srvChannels
          \/ /\ srvChannels[n] = None
             /\ \E c \in Unused :
                  /\ srvChannels' = [srvChannels EXCEPT ![n] = c]
                  /\ Notify(<<ChannelState(n, c), UserState("other", c)>>)
    BY <1>4 DEF Occupy
  <2>3. CASE /\ srvChannels[n] # None
             /\ Notify(<<UserState("other", srvChannels[n])>>)
             /\ UNCHANGED srvChannels
    <3> DEFINE packets == <<UserState("other", srvChannels[n])>>
    <3>1. packets \in Seq(ToClientMsg) /\ Echoless(packets) /\ Notify(packets)
      BY <1>0, <2>3, PacketTypes, EchoKinds DEF Echoless
    <3> HIDE DEF packets
    <3> QED
      BY <1>0, <1>2, <2>1, <2>3, <3>1, PlaceNotify
  <2>4. ASSUME NEW c \in Unused, srvChannels[n] = None,
               srvChannels' = [srvChannels EXCEPT ![n] = c],
               Notify(<<ChannelState(n, c), UserState("other", c)>>)
        PROVE  PlaceInv'
    <3> DEFINE packets == <<ChannelState(n, c), UserState("other", c)>>
    <3>1. /\ packets \in Seq(ToClientMsg) /\ Len(packets) = 2
          /\ packets[1] = ChannelState(n, c) /\ packets[2] = UserState("other", c)
      BY <2>4, PacketTypes DEF Unused
    <3>2. Notify(packets)
      BY <2>4
    <3> HIDE DEF packets
    <3>3. Echoless(packets)
      BY <3>1, EchoKinds DEF Echoless
    <3>4. c # loc /\ srvChannels[n] # loc
      BY <1>0, <2>4 DEF Unused, Used, PlaceInv, LocInv
    <3>5. \A z \in Zones : srvChannels'[z] = loc <=> srvChannels[z] = loc
      BY <1>0, <2>4, <3>4
    <3> QED
      BY <1>0, <1>2, <2>1, <3>1, <3>2, <3>3, <3>5, PlaceNotify
  <2> QED
    BY <2>2, <2>3, <2>4
<1>5. CASE Vacate
  <2>1. loc' = loc
    BY <1>5 DEF Vacate
  <2>2. PICK n \in occupied :
          \/ /\ Notify(<<UserState("other", Root)>>)
             /\ UNCHANGED srvChannels
          \/ /\ srvChannels[n] # loc
             /\ srvChannels' = [srvChannels EXCEPT ![n] = None]
             /\ Notify(<<UserState("other", Root), ChannelRemove(srvChannels[n])>>)
    BY <1>5 DEF Vacate
  <2>3. CASE Notify(<<UserState("other", Root)>>) /\ UNCHANGED srvChannels
    <3> DEFINE packets == <<UserState("other", Root)>>
    <3>1. packets \in Seq(ToClientMsg) /\ Echoless(packets) /\ Notify(packets)
      BY <2>3, PacketTypes, EchoKinds DEF Echoless
    <3> HIDE DEF packets
    <3> QED
      BY <1>0, <1>2, <2>1, <2>3, <3>1, PlaceNotify
  <2>4. CASE /\ srvChannels[n] # loc
             /\ srvChannels' = [srvChannels EXCEPT ![n] = None]
             /\ Notify(<<UserState("other", Root), ChannelRemove(srvChannels[n])>>)
    <3> DEFINE packets == <<UserState("other", Root), ChannelRemove(srvChannels[n])>>
    <3>1. n \in Zones /\ srvChannels[n] \in Ids
      BY <1>0
    <3>2. /\ packets \in Seq(ToClientMsg) /\ Len(packets) = 2
          /\ packets[1] = UserState("other", Root)
          /\ packets[2] = ChannelRemove(srvChannels[n])
      BY <3>1, PacketTypes
    <3>3. Notify(packets)
      BY <2>4
    <3> HIDE DEF packets
    <3>4. Echoless(packets)
      BY <3>2, EchoKinds DEF Echoless
    <3>5. \A z \in Zones : srvChannels'[z] = loc <=> srvChannels[z] = loc
      BY <1>0, <2>4, <3>1
    <3> QED
      BY <1>0, <1>2, <2>1, <3>2, <3>3, <3>4, <3>5, PlaceNotify
  <2> QED
    BY <2>2, <2>3, <2>4
<1>6. CASE Kick
  <2>1. authenticated /\ Enter(Root, <<>>, srvChannels)
    BY <1>6 DEF Kick
  <2>2. \A z \in Zones : Coherent(z, channels[z], toClient \o <<>>, srvChannels[z])
    BY <1>0, <1>1, <2>1
  <2> QED
    BY <1>0, <1>1, <1>2, <2>1, <2>2, PlaceEnter
<1>7. CASE Noise
  <2>1. PICK m \in {ChannelState(None, Root), UserState("me", None)} : Notify(<<m>>)
    BY <1>7 DEF Noise
  <2>2. UNCHANGED <<srvChannels, loc>>
    BY <1>7 DEF Noise
  <2> DEFINE packets == <<m>>
  <2>3. m \in ToClientMsg /\ ~Echoes(m)
    BY PacketTypes, EchoKinds
  <2>4. packets \in Seq(ToClientMsg) /\ Echoless(packets) /\ Notify(packets)
    BY <2>1, <2>3 DEF Echoless
  <2> HIDE DEF packets
  <2> QED
    BY <1>0, <1>2, <2>2, <2>4, PlaceNotify
<1> QED
  BY <1>3, <1>4, <1>5, <1>6, <1>7 DEF Environment

LEMMA PlaceNext == TypeOK /\ CacheInv /\ PlaceInv /\ [Next]_vars => PlaceInv'
<1> SUFFICES ASSUME TypeOK, CacheInv, PlaceInv, [Next]_vars
             PROVE  PlaceInv'
  OBVIOUS
<1>1. CASE CheckZoneChannel
  <2>1. AuthInv' /\ UNCHANGED <<toClient, authenticated, ambient, mySession, channels,
                                currentZone, srvChannels, loc>>
    <3>1. Client => authenticated
      BY ClientStep DEF CacheInv
    <3> QED
      BY <1>1, <3>1, AuthSent DEF CheckZoneChannel, server, PlaceInv
  <2>2. <<>> \in Seq(ToClientMsg) /\ Echoless(<<>>) /\ toClient \o <<>> = toClient
    BY ConcatEmptySeq DEF Echoless, TypeOK
  <2> QED
    BY <2>1, <2>2, PlaceNotify DEF Notify
<1>2. CASE UNCHANGED vars
  <2>1. UNCHANGED <<toServer, toClient, authenticated, ambient, mySession, channels, currentZone,
                    srvChannels, loc>>
    BY <1>2 DEF vars, session, server
  <2>2. AuthInv'
    BY <2>1 DEF PlaceInv, AuthInv
  <2>3. <<>> \in Seq(ToClientMsg) /\ Echoless(<<>>) /\ toClient \o <<>> = toClient
    BY ConcatEmptySeq DEF Echoless, TypeOK
  <2> QED
    BY <2>1, <2>2, <2>3, PlaceNotify DEF Notify
<1> QED
  BY <1>1, <1>2, PlaceClient, PlaceServer, PlaceEnvironment DEF Next

\* Once the last echo is handled, the client has confirmed the zone it is in.
LEMMA PlaceConfirms == TypeOK /\ CacheInv /\ PlaceInv => ConfirmedZoneIsLocation
<1> SUFFICES ASSUME TypeOK, CacheInv, PlaceInv, ambient, mySession # None,
                    \A i \in DOMAIN toClient : ~Echoes(toClient[i]),
                    NEW n \in Zones, srvChannels[n] = loc
             PROVE  currentZone = n
  BY DEF ConfirmedZoneIsLocation
<1>1. authenticated /\ loc # None
  BY DEF PlaceInv, AuthInv, TypeOK
<1>2. ~EchoUnderway(n)
  <2> SUFFICES ASSUME EchoUnderway(n)
               PROVE  FALSE
    OBVIOUS
  <2>1. PICK before \in Seq(ToClientMsg), after \in Seq(ToClientMsg) :
          toClient = (before \o <<UserState("me", loc)>>) \o after
    BY DEF EchoUnderway
  <2> DEFINE echo == UserState("me", loc)
  <2>2. echo \in ToClientMsg /\ Echoes(echo)
    BY <1>1, PacketTypes, EchoKinds DEF TypeOK
  <2>3. toClient = (before \o <<echo>>) \o after
    BY <2>1
  <2> HIDE DEF echo
  <2>4. /\ Len(toClient) = Len(before) + 1 + Len(after)
        /\ toClient[Len(before) + 1] = echo
    BY <2>2, <2>3, SplitElements
  <2>5. Len(before) + 1 \in DOMAIN toClient
    BY <2>4 DEF TypeOK
  <2> QED
    BY <2>2, <2>4, <2>5
<1> QED
  BY <1>1, <1>2 DEF PlaceInv, EchoInv

\* In every reachable state with no echo in flight the zone that the client took for
\* confirmed is the one of the channel the server has it in (session.rs on_user_state).
THEOREM ConfirmedZoneStaysTrue == Spec => []ConfirmedZoneIsLocation
<1>1. Init => PlaceInv
  BY PlaceInit
<1>2. TypeOK /\ CacheInv /\ PlaceInv /\ [Next]_vars => PlaceInv'
  BY PlaceNext
<1> QED
  BY <1>1, <1>2, PlaceConfirms, CacheStays, PTL DEF Spec

----------------------------------------------------------------------------
(* Retries go on.  As long as nobody leaves and zone changes wait, a zone's *)
(* channel stays once it is there, and what the client is told and asks for *)
(* concerns it alone; a request that is still pending is either on its way, *)
(* or its answer is, or the channel is known.                               *)

Elems(packets) == {packets[i] : i \in 1 .. Len(packets)}

LEMMA ElemsParts ==
  /\ Elems(<<>>) = {}
  /\ \A m : Elems(<<m>>) = {m}
  /\ \A m, n : Elems(<<m, n>>) = {m, n}
<1>1. \A m : Len(<<m>>) = 1 /\ <<m>>[1] = m
  OBVIOUS
<1>2. \A m, n : Len(<<m, n>>) = 2 /\ <<m, n>>[1] = m /\ <<m, n>>[2] = n
  OBVIOUS
<1>3. Elems(<<>>) = {}
  BY DEF Elems
<1>4. ASSUME NEW m
      PROVE  Elems(<<m>>) = {m}
  BY <1>1 DEF Elems
<1>5. ASSUME NEW m, NEW n
      PROVE  Elems(<<m, n>>) = {m, n}
  <2>1. 1 .. 2 = {1, 2}
    OBVIOUS
  <2>2. Elems(<<m, n>>) = {<<m, n>>[i] : i \in {1, 2}}
    BY <1>2, <2>1 DEF Elems
  <2> QED
    BY <1>2, <2>2
<1> QED
  BY <1>3, <1>4, <1>5

LEMMA ElemsTyped ==
  ASSUME NEW S, NEW s \in Seq(S)
  PROVE  Elems(s) \subseteq S
BY DEF Elems

LEMMA ElemsConcat ==
  ASSUME NEW S, NEW s \in Seq(S), NEW t \in Seq(S)
  PROVE  Elems(s \o t) = Elems(s) \cup Elems(t)
<1>1. /\ Len(s \o t) = Len(s) + Len(t)
      /\ \A i \in 1 .. Len(s) + Len(t) :
           (s \o t)[i] = IF i <= Len(s) THEN s[i] ELSE t[i - Len(s)]
      /\ Len(s) \in Nat /\ Len(t) \in Nat
  BY ConcatProperties
<1>2. ASSUME NEW i \in 1 .. Len(s)
      PROVE  i \in 1 .. Len(s \o t) /\ (s \o t)[i] = s[i]
  BY <1>1
<1>3. ASSUME NEW i \in 1 .. Len(t)
      PROVE  i + Len(s) \in 1 .. Len(s \o t) /\ (s \o t)[i + Len(s)] = t[i]
  <2>1. i + Len(s) \in 1 .. Len(s) + Len(t) /\ ~(i + Len(s) <= Len(s)) /\ i + Len(s) - Len(s) = i
    BY <1>1
  <2> QED
    BY <1>1, <2>1
<1>4. ASSUME NEW i \in 1 .. Len(s \o t)
      PROVE  \/ i \in 1 .. Len(s) /\ (s \o t)[i] = s[i]
             \/ i - Len(s) \in 1 .. Len(t) /\ (s \o t)[i] = t[i - Len(s)]
  BY <1>1
<1>5. \A e : e \in Elems(s \o t) => e \in Elems(s) \cup Elems(t)
  BY <1>4 DEF Elems
<1>6. \A e : e \in Elems(s) => e \in Elems(s \o t)
  BY <1>2 DEF Elems
<1>7. \A e : e \in Elems(t) => e \in Elems(s \o t)
  BY <1>3 DEF Elems
<1> QED
  BY <1>5, <1>6, <1>7

LEMMA ElemsHead ==
  ASSUME NEW S, NEW s \in Seq(S), s # <<>>
  PROVE  Elems(s) = {Head(s)} \cup Elems(Tail(s)) /\ Head(s) \in S
<1>1. /\ Len(s) \in Nat /\ Len(s) > 0 /\ Len(Tail(s)) = Len(s) - 1 /\ Head(s) = s[1]
      /\ \A i \in 1 .. Len(s) - 1 : Tail(s)[i] = s[i + 1]
      /\ Head(s) \in S
  BY HeadTailProperties
<1>2. ASSUME NEW i \in 1 .. Len(Tail(s))
      PROVE  i + 1 \in 1 .. Len(s) /\ Tail(s)[i] = s[i + 1]
  BY <1>1
<1>3. ASSUME NEW i \in 1 .. Len(s)
      PROVE  i = 1 \/ (i - 1 \in 1 .. Len(Tail(s)) /\ Tail(s)[i - 1] = s[i])
  BY <1>1
<1>4. 1 \in 1 .. Len(s)
  BY <1>1
<1>5. \A e : e \in Elems(Tail(s)) => e \in Elems(s)
  BY <1>2 DEF Elems
<1>6. Head(s) \in Elems(s)
  BY <1>1, <1>4 DEF Elems
<1>7. \A e : e \in Elems(s) => e = Head(s) \/ e \in Elems(Tail(s))
  <2> TAKE e
  <2> HAVE e \in Elems(s)
  <2>1. PICK i \in 1 .. Len(s) : e = s[i]
    BY DEF Elems
  <2>2. CASE i = 1
    BY <2>1, <2>2, <1>1
  <2>3. CASE i # 1
    BY <2>1, <2>3, <1>3 DEF Elems
  <2> QED
    BY <2>2, <2>3
<1> QED
  BY <1>1, <1>5, <1>6, <1>7

Asking == Elems(toServer)
Telling == Elems(toClient)

\* Only the zone's channel is asked for.
OnlyZone ==
  \A m \in Asking : /\ m.type = "Move" => m.id = srvChannels[zone]
                    /\ m.type = "Create" => m.name = zone

\* What the client knows and is told of the zone's channel is so.
Told ==
  /\ channels[zone] # None => channels[zone] = srvChannels[zone]
  /\ \A m \in Telling : Announces(m, zone) => m.id = srvChannels[zone]

\* The initial join comes before any other zone.
JoinFirst ==
  /\ \/ ~channelJoined \/ mySession = None \/ ~authenticated
     \/ \E m \in Telling : m.type = "ServerSync"
     => zone = target
  /\ mySession # None /\ ~channelJoined => channels[target] = None

\* The client is in the root channel until it hears of another one.
Entered ==
  (currentZone # None \/ \E m \in Telling : Echoes(m) /\ m.id # Root) => loc # Root

\* A request that is pending for another zone is for the one the client has not left.
Outdated ==
  pending \notin {None, zone} =>
    /\ Asking = {} /\ srvChannels[pending] = loc
    /\ \A m \in Telling : ~Announces(m, pending) /\ m.type # "ServerSync"
    /\ channelJoined /\ mySession # None /\ authenticated

\* One that is pending for the zone is under way, answered, or served from the cache.
Asked ==
  pending = zone =>
    \/ Create(zone) \in Asking
    \/ \E m \in Telling : Announces(m, zone)
    \/ channels[zone] # None

\* What a client that follows its zone and its server agree on.
WishInv == OnlyZone /\ Told /\ JoinFirst /\ Entered /\ Outdated /\ Asked

\* The runs it holds in.
Calm == Undisturbed /\ ambient

\* The inductive invariant: the budgets are what makes calm a thing that only ends.
RetryInv ==
  /\ \A e \in Events : left[e] <= Budget[e]
  /\ Calm => WishInv

\* What is known of every state already.
PlaceKnown == TypeOK /\ CacheInv /\ PlaceInv /\ ConfirmedZoneIsLocation

\* The next packet is taken off; the server is not concerned.
LEMMA RetryReceive ==
  ASSUME PlaceKnown, Client
  PROVE  /\ Head(toClient) \in ToClientMsg
         /\ Telling = {Head(toClient)} \cup Telling'
         /\ Telling \subseteq ToClientMsg /\ Asking \subseteq ToServerMsg
         /\ UNCHANGED <<zone, ambient, target, authenticated, srvChannels, loc>>
         /\ authenticated
<1>1. toClient \in Seq(ToClientMsg) /\ toServer \in Seq(ToServerMsg) /\ TypeOK
  BY DEF PlaceKnown, TypeOK
<1>2. \E type : Receive(type)
  BY <1>1, ClientUpdates
<1>3. toClient # <<>> /\ toClient' = Tail(toClient)
      /\ UNCHANGED <<zone, ambient, target, authenticated, srvChannels, loc>>
  BY <1>2 DEF Receive, server
<1>4. Head(toClient) \in ToClientMsg /\ Telling = {Head(toClient)} \cup Telling'
  BY <1>1, <1>3, ElemsHead DEF Telling
<1>5. authenticated
  BY <1>3 DEF PlaceKnown, CacheInv
<1> QED
  BY <1>1, <1>3, <1>4, <1>5, ElemsTyped DEF Telling, Asking

\* What a handler or a tick sends is added to what is under way.
LEMMA RetrySend ==
  ASSUME PlaceKnown, NEW packets \in Seq(ToServerMsg), Send(packets)
  PROVE  Asking' = Asking \cup Elems(packets)
<1>1. toServer \in Seq(ToServerMsg)
  BY DEF PlaceKnown, TypeOK
<1> QED
  BY <1>1, ElemsConcat DEF Asking, Send

LEMMA RequestKinds ==
  /\ \A c : Move(c).type = "Move" /\ Move(c).id = c
  /\ \A n : Create(n).type = "Create" /\ Create(n).name = n
BY DEF Move, Create

LEMMA RetryChannelState == ASSUME PlaceKnown, WishInv, RecvChannelState PROVE WishInv'
<1> DEFINE m == Head(toClient)
           n == m.name
           c == m.id
<1>1. /\ m \in ToClientMsg /\ Telling = {m} \cup Telling' /\ m.type = "ChannelState"
      /\ UNCHANGED <<zone, ambient, target, authenticated, srvChannels, loc>>
      /\ UNCHANGED <<mySession, currentZone>> /\ authenticated
  BY RetryReceive DEF Client, RecvChannelState, Receive, session
<1>2. /\ zone \in Zones /\ target \in Zones /\ channels \in [Zones -> Ids \cup {None}]
      /\ srvChannels \in [Zones -> Ids \cup {None}]
  BY DEF PlaceKnown, TypeOK
<1>3. n = None \/ (n \in Zones /\ c \in Ids)
  BY <1>1, ReceivedFields
<1>4. \A k : Announces(m, k) <=> n = k
  BY <1>1 DEF Announces
<1> HIDE DEF m
<1>5. CASE n = None
  <2>1. UNCHANGED <<channels, channelJoined, pending, toServer>>
    BY <1>5 DEF RecvChannelState, session, m
  <2>2. Asking' = Asking
    BY <2>1 DEF Asking
  <2>3. ~Announces(m, zone)
    BY <1>2, <1>4, <1>5
  <2>4. \A e \in Telling' : e \in Telling
    BY <1>1
  <2> QED
    BY <1>1, <2>1, <2>2, <2>3, <2>4 DEF WishInv, OnlyZone, Told, JoinFirst, Entered, Outdated, Asked
<1>6. CASE n # None
  <2>1. n \in Zones /\ c \in Ids /\ Announces(m, n) /\ channels' = Learn(n, c)
    BY <1>3, <1>4, <1>6 DEF RecvChannelState, m
  <2>2. \A k \in Zones : channels'[k] = IF k = n THEN c ELSE channels[k]
    BY <2>1, <1>2 DEF Learn
  <2>3. n = zone => c = srvChannels[zone]
    BY <2>1, <1>1 DEF WishInv, Told
  <2>4. pending = n => n = zone
    BY <1>1, <1>6, <2>1 DEF WishInv, Outdated
  <2>5. FirstSight(n) => n = zone
    BY DEF FirstSight, WishInv, JoinFirst
  <2> DEFINE join == IF FirstSight(n) THEN <<Move(c)>> ELSE <<>>
             move == IF pending = n THEN ChannelMove(c) ELSE <<>>
  <2>6. /\ join \in Seq(ToServerMsg) /\ move \in Seq(ToServerMsg)
        /\ \A e \in Elems(join) \cup Elems(move) : e = Move(c) /\ n = zone
    <3>1. Move(c) \in ToServerMsg
      BY <2>1, PacketTypes
    <3>2. <<>> \in Seq(ToServerMsg) /\ <<Move(c)>> \in Seq(ToServerMsg)
      BY <3>1
    <3> QED
      BY <3>2, <2>4, <2>5, ElemsParts DEF ChannelMove
  <2>7. \/ UNCHANGED <<channelJoined, pending, toServer>> /\ FirstSight(n) /\ mySession = None
        \/ /\ channelJoined' = (channelJoined \/ FirstSight(n))
           /\ pending' = IF pending = n THEN None ELSE pending
           /\ Send(join \o move)
    BY <1>6 DEF RecvChannelState, m
  <2> HIDE DEF join, move, n, c
  <2>8. Asking \subseteq Asking' /\ Asking' \subseteq Asking \cup Elems(join) \cup Elems(move)
    <3>1. CASE Send(join \o move)
      <4>1. join \o move \in Seq(ToServerMsg) /\ Elems(join \o move) = Elems(join) \cup Elems(move)
        BY <2>6, ConcatProperties, ElemsConcat
      <4>2. Asking' = Asking \cup Elems(join \o move)
        BY <3>1, <4>1, RetrySend
      <4> QED
        BY <2>6, <4>1, <4>2
    <3> QED
      BY <2>7, <3>1 DEF Asking
  <2>9. OnlyZone'
    BY <1>1, <2>3, <2>6, <2>8, RequestKinds DEF WishInv, OnlyZone
  <2>10. Told'
    BY <1>1, <1>2, <2>2, <2>3 DEF WishInv, Told
  <2>11. JoinFirst'
    <3>1. mySession # None /\ ~channelJoined' => ~channelJoined /\ n # target
      BY <2>7 DEF FirstSight
    <3> QED
      BY <1>1, <1>2, <2>2, <2>7, <3>1 DEF WishInv, JoinFirst
  <2>12. Entered'
    BY <1>1 DEF WishInv, Entered
  <2>13. Outdated'
    <3> SUFFICES ASSUME pending' \notin {None, zone}
                 PROVE  /\ Asking' = {} /\ srvChannels[pending'] = loc
                        /\ \A e \in Telling' : ~Announces(e, pending') /\ e.type # "ServerSync"
                        /\ channelJoined' /\ mySession # None /\ authenticated
      BY <1>1 DEF Outdated
    <3>1. pending' = pending /\ (channelJoined => channelJoined')
      <4>1. CASE UNCHANGED <<channelJoined, pending, toServer>>
        BY <4>1
      <4>2. CASE /\ channelJoined' = (channelJoined \/ FirstSight(n))
                 /\ pending' = IF pending = n THEN None ELSE pending
        <5>1. pending' = pending
          BY <4>2
        <5>2. channelJoined => channelJoined'
          BY <4>2
        <5> QED
          BY <5>1, <5>2
      <4> QED
        BY <2>7, <4>1, <4>2
    <3>2. /\ Asking = {} /\ srvChannels[pending] = loc /\ channelJoined /\ mySession # None
          /\ \A e \in Telling : ~Announces(e, pending) /\ e.type # "ServerSync"
      BY <3>1 DEF WishInv, Outdated
    <3>3. n # pending /\ ~FirstSight(n)
      BY <3>2, <2>1, <1>1 DEF FirstSight
    <3>4. Asking' = {}
      <4>1. join = <<>> /\ move = <<>>
        BY <3>3 DEF join, move
      <4> QED
        BY <3>2, <4>1, <2>8, ElemsParts
    <3> QED
      BY <1>1, <3>1, <3>2, <3>4
  <2>14. Asked'
    <3> SUFFICES ASSUME pending' = zone
                 PROVE  \/ Create(zone) \in Asking'
                        \/ \E e \in Telling' : Announces(e, zone)
                        \/ channels'[zone] # None
      BY <1>1 DEF Asked
    <3>1. CASE n = zone
      BY <3>1, <1>2, <2>1, <2>2
    <3>2. CASE n # zone
      <4>1. pending = zone /\ channels'[zone] = channels[zone] /\ ~Announces(m, zone)
        BY <3>2, <1>2, <1>4, <2>2, <2>7 DEF n
      <4> QED
        BY <4>1, <1>1, <2>8 DEF WishInv, Asked
    <3> QED
      BY <3>1, <3>2
  <2> QED
    BY <2>9, <2>10, <2>11, <2>12, <2>13, <2>14 DEF WishInv
<1> QED
  BY <1>5, <1>6

\* A removal leaves the zone's channel in the cache, or it is announced once more.
LEMMA RetryChannelRemove == ASSUME PlaceKnown, WishInv, RecvChannelRemove PROVE WishInv'
<1> DEFINE m == Head(toClient)
<1>1. /\ m \in ToClientMsg /\ Telling = {m} \cup Telling' /\ m.type = "ChannelRemove"
      /\ UNCHANGED <<zone, ambient, target, authenticated, srvChannels, loc>>
      /\ UNCHANGED <<mySession, channelJoined, currentZone, pending>> /\ authenticated
      /\ Asking' = Asking
  BY RetryReceive DEF Client, RecvChannelRemove, Receive, session, Asking
<1>2. /\ zone \in Zones /\ target \in Zones /\ channels \in [Zones -> Ids \cup {None}]
      /\ srvChannels \in [Zones -> Ids \cup {None}] /\ toClient \in Seq(ToClientMsg)
      /\ toClient # <<>> /\ m = toClient[1] /\ Len(toClient) > 0
  BY DEF PlaceKnown, TypeOK, RecvChannelRemove, Receive
<1>3. m = ChannelRemove(m.id) /\ \A k \in Zones : ~Announces(m, k)
  BY <1>1, PacketKinds DEF ToClientMsg, ChannelRemove
<1>4. \A k \in Zones : channels'[k] = IF channels[k] = m.id THEN None ELSE channels[k]
  BY <1>2 DEF RecvChannelRemove, Forget
<1> HIDE DEF m
<1>5. ASSUME channels[zone] = m.id, channels[zone] # None
      PROVE  \E e \in Telling' : Announces(e, zone)
  <2>1. Coherent(zone, channels[zone], toClient, srvChannels[zone])
    BY <1>1, <1>2 DEF PlaceKnown, CacheInv, CacheCoherent
  <2>2. PICK i \in 0 .. Len(toClient) :
          LastWord(zone, channels[zone], toClient, srvChannels[zone], i)
    BY <2>1 DEF Coherent
  <2>3. srvChannels[zone] = channels[zone]
    BY <1>5 DEF WishInv, Told
  <2>4. i # 0
    <3> SUFFICES ASSUME i = 0
                 PROVE  FALSE
      OBVIOUS
    <3>1. 1 \in (0 + 1) .. Len(toClient) /\ toClient[1] = ChannelRemove(channels[zone])
      BY <1>2, <1>3, <1>5
    <3>2. srvChannels[zone] = None
      BY <2>2, <3>1 DEF LastWord
    <3> QED
      BY <1>5, <2>3, <3>2
  <2>5. i \in 1 .. Len(toClient) /\ Announces(toClient[i], zone)
    BY <2>2, <2>4 DEF LastWord
  <2>6. toClient[i] \in Telling /\ toClient[i] # m
    BY <1>2, <1>3, <2>5 DEF Telling, Elems
  <2> QED
    BY <1>1, <2>5, <2>6
<1>6. OnlyZone' /\ Entered'
  BY <1>1 DEF WishInv, OnlyZone, Entered
<1>7. Told'
  BY <1>1, <1>2, <1>4 DEF WishInv, Told
<1>8. JoinFirst'
  BY <1>1, <1>2, <1>4 DEF WishInv, JoinFirst
<1>9. Outdated'
  BY <1>1 DEF WishInv, Outdated
<1>10. Asked'
  BY <1>1, <1>2, <1>3, <1>4, <1>5 DEF WishInv, Asked
<1> QED
  BY <1>6, <1>7, <1>8, <1>9, <1>10 DEF WishInv

LEMMA RetryServerSync == ASSUME PlaceKnown, WishInv, RecvServerSync PROVE WishInv'
<1> DEFINE m == Head(toClient)
           context == [type |-> "Context"]
           ask == IF channels[target] # None THEN <<context, Move(channels[target])>>
                  ELSE <<context, Create(target)>>
<1>1. /\ m \in ToClientMsg /\ Telling = {m} \cup Telling' /\ m.type = "ServerSync"
      /\ UNCHANGED <<zone, ambient, target, authenticated, srvChannels, loc>>
      /\ UNCHANGED <<channels, currentZone, pending>> /\ authenticated /\ mySession' = "me"
  BY RetryReceive DEF Client, RecvServerSync, Receive
<1>2. /\ zone \in Zones /\ target \in Zones /\ channels \in [Zones -> Ids \cup {None}]
      /\ srvChannels \in [Zones -> Ids \cup {None}]
  BY DEF PlaceKnown, TypeOK
<1>3. m \in Telling /\ ~Announces(m, zone)
  BY <1>1 DEF Announces
<1> HIDE DEF m
<1>4. zone = target
  BY <1>1, <1>3 DEF WishInv, JoinFirst
<1>5. pending \in {None, zone}
  BY <1>1, <1>3 DEF WishInv, Outdated
<1>6. Send(ask) /\ channelJoined' = (channelJoined \/ channels[target] # None)
  <2>1. CASE channels[target] # None
    BY <2>1 DEF RecvServerSync
  <2>2. CASE channels[target] = None
    <3>1. channelJoined' = channelJoined /\ channelJoined \in BOOLEAN
      BY <2>2 DEF RecvServerSync, PlaceKnown, TypeOK
    <3> QED
      BY <2>2, <3>1 DEF RecvServerSync
  <2> QED
    BY <2>1, <2>2
<1>7. ask \in Seq(ToServerMsg)
  <2>1. /\ context \in ToServerMsg /\ Create(target) \in ToServerMsg
        /\ channels[target] # None => Move(channels[target]) \in ToServerMsg
    BY <1>2, PacketTypes
  <2> QED
    BY <2>1
<1>8. \A e \in Elems(ask) : \/ e = context \/ e = Create(zone)
                            \/ channels[zone] # None /\ e = Move(channels[zone])
  BY <1>4, ElemsParts
<1> HIDE DEF ask
<1>9. Asking' = Asking \cup Elems(ask)
  BY <1>6, <1>7, RetrySend
<1>10. OnlyZone'
  <2>1. context.type = "Context"
    OBVIOUS
  <2>2. \A e \in Elems(ask) : /\ e.type = "Move" => e.id = srvChannels[zone]
                              /\ e.type = "Create" => e.name = zone
    BY <1>8, <2>1, RequestKinds DEF WishInv, Told
  <2> QED
    BY <1>1, <1>9, <2>2 DEF WishInv, OnlyZone
<1>11. Told' /\ Entered'
  BY <1>1 DEF WishInv, Told, Entered
<1>12. JoinFirst'
  BY <1>1, <1>4, <1>6 DEF JoinFirst
<1>13. Outdated'
  BY <1>1, <1>5 DEF Outdated
<1>14. Asked'
  BY <1>1, <1>3, <1>9 DEF WishInv, Asked
<1> QED
  BY <1>10, <1>11, <1>12, <1>13, <1>14 DEF WishInv

LEMMA RetryUserState ==
  ASSUME PlaceKnown, WishInv, RecvUserState \/ RecvPermissionDenied
  PROVE  WishInv'
<1> DEFINE m == Head(toClient)
<1>1. /\ m \in ToClientMsg /\ Telling = {m} \cup Telling'
      /\ m.type \in {"UserState", "PermissionDenied"}
      /\ UNCHANGED <<zone, ambient, target, authenticated, srvChannels, loc>>
      /\ UNCHANGED <<mySession, channels, channelJoined, pending, toServer>> /\ authenticated
      /\ currentZone' = currentZone \/ (m.type = "UserState" /\ currentZone' = Confirm(m))
  BY RetryReceive DEF Client, RecvUserState, RecvPermissionDenied, Receive, session
<1>2. /\ zone \in Zones /\ channels \in [Zones -> Ids \cup {None}] /\ mySession \in {None, "me"}
  BY DEF PlaceKnown, TypeOK
<1>3. \A k : ~Announces(m, k)
  BY <1>1 DEF Announces
<1>4. Asking' = Asking
  BY <1>1 DEF Asking
<1> HIDE DEF m
<1>5. currentZone' # None => currentZone # None \/ (Echoes(m) /\ m.id # Root)
  <2> SUFFICES ASSUME currentZone' # None, currentZone = None
               PROVE  Echoes(m) /\ m.id # Root
    OBVIOUS
  <2>1. m.type = "UserState" /\ currentZone' = Confirm(m)
    BY <1>1
  <2>2. mySession = m.session /\ mySession # None /\ m.id # None /\ CachedZone(m.id) # None
    BY <2>1 DEF Confirm
  <2>3. \E k \in Zones : channels[k] = m.id
    BY <2>2 DEF CachedZone
  <2>4. m.id # Root
    BY <1>2, <2>2, <2>3
  <2> QED
    BY <1>2, <2>1, <2>2, <2>4 DEF Echoes
<1>6. OnlyZone' /\ Told' /\ JoinFirst'
  BY <1>1, <1>4 DEF WishInv, OnlyZone, Told, JoinFirst
<1>7. Entered'
  BY <1>1, <1>5 DEF WishInv, Entered
<1>8. Outdated'
  BY <1>1, <1>4 DEF WishInv, Outdated
<1>9. Asked'
  BY <1>1, <1>3, <1>4 DEF WishInv, Asked
<1> QED
  BY <1>6, <1>7, <1>8, <1>9 DEF WishInv

LEMMA RetryCheck == ASSUME PlaceKnown, WishInv, CheckZoneChannel PROVE WishInv'
<1>1. /\ UNCHANGED <<zone, target, mySession, channels, channelJoined, currentZone, toClient,
                     authenticated, srvChannels, loc>>
      /\ pending' = NextPending /\ Send(Requests)
  BY DEF CheckZoneChannel, server
<1>2. /\ zone \in Zones /\ channels \in [Zones -> Ids \cup {None}]
  BY DEF PlaceKnown, TypeOK
<1>3. Telling' = Telling
  BY <1>1 DEF Telling
<1> DEFINE move == IF channels[zone] # None THEN ChannelMove(channels[zone]) ELSE <<>>
           create == IF pending # zone THEN <<Create(zone)>> ELSE <<>>
<1>4. /\ move \in Seq(ToServerMsg) /\ create \in Seq(ToServerMsg)
      /\ \A e \in Elems(move) : channels[zone] # None /\ e = Move(channels[zone])
      /\ Elems(create) = IF pending # zone THEN {Create(zone)} ELSE {}
  <2>1. /\ channels[zone] # None => Move(channels[zone]) \in ToServerMsg
        /\ Create(zone) \in ToServerMsg
    BY <1>2, PacketTypes
  <2> QED
    <3>1. <<>> \in Seq(ToServerMsg) /\ <<Create(zone)>> \in Seq(ToServerMsg)
      BY <2>1
    <3>2. channels[zone] # None => <<Move(channels[zone])>> \in Seq(ToServerMsg)
      BY <2>1
    <3>3. \/ move = <<>>
          \/ channels[zone] # None /\ move = <<Move(channels[zone])>>
      BY DEF ChannelMove
    <3>4. create = IF pending # zone THEN <<Create(zone)>> ELSE <<>>
      OBVIOUS
    <3> HIDE DEF move, create
    <3>5. move \in Seq(ToServerMsg) /\ create \in Seq(ToServerMsg)
      BY <3>1, <3>2, <3>3, <3>4
    <3>6. \A e \in Elems(move) : channels[zone] # None /\ e = Move(channels[zone])
      BY <3>3, ElemsParts
    <3>7. Elems(create) = IF pending # zone THEN {Create(zone)} ELSE {}
      BY <3>4, ElemsParts
    <3> QED
      BY <3>5, <3>6, <3>7
<1>5. Requests = IF currentZone = zone THEN <<>> ELSE move \o create
  BY DEF Requests
<1> HIDE DEF move, create
<1>6. CASE currentZone = zone
  <2>1. pending' = pending
    BY <1>1, <1>6 DEF NextPending
  <2>2. Asking' = Asking
    <3>1. <<>> \in Seq(ToServerMsg) /\ Send(<<>>)
      BY <1>1, <1>5, <1>6
    <3> QED
      BY <3>1, RetrySend, ElemsParts
  <2> QED
    BY <1>1, <1>3, <2>1, <2>2 DEF WishInv, OnlyZone, Told, JoinFirst, Entered, Outdated, Asked
<1>7. CASE currentZone # zone
  <2>1. pending' = zone
    BY <1>1, <1>7 DEF NextPending
  <2>2. Asking' = Asking \cup Elems(move) \cup Elems(create)
    <3>1. move \o create \in Seq(ToServerMsg)
          /\ Elems(move \o create) = Elems(move) \cup Elems(create)
      BY <1>4, ConcatProperties, ElemsConcat
    <3>2. Asking' = Asking \cup Elems(move \o create)
      BY <1>1, <1>5, <1>7, <3>1, RetrySend
    <3> QED
      BY <3>1, <3>2
  <2>3. OnlyZone'
    <3>1. \A e \in Elems(move) \cup Elems(create) :
            /\ e.type = "Move" => e.id = srvChannels[zone]
            /\ e.type = "Create" => e.name = zone
      BY <1>4, RequestKinds DEF WishInv, Told
    <3> QED
      BY <1>1, <2>2, <3>1 DEF WishInv, OnlyZone
  <2>4. Told' /\ JoinFirst' /\ Entered'
    BY <1>1, <1>3 DEF WishInv, Told, JoinFirst, Entered
  <2>5. Outdated'
    BY <1>1, <2>1 DEF Outdated
  <2>6. Asked'
    BY <1>1, <1>3, <1>4, <2>2 DEF WishInv, Asked
  <2> QED
    BY <2>3, <2>4, <2>5, <2>6 DEF WishInv
<1> QED
  BY <1>6, <1>7

\* The server takes a packet: the client is not concerned.
LEMMA RetryHandle ==
  ASSUME PlaceKnown, WishInv, NEW type, Handle(type)
  PROVE  /\ Head(toServer) \in ToServerMsg /\ Head(toServer).type = type
         /\ Asking = {Head(toServer)} \cup Asking' /\ Asking \subseteq ToServerMsg
         /\ UNCHANGED <<zone, target, mySession, channels, channelJoined, currentZone, pending>>
         /\ pending \in {None, zone}
         /\ type # "Authenticate" => authenticated
<1>1. toServer \in Seq(ToServerMsg) /\ toServer # <<>> /\ toServer' = Tail(toServer)
      /\ Head(toServer).type = type /\ Head(toServer) = toServer[1]
      /\ UNCHANGED <<zone, target, mySession, channels, channelJoined, currentZone, pending>>
  BY DEF Handle, PlaceKnown, TypeOK, session
<1>2. Head(toServer) \in ToServerMsg /\ Asking = {Head(toServer)} \cup Asking'
  BY <1>1, ElemsHead DEF Asking
<1>3. pending \in {None, zone}
  BY <1>2 DEF WishInv, Outdated
<1>4. type # "Authenticate" => authenticated
  BY <1>1 DEF PlaceKnown, PlaceInv, AuthInv
<1> QED
  BY <1>1, <1>2, <1>3, <1>4, ElemsTyped DEF Asking

\* What the server sends is added to what is under way.
LEMMA RetryNotify ==
  ASSUME PlaceKnown, NEW packets \in Seq(ToClientMsg), Notify(packets)
  PROVE  Telling \subseteq Telling' /\ Telling' \subseteq Telling \cup Elems(packets)
         /\ (authenticated => Telling' = Telling \cup Elems(packets))
<1>1. toClient \in Seq(ToClientMsg)
  BY DEF PlaceKnown, TypeOK
<1> QED
  BY <1>1, ElemsConcat DEF Telling, Notify

\* The zone's channel is there and stays there; the packets are not about it.
LEMMA RetryKept ==
  ASSUME PlaceKnown, WishInv, pending \in {None, zone},
         UNCHANGED <<zone, target, mySession, channels, channelJoined, currentZone, pending>>,
         srvChannels'[zone] = srvChannels[zone], authenticated' = authenticated,
         Asking' \subseteq Asking,
         Create(zone) \in Asking => \/ Create(zone) \in Asking'
                                    \/ \E e \in Telling' : Announces(e, zone)
                                    \/ channels[zone] # None,
         Telling \subseteq Telling',
         NEW news, Telling' \subseteq Telling \cup news,
         \A e \in news : e.type # "ChannelState" /\ e.type # "ServerSync",
         loc' = loc \/ loc' # Root,
         \A e \in news : Echoes(e) /\ e.id # Root => loc' # Root
  PROVE  WishInv'
<1>0. \A e \in Telling' : e \in Telling \/ e \in news
  OBVIOUS
<1>1. \A e \in news : ~Announces(e, zone)
  BY DEF Announces
<1>2. OnlyZone'
  BY DEF WishInv, OnlyZone
<1>3. Told'
  BY <1>0, <1>1 DEF WishInv, Told
<1>4. JoinFirst'
  BY <1>0 DEF WishInv, JoinFirst
<1>5. Entered'
  BY <1>0 DEF WishInv, Entered
<1>6. Outdated'
  BY DEF Outdated
<1>7. Asked'
  BY DEF WishInv, Asked
<1> QED
  BY <1>2, <1>3, <1>4, <1>5, <1>6, <1>7 DEF WishInv

\* The zone's channel is created: so far it was neither known nor asked for by id.
LEMMA RetryCreated ==
  ASSUME PlaceKnown, WishInv, pending \in {None, zone}, authenticated,
         UNCHANGED <<zone, target, mySession, channels, channelJoined, currentZone, pending,
                     authenticated>>,
         srvChannels[zone] = None, NEW c \in Ids, srvChannels'[zone] = c,
         Asking' \subseteq Asking,
         NEW news, Telling' = Telling \cup news, ChannelState(zone, c) \in news,
         \A e \in news : e = ChannelState(zone, c)
                         \/ (e.type # "ChannelState" /\ e.type # "ServerSync"),
         loc' = loc \/ loc' # Root,
         \A e \in news : Echoes(e) /\ e.id # Root => loc' # Root
  PROVE  WishInv'
<1>1. /\ zone \in Zones /\ channels \in [Zones -> Ids \cup {None}]
      /\ Asking \subseteq ToServerMsg /\ Telling \subseteq ToClientMsg
  BY ElemsTyped DEF PlaceKnown, TypeOK, Asking, Telling
<1>2. channels[zone] = None
  BY <1>1 DEF WishInv, Told
<1>3. \A e \in Telling : ~Announces(e, zone)
  <2> SUFFICES ASSUME NEW e \in Telling, Announces(e, zone)
               PROVE  FALSE
    OBVIOUS
  <2>1. e.type = "ChannelState" /\ e.name = zone /\ e.id = None
    BY DEF Announces, WishInv, Told
  <2>2. e.id \in Ids
    BY <1>1, <2>1, ReceivedFields
  <2> QED
    BY <2>1, <2>2
<1>4. \A e \in Asking : e.type # "Move"
  <2>1. \A e \in Asking : e.type = "Move" => e.id = None /\ e.id \in Ids
    BY <1>1, HandledFields DEF WishInv, OnlyZone
  <2> QED
    BY <2>1
<1>5. /\ ChannelState(zone, c).type = "ChannelState" /\ ChannelState(zone, c).id = c
      /\ Announces(ChannelState(zone, c), zone) /\ ~Echoes(ChannelState(zone, c))
  BY DEF ChannelState, Announces, Echoes
<1>6. OnlyZone'
  BY <1>4 DEF WishInv, OnlyZone
<1>7. Told'
  <2>1. \A e \in news : Announces(e, zone) => e.id = c
    BY <1>5 DEF Announces
  <2> QED
    BY <1>2, <1>3, <2>1 DEF Told
<1>8. JoinFirst'
  <2>1. \A e \in news : e.type # "ServerSync"
    BY <1>5
  <2> QED
    BY <2>1 DEF WishInv, JoinFirst
<1>9. Entered'
  BY DEF WishInv, Entered
<1>10. Outdated'
  BY DEF Outdated
<1>11. Asked'
  BY <1>5 DEF Asked
<1> QED
  BY <1>6, <1>7, <1>8, <1>9, <1>10, <1>11 DEF WishInv

\* A channel that is there is known to the client, or announced to it.
LEMMA KnownOrTold ==
  ASSUME PlaceKnown, authenticated, srvChannels[zone] # None
  PROVE  channels[zone] # None \/ \E e \in Telling : Announces(e, zone)
<1>1. zone \in Zones /\ toClient \in Seq(ToClientMsg)
  BY DEF PlaceKnown, TypeOK
<1>2. Coherent(zone, channels[zone], toClient, srvChannels[zone])
  BY <1>1 DEF PlaceKnown, CacheInv, CacheCoherent
<1>3. PICK i \in 0 .. Len(toClient) :
        LastWord(zone, channels[zone], toClient, srvChannels[zone], i)
  BY <1>2 DEF Coherent
<1>4. CASE i = 0
  BY <1>3, <1>4 DEF LastWord
<1>5. CASE i # 0
  <2>1. i \in 1 .. Len(toClient) /\ Announces(toClient[i], zone)
    BY <1>1, <1>3, <1>5 DEF LastWord
  <2> QED
    BY <2>1 DEF Telling, Elems
<1> QED
  BY <1>4, <1>5

\* The client is put into a channel.
LEMMA RetryEnter ==
  ASSUME PlaceKnown, authenticated, NEW c \in Ids, NEW created \in Seq(ToClientMsg), NEW chans,
         Enter(c, created, chans)
  PROVE  /\ loc' = c /\ c # Root
         /\ \A k \in Zones : srvChannels[k] # loc \/ loc = c => srvChannels'[k] = chans[k]
         /\ \E news : /\ Telling' = Telling \cup news /\ Elems(created) \subseteq news
                      /\ \A e \in news : e \in Elems(created)
                                         \/ (e.type # "ChannelState" /\ e.type # "ServerSync")
<1>1. /\ loc \in Ids \cup {Root} /\ srvChannels \in [Zones -> Ids \cup {None}]
  BY DEF PlaceKnown, TypeOK
<1> DEFINE echo == <<UserState("me", c)>>
           gone == IF Emptied(c) # {} THEN <<ChannelRemove(loc)>> ELSE <<>>
<1>2. Emptied(c) # {} => loc \in Ids
  BY <1>1 DEF Emptied
<1>3. echo \in Seq(ToClientMsg) /\ Elems(echo) = {UserState("me", c)}
  <2>1. UserState("me", c) \in ToClientMsg
    BY PacketTypes
  <2> QED
    BY <2>1, ElemsParts
<1>4. gone \in Seq(ToClientMsg) /\ \A e \in Elems(gone) : e.type = "ChannelRemove"
  <2>1. CASE Emptied(c) # {}
    <3>1. ChannelRemove(loc) \in ToClientMsg /\ gone = <<ChannelRemove(loc)>>
      BY <1>2, <2>1, PacketTypes
    <3> HIDE DEF gone
    <3> QED
      BY <3>1, ElemsParts, PacketKinds
  <2>2. CASE Emptied(c) = {}
    BY <2>2, ElemsParts
  <2> QED
    BY <2>1, <2>2
<1>5. Notify((created \o echo) \o gone)
  BY DEF Enter
<1>6. /\ loc' = c /\ srvChannels' = [k \in Zones |-> IF k \in Emptied(c) THEN None ELSE chans[k]]
  BY DEF Enter
<1> HIDE DEF echo, gone
<1>7. created \o echo \in Seq(ToClientMsg) /\ (created \o echo) \o gone \in Seq(ToClientMsg)
  BY <1>3, <1>4, ConcatProperties
<1>8. Elems((created \o echo) \o gone) = Elems(created) \cup Elems(echo) \cup Elems(gone)
  <2>1. Elems(created \o echo) = Elems(created) \cup Elems(echo)
    BY <1>3, ElemsConcat
  <2>2. Elems((created \o echo) \o gone) = Elems(created \o echo) \cup Elems(gone)
    <3> DEFINE front == created \o echo
    <3>1. front \in Seq(ToClientMsg) /\ gone \in Seq(ToClientMsg)
      BY <1>4, <1>7
    <3> HIDE DEF front
    <3>2. Elems(front \o gone) = Elems(front) \cup Elems(gone)
      BY <3>1, ElemsConcat
    <3> QED
      BY <3>2 DEF front
  <2> QED
    BY <2>1, <2>2
<1>9. Telling' = Telling \cup Elems((created \o echo) \o gone)
  BY <1>5, <1>7, RetryNotify
<1>10. \A k \in Zones : srvChannels[k] # loc \/ loc = c => srvChannels'[k] = chans[k]
  BY <1>6 DEF Emptied
<1>11. UserState("me", c).type = "UserState"
  BY PacketKinds
<1> DEFINE news == Elems(created) \cup Elems(echo) \cup Elems(gone)
<1>12. /\ Telling' = Telling \cup news /\ Elems(created) \subseteq news
       /\ \A e \in news : e \in Elems(created) \/ (e.type # "ChannelState" /\ e.type # "ServerSync")
  BY <1>3, <1>4, <1>8, <1>9, <1>11
<1> HIDE DEF news
<1> QED
  BY <1>6, <1>10, <1>12

LEMMA RetryAuthenticate == ASSUME PlaceKnown, WishInv, SrvAuthenticate PROVE WishInv'
<1>1. /\ Head(toServer).type = "Authenticate" /\ Asking = {Head(toServer)} \cup Asking'
      /\ UNCHANGED <<zone, target, mySession, channels, channelJoined, currentZone, pending>>
      /\ pending \in {None, zone}
  BY RetryHandle DEF SrvAuthenticate
<1>2. UNCHANGED <<srvChannels, loc>> /\ authenticated'
  BY DEF SrvAuthenticate
<1>3. ~authenticated
  BY <1>1 DEF SrvAuthenticate, Handle, PlaceKnown, TypeOK, PlaceInv, AuthInv
<1>4. /\ toClient = <<>> /\ channels = [k \in Zones |-> None] /\ mySession = None
      /\ srvChannels \in [Zones -> Ids \cup {None}] /\ zone \in Zones /\ zone = target
  BY <1>3 DEF PlaceKnown, TypeOK, CacheInv, PlaceInv, AuthInv, WishInv, JoinFirst
<1>5. Telling = {}
  BY <1>4, ElemsParts DEF Telling
<1>6. PICK m, n \in Zones :
        toClient' = ((<<>> \o Listed(m)) \o Listed(n))
                    \o <<UserState("me", Root), [type |-> "ServerSync"]>>
  BY <1>4 DEF SrvAuthenticate
<1> DEFINE last == <<UserState("me", Root), [type |-> "ServerSync"]>>
<1>7. \A k \in Zones : /\ Listed(k) \in Seq(ToClientMsg)
                      /\ \A e \in Elems(Listed(k)) : e = ChannelState(k, srvChannels[k])
  <2> TAKE k \in Zones
  <2>1. CASE srvChannels[k] # None
    <3>1. ChannelState(k, srvChannels[k]) \in ToClientMsg
          /\ Listed(k) = <<ChannelState(k, srvChannels[k])>>
      BY <1>4, <2>1, PacketTypes DEF Listed
    <3> QED
      BY <3>1, ElemsParts
  <2>2. CASE srvChannels[k] = None
    BY <2>2, ElemsParts DEF Listed
  <2> QED
    BY <2>1, <2>2
<1>8. last \in Seq(ToClientMsg) /\ Elems(last) = {UserState("me", Root), [type |-> "ServerSync"]}
  <2>1. UserState("me", Root) \in ToClientMsg /\ [type |-> "ServerSync"] \in ToClientMsg
    BY PacketTypes
  <2> QED
    BY <2>1, ElemsParts
<1>8a. toClient' = ((<<>> \o Listed(m)) \o Listed(n)) \o last
  BY <1>6
<1> HIDE DEF last
<1>9. Telling' \subseteq Elems(Listed(m)) \cup Elems(Listed(n)) \cup Elems(last)
  <2>1. <<>> \in Seq(ToClientMsg)
    OBVIOUS
  <2>2. <<>> \o Listed(m) \in Seq(ToClientMsg) /\ Elems(<<>> \o Listed(m)) = Elems(Listed(m))
    BY <1>7, <2>1, ConcatProperties, ElemsConcat, ElemsParts
  <2>3. (<<>> \o Listed(m)) \o Listed(n) \in Seq(ToClientMsg)
        /\ Elems((<<>> \o Listed(m)) \o Listed(n)) = Elems(Listed(m)) \cup Elems(Listed(n))
    BY <1>7, <2>2, ConcatProperties, ElemsConcat
  <2>4. Elems(toClient') = Elems((<<>> \o Listed(m)) \o Listed(n)) \cup Elems(last)
    <3> DEFINE list == (<<>> \o Listed(m)) \o Listed(n)
    <3>1. list \in Seq(ToClientMsg) /\ toClient' = list \o last
      BY <1>8a, <2>3
    <3> HIDE DEF list
    <3>2. Elems(list \o last) = Elems(list) \cup Elems(last)
      BY <1>8, <3>1, ElemsConcat
    <3> QED
      BY <3>1, <3>2 DEF list
  <2> QED
    BY <2>3, <2>4 DEF Telling
<1>10. \A e \in Telling' : \/ \E k \in Zones : e = ChannelState(k, srvChannels[k])
                           \/ e = UserState("me", Root)
                           \/ e.type = "ServerSync"
  BY <1>7, <1>8, <1>9
<1>11. \A e \in Telling' : /\ Announces(e, zone) => e.id = srvChannels[zone]
                           /\ Echoes(e) => e.id = Root
  BY <1>4, <1>10, EchoKinds, PacketKinds DEF UserState, Announces
<1>12. OnlyZone'
  BY <1>1, <1>2 DEF WishInv, OnlyZone
<1>13. Told'
  BY <1>1, <1>2, <1>4, <1>11 DEF Told
<1>14. JoinFirst'
  BY <1>1, <1>4 DEF JoinFirst
<1>15. Entered'
  BY <1>1, <1>2, <1>11 DEF WishInv, Entered
<1>16. Outdated'
  BY <1>1 DEF Outdated
<1>17. Asked'
  BY <1>1, <1>4, <1>5, RequestKinds DEF WishInv, Asked
<1> QED
  BY <1>12, <1>13, <1>14, <1>15, <1>16, <1>17 DEF WishInv

LEMMA RetryServer == ASSUME PlaceKnown, WishInv, Server PROVE WishInv'
<1>1. CASE SrvContext
  <2>1. /\ Head(toServer).type = "Context" /\ Asking = {Head(toServer)} \cup Asking'
        /\ UNCHANGED <<zone, target, mySession, channels, channelJoined, currentZone, pending>>
        /\ pending \in {None, zone}
    BY <1>1, RetryHandle DEF SrvContext
  <2>2. UNCHANGED <<toClient, authenticated, srvChannels, loc>> /\ Telling' = Telling
    BY <1>1 DEF SrvContext, Telling
  <2>3. Create(zone) \in Asking => Create(zone) \in Asking'
    BY <2>1, RequestKinds
  <2> DEFINE nothing == {}
  <2>4. Asking' \subseteq Asking /\ Telling \subseteq Telling' /\ Telling' \subseteq Telling \cup nothing
    BY <2>1, <2>2
  <2>5. /\ loc' = loc /\ srvChannels'[zone] = srvChannels[zone] /\ authenticated' = authenticated
        /\ \A e \in nothing : e.type # "ChannelState" /\ e.type # "ServerSync"
        /\ \A e \in nothing : Echoes(e) /\ e.id # Root => loc' # Root
    BY <2>2
  <2> HIDE DEF nothing
  <2> QED
    BY <2>1, <2>3, <2>4, <2>5, RetryKept
<1>2. CASE SrvMove
  <2> DEFINE c == Head(toServer).id
  <2>1. /\ Head(toServer).type = "Move" /\ Asking = {Head(toServer)} \cup Asking'
        /\ UNCHANGED <<zone, target, mySession, channels, channelJoined, currentZone, pending>>
        /\ pending \in {None, zone} /\ authenticated /\ authenticated' = authenticated
        /\ Head(toServer) \in ToServerMsg
    BY <1>2, RetryHandle DEF SrvMove
  <2>2. c \in Ids /\ c = srvChannels[zone] /\ zone \in Zones
    BY <2>1, HandledFields DEF WishInv, OnlyZone, PlaceKnown, TypeOK
  <2>3. Create(zone) \in Asking => Create(zone) \in Asking'
    BY <2>1, RequestKinds
  <2>4. Asking' \subseteq Asking
    BY <2>1
  <2>5. CASE UNCHANGED <<toClient, srvChannels, loc>>
    <3> DEFINE nothing == {}
    <3>1. Telling \subseteq Telling' /\ Telling' \subseteq Telling \cup nothing
      BY <2>5 DEF Telling
    <3>2. /\ loc' = loc /\ srvChannels'[zone] = srvChannels[zone]
          /\ \A e \in nothing : e.type # "ChannelState" /\ e.type # "ServerSync"
          /\ \A e \in nothing : Echoes(e) /\ e.id # Root => loc' # Root
      BY <2>5
    <3> HIDE DEF nothing
    <3> QED
      BY <2>1, <2>3, <2>4, <3>1, <3>2, RetryKept
  <2>6. CASE Enter(c, <<>>, srvChannels)
    <3> HIDE DEF c
    <3>0. <<>> \in Seq(ToClientMsg) /\ Elems(<<>>) = {}
      BY ElemsParts
    <3>1. /\ loc' = c /\ c # Root
          /\ \A k \in Zones : srvChannels[k] # loc \/ loc = c => srvChannels'[k] = srvChannels[k]
          /\ \E news : /\ Telling' = Telling \cup news /\ Elems(<<>>) \subseteq news
                       /\ \A e \in news : e \in Elems(<<>>)
                                          \/ (e.type # "ChannelState" /\ e.type # "ServerSync")
      BY <2>1, <2>2, <2>6, <3>0, RetryEnter
    <3>2. PICK news : /\ Telling' = Telling \cup news
                      /\ \A e \in news : e.type # "ChannelState" /\ e.type # "ServerSync"
      BY <3>0, <3>1
    <3>3. srvChannels'[zone] = srvChannels[zone]
      BY <2>2, <3>1
    <3>4. Telling \subseteq Telling' /\ Telling' \subseteq Telling \cup news /\ loc' # Root
      BY <3>1, <3>2
    <3> QED
      BY <2>1, <2>3, <2>4, <3>2, <3>3, <3>4, RetryKept
  <2> QED
    BY <1>2, <2>5, <2>6 DEF SrvMove
<1>3. CASE SrvCreate
  <2>1. /\ Head(toServer).type = "Create" /\ Asking = {Head(toServer)} \cup Asking'
        /\ UNCHANGED <<zone, target, mySession, channels, channelJoined, currentZone, pending>>
        /\ pending \in {None, zone} /\ authenticated /\ authenticated' = authenticated
        /\ Head(toServer) \in ToServerMsg
    BY <1>3, RetryHandle DEF SrvCreate
  <2>2. Head(toServer).name = zone /\ zone \in Zones /\ loc \in Ids \cup {Root}
        /\ srvChannels \in [Zones -> Ids \cup {None}]
    BY <2>1 DEF WishInv, OnlyZone, PlaceKnown, TypeOK
  <2>3. Asking' \subseteq Asking
    BY <2>1
  <2>4. CASE srvChannels[zone] # None
    <3>1. Notify(<<[type |-> "PermissionDenied"]>>) /\ UNCHANGED <<srvChannels, loc>>
      BY <1>3, <2>2, <2>4 DEF SrvCreate
    <3> DEFINE denied == [type |-> "PermissionDenied"]
    <3>2. <<denied>> \in Seq(ToClientMsg) /\ Elems(<<denied>>) = {denied}
      <4>1. denied \in ToClientMsg
        BY PacketTypes
      <4> HIDE DEF denied
      <4> QED
        BY <4>1, ElemsParts
    <3>3. Telling' = Telling \cup {denied}
      BY <2>1, <3>1, <3>2, RetryNotify
    <3>4. channels[zone] # None \/ \E e \in Telling' : Announces(e, zone)
      BY <2>1, <2>4, <3>3, KnownOrTold
    <3>5. /\ denied.type # "ChannelState" /\ denied.type # "ServerSync" /\ ~Echoes(denied)
      BY DEF Echoes
    <3> HIDE DEF denied
    <3>6. /\ Telling \subseteq Telling' /\ Telling' \subseteq Telling \cup {denied}
          /\ \A e \in {denied} : e.type # "ChannelState" /\ e.type # "ServerSync"
          /\ \A e \in {denied} : Echoes(e) /\ e.id # Root => loc' # Root
      BY <3>3, <3>5
    <3> QED
      BY <2>1, <2>3, <3>1, <3>4, <3>6, RetryKept
  <2>5. CASE srvChannels[zone] = None
    <3>1. PICK c \in Unused :
            \/ Enter(c, <<ChannelState(zone, c)>>, [srvChannels EXCEPT ![zone] = c])
            \/ /\ srvChannels' = [srvChannels EXCEPT ![zone] = c]
               /\ Notify(<<ChannelState(zone, c)>>)
               /\ UNCHANGED loc
      BY <1>3, <2>2, <2>5 DEF SrvCreate
    <3>2. c \in Ids
      BY DEF Unused
    <3>3. <<ChannelState(zone, c)>> \in Seq(ToClientMsg)
          /\ Elems(<<ChannelState(zone, c)>>) = {ChannelState(zone, c)}
          /\ ~Echoes(ChannelState(zone, c))
      <4>1. ChannelState(zone, c) \in ToClientMsg
        BY <2>2, <3>2, PacketTypes
      <4> QED
        BY <4>1, ElemsParts, EchoKinds
    <3>4. [srvChannels EXCEPT ![zone] = c][zone] = c /\ srvChannels[zone] # loc
      BY <2>2, <2>5
    <3>5. srvChannels'[zone] = c /\ (loc' = loc \/ loc' # Root)
          /\ \E news : /\ Telling' = Telling \cup news /\ ChannelState(zone, c) \in news
                       /\ \A e \in news : e = ChannelState(zone, c)
                                          \/ (e.type # "ChannelState" /\ e.type # "ServerSync")
                       /\ \A e \in news : Echoes(e) /\ e.id # Root => loc' # Root
      <4>1. CASE Enter(c, <<ChannelState(zone, c)>>, [srvChannels EXCEPT ![zone] = c])
        <5>1. /\ loc' = c /\ c # Root
              /\ \A k \in Zones : srvChannels[k] # loc \/ loc = c
                                  => srvChannels'[k] = [srvChannels EXCEPT ![zone] = c][k]
              /\ \E news : /\ Telling' = Telling \cup news
                           /\ Elems(<<ChannelState(zone, c)>>) \subseteq news
                           /\ \A e \in news : e \in Elems(<<ChannelState(zone, c)>>)
                                              \/ (e.type # "ChannelState" /\ e.type # "ServerSync")
          BY <2>1, <3>2, <3>3, <4>1, RetryEnter
        <5>2. srvChannels'[zone] = c
          BY <2>2, <3>4, <5>1
        <5> QED
          BY <3>3, <5>1, <5>2
      <4>2. CASE /\ srvChannels' = [srvChannels EXCEPT ![zone] = c]
                 /\ Notify(<<ChannelState(zone, c)>>)
                 /\ UNCHANGED loc
        <5>1. Telling' = Telling \cup {ChannelState(zone, c)}
          BY <2>1, <3>3, <4>2, RetryNotify
        <5> QED
          BY <3>3, <3>4, <4>2, <5>1
      <4> QED
        BY <3>1, <4>1, <4>2
    <3> QED
      BY <2>1, <2>3, <2>5, <3>2, <3>5, RetryCreated
  <2> QED
    BY <2>4, <2>5
<1> QED
  BY <1>1, <1>2, <1>3, RetryAuthenticate DEF Server

\* An event is spent: once somebody has left or was moved it does not stay calm.
LEMMA RetrySpend ==
  ASSUME PlaceKnown, \A e \in Events : left[e] <= Budget[e], NEW event \in Events, Spend(event)
  PROVE  /\ \A e \in Events : left'[e] <= Budget[e]
         /\ Calm' => Calm /\ event \notin {"vacate", "kick"}
         /\ UNCHANGED <<target, mySession, channels, channelJoined, currentZone, pending,
                        authenticated>>
         /\ Asking' = Asking
<1>1. /\ left \in [Events -> Nat] /\ Budget \in [Events -> Nat]
      /\ left[event] > 0 /\ left' = [left EXCEPT ![event] = @ - 1]
      /\ UNCHANGED <<ambient, target, mySession, channels, channelJoined, currentZone, pending,
                     toServer, authenticated>>
  BY DEF PlaceKnown, TypeOK, Spend, session
<1>2. \A e \in Events : left'[e] = IF e = event THEN left[e] - 1 ELSE left[e]
  BY <1>1
<1>3. \A e \in Events : left[e] \in Nat /\ Budget[e] \in Nat /\ left[e] <= Budget[e]
  BY <1>1
<1>4. \A e \in Events : left'[e] <= left[e] /\ left'[e] <= Budget[e]
  BY <1>2, <1>3
<1>5. left'[event] # Budget[event]
  BY <1>2, <1>3
<1>6. Calm' => Calm /\ event \notin {"vacate", "kick"}
  <2> SUFFICES ASSUME Calm'
               PROVE  Calm /\ event \notin {"vacate", "kick"}
    OBVIOUS
  <2>1. event \notin {"vacate", "kick"}
    BY <1>5 DEF Calm, Undisturbed
  <2>2. \A e \in {"vacate", "kick"} : left[e] = left'[e]
    BY <1>2, <2>1
  <2> QED
    BY <1>1, <2>1, <2>2 DEF Calm, Undisturbed
<1> QED
  BY <1>1, <1>4, <1>6 DEF Asking

\* The client is told something, but of no channel and not of where it is.
LEMMA RetryAside ==
  ASSUME PlaceKnown, WishInv, Asking' = Asking,
         UNCHANGED <<zone, target, mySession, channels, channelJoined, currentZone, pending,
                     authenticated, srvChannels, loc>>,
         NEW m, Telling \subseteq Telling', Telling' \subseteq Telling \cup {m},
         m.type # "ServerSync", ~Echoes(m), \A n \in Zones : ~Announces(m, n)
  PROVE  WishInv'
<1>0. \A e \in Telling' : e \in Telling \/ e = m
  OBVIOUS
<1>1. zone \in Zones /\ pending \in Zones \cup {None}
  BY DEF PlaceKnown, TypeOK
<1>2. OnlyZone'
  BY DEF WishInv, OnlyZone
<1>3. Told'
  BY <1>0, <1>1 DEF WishInv, Told
<1>4. JoinFirst'
  BY <1>0 DEF WishInv, JoinFirst
<1>5. Entered'
  BY <1>0 DEF WishInv, Entered
<1>6. Outdated'
  BY <1>0, <1>1 DEF WishInv, Outdated
<1>7. Asked'
  BY DEF WishInv, Asked
<1> QED
  BY <1>2, <1>3, <1>4, <1>5, <1>6, <1>7 DEF WishInv

\* Another user creates a zone channel, perhaps the one that the client asks for.
LEMMA RetryOccupied ==
  ASSUME PlaceKnown, WishInv, Asking' = Asking,
         UNCHANGED <<zone, target, mySession, channels, channelJoined, currentZone, pending,
                     authenticated, loc>>,
         NEW n \in Zones, srvChannels[n] = None, NEW c \in Ids,
         srvChannels' = [srvChannels EXCEPT ![n] = c],
         Telling \subseteq Telling',
         Telling' \subseteq Telling \cup {ChannelState(n, c), UserState("other", c)}
  PROVE  WishInv'
<1>1. /\ zone \in Zones /\ channels \in [Zones -> Ids \cup {None}] /\ loc \in Ids \cup {Root}
      /\ srvChannels \in [Zones -> Ids \cup {None}] /\ pending \in Zones \cup {None}
      /\ Asking \subseteq ToServerMsg /\ Telling \subseteq ToClientMsg
  BY ElemsTyped DEF PlaceKnown, TypeOK, Asking, Telling
<1>2. /\ srvChannels'[n] = c
      /\ \A k \in Zones : k # n => srvChannels'[k] = srvChannels[k]
  BY <1>1
<1>3. \A e \in Telling' : e \in Telling \/ (e = ChannelState(n, c) \/ e = UserState("other", c))
  OBVIOUS
<1>4. \A e : e = ChannelState(n, c) \/ e = UserState("other", c) =>
        /\ e.type # "ServerSync" /\ ~Echoes(e)
        /\ \A k \in Zones : Announces(e, k) => k = n /\ e.id = c
  BY EchoKinds, PacketKinds DEF ChannelState, UserState, Announces
<1>5. \A e \in Telling : Announces(e, zone) => n # zone
  <2> SUFFICES ASSUME NEW e \in Telling, Announces(e, zone), n = zone
               PROVE  FALSE
    OBVIOUS
  <2>1. e.type = "ChannelState" /\ e.name = zone /\ e.id = None
    BY DEF Announces, WishInv, Told
  <2>2. e.id \in Ids
    BY <1>1, <2>1, ReceivedFields
  <2> QED
    BY <2>1, <2>2
<1>6. \A e \in Asking : e.type = "Move" => n # zone
  <2> SUFFICES ASSUME NEW e \in Asking, e.type = "Move", n = zone
               PROVE  FALSE
    OBVIOUS
  <2>1. e.id = None
    BY DEF WishInv, OnlyZone
  <2>2. e.id \in Ids
    BY <1>1, HandledFields
  <2> QED
    BY <2>1, <2>2
<1>7. OnlyZone'
  BY <1>1, <1>2, <1>6 DEF WishInv, OnlyZone
<1>8. Told'
  <2>1. channels[zone] # None => n # zone
    BY DEF WishInv, Told
  <2> QED
    BY <1>1, <1>2, <1>3, <1>4, <1>5, <2>1 DEF WishInv, Told
<1>9. JoinFirst'
  BY <1>3, <1>4 DEF WishInv, JoinFirst
<1>10. Entered'
  BY <1>3, <1>4 DEF WishInv, Entered
<1>11. Outdated'
  <2>1. pending \notin {None, zone} => pending # n
    BY <1>1 DEF WishInv, Outdated
  <2> QED
    BY <1>1, <1>2, <1>3, <1>4, <2>1 DEF WishInv, Outdated
<1>12. Asked'
  BY DEF WishInv, Asked
<1> QED
  BY <1>7, <1>8, <1>9, <1>10, <1>11, <1>12 DEF WishInv

\* With nothing in flight the client knows the server's channels.
LEMMA QuietCache ==
  ASSUME PlaceKnown, authenticated, toClient = <<>>
  PROVE  \A n \in Zones : channels[n] = srvChannels[n]
<1> TAKE n \in Zones
<1>1. Coherent(n, channels[n], <<>>, srvChannels[n])
  BY DEF PlaceKnown, CacheInv, CacheCoherent
<1>2. PICK i \in 0 .. Len(<<>>) : LastWord(n, channels[n], <<>>, srvChannels[n], i)
  BY <1>1 DEF Coherent
<1>3. i = 0 /\ ~\E j \in (i + 1) .. Len(<<>>) : TRUE
  OBVIOUS
<1> QED
  BY <1>2, <1>3 DEF LastWord

\* The zone changes after it was confirmed: the client is in its channel then.
LEMMA RetrySetZone ==
  ASSUME PlaceKnown, WishInv, Calm, SetZone
  PROVE  WishInv'
<1>1. /\ toServer = <<>> /\ toClient = <<>> /\ currentZone = zone
      /\ zone' \in Zones \ {zone} /\ UNCHANGED <<toClient, srvChannels, loc>>
      /\ UNCHANGED <<target, mySession, channels, channelJoined, currentZone, pending,
                     toServer, authenticated>>
  BY DEF SetZone, Spend, session, Calm, Undisturbed, Quiet
<1>2. /\ zone \in Zones /\ pending \in Zones \cup {None} /\ loc \in Ids \cup {Root}
      /\ channels \in [Zones -> Ids \cup {None}] /\ ambient
  BY DEF PlaceKnown, TypeOK, Calm
<1>3. Asking = {} /\ Telling = {} /\ Asking' = {} /\ Telling' = {}
  BY <1>1, ElemsParts DEF Asking, Telling
<1>4. authenticated
  BY <1>1 DEF PlaceKnown, PlaceInv, AuthInv
<1>5. mySession # None
  BY <1>1, <1>4 DEF PlaceKnown, PlaceInv, SyncInv, Known
<1>6. loc # Root
  BY <1>1, <1>2 DEF WishInv, Entered
<1>7. \A n \in Zones : srvChannels[n] = loc => n = zone
  <2>1. \A i \in DOMAIN toClient : ~Echoes(toClient[i])
    BY <1>1
  <2> QED
    BY <1>1, <1>2, <1>5, <2>1 DEF PlaceKnown, ConfirmedZoneIsLocation
<1>8. srvChannels[zone] = loc
  BY <1>6, <1>7 DEF PlaceKnown, PlaceInv, LocInv
<1>9. \A n \in Zones : channels[n] = srvChannels[n]
  BY <1>1, <1>4, QuietCache
<1>10. channelJoined
  BY <1>2, <1>5, <1>8, <1>9 DEF WishInv, JoinFirst
<1>11. pending \in {None, zone}
  BY <1>2, <1>7 DEF WishInv, Outdated
<1>12. OnlyZone'
  BY <1>3 DEF OnlyZone
<1>13. Told'
  BY <1>1, <1>3, <1>9 DEF Told
<1>14. JoinFirst'
  BY <1>1, <1>3, <1>4, <1>5, <1>10 DEF JoinFirst
<1>15. Entered'
  BY <1>1, <1>3, <1>6 DEF Entered
<1>16. Outdated'
  BY <1>1, <1>3, <1>4, <1>5, <1>8, <1>10, <1>11 DEF Outdated
<1>17. Asked'
  BY <1>1, <1>2, <1>11 DEF Asked
<1> QED
  BY <1>12, <1>13, <1>14, <1>15, <1>16, <1>17 DEF WishInv

LEMMA RetryOccupy ==
  ASSUME PlaceKnown, RetryInv, WishInv, Occupy
  PROVE  WishInv'
<1>1. /\ UNCHANGED <<zone, loc>> /\ Asking' = Asking
      /\ UNCHANGED <<target, mySession, channels, channelJoined, currentZone, pending,
                     authenticated>>
  BY RetrySpend DEF Occupy, RetryInv
<1>2. srvChannels \in [Zones -> Ids \cup {None}]
  BY DEF PlaceKnown, TypeOK
<1>3. PICK n \in Zones :
        \/ /\ srvChannels[n] # None
           /\ Notify(<<UserState("other", srvChannels[n])>>)
           /\ UNCHANGED srvChannels
        \/ /\ srvChannels[n] = None
           /\ \E c \in Unused :
                /\ srvChannels' = [srvChannels EXCEPT ![n] = c]
                /\ Notify(<<ChannelState(n, c), UserState("other", c)>>)
  BY DEF Occupy
<1>4. CASE /\ srvChannels[n] # None
           /\ Notify(<<UserState("other", srvChannels[n])>>)
           /\ UNCHANGED srvChannels
  <2> DEFINE m == UserState("other", srvChannels[n])
  <2>1. m \in ToClientMsg /\ Notify(<<m>>)
    BY <1>2, <1>4, PacketTypes
  <2>2. m.type # "ServerSync" /\ ~Echoes(m) /\ \A k \in Zones : ~Announces(m, k)
    BY EchoKinds, PacketKinds
  <2> HIDE DEF m
  <2>3. <<m>> \in Seq(ToClientMsg) /\ Elems(<<m>>) = {m}
    BY <2>1, ElemsParts
  <2>4. Telling \subseteq Telling' /\ Telling' \subseteq Telling \cup {m}
    BY <2>1, <2>3, RetryNotify
  <2> QED
    BY <1>1, <1>4, <2>2, <2>4, RetryAside
<1>5. ASSUME NEW c \in Unused, srvChannels[n] = None,
             srvChannels' = [srvChannels EXCEPT ![n] = c],
             Notify(<<ChannelState(n, c), UserState("other", c)>>)
      PROVE  WishInv'
  <2> DEFINE packets == <<ChannelState(n, c), UserState("other", c)>>
  <2>1. c \in Ids
    BY DEF Unused
  <2>2. ChannelState(n, c) \in ToClientMsg /\ UserState("other", c) \in ToClientMsg
    BY <2>1, PacketTypes
  <2>3. packets \in Seq(ToClientMsg) /\ Notify(packets)
    BY <1>5, <2>2
  <2>4. Elems(packets) = {ChannelState(n, c), UserState("other", c)}
    BY ElemsParts
  <2> HIDE DEF packets
  <2>5. /\ Telling \subseteq Telling'
        /\ Telling' \subseteq Telling \cup {ChannelState(n, c), UserState("other", c)}
    BY <2>3, <2>4, RetryNotify
  <2> QED
    BY <1>1, <1>5, <2>1, <2>5, RetryOccupied
<1> QED
  BY <1>3, <1>4, <1>5

LEMMA RetryNoise ==
  ASSUME PlaceKnown, RetryInv, WishInv, Noise
  PROVE  WishInv'
<1>1. /\ UNCHANGED <<zone, srvChannels, loc>> /\ Asking' = Asking
      /\ UNCHANGED <<target, mySession, channels, channelJoined, currentZone, pending,
                     authenticated>>
  BY RetrySpend DEF Noise, RetryInv
<1>2. PICK m \in {ChannelState(None, Root), UserState("me", None)} : Notify(<<m>>)
  BY DEF Noise
<1>3. m \in ToClientMsg
  BY PacketTypes
<1>4. m.type # "ServerSync" /\ ~Echoes(m) /\ \A k \in Zones : ~Announces(m, k)
  BY EchoKinds, PacketKinds DEF ChannelState, Announces
<1>5. <<m>> \in Seq(ToClientMsg) /\ Elems(<<m>>) = {m}
  BY <1>3, ElemsParts
<1>6. Telling \subseteq Telling' /\ Telling' \subseteq Telling \cup {m}
  BY <1>2, <1>5, RetryNotify
<1> QED
  BY <1>1, <1>4, <1>6, RetryAside

LEMMA RetryInit == Init => RetryInv
<1> SUFFICES ASSUME Init
             PROVE  RetryInv
  OBVIOUS
<1>1. \A e \in Events : left[e] <= Budget[e]
  BY DEF Init
<1>2. /\ Asking = {[type |-> "Authenticate"]} /\ Telling = {}
  BY ElemsParts DEF Init, Asking, Telling
<1>3. ASSUME ambient
      PROVE  WishInv
  <2>1. zone = target /\ mySession = None /\ ~authenticated /\ pending = None /\ currentZone = None
        /\ channels[zone] = None /\ zone \in Zones
    BY <1>3 DEF Init
  <2>2. OnlyZone /\ Told
    BY <1>2, <2>1 DEF OnlyZone, Told
  <2>3. JoinFirst /\ Entered
    BY <1>2, <2>1 DEF JoinFirst, Entered
  <2>4. Outdated /\ Asked
    BY <2>1 DEF Outdated, Asked
  <2> QED
    BY <2>2, <2>3, <2>4 DEF WishInv
<1> QED
  BY <1>1, <1>3 DEF RetryInv, Calm

LEMMA RetryNext == PlaceKnown /\ RetryInv /\ [Next]_vars => RetryInv'
<1> SUFFICES ASSUME PlaceKnown, RetryInv, [Next]_vars
             PROVE  RetryInv'
  OBVIOUS
<1>1. ASSUME UNCHANGED <<left, ambient>>, Calm => WishInv'
      PROVE  RetryInv'
  BY <1>1 DEF RetryInv, Calm, Undisturbed
<1>2. Calm => WishInv
  BY DEF RetryInv
<1>3. CASE Client
  <2>1. UNCHANGED <<left, ambient>>
    BY <1>3 DEF Client, RecvChannelState, RecvChannelRemove, RecvServerSync, RecvUserState,
                RecvPermissionDenied, Receive
  <2>2. WishInv => WishInv'
    BY <1>3, RetryChannelState, RetryChannelRemove, RetryServerSync, RetryUserState DEF Client
  <2> QED
    BY <1>1, <1>2, <2>1, <2>2
<1>4. CASE CheckZoneChannel
  <2>1. UNCHANGED <<left, ambient>>
    BY <1>4 DEF CheckZoneChannel
  <2> QED
    BY <1>1, <1>2, <1>4, <2>1, RetryCheck
<1>5. CASE Server
  <2>1. UNCHANGED <<left, ambient>>
    BY <1>5 DEF Server, SrvAuthenticate, SrvContext, SrvMove, SrvCreate, Handle
  <2> QED
    BY <1>1, <1>2, <1>5, <2>1, RetryServer
<1>6. ASSUME NEW event \in Events, Spend(event),
             Calm /\ WishInv /\ event \notin {"vacate", "kick"} => WishInv'
      PROVE  RetryInv'
  <2>1. /\ \A e \in Events : left'[e] <= Budget[e]
        /\ Calm' => Calm /\ event \notin {"vacate", "kick"}
    BY <1>6, RetrySpend DEF RetryInv
  <2> QED
    BY <1>2, <1>6, <2>1 DEF RetryInv
<1>7. CASE SetZone
  <2>1. Spend("zone")
    BY <1>7 DEF SetZone
  <2> QED
    BY <1>6, <1>7, <2>1, RetrySetZone
<1>8. CASE Occupy
  <2>1. Spend("occupy")
    BY <1>8 DEF Occupy
  <2> QED
    BY <1>6, <1>8, <2>1, RetryOccupy
<1>9. CASE Vacate
  <2>1. Spend("vacate")
    BY <1>9 DEF Vacate
  <2> QED
    BY <1>6, <2>1
<1>10. CASE Kick
  <2>1. Spend("kick")
    BY <1>10 DEF Kick
  <2> QED
    BY <1>6, <2>1
<1>11. CASE Noise
  <2>1. Spend("noise")
    BY <1>11 DEF Noise
  <2> QED
    BY <1>6, <1>11, <2>1, RetryNoise
<1>12. CASE UNCHANGED vars
  <2>1. UNCHANGED <<left, ambient>>
    BY <1>12 DEF vars
  <2>2. WishInv => WishInv'
    BY <1>12 DEF vars, session, server, WishInv, OnlyZone, Told, JoinFirst, Entered, Outdated,
                 Asked, Asking, Telling, Elems
  <2> QED
    BY <1>1, <1>2, <2>1, <2>2
<1> QED
  BY <1>3, <1>4, <1>5, <1>7, <1>8, <1>9, <1>10, <1>11, <1>12 DEF Next, Environment

\* In a calm state with nothing in flight a zone that is confirmed is that of the client's
\* channel, and the tick for any other sends a move or a creation.
LEMMA RetryRequests ==
  ASSUME PlaceKnown, RetryInv
  PROVE  RetriesGoOn
<1> SUFFICES ASSUME Undisturbed, ambient, authenticated, Quiet, srvChannels[zone] # loc,
                    Requests = <<>>
             PROVE  FALSE
  BY DEF RetriesGoOn
<1>1. WishInv
  BY DEF RetryInv, Calm
<1>2. toServer = <<>> /\ toClient = <<>> /\ Asking = {} /\ Telling = {}
  BY ElemsParts DEF Quiet, Asking, Telling
<1>3. mySession # None
  BY <1>2 DEF PlaceKnown, PlaceInv, SyncInv, Known
<1>3a. currentZone # zone
  <2> SUFFICES ASSUME currentZone = zone
               PROVE  FALSE
    OBVIOUS
  <2>1. zone \in Zones /\ zone # None
    BY DEF PlaceKnown, TypeOK
  <2>2. loc # Root
    BY <1>1, <2>1 DEF WishInv, Entered
  <2>3. PICK n \in Zones : srvChannels[n] = loc
    BY <2>2 DEF PlaceKnown, PlaceInv, LocInv
  <2>4. \A i \in DOMAIN toClient : ~Echoes(toClient[i])
    BY <1>2
  <2>5. currentZone = n
    BY <1>3, <2>3, <2>4 DEF PlaceKnown, ConfirmedZoneIsLocation
  <2> QED
    BY <2>3, <2>5
<1>4. Requests = (IF channels[zone] # None THEN <<Move(channels[zone])>> ELSE <<>>)
                 \o (IF pending # zone THEN <<Create(zone)>> ELSE <<>>)
  BY <1>3, <1>3a DEF Requests, ChannelMove
<1>5. pending = zone
  <2> SUFFICES ASSUME pending # zone
               PROVE  FALSE
    OBVIOUS
  <2> DEFINE move == IF channels[zone] # None THEN <<Move(channels[zone])>> ELSE <<>>
             create == <<Create(zone)>>
  <2>1. Requests = move \o create
    BY <1>4
  <2>2. move \in Seq(ToServerMsg) /\ create \in Seq(ToServerMsg)
    <3>1. /\ channels[zone] # None => Move(channels[zone]) \in ToServerMsg
          /\ Create(zone) \in ToServerMsg
      BY PacketTypes DEF PlaceKnown, TypeOK
    <3>2. <<Create(zone)>> \in Seq(ToServerMsg) /\ <<>> \in Seq(ToServerMsg)
      BY <3>1
    <3>3. channels[zone] # None => <<Move(channels[zone])>> \in Seq(ToServerMsg)
      BY <3>1
    <3> QED
      BY <3>2, <3>3
  <2>3. Create(zone) \in Elems(create)
    BY ElemsParts
  <2> HIDE DEF move, create
  <2>4. Elems(move \o create) = Elems(move) \cup Elems(create)
    BY <2>2, ElemsConcat
  <2> QED
    BY <2>1, <2>3, <2>4, ElemsParts
<1>6. channels[zone] # None
  BY <1>1, <1>2, <1>5 DEF WishInv, Asked
<1>7. Requests = <<Move(channels[zone])>> \o <<>>
  BY <1>4, <1>5, <1>6
<1> QED
  BY <1>7

\* With nothing on its way to the client the cache is the server's table (session.rs
\* on_channel_state, on_channel_remove).
THEOREM QuietCacheIsExact ==
  Spec => [](authenticated /\ toClient = <<>> => channels = srvChannels)
<1>1. Init => PlaceInv
  BY PlaceInit
<1>2. TypeOK /\ CacheInv /\ PlaceInv => PlaceKnown
  BY PlaceConfirms DEF PlaceKnown
<1>3. PlaceKnown => (authenticated /\ toClient = <<>> => channels = srvChannels)
  <2> SUFFICES ASSUME PlaceKnown, authenticated, toClient = <<>>
               PROVE  channels = srvChannels
    OBVIOUS
  <2>1. \A n \in Zones : channels[n] = srvChannels[n]
    BY QuietCache
  <2> QED
    BY <2>1 DEF PlaceKnown, TypeOK
<1>4. TypeOK /\ CacheInv /\ PlaceInv /\ [Next]_vars => PlaceInv'
  BY PlaceNext
<1> QED
  BY <1>1, <1>2, <1>3, <1>4, CacheStays, PTL DEF Spec

\* Whoever joins, whoever creates a channel first and whatever was denied before: while
\* nobody leaves and zone changes wait for the last one to settle, the tick of a client that
\* is not in its zone's channel asks for it again (session.rs check_zone_channel).
THEOREM RetriesNeverStop == Spec => []RetriesGoOn
<1>1. Init => PlaceInv /\ RetryInv
  BY PlaceInit, RetryInit
<1>2. PlaceKnown /\ RetryInv => RetriesGoOn
  BY RetryRequests
<1>3. TypeOK /\ CacheInv /\ PlaceInv => ConfirmedZoneIsLocation
  BY PlaceConfirms
<1>4. TypeOK /\ CacheInv /\ PlaceInv /\ RetryInv /\ [Next]_vars => (PlaceInv /\ RetryInv)'
  BY <1>3, PlaceNext, RetryNext DEF PlaceKnown
<1> QED
  BY <1>1, <1>2, <1>3, <1>4, CacheStays, PTL DEF Spec, PlaceKnown

=============================================================================
