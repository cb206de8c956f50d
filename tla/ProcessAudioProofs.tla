-------------------------- MODULE ProcessAudioProofs --------------------------
(***************************************************************************)
(* For any number of connections, devices and events: devices are opened   *)
(* where they were configured, and the sink is there and is one.           *)
(*                                                                         *)
(* LockInv ties the variable to the thread that holds the lock.  SinkInv   *)
(* follows the one thread that may create the sink: as long as no call has *)
(* timed out it belongs to the pending call, and no sink exists yet.       *)
(***************************************************************************)
EXTENDS ProcessAudio, TLAPS

\* An event is noted; none is forgotten.
LEMMA Noted ==
  ASSUME TypeOK, NEW e \in Events, Happens(e)
  PROVE  /\ happened' \in [Events -> 0 .. MaxConnections]
         /\ happened'[e] # 0
         /\ \A f \in Events : happened'[f] = 0 => happened[f] = 0
<1>1. PICK c \in Connections : happened' = [happened EXCEPT ![e] = c]
  BY DEF Happens
<1>2. c \in 1 .. MaxConnections /\ MaxConnections \in Nat
  BY ConstantsAssumption DEF Connections
<1> QED
  BY <1>1, <1>2 DEF TypeOK

----------------------------------------------------------------------------
(* Types.                                                                  *)

LEMMA TypeInit == Init => TypeOK
<1> SUFFICES ASSUME Init PROVE TypeOK
  OBVIOUS
<1>1. happened \in [Events -> 0 .. MaxConnections]
  BY ConstantsAssumption DEF Init
<1> QED
  BY <1>1 DEF Init, TypeOK, OpenerStates, ThreadStates, Roles

LEMMA OpenerType ==
  ASSUME TypeOK, NEW c \in Connections, NEW s \in OpenerStates, NEW r \in Roles
  PROVE  [opener EXCEPT ![c][r] = s] \in [Connections -> [Roles -> OpenerStates]]
BY DEF TypeOK

LEMMA OutputsType ==
  ASSUME TypeOK, NEW c \in Connections, StartsOutputs(c)
  PROVE  opener' \in [Connections -> [Roles -> OpenerStates]]
<1>1. /\ opener \in [Connections -> [Roles -> OpenerStates]]
      /\ "waiting" \in OpenerStates /\ "ambient" \in Roles /\ "ic" \in Roles
  BY DEF TypeOK, OpenerStates, Roles
<1>2. [opener EXCEPT ![c]["ambient"] = "waiting"] \in [Connections -> [Roles -> OpenerStates]]
  BY <1>1
<1>3. [opener EXCEPT ![c]["ambient"] = "waiting", ![c]["ic"] = "waiting"]
        \in [Connections -> [Roles -> OpenerStates]]
  BY <1>1, <1>2
<1> QED
  BY <1>3 DEF StartsOutputs

LEMMA TypeConnections ==
  ASSUME TypeOK, NEW c \in Connections, Connect(c) \/ Wake(c) \/ Disconnect(c)
  PROVE  TypeOK'
<1> USE DEF devices, call, graph, Roles
<1>1. CASE Connect(c)
  <2>1. opener' \in [Connections -> [Roles -> OpenerStates]]
    BY <1>1 DEF Connect, TypeOK, OpenerStates
  <2>2. \A d \in Connections : Calling(d)' <=> Calling(d)
    BY <1>1 DEF Connect, TypeOK, Calling
  <2> QED
    BY <1>1, <2>1, <2>2 DEF Connect, TypeOK
<1>2. CASE Wake(c)
  <2>1. opener' \in [Connections -> [Roles -> OpenerStates]]
    <3>1. opener' = opener \/ StartsOutputs(c)
      BY <1>2 DEF Wake
    <3> QED
      BY <3>1, OutputsType DEF TypeOK
  <2>2. /\ stage' \in [Connections -> {"none", "waiting", "sink", "leaving", "up", "down"}]
        /\ answer' \in [Connections -> {"none", "ready", "failed"}]
        /\ thread' \in [Connections -> ThreadStates]
    BY <1>2 DEF Wake, StartsOutputs, TypeOK, ThreadStates
  <2>3. ASSUME NEW d \in Connections
        PROVE  /\ stage'[d] \in {"none", "waiting"} => answer'[d] = "none" /\ thread'[d] = "none"
               /\ thread'[d] # "none" => (answer'[d] = "none" <=> Calling(d)')
    <3>1. CASE d # c
      BY <1>2, <3>1 DEF Wake, StartsOutputs, TypeOK, Calling
    <3>2. CASE d = c
      BY <1>2, <3>2 DEF Wake, StartsOutputs, TypeOK, Calling
    <3> QED
      BY <3>1, <3>2
  <2> QED
    BY <1>2, <2>1, <2>2, <2>3 DEF Wake, TypeOK
<1>3. CASE Disconnect(c)
  BY <1>3 DEF Disconnect, TypeOK, Calling
<1> QED
  BY <1>1, <1>2, <1>3

LEMMA TypeDevices ==
  ASSUME TypeOK, NEW c \in Connections, NEW r \in Roles, Device(c, r) \/ Fail(c, r)
  PROVE  TypeOK'
<1> USE DEF devices, call, graph, Calling
<1>1. /\ node' \in Nodes \cup {NoNode}
      /\ lock' \in (Connections \X Roles) \cup {Nobody}
  BY ConstantsAssumption DEF Device, Select, Open, Fail, TypeOK
<1>2. opener' \in [Connections -> [Roles -> OpenerStates]]
  <2>1. PICK s \in {"routed", "open", "failed"} : opener' = [opener EXCEPT ![c][r] = s]
    BY DEF Device, Select, Open, Fail
  <2>2. s \in OpenerStates
    BY DEF OpenerStates
  <2> QED
    BY <2>1, <2>2, OpenerType
<1>3. target' \in [Connections -> [Roles -> Nodes \cup {NoNode}]]
  <2>1. /\ target \in [Connections -> [Roles -> Nodes \cup {NoNode}]]
        /\ node \in Nodes \cup {NoNode}
    BY DEF TypeOK
  <2>2. target' = target \/ target' = [target EXCEPT ![c][r] = node]
    BY DEF Device, Select, Open, Fail
  <2>3. [target EXCEPT ![c][r] = node] \in [Connections -> [Roles -> Nodes \cup {NoNode}]]
    BY <2>1
  <2> QED
    BY <2>1, <2>2, <2>3
<1>4. happened' \in [Events -> 0 .. MaxConnections]
  BY Noted DEF Device, Select, Open, Fail, TypeOK, Events
<1> QED
  BY <1>1, <1>2, <1>3, <1>4 DEF Device, Select, Open, Fail, TypeOK

LEMMA TypeGraph ==
  ASSUME TypeOK,
         \/ \E c \in Connections : Thread(c) \/ Unreachable(c) \/ Refused(c)
         \/ Comes \/ Leaves \/ Restart
  PROVE  TypeOK'
<1> USE DEF devices, call, graph, Calling
<1>1. happened' \in [Events -> 0 .. MaxConnections]
  BY Noted DEF Thread, Dump, Decide, Appear, Notice, Unreachable, Refused,
               Comes, Leaves, Restart, TypeOK, Events
<1>2. Watching \subseteq Connections
  BY DEF Watching
<1>3. ASSUME NEW c \in Connections, Thread(c) \/ Unreachable(c) \/ Refused(c)
      PROVE  TypeOK'
  <2>1. /\ thread' \in [Connections -> ThreadStates]
        /\ \A d \in Connections : thread'[d] = "none" <=> thread[d] = "none"
    BY <1>3 DEF Thread, Dump, Decide, Appear, Notice, Unreachable, Refused, TypeOK, ThreadStates
  <2>2. /\ seen' \in [Connections -> BOOLEAN]
        /\ news' \subseteq Connections /\ own' \subseteq Connections
    BY <1>2, <1>3 DEF Thread, Dump, Decide, Appear, Notice, Unreachable, Refused, TypeOK
  <2> QED
    BY <1>1, <1>3, <2>1, <2>2
    DEF Thread, Dump, Decide, Appear, Notice, Unreachable, Refused, TypeOK
<1>4. CASE Comes \/ Leaves
  BY <1>1, <1>2, <1>4 DEF Comes, Leaves, TypeOK
<1>5. CASE Restart
  BY <1>1, <1>5 DEF Restart, TypeOK, ThreadStates
<1> QED
  BY <1>3, <1>4, <1>5

LEMMA TypeCall ==
  ASSUME TypeOK, NEW c \in Connections, Ready(c) \/ GivesUp(c) \/ TimesOut(c)
  PROVE  TypeOK'
<1> USE DEF devices, call, graph, Roles
<1>1. happened' \in [Events -> 0 .. MaxConnections]
  BY Noted DEF Ready, GivesUp, TimesOut, TypeOK, Events
<1>2. PICK result \in {"ready", "failed"} : Return(c, result) /\ Calling(c)
  BY DEF Ready, GivesUp, TimesOut
<1>3. opener' \in [Connections -> [Roles -> OpenerStates]]
  BY <1>2, OutputsType DEF Return, TypeOK
<1>4. /\ stage' \in [Connections -> {"none", "waiting", "sink", "leaving", "up", "down"}]
      /\ answer' \in [Connections -> {"none", "ready", "failed"}]
      /\ answer'[c] # "none" /\ ~Calling(c)'
      /\ \A d \in Connections : d # c => answer'[d] = answer[d] /\ (Calling(d)' <=> Calling(d))
  BY <1>2 DEF Return, StartsOutputs, TypeOK, Calling
<1>5. \A d \in Connections : stage'[d] \in {"none", "waiting"} =>
        d # c /\ stage[d] = stage'[d]
  BY <1>2 DEF Return, StartsOutputs, TypeOK
<1>6. /\ UNCHANGED <<lock, node, target, graph>>
      /\ cached' \in BOOLEAN
  BY DEF Ready, GivesUp, TimesOut, TypeOK
<1> QED
  BY <1>1, <1>3, <1>4, <1>5, <1>6 DEF TypeOK

LEMMA TypeStep == TypeOK /\ [Next]_vars => TypeOK'
<1> SUFFICES ASSUME TypeOK, [Next]_vars PROVE TypeOK'
  OBVIOUS
<1>1. CASE UNCHANGED vars
  BY <1>1 DEF vars, devices, call, graph, TypeOK, Calling
<1> QED
  BY <1>1, TypeConnections, TypeDevices, TypeGraph, TypeCall DEF Next, Call

\* Every variable keeps to its values, and Disconnect waits for the call (audio.rs
\* create_linux_sink, connection.rs stop).
THEOREM TypeCorrect == Spec => []TypeOK
<1> QED
  BY TypeInit, TypeStep, PTL DEF Spec

----------------------------------------------------------------------------
(* The lock and the variable.                                              *)

LockInv ==
  \A c \in Connections, r \in Roles :
    opener[c][r] = "routed" => lock = <<c, r>> /\ node = Wanted[c][r]

LEMMA LockStep ==
  ASSUME TypeOK, LockInv, OpensAreRouted, [Next]_vars
  PROVE  LockInv' /\ OpensAreRouted'
<1> USE DEF devices, call, graph
<1>1. ASSUME NEW c \in Connections, NEW r \in Roles, Select(c, r)
      PROVE  LockInv' /\ OpensAreRouted'
  <2>1. \A d \in Connections, s \in Roles : opener[d][s] # "routed"
    BY <1>1, ConstantsAssumption DEF Select, LockInv
  <2>2. /\ lock' = <<c, r>> /\ node' = Wanted[c][r] /\ target' = target
        /\ opener' = [opener EXCEPT ![c][r] = "routed"]
    BY <1>1 DEF Select
  <2>3. \A d \in Connections, s \in Roles :
          opener'[d][s] = IF d = c /\ s = r THEN "routed" ELSE opener[d][s]
    BY <2>2 DEF TypeOK
  <2> QED
    BY <2>1, <2>2, <2>3 DEF LockInv, OpensAreRouted
<1>2. ASSUME NEW c \in Connections, NEW r \in Roles, Open(c, r)
      PROVE  LockInv' /\ OpensAreRouted'
  <2>1. lock = <<c, r>> /\ node = Wanted[c][r]
    BY <1>2 DEF Open, LockInv
  <2>2. /\ target' = [target EXCEPT ![c][r] = node]
        /\ opener' = [opener EXCEPT ![c][r] = "open"]
    BY <1>2 DEF Open
  <2>3. \A d \in Connections, s \in Roles :
          /\ opener'[d][s] = IF d = c /\ s = r THEN "open" ELSE opener[d][s]
          /\ target'[d][s] = IF d = c /\ s = r THEN node ELSE target[d][s]
    BY <2>2 DEF TypeOK
  <2>4. \A d \in Connections, s \in Roles : opener'[d][s] # "routed"
    BY <2>1, <2>3 DEF LockInv
  <2> QED
    BY <2>1, <2>3, <2>4 DEF LockInv, OpensAreRouted
<1>3. ASSUME NEW c \in Connections, NEW r \in Roles, Fail(c, r)
      PROVE  LockInv' /\ OpensAreRouted'
  <2>1. lock = <<c, r>> /\ target' = target /\ opener' = [opener EXCEPT ![c][r] = "failed"]
    BY <1>3 DEF Fail, LockInv
  <2>2. \A d \in Connections, s \in Roles :
          opener'[d][s] = IF d = c /\ s = r THEN "failed" ELSE opener[d][s]
    BY <2>1 DEF TypeOK
  <2>3. \A d \in Connections, s \in Roles : opener'[d][s] # "routed"
    BY <2>1, <2>2 DEF LockInv
  <2> QED
    BY <2>1, <2>2, <2>3 DEF LockInv, OpensAreRouted
<1>4. CASE /\ UNCHANGED <<lock, node, target>>
           /\ \A d \in Connections, s \in Roles :
                opener'[d][s] # opener[d][s] => opener'[d][s] = "waiting"
  BY <1>4 DEF LockInv, OpensAreRouted
<1>5. ASSUME NEW c \in Connections, Connect(c) \/ Disconnect(c) \/ Call(c) \/ TimesOut(c)
      PROVE  LockInv' /\ OpensAreRouted'
  <2>1. UNCHANGED <<lock, node, target>>
    BY <1>5 DEF Connect, Disconnect, Call, Wake, Ready, GivesUp, TimesOut
  <2>2. \/ opener' = opener
        \/ opener' = [opener EXCEPT ![c]["mic"] = "waiting"]
        \/ opener' = [opener EXCEPT ![c]["ambient"] = "waiting", ![c]["ic"] = "waiting"]
    BY <1>5 DEF Connect, Disconnect, Call, Wake, Ready, GivesUp, TimesOut, Return, StartsOutputs
  <2>3. \A d \in Connections, s \in Roles :
          opener'[d][s] # opener[d][s] => opener'[d][s] = "waiting"
    BY <2>2 DEF TypeOK, Roles
  <2> QED
    BY <1>4, <2>1, <2>3
<1>6. CASE \/ \E c \in Connections : Thread(c) \/ Unreachable(c) \/ Refused(c)
           \/ Comes \/ Leaves \/ Restart \/ UNCHANGED vars
  <2>1. UNCHANGED devices
    BY <1>6 DEF Thread, Dump, Decide, Appear, Notice, Unreachable, Refused,
                Comes, Leaves, Restart, vars
  <2> QED
    BY <1>4, <2>1
<1> QED
  BY <1>1, <1>2, <1>3, <1>5, <1>6 DEF Next, Device

\* Whatever other threads set PIPEWIRE_NODE to, a device is routed where its connection
\* wants it (audio.rs device_open_lock, select_device).
THEOREM DevicesRouted == Spec => []OpensAreRouted
<1>1. Init => LockInv /\ OpensAreRouted
  BY DEF Init, LockInv, OpensAreRouted
<1> QED
  BY <1>1, TypeInit, TypeStep, LockStep, PTL DEF Spec

----------------------------------------------------------------------------
(* The sink.                                                               *)

\* Connections follow one another.
StageInv ==
  \A c \in Connections :
    stage[c] # "none" => \A d \in 1 .. c - 1 : stage[d] = "down"

\* The thread of c may still create a sink.
Creator(c) ==
  thread[c] = "started" \/ (thread[c] = "dumped" /\ ~seen[c]) \/ thread[c] = "creating"

GraphInv ==
  /\ \A c \in Connections :
       /\ thread[c] \in {"none", "started"} => ~seen[c]
       /\ c \in news => thread[c] \notin {"none", "started", "dead", "cut"}
  /\ \A c \in own : thread[c] = "keeping"

\* What is known or announced exists.
KnownInv ==
  /\ Never({"leaves", "restart"})
  /\ cached \/ news # {} \/ \E c \in Connections : seen[c]
  => Sinks # {}

\* There is one who creates, for the pending call, and only where no sink is.
OneCreator ==
  /\ \A c \in Connections : Creator(c) => Calling(c) /\ ~cached
  /\ \A c \in Connections : Creator(c) /\ thread[c] # "started" =>
       Sinks = {} /\ ~seen[c] /\ c \notin news
  /\ \A c \in own : ~foreign /\ (seen[c] \/ c \in news) /\ (~cached => Calling(c))
  /\ \A c, d \in own : c = d

OneInv == Never({"slow", "comes"}) => OneCreator

SinkInv == StageInv /\ GraphInv /\ KnownInv /\ OneInv

LEMMA OneCall ==
  ASSUME StageInv, NEW c \in Connections, NEW d \in Connections,
         stage[c] \notin {"none", "down"}, stage[d] \notin {"none", "down"}
  PROVE  c = d
<1>1. c \in Nat /\ d \in Nat /\ (c < d => c \in 1 .. d - 1) /\ (d < c => d \in 1 .. c - 1)
  BY ConstantsAssumption DEF Connections
<1> QED
  BY <1>1 DEF StageInv

LEMMA StageStep ==
  ASSUME TypeOK, StageInv, [Next]_vars
  PROVE  StageInv'
<1> USE DEF devices, call, graph
<1>1. ASSUME NEW c \in Connections, Connect(c)
      PROVE  StageInv'
  <2>1. /\ stage' = [stage EXCEPT ![c] = "waiting"] /\ stage[c] = "none"
        /\ c - 1 \in Connections => stage[c - 1] = "down"
    BY <1>1 DEF Connect
  <2>2. \A d \in Connections : d > c => stage[d] = "none"
    BY <2>1, ConstantsAssumption DEF StageInv, Connections
  <2>3. \A d \in 1 .. c - 1 : stage[d] = "down"
    <3>1. CASE c = 1
      BY <3>1
    <3>2. CASE c # 1
      <4>1. c - 1 \in Connections /\ c \in Nat
        BY <3>2, ConstantsAssumption DEF Connections
      <4>2. \A d \in 1 .. (c - 1) - 1 : stage[d] = "down"
        BY <2>1, <4>1 DEF StageInv
      <4> QED
        BY <2>1, <4>1, <4>2
    <3> QED
      BY <3>1, <3>2
  <2>4. ASSUME NEW e \in Connections, stage'[e] # "none", NEW d \in 1 .. e - 1
        PROVE  stage'[d] = "down"
    <3>1. d \in Connections /\ d # e /\ c \in Nat /\ e \in Nat
      BY <2>4, ConstantsAssumption DEF Connections
    <3>2. CASE e = c
      BY <2>1, <2>3, <3>1, <3>2, <2>4 DEF TypeOK
    <3>3. CASE e # c
      <4>1. stage[e] # "none" /\ stage[d] = "down"
        BY <2>1, <2>4, <3>3 DEF StageInv, TypeOK
      <4> QED
        BY <2>1, <3>1, <4>1 DEF TypeOK
    <3> QED
      BY <3>2, <3>3
  <2> QED
    BY <2>4 DEF StageInv
<1>2. CASE \A d \in Connections : /\ stage'[d] = "none" <=> stage[d] = "none"
                                  /\ stage[d] = "down" => stage'[d] = "down"
  <2>1. \A c \in Connections : 1 .. c - 1 \subseteq Connections
    BY ConstantsAssumption DEF Connections
  <2> QED
    BY <1>2, <2>1 DEF StageInv
<1>3. ASSUME NEW c \in Connections, Disconnect(c) \/ Call(c) \/ TimesOut(c)
      PROVE  StageInv'
  <2>1. \/ stage' = [stage EXCEPT ![c] = stage'[c]]
           /\ stage[c] \notin {"none", "down"} /\ stage'[c] # "none"
    BY <1>3 DEF Disconnect, Call, Wake, Ready, GivesUp, TimesOut, Return, StartsOutputs,
                Calling, TypeOK
  <2> QED
    BY <1>2, <2>1 DEF TypeOK
<1>4. CASE \/ \E c \in Connections :
                \/ Thread(c) \/ Unreachable(c) \/ Refused(c)
                \/ \E r \in Roles : Device(c, r) \/ Fail(c, r)
           \/ Comes \/ Leaves \/ Restart \/ UNCHANGED vars
  <2>1. stage' = stage
    BY <1>4 DEF Thread, Dump, Decide, Appear, Notice, Unreachable, Refused, Device, Select,
                Open, Fail, Comes, Leaves, Restart, vars
  <2> QED
    BY <1>2, <2>1
<1> QED
  BY <1>1, <1>3, <1>4 DEF Next

LEMMA GraphStep ==
  ASSUME TypeOK, GraphInv, [Next]_vars
  PROVE  GraphInv'
<1> USE DEF devices, call, graph
<1>1. ASSUME NEW c \in Connections, Call(c)
      PROVE  GraphInv'
  <2>1. UNCHANGED <<seen, news, own>>
    BY <1>1 DEF Call, Wake, Ready, GivesUp
  <2>2. \/ thread' = thread
        \/ thread' = [thread EXCEPT ![c] = "started"] /\ thread[c] = "none"
    BY <1>1 DEF Call, Wake, Ready, GivesUp, TypeOK
  <2> QED
    BY <2>1, <2>2 DEF GraphInv, TypeOK
<1>2. ASSUME NEW c \in Connections, Thread(c) \/ Unreachable(c) \/ Refused(c)
      PROVE  GraphInv'
  <2>1. CASE Dump(c)
    BY <2>1 DEF Dump, GraphInv, TypeOK
  <2>2. CASE Decide(c) \/ Refused(c)
    BY <2>2 DEF Decide, Refused, GraphInv, TypeOK
  <2>3. CASE Appear(c)
    BY <2>3 DEF Appear, Watching, GraphInv, TypeOK
  <2>4. CASE Notice(c)
    BY <2>4 DEF Notice, GraphInv, TypeOK
  <2>5. CASE Unreachable(c)
    BY <2>5 DEF Unreachable, GraphInv, TypeOK
  <2> QED
    BY <1>2, <2>1, <2>2, <2>3, <2>4, <2>5 DEF Thread
<1>3. CASE Comes \/ Leaves
  BY <1>3 DEF Comes, Leaves, Watching, GraphInv
<1>4. CASE Restart
  BY <1>4 DEF Restart, GraphInv, TypeOK
<1>5. CASE \/ \E c \in Connections :
                \/ Connect(c) \/ Disconnect(c) \/ TimesOut(c)
                \/ \E r \in Roles : Device(c, r) \/ Fail(c, r)
           \/ UNCHANGED vars
  <2>1. UNCHANGED <<thread, seen, news, own>>
    BY <1>5 DEF Connect, Disconnect, TimesOut, Device, Select, Open, Fail, vars
  <2> QED
    BY <2>1 DEF GraphInv
<1> QED
  BY <1>1, <1>2, <1>3, <1>4, <1>5 DEF Next

\* Nothing that has happened is forgotten.
LEMMA NeverStays ==
  ASSUME TypeOK, [Next]_vars
  PROVE  \A e \in Events : happened'[e] = 0 => happened[e] = 0
<1> USE DEF devices, call, graph
<1>1. \/ happened' = happened
      \/ \E e \in Events : Happens(e)
  BY DEF Next, Connect, Disconnect, Call, Wake, Ready, GivesUp, TimesOut, Thread, Dump, Decide,
         Appear, Notice, Unreachable, Refused, Device, Select, Open, Fail, Comes, Leaves,
         Restart, vars, Events
<1> QED
  BY <1>1, Noted

LEMMA KnownStep ==
  ASSUME TypeOK, GraphInv, KnownInv, [Next]_vars
  PROVE  KnownInv'
<1> USE DEF devices, call, graph
<1> SUFFICES ASSUME Never({"leaves", "restart"})'
             PROVE  (cached' \/ news' # {} \/ \E c \in Connections : seen'[c]) => Sinks' # {}
  BY DEF KnownInv
<1>1. /\ Never({"leaves", "restart"})
      /\ cached \/ news # {} \/ (\E c \in Connections : seen[c]) => Sinks # {}
  <2>1. Never({"leaves", "restart"})
    BY NeverStays DEF Never, Events
  <2> QED
    BY <2>1 DEF KnownInv
<1>2. ~Leaves /\ ~Restart
  BY Noted DEF Leaves, Restart, Never, Events
<1>3. Sinks \subseteq Sinks'
  BY <1>2 DEF Next, Connect, Disconnect, Call, Wake, Ready, GivesUp, TimesOut, Thread, Dump,
              Decide, Appear, Notice, Unreachable, Refused, Device, Select, Open, Fail, Comes,
              vars, Sinks
<1>4. CASE Comes \/ \E c \in Connections : Appear(c)
  BY <1>4 DEF Comes, Appear, Sinks
<1>5. ASSUME NEW c \in Connections, Dump(c)
      PROVE  (cached' \/ news' # {} \/ \E d \in Connections : seen'[d]) => Sinks' # {}
  BY <1>1, <1>3, <1>5 DEF Dump, TypeOK
<1>6. CASE /\ cached' => cached \/ \E c \in Connections : seen[c]
           /\ news' \subseteq news
           /\ \A c \in Connections : seen'[c] => seen[c] \/ news # {}
  BY <1>1, <1>3, <1>6
<1>7. ASSUME NEW c \in Connections,
             \/ Connect(c) \/ Disconnect(c) \/ Call(c) \/ TimesOut(c)
             \/ Decide(c) \/ Notice(c) \/ Unreachable(c) \/ Refused(c)
             \/ \E r \in Roles : Device(c, r) \/ Fail(c, r)
      PROVE  /\ cached' => cached \/ \E d \in Connections : seen[d]
             /\ news' \subseteq news
             /\ \A d \in Connections : seen'[d] => seen[d] \/ news # {}
  BY <1>7 DEF Connect, Disconnect, Call, Wake, Ready, GivesUp, TimesOut, Decide, Notice,
              Unreachable, Refused, Device, Select, Open, Fail, TypeOK
<1>8. CASE UNCHANGED vars
  BY <1>6, <1>8 DEF vars
<1> QED
  BY <1>2, <1>4, <1>5, <1>6, <1>7, <1>8 DEF Next, Thread

LEMMA OneCallStep ==
  ASSUME TypeOK, StageInv, GraphInv, OneCreator, NEW c \in Connections, Call(c)
  PROVE  OneCreator'
<1> USE DEF devices, call, graph
<1>1. CASE Wake(c)
  <2>1. /\ UNCHANGED <<cached, seen, news, own, foreign>>
        /\ \A d \in Connections : d # c => thread'[d] = thread[d] /\ stage'[d] = stage[d]
        /\ stage[c] = "waiting"
        /\ \/ thread' = thread
           \/ thread'[c] = "started" /\ stage'[c] = "sink" /\ ~cached
    BY <1>1 DEF Wake, StartsOutputs, TypeOK
  <2>2. \A d \in Connections : Calling(d) => Calling(d)'
    BY <2>1 DEF Calling
  <2> QED
    BY <2>1, <2>2 DEF OneCreator, Creator, Calling, Sinks, TypeOK
<1>2. CASE Ready(c)
  <2>1. UNCHANGED graph /\ cached' = TRUE /\ Calling(c) /\ seen[c]
    BY <1>2 DEF Ready
  <2>2. ~Creator(c)
    <3>1. thread[c] # "started"
      BY <2>1 DEF GraphInv
    <3> QED
      BY <2>1, <3>1 DEF Creator, OneCreator
  <2>3. ASSUME NEW d \in Connections PROVE ~Creator(d)
    BY <2>1, <2>2, OneCall DEF OneCreator, Calling
  <2> QED
    BY <2>1, <2>3 DEF OneCreator, Creator, Sinks
<1>3. CASE GivesUp(c)
  <2>1. /\ UNCHANGED <<cached, graph>>
        /\ thread[c] \in {"dead", "idle", "cut"}
        /\ \A d \in Connections : d # c => stage'[d] = stage[d]
    BY <1>3 DEF GivesUp, Return, StartsOutputs, TypeOK
  <2>2. ~Creator(c) /\ c \notin own
    BY <2>1 DEF Creator, GraphInv
  <2> QED
    BY <2>1, <2>2 DEF OneCreator, Creator, Calling, Sinks, TypeOK
<1> QED
  BY <1>1, <1>2, <1>3 DEF Call

LEMMA OneThreadStep ==
  ASSUME TypeOK, StageInv, GraphInv, OneCreator, NEW c \in Connections,
         Thread(c) \/ Unreachable(c) \/ Refused(c)
  PROVE  OneCreator'
<1> USE DEF devices, call, graph
<1>1. UNCHANGED <<stage, cached, foreign>> /\ own \subseteq Connections
  BY DEF Thread, Dump, Decide, Appear, Notice, Unreachable, Refused, TypeOK
<1>2. CASE Dump(c)
  <2>1. /\ thread' = [thread EXCEPT ![c] = "dumped"] /\ thread[c] = "started"
        /\ seen' = [seen EXCEPT ![c] = (Sinks # {})]
        /\ UNCHANGED <<news, own>> /\ Sinks' = Sinks
    BY <1>1, <1>2 DEF Dump, Sinks
  <2>2. c \notin news /\ c \notin own /\ Creator(c)
    BY <2>1 DEF GraphInv, Creator
  <2> QED
    BY <1>1, <2>1, <2>2 DEF OneCreator, Creator, Calling, TypeOK
<1>3. CASE Decide(c)
  <2>1. UNCHANGED <<seen, news, own>> /\ Sinks' = Sinks
    BY <1>1, <1>3 DEF Decide, Sinks
  <2>2. \A d \in Connections : /\ Creator(d)' => Creator(d)
                               /\ Creator(d)' /\ thread'[d] # "started" => thread[d] # "started"
    BY <1>3, <2>1 DEF Decide, Creator, TypeOK
  <2> QED
    BY <1>1, <2>1, <2>2 DEF OneCreator, Calling
<1>4. CASE Appear(c)
  <2>1. /\ thread' = [thread EXCEPT ![c] = "keeping"] /\ thread[c] = "creating"
        /\ own' = own \cup {c} /\ news' = news \cup Watching /\ seen' = seen
    BY <1>4 DEF Appear
  <2>2. Creator(c) /\ Sinks = {} /\ ~seen[c] /\ Calling(c) /\ ~cached
    BY <2>1 DEF Creator, OneCreator
  <2>3. own' = {c} /\ ~foreign /\ c \in news'
    BY <2>1, <2>2 DEF Sinks, Watching
  <2>4. ASSUME NEW d \in Connections PROVE ~Creator(d)'
    <3>1. CASE d = c
      BY <2>1, <3>1 DEF Creator, TypeOK
    <3>2. CASE d # c
      <4>1. Creator(d)' => Creator(d)
        BY <2>1, <3>2 DEF Creator, TypeOK
      <4>2. ~(Calling(c) /\ Calling(d))
        BY <3>2, OneCall DEF Calling
      <4> QED
        BY <2>2, <4>1, <4>2 DEF OneCreator
    <3> QED
      BY <3>1, <3>2
  <2> QED
    BY <1>1, <2>2, <2>3, <2>4 DEF OneCreator, Calling
<1>5. CASE Notice(c)
  <2>1. /\ c \in news /\ seen' = [seen EXCEPT ![c] = TRUE] /\ news' = news \ {c}
        /\ UNCHANGED <<thread, own>> /\ Sinks' = Sinks
    BY <1>1, <1>5 DEF Notice, Sinks
  <2>2. \A d \in Connections : Creator(d) => d # c
    BY <2>1 DEF OneCreator, GraphInv
  <2>3. \A d \in Connections : Creator(d)' => Creator(d)
    BY <2>1 DEF Creator, TypeOK
  <2> QED
    BY <1>1, <2>1, <2>2, <2>3 DEF OneCreator, Calling, TypeOK
<1>6. CASE Unreachable(c) \/ Refused(c)
  <2>1. /\ thread' = [thread EXCEPT ![c] = thread'[c]] /\ thread'[c] \in {"dead", "idle"}
        /\ thread[c] # "keeping"
        /\ news' \in {news, news \ {c}} /\ UNCHANGED <<seen, own>> /\ Sinks' = Sinks
    BY <1>1, <1>6 DEF Unreachable, Refused, Sinks, TypeOK
  <2>2. c \notin own
    BY <2>1 DEF GraphInv
  <2>3. \A d \in Connections : Creator(d)' => Creator(d) /\ thread'[d] = thread[d]
    BY <2>1 DEF Creator, TypeOK
  <2> QED
    BY <1>1, <2>1, <2>2, <2>3 DEF OneCreator, Calling
<1> QED
  BY <1>2, <1>3, <1>4, <1>5, <1>6 DEF Thread

LEMMA OneStep ==
  ASSUME TypeOK, StageInv, GraphInv, OneInv, [Next]_vars
  PROVE  OneInv'
<1> USE DEF devices, call, graph
<1> SUFFICES ASSUME Never({"slow", "comes"})'
             PROVE  OneCreator'
  BY DEF OneInv
<1>1. OneCreator
  <2>1. Never({"slow", "comes"})
    BY NeverStays DEF Never, Events
  <2> QED
    BY <2>1 DEF OneInv
<1>2. ~Comes /\ \A c \in Connections : ~TimesOut(c)
  BY Noted DEF Comes, TimesOut, Never, Events
<1>3. CASE Leaves
  <2>1. UNCHANGED <<stage, cached, thread, seen, news, own>> /\ foreign' = FALSE
    BY <1>3 DEF Leaves
  <2>2. Sinks' \subseteq Sinks
    BY <2>1 DEF Sinks
  <2> QED
    BY <1>1, <2>1, <2>2 DEF OneCreator, Creator, Calling
<1>4. CASE Restart
  <2>1. /\ UNCHANGED <<stage, cached, seen>> /\ own' = {} /\ foreign' = FALSE
        /\ \A c \in Connections : thread'[c] \in {thread[c], "cut"}
                                  /\ thread'[c] \notin {"dumped", "creating"}
    BY <1>4 DEF Restart
  <2>2. \A c \in Connections : Creator(c)' => Creator(c) /\ thread'[c] = "started"
    BY <2>1 DEF Creator
  <2> QED
    BY <1>1, <2>1, <2>2 DEF OneCreator, Calling
<1>5. CASE \/ \E c \in Connections :
                \/ Connect(c) \/ Disconnect(c)
                \/ \E r \in Roles : Device(c, r) \/ Fail(c, r)
           \/ UNCHANGED vars
  <2>1. UNCHANGED <<cached, graph>> /\ \A c \in Connections : Calling(c) => Calling(c)'
    BY <1>5 DEF Connect, Disconnect, Device, Select, Open, Fail, vars, Calling, TypeOK
  <2> QED
    BY <1>1, <2>1 DEF OneCreator, Creator, Sinks, TypeOK
<1> QED
  BY <1>1, <1>2, <1>3, <1>4, <1>5, OneCallStep, OneThreadStep DEF Next

\* A cached name is a sink's and the sink is one, unless others interfere or a call has
\* timed out (audio.rs create_linux_sink, pw_null_sink_loop).
THEOREM SinkKept == Spec => []SinkReady
<1>1. Init => SinkInv
  BY ConstantsAssumption
  DEF Init, SinkInv, StageInv, GraphInv, KnownInv, OneInv, OneCreator, Creator, Sinks
<1>2. TypeOK /\ SinkInv /\ [Next]_vars => SinkInv'
  BY StageStep, GraphStep, KnownStep, OneStep DEF SinkInv
<1>3. TypeOK /\ SinkInv => SinkReady
  <2> SUFFICES ASSUME TypeOK, SinkInv PROVE SinkReady
    OBVIOUS
  <2>1. cached /\ Never({"leaves", "restart"}) => Sinks # {}
    BY DEF SinkInv, KnownInv
  <2>2. ASSUME Never({"slow", "comes"}), NEW s \in Sinks, NEW t \in Sinks
        PROVE  s = t
    BY <2>2 DEF SinkInv, OneInv, OneCreator, Sinks
  <2> QED
    BY <2>1, <2>2 DEF SinkReady
<1> QED
  BY <1>1, <1>2, <1>3, TypeInit, TypeStep, PTL DEF Spec

=============================================================================
