------------------------ MODULE StackLifecycleProofs ------------------------
(***************************************************************************)
(* Proofs about StackLifecycle.                                            *)
(***************************************************************************)
EXTENDS StackLifecycle, TLAPS

LEMMA SpendType ==
  ASSUME NEW event \in Events, left \in [Events -> Nat], Spend(event)
  PROVE  left' \in [Events -> Nat]
BY DEF Spend

LEMMA EventsHold == {"nodevice", "nosink", "notimer", "refused", "closes", "errors"} \subseteq Events
BY DEF Events

\* Spawning is the only step that touches more than one slot.
LEMMA SpawnType ==
  ASSUME TypeOK, NEW c \in Connections, NEW withRadio \in BOOLEAN, Spawn(c, withRadio),
         left' \in [Events -> Nat]
  PROVE  TypeOK'
<1> USE DEF TypeOK
<1>1. stack' \in [Connections -> StackStates]
  BY DEF Spawn, StackStates
<1>2. radio' \in [Connections -> RadioStates]
  BY DEF Spawn, RadioStates, CaptureStates
<1>3. mixer' \in [Connections -> [Mixers -> CaptureStates]]
  BY DEF Spawn, CaptureStates
<1>4. Slots(withRadio) \in [Labels -> {None, "Connecting", "Connected", "Disconnected"}]
  BY DEF Slots
<1>5. status' \in [Connections -> [Labels -> {None, "Connecting", "Connected", "Disconnected"}]]
  BY <1>4 DEF Spawn
<1>6. client' \in [Connections -> [Labels -> Alive \cup {"none", "ended", "cancelled"}]]
  BY DEF Spawn, Alive
<1>7. ASSUME NEW d \in Connections, NEW l \in Labels
      PROVE  status'[d][l] = None <=> client'[d][l] = "none"
  <2>1. CASE d = c
    BY <2>1, ConstantsAssumption DEF Spawn, Slots
  <2>2. CASE d # c
    BY <2>2 DEF Spawn
  <2>3. QED
    BY <2>1, <2>2
<1>8. QED
  BY <1>1, <1>2, <1>3, <1>5, <1>6, <1>7 DEF Spawn, main

LEMMA StackType ==
  ASSUME TypeOK, NEW c \in Connections, Stack(c)
  PROVE  TypeOK'
<1>1. CASE Begin(c)
  BY <1>1 DEF Begin, TypeOK, main, clients, StackStates, CaptureStates
<1>2. CASE Wake(c)
  <2>1. CASE HasRadio /\ RadioSource = "AutoSink"
    BY <1>2, <2>1 DEF Wake, TypeOK, main, audio, clients, StackStates
  <2>2. CASE ~(HasRadio /\ RadioSource = "AutoSink")
    <3>1. Spawn(c, HasRadio) /\ left' \in [Events -> Nat]
      BY <1>2, <2>2 DEF Wake, TypeOK
    <3>2. HasRadio \in BOOLEAN
      BY DEF HasRadio
    <3>3. QED
      BY <3>1, <3>2, SpawnType
  <2>3. QED
    BY <2>1, <2>2
<1>3. CASE SinkReturns(c)
  <2>1. CASE Spawn(c, TRUE) /\ UNCHANGED left
    BY <2>1, SpawnType DEF TypeOK
  <2>2. CASE Spend("nosink") /\ Spawn(c, FALSE)
    <3>1. left' \in [Events -> Nat]
      BY <2>2, SpendType, EventsHold DEF TypeOK
    <3>2. QED
      BY <2>2, <3>1, SpawnType
  <2>3. QED
    BY <1>3, <2>1, <2>2 DEF SinkReturns
<1>4. CASE SinkAbandoned(c)
  BY <1>4 DEF SinkAbandoned, TypeOK, main, audio, clients, StackStates
<1>5. QED
  BY <1>1, <1>2, <1>3, <1>4 DEF Stack

LEMMA AudioType ==
  ASSUME TypeOK, NEW c \in Connections,
         MicThread(c) \/ RadioThread(c) \/ \E m \in Mixers : MixerThread(c, m)
  PROVE  TypeOK'
<1>1. CASE MicOpens(c)
  <2>1. left' \in [Events -> Nat]
    BY <1>1, SpendType, EventsHold DEF MicOpens, TypeOK
  <2>2. QED
    BY <1>1, <2>1 DEF MicOpens, TypeOK, main, clients, CaptureStates
<1>2. CASE RadioOpens(c)
  <2>1. left' \in [Events -> Nat]
    BY <1>2, SpendType, EventsHold DEF RadioOpens, TypeOK
  <2>2. QED
    BY <1>2, <2>1 DEF RadioOpens, TypeOK, main, clients, RadioStates, CaptureStates
<1>3. ASSUME NEW m \in Mixers, MixerOpens(c, m)
      PROVE  TypeOK'
  <2>1. left' \in [Events -> Nat]
    BY <1>3, SpendType, EventsHold DEF MixerOpens, TypeOK
  <2>2. PICK s \in CaptureStates : mixer' = [mixer EXCEPT ![c][m] = s]
    BY <1>3 DEF MixerOpens, CaptureStates
  <2>3. mixer' \in [Connections -> [Mixers -> CaptureStates]]
    BY <2>2 DEF TypeOK
  <2>4. QED
    BY <1>3, <2>1, <2>3 DEF MixerOpens, TypeOK, main, clients
<1>4. CASE MicStops(c)
  BY <1>4 DEF MicStops, TypeOK, main, clients, CaptureStates
<1>5. CASE RadioStops(c)
  BY <1>5 DEF RadioStops, TypeOK, main, clients, RadioStates, CaptureStates
<1>6. ASSUME NEW m \in Mixers, MixerStops(c, m)
      PROVE  TypeOK'
  BY <1>6 DEF MixerStops, TypeOK, main, clients, CaptureStates
<1>7. QED
  BY <1>1, <1>2, <1>3, <1>4, <1>5, <1>6 DEF MicThread, RadioThread, MixerThread

LEMMA ClientType ==
  ASSUME TypeOK, NEW c \in Connections, NEW l \in Labels,
         Client(c, l) \/ ServerCloses(c, l) \/ StepFails(c, l)
  PROVE  TypeOK'
<1>1. CASE Online(c, l)
  BY <1>1, ConstantsAssumption DEF Online, TypeOK, main, audio, Alive
<1>2. CASE Refused(c, l)
  <2>1. left' \in [Events -> Nat]
    BY <1>2, SpendType, EventsHold DEF Refused, TypeOK
  <2>2. QED
    BY <1>2, <2>1 DEF Refused, TypeOK, main, audio, Alive
<1>3. CASE Ends(c, l) /\ left' \in [Events -> Nat]
  BY <1>3, ConstantsAssumption DEF Ends, TypeOK, main, audio, Alive
<1>4. CASE StepFails(c, l)
  <2>1. left' \in [Events -> Nat]
    BY <1>4, SpendType, EventsHold DEF StepFails, TypeOK
  <2>2. QED
    BY <1>4, <2>1 DEF StepFails, TypeOK, main, audio, Alive
<1>5. SourceEnds(c, l) => left' \in [Events -> Nat]
  BY DEF SourceEnds, TypeOK
<1>6. ServerCloses(c, l) => left' \in [Events -> Nat]
  BY SpendType, EventsHold DEF ServerCloses, TypeOK
<1>7. QED
  BY <1>1, <1>2, <1>3, <1>4, <1>5, <1>6 DEF Client, SourceEnds, ServerCloses

\* Every state has the declared types, and a status slot exists exactly for the
\* clients that were spawned.
THEOREM TypeCorrect == Spec => []TypeOK
<1>1. Init => TypeOK
  <2> SUFFICES ASSUME Init PROVE TypeOK
    OBVIOUS
  <2>1. connection \in 0 .. MaxConnections /\ opened \in 0 .. MaxConnections
    BY ConstantsAssumption DEF Init
  <2>2. /\ stack \in [Connections -> StackStates]
        /\ mic \in [Connections -> CaptureStates]
        /\ radio \in [Connections -> RadioStates]
        /\ mixer \in [Connections -> [Mixers -> CaptureStates]]
    BY DEF Init, StackStates, RadioStates, CaptureStates
  <2>3. /\ client \in [Connections -> [Labels -> Alive \cup {"none", "ended", "cancelled"}]]
        /\ status \in [Connections -> [Labels -> {None, "Connecting", "Connected", "Disconnected"}]]
        /\ \A c \in Connections, l \in Labels : status[c][l] = None <=> client[c][l] = "none"
    BY DEF Init
  <2>4. shutdown \in [Connections -> BOOLEAN] /\ stopping \in BOOLEAN /\ left \in [Events -> Nat]
    BY ConstantsAssumption DEF Init
  <2>5. QED
    BY <2>1, <2>2, <2>3, <2>4 DEF TypeOK
<1>2. ASSUME TypeOK, [Next]_vars
      PROVE  TypeOK'
  <2>1. CASE Start
    <3>1. opened' \in Connections
      BY <1>2, <2>1, ConstantsAssumption DEF Start, TypeOK, Connections
    <3>2. QED
      BY <1>2, <2>1, <3>1 DEF Start, TypeOK, audio, clients, StackStates, Connections
  <2>2. CASE Stop
    BY <1>2, <2>2 DEF Stop, TypeOK, audio, clients
  <2>3. CASE Dropped
    <3>1. stack' \in [Connections -> StackStates]
      BY <1>2, <2>3 DEF Dropped, TypeOK, StackStates
    <3>2. client' \in [Connections -> [Labels -> Alive \cup {"none", "ended", "cancelled"}]]
      <4>1. connection \in Connections =>
              [l \in Labels |-> IF client[connection][l] \in Alive THEN "cancelled"
                                ELSE client[connection][l]]
              \in [Labels -> Alive \cup {"none", "ended", "cancelled"}]
        BY <1>2 DEF TypeOK
      <4>2. QED
        BY <1>2, <2>3, <4>1 DEF Dropped, TypeOK
    <3>3. ASSUME NEW c \in Connections, NEW l \in Labels
          PROVE  client'[c][l] = "none" <=> client[c][l] = "none"
      BY <1>2, <2>3 DEF Dropped, TypeOK, Alive
    <3>4. \A c \in Connections, l \in Labels : status'[c][l] = None <=> client'[c][l] = "none"
      BY <1>2, <2>3, <3>3 DEF Dropped, TypeOK
    <3>5. /\ connection' \in 0 .. MaxConnections /\ opened' \in 0 .. MaxConnections
          /\ stopping' \in BOOLEAN
      <4>1. connection' = 0 /\ opened' = opened /\ stopping' = FALSE
        BY <2>3 DEF Dropped
      <4>2. MaxConnections \in Nat /\ opened \in 0 .. MaxConnections
        BY <1>2, ConstantsAssumption DEF TypeOK
      <4>3. connection' \in 0 .. MaxConnections /\ opened' \in 0 .. MaxConnections
        BY <4>1, <4>2
      <4>4. QED
        BY <4>1, <4>3
    <3>6. QED
      BY <1>2, <2>3, <3>1, <3>2, <3>4, <3>5 DEF Dropped, TypeOK, audio
  <2>4. ASSUME NEW c \in Connections, Stack(c)
        PROVE  TypeOK'
    BY <1>2, <2>4, StackType
  <2>5. ASSUME NEW c \in Connections,
               MicThread(c) \/ RadioThread(c) \/ \E m \in Mixers : MixerThread(c, m)
        PROVE  TypeOK'
    BY <1>2, <2>5, AudioType
  <2>6. ASSUME NEW c \in Connections, NEW l \in Labels,
               Client(c, l) \/ ServerCloses(c, l) \/ StepFails(c, l)
        PROVE  TypeOK'
    BY <1>2, <2>6, ClientType
  <2>7. CASE UNCHANGED vars
    BY <1>2, <2>7 DEF TypeOK, vars, main, audio, clients
  <2>8. QED
    BY <1>2, <2>1, <2>2, <2>3, <2>4, <2>5, <2>6, <2>7 DEF Next
<1>3. QED
  BY <1>1, <1>2, PTL DEF Spec

----------------------------------------------------------------------------
(* Only the current connection has tasks: clients that run, or a stack     *)
(* that may yet spawn them.                                                *)

StackOwned == \A c \in Connections :
  stack[c] \in {"spawned", "waiting", "sink"} => connection = c
CrewInv == StackOwned /\ OneCrew /\ (stopping => connection # 0)

LEMMA CrewStays == Spec => []CrewInv
<1>1. Init => CrewInv
  BY DEF Init, CrewInv, StackOwned, OneCrew, Alive
<1>2. ASSUME TypeOK, CrewInv, [Next]_vars
      PROVE  CrewInv'
  <2> USE <1>2 DEF CrewInv
  <2>1. CASE Start
    <3>1. StackOwned'
      BY <2>1 DEF Start, StackOwned, TypeOK, Connections
    <3>2. OneCrew'
      BY <2>1 DEF Start, OneCrew, clients, Connections
    <3>3. QED
      BY <2>1, <3>1, <3>2 DEF Start
  <2>2. CASE Stop
    BY <2>2 DEF Stop, StackOwned, OneCrew, clients
  <2>3. CASE Dropped
    <3>1. connection \in Connections
      BY <2>3 DEF Dropped, TypeOK, Connections
    <3>2. StackOwned'
      BY <2>3, <3>1 DEF Dropped, StackOwned, TypeOK
    <3>3. ASSUME NEW c \in Connections, NEW l \in Labels
          PROVE  client'[c][l] \notin Alive
      <4>1. CASE c = connection
        BY <2>3, <4>1 DEF Dropped, TypeOK, Alive
      <4>2. CASE c # connection
        BY <2>3, <4>2 DEF Dropped, OneCrew, TypeOK
      <4>3. QED
        BY <4>1, <4>2
    <3>4. QED
      BY <2>3, <3>2, <3>3 DEF Dropped, OneCrew
  <2>4. ASSUME NEW c \in Connections, Stack(c)
        PROVE  CrewInv'
    <3>1. connection = c /\ connection' = connection /\ stopping' = stopping
      BY <2>4 DEF Stack, Begin, Wake, SinkReturns, SinkAbandoned, Spawn, StackOwned, main
    <3>2. \A d \in Connections : d # c => stack'[d] = stack[d] /\ client'[d] = client[d]
      BY <2>4 DEF Stack, Begin, Wake, SinkReturns, SinkAbandoned, Spawn, TypeOK, clients
    <3>3. QED
      BY <3>1, <3>2 DEF StackOwned, OneCrew
  <2>5. ASSUME NEW c \in Connections,
               MicThread(c) \/ RadioThread(c) \/ \E m \in Mixers : MixerThread(c, m)
        PROVE  CrewInv'
    BY <2>5 DEF MicThread, RadioThread, MixerThread, MicOpens, RadioOpens, MixerOpens,
       MicStops, RadioStops, MixerStops, StackOwned, OneCrew, main, clients
  <2>6. ASSUME NEW c \in Connections, NEW l \in Labels,
               Client(c, l) \/ ServerCloses(c, l) \/ StepFails(c, l)
        PROVE  CrewInv'
    <3>1. UNCHANGED <<connection, stopping, stack>>
      BY <2>6 DEF Client, Online, Refused, SourceEnds, ServerCloses, StepFails, Ends, main
    <3>2. client[c][l] \in Alive
      BY <2>6 DEF Client, Online, Refused, SourceEnds, ServerCloses, StepFails, Ends, Alive
    <3>3. \A d \in Connections, k \in Labels :
            client'[d][k] = client[d][k] \/ (d = c /\ k = l)
      <4>1. PICK s : client' = [client EXCEPT ![c][l] = s]
        BY <2>6 DEF Client, Online, Refused, SourceEnds, ServerCloses, StepFails, Ends
      <4>2. ASSUME NEW d \in Connections, NEW k \in Labels
            PROVE  client'[d][k] = client[d][k] \/ (d = c /\ k = l)
        <5>1. client \in [Connections -> [Labels -> Alive \cup {"none", "ended", "cancelled"}]]
          BY DEF TypeOK
        <5>2. QED
          BY <4>1, <5>1
      <4>3. QED
        BY <4>2
    <3>4. QED
      BY <3>1, <3>2, <3>3 DEF StackOwned, OneCrew
  <2>7. CASE UNCHANGED vars
    BY <2>7 DEF vars, main, clients, StackOwned, OneCrew
  <2>8. QED
    BY <2>1, <2>2, <2>3, <2>4, <2>5, <2>6, <2>7 DEF Next
<1>3. QED
  BY <1>1, <1>2, TypeCorrect, PTL DEF Spec

\* After Disconnect no client of that connection runs, and none comes up later.
THEOREM OnlyOneCrew == Spec => []OneCrew
<1>1. CrewInv => OneCrew
  BY DEF CrewInv
<1> QED
  BY <1>1, CrewStays, PTL

----------------------------------------------------------------------------
(* What a connection has released stays released: the flag is raised for   *)
(* the current connection only, whose number is never used again.          *)

EndInv ==
  /\ connection <= opened
  /\ \A c \in Connections : shutdown[c] => c <= opened /\ (connection = c => stopping)

LEMMA EndStays == Spec => []EndInv
<1>1. Init => EndInv
  BY DEF Init, EndInv
<1>2. ASSUME TypeOK, EndInv, [Next]_vars
      PROVE  EndInv'
  <2>0. /\ MaxConnections \in Nat /\ opened \in 0 .. MaxConnections
        /\ connection \in 0 .. MaxConnections /\ shutdown \in [Connections -> BOOLEAN]
    BY <1>2, ConstantsAssumption DEF TypeOK
  <2>1. CASE Start
    <3>1. /\ opened' = opened + 1 /\ connection' = opened' /\ shutdown' = shutdown
      BY <2>1 DEF Start
    <3>2. \A c \in Connections : shutdown[c] => c <= opened
      BY <1>2 DEF EndInv
    <3> QED
      BY <2>0, <3>1, <3>2 DEF EndInv, Connections
  <2>2. CASE Stop
    BY <1>2, <2>0, <2>2 DEF Stop, EndInv, Connections
  <2>3. CASE Dropped
    BY <1>2, <2>0, <2>3 DEF Dropped, EndInv, Connections
  <2>4. CASE UNCHANGED main
    BY <1>2, <2>4 DEF main, EndInv
  <2> QED
    BY <1>2, <2>1, <2>2, <2>3, <2>4 DEF Next, vars, Stack, Begin, Wake, SinkReturns, SinkAbandoned,
       Spawn, MicThread, RadioThread, MixerThread, MicOpens, RadioOpens, MixerOpens, MicStops,
       RadioStops, MixerStops, Client, Online, Refused, SourceEnds, ServerCloses, StepFails, Ends
<1> QED
  BY <1>1, <1>2, TypeCorrect, PTL DEF Spec

\* Nothing that is left of a connection starts anything.
LEMMA GoneStep ==
  ASSUME TypeOK, CrewInv, EndInv, NEW c \in Connections, shutdown[c], Gone(c), [Next]_vars
  PROVE  shutdown[c]' /\ Gone(c)'
<1>1. /\ connection # c /\ c <= opened
      /\ stack[c] \notin {"spawned", "waiting", "sink"}
      /\ mic[c] \in {"none", "closed"} /\ radio[c] \in {"none", "closed", "untimed"}
      /\ \A m \in Mixers : mixer[c][m] \in {"none", "closed"}
      /\ \A l \in Labels : client[c][l] \notin Alive
  BY DEF Gone, Quiet, EndInv, CrewInv, StackOwned
<1>2. CASE Start
  BY <1>1, <1>2 DEF Start, audio, clients, Gone, Quiet
<1>3. CASE Stop
  BY <1>1, <1>3 DEF Stop, audio, clients, Gone, Quiet, TypeOK
<1>4. CASE Dropped
  <2>1. /\ UNCHANGED <<shutdown, audio>> /\ stopping' = FALSE
        /\ client'[c] = client[c]
    BY <1>1, <1>4 DEF Dropped, TypeOK
  <2> QED
    BY <1>1, <2>1 DEF audio, Gone, Quiet
<1>5. ASSUME NEW d \in Connections, Stack(d)
      PROVE  shutdown[c]' /\ Gone(c)'
  <2>1. d # c
    BY <1>1, <1>5 DEF Stack, Begin, Wake, SinkReturns, SinkAbandoned
  <2>2. UNCHANGED main /\ mic'[c] = mic[c] /\ radio'[c] = radio[c] /\ mixer'[c] = mixer[c]
        /\ client'[c] = client[c]
    BY <1>5, <2>1 DEF Stack, Begin, Wake, SinkReturns, SinkAbandoned, Spawn, main, audio, clients,
       TypeOK
  <2> QED
    BY <1>1, <2>2 DEF main, Gone, Quiet
<1>6. ASSUME NEW d \in Connections,
             MicThread(d) \/ RadioThread(d) \/ \E m \in Mixers : MixerThread(d, m)
      PROVE  shutdown[c]' /\ Gone(c)'
  <2>1. UNCHANGED <<main, clients>>
    BY <1>6 DEF MicThread, RadioThread, MixerThread, MicOpens, RadioOpens, MixerOpens, MicStops,
       RadioStops, MixerStops
  <2>2. mic'[c] = mic[c]
    BY <1>1, <1>6 DEF MicThread, RadioThread, MixerThread, MicOpens, RadioOpens, MixerOpens,
       MicStops, RadioStops, MixerStops, TypeOK
  <2>3. radio'[c] = radio[c]
    BY <1>1, <1>6 DEF MicThread, RadioThread, MixerThread, MicOpens, RadioOpens, MixerOpens,
       MicStops, RadioStops, MixerStops, TypeOK
  <2>4. mixer'[c] = mixer[c]
    <3>1. ASSUME NEW m \in Mixers, MixerThread(d, m)
          PROVE  mixer'[c] = mixer[c]
      <4>1. d # c
        BY <1>1, <3>1 DEF MixerThread, MixerOpens, MixerStops
      <4>2. \E s : mixer' = [mixer EXCEPT ![d][m] = s]
        BY <3>1 DEF MixerThread, MixerOpens, MixerStops
      <4> QED
        BY <4>1, <4>2 DEF TypeOK
    <3>2. CASE MicThread(d) \/ RadioThread(d)
      BY <3>2 DEF MicThread, RadioThread, MicOpens, RadioOpens, MicStops, RadioStops
    <3> QED
      BY <1>6, <3>1, <3>2
  <2> QED
    BY <1>1, <2>1, <2>2, <2>3, <2>4 DEF main, clients, Gone, Quiet
<1>7. ASSUME NEW d \in Connections, NEW l \in Labels,
             Client(d, l) \/ ServerCloses(d, l) \/ StepFails(d, l)
      PROVE  shutdown[c]' /\ Gone(c)'
  <2>1. UNCHANGED <<main, audio>> /\ client[d][l] \in Alive
        /\ \E s : client' = [client EXCEPT ![d][l] = s]
    BY <1>7 DEF Client, Online, Refused, SourceEnds, ServerCloses, StepFails, Ends, Alive
  <2>2. d # c
    BY <1>1, <2>1
  <2>3. client'[c] = client[c]
    BY <2>1, <2>2 DEF TypeOK
  <2> QED
    BY <1>1, <2>1, <2>3 DEF main, audio, Gone, Quiet
<1>8. CASE UNCHANGED vars
  BY <1>1, <1>8 DEF vars, main, audio, clients, Gone, Quiet
<1> QED
  BY <1>2, <1>3, <1>4, <1>5, <1>6, <1>7, <1>8 DEF Next

\* What a connection has released after Disconnect stays released, whatever is connected
\* later (audio.rs start_capture, stack.rs run_mumble_stack): no late step of its stack,
\* of a device thread or of a client opens anything again.
THEOREM ReleasedForGood ==
  ASSUME NEW c \in Connections
  PROVE  Spec => [](shutdown[c] /\ Gone(c) => []Gone(c))
<1>1. TypeOK /\ CrewInv /\ EndInv /\ (shutdown[c] /\ Gone(c)) /\ [Next]_vars
        => (shutdown[c] /\ Gone(c))'
  BY GoneStep
<1> QED
  BY <1>1, TypeCorrect, CrewStays, EndStays, PTL DEF Spec

----------------------------------------------------------------------------
(* The status slots.  A slot and its client agree until the client is      *)
(* cancelled or ends by an error; the current connection's clients are not *)
(* cancelled, as its number is new.                                        *)

BudgetInv == \A e \in Events : left[e] <= Budget[e]

Fresh ==
  /\ connection <= opened
  /\ \A c \in Connections, l \in Labels : c > opened => client[c][l] = "none"
  /\ connection # 0 => \A l \in Labels : client[connection][l] # "cancelled"

Agree(c, l) ==
  /\ status[c][l] = "Connecting" => client[c][l] = "connecting"
  /\ status[c][l] = "Connected" => client[c][l] = "online"

NoErrors == Unspent("refused") /\ Unspent("errors")

SlotInv ==
  /\ BudgetInv
  /\ Fresh
  /\ NoErrors => \A c \in Connections, l \in Labels : client[c][l] # "cancelled" => Agree(c, l)

LEMMA Spent ==
  ASSUME TypeOK, BudgetInv, NEW event \in Events, Spend(event)
  PROVE  BudgetInv' /\ ~Unspent(event)' /\ (NoErrors' => NoErrors)
<1>1. \A e \in Events : left[e] \in Nat /\ Budget[e] \in Nat /\ left[e] <= Budget[e]
  BY ConstantsAssumption DEF TypeOK, BudgetInv
<1>2. /\ left[event] > 0
      /\ \A e \in Events : left'[e] = IF e = event THEN left[e] - 1 ELSE left[e]
  BY DEF Spend, TypeOK
<1>3. BudgetInv'
  BY <1>1, <1>2 DEF BudgetInv
<1>4. \A e \in Events : left'[e] = Budget[e] => left[e] = Budget[e] /\ e # event
  BY <1>1, <1>2
<1> QED
  BY <1>3, <1>4, EventsHold DEF NoErrors, Unspent

LEMMA Unchanged ==
  ASSUME SlotInv, UNCHANGED left
  PROVE  BudgetInv' /\ NoErrors' = NoErrors
BY DEF SlotInv, BudgetInv, NoErrors, Unspent

LEMMA SlotMain ==
  ASSUME TypeOK, SlotInv, Start \/ Stop \/ Dropped
  PROVE  SlotInv'
<1>1. BudgetInv' /\ NoErrors' = NoErrors
  BY Unchanged DEF Start, Stop, Dropped
<1>2. CASE Start
  <2>1. opened + 1 \in Connections /\ opened \in Nat
    BY <1>2, ConstantsAssumption DEF Start, TypeOK, Connections
  <2>2. Fresh'
    BY <1>2, <2>1, ConstantsAssumption DEF Start, clients, SlotInv, Fresh, Connections
  <2> QED
    BY <1>1, <1>2, <2>2 DEF Start, clients, SlotInv, Agree
<1>3. CASE Stop
  BY <1>1, <1>3 DEF Stop, clients, SlotInv, Fresh, Agree
<1>4. CASE Dropped
  <2>1. ASSUME NEW c \in Connections, NEW l \in Labels
        PROVE  client'[c][l] \in {client[c][l], "cancelled"}
               /\ (client[c][l] = "none" => client'[c][l] = "none")
    BY <1>4 DEF Dropped, TypeOK, Alive
  <2>2. connection' = 0 /\ opened' = opened /\ status' = status
    BY <1>4 DEF Dropped
  <2>3. opened \in Nat
    BY ConstantsAssumption DEF TypeOK
  <2>4. Fresh'
    BY <2>1, <2>2, <2>3 DEF SlotInv, Fresh
  <2> QED
    BY <1>1, <2>1, <2>2, <2>4 DEF SlotInv, Agree
<1> QED
  BY <1>2, <1>3, <1>4

LEMMA SlotStack ==
  ASSUME TypeOK, CrewInv, SlotInv, NEW c \in Connections, Stack(c)
  PROVE  SlotInv'
<1>1. BudgetInv' /\ (NoErrors' => NoErrors)
  <2>1. BudgetInv /\ (UNCHANGED left \/ Spend("nosink"))
    BY DEF Stack, Begin, Wake, SinkReturns, SinkAbandoned, SlotInv
  <2> QED
    BY <2>1, Spent, Unchanged, EventsHold
<1>2. connection = c /\ UNCHANGED main
  BY DEF Stack, Begin, Wake, SinkReturns, SinkAbandoned, Spawn, CrewInv, StackOwned
<1>3. CASE UNCHANGED clients
  BY <1>1, <1>2, <1>3 DEF main, clients, SlotInv, Fresh, Agree
<1>4. ASSUME NEW withRadio \in BOOLEAN, Spawn(c, withRadio)
      PROVE  SlotInv'
  <2>1. ASSUME NEW l \in Labels
        PROVE  /\ client'[c][l] \in {"connecting", "none"}
               /\ status'[c][l] = IF client'[c][l] = "connecting" THEN "Connecting" ELSE None
    BY <1>4 DEF Spawn, Slots, TypeOK
  <2>2. \A d \in Connections : d # c => client'[d] = client[d] /\ status'[d] = status[d]
    BY <1>4 DEF Spawn, TypeOK
  <2>3. Fresh'
    BY <1>2, <2>1, <2>2 DEF main, SlotInv, Fresh, TypeOK, Connections
  <2> QED
    BY <1>1, <2>1, <2>2, <2>3, ConstantsAssumption DEF SlotInv, Agree
<1>5. HasRadio \in BOOLEAN
  BY DEF HasRadio
<1> QED
  BY <1>3, <1>4, <1>5 DEF Stack, Begin, Wake, SinkReturns, SinkAbandoned

LEMMA SlotClient ==
  ASSUME TypeOK, SlotInv, NEW c \in Connections, NEW l \in Labels,
         Client(c, l) \/ ServerCloses(c, l) \/ StepFails(c, l)
  PROVE  SlotInv'
<1> USE DEF Client, Online, Refused, SourceEnds, ServerCloses, StepFails, Ends
<1>1. BudgetInv' /\ (NoErrors' => NoErrors /\ ~Refused(c, l) /\ ~StepFails(c, l))
  BY Spent, Unchanged, EventsHold DEF SlotInv, NoErrors
<1>2. UNCHANGED <<connection, opened>> /\ client[c][l] \in Alive
  BY DEF main, Alive
<1>3. /\ client'[c][l] \in {"online", "ended"}
      /\ \A d \in Connections, k \in Labels :
           d # c \/ k # l => client'[d][k] = client[d][k]
  BY DEF TypeOK
<1>4. \A d \in Connections, k \in Labels : d # c \/ k # l => status'[d][k] = status[d][k]
  BY DEF TypeOK
<1>5. NoErrors' => Agree(c, l)'
  BY <1>1, <1>3 DEF Agree, TypeOK
<1>6. Fresh'
  <2>1. Fresh /\ ~(c > opened)
    BY <1>2 DEF SlotInv, Fresh, Alive
  <2>2. \A d \in Connections, k \in Labels :
          \/ client'[d][k] = client[d][k]
          \/ d = c /\ client'[d][k] # "cancelled"
    BY <1>3
  <2> HIDE DEF Client, Online, Refused, SourceEnds, ServerCloses, StepFails, Ends
  <2>3. \A d \in Connections, k \in Labels : d > opened' => client'[d][k] = "none"
    BY <1>2, <2>1, <2>2 DEF Fresh
  <2>4. connection' # 0 => \A k \in Labels : client'[connection'][k] # "cancelled"
    <3>1. connection # 0 => connection \in Connections
      BY ConstantsAssumption DEF TypeOK, Connections
    <3> QED
      BY <1>2, <2>1, <2>2, <3>1 DEF Fresh
  <2> QED
    BY <1>2, <2>1, <2>3, <2>4 DEF Fresh
<1> QED
  BY <1>1, <1>3, <1>4, <1>5, <1>6 DEF SlotInv, Agree

\* The window shows what each client is doing, until one is ended by an error.
THEOREM StatusStaysLive == Spec => []StatusFollows
<1>1. Init => SlotInv
  <2> SUFFICES ASSUME Init PROVE SlotInv
    OBVIOUS
  <2>1. BudgetInv
    BY ConstantsAssumption DEF Init, BudgetInv
  <2> QED
    BY <2>1, ConstantsAssumption DEF Init, SlotInv, Fresh, Agree
<1>2. ASSUME TypeOK, CrewInv, SlotInv, [Next]_vars
      PROVE  SlotInv'
  <2>1. ASSUME NEW c \in Connections,
               MicThread(c) \/ RadioThread(c) \/ \E m \in Mixers : MixerThread(c, m)
        PROVE  SlotInv'
    <3> USE <1>2, <2>1 DEF MicThread, RadioThread, MixerThread, MicOpens, RadioOpens,
            MixerOpens, MicStops, RadioStops, MixerStops
    <3>1. BudgetInv' /\ (NoErrors' => NoErrors)
      BY Spent, Unchanged, EventsHold DEF SlotInv
    <3>2. UNCHANGED <<main, clients>>
      OBVIOUS
    <3> QED
      BY <3>1, <3>2 DEF main, clients, SlotInv, Fresh, Agree
  <2>2. CASE UNCHANGED vars
    BY <1>2, <2>2, Unchanged DEF vars, main, clients, SlotInv, Fresh, Agree
  <2> QED
    BY <1>2, <2>1, <2>2, SlotMain, SlotStack, SlotClient DEF Next
<1>3. TypeOK /\ SlotInv => StatusFollows
  BY DEF SlotInv, Fresh, NoErrors, Agree, StatusFollows, StatusIsLive, TypeOK, Connections
<1> QED
  BY <1>1, <1>2, <1>3, TypeCorrect, CrewStays, PTL DEF Spec

=============================================================================
