----------------------------- MODULE AudioProofs -----------------------------
(***************************************************************************)
(* The two parts of mumble/audio.rs that run apart from the pipelines.     *)
(*                                                                         *)
(* The mixer for any number of sources, any layout of the device and any   *)
(* frame and block sizes.  MixerInv is the induction: a queue is the last  *)
(* Len samples that arrived, a whole number of device frames of them, none *)
(* of them heard.                                                          *)
(*                                                                         *)
(* The radio capture's links for any numbers of source nodes and channels. *)
(* LinkInv says whose the wires are.  For the channels the induction is    *)
(* EarlyInv: what the listener knows and what it is still to be told,      *)
(* taken together, begin with the source and its outputs by channel.       *)
(***************************************************************************)
EXTENDS PlaybackMixer, LoopbackLink, SequenceTheorems, FiniteSetTheorems, TLAPS

(* The mixer.                                                              *)

Whole(n) == \E k \in Nat : n = k * Channels

QueueInv(q, arr, hrd) ==
  /\ Len(q) <= arr
  /\ \A i \in 1 .. Len(q) : q[i] = arr - Len(q) + i - 1
  /\ Whole(Len(q))
  /\ Whole(arr)
  /\ Len(q) <= MaxBuffered
  /\ hrd <= arr - Len(q)

MixerInv ==
  /\ TypeOK
  /\ \A s \in Sources : QueueInv(sources[s], arrived[s], heard[s])

----------------------------------------------------------------------------
(* Whole device frames.                                                    *)

LEMMA WholeSum ==
  ASSUME NEW a, NEW b, Whole(a), Whole(b)
  PROVE  Whole(a + b)
<1>1. PICK j \in Nat, k \in Nat : a = j * Channels /\ b = k * Channels
  BY DEF Whole
<1>2. a + b = (j + k) * Channels /\ j + k \in Nat
  BY <1>1, ConstantsAssumption
<1> QED
  BY <1>2 DEF Whole

LEMMA WholeDifference ==
  ASSUME NEW a, NEW b, Whole(a), Whole(b), b <= a
  PROVE  Whole(a - b)
<1>1. PICK j \in Nat, k \in Nat : a = j * Channels /\ b = k * Channels
  BY DEF Whole
<1>2. Channels \in Nat /\ Channels > 0
  BY ConstantsAssumption
<1>3. k <= j
  BY <1>1, <1>2
<1>4. a - b = (j - k) * Channels /\ j - k \in Nat
  BY <1>1, <1>2, <1>3
<1> QED
  BY <1>4 DEF Whole

LEMMA WholeRemainder ==
  ASSUME NEW a, Whole(a)
  PROVE  a \in Nat /\ a % Channels = 0
<1>1. PICK k \in Nat : a = k * Channels
  BY DEF Whole
<1>2. Channels \in Nat /\ Channels > 0
  BY ConstantsAssumption
<1>3. a \in Nat
  BY <1>1, <1>2
<1> DEFINE d == a \div Channels
           r == a % Channels
<1>4. a = d * Channels + r /\ d \in Int /\ r \in 0 .. Channels - 1
  BY <1>2, <1>3
<1>5. r = (k - d) * Channels
  BY <1>1, <1>2, <1>4
<1>6. k - d < 1
  BY <1>2, <1>4, <1>5
<1>7. k - d > -1
  BY <1>2, <1>4, <1>5
<1>8. k - d = 0
  BY <1>4, <1>6, <1>7
<1> QED
  BY <1>2, <1>3, <1>4, <1>5, <1>8

LEMMA LimitIsWhole == MaxBuffered \in Nat /\ Whole(MaxBuffered)
  BY ConstantsAssumption DEF MaxBuffered, Whole

----------------------------------------------------------------------------
(* Queues.                                                                 *)

\* Draining d samples leaves the others, in order.
LEMMA Drained ==
  ASSUME NEW q \in Seq(Nat), NEW d \in 0 .. Len(q)
  PROVE  /\ SubSeq(q, d + 1, Len(q)) \in Seq(Nat)
         /\ Len(SubSeq(q, d + 1, Len(q))) = Len(q) - d
         /\ \A i \in 1 .. Len(q) - d : SubSeq(q, d + 1, Len(q))[i] = q[i + d]
  OBVIOUS

\* The samples above the limit go, no others: rounding the excess down to whole
\* device frames changes nothing, because queue and limit are whole frames.
LEMMA CappedDrains ==
  ASSUME NEW q \in Seq(Nat), Whole(Len(q))
  PROVE  \E d \in 0 .. Len(q) :
           /\ d = IF Len(q) > MaxBuffered THEN Len(q) - MaxBuffered ELSE 0
           /\ Capped(q) \in Seq(Nat)
           /\ Len(Capped(q)) = Len(q) - d
           /\ \A i \in 1 .. Len(q) - d : Capped(q)[i] = q[i + d]
<1>1. /\ Len(q) \in Nat
      /\ MaxBuffered \in Nat /\ Whole(MaxBuffered)
  BY LimitIsWhole
<1>2. CASE Len(q) > MaxBuffered
  <2>1. MaxBuffered <= Len(q)
    BY <1>1, <1>2
  <2>2. Whole(Len(q) - MaxBuffered)
    BY <1>1, <2>1, WholeDifference
  <2>3. PICK d : d = Len(q) - MaxBuffered
    OBVIOUS
  <2>4. d \in 0 .. Len(q) /\ d % Channels = 0
    BY <1>1, <2>1, <2>2, <2>3, WholeRemainder
  <2>5. d - (d % Channels) = d
    BY <2>4
  <2>6. Capped(q) = SubSeq(q, d + 1, Len(q))
    BY <1>2, <2>3, <2>5 DEF Capped
  <2>7. /\ Capped(q) \in Seq(Nat)
        /\ Len(Capped(q)) = Len(q) - d
        /\ \A i \in 1 .. Len(q) - d : Capped(q)[i] = q[i + d]
    BY <2>4, <2>6, Drained
  <2> QED
    BY <1>2, <2>3, <2>4, <2>7
<1>3. CASE ~(Len(q) > MaxBuffered)
  <2>1. Capped(q) = q
    BY <1>3 DEF Capped
  <2> QED
    BY <1>1, <1>3, <2>1
<1> QED
  BY <1>2, <1>3

\* Appending the samples from a on continues a queue that ends before a.
LEMMA Appended ==
  ASSUME NEW q \in Seq(Nat), NEW a \in Nat, NEW m \in Nat,
         Len(q) <= a,
         \A i \in 1 .. Len(q) : q[i] = a - Len(q) + i - 1,
         NEW l, l = [i \in 1 .. m |-> a + i - 1]
  PROVE  /\ q \o l \in Seq(Nat)
         /\ Len(q \o l) = Len(q) + m
         /\ \A i \in 1 .. Len(q \o l) : (q \o l)[i] = a - Len(q) + i - 1
<1>1. l \in Seq(Nat) /\ Len(l) = m
  <2>1. \A i \in 1 .. m : a + i - 1 \in Nat
    OBVIOUS
  <2> QED
    BY <2>1
<1>2. q \o l \in Seq(Nat) /\ Len(q \o l) = Len(q) + m
  BY <1>1
<1>3. ASSUME NEW i \in 1 .. Len(q) + m
      PROVE  (q \o l)[i] = a - Len(q) + i - 1
  <2>1. Len(q) \in Nat
    OBVIOUS
  <2>2. (q \o l)[i] = IF i <= Len(q) THEN q[i] ELSE l[i - Len(q)]
    BY <1>1, <2>1
  <2>3. CASE i <= Len(q)
    BY <2>1, <2>2, <2>3
  <2>4. CASE ~(i <= Len(q))
    <3>1. i - Len(q) \in 1 .. m
      BY <2>1, <2>4
    <3>2. l[i - Len(q)] = a + (i - Len(q)) - 1
      BY <3>1
    <3> QED
      BY <2>1, <2>2, <2>4, <3>2
  <2> QED
    BY <2>3, <2>4
<1> QED
  BY <1>2, <1>3

\* Appending a laid out frame and capping keeps a queue the tail of its stream.
LEMMA PushKeeps ==
  ASSUME NEW old \in Seq(Nat), NEW arr \in Nat, NEW hrd \in Nat,
         QueueInv(old, arr, hrd),
         NEW more \in Nat, Whole(more),
         NEW l, l = [i \in 1 .. more |-> arr + i - 1],
         NEW q, q = Capped(old \o l)
  PROVE  /\ q \in Seq(Nat)
         /\ QueueInv(q, arr + more, hrd)
         /\ Len(q) = IF Len(old) + more > MaxBuffered
                       THEN MaxBuffered ELSE Len(old) + more
<1>1. PICK all : all = old \o l
  OBVIOUS
<1>2. /\ all \in Seq(Nat)
      /\ Len(old) \in Nat
      /\ Len(all) = Len(old) + more
      /\ \A i \in 1 .. Len(all) : all[i] = arr - Len(old) + i - 1
  BY <1>1, Appended DEF QueueInv
<1>3. Whole(Len(all)) /\ Whole(arr + more)
  BY <1>2, WholeSum DEF QueueInv
<1>4. PICK d \in 0 .. Len(all) :
        /\ d = IF Len(all) > MaxBuffered THEN Len(all) - MaxBuffered ELSE 0
        /\ q \in Seq(Nat)
        /\ Len(q) = Len(all) - d
        /\ \A i \in 1 .. Len(all) - d : q[i] = all[i + d]
  BY <1>1, <1>2, <1>3, CappedDrains
<1>num. /\ d \in Nat /\ d <= Len(all)
        /\ Len(q) \in Nat /\ Len(all) \in Nat /\ Len(q) = Len(all) - d
        /\ MaxBuffered \in Nat
  BY <1>2, <1>4, LimitIsWhole
<1>5. Len(q) = IF Len(all) > MaxBuffered THEN MaxBuffered ELSE Len(all)
  BY <1>4, <1>num
<1>6. Len(q) <= MaxBuffered /\ Whole(Len(q))
  <2>1. Len(q) <= MaxBuffered
    BY <1>num, <1>5
  <2>2. CASE Len(all) > MaxBuffered
    BY <1>5, <2>2, LimitIsWhole
  <2>3. CASE ~(Len(all) > MaxBuffered)
    BY <1>3, <1>5, <2>1, <2>3
  <2> QED
    BY <2>2, <2>3
<1>7. ASSUME NEW i \in 1 .. Len(q)
      PROVE  q[i] = arr + more - Len(q) + i - 1
  <2>1. i + d \in 1 .. Len(all) /\ i \in 1 .. Len(all) - d
    BY <1>num
  <2>2. q[i] = all[i + d]
    BY <1>4, <2>1
  <2>3. all[i + d] = arr - Len(old) + (i + d) - 1
    BY <1>2, <2>1
  <2> QED
    BY <1>2, <1>num, <2>2, <2>3, SMTT(30)
<1>8. Len(q) <= arr + more /\ hrd <= arr + more - Len(q)
  <2>1. Len(old) <= arr /\ hrd <= arr - Len(old)
    BY DEF QueueInv
  <2> QED
    BY <1>2, <1>4, <2>1, SMTT(30)
<1> QED
  BY <1>2, <1>3, <1>4, <1>5, <1>6, <1>7, <1>8 DEF QueueInv

\* A callback takes whole device frames, if the queue consists of such.
LEMMA TakenIsWhole ==
  ASSUME NEW old \in Seq(Nat), Whole(Len(old)), NEW block \in Nat, Whole(block)
  PROVE  Taken(old, block) \in 0 .. Len(old) /\ Whole(Taken(old, block))
  BY DEF Taken

\* q is what remains of old after its first t elements.
Rest(q, old, t) ==
  Len(q) = Len(old) - t /\ \A i \in 1 .. Len(old) - t : q[i] = old[i + t]

\* Dropping the first t samples keeps a queue the tail of its stream, behind what
\* was heard.
LEMMA TakeKeeps ==
  ASSUME NEW old \in Seq(Nat), NEW arr \in Nat, NEW hrd \in Nat,
         QueueInv(old, arr, hrd),
         NEW t \in 0 .. Len(old), Whole(t),
         NEW q \in Seq(Nat), Rest(q, old, t),
         NEW h, h = IF t = 0 THEN hrd ELSE old[t] + 1
  PROVE  h \in Nat /\ QueueInv(q, arr, h)
<1>1. /\ Len(old) \in Nat /\ Len(old) <= arr
      /\ hrd <= arr - Len(old) /\ Len(old) <= MaxBuffered
  BY DEF QueueInv
<1>2. /\ Whole(Len(old)) /\ Whole(arr)
      /\ \A i \in 1 .. Len(old) : old[i] = arr - Len(old) + i - 1
  BY DEF QueueInv
<1>3. t \in Nat /\ t <= Len(old) /\ Len(q) \in Nat /\ Len(q) = Len(old) - t
  BY <1>1 DEF Rest
<1>4. ASSUME NEW i \in 1 .. Len(q)
      PROVE  q[i] = arr - Len(q) + i - 1
  <2>1. i + t \in 1 .. Len(old) /\ i \in 1 .. Len(old) - t
    BY <1>1, <1>3
  <2>2. q[i] = old[i + t]
    BY <2>1 DEF Rest
  <2>3. old[i + t] = arr - Len(old) + (i + t) - 1
    BY <1>2, <2>1
  <2> QED
    BY <1>1, <1>3, <2>2, <2>3
<1>5. Whole(Len(q))
  BY <1>2, <1>3, WholeDifference
<1>6. h \in Nat /\ h <= arr - Len(q)
  <2>1. CASE t = 0
    BY <1>1, <1>3, <2>1
  <2>2. CASE t # 0
    <3>1. t \in 1 .. Len(old)
      BY <1>1, <1>3, <2>2
    <3>2. old[t] = arr - Len(old) + t - 1
      BY <1>2, <3>1
    <3> QED
      BY <1>1, <1>3, <2>2, <3>2
  <2> QED
    BY <2>1, <2>2
<1>7. Len(q) <= arr /\ Len(q) <= MaxBuffered
  BY <1>1, <1>3, LimitIsWhole
<1> QED
  BY <1>2, <1>4, <1>5, <1>6, <1>7 DEF QueueInv

----------------------------------------------------------------------------
(* The invariant.                                                          *)

LEMMA InitMixer == Init => MixerInv
<1> SUFFICES ASSUME Init PROVE MixerInv
  OBVIOUS
<1>1. Whole(0)
  BY ConstantsAssumption DEF Whole
<1>2. TypeOK
  BY DEF Init, TypeOK
<1>3. ASSUME NEW s \in Sources PROVE QueueInv(sources[s], arrived[s], heard[s])
  <2>1. sources[s] = <<>> /\ arrived[s] = 0 /\ heard[s] = 0 /\ Len(sources[s]) = 0
    BY DEF Init
  <2> QED
    BY <1>1, <2>1, LimitIsWhole DEF QueueInv
<1> QED
  BY <1>2, <1>3 DEF MixerInv

LEMMA SendKeeps == ASSUME MixerInv, NEW s \in Sources, Send(s) PROVE MixerInv'
<1>1. TypeOK'
  <2>1. PICK n \in Lengths :
          /\ sent' = [sent EXCEPT ![s] = @ + n]
          /\ \/ inbox' = Append(inbox, [source |-> s, frames |-> n])
             \/ inbox' = inbox
    BY DEF Send
  <2>2. n \in Nat /\ [source |-> s, frames |-> n] \in Packet
    BY ConstantsAssumption DEF Packet
  <2>3. inbox' \in Seq(Packet)
    <3>1. inbox \in Seq(Packet)
      BY DEF MixerInv, TypeOK
    <3>2. PICK packet \in Packet : packet = [source |-> s, frames |-> n]
      BY <2>2
    <3>3. Append(inbox, packet) \in Seq(Packet)
      BY <3>1, AppendProperties
    <3> QED
      BY <2>1, <3>1, <3>2, <3>3
  <2>4. sent' \in [Sources -> Nat]
    BY <2>1, <2>2 DEF MixerInv, TypeOK
  <2> QED
    BY <2>3, <2>4 DEF Send, MixerInv, TypeOK
<1> QED
  BY <1>1 DEF Send, MixerInv, QueueInv

LEMMA NoDeviceKeeps == ASSUME MixerInv, NoDevice PROVE MixerInv'
<1>1. TypeOK'
  <2>1. inbox' \in Seq(Packet)
    BY DEF NoDevice
  <2> QED
    BY <2>1 DEF NoDevice, MixerInv, TypeOK
<1> QED
  BY <1>1 DEF NoDevice, MixerInv, QueueInv

\* What a push does to the queue of its source.
LEMMA PushOne ==
  ASSUME MixerInv, Push
  PROVE  \E s \in Sources, n \in Lengths :
           LET more == n * Channels
               q == Capped(sources[s] \o Layout(s, n))
           IN  /\ more \in Nat
               /\ sources' = [sources EXCEPT ![s] = q]
               /\ arrived' = [arrived EXCEPT ![s] = @ + more]
               /\ q \in Seq(Nat)
               /\ QueueInv(q, arrived[s] + more, heard[s])
               /\ Len(q) = IF Len(sources[s]) + more > MaxBuffered
                             THEN MaxBuffered ELSE Len(sources[s]) + more
<1>1. Head(inbox) \in Packet
  BY DEF Push, MixerInv, TypeOK
<1>2. PICK s \in Sources, n \in Lengths :
        /\ sources' = [sources EXCEPT ![s] = Capped(@ \o Layout(s, n))]
        /\ arrived' = [arrived EXCEPT ![s] = @ + n * Channels]
  BY <1>1 DEF Push, Packet
<1>3. n \in Nat /\ Channels \in Nat
  BY ConstantsAssumption
<1>4. PICK more \in Nat : more = n * Channels /\ Whole(more)
  BY <1>3 DEF Whole
<1>5. /\ sources[s] \in Seq(Nat) /\ arrived[s] \in Nat /\ heard[s] \in Nat
      /\ QueueInv(sources[s], arrived[s], heard[s])
  BY DEF MixerInv, TypeOK
<1>6. Layout(s, n) = [i \in 1 .. more |-> arrived[s] + i - 1]
  BY <1>4 DEF Layout
<1>7. PICK q : q = Capped(sources[s] \o Layout(s, n))
  OBVIOUS
<1>8. /\ q \in Seq(Nat)
      /\ QueueInv(q, arrived[s] + more, heard[s])
      /\ Len(q) = IF Len(sources[s]) + more > MaxBuffered
                    THEN MaxBuffered ELSE Len(sources[s]) + more
  <2>1. PICK l : l = [i \in 1 .. more |-> arrived[s] + i - 1]
    OBVIOUS
  <2>2. q = Capped(sources[s] \o l)
    BY <1>6, <1>7, <2>1
  <2>3. PICK old \in Seq(Nat), arr \in Nat, hrd \in Nat :
          old = sources[s] /\ arr = arrived[s] /\ hrd = heard[s]
    BY <1>5
  <2>4. /\ QueueInv(old, arr, hrd)
        /\ l = [i \in 1 .. more |-> arr + i - 1]
        /\ q = Capped(old \o l)
    BY <1>5, <2>1, <2>2, <2>3
  <2>5. /\ q \in Seq(Nat)
        /\ QueueInv(q, arr + more, hrd)
        /\ Len(q) = IF Len(old) + more > MaxBuffered
                      THEN MaxBuffered ELSE Len(old) + more
    BY ONLY <1>4, <2>4, PushKeeps
  <2> QED
    BY <2>3, <2>5
<1> QED
  BY <1>2, <1>4, <1>7, <1>8

LEMMA PushKeepsAll == ASSUME MixerInv, Push PROVE MixerInv'
<1>1. PICK s \in Sources, n \in Lengths :
        /\ n * Channels \in Nat
        /\ sources' = [sources EXCEPT ![s] = Capped(sources[s] \o Layout(s, n))]
        /\ arrived' = [arrived EXCEPT ![s] = @ + n * Channels]
        /\ Capped(sources[s] \o Layout(s, n)) \in Seq(Nat)
        /\ QueueInv(Capped(sources[s] \o Layout(s, n)),
                    arrived[s] + n * Channels, heard[s])
  BY PushOne
<1>2. heard' = heard /\ sent' = sent /\ running' = running
  BY DEF Push
<1>3. TypeOK'
  <2>1. inbox' \in Seq(Packet)
    BY DEF Push, MixerInv, TypeOK
  <2>2. sources' \in [Sources -> Seq(Nat)] /\ arrived' \in [Sources -> Nat]
    BY <1>1 DEF MixerInv, TypeOK
  <2> QED
    BY <1>2, <2>1, <2>2 DEF MixerInv, TypeOK
<1>4. ASSUME NEW r \in Sources PROVE QueueInv(sources'[r], arrived'[r], heard'[r])
  <2>1. CASE r = s
    BY <1>1, <1>2, <2>1 DEF MixerInv, TypeOK
  <2>2. CASE r # s
    <3>1. sources'[r] = sources[r] /\ arrived'[r] = arrived[r] /\ heard'[r] = heard[r]
      BY <1>1, <1>2, <2>2 DEF MixerInv, TypeOK
    <3> QED
      BY <3>1 DEF MixerInv
  <2> QED
    BY <2>1, <2>2
<1> QED
  BY <1>3, <1>4 DEF MixerInv, QueueInv

\* What a callback does to every queue.
LEMMA CallbackEach ==
  ASSUME MixerInv, NEW p \in Periods, NEW s \in Sources,
         NEW t, t = Taken(sources[s], p * Channels),
         NEW q, q = SubSeq(sources[s], t + 1, Len(sources[s])),
         NEW h, h = IF t = 0 THEN heard[s] ELSE sources[s][t] + 1
  PROVE  /\ t \in 0 .. Len(sources[s])
         /\ q \in Seq(Nat) /\ Len(q) = Len(sources[s]) - t
         /\ h \in Nat
         /\ QueueInv(q, arrived[s], h)
<1>1. p \in Nat /\ Channels \in Nat
  BY ConstantsAssumption
<1>2. PICK block \in Nat : block = p * Channels /\ Whole(block)
  BY <1>1 DEF Whole
<1>3. /\ sources[s] \in Seq(Nat) /\ arrived[s] \in Nat /\ heard[s] \in Nat
      /\ QueueInv(sources[s], arrived[s], heard[s])
  BY DEF MixerInv, TypeOK
<1>4. Whole(Len(sources[s]))
  BY <1>3 DEF QueueInv
<1>5. t \in 0 .. Len(sources[s]) /\ Whole(t)
  BY <1>2, <1>3, <1>4, TakenIsWhole
<1>6. /\ q \in Seq(Nat) /\ Len(q) = Len(sources[s]) - t
      /\ \A i \in 1 .. Len(sources[s]) - t : q[i] = sources[s][i + t]
  BY <1>3, <1>5, Drained
<1>7. h \in Nat /\ QueueInv(q, arrived[s], h)
  <2>1. PICK old \in Seq(Nat), arr \in Nat, hrd \in Nat :
          old = sources[s] /\ arr = arrived[s] /\ hrd = heard[s]
    BY <1>3
  <2>2. /\ QueueInv(old, arr, hrd)
        /\ t \in 0 .. Len(old) /\ Whole(t)
        /\ q \in Seq(Nat) /\ Rest(q, old, t)
        /\ h = IF t = 0 THEN hrd ELSE old[t] + 1
    BY <1>3, <1>5, <1>6, <2>1 DEF Rest
  <2>3. h \in Nat /\ QueueInv(q, arr, h)
    BY ONLY <2>2, TakeKeeps, old \in Seq(Nat), arr \in Nat, hrd \in Nat
  <2> QED
    BY <2>1, <2>3
<1> QED
  BY <1>5, <1>6, <1>7

LEMMA CallbackKeeps == ASSUME MixerInv, Callback PROVE MixerInv'
<1>1. PICK p \in Periods :
        /\ sources' = [s \in Sources |->
             SubSeq(sources[s], Taken(sources[s], p * Channels) + 1, Len(sources[s]))]
        /\ heard' = [s \in Sources |->
             IF Taken(sources[s], p * Channels) = 0
               THEN heard[s]
               ELSE sources[s][Taken(sources[s], p * Channels)] + 1]
  BY DEF Callback
<1>2. UNCHANGED <<sent, inbox, running, arrived>>
  BY DEF Callback
<1>3. ASSUME NEW s \in Sources
      PROVE  /\ sources'[s] \in Seq(Nat) /\ heard'[s] \in Nat
             /\ QueueInv(sources'[s], arrived[s], heard'[s])
  BY <1>1, CallbackEach
<1>4. TypeOK'
  <2>1. sources' \in [Sources -> Seq(Nat)]
    BY <1>1, <1>3
  <2>2. heard' \in [Sources -> Nat]
    BY <1>1, <1>3
  <2> QED
    BY <1>2, <2>1, <2>2 DEF MixerInv, TypeOK
<1> QED
  BY <1>2, <1>3, <1>4 DEF MixerInv, QueueInv

LEMMA NextKeeps == MixerInv /\ [Next]_vars => MixerInv'
<1> SUFFICES ASSUME MixerInv, [Next]_vars PROVE MixerInv'
  OBVIOUS
<1>1. CASE Push
  BY <1>1, PushKeepsAll
<1>2. CASE Callback
  BY <1>2, CallbackKeeps
<1>3. CASE NoDevice
  BY <1>3, NoDeviceKeeps
<1>4. ASSUME NEW s \in Sources, Send(s) PROVE MixerInv'
  BY <1>4, SendKeeps
<1>5. CASE UNCHANGED vars
  BY <1>5 DEF vars, MixerInv, TypeOK, QueueInv
<1> QED
  BY <1>1, <1>2, <1>3, <1>4, <1>5 DEF Next

LEMMA InvariantHolds == Spec => []MixerInv
  BY InitMixer, NextKeeps, PTL DEF Spec

----------------------------------------------------------------------------
(* What it says of every execution.                                        *)

\* The variables always have the types that the code declares for them.
THEOREM TypeCorrect == Spec => []TypeOK
<1>1. MixerInv => TypeOK
  BY DEF MixerInv
<1> QED
  BY <1>1, InvariantHolds, PTL

\* Every queue always begins and ends with a whole device frame, whatever mix of
\* frames, callbacks and drops came before (audio.rs aligned_drain).
THEOREM ChannelsStayAligned == Spec => []Aligned
<1>1. MixerInv => Aligned
  <2> SUFFICES ASSUME MixerInv, NEW s \in Sources
               PROVE  /\ Len(sources[s]) % Channels = 0
                      /\ sources[s] # <<>> => sources[s][1] % Channels = 0
    BY DEF Aligned
  <2>1. /\ sources[s] \in Seq(Nat) /\ Len(sources[s]) \in Nat
        /\ arrived[s] \in Nat /\ Len(sources[s]) <= arrived[s]
        /\ Whole(Len(sources[s])) /\ Whole(arrived[s])
        /\ \A i \in 1 .. Len(sources[s]) :
             sources[s][i] = arrived[s] - Len(sources[s]) + i - 1
    BY DEF MixerInv, TypeOK, QueueInv
  <2>2. Whole(arrived[s] - Len(sources[s]))
    BY <2>1, WholeDifference
  <2>3. CASE sources[s] # <<>>
    <3>1. 1 \in 1 .. Len(sources[s])
      BY <2>1, <2>3
    <3>2. sources[s][1] = arrived[s] - Len(sources[s])
      BY <2>1, <3>1
    <3> QED
      BY <2>1, <2>2, <3>2, WholeRemainder
  <2> QED
    BY <2>1, <2>3, WholeRemainder
<1> QED
  BY <1>1, InvariantHolds, PTL

\* What waits comes after what was heard, without holes, up to what arrived last
\* (audio.rs callback: the front of the queue is mixed and drained).
THEOREM HeardInOrder == Spec => []InOrder
<1>1. MixerInv => InOrder
  <2> SUFFICES ASSUME MixerInv, NEW s \in Sources
               PROVE  LET q == sources[s]
                      IN  /\ q # <<>> => heard[s] <= q[1] /\ q[Len(q)] + 1 = arrived[s]
                          /\ \A i \in 1 .. Len(q) - 1 : q[i + 1] = q[i] + 1
    BY DEF InOrder
  <2>q. PICK q : q = sources[s]
    OBVIOUS
  <2>1. /\ q \in Seq(Nat) /\ Len(q) \in Nat
        /\ arrived[s] \in Nat /\ heard[s] \in Nat
        /\ Len(q) <= arrived[s] /\ heard[s] <= arrived[s] - Len(q)
        /\ \A i \in 1 .. Len(q) : q[i] = arrived[s] - Len(q) + i - 1
    BY <2>q DEF MixerInv, TypeOK, QueueInv
  <2>2. ASSUME q # <<>> PROVE heard[s] <= q[1] /\ q[Len(q)] + 1 = arrived[s]
    <3>1. 1 \in 1 .. Len(q) /\ Len(q) \in 1 .. Len(q)
      BY <2>1, <2>2
    <3>2. /\ q[1] = arrived[s] - Len(q) + 1 - 1
          /\ q[Len(q)] = arrived[s] - Len(q) + Len(q) - 1
      BY <2>1, <3>1
    <3> QED
      BY <2>1, <3>2
  <2>3. ASSUME NEW i \in 1 .. Len(q) - 1 PROVE q[i + 1] = q[i] + 1
    <3>1. i \in 1 .. Len(q) /\ i + 1 \in 1 .. Len(q)
      BY <2>1
    <3>2. /\ q[i] = arrived[s] - Len(q) + i - 1
          /\ q[i + 1] = arrived[s] - Len(q) + (i + 1) - 1
      BY <2>1, <3>1
    <3> QED
      BY <2>1, <3>2
  <2> QED
    BY <2>q, <2>2, <2>3
<1> QED
  BY <1>1, InvariantHolds, PTL

\* No queue is ever longer than the limit (audio.rs push loop).
THEOREM QueuesBounded == Spec => []Bounded
<1>1. MixerInv => Bounded
  BY DEF MixerInv, QueueInv, Bounded
<1> QED
  BY <1>1, InvariantHolds, PTL

----------------------------------------------------------------------------
(* The mixer implements SourceFifo.                                        *)

\* The first waiting sample of a source, by the refinement mapping.
First(q, arr) == IF q = <<>> THEN arr ELSE q[1]

LEMMA FirstWaiting ==
  ASSUME NEW q \in Seq(Nat), NEW arr \in Nat, NEW hrd, QueueInv(q, arr, hrd)
  PROVE  First(q, arr) = arr - Len(q)
<1>1. Len(q) \in Nat /\ \A i \in 1 .. Len(q) : q[i] = arr - Len(q) + i - 1
  BY DEF QueueInv
<1>2. CASE q = <<>>
  BY <1>1, <1>2 DEF First
<1>3. CASE q # <<>>
  <2>1. 1 \in 1 .. Len(q)
    BY <1>1, <1>3
  <2>2. q[1] = arr - Len(q) + 1 - 1
    BY <1>1, <2>1
  <2> QED
    BY <1>1, <1>3, <2>2 DEF First
<1> QED
  BY <1>2, <1>3

\* Where each source is, before and after a step.
LEMMA FirstBefore ==
  ASSUME MixerInv, NEW s \in Sources
  PROVE  First(sources[s], arrived[s]) = arrived[s] - Len(sources[s])
  BY FirstWaiting DEF MixerInv, TypeOK

LEMMA FirstAfter ==
  ASSUME MixerInv', NEW s \in Sources
  PROVE  First(sources'[s], arrived'[s]) = arrived'[s] - Len(sources'[s])
  BY FirstWaiting DEF MixerInv, TypeOK

LEMMA PushDelivers ==
  ASSUME MixerInv, MixerInv', Push
  PROVE  \E s \in Sources : FifoOfSources!Deliver(s)
<1>1. PICK s \in Sources, n \in Lengths :
        LET more == n * Channels
            q == Capped(sources[s] \o Layout(s, n))
        IN  /\ more \in Nat
            /\ sources' = [sources EXCEPT ![s] = q]
            /\ arrived' = [arrived EXCEPT ![s] = @ + more]
            /\ Len(q) = IF Len(sources[s]) + more > MaxBuffered
                          THEN MaxBuffered ELSE Len(sources[s]) + more
  BY PushOne
<1>2. PICK more \in Nat : more = n * Channels
  BY <1>1
<1>3. PICK q : q = Capped(sources[s] \o Layout(s, n))
  OBVIOUS
<1>4. /\ sources' = [sources EXCEPT ![s] = q]
      /\ arrived' = [arrived EXCEPT ![s] = @ + more]
      /\ Len(q) = IF Len(sources[s]) + more > MaxBuffered
                    THEN MaxBuffered ELSE Len(sources[s]) + more
  BY <1>1, <1>2, <1>3
<1>5. /\ sources \in [Sources -> Seq(Nat)] /\ arrived \in [Sources -> Nat]
      /\ Len(sources[s]) \in Nat /\ arrived[s] \in Nat /\ MaxBuffered \in Nat
      /\ Len(sources[s]) <= MaxBuffered
  BY LimitIsWhole DEF MixerInv, TypeOK, QueueInv
<1>6. First(sources'[s], arrived'[s]) =
        FifoOfSources!Most(First(sources[s], arrived[s]),
                           arrived[s] + more - MaxBuffered)
  <2>1. arrived'[s] = arrived[s] + more /\ sources'[s] = q
    BY <1>4, <1>5
  <2>2. First(sources'[s], arrived'[s]) = (arrived[s] + more) - Len(q)
    BY <2>1, FirstAfter, Zenon
  <2>3. First(sources[s], arrived[s]) = arrived[s] - Len(sources[s])
    BY FirstBefore
  <2> QED
    BY <1>2, <1>4, <1>5, <2>2, <2>3 DEF FifoOfSources!Most
<1>7. ASSUME NEW r \in Sources, r # s
      PROVE  sources'[r] = sources[r] /\ arrived'[r] = arrived[r]
  BY <1>4, <1>5, <1>7
<1>8. [r \in Sources |-> First(sources'[r], arrived'[r])] =
        [[r \in Sources |-> First(sources[r], arrived[r])] EXCEPT
           ![s] = FifoOfSources!Most(First(sources[s], arrived[s]),
                                     arrived[s] + more - MaxBuffered)]
  BY <1>6, <1>7
<1>9. more \in {k * Channels : k \in Lengths}
  BY <1>2
<1>10. PICK lo : lo = [r \in Sources |-> First(sources[r], arrived[r])]
  OBVIOUS
<1>11. lo[s] = First(sources[s], arrived[s])
  BY <1>10
<1>12. FifoOfSources!Deliver(s) <=>
         \E m \in {k * Channels : k \in Lengths} :
           /\ arrived' = [arrived EXCEPT ![s] = @ + m]
           /\ [r \in Sources |-> First(sources'[r], arrived'[r])] =
                [lo EXCEPT ![s] = FifoOfSources!Most(lo[s], arrived[s] + m - MaxBuffered)]
  BY <1>10 DEF FifoOfSources!Deliver, First
<1>13. FifoOfSources!Deliver(s)
  BY <1>4, <1>8, <1>9, <1>10, <1>11, <1>12
<1> QED
  BY <1>13

LEMMA CallbackTakes ==
  ASSUME MixerInv, MixerInv', Callback
  PROVE  FifoOfSources!Take
<1>1. PICK p \in Periods :
        sources' = [s \in Sources |->
          SubSeq(sources[s], Taken(sources[s], p * Channels) + 1, Len(sources[s]))]
  BY DEF Callback
<1>2. PICK block \in Nat : block = p * Channels
  BY ConstantsAssumption
<1>3. arrived' = arrived
  BY DEF Callback
<1>4. ASSUME NEW s \in Sources
      PROVE  First(sources'[s], arrived'[s]) =
               First(sources[s], arrived[s]) +
                 FifoOfSources!Least(block, arrived[s] - First(sources[s], arrived[s]))
  <2>1. /\ Len(sources[s]) \in Nat /\ arrived[s] \in Nat
    BY DEF MixerInv, TypeOK
  <2>2. Len(sources'[s]) = Len(sources[s]) - Taken(sources[s], block)
    BY <1>1, <1>2, CallbackEach
  <2>3. First(sources[s], arrived[s]) = arrived[s] - Len(sources[s])
    BY FirstBefore
  <2>4. First(sources'[s], arrived'[s]) = arrived[s] - Len(sources'[s])
    BY <1>3, FirstAfter
  <2>5. arrived[s] - First(sources[s], arrived[s]) = Len(sources[s])
    BY <2>1, <2>3
  <2>6. Taken(sources[s], block) = FifoOfSources!Least(block, Len(sources[s]))
    BY <2>1 DEF FifoOfSources!Least, Taken
  <2>7. FifoOfSources!Least(block, Len(sources[s])) \in Nat
    BY <2>1 DEF FifoOfSources!Least
  <2> QED
    BY <2>1, <2>2, <2>3, <2>4, <2>5, <2>6, <2>7
<1> QED
  BY <1>2, <1>3, <1>4 DEF FifoOfSources!Take, First

\* Each source has its FIFO to itself: the mixer implements SourceFifo (audio.rs
\* start_playback, one queue per session).
THEOREM MixerImplementsFifo == Spec => ImplementsFifo
<1>1. Init => FifoOfSources!Empty
  BY DEF Init, FifoOfSources!Empty
<1>2. ASSUME MixerInv, MixerInv', [Next]_vars
      PROVE  FifoOfSources!Move \/ UNCHANGED <<[s \in Sources |-> First(sources[s], arrived[s])], arrived>>
  <2>1. CASE Push
    BY <1>2, <2>1, PushDelivers DEF FifoOfSources!Move
  <2>2. CASE Callback
    BY <1>2, <2>2, CallbackTakes DEF FifoOfSources!Move
  <2>3. CASE NoDevice \/ (\E s \in Sources : Send(s)) \/ UNCHANGED vars
    <3>1. arrived' = arrived /\ sources' = sources
      BY <2>3 DEF NoDevice, Send, vars
    <3> QED
      BY <3>1 DEF First
  <2> QED
    BY <1>2, <2>1, <2>2, <2>3 DEF Next
<1>3. MixerInv /\ MixerInv' /\ [Next]_vars =>
        [FifoOfSources!Move]_<<[s \in Sources |-> First(sources[s], arrived[s])], arrived>>
  BY <1>2
<1> QED
  BY <1>1, <1>3, InvariantHolds, PTL
  DEF Spec, ImplementsFifo, FifoOfSources!Fifo, First

----------------------------------------------------------------------------
(* Sorting by channel: the place of an output among the outputs of a node. *)

\* The places are those from 0 on, and each is somebody's.
LEMMA Places ==
  ASSUME NEW ps \in Seq(Ports), NEW outs \in SUBSET DOMAIN ps
  PROVE  /\ IsFiniteSet(outs) /\ Cardinality(outs) \in Nat
         /\ \A i \in outs : Place(ps, outs, i) \in 0 .. Cardinality(outs) - 1
         /\ \A k \in 0 .. Cardinality(outs) - 1 : \E i \in outs : Place(ps, outs, i) = k
<1> DEFINE N == Cardinality(outs)
           Before(i) == {j \in outs : ps[j].index < ps[i].index
                                      \/ (ps[j].index = ps[i].index /\ j < i)}
           f == [i \in outs |-> Place(ps, outs, i)]
<1>1. DOMAIN ps = 1 .. Len(ps) /\ Len(ps) \in Nat
  OBVIOUS
<1>2. IsFiniteSet(outs)
  <2>1. IsFiniteSet(1 .. Len(ps))
    BY <1>1, FS_Interval
  <2> QED
    BY <2>1, <1>1, FS_Subset
<1>3. N \in Nat
  BY <1>2, FS_CardinalityType
<1>4. \A i \in outs : i \in Nat /\ ps[i].index \in Nat
  <2>1. \A i \in outs : i \in 1 .. Len(ps) /\ ps[i] \in Ports
    BY <1>1
  <2>2. \A p \in Ports : p.index \in 0 .. Outs + Inputs
    BY DEF Ports
  <2>3. Outs + Inputs \in Nat
    BY LinkAssumption
  <2> QED
    BY <2>1, <2>2, <2>3, <1>1
<1>5. \A i \in outs : Place(ps, outs, i) = Cardinality(Before(i))
  BY DEF Place
<1>6. ASSUME NEW S \in SUBSET outs, NEW i \in outs, i \notin S
      PROVE  IsFiniteSet(S) /\ Cardinality(S) \in 0 .. N - 1
  <2>1. IsFiniteSet(S) /\ Cardinality(S) <= N /\ (N = Cardinality(S) => outs = S)
    BY <1>2, FS_Subset
  <2>2. Cardinality(S) \in Nat
    BY <2>1, FS_CardinalityType
  <2> QED
    BY <2>1, <2>2, <1>3, <1>6
<1>7. \A i \in outs : i \notin Before(i)
  BY <1>4
<1>8. \A i \in outs : Place(ps, outs, i) \in 0 .. N - 1
  <2> TAKE i \in outs
  <2>1. Before(i) \in SUBSET outs
    OBVIOUS
  <2> HIDE DEF Before
  <2> QED
    BY <2>1, <1>5, <1>6, <1>7
<1>9. ASSUME NEW i \in outs, NEW j \in outs, i # j, Place(ps, outs, i) = Place(ps, outs, j)
      PROVE  FALSE
  <2>1. i \in Before(j) \/ j \in Before(i)
    BY <1>4, <1>9
  <2>2. ASSUME NEW x \in outs, NEW y \in outs, x \in Before(y)
        PROVE  Place(ps, outs, x) < Place(ps, outs, y)
    <3>1. Before(x) \in SUBSET Before(y)
      BY <1>4, <2>2
    <3>2. Before(y) \in SUBSET outs /\ y \notin Before(y) /\ x \notin Before(x)
      BY <1>7
    <3> HIDE DEF Before
    <3>3. IsFiniteSet(Before(y)) /\ Cardinality(Before(y)) \in Nat
      BY <3>2, <1>6, FS_CardinalityType
    <3>4. /\ Cardinality(Before(x)) <= Cardinality(Before(y))
          /\ Cardinality(Before(y)) = Cardinality(Before(x)) => Before(y) = Before(x)
          /\ IsFiniteSet(Before(x))
      BY <3>1, <3>3, FS_Subset
    <3>5. Cardinality(Before(x)) \in Nat
      BY <3>4, FS_CardinalityType
    <3> QED
      BY <3>2, <3>3, <3>4, <3>5, <2>2, <1>5
  <2>3. Place(ps, outs, i) \in Nat /\ Place(ps, outs, j) \in Nat
    BY <1>8, <1>3
  <2> HIDE DEF Before
  <2> QED
    BY <2>1, <2>2, <2>3, <1>9
<1>10. f \in Injection(outs, 0 .. N - 1)
  <2>1. f \in [outs -> 0 .. N - 1]
    BY <1>8
  <2>2. \A i, j \in DOMAIN f : f[i] = f[j] => i = j
    BY <1>9
  <2> QED
    BY <2>1, <2>2 DEF Injection, IsInjective
<1>11. IsFiniteSet(0 .. N - 1) /\ Cardinality(0 .. N - 1) = N
  <2> HIDE DEF N
  <2>1. 0 \in Int /\ N - 1 \in Int
    BY <1>3
  <2>2. /\ IsFiniteSet(0 .. N - 1)
        /\ Cardinality(0 .. N - 1) = IF 0 > N - 1 THEN 0 ELSE N - 1 - 0 + 1
    BY <2>1, FS_Interval
  <2> QED
    BY <2>2, <1>3
<1>12. f \in Surjection(outs, 0 .. N - 1)
  <2> HIDE DEF f
  <2> QED
    BY <1>10, <1>11, FS_Injection
<1>13. \A k \in 0 .. N - 1 : \E i \in outs : f[i] = k
  <2> HIDE DEF f
  <2> QED
    BY <1>12 DEF Surjection
<1> QED
  BY <1>2, <1>3, <1>8, <1>13

\* An input is linked to one of the outputs there are.
LEMMA OutputIsThere ==
  ASSUME NEW ps \in Seq(Ports), NEW outs \in SUBSET DOMAIN ps, outs # {}, NEW index \in Nat
  PROVE  \E i \in outs : /\ OutputFor(ps, outs, index) = ps[i]
                         /\ Place(ps, outs, i) = IF index < Cardinality(outs) THEN index
                                                 ELSE Cardinality(outs) - 1
<1> DEFINE place == IF index < Cardinality(outs) THEN index ELSE Cardinality(outs) - 1
<1>1. Cardinality(outs) \in Nat /\ Cardinality(outs) # 0
  BY Places, FS_EmptySet
<1>2. place \in 0 .. Cardinality(outs) - 1
  BY <1>1
<1>3. \E i \in outs : Place(ps, outs, i) = place
  BY <1>2, Places
<1>4. OutputFor(ps, outs, index) = ps[CHOOSE i \in outs : Place(ps, outs, i) = place]
  BY DEF OutputFor
<1> HIDE DEF place
<1>5. PICK i : i = CHOOSE j \in outs : Place(ps, outs, j) = place
  OBVIOUS
<1>6. i \in outs /\ Place(ps, outs, i) = place
  BY <1>3, <1>5
<1> QED
  BY <1>4, <1>5, <1>6 DEF place

----------------------------------------------------------------------------
(* What a link attempt does, and types.                                    *)

\* The wires are those of inputs that are linked, each input's own.
LinkInv ==
  /\ LinkTypeOK
  /\ \A w \in wires : w.dst \in linkedInputs
  /\ OneSourcePerInput
  /\ loop = "new" => wires = {}

\* attempt_link adds a wire for some of the inputs that are due, and for no others.
LEMMA Attempt ==
  ASSUME LinkTypeOK, NEW ps \in Seq(Ports), NEW t, NEW o, AttemptLink(t, o, ps)
  PROVE  \E done \in SUBSET Pending(ps, o) :
           /\ linkedInputs' = linkedInputs \cup done
           /\ done \subseteq Ports /\ done \cap linkedInputs = {}
           /\ done # {} => t # None /\ o # None /\ OutputsOf(ps, t) # {}
           /\ wires \subseteq wires'
           /\ \A w \in wires' \ wires :
                /\ w.dst \in done
                /\ w = [src |-> OutputFor(ps, OutputsOf(ps, t), w.dst.index), dst |-> w.dst]
                /\ w.src \in Ports
           /\ left' \in [Events -> Nat]
           /\ \A e \in Events : left'[e] <= left[e]
<1> DEFINE outs == OutputsOf(ps, t)
           due == IF t = None \/ o = None \/ outs = {} THEN {} ELSE Pending(ps, o)
           wire(p) == [src |-> OutputFor(ps, outs, p.index), dst |-> p]
<1>1. PICK done \in SUBSET due :
        /\ UNCHANGED left \/ Spend("linkfails")
        /\ linkedInputs' = linkedInputs \cup done
        /\ wires' = wires \cup {w \in {wire(p) : p \in done} : Exists(w.src)}
  BY DEF AttemptLink
<1>2. due # {} => t # None /\ o # None /\ outs # {} /\ due = Pending(ps, o)
  OBVIOUS
<1>3. done \subseteq Pending(ps, o) /\ (done # {} => t # None /\ o # None /\ outs # {})
  BY <1>2
<1>4. Pending(ps, o) \subseteq Ports /\ Pending(ps, o) \cap linkedInputs = {}
  BY DEF Pending, Seen
<1>5. \A p \in Ports : p.index \in Nat
  BY LinkAssumption DEF Ports
<1>6. outs \in SUBSET DOMAIN ps
  BY DEF OutputsOf
<1>7. \A p \in done : wire(p).src \in Ports
  <2> TAKE p \in done
  <2>1. p.index \in Nat /\ outs # {}
    BY <1>3, <1>4, <1>5
  <2> HIDE DEF outs
  <2>2. \E i \in outs : OutputFor(ps, outs, p.index) = ps[i]
    BY <2>1, <1>6, OutputIsThere
  <2> QED
    BY <2>2, <1>6
<1>8. left' \in [Events -> Nat] /\ \A e \in Events : left'[e] <= left[e]
  <2>1. CASE UNCHANGED left
    BY <2>1 DEF LinkTypeOK
  <2>2. CASE Spend("linkfails")
    <3>1. left \in [Events -> Nat] /\ "linkfails" \in Events
      BY DEF LinkTypeOK, Events
    <3>2. left["linkfails"] \in Nat /\ left["linkfails"] > 0
      BY <3>1, <2>2 DEF Spend
    <3>3. left' = [left EXCEPT !["linkfails"] = left["linkfails"] - 1]
      BY <2>2 DEF Spend
    <3> QED
      BY <3>1, <3>2, <3>3
  <2> QED
    BY <2>1, <2>2, <1>1
<1>9. \A w \in wires' \ wires : w.dst \in done /\ w = wire(w.dst) /\ w.src \in Ports
  <2> TAKE w \in wires' \ wires
  <2>1. PICK p \in done : w = wire(p)
    BY <1>1
  <2>2. w.dst = p
    BY <2>1
  <2> QED
    BY <2>1, <2>2, <1>7
<1> QED
  BY <1>1, <1>3, <1>4, <1>8, <1>9

\* Every announcement is a node or a port.
LEMMA Announced ==
  ASSUME LinkTypeOK
  PROVE  /\ source # None => Node(source, "source") \in Nodes
         /\ \A n \in 0 .. Outs + Inputs : source # None => Port(source, n, TRUE) \in Ports
         /\ Node(Ours, "loopback") \in Nodes
         /\ \A n \in 0 .. Outs + Inputs : Port(Ours, n, FALSE) \in Ports
         /\ Dump \in Seq(Nodes \cup Ports)
<1>1. /\ source # None => Node(source, "source") \in Nodes
      /\ \A n \in 0 .. Outs + Inputs : source # None => Port(source, n, TRUE) \in Ports
      /\ Node(Ours, "loopback") \in Nodes
      /\ \A n \in 0 .. Outs + Inputs : Port(Ours, n, FALSE) \in Ports
  BY DEF LinkTypeOK, Node, Nodes, Port, Ports, NodeIds
<1>2. ASSUME source # None
      PROVE  Dump \in Seq(Nodes \cup Ports)
  <2>1. sourcePorts \in Nat /\ sourcePorts <= Outs /\ Outs \in Nat /\ Inputs \in Nat
    BY LinkAssumption DEF LinkTypeOK
  <2>2. \A i \in 1 .. sourcePorts : Port(source, i - 1, TRUE) \in Nodes \cup Ports
    <3> TAKE i \in 1 .. sourcePorts
    <3>1. i - 1 \in 0 .. Outs + Inputs
      BY <2>1
    <3> QED
      BY <3>1, <1>1, <1>2
  <2>3. PortsOf(source, sourcePorts, TRUE) \in Seq(Nodes \cup Ports)
    <3>1. PortsOf(source, sourcePorts, TRUE) \in [1 .. sourcePorts -> Nodes \cup Ports]
      BY <2>2 DEF PortsOf
    <3> QED
      BY <3>1, <2>1, SeqDef
  <2>4. <<Node(source, "source")>> \in Seq(Nodes \cup Ports)
    BY <1>1, <1>2
  <2>5. <<Node(source, "source")>> \o PortsOf(source, sourcePorts, TRUE) \in Seq(Nodes \cup Ports)
    BY <2>3, <2>4, ConcatProperties
  <2> QED
    BY <2>5, <1>2 DEF Dump
<1>3. ASSUME source = None
      PROVE  Dump \in Seq(Nodes \cup Ports)
  BY <1>3 DEF Dump
<1> QED
  BY <1>1, <1>2, <1>3

\* An event of the budget is spent.
LEMMA Spending ==
  ASSUME LinkTypeOK, NEW event \in Events, Spend(event)
  PROVE  /\ left' \in [Events -> Nat] /\ left'[event] < left[event]
         /\ \A e \in Events : left'[e] <= left[e]
<1>1. left \in [Events -> Nat] /\ left[event] \in Nat /\ left[event] > 0
  BY DEF LinkTypeOK, Spend
<1>2. left' = [left EXCEPT ![event] = left[event] - 1]
  BY DEF Spend
<1> QED
  BY <1>1, <1>2

\* What the listener knows after an announcement.
LEMMA Learned ==
  ASSUME LinkTypeOK, Global
  PROVE  /\ events \in Seq(Nodes \cup Ports) /\ events # <<>>
         /\ Head(events) \in Nodes \cup Ports
         /\ events' \in Seq(Nodes \cup Ports)
         /\ targetNode' \in SourceIds \cup {None} /\ ourNode' \in {Ours, None}
         /\ ports' \in Seq(Ports)
<1>1. events \in Seq(Nodes \cup Ports) /\ events # <<>>
  BY DEF LinkTypeOK, Global
<1>2. Head(events) \in Nodes \cup Ports /\ Tail(events) \in Seq(Nodes \cup Ports)
  BY <1>1
<1> DEFINE g == Head(events)
<1>3. /\ events' = Tail(events)
      /\ targetNode' = FirstNamed(targetNode, g, "source")
      /\ ourNode' = FirstNamed(ourNode, g, "loopback")
      /\ ports' = IF g.type = "Port" THEN Append(ports, g) ELSE ports
  BY DEF Global
<1> HIDE DEF g
<1>4. g \in Nodes => g.type = "Node" /\ (g.name = "source" => g.id \in SourceIds)
                                      /\ (g.name = "loopback" => g.id = Ours)
  BY DEF Nodes
<1>5. g \in Ports => g.type = "Port"
  BY DEF Ports
<1>6. g \in Nodes \cup Ports
  BY <1>2 DEF g
<1>7. targetNode' \in SourceIds \cup {None} /\ ourNode' \in {Ours, None}
  BY <1>3, <1>4, <1>5, <1>6 DEF LinkTypeOK, FirstNamed
<1>8. ports' \in Seq(Ports)
  <2>1. ports \in Seq(Ports)
    BY DEF LinkTypeOK
  <2>2. CASE g.type = "Port"
    <3>1. g \in Ports
      BY <2>2, <1>4, <1>6
    <3> QED
      BY <3>1, <2>1, <2>2, <1>3
  <2> QED
    BY <2>1, <2>2, <1>3
<1> QED
  BY <1>1, <1>2, <1>3, <1>7, <1>8

----------------------------------------------------------------------------
(* The induction.                                                          *)

LEMMA LinkInitInv == LinkInit => LinkInv
<1> SUFFICES ASSUME LinkInit PROVE LinkInv
  OBVIOUS
<1>1. Outs \in Nat /\ Inputs \in Nat /\ Budget \in [Events -> Nat]
  BY LinkAssumption
<1>2. LinkTypeOK
  <2>1. sourcePorts \in 0 .. Outs /\ ourPorts = None
    BY <1>1 DEF LinkInit
  <2>2. events \in Seq(Nodes \cup Ports) /\ ports \in Seq(Ports) /\ left \in [Events -> Nat]
    BY <1>1 DEF LinkInit
  <2> QED
    BY <2>1, <2>2 DEF LinkInit, LinkTypeOK
<1> QED
  BY <1>2 DEF LinkInit, LinkInv, OneSourcePerInput

\* PipeWire's own steps leave the links alone, or take some with the source.
LEMMA PipeWireKeepsLinks ==
  ASSUME LinkInv, PipeWire \/ SourceAppears \/ SourceVanishes
  PROVE  LinkInv'
<1> USE DEF LinkInv
<1>1. Outs \in Nat /\ Inputs \in Nat
  BY LinkAssumption
<1>2. ASSUME NEW g \in Nodes \cup Ports, Announce(g)
      PROVE  events' \in Seq(Nodes \cup Ports)
  BY <1>2 DEF Announce, LinkTypeOK
<1>3. wires' \subseteq wires /\ UNCHANGED <<linkedInputs, loop>>
  BY DEF PipeWire, SourcePort, StreamNode, StreamPort, SourceAppears, SourceVanishes, graph
<1>4. LinkTypeOK'
  <2>1. CASE SourceAppears
    <3>1. source' \in SourceIds /\ Node(source', "source") \in Nodes
      BY <2>1 DEF SourceAppears, Node, Nodes
    <3>2. events' \in Seq(Nodes \cup Ports)
      BY <3>1, <2>1, <1>2 DEF SourceAppears
    <3>3. left' \in [Events -> Nat]
      <4>1. "appear" \in Events /\ Spend("appear")
        BY <2>1 DEF SourceAppears, Events
      <4> QED
        BY <4>1, Spending
    <3> QED
      BY <3>1, <3>2, <3>3, <2>1 DEF SourceAppears, LinkTypeOK, graph, stopper
  <2>2. CASE SourcePort
    <3>1. Port(source, sourcePorts, TRUE) \in Ports
      <4>1. sourcePorts \in 0 .. Outs + Inputs /\ source # None
        BY <2>2, <1>1 DEF SourcePort, LinkTypeOK
      <4> QED
        BY <4>1, Announced
    <3>2. events' \in Seq(Nodes \cup Ports)
      BY <3>1, <2>2, <1>2 DEF SourcePort
    <3> QED
      BY <3>2, <2>2, <1>1 DEF SourcePort, LinkTypeOK, graph, stopper
  <2>3. CASE SourceVanishes
    <3>1. left' \in [Events -> Nat]
      <4>1. "vanish" \in Events /\ Spend("vanish")
        BY <2>3 DEF SourceVanishes, Events
      <4> QED
        BY <4>1, Spending
    <3> QED
      BY <3>1, <2>3, <1>1, <1>3 DEF SourceVanishes, LinkTypeOK, graph, stopper
  <2>4. CASE StreamNode
    <3>1. events' \in Seq(Nodes \cup Ports)
      BY <2>4, <1>2, Announced DEF StreamNode
    <3> QED
      BY <3>1, <2>4, <1>1 DEF StreamNode, LinkTypeOK, graph, stopper
  <2>5. CASE StreamPort
    <3>1. ourPorts \in 0 .. Inputs /\ ourPorts' \in 0 .. Inputs
      BY <2>5, <1>1 DEF StreamPort, LinkTypeOK
    <3>2. Port(Ours, ourPorts, FALSE) \in Ports
      <4>1. ourPorts \in 0 .. Outs + Inputs
        BY <3>1, <1>1
      <4> QED
        BY <4>1, Announced
    <3>3. events' \in Seq(Nodes \cup Ports)
      BY <3>2, <2>5, <1>2 DEF StreamPort
    <3> QED
      BY <3>1, <3>3, <2>5 DEF StreamPort, LinkTypeOK, graph, stopper
  <2> QED
    BY <2>1, <2>2, <2>3, <2>4, <2>5 DEF PipeWire
<1> QED
  BY <1>3, <1>4 DEF OneSourcePerInput

LEMMA StartKeepsLinks == ASSUME LinkInv, Start PROVE LinkInv'
<1> USE DEF LinkInv
<1>1. LinkTypeOK'
  <2>1. events' \in Seq(Nodes \cup Ports)
    BY Announced DEF Start, LinkTypeOK
  <2>2. left' \in [Events -> Nat]
    <3>1. CASE Spend("startfails")
      BY <3>1, Spending DEF Events
    <3>2. CASE Spend("timerfails")
      BY <3>2, Spending DEF Events
    <3> QED
      BY <3>1, <3>2 DEF Start, LinkTypeOK
  <2>3. armed' \in BOOLEAN
    BY DEF Start, LinkTypeOK
  <2> QED
    BY <2>1, <2>2, <2>3 DEF Start, LinkTypeOK, pipewire, graph
<1> QED
  BY <1>1 DEF Start, pipewire, graph, OneSourcePerInput

\* Only inputs without a wire get one, and they get one each.
LEMMA GlobalKeepsLinks == ASSUME LinkInv, Global PROVE LinkInv'
<1> USE DEF LinkInv
<1>1. /\ events' \in Seq(Nodes \cup Ports) /\ ports' \in Seq(Ports)
      /\ targetNode' \in SourceIds \cup {None} /\ ourNode' \in {Ours, None}
  BY Learned
<1>2. AttemptLink(targetNode', ourNode', ports')
  BY DEF Global
<1>3. PICK done \in SUBSET Pending(ports', ourNode') :
        /\ linkedInputs' = linkedInputs \cup done
        /\ done \subseteq Ports /\ done \cap linkedInputs = {}
        /\ wires \subseteq wires'
        /\ \A w \in wires' \ wires :
             /\ w.dst \in done
             /\ w = [src |-> OutputFor(ports', OutputsOf(ports', targetNode'), w.dst.index),
                     dst |-> w.dst]
             /\ w.src \in Ports
        /\ left' \in [Events -> Nat]
  BY <1>1, <1>2, Attempt
<1>4. linkedInputs' \subseteq Ports /\ wires' \subseteq [src : Ports, dst : Ports]
  BY <1>3 DEF LinkTypeOK
<1>5. LinkTypeOK'
  BY <1>1, <1>3, <1>4 DEF Global, LinkTypeOK, stopper
<1>6. \A w \in wires' : w.dst \in linkedInputs'
  BY <1>3
<1>7. OneSourcePerInput'
  <2> SUFFICES ASSUME NEW v \in wires', NEW w \in wires', v.dst = w.dst
               PROVE  v = w
    BY DEF OneSourcePerInput
  <2>1. v \in wires <=> w \in wires
    BY <1>3
  <2>2. CASE v \in wires /\ w \in wires
    BY <2>2 DEF OneSourcePerInput
  <2>3. CASE v \notin wires /\ w \notin wires
    BY <2>3, <1>3
  <2> QED
    BY <2>1, <2>2, <2>3
<1> QED
  BY <1>5, <1>6, <1>7 DEF Global

LEMMA EndKeepsLinks == ASSUME LinkInv, Shutdown \/ Timer PROVE LinkInv'
<1> USE DEF LinkInv
<1>1. LinkTypeOK'
  <2>1. CASE Shutdown
    BY <2>1 DEF Shutdown, LinkTypeOK, pipewire, graph
  <2>2. CASE Timer
    <3>1. events' = <<>> /\ wires' = {} /\ ourPorts' = None /\ loop' = "ended"
          /\ UNCHANGED <<source, sourcePorts, graph, stopper, left>>
      BY <2>2 DEF Timer
    <3>2. events' \in Seq(Nodes \cup Ports)
      BY <3>1
    <3> QED
      BY <3>1, <3>2 DEF LinkTypeOK, graph, stopper
  <2> QED
    BY <2>1, <2>2
<1> QED
  BY <1>1 DEF Shutdown, Timer, pipewire, graph, OneSourcePerInput

LEMMA LinkNextInv == LinkInv /\ [LinkNext]_linkVars => LinkInv'
<1> SUFFICES ASSUME LinkInv, [LinkNext]_linkVars PROVE LinkInv'
  OBVIOUS
<1>1. CASE UNCHANGED linkVars
  BY <1>1 DEF LinkInv, LinkTypeOK, OneSourcePerInput, linkVars, pipewire, graph, stopper
<1> QED
  BY <1>1, PipeWireKeepsLinks, StartKeepsLinks, GlobalKeepsLinks, EndKeepsLinks DEF LinkNext

LEMMA LinkInvariant == LinkSpec => []LinkInv
<1> QED
  BY LinkInitInv, LinkNextInv, PTL DEF LinkSpec

\* The graph, the capture and its picture of the graph have the types they are
\* declared with; the links are of output ports to the capture's own inputs.
THEOREM LinkTypeCorrect == LinkSpec => []LinkTypeOK
<1>1. LinkInv => LinkTypeOK
  BY DEF LinkInv
<1> QED
  BY <1>1, LinkInvariant, PTL

\* No input ever hears two outputs, whatever comes, goes and fails.
THEOREM EachInputOnce == LinkSpec => []OneSourcePerInput
<1>1. LinkInv => OneSourcePerInput
  BY DEF LinkInv
<1> QED
  BY <1>1, LinkInvariant, PTL

\* The capture is a patchbay: each input is wired once, a wire goes with its source
\* or with the capture, and none is made after the end.
THEOREM LinkImplementsPatchbay == LinkSpec => ImplementsPatchbay
<1>1. LinkInit => Patchbay!Bare
  BY DEF LinkInit, Patchbay!Bare
<1>2. ASSUME LinkInv, [LinkNext]_linkVars
      PROVE  [Patchbay!Plug \/ Patchbay!Unplug \/ Patchbay!Close]_<<wires, linkedInputs, loop = "ended">>
  <2>1. CASE Start
    <3>1. CASE loop' = "ended"
      <4>1. wires' = {} /\ UNCHANGED linkedInputs
        BY <1>2, <2>1 DEF Start, LinkInv, pipewire, graph
      <4> QED
        BY <4>1, <3>1 DEF Patchbay!Close
    <3>2. CASE loop' # "ended"
      BY <2>1, <3>2 DEF Start, pipewire, graph
    <3> QED
      BY <3>1, <3>2
  <2>2. CASE SourceVanishes
    <3>1. source \in NodeIds
      BY <1>2, <2>2 DEF SourceVanishes, LinkInv, LinkTypeOK, NodeIds
    <3>2. UNCHANGED <<linkedInputs, loop>> /\ wires' = {w \in wires : w.src.node # source}
      BY <2>2 DEF SourceVanishes, graph
    <3> QED
      BY <3>1, <3>2 DEF Patchbay!Unplug
  <2>3. CASE Global
    <3>1. ports' \in Seq(Ports) /\ AttemptLink(targetNode', ourNode', ports') /\ LinkTypeOK
      BY <1>2, <2>3, Learned DEF LinkInv, Global
    <3>2. PICK done \in SUBSET Pending(ports', ourNode') :
            /\ linkedInputs' = linkedInputs \cup done
            /\ done \subseteq Ports /\ done \cap linkedInputs = {}
            /\ done # {} => /\ targetNode' # None /\ ourNode' # None
                            /\ OutputsOf(ports', targetNode') # {}
            /\ wires \subseteq wires'
            /\ \A w \in wires' \ wires :
                 /\ w.dst \in done
                 /\ w = [src |-> OutputFor(ports', OutputsOf(ports', targetNode'), w.dst.index),
                         dst |-> w.dst]
                 /\ w.src \in Ports
            /\ left' \in [Events -> Nat]
            /\ \A e \in Events : left'[e] <= left[e]
      BY <3>1, Attempt
    <3>3. \A v, w \in wires' \ wires : v.dst = w.dst => v = w
      BY <3>2
    <3>4. \A w \in wires' \ wires : w.dst \in linkedInputs' \ linkedInputs
      BY <3>2
    <3>5. loop = "running" /\ UNCHANGED loop
      BY <2>3 DEF Global
    <3> QED
      BY <3>2, <3>3, <3>4, <3>5 DEF Patchbay!Plug
  <2>4. CASE Timer
    BY <2>4 DEF Timer, graph, Patchbay!Close
  <2>5. CASE PipeWire \/ SourceAppears \/ Shutdown \/ UNCHANGED linkVars
    BY <2>5 DEF PipeWire, SourcePort, StreamNode, StreamPort, SourceAppears, Shutdown,
                linkVars, pipewire, graph
  <2> QED
    BY <1>2, <2>1, <2>2, <2>3, <2>4, <2>5 DEF LinkNext
<1> QED
  BY <1>1, <1>2, LinkInvariant, PTL DEF LinkSpec, ImplementsPatchbay, Patchbay!Patching

----------------------------------------------------------------------------
(* A source that was there first: its ports come before everything else.   *)

\* An announcement of the source or of one of its ports.
FromSource(g) == IF g.type = "Node" THEN g.name = "source" ELSE g.out

\* The listener knows nothing of a source and will not be told.
Silent ==
  /\ targetNode = None
  /\ \A i \in 1 .. Len(ports) : ~FromSource(ports[i])
  /\ \A j \in 1 .. Len(events) : ~FromSource(events[j])

\* The outputs of source s by channel, then nothing of the source.
InOrderOf(s, k, g) == IF k <= Outs THEN g = Port(s, k - 1, TRUE) ELSE ~FromSource(g)

\* The listener knows source s (d = 0) or is told of it next (d = 1), and of its
\* ports, by channel, before it is told of anything else.
Orderly(s, d) ==
  /\ IF d = 0 THEN targetNode = s
     ELSE /\ targetNode = None /\ ourNode = None /\ ports = <<>>
          /\ events # <<>> /\ events[1] = Node(s, "source")
  /\ \A i \in 1 .. Len(ports) : InOrderOf(s, i, ports[i])
  /\ \A j \in d + 1 .. Len(events) : InOrderOf(s, Len(ports) + j - d, events[j])
  /\ Outs <= Len(ports) + Len(events) - d
  /\ ourNode # None => Outs <= Len(ports)

Dumped ==
  /\ ChannelsMatch
  /\ source # None => sourcePorts = Outs
  /\ loop = "new" => ports = <<>> /\ targetNode = None /\ ourNode = None
  /\ loop = "running" => Silent \/ \E s \in SourceIds : Orderly(s, 0) \/ Orderly(s, 1)

EarlyInv ==
  /\ LinkInv
  /\ \A e \in Events : left[e] <= Budget[e]
  /\ Unspent("appear") => Dumped

\* Outputs that come by channel have their channel for a place.
LEMMA PlacesInOrder ==
  ASSUME NEW s \in SourceIds, NEW ps \in Seq(Ports), Outs <= Len(ps),
         \A i \in 1 .. Len(ps) : InOrderOf(s, i, ps[i])
  PROVE  /\ OutputsOf(ps, s) = 1 .. Outs
         /\ \A index \in Nat :
              OutputFor(ps, OutputsOf(ps, s), index).index
                = IF index < Outs THEN index ELSE Outs - 1
<1>1. Outs \in Nat /\ Outs > 0 /\ Len(ps) \in Nat /\ DOMAIN ps = 1 .. Len(ps)
  BY LinkAssumption
<1>2. \A i \in 1 .. Outs : /\ i \in DOMAIN ps /\ ps[i] = Port(s, i - 1, TRUE)
                          /\ ps[i].node = s /\ ps[i].index = i - 1 /\ ps[i].out
  <2> TAKE i \in 1 .. Outs
  <2>1. i \in 1 .. Len(ps) /\ i <= Outs
    BY <1>1
  <2>2. ps[i] = Port(s, i - 1, TRUE)
    BY <2>1 DEF InOrderOf
  <2> QED
    BY <1>1, <2>1, <2>2 DEF Port
<1>3. \A i \in 1 .. Len(ps) : i \notin 1 .. Outs => ~ps[i].out
  <2>1. \A p \in Ports : p.type = "Port"
    BY DEF Ports
  <2> QED
    <3> TAKE i \in 1 .. Len(ps)
    <3> HAVE i \notin 1 .. Outs
    <3>1. ~(i <= Outs) /\ ps[i] \in Ports
      BY <1>1
    <3>2. ~FromSource(ps[i])
      BY <3>1 DEF InOrderOf
    <3> QED
      BY <3>1, <3>2, <2>1 DEF FromSource
<1>4. OutputsOf(ps, s) = 1 .. Outs
  BY <1>1, <1>2, <1>3 DEF OutputsOf
<1>5. \A i \in 1 .. Outs : Place(ps, 1 .. Outs, i) = i - 1
  <2> TAKE i \in 1 .. Outs
  <2>1. \A j \in 1 .. Outs : (\/ ps[j].index < ps[i].index
                              \/ (ps[j].index = ps[i].index /\ j < i)) <=> j < i
    <3> TAKE j \in 1 .. Outs
    <3>1. ps[i].index = i - 1 /\ ps[j].index = j - 1
      BY <1>2
    <3>2. i \in Nat /\ j \in Nat
      BY <1>1
    <3> QED
      BY <3>1, <3>2
  <2>2. {j \in 1 .. Outs : ps[j].index < ps[i].index
                           \/ (ps[j].index = ps[i].index /\ j < i)} = 1 .. i - 1
    BY <2>1, <1>1
  <2>3. Cardinality(1 .. i - 1) = i - 1
    <3>1. 1 \in Int /\ i - 1 \in Int
      BY <1>1
    <3>2. Cardinality(1 .. i - 1) = IF 1 > i - 1 THEN 0 ELSE i - 1 - 1 + 1
      BY <3>1, FS_Interval
    <3> QED
      BY <3>2, <1>1
  <2> QED
    BY <2>2, <2>3 DEF Place
<1>6. Cardinality(1 .. Outs) = Outs
  <2>1. Cardinality(1 .. Outs) = IF 1 > Outs THEN 0 ELSE Outs - 1 + 1
    BY <1>1, FS_Interval
  <2> QED
    BY <2>1, <1>1
<1>7. ASSUME NEW index \in Nat
      PROVE  OutputFor(ps, 1 .. Outs, index).index = IF index < Outs THEN index ELSE Outs - 1
  <2>1. 1 .. Outs \in SUBSET DOMAIN ps /\ 1 .. Outs # {}
    <3>1. 1 \in 1 .. Outs
      BY <1>1
    <3>2. \A i \in 1 .. Outs : i \in DOMAIN ps
      BY <1>2
    <3> QED
      BY <3>1, <3>2
  <2>2. PICK i \in 1 .. Outs :
          /\ OutputFor(ps, 1 .. Outs, index) = ps[i]
          /\ Place(ps, 1 .. Outs, i) = IF index < Cardinality(1 .. Outs) THEN index
                                       ELSE Cardinality(1 .. Outs) - 1
    BY <2>1, OutputIsThere
  <2> QED
    BY <2>2, <1>2, <1>5, <1>6
<1> QED
  BY <1>4, <1>7

\* The first announcements to a loop that starts.
LEMMA DumpInOrder ==
  ASSUME LinkTypeOK, source # None, sourcePorts = Outs
  PROVE  /\ Len(Dump) = Outs + 1 /\ Dump[1] = Node(source, "source")
         /\ \A j \in 2 .. Len(Dump) : Dump[j] = Port(source, j - 2, TRUE)
<1>1. Outs \in Nat
  BY LinkAssumption
<1> DEFINE first == <<Node(source, "source")>>
           rest == PortsOf(source, Outs, TRUE)
<1>2. Dump = first \o rest
  BY DEF Dump
<1>3. rest = [i \in 1 .. Outs |-> Port(source, i - 1, TRUE)]
  BY DEF PortsOf
<1> DEFINE S == {Node(source, "source")} \cup {Port(source, i - 1, TRUE) : i \in 1 .. Outs}
<1>4. rest \in Seq(S) /\ Len(rest) = Outs
  <2>1. rest \in [1 .. Outs -> S]
    BY <1>3
  <2> HIDE DEF rest, S
  <2>2. rest \in Seq(S) /\ DOMAIN rest = 1 .. Outs
    BY <2>1, <1>1, SeqDef
  <2> QED
    BY <2>2, <1>1, LenProperties
<1>5. Len(first) = 1 /\ first[1] = Node(source, "source")
  OBVIOUS
<1>6. first \in Seq(S)
  OBVIOUS
<1> HIDE DEF first, rest
<1> HIDE DEF S
<1>7. /\ Len(first \o rest) = Len(first) + Len(rest)
      /\ \A i \in 1 .. Len(first) + Len(rest) :
           (first \o rest)[i] = IF i <= Len(first) THEN first[i] ELSE rest[i - Len(first)]
  BY <1>4, <1>6, ConcatProperties
<1>8. Len(Dump) = Outs + 1 /\ Dump[1] = Node(source, "source")
  BY <1>1, <1>2, <1>4, <1>5, <1>7
<1>9. ASSUME NEW j \in 2 .. Len(Dump)
      PROVE  Dump[j] = Port(source, j - 2, TRUE)
  <2>1. j \in 1 .. Len(first) + Len(rest) /\ ~(j <= Len(first)) /\ j - 1 \in 1 .. Outs
    BY <1>1, <1>4, <1>5, <1>8
  <2>2. Dump[j] = rest[j - 1]
    BY <2>1, <1>2, <1>5, <1>7
  <2> QED
    BY <2>1, <2>2, <1>3, <1>1
<1> QED
  BY <1>8, <1>9

\* An announcement that is not of the source may come last.
LEMMA LaterNews ==
  ASSUME LinkTypeOK, NEW g \in Nodes \cup Ports, ~FromSource(g), events' = Append(events, g),
         UNCHANGED graph, Silent \/ \E s \in SourceIds : Orderly(s, 0) \/ Orderly(s, 1)
  PROVE  (Silent \/ \E s \in SourceIds : Orderly(s, 0) \/ Orderly(s, 1))'
<1>1. events \in Seq(Nodes \cup Ports) /\ ports \in Seq(Ports)
  BY DEF LinkTypeOK
<1>2. /\ Len(events') = Len(events) + 1 /\ events'[Len(events) + 1] = g
      /\ \A i \in 1 .. Len(events) : events'[i] = events[i]
      /\ Len(events) \in Nat /\ Len(ports) \in Nat /\ Outs \in Nat
      /\ events # <<>> => Len(events) > 0
      /\ events' # <<>>
  BY <1>1, LinkAssumption
<1>3. UNCHANGED <<targetNode, ourNode, ports>>
  BY DEF graph
<1>4. CASE Silent
  <2>1. \A j \in 1 .. Len(events') : ~FromSource(events'[j])
    BY <1>2, <1>4 DEF Silent
  <2> QED
    BY <2>1, <1>3, <1>4 DEF Silent
<1>5. ASSUME NEW s \in SourceIds, NEW d \in {0, 1}, Orderly(s, d)
      PROVE  Orderly(s, d)'
  <2>1. \A j \in d + 1 .. Len(events') : InOrderOf(s, Len(ports) + j - d, events'[j])
    <3> TAKE j \in d + 1 .. Len(events')
    <3>1. CASE j <= Len(events)
      BY <3>1, <1>2, <1>5 DEF Orderly
    <3>2. CASE j > Len(events)
      <4>1. j = Len(events) + 1 /\ Outs <= Len(ports) + Len(events) - d
        BY <3>2, <1>2, <1>5 DEF Orderly
      <4>2. events'[j] = g /\ ~(Len(ports) + j - d <= Outs)
        BY <4>1, <1>2
      <4> QED
        BY <4>2 DEF InOrderOf
    <3> QED
      BY <3>1, <3>2, <1>2
  <2>2. d = 1 => events' # <<>> /\ events'[1] = Node(s, "source")
    BY <1>2, <1>5 DEF Orderly
  <2>3. Outs <= Len(ports) + Len(events') - d
    BY <1>2, <1>5 DEF Orderly
  <2> QED
    BY <2>1, <2>2, <2>3, <1>3, <1>5 DEF Orderly
<1> QED
  <2>1. \A s \in SourceIds : (Orderly(s, 0) => Orderly(s, 0)') /\ (Orderly(s, 1) => Orderly(s, 1)')
    BY <1>5
  <2> QED
    BY <2>1, <1>4

LEMMA EarlyInit == LinkInit => EarlyInv
<1> SUFFICES ASSUME LinkInit PROVE EarlyInv
  OBVIOUS
<1>1. \A e \in Events : left[e] <= Budget[e]
  BY LinkAssumption DEF LinkInit
<1>2. Dumped
  BY DEF LinkInit, Dumped, ChannelsMatch
<1> QED
  BY <1>1, <1>2, LinkInitInv DEF EarlyInv

\* The listener takes one announcement.  What it knows and what it will be told stay
\* in order, and the wires it makes are of the right channels.
LEMMA GlobalInOrder ==
  ASSUME LinkInv, Global, Silent \/ \E s \in SourceIds : Orderly(s, 0) \/ Orderly(s, 1)
  PROVE  \/ Silent' /\ targetNode' = None
         \/ \E s \in SourceIds : Orderly(s, 0)' /\ targetNode' = s
<1> DEFINE g == Head(events)
<1>1. /\ events \in Seq(Nodes \cup Ports) /\ events # <<>> /\ events' = Tail(events)
      /\ ports \in Seq(Ports) /\ ports' = IF g.type = "Port" THEN Append(ports, g) ELSE ports
      /\ targetNode' = FirstNamed(targetNode, g, "source")
      /\ ourNode' = FirstNamed(ourNode, g, "loopback")
  BY DEF Global, LinkInv, LinkTypeOK
<1>2. /\ g = events[1] /\ g \in Nodes \cup Ports /\ Len(events) > 0
      /\ Len(events') = Len(events) - 1
      /\ \A j \in 1 .. Len(events') : events'[j] = events[j + 1]
      /\ Len(events) \in Nat /\ Len(ports) \in Nat /\ Outs \in Nat /\ Outs > 0
  BY <1>1, LinkAssumption
<1> HIDE DEF g
<1>3. /\ g.type = "Port" => /\ ports' = Append(ports, g) /\ g \in Ports
                            /\ Len(ports') = Len(ports) + 1 /\ ports'[Len(ports) + 1] = g
                            /\ \A i \in 1 .. Len(ports) : ports'[i] = ports[i]
      /\ g.type # "Port" => g.type = "Node" /\ UNCHANGED ports
  <2>1. (g \in Nodes => g.type = "Node") /\ (g \in Ports => g.type = "Port")
    BY DEF Nodes, Ports
  <2>2. g.type = "Port" => g \in Ports
    BY <2>1, <1>2
  <2> QED
    BY <2>1, <2>2, <1>1, <1>2, AppendProperties
<1>4. \A s \in SourceIds : /\ s # None
                          /\ Node(s, "source").type = "Node" /\ Node(s, "source").id = s
                          /\ Node(s, "source").name = "source"
                          /\ \A k \in Nat : Port(s, k, TRUE).type = "Port"
  BY LinkAssumption DEF Node, Port
<1>5. CASE Silent
  <2>1. ~FromSource(g)
    BY <1>2, <1>5 DEF Silent
  <2>2. targetNode' = None
    BY <2>1, <1>1, <1>5 DEF Silent, FirstNamed, FromSource
  <2>3. \A i \in 1 .. Len(ports') : ~FromSource(ports'[i])
    <3>1. CASE g.type = "Port"
      <4> TAKE i \in 1 .. Len(ports')
      <4>1. i \in 1 .. Len(ports) \/ i = Len(ports) + 1
        BY <3>1, <1>2, <1>3
      <4> QED
        BY <4>1, <3>1, <2>1, <1>3, <1>5 DEF Silent
    <3>2. CASE g.type # "Port"
      BY <3>2, <1>3, <1>5 DEF Silent
    <3> QED
      BY <3>1, <3>2
  <2>4. \A j \in 1 .. Len(events') : ~FromSource(events'[j])
    <3> TAKE j \in 1 .. Len(events')
    <3>1. j + 1 \in 1 .. Len(events) /\ events'[j] = events[j + 1]
      BY <1>2
    <3> QED
      BY <3>1, <1>5 DEF Silent
  <2> QED
    BY <2>2, <2>3, <2>4 DEF Silent
<1>6. ASSUME NEW s \in SourceIds, Orderly(s, 1)
      PROVE  Orderly(s, 0)' /\ targetNode' = s
  <2>1. g = Node(s, "source") /\ targetNode = None /\ ourNode = None /\ ports = <<>>
    BY <1>2, <1>6 DEF Orderly
  <2>2. targetNode' = s /\ ourNode' = None /\ ports' = <<>> /\ Len(ports') = 0 /\ Len(ports) = 0
    BY <2>1, <1>1, <1>4 DEF FirstNamed
  <2>3. \A j \in 1 .. Len(events') : InOrderOf(s, Len(ports') + j - 0, events'[j])
    <3> TAKE j \in 1 .. Len(events')
    <3>1. j + 1 \in 2 .. Len(events) /\ events'[j] = events[j + 1]
      BY <1>2
    <3>2. InOrderOf(s, Len(ports) + (j + 1) - 1, events[j + 1])
      BY <3>1, <1>6 DEF Orderly
    <3>3. Len(ports) + (j + 1) - 1 = Len(ports') + j - 0
      BY <2>2, <1>2
    <3> QED
      BY <3>1, <3>2, <3>3
  <2>4. Outs <= Len(ports') + Len(events') - 0
    BY <2>2, <1>2, <1>6 DEF Orderly
  <2> QED
    BY <2>2, <2>3, <2>4 DEF Orderly
<1>7. ASSUME NEW s \in SourceIds, Orderly(s, 0)
      PROVE  Orderly(s, 0)' /\ targetNode' = s
  <2>1. targetNode' = s
    BY <1>1, <1>4, <1>7 DEF Orderly, FirstNamed
  <2>2. \A j \in 1 .. Len(events) : InOrderOf(s, Len(ports) + j, events[j])
    BY <1>7, <1>2 DEF Orderly
  <2>3. InOrderOf(s, Len(ports) + 1, g)
    BY <2>2, <1>2
  <2>4. g.type = "Node" => Outs <= Len(ports)
    <3>1. Len(ports) + 1 - 1 \in Nat
      BY <1>2
    <3>2. Port(s, Len(ports) + 1 - 1, TRUE).type = "Port"
      BY <3>1, <1>4
    <3>3. g.type = "Node" => ~(Len(ports) + 1 <= Outs)
      <4>1. Len(ports) + 1 <= Outs => g = Port(s, Len(ports) + 1 - 1, TRUE)
        BY <2>3 DEF InOrderOf
      <4>2. "Node" # "Port"
        OBVIOUS
      <4> HIDE DEF g
      <4> QED
        BY <4>1, <4>2, <3>2
    <3> QED
      BY <3>3, <1>2
  <2>5. \A i \in 1 .. Len(ports') : InOrderOf(s, i, ports'[i])
    <3>1. CASE g.type = "Port"
      <4> TAKE i \in 1 .. Len(ports')
      <4>1. i \in 1 .. Len(ports) \/ i = Len(ports) + 1
        BY <3>1, <1>2, <1>3
      <4> QED
        BY <4>1, <3>1, <2>3, <1>3, <1>7 DEF Orderly
    <3>2. CASE g.type # "Port"
      BY <3>2, <1>3, <1>7 DEF Orderly
    <3> QED
      BY <3>1, <3>2
  <2>6. \A j \in 1 .. Len(events') : InOrderOf(s, Len(ports') + j - 0, events'[j])
    <3> TAKE j \in 1 .. Len(events')
    <3>1. j + 1 \in 1 .. Len(events) /\ events'[j] = events[j + 1] /\ j \in Nat
      BY <1>2
    <3>2. InOrderOf(s, Len(ports) + (j + 1), events'[j])
      BY <3>1, <2>2
    <3>3. CASE g.type = "Port"
      <4>1. Len(ports) + (j + 1) = Len(ports') + j - 0
        <5>1. Len(ports') = Len(ports) + 1
          BY <3>3, <1>3
        <5> QED
          BY <5>1, <3>1, <1>2
      <4> QED
        BY <4>1, <3>2
    <3>4. CASE g.type # "Port"
      <4>1. ~(Len(ports) + (j + 1) <= Outs) /\ ~(Len(ports') + j - 0 <= Outs)
        BY <3>1, <3>4, <2>4, <1>2, <1>3
      <4> QED
        BY <4>1, <3>2 DEF InOrderOf
    <3> QED
      BY <3>3, <3>4
  <2>7. Outs <= Len(ports') + Len(events') - 0
    BY <2>4, <1>2, <1>3, <1>7 DEF Orderly
  <2>8. ourNode' # None => Outs <= Len(ports')
    <3>1. CASE g.type = "Port"
      BY <3>1, <1>1, <1>2, <1>3, <1>7 DEF Orderly, FirstNamed
    <3>2. CASE g.type # "Port"
      BY <3>2, <2>4, <1>3
    <3> QED
      BY <3>1, <3>2
  <2> QED
    BY <2>1, <2>5, <2>6, <2>7, <2>8 DEF Orderly
<1> QED
  BY <1>5, <1>6, <1>7

LEMMA EarlyGlobal == ASSUME EarlyInv, Global, Unspent("appear") PROVE Dumped'
<1>1. LinkInv /\ LinkTypeOK /\ Dumped /\ loop = "running" /\ UNCHANGED loop
  BY DEF EarlyInv, LinkInv, Global
<1>2. \/ Silent' /\ targetNode' = None
      \/ \E s \in SourceIds : Orderly(s, 0)' /\ targetNode' = s
  BY <1>1, GlobalInOrder DEF Dumped
<1>3. ports' \in Seq(Ports) /\ AttemptLink(targetNode', ourNode', ports')
  BY <1>1, Learned DEF Global
<1>4. PICK done \in SUBSET Pending(ports', ourNode') :
        /\ linkedInputs' = linkedInputs \cup done
        /\ done \subseteq Ports /\ done \cap linkedInputs = {}
        /\ done # {} => /\ targetNode' # None /\ ourNode' # None
                        /\ OutputsOf(ports', targetNode') # {}
        /\ wires \subseteq wires'
        /\ \A w \in wires' \ wires :
             /\ w.dst \in done
             /\ w = [src |-> OutputFor(ports', OutputsOf(ports', targetNode'), w.dst.index),
                     dst |-> w.dst]
             /\ w.src \in Ports
        /\ left' \in [Events -> Nat]
        /\ \A e \in Events : left'[e] <= left[e]
  BY <1>1, <1>3, Attempt
<1>5. ASSUME NEW w \in wires' \ wires
      PROVE  w.src.index = IF w.dst.index < Outs THEN w.dst.index ELSE Outs - 1
  <2>1. targetNode' # None /\ ourNode' # None
    BY <1>4, <1>5
  <2>2. PICK s \in SourceIds : Orderly(s, 0)' /\ targetNode' = s
    BY <2>1, <1>2
  <2>3. Outs <= Len(ports') /\ \A i \in 1 .. Len(ports') : InOrderOf(s, i, ports'[i])
    BY <2>1, <2>2 DEF Orderly
  <2>4. w.dst.index \in Nat
    <3>1. \A p \in Ports : p.index \in Nat
      BY LinkAssumption DEF Ports
    <3> QED
      BY <3>1, <1>4, <1>5
  <2>5. \A index \in Nat : OutputFor(ports', OutputsOf(ports', s), index).index
                            = IF index < Outs THEN index ELSE Outs - 1
    BY <2>3, <1>3, PlacesInOrder
  <2>6. w.src = OutputFor(ports', OutputsOf(ports', s), w.dst.index)
    <3>1. w = [src |-> OutputFor(ports', OutputsOf(ports', targetNode'), w.dst.index),
               dst |-> w.dst]
      BY <1>4, <1>5
    <3> QED
      BY <3>1, <2>2
  <2> QED
    BY <2>4, <2>5, <2>6
<1>6. ChannelsMatch'
  <2>1. ChannelsMatch
    BY <1>1 DEF Dumped
  <2> QED
    BY <2>1, <1>5 DEF ChannelsMatch
<1>7. UNCHANGED <<source, sourcePorts>>
  BY DEF Global
<1> QED
  BY <1>1, <1>2, <1>6, <1>7 DEF Dumped

LEMMA EarlyStart == ASSUME EarlyInv, Start, Unspent("appear") PROVE Dumped'
<1>1. LinkTypeOK /\ Dumped /\ loop = "new" /\ UNCHANGED <<pipewire, graph>>
  BY DEF EarlyInv, LinkInv, Start
<1>2. /\ ports = <<>> /\ targetNode = None /\ ourNode = None
      /\ source # None => sourcePorts = Outs
      /\ UNCHANGED <<source, sourcePorts, wires, ports, targetNode, ourNode>>
  BY <1>1 DEF Dumped, pipewire, graph
<1>3. ASSUME loop' = "running"
      PROVE  (Silent \/ \E s \in SourceIds : Orderly(s, 0) \/ Orderly(s, 1))'
  <2>1. events' = Dump
    BY <1>3 DEF Start
  <2>2. CASE source = None
    BY <2>1, <2>2, <1>2 DEF Dump, Silent
  <2>3. CASE source # None
    <3>1. /\ Len(events') = Outs + 1 /\ events'[1] = Node(source, "source")
          /\ \A j \in 2 .. Len(events') : events'[j] = Port(source, j - 2, TRUE)
      BY <2>1, <2>3, <1>1, <1>2, DumpInOrder
    <3>2. events' # <<>> /\ Outs \in Nat
      BY <3>1, LinkAssumption
    <3>3. \A j \in 2 .. Len(events') : InOrderOf(source, 0 + j - 1, events'[j])
      <4> TAKE j \in 2 .. Len(events')
      <4>1. 0 + j - 1 <= Outs /\ (0 + j - 1) - 1 = j - 2
        BY <3>1, <3>2
      <4> QED
        BY <4>1, <3>1 DEF InOrderOf
    <3>4. Outs <= 0 + Len(events') - 1
      BY <3>1, <3>2
    <3>5. source \in SourceIds /\ Len(ports') = 0
      BY <2>3, <1>1, <1>2 DEF LinkTypeOK
    <3>6. Orderly(source, 1)'
      BY <3>1, <3>2, <3>3, <3>4, <3>5, <1>2 DEF Orderly
    <3> QED
      BY <3>5, <3>6, <1>2
  <2> QED
    BY <2>2, <2>3
<1>4. ChannelsMatch'
  BY <1>1, <1>2 DEF Dumped, ChannelsMatch
<1>5. loop' # "new"
  BY DEF Start
<1> QED
  BY <1>2, <1>3, <1>4, <1>5 DEF Dumped

LEMMA EarlyPipeWire ==
  ASSUME EarlyInv, PipeWire \/ SourceVanishes, Unspent("appear")
  PROVE  Dumped'
<1>1. LinkTypeOK /\ Dumped
  BY DEF EarlyInv, LinkInv
<1>2. UNCHANGED <<loop, graph>> /\ wires' \subseteq wires
  BY DEF PipeWire, SourcePort, StreamNode, StreamPort, SourceVanishes
<1>3. ChannelsMatch'
  BY <1>1, <1>2 DEF Dumped, ChannelsMatch
<1>4. source' # None => sourcePorts' = Outs
  <2>1. CASE SourceVanishes
    BY <2>1 DEF SourceVanishes
  <2>2. CASE SourcePort
    BY <2>2, <1>1, LinkAssumption DEF SourcePort, Dumped
  <2>3. CASE StreamNode \/ StreamPort
    BY <2>3, <1>1 DEF Dumped, StreamNode, StreamPort
  <2> QED
    BY <2>1, <2>2, <2>3 DEF PipeWire
<1>5. ASSUME loop = "running"
      PROVE  (Silent \/ \E s \in SourceIds : Orderly(s, 0) \/ Orderly(s, 1))'
  <2>1. CASE SourceVanishes
    <3>1. UNCHANGED <<events, graph>>
      BY <2>1 DEF SourceVanishes
    <3> QED
      BY <3>1, <1>1, <1>5 DEF Dumped, Silent, Orderly, graph
  <2>2. CASE SourcePort
    BY <2>2, <1>1, LinkAssumption DEF SourcePort, Dumped
  <2>3. CASE StreamNode
    <3>1. /\ Node(Ours, "loopback") \in Nodes \cup Ports /\ ~FromSource(Node(Ours, "loopback"))
          /\ events' = Append(events, Node(Ours, "loopback"))
      BY <2>3, <1>1, Announced DEF StreamNode, FromSource, Node, Announce
    <3> QED
      BY <3>1, <1>1, <1>2, <1>5, LaterNews DEF Dumped
  <2>4. CASE StreamPort
    <3>1. ourPorts \in 0 .. Outs + Inputs
      BY <2>4, <1>1, LinkAssumption DEF StreamPort, LinkTypeOK
    <3>2. /\ Port(Ours, ourPorts, FALSE) \in Nodes \cup Ports
          /\ events' = Append(events, Port(Ours, ourPorts, FALSE))
      BY <3>1, <2>4, <1>1, Announced DEF StreamPort, Announce
    <3>3. ~FromSource(Port(Ours, ourPorts, FALSE))
      BY DEF FromSource, Port
    <3> QED
      BY <3>2, <3>3, <1>1, <1>2, <1>5, LaterNews DEF Dumped
  <2> QED
    BY <2>1, <2>2, <2>3, <2>4 DEF PipeWire
<1> QED
  BY <1>1, <1>2, <1>3, <1>4, <1>5 DEF Dumped, graph

LEMMA EarlyNext == EarlyInv /\ [LinkNext]_linkVars => EarlyInv'
<1> SUFFICES ASSUME EarlyInv, [LinkNext]_linkVars PROVE EarlyInv'
  OBVIOUS
<1>1. LinkInv /\ LinkTypeOK /\ LinkInv'
  BY LinkNextInv DEF EarlyInv, LinkInv
<1>2. \A e \in Events : left'[e] <= left[e]
  <2>0. left \in [Events -> Nat]
    BY <1>1 DEF LinkTypeOK
  <2>1. CASE UNCHANGED left
    BY <2>1, <2>0
  <2>2. CASE \E event \in Events : Spend(event)
    BY <2>2, <1>1, Spending
  <2>3. CASE Global
    <3>1. ports' \in Seq(Ports) /\ AttemptLink(targetNode', ourNode', ports')
      BY <2>3, <1>1, Learned DEF Global
    <3> QED
      BY <3>1, <1>1, Attempt
  <2>4. UNCHANGED left \/ (\E event \in Events : Spend(event)) \/ Global
    BY DEF LinkNext, PipeWire, SourcePort, StreamNode, StreamPort, SourceAppears, SourceVanishes,
           Start, Shutdown, Timer, linkVars, Events
  <2> QED
    BY <2>1, <2>2, <2>3, <2>4
<1>3. \A e \in Events : left'[e] <= Budget[e]
  <2>1. \A e \in Events : left'[e] \in Nat /\ left[e] \in Nat /\ Budget[e] \in Nat
    BY <1>1, LinkAssumption DEF LinkTypeOK, LinkInv
  <2> QED
    BY <2>1, <1>2 DEF EarlyInv
<1>4. ASSUME Unspent("appear")'
      PROVE  Unspent("appear") /\ ~SourceAppears
  <2>1. "appear" \in Events /\ left'["appear"] = Budget["appear"]
    BY <1>4 DEF Unspent, Events
  <2>2. left'["appear"] \in Nat /\ left["appear"] \in Nat /\ Budget["appear"] \in Nat
    BY <2>1, <1>1, LinkAssumption DEF LinkTypeOK, LinkInv
  <2>3. left["appear"] <= Budget["appear"] /\ left'["appear"] <= left["appear"]
    BY <2>1, <1>2 DEF EarlyInv
  <2>4. left["appear"] = Budget["appear"] /\ left'["appear"] = left["appear"]
    BY <2>1, <2>2, <2>3
  <2>5. ~Spend("appear")
    BY <2>1, <2>2, <2>4, <1>1, Spending
  <2> QED
    BY <2>4, <2>5 DEF Unspent, SourceAppears
<1>5. ASSUME Unspent("appear")'
      PROVE  Dumped'
  <2>1. Unspent("appear") /\ ~SourceAppears /\ Dumped
    BY <1>4, <1>5 DEF EarlyInv
  <2>2. CASE UNCHANGED linkVars
    BY <2>1, <2>2 DEF linkVars, pipewire, graph, Dumped, ChannelsMatch, Silent, Orderly
  <2>3. CASE Shutdown
    <3>1. UNCHANGED <<source, sourcePorts, wires, loop, events, targetNode, ourNode, ports>>
      BY <2>3 DEF Shutdown, pipewire, graph
    <3> QED
      BY <2>1, <3>1 DEF Dumped, ChannelsMatch, Silent, Orderly
  <2>4. CASE Timer
    BY <2>1, <2>4 DEF Timer, Dumped, ChannelsMatch
  <2> QED
    BY <2>1, <2>2, <2>3, <2>4, EarlyPipeWire, EarlyStart, EarlyGlobal DEF LinkNext
<1> QED
  BY <1>1, <1>3, <1>5 DEF EarlyInv

\* A capture whose source was complete before it started links channel to channel: the
\* ports come in the order of their channels, and the own ports after them.
THEOREM EarlyChannelsAgree == LinkSpec => []EarlyChannelsMatch
<1>1. EarlyInv => EarlyChannelsMatch
  BY DEF EarlyInv, Dumped, EarlyChannelsMatch
<1> QED
  BY <1>1, EarlyInit, EarlyNext, PTL DEF LinkSpec

=============================================================================
