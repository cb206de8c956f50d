------------------------ MODULE CapturePipelineProofs ------------------------
(***************************************************************************)
(* The capture implements LossyStream for any sizes of frames, callbacks,  *)
(* queue and ring, any number of listeners and any supply.                 *)
(*                                                                         *)
(* The frames that have been cut are one sequence, Line, whatever part of  *)
(* it the forwarder has moved: only Cut changes it.  OrderInv says that    *)
(* the samples of the line, of the buffers and of the raw channel follow   *)
(* each other, AccountInv that these and the lost ones are all there are;  *)
(* together they leave no room for a hole between two frames.  ListenerInv *)
(* says where in the line a listener is, EndInv that nothing is left       *)
(* behind when the capture, then the forwarder, has ended.                 *)
(***************************************************************************)
EXTENDS CapturePipeline, SequenceTheorems, FiniteSetTheorems, TLAPS

Line == sent \o queue

\* The samples of a sequence of chunks or of frames.
Samples(f) == UNION {Range(f[i]) : i \in DOMAIN f}

Before(S, T) == \A x \in S, y \in T : x < y
Rising(s) == \A i, j \in DOMAIN s : i < j => s[i] < s[j]
Ordered(f) ==
  /\ \A i \in DOMAIN f : Rising(f[i])
  /\ \A i, j \in DOMAIN f : i < j => Before(Range(f[i]), Range(f[j]))

OrderInv ==
  /\ Ordered(Line) /\ Rising(output) /\ Rising(capture) /\ Ordered(raw)
  /\ Before(Samples(Line), Range(output) \cup Range(capture) \cup Samples(raw))
  /\ Before(Range(output), Range(capture) \cup Samples(raw))

\* Every sample is on its way or lost, and none is both.
Kept == Samples(Line) \cup Range(output) \cup Range(capture) \cup Samples(raw)
AccountInv == Kept \subseteq 1 .. made /\ lost = (1 .. made) \ Kept

ListenerInv ==
  \A l \in Listeners :
    /\ got[l] # <<>> => \E i \in 1 .. cursor[l] : got[l] = sent[i]
    /\ got[l] # <<>> /\ l \notin late => cursor[l] # 0 /\ got[l] = sent[cursor[l]]
    /\ state[l] = "listening" /\ l \notin late => Behind(l) <= RingCap
    /\ state[l] = "none" => got[l] = <<>>

EndInv ==
  /\ kind # "loopback" => raw = <<>>
  /\ line = "opening" => raw = <<>> /\ capture = <<>> /\ output = <<>>
  /\ line = "ended" => raw = <<>> /\ Settled
  /\ ~forwarding => line = "ended" /\ queue = <<>>

IInv == TypeOK /\ OrderInv /\ AccountInv /\ ListenerInv /\ EndInv

----------------------------------------------------------------------------
(* Sequences of samples.                                                   *)

\* The first n of a sequence go, the others stay.
LEMMA Rest ==
  ASSUME NEW S, NEW s \in Seq(S), NEW n \in Nat, n <= Len(s)
  PROVE  /\ SubSeq(s, n + 1, Len(s)) \in Seq(S)
         /\ Len(SubSeq(s, n + 1, Len(s))) = Len(s) - n
         /\ \A i \in 1 .. Len(s) - n : SubSeq(s, n + 1, Len(s))[i] = s[n + i]
         /\ SubSeq(s, 1, n) \in Seq(S)
         /\ Len(SubSeq(s, 1, n)) = n
         /\ \A i \in 1 .. n : SubSeq(s, 1, n)[i] = s[i]
  OBVIOUS

\* A rising sequence falls into two, the first before the second.
LEMMA Split ==
  ASSUME NEW s \in Seq(Nat), Rising(s), NEW n \in Nat, n <= Len(s)
  PROVE  LET a == SubSeq(s, 1, n)
             b == SubSeq(s, n + 1, Len(s))
         IN  /\ a \in Seq(Nat) /\ b \in Seq(Nat)
             /\ Rising(a) /\ Rising(b)
             /\ Range(s) = Range(a) \cup Range(b)
             /\ Before(Range(a), Range(b))
<1> DEFINE a == SubSeq(s, 1, n)
           b == SubSeq(s, n + 1, Len(s))
<1>1. /\ a \in Seq(Nat) /\ Len(a) = n /\ DOMAIN a = 1 .. n
      /\ \A i \in 1 .. n : a[i] = s[i]
  BY Rest, LenProperties
<1>2. /\ b \in Seq(Nat) /\ Len(b) = Len(s) - n /\ DOMAIN b = 1 .. Len(s) - n
      /\ \A i \in 1 .. Len(s) - n : b[i] = s[n + i]
  BY Rest, LenProperties
<1>3. Len(s) \in Nat /\ DOMAIN s = 1 .. Len(s) /\ \A i \in 1 .. Len(s) : s[i] \in Nat
  BY LenProperties, ElementOfSeq
<1> HIDE DEF a, b
<1>4. Rising(a)
  BY <1>1, <1>3 DEF Rising
<1>5. Rising(b)
  <2> SUFFICES ASSUME NEW i \in 1 .. Len(s) - n, NEW j \in 1 .. Len(s) - n, i < j
               PROVE  b[i] < b[j]
    BY <1>2 DEF Rising
  <2>1. n + i \in 1 .. Len(s) /\ n + j \in 1 .. Len(s) /\ n + i < n + j
    BY <1>3
  <2>2. s[n + i] < s[n + j]
    BY <1>3, <2>1 DEF Rising
  <2> QED
    BY <1>2, <2>2
<1>6. Range(s) = Range(a) \cup Range(b)
  <2>1. ASSUME NEW i \in 1 .. Len(s) PROVE s[i] \in Range(a) \cup Range(b)
    <3>1. CASE i <= n
      <4>1. i \in DOMAIN a /\ a[i] = s[i]
        BY <1>1, <3>1
      <4> QED
        BY <4>1 DEF Range
    <3>2. CASE i > n
      <4>1. i - n \in 1 .. Len(s) - n /\ n + (i - n) = i
        BY <1>3, <3>2
      <4>2. i - n \in DOMAIN b /\ b[i - n] = s[i]
        BY <1>2, <4>1
      <4> QED
        BY <4>2 DEF Range
    <3> QED
      BY <1>3, <3>1, <3>2
  <2>2. ASSUME NEW i \in DOMAIN a PROVE a[i] \in Range(s)
    <3>1. i \in DOMAIN s /\ a[i] = s[i]
      BY <1>1, <1>3, <2>2
    <3> QED
      BY <3>1 DEF Range
  <2>3. ASSUME NEW i \in DOMAIN b PROVE b[i] \in Range(s)
    <3>1. i \in 1 .. Len(s) - n
      BY <1>2
    <3>2. n + i \in 1 .. Len(s)
      BY <1>3, <3>1
    <3>3. n + i \in DOMAIN s /\ b[i] = s[n + i]
      BY <1>2, <1>3, <3>1, <3>2
    <3> QED
      BY <3>3 DEF Range
  <2>4. Range(s) \subseteq Range(a) \cup Range(b)
    BY <1>3, <2>1 DEF Range
  <2>5. Range(a) \subseteq Range(s) /\ Range(b) \subseteq Range(s)
    BY <2>2, <2>3 DEF Range
  <2> QED
    BY <2>4, <2>5
<1>7. ASSUME NEW i \in DOMAIN a, NEW j \in DOMAIN b PROVE a[i] < b[j]
  <2>1. i \in 1 .. n /\ j \in 1 .. Len(s) - n
    BY <1>1, <1>2
  <2>2. i \in DOMAIN s /\ n + j \in DOMAIN s /\ i < n + j
    BY <1>3, <2>1
  <2>3. s[i] < s[n + j]
    BY <2>2 DEF Rising
  <2> QED
    BY <1>1, <1>2, <2>1, <2>3
<1>8. Before(Range(a), Range(b))
  BY <1>7 DEF Before, Range
<1>9. /\ a \in Seq(Nat) /\ b \in Seq(Nat)
      /\ Rising(a) /\ Rising(b)
      /\ Range(s) = Range(a) \cup Range(b)
      /\ Before(Range(a), Range(b))
  BY <1>1, <1>2, <1>4, <1>5, <1>6, <1>8
<1> QED
  BY <1>9 DEF a, b

\* Two rising sequences, the first before the second, are one.
LEMMA Join ==
  ASSUME NEW s \in Seq(Nat), NEW t \in Seq(Nat), Rising(s), Rising(t),
         Before(Range(s), Range(t))
  PROVE  /\ s \o t \in Seq(Nat)
         /\ Rising(s \o t)
         /\ Range(s \o t) = Range(s) \cup Range(t)
<1> DEFINE u == s \o t
<1>1. /\ Len(s) \in Nat /\ DOMAIN s = 1 .. Len(s)
      /\ Len(t) \in Nat /\ DOMAIN t = 1 .. Len(t)
  BY LenProperties
<1>2. /\ u \in Seq(Nat) /\ DOMAIN u = 1 .. Len(s) + Len(t)
      /\ \A i \in 1 .. Len(s) + Len(t) : u[i] = IF i <= Len(s) THEN s[i] ELSE t[i - Len(s)]
  BY ConcatProperties, LenProperties
<1> HIDE DEF u
<1>3. ASSUME NEW i \in DOMAIN u
      PROVE  \/ i \in DOMAIN s /\ u[i] = s[i]
             \/ i > Len(s) /\ i - Len(s) \in DOMAIN t /\ u[i] = t[i - Len(s)]
  BY <1>1, <1>2
<1>4. Rising(u)
  <2> SUFFICES ASSUME NEW i \in DOMAIN u, NEW j \in DOMAIN u, i < j PROVE u[i] < u[j]
    BY DEF Rising
  <2>1. CASE j \in DOMAIN s
    <3>1. i \in DOMAIN s /\ u[i] = s[i] /\ u[j] = s[j]
      BY <1>1, <1>2, <2>1
    <3> QED
      BY <2>1, <3>1 DEF Rising
  <2>2. CASE i \in DOMAIN s /\ j \notin DOMAIN s
    <3>1. u[i] = s[i]
      BY <1>1, <1>2, <2>2
    <3>2. j - Len(s) \in DOMAIN t /\ u[j] = t[j - Len(s)]
      BY <1>3, <2>2
    <3>3. u[i] \in Range(s) /\ u[j] \in Range(t)
      BY <2>2, <3>1, <3>2 DEF Range
    <3> QED
      BY <3>3 DEF Before
  <2>3. CASE i \notin DOMAIN s /\ j \notin DOMAIN s
    <3>1. /\ i - Len(s) \in DOMAIN t /\ j - Len(s) \in DOMAIN t /\ i - Len(s) < j - Len(s)
          /\ u[i] = t[i - Len(s)] /\ u[j] = t[j - Len(s)]
      BY <1>1, <1>2, <1>3, <2>3
    <3> QED
      BY <3>1 DEF Rising
  <2>4. i \in DOMAIN s \/ j \notin DOMAIN s
    BY <1>1, <1>2
  <2> QED
    BY <2>1, <2>2, <2>3, <2>4
<1>5. Range(u) \subseteq Range(s) \cup Range(t)
  BY <1>3 DEF Range
<1>6. ASSUME NEW i \in DOMAIN s PROVE s[i] \in Range(u)
  <2>1. i \in DOMAIN u /\ u[i] = s[i]
    BY <1>1, <1>2, <1>6
  <2> QED
    BY <2>1 DEF Range
<1>7. ASSUME NEW i \in DOMAIN t PROVE t[i] \in Range(u)
  <2>1. i \in 1 .. Len(t)
    BY <1>1, <1>7
  <2>2. /\ Len(s) + i \in 1 .. Len(s) + Len(t) /\ ~(Len(s) + i <= Len(s))
        /\ (Len(s) + i) - Len(s) = i
    BY <1>1, <2>1
  <2>3. Len(s) + i \in DOMAIN u /\ u[Len(s) + i] = t[i]
    BY <1>2, <2>2
  <2> QED
    BY <2>3 DEF Range
<1>8. Range(u) = Range(s) \cup Range(t)
  BY <1>5, <1>6, <1>7 DEF Range
<1> QED
  BY <1>2, <1>4, <1>8 DEF u

\* A chunk or a frame more at the end.
LEMMA Adding ==
  ASSUME NEW T, NEW f \in Seq(T), NEW c \in T
  PROVE  /\ Samples(Append(f, c)) = Samples(f) \cup Range(c)
         /\ Ordered(f) /\ Rising(c) /\ Before(Samples(f), Range(c)) => Ordered(Append(f, c))
<1> DEFINE g == Append(f, c)
<1>1. /\ Len(f) \in Nat /\ DOMAIN f = 1 .. Len(f)
      /\ DOMAIN g = 1 .. Len(f) + 1
      /\ \A i \in DOMAIN f : g[i] = f[i]
      /\ g[Len(f) + 1] = c
  BY AppendProperties, LenProperties
<1> HIDE DEF g
<1>2. DOMAIN g = DOMAIN f \cup {Len(f) + 1}
  BY <1>1
<1>3. Samples(g) = Samples(f) \cup Range(c)
  BY <1>1, <1>2 DEF Samples
<1>4. ASSUME Ordered(f), Rising(c), Before(Samples(f), Range(c)) PROVE Ordered(g)
  <2>1. \A i \in DOMAIN g : Rising(g[i])
    BY <1>1, <1>2, <1>4 DEF Ordered
  <2>2. ASSUME NEW i \in DOMAIN g, NEW j \in DOMAIN g, i < j
        PROVE  Before(Range(g[i]), Range(g[j]))
    <3>1. i \in DOMAIN f /\ g[i] = f[i]
      BY <1>1, <2>2
    <3>2. CASE j \in DOMAIN f
      BY <1>1, <1>4, <2>2, <3>1, <3>2 DEF Ordered
    <3>3. CASE j = Len(f) + 1
      <4>1. Range(f[i]) \subseteq Samples(f)
        BY <3>1 DEF Samples
      <4> QED
        BY <1>1, <1>4, <3>1, <3>3, <4>1 DEF Before
    <3> QED
      BY <1>2, <3>2, <3>3
  <2> QED
    BY <2>1, <2>2 DEF Ordered
<1> QED
  BY <1>3, <1>4 DEF g

\* A chunk less at the front.
LEMMA Taking ==
  ASSUME NEW T, NEW f \in Seq(T), f # <<>>
  PROVE  /\ Samples(f) = Range(Head(f)) \cup Samples(Tail(f))
         /\ Ordered(f) => /\ Rising(Head(f)) /\ Ordered(Tail(f))
                          /\ Before(Range(Head(f)), Samples(Tail(f)))
<1> DEFINE h == Head(f)
           t == Tail(f)
<1>1. Len(f) \in Nat \ {0} /\ DOMAIN f = 1 .. Len(f)
  BY LenProperties, EmptySeq
<1>2. /\ t \in Seq(T) /\ Len(t) = Len(f) - 1 /\ DOMAIN t = 1 .. Len(f) - 1
      /\ \A i \in DOMAIN t : t[i] = f[i + 1]
  BY HeadTailProperties, LenProperties
<1>3. 1 \in DOMAIN f /\ h = f[1] /\ \A i \in DOMAIN t : i + 1 \in DOMAIN f /\ 1 < i + 1
  BY <1>1, <1>2
<1> HIDE DEF h, t
<1>4. ASSUME NEW i \in DOMAIN f PROVE i = 1 \/ \E j \in DOMAIN t : t[j] = f[i]
  <2> SUFFICES ASSUME i # 1 PROVE i - 1 \in DOMAIN t /\ t[i - 1] = f[i]
    OBVIOUS
  <2>1. i - 1 \in DOMAIN t /\ (i - 1) + 1 = i
    BY <1>1, <1>2
  <2> QED
    BY <1>2, <2>1
<1>5. Samples(f) = Range(h) \cup Samples(t)
  <2>1. Samples(f) \subseteq Range(h) \cup Samples(t)
    BY <1>3, <1>4 DEF Samples
  <2>2. Range(h) \cup Samples(t) \subseteq Samples(f)
    BY <1>2, <1>3 DEF Samples
  <2> QED
    BY <2>1, <2>2
<1>6. ASSUME Ordered(f) PROVE Rising(h) /\ Ordered(t) /\ Before(Range(h), Samples(t))
  <2>1. Rising(h) /\ \A i \in DOMAIN t : Rising(t[i])
    BY <1>2, <1>3, <1>6 DEF Ordered
  <2>2. ASSUME NEW i \in DOMAIN t, NEW j \in DOMAIN t, i < j
        PROVE  Before(Range(t[i]), Range(t[j]))
    <3>1. i + 1 \in DOMAIN f /\ j + 1 \in DOMAIN f /\ i + 1 < j + 1
      BY <1>1, <1>2, <2>2
    <3> QED
      BY <1>2, <1>6, <3>1 DEF Ordered
  <2>3. \A i \in DOMAIN t : Before(Range(h), Range(t[i]))
    BY <1>2, <1>3, <1>6 DEF Ordered
  <2>4. Before(Range(h), Samples(t))
    BY <2>3 DEF Before, Samples
  <2> QED
    BY <2>1, <2>2, <2>4 DEF Ordered
<1> QED
  BY <1>5, <1>6 DEF h, t

\* The n samples of a callback.
LEMMA ComingSamples ==
  ASSUME made \in Nat, NEW n \in Nat
  PROVE  /\ Coming(n) \in Seq(Nat)
         /\ Rising(Coming(n))
         /\ Range(Coming(n)) = made + 1 .. made + n
<1>1. Coming(n) \in Seq(Nat) /\ DOMAIN Coming(n) = 1 .. n
      /\ \A i \in 1 .. n : Coming(n)[i] = made + i
  BY DEF Coming
<1>2. ASSUME NEW x \in made + 1 .. made + n PROVE x \in Range(Coming(n))
  <2>1. x - made \in 1 .. n /\ Coming(n)[x - made] = x
    BY <1>1
  <2> QED
    BY <1>1, <2>1 DEF Range
<1>3. ASSUME NEW i \in DOMAIN Coming(n) PROVE Coming(n)[i] \in made + 1 .. made + n
  <2>1. i \in 1 .. n /\ Coming(n)[i] = made + i
    BY <1>1
  <2> QED
    BY <2>1
<1>4. Range(Coming(n)) = made + 1 .. made + n
  BY <1>2, <1>3 DEF Range
<1>5. ASSUME NEW i \in DOMAIN Coming(n), NEW j \in DOMAIN Coming(n), i < j
      PROVE  Coming(n)[i] < Coming(n)[j]
  <2>1. i \in 1 .. n /\ j \in 1 .. n /\ Coming(n)[i] = made + i /\ Coming(n)[j] = made + j
    BY <1>1
  <2> QED
    BY <1>5, <2>1
<1> QED
  BY <1>1, <1>4, <1>5 DEF Rising

----------------------------------------------------------------------------
(* Types.                                                                  *)

\* The frame that is cut.
LEMMA CutFrame ==
  ASSUME TypeOK, Cut
  PROVE  /\ Frame \in Nat \ {0} /\ Frame <= Len(output) /\ output \in Seq(Nat)
         /\ SubSeq(output, 1, Frame) \in Frames
<1>1. Frame \in Nat \ {0} /\ Frame <= Len(output) /\ output \in Seq(Nat) /\ Len(output) \in Nat
  BY ConstantsAssumption, LenProperties DEF TypeOK, Cut
<1>2. SubSeq(output, 1, Frame) \in Seq(Nat) /\ Len(SubSeq(output, 1, Frame)) = Frame
  BY <1>1, Rest
<1>3. SubSeq(output, 1, Frame) \in [1 .. Frame -> Nat]
  BY <1>2, LenProperties
<1> QED
  BY <1>1, <1>3 DEF Frames

LEMMA TypeInit == Init => TypeOK
<1> SUFFICES ASSUME Init PROVE TypeOK
  OBVIOUS
<1>1. /\ raw \in Seq(Seq(Nat)) /\ Len(raw) <= RawCap
      /\ queue \in Seq(Frames) /\ Len(queue) <= QueueCap
      /\ sent \in Seq(Frames) /\ Len(sent) = 0
      /\ capture \in Seq(Nat) /\ output \in Seq(Nat)
  BY ConstantsAssumption DEF Init
<1>2. made \in 0 .. Supply
  BY ConstantsAssumption DEF Init
<1>3. cursor \in [Listeners -> 0 .. Len(sent)] /\ got \in [Listeners -> Frames \cup {<<>>}]
  BY <1>1 DEF Init
<1> QED
  BY <1>1, <1>2, <1>3 DEF Init, TypeOK

LEMMA TypeStep == TypeOK /\ [Next]_vars => TypeOK'
<1> SUFFICES ASSUME TypeOK, [Next]_vars PROVE TypeOK'
  OBVIOUS
<1> USE DEF source, framing, stack, listeners
<1>0. made \in Nat /\ Supply \in Nat
  BY ConstantsAssumption DEF TypeOK
<1>1. CASE Open
  BY <1>1 DEF Open, Dropped, TypeOK
<1>2. CASE Callback
  <2>1. PICK n \in Nat :
          /\ made + n <= Supply
          /\ made' = made + n
          /\ IF kind = "denoised"
             THEN capture' = capture \o Coming(n) /\ UNCHANGED output
             ELSE output' = output \o Coming(n) /\ UNCHANGED capture
    BY <1>2, ConstantsAssumption DEF Callback
  <2>2. made' \in 0 .. Supply
    BY <1>0, <2>1
  <2>3. capture' \in Seq(Nat) /\ output' \in Seq(Nat)
    <3>1. Coming(n) \in Seq(Nat) /\ capture \in Seq(Nat) /\ output \in Seq(Nat)
      BY <1>0, <2>1, ComingSamples DEF TypeOK
    <3>2. capture \o Coming(n) \in Seq(Nat) /\ output \o Coming(n) \in Seq(Nat)
      BY <3>1
    <3> QED
      BY <2>1, <3>1, <3>2
  <2>4. kind # "denoised" => capture' = <<>>
    BY <2>1 DEF TypeOK
  <2>5. UNCHANGED <<kind, raw, line, queue, forwarding, sent, returned, shutdown,
                    state, cursor, got, lost, late>>
    BY <1>2 DEF Callback
  <2> QED
    BY <2>2, <2>3, <2>4, <2>5 DEF TypeOK
<1>3. CASE Process
  <2>1. PICK n \in Nat :
          /\ made + n <= Supply
          /\ made' = made + n
          /\ IF Len(raw) < RawCap
             THEN raw' = Append(raw, Coming(n)) /\ UNCHANGED lost
             ELSE lost' = lost \cup Range(Coming(n)) /\ UNCHANGED raw
    BY <1>3, ConstantsAssumption DEF Process
  <2>2. made' \in 0 .. Supply
    BY <1>0, <2>1
  <2>3. Coming(n) \in Seq(Nat) /\ Range(Coming(n)) \subseteq Nat
    <3>1. Coming(n) \in Seq(Nat) /\ Range(Coming(n)) = made + 1 .. made + n
      BY <1>0, ComingSamples
    <3> QED
      BY <1>0, <3>1
  <2>4. raw' \in Seq(Seq(Nat)) /\ Len(raw') <= RawCap
    <3>1. raw \in Seq(Seq(Nat)) /\ Len(raw) <= RawCap /\ Len(raw) \in Nat /\ RawCap \in Nat
      BY ConstantsAssumption, LenProperties DEF TypeOK
    <3>2. PICK c \in Seq(Nat) : c = Coming(n)
      BY <2>3
    <3>3. Append(raw, c) \in Seq(Seq(Nat)) /\ Len(Append(raw, c)) = Len(raw) + 1
      BY <3>1, AppendProperties
    <3>4. \/ Len(raw) < RawCap /\ raw' = Append(raw, c)
          \/ raw' = raw
      BY <2>1, <3>2
    <3>5. CASE Len(raw) < RawCap /\ raw' = Append(raw, c)
      BY <3>1, <3>3, <3>5
    <3>6. CASE raw' = raw
      BY <3>1, <3>6
    <3> QED
      BY <3>4, <3>5, <3>6
  <2>5. lost' \subseteq Nat
    BY <2>1, <2>3 DEF TypeOK
  <2> QED
    BY <1>3, <2>2, <2>4, <2>5 DEF Process, TypeOK
<1>4. CASE Accumulate
  <2>1. raw \in Seq(Seq(Nat)) /\ raw # <<>> /\ Len(raw) <= RawCap /\ RawCap \in Nat
    BY <1>4, ConstantsAssumption DEF Accumulate, TypeOK
  <2>2. /\ Head(raw) \in Seq(Nat) /\ Tail(raw) \in Seq(Seq(Nat))
        /\ Len(Tail(raw)) = Len(raw) - 1 /\ Len(raw) \in Nat
    BY <2>1, HeadTailProperties, LenProperties
  <2>3. output \o Head(raw) \in Seq(Nat)
    BY <2>2 DEF TypeOK
  <2> QED
    BY <1>4, <2>1, <2>2, <2>3 DEF Accumulate, TypeOK
<1>5. CASE Denoise
  <2>1. /\ capture \in Seq(Nat) /\ Noise \in Nat \ {0} /\ Noise <= Len(capture)
        /\ output \in Seq(Nat)
    BY <1>5, ConstantsAssumption DEF Denoise, TypeOK
  <2>2. output' \in Seq(Nat) /\ capture' \in Seq(Nat)
    <3>1. SubSeq(capture, 1, Noise) \in Seq(Nat) /\ SubSeq(capture, Noise + 1, Len(capture)) \in Seq(Nat)
      BY <2>1, Rest
    <3> QED
      BY <1>5, <2>1, <3>1 DEF Denoise
  <2>3. kind = "denoised"
    BY <2>1 DEF TypeOK
  <2> QED
    BY <1>5, <2>2, <2>3 DEF Denoise, TypeOK
<1>6. CASE Cut
  <2> DEFINE frame == SubSeq(output, 1, Frame)
  <2>1. output' \in Seq(Nat)
    BY <1>6, CutFrame, Rest DEF Cut
  <2>2. frame \in Frames /\ Range(frame) \subseteq Nat
    BY <1>6, CutFrame DEF Frames, Range
  <2>3. \/ queue' = Append(queue, frame) /\ lost' = lost /\ Len(queue) < QueueCap
        \/ lost' = lost \cup Range(frame) /\ queue' = queue
    BY <1>6 DEF Cut
  <2> HIDE DEF frame
  <2>4. queue' \in Seq(Frames) /\ Len(queue') <= QueueCap
    <3>1. queue \in Seq(Frames) /\ Len(queue) <= QueueCap /\ Len(queue) \in Nat /\ QueueCap \in Nat
      BY ConstantsAssumption, LenProperties DEF TypeOK
    <3>2. Append(queue, frame) \in Seq(Frames) /\ Len(Append(queue, frame)) = Len(queue) + 1
      BY <2>2, <3>1, AppendProperties
    <3> QED
      BY <2>3, <3>1, <3>2
  <2>5. lost' \subseteq Nat
    BY <2>2, <2>3 DEF TypeOK
  <2> QED
    BY <1>6, <2>1, <2>4, <2>5 DEF Cut, TypeOK
<1>7. CASE Stop \/ Drained
  BY <1>7 DEF Stop, Drained, Dropped, TypeOK
<1>8. CASE Forward
  <2>1. /\ queue' \in Seq(Frames) /\ Len(queue') <= QueueCap
        /\ sent' \in Seq(Frames) /\ Len(sent') = Len(sent) + 1
    BY <1>8, ConstantsAssumption DEF Forward, TypeOK
  <2>2. cursor \in [Listeners -> 0 .. Len(sent')]
    BY <2>1 DEF TypeOK
  <2>3. late' \subseteq Listeners
    BY <1>8 DEF Forward, TypeOK
  <2> QED
    BY <1>8, <2>1, <2>2, <2>3 DEF Forward, TypeOK
<1>9. CASE ForwarderEnds \/ StackReturns \/ Disconnect
  BY <1>9 DEF ForwarderEnds, StackReturns, Disconnect, TypeOK
<1>10. ASSUME NEW l \in Listeners, Subscribe(l) PROVE TypeOK'
  BY <1>10 DEF Subscribe, TypeOK
<1>11. ASSUME NEW l \in Listeners, Read(l) PROVE TypeOK'
  <2>1. UNCHANGED <<source, framing, line, queue, forwarding, sent, stack, lost, late>>
    BY <1>11 DEF Read
  <2>2. CASE Lagged(l)
    BY <2>1, <2>2, ConstantsAssumption DEF Lagged, Behind, TypeOK
  <2>3. CASE Received(l)
    <3>1. cursor[l] + 1 \in 1 .. Len(sent)
      BY <2>3, ConstantsAssumption DEF Received, Behind, TypeOK
    <3>2. sent[cursor[l] + 1] \in Frames
      BY <3>1, ElementOfSeq DEF TypeOK
    <3>3. cursor' = [cursor EXCEPT ![l] = @ + 1] /\ cursor'[l] = cursor[l] + 1
      BY <2>3 DEF Received, TypeOK
    <3>4. got' = [got EXCEPT ![l] = sent[cursor[l] + 1]] /\ state' = state
      BY <2>3, <3>3 DEF Received
    <3> QED
      BY <2>1, <3>1, <3>2, <3>3, <3>4 DEF TypeOK
  <2>4. CASE Closed(l)
    BY <2>1, <2>4 DEF Closed, TypeOK
  <2> QED
    BY <1>11, <2>2, <2>3, <2>4 DEF Read
<1>12. ASSUME NEW l \in Listeners, Leave(l) PROVE TypeOK'
  BY <1>12 DEF Leave, TypeOK
<1>13. CASE UNCHANGED vars
  BY <1>13 DEF vars, TypeOK
<1> QED
  BY <1>1, <1>2, <1>3, <1>4, <1>5, <1>6, <1>7, <1>8, <1>9, <1>10, <1>11, <1>12, <1>13
  DEF Next, Capture, Stack

\* Spec => []TypeOK: in particular the two queues before the ring keep to their
\* capacities (audio.rs try_send), and only the denoiser's buffer is ever used.
THEOREM TypeCorrect == Spec => []TypeOK
  BY TypeInit, TypeStep, PTL DEF Spec

----------------------------------------------------------------------------
(* The stream: order and account.                                          *)

LEMMA Nothing == Samples(<<>>) = {} /\ Range(<<>>) = {} /\ Ordered(<<>>) /\ Rising(<<>>)
<1>1. DOMAIN <<>> = {}
  OBVIOUS
<1> QED
  BY <1>1 DEF Samples, Range, Ordered, Rising

LEMMA LineType ==
  ASSUME TypeOK
  PROVE  /\ sent \in Seq(Frames) /\ queue \in Seq(Frames) /\ Line \in Seq(Frames)
         /\ Len(sent) \in Nat /\ Len(queue) \in Nat
         /\ Len(Line) = Len(sent) + Len(queue) /\ DOMAIN Line = 1 .. Len(Line)
         /\ \A i \in 1 .. Len(sent) : Line[i] = sent[i]
         /\ \A i \in 1 .. Len(Line) : Line[i] \in [1 .. Frame -> Nat]
<1>1. sent \in Seq(Frames) /\ queue \in Seq(Frames)
  BY DEF TypeOK
<1>2. /\ Line \in Seq(Frames) /\ Len(Line) = Len(sent) + Len(queue)
      /\ Len(sent) \in Nat /\ Len(queue) \in Nat
      /\ \A i \in 1 .. Len(sent) : Line[i] = sent[i]
  BY <1>1 DEF Line
<1>3. \A i \in 1 .. Len(Line) : Line[i] \in Frames
  BY <1>2
<1>4. DOMAIN Line = 1 .. Len(Line)
  BY <1>2, LenProperties
<1> QED
  BY <1>1, <1>2, <1>3, <1>4 DEF Frames

\* The forwarder only moves the border between the two parts of the line.
LEMMA ForwardMoves ==
  ASSUME TypeOK, Forward
  PROVE  /\ Line' = Line
         /\ Len(sent') = Len(sent) + 1
         /\ \A i \in 1 .. Len(sent) : sent'[i] = sent[i]
<1>1. /\ sent \in Seq(Frames) /\ queue \in Seq(Frames) /\ queue # <<>>
      /\ sent' = Append(sent, Head(queue)) /\ queue' = Tail(queue)
  BY DEF TypeOK, Forward
<1>2. Append(sent, Head(queue)) \o Tail(queue) = sent \o queue
  BY <1>1
<1> QED
  BY <1>1, <1>2 DEF Line

LEMMA AddedLast ==
  ASSUME NEW T, NEW f \in Seq(T), NEW g \in Seq(T), NEW c \in T
  PROVE  f \o Append(g, c) = Append(f \o g, c)
  OBVIOUS

\* A cut adds a frame to the line, or loses it.
LEMMA CutAppends ==
  ASSUME TypeOK, Cut
  PROVE  LET frame == SubSeq(output, 1, Frame) IN
         \/ Line' = Append(Line, frame) /\ lost' = lost
         \/ /\ Line' = Line /\ lost' = lost \cup Range(frame)
            /\ Len(queue) = QueueCap
<1> DEFINE frame == SubSeq(output, 1, Frame)
           Appended == Line' = Append(Line, frame) /\ lost' = lost
           Lost == /\ Line' = Line /\ lost' = lost \cup Range(frame)
                       /\ Len(queue) = QueueCap
<1>1. sent \in Seq(Frames) /\ queue \in Seq(Frames) /\ sent' = sent /\ frame \in Frames
  BY CutFrame DEF TypeOK, Cut
<1>2. CASE Len(queue) < QueueCap
  <2>1. queue' = Append(queue, frame) /\ lost' = lost
    BY <1>2 DEF Cut
  <2> HIDE DEF frame
  <2>2. sent \o Append(queue, frame) = Append(sent \o queue, frame)
    BY <1>1, AddedLast
  <2>3. Appended
    BY <1>1, <2>1, <2>2 DEF Line
  <2> QED
    BY <2>3 DEF frame
<1>3. CASE ~(Len(queue) < QueueCap)
  <2>1. Len(queue) \in Nat /\ QueueCap \in Nat /\ Len(queue) <= QueueCap
    BY <1>1, ConstantsAssumption, LenProperties DEF TypeOK
  <2>2. queue' = queue /\ lost' = lost \cup Range(frame)
    BY <1>3 DEF Cut
  <2> HIDE DEF frame
  <2>3. Lost
    BY <1>1, <1>3, <2>1, <2>2 DEF Line
  <2> QED
    BY <2>3 DEF frame
<1> QED
  BY <1>2, <1>3

\* What the invariants know of the samples that are there.
LEMMA KeptSamples ==
  ASSUME TypeOK, AccountInv
  PROVE  /\ made \in Nat /\ Kept \subseteq 1 .. made /\ Kept \subseteq Nat
         /\ Samples(Line) \subseteq Kept /\ Range(output) \subseteq Kept
         /\ Range(capture) \subseteq Kept /\ Samples(raw) \subseteq Kept
  BY ConstantsAssumption DEF TypeOK, AccountInv, Kept

\* Samples that are made come after all others.
LEMMA MadeLast ==
  ASSUME TypeOK, AccountInv, NEW n \in Nat, NEW S, S \subseteq Kept
  PROVE  Before(S, made + 1 .. made + n)
<1> SUFFICES ASSUME NEW x \in S, NEW y \in made + 1 .. made + n PROVE x < y
  BY DEF Before
<1>1. made \in Nat /\ x \in 1 .. made
  BY KeptSamples
<1> QED
  BY <1>1

LEMMA StreamCallback ==
  ASSUME TypeOK, OrderInv, AccountInv, EndInv, Callback
  PROVE  OrderInv' /\ AccountInv'
<1>1. PICK n \in Nat :
        /\ made' = made + n
        /\ IF kind = "denoised"
           THEN capture' = capture \o Coming(n) /\ UNCHANGED output
           ELSE output' = output \o Coming(n) /\ UNCHANGED capture
  BY ConstantsAssumption DEF Callback
<1> DEFINE New == made + 1 .. made + n
<1>2. Coming(n) \in Seq(Nat) /\ Rising(Coming(n)) /\ Range(Coming(n)) = New
  BY ComingSamples, KeptSamples
<1>3. raw' = raw /\ Line' = Line /\ lost' = lost /\ raw = <<>> /\ Samples(raw) = {}
  BY Nothing DEF Callback, Line, EndInv
<1>4. /\ Before(Samples(Line), New) /\ Before(Range(output), New) /\ Before(Range(capture), New)
  BY MadeLast, KeptSamples
<1>5. capture \in Seq(Nat) /\ output \in Seq(Nat)
  BY DEF TypeOK
<1>6. Kept' = Kept \cup New => AccountInv'
  <2>1. made \in Nat /\ Kept \subseteq 1 .. made /\ lost = (1 .. made) \ Kept
    BY KeptSamples DEF AccountInv
  <2>2. 1 .. made + n = (1 .. made) \cup New /\ (1 .. made) \cap New = {}
    BY <2>1
  <2> HIDE DEF New
  <2> QED
    BY <1>1, <1>3, <2>1, <2>2 DEF AccountInv
<1> HIDE DEF New
<1>7. CASE kind = "denoised"
  <2>1. capture' = capture \o Coming(n) /\ output' = output
    BY <1>1, <1>7
  <2>2. Rising(capture') /\ Range(capture') = Range(capture) \cup New
    BY <1>2, <1>4, <1>5, <2>1, Join DEF OrderInv
  <2>3. Kept' = Kept \cup New
    BY <1>3, <2>1, <2>2 DEF Kept
  <2>4. OrderInv'
    BY <1>3, <1>4, <2>1, <2>2 DEF OrderInv, Before
  <2> QED
    BY <1>6, <2>3, <2>4
<1>8. CASE kind # "denoised"
  <2>1. output' = output \o Coming(n) /\ capture' = capture
    BY <1>1, <1>8
  <2>2. Range(capture) = {}
    BY <1>8, Nothing DEF TypeOK
  <2>3. Rising(output') /\ Range(output') = Range(output) \cup New
    BY <1>2, <1>4, <1>5, <2>1, Join DEF OrderInv
  <2>4. Kept' = Kept \cup New
    BY <1>3, <2>1, <2>3 DEF Kept
  <2>5. OrderInv'
    BY <1>3, <1>4, <2>1, <2>2, <2>3 DEF OrderInv, Before
  <2> QED
    BY <1>6, <2>4, <2>5
<1> QED
  BY <1>7, <1>8

LEMMA StreamProcess ==
  ASSUME TypeOK, OrderInv, AccountInv, Process
  PROVE  OrderInv' /\ AccountInv'
<1>1. PICK n \in Nat :
        /\ made' = made + n
        /\ IF Len(raw) < RawCap
           THEN raw' = Append(raw, Coming(n)) /\ UNCHANGED lost
           ELSE lost' = lost \cup Range(Coming(n)) /\ UNCHANGED raw
  BY ConstantsAssumption DEF Process
<1> DEFINE New == made + 1 .. made + n
<1>2. Coming(n) \in Seq(Nat) /\ Rising(Coming(n)) /\ Range(Coming(n)) = New
  BY ComingSamples, KeptSamples
<1>3. Line' = Line /\ output' = output /\ capture' = capture
  BY DEF Process, Line, framing
<1>4. /\ Before(Samples(Line), New) /\ Before(Range(output), New) /\ Before(Samples(raw), New)
  BY MadeLast, KeptSamples
<1>5. /\ made \in Nat /\ Kept \subseteq 1 .. made /\ lost = (1 .. made) \ Kept
  BY KeptSamples DEF AccountInv
<1>6. 1 .. made + n = (1 .. made) \cup New /\ (1 .. made) \cap New = {}
  BY <1>5
<1> HIDE DEF New
<1>7. CASE raw' = Append(raw, Coming(n)) /\ lost' = lost
  <2>1. Samples(raw') = Samples(raw) \cup New /\ Ordered(raw')
    <3>1. PICK c \in Seq(Nat) : c = Coming(n)
      BY <1>2
    <3>2. raw \in Seq(Seq(Nat)) /\ Ordered(raw) /\ Rising(c) /\ Before(Samples(raw), Range(c))
      BY <1>2, <1>4, <3>1 DEF TypeOK, OrderInv
    <3>3. Samples(Append(raw, c)) = Samples(raw) \cup Range(c) /\ Ordered(Append(raw, c))
      BY <3>2, Adding
    <3> QED
      BY <1>2, <1>7, <3>1, <3>3
  <2>2. Kept' = Kept \cup New
    BY <1>3, <2>1 DEF Kept
  <2>3. AccountInv'
    BY <1>1, <1>5, <1>6, <1>7, <2>2 DEF AccountInv
  <2>4. OrderInv'
    BY <1>3, <1>4, <2>1 DEF OrderInv, Before
  <2> QED
    BY <2>3, <2>4
<1>8. CASE raw' = raw /\ lost' = lost \cup New
  <2>1. Kept' = Kept
    BY <1>3, <1>8 DEF Kept
  <2>2. AccountInv'
    BY <1>1, <1>5, <1>6, <1>8, <2>1 DEF AccountInv
  <2> QED
    BY <1>3, <1>8, <2>2 DEF OrderInv
<1> QED
  BY <1>1, <1>2, <1>7, <1>8

LEMMA StreamAccumulate ==
  ASSUME TypeOK, OrderInv, AccountInv, EndInv, Accumulate
  PROVE  OrderInv' /\ AccountInv'
<1>1. /\ raw \in Seq(Seq(Nat)) /\ raw # <<>> /\ raw' = Tail(raw)
      /\ output \in Seq(Nat) /\ output' = output \o Head(raw)
      /\ capture' = capture /\ Line' = Line /\ made' = made /\ lost' = lost
  BY DEF TypeOK, Accumulate, Line
<1>2. Range(capture) = {}
  <2>1. kind = "loopback"
    BY <1>1 DEF EndInv
  <2> QED
    BY <2>1, Nothing DEF TypeOK
<1>3. /\ Samples(raw) = Range(Head(raw)) \cup Samples(raw')
      /\ Rising(Head(raw)) /\ Ordered(raw')
      /\ Before(Range(Head(raw)), Samples(raw'))
      /\ Head(raw) \in Seq(Nat)
  BY <1>1, Taking, HeadTailProperties DEF OrderInv
<1>4. Before(Range(output), Range(Head(raw)))
  BY <1>3 DEF OrderInv, Before
<1>5. Rising(output') /\ Range(output') = Range(output) \cup Range(Head(raw))
  BY <1>1, <1>3, <1>4, Join DEF OrderInv
<1>6. Kept' = Kept
  BY <1>1, <1>3, <1>5 DEF Kept
<1>7. AccountInv'
  BY <1>1, <1>6 DEF AccountInv
<1>8. OrderInv'
  BY <1>1, <1>2, <1>3, <1>5 DEF OrderInv, Before
<1> QED
  BY <1>7, <1>8

LEMMA StreamDenoise ==
  ASSUME TypeOK, OrderInv, AccountInv, EndInv, Denoise
  PROVE  OrderInv' /\ AccountInv'
<1> DEFINE moved == SubSeq(capture, 1, Noise)
<1>1. /\ capture \in Seq(Nat) /\ output \in Seq(Nat) /\ Noise \in Nat \ {0} /\ Noise <= Len(capture)
      /\ output' = output \o moved /\ capture' = SubSeq(capture, Noise + 1, Len(capture))
      /\ raw' = raw /\ Line' = Line /\ made' = made /\ lost' = lost
  BY ConstantsAssumption DEF TypeOK, Denoise, Line, source
<1>2. /\ moved \in Seq(Nat) /\ Rising(moved) /\ Rising(capture')
      /\ Range(capture) = Range(moved) \cup Range(capture')
      /\ Before(Range(moved), Range(capture'))
  <2>1. Rising(capture) /\ Noise \in Nat
    BY <1>1 DEF OrderInv
  <2> QED
    BY <1>1, <2>1, Split
<1>3. Samples(raw) = {}
  <2>1. kind = "denoised"
    BY <1>1 DEF TypeOK
  <2> QED
    BY <2>1, Nothing DEF EndInv
<1> HIDE DEF moved
<1>4. Before(Range(output), Range(moved))
  BY <1>2 DEF OrderInv, Before
<1>5. Rising(output') /\ Range(output') = Range(output) \cup Range(moved)
  BY <1>1, <1>2, <1>4, Join DEF OrderInv
<1>6. Kept' = Kept
  BY <1>1, <1>2, <1>5 DEF Kept
<1>7. AccountInv'
  BY <1>1, <1>6 DEF AccountInv
<1>8. OrderInv'
  BY <1>1, <1>2, <1>3, <1>5 DEF OrderInv, Before
<1> QED
  BY <1>7, <1>8

LEMMA StreamCut ==
  ASSUME TypeOK, OrderInv, AccountInv, Cut
  PROVE  OrderInv' /\ AccountInv'
<1> DEFINE frame == SubSeq(output, 1, Frame)
<1>1. /\ output \in Seq(Nat) /\ Frame \in Nat /\ Frame <= Len(output)
      /\ output' = SubSeq(output, Frame + 1, Len(output)) /\ frame \in Frames
      /\ raw' = raw /\ capture' = capture /\ made' = made
  BY CutFrame DEF Cut, source
<1>2. /\ Rising(frame) /\ Rising(output')
      /\ Range(output) = Range(frame) \cup Range(output')
      /\ Before(Range(frame), Range(output'))
  <2>1. Rising(output)
    BY DEF OrderInv
  <2> QED
    BY <1>1, <2>1, Split
<1>3. \/ Line' = Append(Line, frame) /\ lost' = lost
      \/ Line' = Line /\ lost' = lost \cup Range(frame)
  BY CutAppends
<1> HIDE DEF frame
<1>4. /\ Before(Samples(Line), Range(frame))
      /\ Before(Range(frame), Range(output') \cup Range(capture) \cup Samples(raw))
  BY <1>2 DEF OrderInv, Before
<1>5. CASE Line' = Append(Line, frame) /\ lost' = lost
  <2>1. Line \in Seq(Frames)
    BY LineType
  <2>2. Samples(Line') = Samples(Line) \cup Range(frame) /\ Ordered(Line')
    BY <1>1, <1>2, <1>4, <1>5, <2>1, Adding DEF OrderInv
  <2>3. Kept' = Kept
    BY <1>1, <1>2, <2>2 DEF Kept
  <2>4. AccountInv'
    BY <1>1, <1>5, <2>3 DEF AccountInv
  <2>5. OrderInv'
    BY <1>1, <1>2, <1>4, <2>2 DEF OrderInv, Before
  <2> QED
    BY <2>4, <2>5
<1>6. CASE Line' = Line /\ lost' = lost \cup Range(frame)
  <2>1. Kept' = Kept \ Range(frame) /\ Range(frame) \subseteq Kept
    <3>1. Range(frame) \cap (Samples(Line) \cup Range(output') \cup Range(capture) \cup Samples(raw)) = {}
      <4>1. Kept \subseteq Nat
        BY KeptSamples
      <4>2. \A x \in Range(frame) : x \in Nat /\ ~(x < x)
        BY <1>2, <4>1 DEF Kept
      <4> QED
        BY <1>4, <4>2 DEF Before
    <3> QED
      BY <1>1, <1>2, <1>6, <3>1 DEF Kept
  <2>2. AccountInv'
    BY <1>1, <1>6, <2>1 DEF AccountInv
  <2>3. OrderInv'
    BY <1>1, <1>2, <1>6 DEF OrderInv, Before
  <2> QED
    BY <2>2, <2>3
<1> QED
  BY <1>3, <1>5, <1>6

\* Every step keeps the order and the account.
LEMMA StreamStep ==
  ASSUME TypeOK, OrderInv, AccountInv, EndInv, [Next]_vars
  PROVE  OrderInv' /\ AccountInv'
<1>1. CASE Callback \/ Process \/ Accumulate \/ Denoise \/ Cut
  BY <1>1, StreamCallback, StreamProcess, StreamAccumulate, StreamDenoise, StreamCut
<1>2. CASE Forward
  <2>1. UNCHANGED <<made, raw, capture, output, lost, Line>>
    BY <1>2, ForwardMoves DEF Forward, source, framing
  <2> QED
    BY <2>1 DEF OrderInv, AccountInv, Kept
<1>3. CASE \/ Open \/ Stop \/ Drained
           \/ ForwarderEnds \/ StackReturns \/ Disconnect
           \/ \E l \in Listeners : Subscribe(l) \/ Read(l) \/ Leave(l)
           \/ UNCHANGED vars
  <2>1. UNCHANGED <<made, raw, capture, output, lost, sent, queue>>
    BY <1>3 DEF Open, Stop, Drained, ForwarderEnds, StackReturns, Disconnect,
                Subscribe, Read, Leave, vars, source, framing
  <2> QED
    BY <2>1 DEF OrderInv, AccountInv, Kept, Line
<1> QED
  BY <1>1, <1>2, <1>3 DEF Next, Capture, Stack

----------------------------------------------------------------------------
(* The listeners.                                                          *)

LEMMA ListenerForward ==
  ASSUME TypeOK, ListenerInv, Forward
  PROVE  ListenerInv'
<1>1. /\ state' = state /\ cursor' = cursor /\ got' = got
      /\ late' = late \cup {l \in Listeners : state[l] = "listening" /\ Len(sent') - cursor[l] > RingCap}
  BY DEF Forward, listeners
<1>2. /\ Len(sent) \in Nat /\ Len(sent') = Len(sent) + 1
      /\ \A i \in 1 .. Len(sent) : sent'[i] = sent[i]
  BY ForwardMoves, LineType
<1> SUFFICES ASSUME NEW l \in Listeners
             PROVE  /\ got[l] # <<>> => \E i \in 1 .. cursor[l] : got[l] = sent'[i]
                    /\ got[l] # <<>> /\ l \notin late'
                         => cursor[l] # 0 /\ got[l] = sent'[cursor[l]]
                    /\ state[l] = "listening" /\ l \notin late'
                         => Len(sent') - cursor[l] <= RingCap
                    /\ state[l] = "none" => got[l] = <<>>
  BY <1>1 DEF ListenerInv, Behind
<1>3. cursor[l] \in 0 .. Len(sent)
  BY DEF TypeOK
<1>4. \A i \in 1 .. cursor[l] : sent'[i] = sent[i]
  BY <1>2, <1>3
<1>5. got[l] # <<>> => \E i \in 1 .. cursor[l] : got[l] = sent'[i]
  BY <1>4 DEF ListenerInv
<1>6. got[l] # <<>> /\ l \notin late' => cursor[l] # 0 /\ got[l] = sent'[cursor[l]]
  BY <1>1, <1>2, <1>3 DEF ListenerInv
<1>7. state[l] = "listening" /\ l \notin late' => Len(sent') - cursor[l] <= RingCap
  BY <1>1, <1>2, <1>3, ConstantsAssumption
<1> QED
  BY <1>5, <1>6, <1>7 DEF ListenerInv

\* What a receiver does, in the order of recv's results.
LEMMA ReceivedFrame ==
  ASSUME TypeOK, NEW l \in Listeners, Received(l)
  PROVE  /\ cursor[l] \in Nat /\ cursor[l] + 1 \in 1 .. Len(sent)
         /\ cursor' = [cursor EXCEPT ![l] = cursor[l] + 1]
         /\ got' = [got EXCEPT ![l] = sent[cursor[l] + 1]]
         /\ state' = state
<1>1. cursor[l] \in 0 .. Len(sent) /\ Len(sent) \in Nat /\ RingCap \in Nat
  BY ConstantsAssumption DEF TypeOK
<1>2. Behind(l) \in 1 .. RingCap
  BY DEF Received
<1>3. cursor[l] \in Nat /\ cursor[l] + 1 \in 1 .. Len(sent)
  BY <1>1, <1>2 DEF Behind
<1>4. cursor' = [cursor EXCEPT ![l] = cursor[l] + 1]
  BY DEF Received
<1>5. cursor'[l] = cursor[l] + 1
  BY <1>4 DEF TypeOK
<1>6. got' = [got EXCEPT ![l] = sent[cursor'[l]]] /\ state' = state
  BY DEF Received
<1>7. got' = [got EXCEPT ![l] = sent[cursor[l] + 1]]
  BY <1>5, <1>6
<1> QED
  BY <1>3, <1>4, <1>6, <1>7

LEMMA ListenerRead ==
  ASSUME TypeOK, ListenerInv, NEW l \in Listeners, Read(l)
  PROVE  ListenerInv'
<1>1. sent' = sent /\ late' = late /\ state[l] = "listening"
  BY DEF Read
<1>2. Len(sent) \in Nat /\ cursor[l] \in 0 .. Len(sent) /\ RingCap \in Nat \ {0}
  BY ConstantsAssumption DEF TypeOK
<1>3. CASE Lagged(l)
  <2>1. l \in late
    BY <1>1, <1>2, <1>3 DEF Lagged, Behind, ListenerInv
  <2>2. /\ cursor' = [cursor EXCEPT ![l] = Len(sent) - RingCap]
        /\ cursor[l] <= Len(sent) - RingCap /\ Len(sent) - RingCap \in Int
    BY <1>2, <1>3 DEF Lagged, Behind
  <2>3. got[l] # <<>> => \E i \in 1 .. Len(sent) - RingCap : got[l] = sent[i]
    BY <1>2, <2>2 DEF ListenerInv
  <2> QED
    BY <1>1, <1>3, <2>1, <2>2, <2>3 DEF Lagged, ListenerInv, Behind, TypeOK
<1>4. CASE Received(l)
  <2>1. /\ cursor[l] \in Nat /\ cursor[l] + 1 \in 1 .. Len(sent)
        /\ cursor' = [cursor EXCEPT ![l] = cursor[l] + 1]
        /\ got' = [got EXCEPT ![l] = sent[cursor[l] + 1]]
        /\ state' = state
    BY <1>4, ReceivedFrame
  <2>2. cursor'[l] = cursor[l] + 1 /\ got'[l] = sent[cursor[l] + 1]
    BY <2>1 DEF TypeOK
  <2>3. \E i \in 1 .. cursor'[l] : got'[l] = sent[i]
    BY <2>1, <2>2
  <2>4. l \notin late => Len(sent) - cursor'[l] <= RingCap
    BY <1>1, <1>2, <2>2 DEF ListenerInv, Behind
  <2>5. ASSUME NEW k \in Listeners, k # l
        PROVE  cursor'[k] = cursor[k] /\ got'[k] = got[k]
    BY <2>1, <2>5 DEF TypeOK
  <2>6. ASSUME NEW k \in Listeners
        PROVE  /\ got'[k] # <<>> => \E i \in 1 .. cursor'[k] : got'[k] = sent[i]
               /\ got'[k] # <<>> /\ k \notin late => cursor'[k] # 0 /\ got'[k] = sent[cursor'[k]]
               /\ state[k] = "listening" /\ k \notin late => Len(sent) - cursor'[k] <= RingCap
               /\ state[k] = "none" => got'[k] = <<>>
    <3>1. CASE k = l
      <4>1. cursor'[k] # 0 /\ got'[k] = sent[cursor'[k]]
        BY <2>1, <2>2, <3>1
      <4>2. state[k] = "listening"
        BY <1>1, <3>1
      <4> QED
        BY <2>3, <2>4, <3>1, <4>1, <4>2
    <3>2. CASE k # l
      BY <2>5, <3>2 DEF ListenerInv, Behind
    <3> QED
      BY <3>1, <3>2
  <2> QED
    BY <1>1, <2>1, <2>6 DEF ListenerInv, Behind
<1>5. CASE Closed(l)
  BY <1>1, <1>5 DEF Closed, ListenerInv, Behind, TypeOK
<1> QED
  BY <1>3, <1>4, <1>5 DEF Read

LEMMA ListenerStep ==
  ASSUME TypeOK, ListenerInv, [Next]_vars
  PROVE  ListenerInv'
<1>1. CASE Forward
  BY <1>1, ListenerForward
<1>2. ASSUME NEW l \in Listeners, Read(l) PROVE ListenerInv'
  BY <1>2, ListenerRead
<1>3. ASSUME NEW l \in Listeners, Subscribe(l) PROVE ListenerInv'
  <2>1. /\ state' = [state EXCEPT ![l] = "listening"] /\ state[l] = "none"
        /\ cursor' = [cursor EXCEPT ![l] = Len(sent)]
        /\ got' = got /\ sent' = sent /\ late' = late
    BY <1>3 DEF Subscribe
  <2>2. Len(sent) - Len(sent) <= RingCap
    BY ConstantsAssumption, LineType
  <2> QED
    BY <2>1, <2>2 DEF ListenerInv, Behind, TypeOK
<1>4. ASSUME NEW l \in Listeners, Leave(l) PROVE ListenerInv'
  BY <1>4 DEF Leave, ListenerInv, Behind, TypeOK
<1>5. CASE \/ Capture \/ ForwarderEnds \/ StackReturns \/ Disconnect \/ UNCHANGED vars
  <2>1. UNCHANGED <<sent, listeners, late>>
    BY <1>5
    DEF Capture, Open, Callback, Process, Accumulate, Denoise, Cut, Stop, Drained,
        ForwarderEnds, StackReturns, Disconnect, vars
  <2> QED
    BY <2>1 DEF listeners, ListenerInv, Behind
<1> QED
  BY <1>1, <1>2, <1>3, <1>4, <1>5 DEF Next, Stack

----------------------------------------------------------------------------
(* The end.                                                                *)

LEMMA EndStep ==
  ASSUME TypeOK, EndInv, [Next]_vars
  PROVE  EndInv'
<1> USE DEF source, framing, stack, listeners
<1>1. CASE Open
  <2>1. Settled
    <3>1. Len(capture) = 0 /\ Len(output) = 0
      BY <1>1 DEF Open, EndInv
    <3> QED
      BY <3>1, ConstantsAssumption DEF Settled
  <2> QED
    BY <1>1, <2>1 DEF Open, EndInv, Settled
<1>2. CASE Callback \/ Process
  BY <1>2 DEF Callback, Process, EndInv
<1>3. CASE Accumulate
  BY <1>3 DEF Accumulate, EndInv
<1>4. CASE Denoise \/ Cut
  <2>1. ~Settled
    BY <1>4, ConstantsAssumption DEF Denoise, Cut, Settled, TypeOK
  <2>2. line # "opening"
    <3>1. capture = <<>> /\ output = <<>> => Settled
      BY ConstantsAssumption DEF Settled
    <3> QED
      BY <2>1, <3>1 DEF EndInv
  <2> QED
    BY <1>4, <2>1, <2>2 DEF Denoise, Cut, EndInv
<1>5. CASE Stop \/ Drained
  BY <1>5 DEF Stop, Drained, Dropped, EndInv, Settled
<1>6. CASE Forward
  BY <1>6 DEF Forward, EndInv, Settled
<1>7. CASE ForwarderEnds
  BY <1>7 DEF ForwarderEnds, EndInv, Settled
<1>8. CASE \/ StackReturns \/ Disconnect
           \/ \E l \in Listeners : Subscribe(l) \/ Read(l) \/ Leave(l)
           \/ UNCHANGED vars
  <2>1. UNCHANGED <<source, framing, line, queue, forwarding>>
    BY <1>8 DEF StackReturns, Disconnect, Subscribe, Read, Leave, vars
  <2> QED
    BY <2>1 DEF EndInv, Settled
<1> QED
  BY <1>1, <1>2, <1>3, <1>4, <1>5, <1>6, <1>7, <1>8 DEF Next, Capture, Stack

LEMMA InvariantHolds == Spec => []IInv
<1>1. Init => IInv
  <2> SUFFICES ASSUME Init PROVE IInv
    OBVIOUS
  <2>1. /\ capture = <<>> /\ output = <<>> /\ raw = <<>> /\ made = 0 /\ lost = {}
        /\ sent = <<>> /\ queue = <<>> /\ Line = <<>>
    BY DEF Init, Line
  <2>2. TypeOK
    BY TypeInit
  <2>3. OrderInv /\ AccountInv
    <3>1. Samples(Line) = {} /\ Range(output) = {} /\ Range(capture) = {} /\ Samples(raw) = {}
      BY <2>1, Nothing
    <3>2. Kept = {} /\ 1 .. made = {}
      BY <2>1, <3>1 DEF Kept
    <3> QED
      BY <2>1, <3>1, <3>2, Nothing DEF OrderInv, AccountInv, Before
  <2>4. ListenerInv /\ EndInv
    BY <2>1, ConstantsAssumption DEF Init, ListenerInv, EndInv, Behind, Settled
  <2> QED
    BY <2>2, <2>3, <2>4 DEF IInv
<1>2. IInv /\ [Next]_vars => IInv'
  BY TypeStep, StreamStep, ListenerStep, EndStep DEF IInv
<1> QED
  BY <1>1, <1>2, PTL DEF Spec

----------------------------------------------------------------------------
(* The refinement.                                                         *)

\* A frame of the line: its samples, in order, between those of its neighbours.
LEMMA LineFrame ==
  ASSUME IInv, NEW c \in 1 .. Len(Line)
  PROVE  /\ Line[c] \in [1 .. Frame -> Nat] /\ DOMAIN Line[c] = 1 .. Frame
         /\ Rising(Line[c])
         /\ Range(Line[c]) \subseteq Samples(Line)
         /\ \A k \in 1 .. Frame : Line[c][k] \in Range(Line[c])
         /\ \A k \in 1 .. Frame :
              Line[c][1] <= Line[c][k] /\ Line[c][k] <= Line[c][Frame]
         /\ \A d \in 1 .. Len(Line) : d < c => Before(Range(Line[d]), Range(Line[c]))
<1>1. Line[c] \in [1 .. Frame -> Nat] /\ DOMAIN Line = 1 .. Len(Line)
  BY LineType DEF IInv
<1>2. Rising(Line[c]) /\ \A d \in 1 .. Len(Line) : d < c => Before(Range(Line[d]), Range(Line[c]))
  BY <1>1 DEF IInv, OrderInv, Ordered
<1>3. Range(Line[c]) \subseteq Samples(Line) /\ \A k \in 1 .. Frame : Line[c][k] \in Range(Line[c])
  BY <1>1 DEF Samples, Range
<1>4. ASSUME NEW k \in 1 .. Frame
      PROVE  Line[c][1] <= Line[c][k] /\ Line[c][k] <= Line[c][Frame]
  <2>1. Frame \in Nat \ {0} /\ 1 \in 1 .. Frame /\ Frame \in 1 .. Frame
    BY ConstantsAssumption
  <2>2. /\ 1 < k => Line[c][1] < Line[c][k]
        /\ k < Frame => Line[c][k] < Line[c][Frame]
    BY <1>1, <1>2, <2>1 DEF Rising
  <2>3. Line[c][1] \in Nat /\ Line[c][k] \in Nat /\ Line[c][Frame] \in Nat
    BY <1>1, <2>1
  <2> QED
    BY <2>1, <2>2, <2>3
<1> QED
  BY <1>1, <1>2, <1>3, <1>4

\* Where a listener is in the line.
LEMMA Position ==
  ASSUME IInv, NEW l \in Listeners, got[l] # <<>>
  PROVE  /\ \E i \in 1 .. cursor[l] : i \in 1 .. Len(Line) /\ got[l] = Line[i]
         /\ l \notin late => cursor[l] \in 1 .. Len(Line) /\ got[l] = Line[cursor[l]]
         /\ LossyStream!Heard(l) = got[l][Frame]
         /\ LossyStream!Heard(l) \in Samples(Line)
<1>1. /\ cursor[l] \in 0 .. Len(sent) /\ Len(sent) \in Nat /\ Len(Line) \in Nat
      /\ Len(sent) <= Len(Line) /\ \A i \in 1 .. Len(sent) : Line[i] = sent[i]
  BY LineType DEF IInv, TypeOK
<1>2. PICK i \in 1 .. cursor[l] : got[l] = sent[i]
  BY DEF IInv, ListenerInv
<1>3. i \in 1 .. Len(Line) /\ got[l] = Line[i]
  BY <1>1, <1>2
<1>4. l \notin late => cursor[l] \in 1 .. Len(Line) /\ got[l] = Line[cursor[l]]
  BY <1>1 DEF IInv, ListenerInv
<1>5. LossyStream!Heard(l) = got[l][Frame]
  BY DEF LossyStream!Heard
<1>6. Line[i][Frame] \in Samples(Line)
  <2>1. Frame \in 1 .. Frame
    BY ConstantsAssumption
  <2> QED
    BY <1>3, <2>1, LineFrame
<1> QED
  BY <1>2, <1>3, <1>4, <1>5, <1>6

\* Between the last frame a listener has heard and the one it reads there are only
\* lost samples; what comes before the frame it reads is in earlier frames.
LEMMA NoHole ==
  ASSUME IInv, NEW c \in 1 .. Len(Line), NEW x \in 1 .. made, x \notin lost,
         x <= Line[c][Frame], x \notin Range(Line[c])
  PROVE  \E d \in 1 .. Len(Line) : d < c /\ x \in Range(Line[d])
<1>1. x \in Kept /\ Kept \subseteq Nat
  BY KeptSamples DEF IInv, AccountInv
<1>2. Line[c][Frame] \in Samples(Line) /\ Line[c][Frame] \in Range(Line[c]) /\ Line[c][Frame] \in Nat
  BY LineFrame, ConstantsAssumption
<1>3. x \in Samples(Line)
  <2>1. ASSUME x \in Range(output) \cup Range(capture) \cup Samples(raw) PROVE FALSE
    <3>1. Line[c][Frame] < x
      BY <1>2, <2>1 DEF IInv, OrderInv, Before
    <3> QED
      BY <1>2, <3>1
  <2> QED
    BY <1>1, <2>1 DEF Kept
<1>4. PICK d \in 1 .. Len(Line) : x \in Range(Line[d])
  BY <1>3, LineType DEF Samples, IInv
<1>5. ~(c < d)
  <2> SUFFICES ASSUME c < d PROVE FALSE
    OBVIOUS
  <2>1. Before(Range(Line[c]), Range(Line[d]))
    BY LineFrame
  <2>2. Line[c][Frame] < x
    BY <1>2, <1>4, <2>1 DEF Before
  <2> QED
    BY <1>2, <2>2
<1>6. c # d
  BY <1>4
<1> QED
  BY <1>4, <1>5, <1>6, LineType DEF IInv

\* The next frame of a listener that missed nothing goes on where its last ended.
LEMMA ReceivedHears ==
  ASSUME IInv, NEW l \in Listeners, Read(l), Received(l)
  PROVE  LossyStream!Hear(l)
<1> DEFINE c == cursor[l] + 1
           frame == Line[c]
           first == IF LossyStream!Attentive(l) THEN LossyStream!Heard(l) + 1 ELSE frame[1]
<1>1. /\ cursor[l] \in Nat /\ c \in 1 .. Len(Line)
      /\ got' = [got EXCEPT ![l] = frame] /\ got'[l] = frame
      /\ state' = state
  <2>1. /\ cursor[l] \in Nat /\ cursor[l] + 1 \in 1 .. Len(sent)
        /\ got' = [got EXCEPT ![l] = sent[cursor[l] + 1]]
        /\ state' = state
    BY ReceivedFrame DEF IInv
  <2>2. /\ Len(Line) \in Nat /\ Len(sent) <= Len(Line) /\ Len(sent) \in Nat
        /\ Line[cursor[l] + 1] = sent[cursor[l] + 1]
    BY <2>1, LineType DEF IInv
  <2>3. cursor[l] + 1 \in 1 .. Len(Line)
    BY <2>1, <2>2
  <2> QED
    BY <2>1, <2>2, <2>3 DEF IInv, TypeOK
<1> HIDE DEF c
<1>2. /\ frame \in [1 .. Frame -> Nat] /\ DOMAIN frame = 1 .. Frame /\ Rising(frame)
      /\ Range(frame) \subseteq Samples(Line)
      /\ \A k \in 1 .. Frame : /\ frame[k] \in Range(frame)
                               /\ frame[1] <= frame[k] /\ frame[k] <= frame[Frame]
  BY <1>1, LineFrame
<1>3. Frame \in Nat /\ 1 \in 1 .. Frame /\ Frame \in 1 .. Frame
  BY ConstantsAssumption
<1>4. /\ made \in Nat /\ Samples(Line) \subseteq 1 .. made /\ Samples(Line) \cap lost = {}
  BY KeptSamples DEF IInv, AccountInv, Kept
<1>5. LossyStream!Heard(l) \in Nat /\ LossyStream!Heard(l) < frame[1]
  <2>1. frame[1] \in Range(frame) /\ frame[1] \in 1 .. made
    BY <1>2, <1>3, <1>4
  <2>2. CASE got[l] = <<>>
    BY <2>1, <2>2 DEF LossyStream!Heard
  <2>3. CASE got[l] # <<>>
    <3>1. PICK i \in 1 .. cursor[l] : i \in 1 .. Len(Line) /\ got[l] = Line[i]
      BY <2>3, Position
    <3>2. i < c
      BY <1>1 DEF c
    <3>3. LossyStream!Heard(l) = Line[i][Frame] /\ LossyStream!Heard(l) \in 1 .. made
      BY <1>4, <2>3, <3>1, Position
    <3>4. Line[i][Frame] \in Range(Line[i]) /\ Before(Range(Line[i]), Range(frame))
      BY <1>1, <1>3, <3>1, <3>2, LineFrame
    <3> QED
      BY <2>1, <3>3, <3>4 DEF Before
  <2> QED
    BY <2>2, <2>3
<1>6. first \in Nat /\ LossyStream!Heard(l) < first /\ first <= frame[1] /\ frame[1] \in Nat
  BY <1>2, <1>3, <1>5
<1>7. Range(frame) \subseteq (first .. frame[Frame]) \ lost
  <2> SUFFICES ASSUME NEW k \in 1 .. Frame
               PROVE  frame[k] \in first .. frame[Frame] /\ frame[k] \notin lost
    BY <1>2 DEF Range
  <2>1. frame[k] \in Nat /\ frame[1] \in Nat /\ frame[Frame] \in Nat
    BY <1>2, <1>3
  <2>2. frame[k] \in Range(frame) /\ frame[1] <= frame[k] /\ frame[k] <= frame[Frame]
    BY <1>2
  <2> HIDE DEF frame, first
  <2> QED
    BY <1>2, <1>4, <1>6, <2>1, <2>2
<1>8. ASSUME NEW x \in first .. frame[Frame], x \notin lost
      PROVE  x \in Range(frame)
  <2> SUFFICES ASSUME x \notin Range(frame) PROVE FALSE
    OBVIOUS
  <2>1. x \in 1 .. made /\ x <= frame[Frame] /\ x \in Nat
    <3>1. frame[Frame] \in 1 .. made
      BY <1>2, <1>3, <1>4
    <3> HIDE DEF frame, first
    <3> QED
      BY <1>4, <1>5, <1>6, <3>1
  <2>2. PICK d \in 1 .. Len(Line) : d < c /\ x \in Range(Line[d])
    BY <1>1, <1>8, <2>1, NoHole
  <2>3. x < frame[1]
    <3>1. Before(Range(Line[d]), Range(frame)) /\ frame[1] \in Range(frame)
      BY <1>1, <1>2, <1>3, <2>2, LineFrame
    <3> QED
      BY <2>2, <3>1 DEF Before
  <2>4. CASE ~LossyStream!Attentive(l)
    <3>1. first = frame[1]
      BY <2>4
    <3> HIDE DEF frame, first
    <3> QED
      BY <1>6, <2>1, <2>3, <3>1
  <2>5. CASE LossyStream!Attentive(l)
    <3>1. l \notin late /\ got[l] # <<>>
      BY <2>5 DEF LossyStream!Attentive
    <3>2. cursor[l] \in 1 .. Len(Line) /\ LossyStream!Heard(l) = Line[cursor[l]][Frame]
      BY <3>1, Position
    <3>3. LossyStream!Heard(l) < x
      <4>1. first = LossyStream!Heard(l) + 1
        BY <2>5
      <4> HIDE DEF frame, first
      <4> QED
        BY <1>5, <1>8, <2>1, <4>1
    <3>4. PICK k \in 1 .. Frame : x = Line[d][k]
      BY <2>2, LineFrame DEF Range
    <3>5. CASE d = cursor[l]
      <4>1. x <= LossyStream!Heard(l)
        BY <3>2, <3>4, <3>5, LineFrame
      <4> QED
        BY <1>5, <2>1, <3>3, <4>1
    <3>6. CASE d # cursor[l]
      <4>1. d < cursor[l]
        BY <1>1, <2>2, <3>6, LineType DEF c, IInv
      <4>2. Before(Range(Line[d]), Range(Line[cursor[l]])) /\ LossyStream!Heard(l) \in Range(Line[cursor[l]])
        BY <1>3, <3>2, <4>1, LineFrame
      <4>3. x < LossyStream!Heard(l)
        BY <2>2, <4>2 DEF Before
      <4> QED
        BY <1>5, <2>1, <3>3, <4>3
    <3> QED
      BY <3>5, <3>6
  <2> QED
    BY <2>4, <2>5
<1>9. LossyStream!Holds(frame, first)
  <2>1. ASSUME NEW k \in 1 .. Frame PROVE frame[k] \in first .. made
    <3>1. frame[k] \in Range(frame) /\ frame[k] \in 1 .. made
      BY <1>2, <1>4
    <3>2. frame[1] <= frame[k]
      BY <1>2
    <3> HIDE DEF frame, first
    <3> QED
      BY <1>4, <1>6, <3>1, <3>2
  <2>2. frame \in [1 .. Frame -> first .. made]
    BY <1>2, <2>1
  <2>3. Range(frame) = (first .. frame[Frame]) \ lost
    BY <1>7, <1>8
  <2>4. \A i, j \in 1 .. Frame : i < j => frame[i] < frame[j]
    BY <1>2 DEF Rising
  <2> HIDE DEF frame, first
  <2> QED
    BY <2>2, <2>3, <2>4 DEF LossyStream!Holds, LossyStream!Range, Range
<1>10. first \in LossyStream!Heard(l) + 1 .. made
  <2>1. frame[1] \in 1 .. made
    BY <1>2, <1>3, <1>4
  <2> HIDE DEF frame, first
  <2> QED
    BY <1>4, <1>5, <1>6, <2>1
<1>11. state[l] = "listening" /\ UNCHANGED <<made, line, lost, late, state>>
  BY <1>1 DEF Read, source
<1>12. LossyStream!Attentive(l) => first = LossyStream!Heard(l) + 1
  OBVIOUS
<1> HIDE DEF frame, first
<1> QED
  BY <1>1, <1>9, <1>10, <1>11, <1>12 DEF LossyStream!Hear

\* A sequence has no more values than places.
LEMMA FewValues ==
  ASSUME NEW s \in Seq(Nat)
  PROVE  IsFiniteSet(Range(s)) /\ Cardinality(Range(s)) <= Len(s)
<1>1. Len(s) \in Nat /\ DOMAIN s = 1 .. Len(s) /\ s \in [1 .. Len(s) -> Nat]
  BY LenProperties
<1>2. s \in Surjection(1 .. Len(s), Range(s))
  BY <1>1 DEF Surjection, Range
<1>3. IsFiniteSet(1 .. Len(s)) /\ Cardinality(1 .. Len(s)) = Len(s)
  <2>1. PICK n \in Nat : n = Len(s)
    BY <1>1
  <2>2. IsFiniteSet(1 .. n) /\ Cardinality(1 .. n) = IF 1 > n THEN 0 ELSE n - 1 + 1
    BY FS_Interval
  <2> QED
    BY <2>1, <2>2
<1> QED
  BY <1>2, <1>3, FS_Surjection

\* Whoever is told the end has heard all that filled a frame: what else is left of the
\* stream is in the two buffers.
LEMMA ClosedCloses ==
  ASSUME IInv, NEW l \in Listeners, Read(l), Closed(l)
  PROVE  LossyStream!Close(l)
<1>1. line = "ended" /\ Settled /\ queue = <<>> /\ raw = <<>>
  BY DEF Closed, IInv, EndInv
<1>2. /\ state[l] = "listening" /\ state' = [state EXCEPT ![l] = "closed"]
      /\ UNCHANGED <<made, line, lost, late, got>>
  BY DEF Read, Closed, source
<1> DEFINE Left == (LossyStream!Heard(l) + 1 .. made) \ lost
<1>3. ASSUME LossyStream!Attentive(l) PROVE Cardinality(Left) < Frame + Noise
  <2>1. l \notin late /\ got[l] # <<>>
    BY <1>3 DEF LossyStream!Attentive
  <2>2. cursor[l] \in 1 .. Len(Line) /\ LossyStream!Heard(l) = Line[cursor[l]][Frame]
    BY <2>1, Position
  <2>3. Len(Line) = cursor[l]
    BY <1>1, LineType DEF Closed, Behind, IInv, TypeOK
  <2>4. ASSUME NEW x \in Left PROVE x \in Range(output) \cup Range(capture)
    <3>1. LossyStream!Heard(l) \in Nat /\ made \in Nat
      BY <2>1, Position, KeptSamples DEF IInv, Kept
    <3>2. x \in Kept /\ x \in Nat /\ LossyStream!Heard(l) < x
      BY <3>1 DEF IInv, AccountInv
    <3>3. x \notin Samples(Line)
      <4> SUFFICES ASSUME NEW d \in 1 .. Len(Line), x \in Range(Line[d]) PROVE FALSE
        BY LineType DEF Samples, IInv
      <4>1. PICK k \in 1 .. Frame : x = Line[d][k]
        BY LineFrame DEF Range
      <4>2. CASE d = cursor[l]
        <5>1. x <= LossyStream!Heard(l)
          BY <2>2, <4>1, <4>2, LineFrame
        <5> QED
          BY <3>1, <3>2, <5>1
      <4>3. CASE d # cursor[l]
        <5>1. d < cursor[l]
          BY <2>3, <4>3, LineType DEF IInv
        <5>2. /\ Before(Range(Line[d]), Range(Line[cursor[l]]))
              /\ LossyStream!Heard(l) \in Range(Line[cursor[l]])
          BY <2>2, <5>1, LineFrame, ConstantsAssumption
        <5>3. x < LossyStream!Heard(l)
          BY <5>2 DEF Before
        <5> QED
          BY <3>1, <3>2, <5>3
      <4> QED
        BY <4>2, <4>3
    <3>4. Samples(raw) = {}
      BY <1>1, Nothing
    <3> QED
      BY <3>2, <3>3, <3>4 DEF Kept
  <2>5. /\ output \in Seq(Nat) /\ capture \in Seq(Nat)
        /\ Len(output) \in Nat /\ Len(capture) \in Nat
        /\ Frame \in Nat /\ Noise \in Nat
    BY ConstantsAssumption, LenProperties DEF IInv, TypeOK
  <2>6. /\ IsFiniteSet(Range(output)) /\ Cardinality(Range(output)) <= Len(output)
        /\ IsFiniteSet(Range(capture)) /\ Cardinality(Range(capture)) <= Len(capture)
    BY <2>5, FewValues
  <2>7. /\ Cardinality(Range(output)) \in Nat /\ Cardinality(Range(capture)) \in Nat
        /\ Cardinality(Range(output) \cap Range(capture)) \in Nat
    <3>1. IsFiniteSet(Range(output) \cap Range(capture))
      BY <2>6, FS_Subset
    <3> QED
      BY <2>6, <3>1, FS_CardinalityType
  <2>8. /\ IsFiniteSet(Range(output) \cup Range(capture))
        /\ Cardinality(Range(output) \cup Range(capture))
             = Cardinality(Range(output)) + Cardinality(Range(capture))
               - Cardinality(Range(output) \cap Range(capture))
    BY <2>6, FS_Union
  <2>9. IsFiniteSet(Left) /\ Cardinality(Left) <= Cardinality(Range(output) \cup Range(capture))
    BY <2>4, <2>8, FS_Subset
  <2>10. Cardinality(Left) \in Nat
    BY <2>9, FS_CardinalityType
  <2>11. Len(capture) < Noise /\ Len(output) < Frame
    BY <1>1 DEF Settled
  <2> HIDE DEF Left
  <2> QED
    BY <2>5, <2>6, <2>7, <2>8, <2>9, <2>10, <2>11
<1>4. LossyStream!Cardinality(Left) = Cardinality(Left)
  BY DEF LossyStream!Cardinality, Cardinality
<1> HIDE DEF Left
<1>5. LossyStream!Attentive(l) => LossyStream!Cardinality(Left) < Frame + Noise
  BY <1>3, <1>4
<1> QED
  BY <1>1, <1>2, <1>5 DEF LossyStream!Close, Left

LEMMA CaptureMakes ==
  ASSUME IInv, IInv', Callback \/ Process \/ Accumulate \/ Denoise \/ Cut \/ Forward
  PROVE  LossyStream!Make
<1> USE DEF source, framing, stack, listeners
<1>1. late \subseteq late' /\ line' = line /\ got' = got /\ state' = state
  BY DEF Callback, Process, Accumulate, Denoise, Cut, Forward
<1>2. lost' \subseteq 1 .. made'
  BY DEF IInv, AccountInv
<1>3. made \in Nat /\ Kept \subseteq 1 .. made
  BY KeptSamples DEF IInv
<1>4. /\ \A l \in Listeners : LossyStream!Heard(l) \in Samples(Line) \cup {0}
      /\ Samples(Line) \subseteq Kept
  BY Position DEF LossyStream!Heard, Kept
<1>5. CASE Accumulate \/ Denoise \/ Forward
  <2>1. made' = made /\ lost' = lost
    BY <1>5 DEF Accumulate, Denoise, Forward
  <2> QED
    BY <1>1, <1>2, <1>3, <2>1 DEF LossyStream!Make
<1>6. CASE Callback
  <2>1. PICK n \in Nat : made' = made + n
    BY <1>6, ConstantsAssumption DEF Callback
  <2>2. line # "ended" /\ lost' = lost
    BY <1>6 DEF Callback
  <2> QED
    BY <1>1, <1>2, <1>3, <2>1, <2>2 DEF LossyStream!Make
<1>7. CASE Process
  <2>1. PICK n \in Nat :
          /\ made' = made + n
          /\ \/ lost' = lost
             \/ lost' = lost \cup Range(Coming(n)) /\ ~(Len(raw) < RawCap)
    BY <1>7, ConstantsAssumption DEF Process
  <2>2. Range(Coming(n)) = made + 1 .. made + n
    BY <1>3, ComingSamples
  <2>3. line # "ended"
    BY <1>7 DEF Process
  <2>4. lost' # lost => Len(raw) = RawCap
    <3>1. Len(raw) \in Nat /\ Len(raw) <= RawCap /\ RawCap \in Nat
      BY ConstantsAssumption, LenProperties DEF IInv, TypeOK
    <3> QED
      BY <2>1, <3>1
  <2>5. ASSUME NEW l \in Listeners, NEW x \in lost' \ lost PROVE x > LossyStream!Heard(l)
    <3>1. LossyStream!Heard(l) \in 0 .. made
      <4>1. LossyStream!Heard(l) \in Samples(Line) \cup {0} /\ Samples(Line) \subseteq 1 .. made
        BY <1>3, <1>4
      <4> QED
        BY <1>3, <4>1
    <3>2. x \in made + 1 .. made + n
      BY <2>1, <2>2
    <3> QED
      BY <1>3, <3>1, <3>2
  <2>6. lost \subseteq lost' /\ made' >= made
    BY <1>3, <2>1
  <2> QED
    BY <1>1, <1>2, <2>3, <2>4, <2>5, <2>6 DEF LossyStream!Make
<1>8. CASE Cut
  <2> DEFINE frame == SubSeq(output, 1, Frame)
  <2>1. lost' = lost \/ (lost' = lost \cup Range(frame) /\ Len(queue) = QueueCap)
    BY <1>8, CutAppends DEF IInv
  <2>2. Range(frame) \subseteq Range(output)
    <3>1. Rising(output) /\ output \in Seq(Nat) /\ Frame \in Nat /\ Frame <= Len(output)
      BY <1>8, CutFrame DEF IInv, OrderInv
    <3> QED
      BY <3>1, Split
  <2> HIDE DEF frame
  <2>3. ASSUME NEW l \in Listeners, NEW x \in lost' \ lost PROVE x > LossyStream!Heard(l)
    <3>1. x \in Range(output) /\ x \in 1 .. made
      BY <1>3, <2>1, <2>2 DEF Kept
    <3>2. LossyStream!Heard(l) \in Nat
      <4>1. LossyStream!Heard(l) \in Samples(Line) \cup {0} /\ Samples(Line) \subseteq 1 .. made
        BY <1>3, <1>4
      <4> QED
        BY <1>3, <4>1
    <3>3. LossyStream!Heard(l) # 0 => LossyStream!Heard(l) < x
      BY <1>4, <3>1 DEF IInv, OrderInv, Before
    <3> QED
      BY <3>1, <3>2, <3>3
  <2>4. made' = made
    BY <1>8 DEF Cut
  <2>5. lost \subseteq lost' /\ (lost' # lost => Len(queue) = QueueCap)
    BY <2>1
  <2> QED
    BY <1>1, <1>2, <1>3, <2>3, <2>4, <2>5 DEF LossyStream!Make
<1> QED
  BY <1>5, <1>6, <1>7, <1>8

LEMMA StepMaps ==
  ASSUME IInv, IInv', [Next]_vars
  PROVE  [LossyStream!Step]_<<made, line = "ended", lost, late, got, state>>
<1> USE DEF source, framing, stack, listeners, LossyStream!Step
<1>1. CASE Callback \/ Process \/ Accumulate \/ Denoise \/ Cut \/ Forward
  BY <1>1, CaptureMakes
<1>2. CASE Open \/ Stop \/ Drained
  <2>1. UNCHANGED <<made, lost, late, got, state>> /\ line # "ended"
    BY <1>2 DEF Open, Stop, Drained
  <2> QED
    BY <2>1 DEF LossyStream!Finish
<1>3. CASE ForwarderEnds \/ StackReturns \/ Disconnect \/ UNCHANGED vars
  BY <1>3 DEF ForwarderEnds, StackReturns, Disconnect, vars
<1>4. ASSUME NEW l \in Listeners, Subscribe(l) PROVE LossyStream!Join(l)
  BY <1>4 DEF Subscribe, LossyStream!Join
<1>5. ASSUME NEW l \in Listeners, Leave(l) PROVE LossyStream!Leave(l)
  BY <1>5 DEF Leave, LossyStream!Leave
<1>6. ASSUME NEW l \in Listeners, Read(l)
      PROVE  [LossyStream!Step]_<<made, line = "ended", lost, late, got, state>>
  <2>1. CASE Lagged(l)
    BY <1>6, <2>1 DEF Read, Lagged
  <2>2. CASE Received(l)
    BY <1>6, <2>2, ReceivedHears
  <2>3. CASE Closed(l)
    BY <1>6, <2>3, ClosedCloses
  <2> QED
    BY <1>6, <2>1, <2>2, <2>3 DEF Read
<1> QED
  BY <1>1, <1>2, <1>3, <1>4, <1>5, <1>6 DEF Next, Capture, Stack

\* Every sample that the source has delivered is accounted for: on its way, in a frame
\* that has been cut, or lost while the raw channel (audio.rs:758) or the queue
\* (audio.rs:911) was full.  A client hears frames that leave out nothing but the lost
\* ones, unless it fell behind, and the end only after the last of them (stack.rs,
\* client.rs run).
THEOREM CaptureImplementsStream == Spec => ImplementsStream
<1>1. Init => LossyStream!Start
  BY DEF Init, LossyStream!Start
<1>2. IInv /\ IInv' /\ [Next]_vars
        => [LossyStream!Step]_<<made, line = "ended", lost, late, got, state>>
  BY StepMaps
<1> QED
  BY <1>1, <1>2, InvariantHolds, PTL DEF Spec, ImplementsStream, LossyStream!Stream

=============================================================================
