---------------------------- MODULE KeyingProofs ----------------------------
(***************************************************************************)
(* Polling and keying for any set of datarefs, any seat changes and any    *)
(* number of late datarefs.                                                *)
(*                                                                         *)
(* ReadInv is the induction over a pass: what has been read so far in this *)
(* pass is in force, although the seat may have changed with it.           *)
(***************************************************************************)
EXTENDS Keying, SequenceTheorems, TLAPS

ReadInv ==
  Plugin /\ SeatFirst =>
    \A i \in DOMAIN order : pos = 0 \/ i < pos => InForce(order[i])

IInv == TypeOK /\ Distinct(order) /\ ReadInv

----------------------------------------------------------------------------
(* Types.                                                                  *)

\* A listing of S is a sequence of different members of S.
LEMMA ListingsAreSequences ==
  ASSUME NEW S, NEW s \in Listings(S)
  PROVE  s \in Seq(S) /\ Distinct(s)
<1>1. PICK n \in 0 .. Cardinality(S) : s \in [1 .. n -> S]
  BY DEF Listings
<1>2. n \in Nat
  OBVIOUS
<1> QED
  BY <1>1, <1>2, SeqDef DEF Listings

\* What exists is modelled, whoever polls.
LEMMA ExistingAreDataRefs ==
  ASSUME setup \in Setups
  PROVE  setup.existing \subseteq DataRefs /\ setup.budget \in [Events -> Nat]
  BY ConstantsAssumption

\* What a pass begins with: the datarefs so far, then others (lib.rs
\* retry_pending_datarefs).
LEMMA PassOrder ==
  ASSUME TypeOK, Distinct(order), StartPass
  PROVE  /\ order' \in Seq(DataRefs)
         /\ Distinct(order')
         /\ pos' \in {0, 1}
         /\ pos' \in 0 .. Len(order')
<1>1. PICK found \in Listings(setup.existing \ Resolved) \cup {<<>>} : order' = order \o found
  BY DEF StartPass
<1>2. order \in Seq(DataRefs)
  BY DEF TypeOK
<1>3. /\ found \in Seq(DataRefs)
      /\ found \in Seq(DataRefs \ Resolved)
      /\ Distinct(found)
  <2>1. CASE found \in Listings(setup.existing \ Resolved)
    <3>1. found \in Seq(setup.existing \ Resolved) /\ Distinct(found)
      BY <2>1, ListingsAreSequences
    <3> QED
      BY <3>1, ExistingAreDataRefs DEF TypeOK
  <2>2. CASE found = <<>>
    BY <2>2 DEF Distinct
  <2> QED
    BY <1>1, <2>1, <2>2
<1>4. order' \in Seq(DataRefs)
  BY <1>1, <1>2, <1>3
<1>5. \A i \in DOMAIN order : \A j \in DOMAIN found : order[i] # found[j]
  BY <1>2, <1>3 DEF Resolved
<1>6. Distinct(order')
  <2> SUFFICES ASSUME NEW i \in DOMAIN order', NEW j \in DOMAIN order', order'[i] = order'[j]
               PROVE  i = j
    BY DEF Distinct
  <2>1. /\ Len(order') = Len(order) + Len(found)
        /\ i \in 1 .. Len(order') /\ j \in 1 .. Len(order')
        /\ Len(order) \in Nat /\ Len(found) \in Nat
    BY <1>1, <1>2, <1>3, <1>4
  <2>2. \A k \in 1 .. Len(order') :
          \/ k \in DOMAIN order /\ order'[k] = order[k]
          \/ k - Len(order) \in DOMAIN found /\ order'[k] = found[k - Len(order)]
    BY <1>1, <1>2, <1>3, <2>1
  <2>3. i \in DOMAIN order /\ order'[i] = order[i]
          => j \in DOMAIN order /\ order'[j] = order[j]
    BY <1>5, <2>1, <2>2
  <2>4. CASE i \in DOMAIN order /\ order'[i] = order[i]
    BY <2>3, <2>4 DEF Distinct
  <2>5. CASE i - Len(order) \in DOMAIN found /\ order'[i] = found[i - Len(order)]
    <3>1. j - Len(order) \in DOMAIN found /\ order'[j] = found[j - Len(order)]
      BY <1>5, <2>1, <2>2, <2>5
    <3>2. i - Len(order) = j - Len(order)
      BY <1>3, <2>5, <3>1 DEF Distinct
    <3> QED
      BY <2>1, <3>2
  <2> QED
    BY <2>1, <2>2, <2>4, <2>5
<1>7. pos' \in {0, 1} /\ pos' \in 0 .. Len(order')
  BY <1>4, EmptySeq DEF StartPass
<1> QED
  BY <1>4, <1>6, <1>7

\* The defaults are values of their fields (state.rs CockpitState::default).
LEMMA Defaults ==
  /\ DOMAIN DefaultState = Switches \cup Common
  /\ \A f \in Switches \cup Common : DefaultState[f] \in Values(f)
  BY DEF DefaultState, Values, Switches, Common, Seats

\* Every dataref feeds a field.
LEMMA Fields ==
  ASSUME NEW r \in DataRefs
  PROVE  /\ r.field \in Switches \cup Common
         /\ r = [field |-> r.field, side |-> r.side]
         /\ r.side = "Any" <=> r.field \in Common
         /\ r.side # "Any" => r.side \in Seats /\ r.field \in Switches
         /\ Switches \cap Common = {}
         /\ "seat" \in Common
  BY ConstantsAssumption DEF Switches, Common, Seats

\* update_from_float keeps every field in its type.
LEMMA UpdateTypes ==
  ASSUME TypeOK, NEW r \in DataRefs, NEW v \in Shown(r), cs' = Update(r, v)
  PROVE  /\ DOMAIN cs' = Switches \cup Common
         /\ \A f \in Switches \cup Common : cs'[f] \in Values(f)
<1>1. v # Unknown => v \in Values(r.field)
  BY DEF Shown
<1>2. r.field \in Switches \cup Common
  BY Fields
<1> QED
  BY <1>1, <1>2 DEF Update, TypeOK

\* The dataref about to be read, and the place of the next one.
LEMMA ReadPlace ==
  ASSUME TypeOK, pos # 0
  PROVE  /\ pos \in DOMAIN order
         /\ order[pos] \in DataRefs
         /\ sim[order[pos]] \in Shown(order[pos])
         /\ Advance => pos' \in 0 .. Len(order)
  BY DEF TypeOK, Advance

LEMMA TypeInit == Init => TypeOK /\ Distinct(order)
<1> SUFFICES ASSUME Init PROVE TypeOK /\ Distinct(order)
  OBVIOUS
<1>1. order \in Seq(DataRefs) /\ Distinct(order)
  <2>1. CASE Plugin
    <3>1. order \in Seq(setup.existing) /\ Distinct(order)
      BY <2>1, ListingsAreSequences DEF Init
    <3> QED
      BY <3>1, ExistingAreDataRefs DEF Init
  <2>2. CASE ~Plugin
    BY <2>2 DEF Init, Distinct
  <2> QED
    BY <2>1, <2>2
<1>2. \A r \in DataRefs : sim[r] \in Shown(r)
  <2> SUFFICES ASSUME NEW r \in DataRefs PROVE sim[r] \in Shown(r)
    OBVIOUS
  <2>1. CASE r = Seat
    BY <2>1 DEF Init, Shown, Values, Seat, Ref
  <2>2. CASE r # Seat
    BY <2>2, Fields, Defaults DEF Init, Shown
  <2> QED
    BY <2>1, <2>2
<1>3. left \in [Events -> Nat] /\ discovered \in BOOLEAN
  BY ConstantsAssumption DEF Init, Plugin
<1>4. pos \in 0 .. Len(order)
  BY <1>1 DEF Init
<1> QED
  BY <1>1, <1>2, <1>3, <1>4, Defaults DEF Init, TypeOK

LEMMA TypeStep == TypeOK /\ Distinct(order) /\ [Next]_vars => TypeOK' /\ Distinct(order')
<1> SUFFICES ASSUME TypeOK, Distinct(order), [Next]_vars
             PROVE  TypeOK' /\ Distinct(order')
  OBVIOUS
<1> USE DEF poller, clients
<1>1. \A event \in Events : Spend(event) => left' \in [Events -> Nat]
  BY DEF TypeOK, Spend
<1>0. CASE Discover
  <2>1. order' \in Seq(DataRefs) /\ Distinct(order')
    <3>1. CASE order' \in Listings(setup.existing)
      <4>1. order' \in Seq(setup.existing) /\ Distinct(order')
        BY <3>1, ListingsAreSequences
      <4> QED
        BY <4>1, ExistingAreDataRefs DEF TypeOK
    <3>2. CASE order' = order
      BY <3>2 DEF TypeOK
    <3> QED
      BY <1>0, <3>1, <3>2 DEF Discover
  <2>2. pos' = 0 /\ pos' \in 0 .. Len(order') /\ discovered' \in BOOLEAN
    <3>1. pos' = 0 /\ discovered' \in BOOLEAN
      BY <1>0 DEF Discover, TypeOK
    <3> QED
      BY <2>1, <3>1
  <2>3. left' \in [Events -> Nat]
    BY <1>0, <1>1 DEF Discover, Events, TypeOK
  <2>4. UNCHANGED <<setup, pos, sim, cs, seen, crypt, transmitting, last>>
    BY <1>0 DEF Discover
  <2> QED
    BY <2>1, <2>2, <2>3, <2>4 DEF TypeOK
<1>2. CASE StartPass
  BY <1>2, PassOrder DEF StartPass, TypeOK
<1>3. CASE Read
  <2>1. /\ DOMAIN cs' = Switches \cup Common
        /\ \A f \in Switches \cup Common : cs'[f] \in Values(f)
    BY <1>3, ReadPlace, UpdateTypes DEF Read
  <2>2. /\ DOMAIN seen' = DataRefs
        /\ \A r \in DataRefs : seen'[r] \in Shown(r) \cup {Unread}
    BY <1>3, ReadPlace DEF Read, TypeOK
  <2>3. pos' \in 0 .. Len(order)
    BY <1>3, ReadPlace DEF Read
  <2> QED
    BY <1>3, <2>1, <2>2, <2>3 DEF Read, TypeOK
<1>4. CASE ReadFails
  <2>1. left' \in [Events -> Nat] /\ pos' \in 0 .. Len(order)
    BY <1>1, <1>4, ReadPlace DEF ReadFails, Events
  <2> QED
    BY <1>4, <2>1 DEF ReadFails, TypeOK
<1>5. ASSUME NEW c \in Clients, CryptSetup(c) PROVE TypeOK' /\ Distinct(order')
  BY <1>5 DEF CryptSetup, TypeOK
<1>6. ASSUME NEW c \in Clients, MicFrame(c) PROVE TypeOK' /\ Distinct(order')
  <2>1. /\ UNCHANGED <<sim, poller, cs, seen, crypt, left>>
        /\ transmitting' \in {transmitting \cup {c}, transmitting \ {c}}
        /\ last' \in {[last EXCEPT ![c] = "voice"], [last EXCEPT ![c] = "end"]}
        /\ c \in crypt
    BY <1>6 DEF MicFrame
  <2> QED
    BY <2>1 DEF TypeOK
<1>7. CASE Change
  <2>1. left' \in [Events -> Nat]
    BY <1>1, <1>7 DEF Change, Events
  <2>2. PICK r \in DataRefs : \E v \in Shown(r) \ {sim[r]} : sim' = [sim EXCEPT ![r] = v]
    BY <1>7, ExistingAreDataRefs DEF Change, TypeOK
  <2>3. \A q \in DataRefs : sim'[q] \in Shown(q)
    BY <2>2 DEF TypeOK
  <2> QED
    BY <1>7, <2>1, <2>3 DEF Change, TypeOK
<1>8. CASE Reconnect
  <2>1. left' \in [Events -> Nat]
    BY <1>1, <1>8 DEF Reconnect, Events
  <2> QED
    BY <1>8, <2>1, Defaults DEF Reconnect, TypeOK
<1>9. CASE UNCHANGED vars
  BY <1>9 DEF vars, TypeOK
<1> QED
  BY <1>0, <1>2, <1>3, <1>4, <1>5, <1>6, <1>7, <1>8, <1>9 DEF Next, Poller, Frames

\* Spec => []TypeOK: no value without a meaning enters CockpitState (state.rs
\* from_int, update_from_float), and only clients with a crypt state transmit.
THEOREM TypeCorrect == Spec => []TypeOK
<1>1. TypeOK /\ Distinct(order) /\ [Next]_vars => TypeOK' /\ Distinct(order)'
  BY TypeStep DEF Distinct
<1> QED
  BY <1>1, TypeInit, PTL DEF Spec

----------------------------------------------------------------------------
(* Passes.                                                                 *)

\* Reading the seat leaves what was read before it in force: it belongs to no seat.
LEMMA ReadSeat ==
  ASSUME TypeOK, Distinct(order), SeatFirst, Read, order[pos] = Seat,
         NEW i \in DOMAIN order, i < pos, InForce(order[i])
  PROVE  InForce(order[i])'
<1> DEFINE r == order[i]
<1>1. pos \in DOMAIN order /\ r \in DataRefs /\ order' = order /\ pos \in Nat /\ i \in Nat
  BY DEF TypeOK, Read
<1>2. r.side = "Any"
  BY <1>1 DEF SeatFirst
<1>3. r # Seat
  BY <1>1 DEF Distinct
<1>4. r.field # "seat" /\ r.field \in Switches \cup Common
  BY <1>1, <1>2, <1>3, Fields DEF Seat, Ref
<1>5. cs' \in {[cs EXCEPT !["seat"] = sim[Seat]], cs}
  BY DEF Read, Update, Seat, Ref
<1>6. cs'[r.field] = cs[r.field] /\ seen'[r] = seen[r]
  BY <1>1, <1>3, <1>4, <1>5 DEF Read, TypeOK
<1> QED
  BY <1>1, <1>2, <1>6 DEF InForce, Owns

\* Reading anything else leaves the seat, and so what was read before, alone: a
\* switch of the same name belongs to the other seat (state.rs owns).
LEMMA ReadOther ==
  ASSUME TypeOK, Distinct(order), Read, order[pos] # Seat,
         NEW i \in DOMAIN order, i < pos, InForce(order[i])
  PROVE  InForce(order[i])'
<1> DEFINE r == order[i]
           q == order[pos]
<1>1. /\ pos \in DOMAIN order /\ r \in DataRefs /\ q \in DataRefs
      /\ order' = order /\ pos \in Nat /\ i \in Nat
  BY DEF TypeOK, Read
<1>2. r # q
  BY <1>1 DEF Distinct
<1>3. q.field # "seat"
  BY <1>1, Fields DEF Seat, Ref
<1>4. cs'["seat"] = cs["seat"]
  BY <1>1, <1>3, Fields DEF Read, Update, TypeOK
<1>5. seen'[r] = seen[r] /\ (Owns(r)' <=> Owns(r))
  BY <1>1, <1>2, <1>4 DEF Read, TypeOK, Owns
<1>6. Owns(r) /\ Owns(q) => r.field # q.field
  BY <1>1, <1>2, Fields DEF Owns
<1>7. Owns(r) => cs'[r.field] = cs[r.field]
  BY <1>1, <1>6, Fields DEF Read, Update, TypeOK
<1> QED
  BY <1>1, <1>5, <1>7 DEF InForce, Owns

\* What has just been read is in force.
LEMMA ReadIsInForce ==
  ASSUME TypeOK, Read, NEW q \in DataRefs, q = order[pos]
  PROVE  InForce(q)'
<1>1. seen'[q] = sim[q] /\ cs' = Update(q, sim[q])
  BY DEF Read, TypeOK
<1>2. q.field \in DOMAIN cs
  BY Fields DEF TypeOK
<1>3. q.field = "seat" => q.side = "Any"
  BY Fields
<1>4. Owns(q)' /\ sim[q] # Unknown => Owns(q)
  BY <1>1, <1>2, <1>3 DEF Owns, Update
<1>5. Owns(q) /\ sim[q] # Unknown => cs'[q.field] = sim[q]
  BY <1>1, <1>2 DEF Update
<1> QED
  BY <1>1, <1>4, <1>5 DEF InForce

LEMMA ReadInvStep == IInv /\ [Next]_vars => ReadInv'
<1> SUFFICES ASSUME IInv, [Next]_vars PROVE ReadInv'
  OBVIOUS
<1> USE DEF poller, clients
<1>1. TypeOK /\ Distinct(order) /\ ReadInv
  BY DEF IInv
<1>0. CASE Discover
  BY <1>0 DEF Discover, ReadInv, Plugin
<1>2. CASE StartPass
  <2>1. order' \in Seq(DataRefs) /\ pos' \in {0, 1} /\ pos' \in 0 .. Len(order')
    BY <1>1, <1>2, PassOrder
  <2>2. pos' = 0 => order' = <<>>
    BY <1>2 DEF StartPass
  <2>3. \A i \in DOMAIN order' : ~(pos' = 0 \/ i < pos')
    BY <2>1, <2>2
  <2> QED
    BY <2>3 DEF ReadInv
<1>3. CASE Read
  <2> SUFFICES ASSUME Plugin', SeatFirst', NEW i \in DOMAIN order', pos' = 0 \/ i < pos'
               PROVE  InForce(order[i])'
    BY DEF ReadInv
  <2>1. order' = order /\ SeatFirst /\ i \in DOMAIN order /\ Plugin
    BY <1>3 DEF Read, SeatFirst, Plugin
  <2>2. /\ pos \in DOMAIN order /\ pos \in Nat /\ i \in Nat
        /\ i < pos \/ i = pos
    BY <1>1, <1>3, <2>1 DEF Read, Advance, TypeOK
  <2>3. CASE i = pos
    <3>1. order[i] \in DataRefs /\ order[i]' = order[i]
      BY <1>1, <2>1, <2>2, <2>3 DEF TypeOK
    <3> QED
      BY <1>1, <1>3, <2>3, <3>1, ReadIsInForce
  <2>4. CASE i < pos
    <3>1. InForce(order[i])
      BY <1>1, <2>1, <2>4 DEF ReadInv
    <3> QED
      BY <1>1, <1>3, <2>1, <2>4, <3>1, ReadSeat, ReadOther
  <2> QED
    BY <2>2, <2>3, <2>4
<1>4. CASE ReadFails
  BY <1>4 DEF ReadFails, ReadInv, Plugin
<1>5. CASE Frames \/ Change \/ UNCHANGED vars
  <2>1. UNCHANGED <<poller, cs, seen>>
    BY <1>5 DEF Frames, CryptSetup, MicFrame, Change, vars
  <2> QED
    BY <1>1, <2>1 DEF ReadInv, SeatFirst, InForce, Owns, Plugin
<1>6. CASE Reconnect
  <2>1. order' = order /\ setup' = setup
    BY <1>6 DEF Reconnect
  <2>2. \A i \in DOMAIN order : seen'[order[i]] = Unread
    BY <1>1, <1>6 DEF Reconnect, TypeOK
  <2> QED
    BY <2>1, <2>2 DEF ReadInv, InForce
<1> QED
  BY <1>0, <1>2, <1>3, <1>4, <1>5, <1>6 DEF Next, Poller

\* Spec => []PassExact: the state a client finds is one seat's, as one pass of the
\* plugin read it, for any set of datarefs and however many are resolved late
\* (lib.rs retry_pending_datarefs, poll_datarefs; state.rs owns).
THEOREM PassesAreExact == Spec => []PassExact
<1>1. Init => IInv
  <2> SUFFICES ASSUME Init PROVE IInv
    OBVIOUS
  <2>1. TypeOK /\ Distinct(order)
    BY TypeInit
  <2>2. \A i \in DOMAIN order : seen[order[i]] = Unread
    BY <2>1 DEF Init, TypeOK
  <2> QED
    BY <2>1, <2>2 DEF IInv, ReadInv, InForce
<1>2. IInv /\ [Next]_vars => IInv'
  BY TypeStep, ReadInvStep DEF IInv, Distinct
<1>3. IInv => PassExact
  BY DEF IInv, ReadInv, PassExact, Resolved
<1> QED
  BY <1>1, <1>2, <1>3, PTL DEF Spec

=============================================================================
