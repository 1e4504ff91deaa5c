------------------------ MODULE DeviceRegistryProofs ------------------------
(* Proofs about DeviceRegistry for every set of devices and subscribers and  *)
(* every value of the bounds.                                                *)
EXTENDS DeviceRegistry, SequenceTheorems, TLAPS

\* Before the enumeration there are no objects.
Blank ==
    pc \in {"services", "devices"} =>
        \A d \in Devices : reg[d] = 0 /\ built[d] = 0

\* The registered object has been built; a device whose services are being
\* fetched is not registered, one that is being announced is, and there is only
\* one of them.
Numbering ==
    /\ \A d \in Devices : reg[d] <= built[d] /\ helper[d] <= built[d]
    /\ \A m, n \in new : m = n
    /\ pc = "fetch" => \A n \in new : ~Known(n[1])
    /\ pc = "announce" => \A n \in new : Known(n[1])

\* What is registered is complete, and what the helper lists is of a model it
\* supports.
Listing ==
    \A d \in Devices :
        /\ Known(d) => d \in services /\ (d \in Listed => helper[d] = reg[d])
        /\ helper[d] # 0 => d \in Listed

IInv == TypeOK /\ Blank /\ Numbering /\ Listing /\ GoneIsFlagged

LEMMA EmitStep ==
  ASSUME TypeOK, NEW d \in Devices, NEW deleted \in BOOLEAN, Emit(d, deleted)
  PROVE  queue' \in Queues /\ changes' \in Nat
<1>1. Append(queue[d], deleted) \in Seq(BOOLEAN)
  BY DEF TypeOK, Queues
<1>2. queue' \in Queues
  BY <1>1 DEF Emit, TypeOK, Queues
<1>3. changes' \in Nat
  BY DEF Emit, TypeOK
<1> QED
  BY <1>2, <1>3

LEMMA AdvanceStep ==
  ASSUME TypeOK, NEW d \in Devices, Take(d), Advance(d)
  PROVE  batch' \in Queues /\ Head(batch[d]) \in BOOLEAN
<1>1. batch[d] \in Seq(BOOLEAN) /\ batch[d] # <<>>
  BY DEF TypeOK, Queues, Take
<1>2. Tail(batch[d]) \in Seq(BOOLEAN) /\ Head(batch[d]) \in BOOLEAN
  BY <1>1, HeadTailProperties
<1>3. batch' \in Queues
  BY <1>2 DEF Advance, TypeOK, Queues
<1> QED
  BY <1>2, <1>3

LEMMA EmptyQueues == Empty \in Queues
<1>1. <<>> \in Seq(BOOLEAN)
  OBVIOUS
<1> QED
  BY <1>1 DEF Empty, Queues

LEMMA DropStep ==
  ASSUME TypeOK, DropBatch
  PROVE  /\ missed' \subseteq Devices /\ batch' \in Queues
         /\ new' = {} /\ todo' = {} /\ pc' = "idle"
  BY EmptyQueues DEF DropBatch, TypeOK, DevicesIn

LEMMA FaultStep ==
  ASSUME TypeOK, Fault
  PROVE  faults' \in Nat
  BY DEF Fault, TypeOK

LEMMA RefreshStep ==
  ASSUME TypeOK, NEW d \in Devices, Known(d), Refresh(d)
  PROVE  flagged' \subseteq Objects
<1>1. Object(d) \in Objects
  BY DEF Object, Objects, Known, TypeOK
<1> QED
  BY <1>1 DEF Refresh, TypeOK
LEMMA TypeStep ==
  ASSUME TypeOK, Numbering, [Next]_vars
  PROVE  TypeOK'
<1> USE DEF shc, model, bounds
<1>1. ASSUME NEW d \in Devices, Pair(d) \/ Edit(d) \/ Unpair(d)
      PROVE  TypeOK'
  <2>1. PICK deleted \in BOOLEAN : Emit(d, deleted)
    BY <1>1 DEF Pair, Edit, Unpair
  <2>2. queue' \in Queues /\ changes' \in Nat
    BY <2>1, EmitStep
  <2>3. there' \subseteq Devices /\ kit' \subseteq Devices
    BY <1>1 DEF Pair, Edit, Unpair, TypeOK
  <2> QED
    BY <2>1, <2>2, <2>3 DEF Emit, TypeOK
<1>2. CASE Rotate
  <2>1. rotations' \in Nat /\ missed' \subseteq Devices
    BY <1>2 DEF Rotate, TypeOK, DevicesIn
  <2> QED
    BY <1>2, <2>1, EmptyQueues DEF Rotate, TypeOK
<1>3. CASE EnumerateServices
  BY <1>3 DEF EnumerateServices, TypeOK
<1>4. CASE EnumerateDevices
  <2>1. reg' \in [Devices -> Nat] /\ told' \subseteq Subscribers \X Objects
    BY <1>4 DEF EnumerateDevices, TypeOK, Objects
  <2> QED
    BY <1>4, <2>1 DEF EnumerateDevices, TypeOK
<1>5. CASE Subscribe
  <2>1. PICK snapshot \in SUBSET there :
           /\ queue' = [d \in Devices |-> IF d \in snapshot THEN <<FALSE>> ELSE <<>>]
           /\ missed' = missed \cup
                {d \in Devices : \/ Wrong(d) /\ (Known(d) \/ d \notin snapshot)
                                 \/ SaysDeleted(d) /\ d \notin snapshot}
    BY <1>5 DEF Subscribe
  <2>2. queue' \in Queues
    <3>1. <<FALSE>> \in Seq(BOOLEAN) /\ <<>> \in Seq(BOOLEAN)
      OBVIOUS
    <3> QED
      BY <2>1, <3>1 DEF Queues
  <2>3. missed' \subseteq Devices
    BY <2>1 DEF TypeOK
  <2> QED
    BY <1>5, <2>2, <2>3 DEF Subscribe, TypeOK
<1>6. CASE Poll
  BY <1>6, EmptyQueues DEF Poll, TypeOK
<1>7. ASSUME NEW d \in Devices, UpdateDevice(d)
      PROVE  TypeOK'
  <2>1. batch' \in Queues
    BY <1>7, AdvanceStep DEF UpdateDevice
  <2>2. flagged' \subseteq Objects
    BY <1>7, RefreshStep DEF UpdateDevice
  <2>3. reg' \in [Devices -> Nat] /\ services' \subseteq Devices
    BY <1>7 DEF UpdateDevice, Leave, TypeOK
  <2> QED
    BY <1>7, <2>1, <2>2, <2>3 DEF UpdateDevice, TypeOK
<1>8. ASSUME NEW d \in Devices, UpdateRaises(d)
      PROVE  TypeOK'
  <2>1. flagged' \subseteq Objects
    BY <1>8, RefreshStep DEF UpdateRaises
  <2>2. faults' \in Nat /\ cut' \subseteq Devices
    BY <1>8, FaultStep DEF UpdateRaises, TypeOK
  <2>3. DropBatch
    BY <1>8 DEF UpdateRaises
  <2> QED
    BY <1>8, <2>1, <2>2, <2>3, DropStep DEF UpdateRaises, TypeOK
<1>9. ASSUME NEW d \in Devices, NewDevice(d)
      PROVE  TypeOK'
  <2>1. batch' \in Queues /\ Head(batch[d]) \in BOOLEAN
    BY <1>9, AdvanceStep DEF NewDevice
  <2>2. new' \subseteq Devices \X BOOLEAN
    BY <1>9, <2>1 DEF NewDevice
  <2> QED
    BY <1>9, <2>1, <2>2 DEF NewDevice, TypeOK
<1>10. ASSUME NEW n \in new, AddDevice(n[1], n[2])
       PROVE  TypeOK'
  <2>1. n[1] \in Devices
    BY DEF TypeOK
  <2>2. built[n[1]] + 1 \in Nat \ {0}
    BY <2>1 DEF TypeOK
  <2>3. flagged' \subseteq Objects
    BY <1>10, <2>1, <2>2 DEF AddDevice, TypeOK, Objects
  <2>4. /\ built' \in [Devices -> Nat]
        /\ reg' \in [Devices -> Nat]
        /\ helper' \in [Devices -> Nat]
    BY <1>10, <2>2 DEF AddDevice, TypeOK
  <2> QED
    BY <1>10, <2>1, <2>3, <2>4 DEF AddDevice, Audience, TypeOK
<1>11. ASSUME NEW n \in new, SkipDevice(n[1])
       PROVE  TypeOK'
  BY <1>11 DEF SkipDevice, TypeOK
<1>12. ASSUME NEW n \in new, FetchFails(n[1])
       PROVE  TypeOK'
  <2>1. DropBatch /\ faults' \in Nat
    BY <1>12, FaultStep DEF FetchFails, TypeOK
  <2> QED
    BY <1>12, <2>1, DropStep DEF FetchFails, TypeOK
<1>13. ASSUME NEW n \in new, NEW s \in todo, Announce(n[1], s)
       PROVE  TypeOK'
  <2>1. Object(n[1]) \in Objects
    BY <1>13 DEF Announce, Numbering, Known, Object, Objects, TypeOK
  <2>2. told' \subseteq Subscribers \X Objects
    BY <1>13, <2>1 DEF Announce, TypeOK
  <2> QED
    BY <1>13, <2>2 DEF Announce, TypeOK
<1>14. ASSUME NEW n \in new, AnnounceRaises(n[1])
       PROVE  TypeOK'
  <2>1. DropBatch /\ faults' \in Nat /\ cut' \subseteq Devices
    BY <1>14, FaultStep DEF AnnounceRaises, TypeOK
  <2> QED
    BY <1>14, <2>1, DropStep DEF AnnounceRaises, TypeOK
<1>15. CASE Announced \/ EndBatch
  BY <1>15 DEF Announced, EndBatch, TypeOK
<1>16. CASE UNCHANGED vars
  BY <1>16 DEF vars, TypeOK
<1> QED
  BY <1>1, <1>2, <1>3, <1>4, <1>5, <1>6, <1>7, <1>8, <1>9, <1>10, <1>11,
     <1>12, <1>13, <1>14, <1>15, <1>16
  DEF Next, Session

LEMMA NumberingStep ==
  ASSUME IInv, [Next]_vars
  PROVE  Blank' /\ Numbering'
<1> USE DEF IInv, shc, model, bounds
<1>1. ASSUME NEW d \in Devices, Pair(d) \/ Edit(d) \/ Unpair(d)
      PROVE  Blank' /\ Numbering'
  BY <1>1 DEF Pair, Edit, Unpair, Emit, Blank, Numbering, Known
<1>2. CASE Rotate \/ Subscribe \/ Poll \/ Announced \/ EndBatch
  BY <1>2 DEF Rotate, Subscribe, Poll, Announced, EndBatch, Blank, Numbering, Known
<1>3. CASE EnumerateServices
  BY <1>3 DEF EnumerateServices, Blank, Numbering, Known
<1>4. CASE EnumerateDevices
  BY <1>4 DEF EnumerateDevices, Blank, Numbering, Known
<1>5. ASSUME NEW d \in Devices, UpdateDevice(d)
      PROVE  Blank' /\ Numbering'
  <2>1. reg' = reg \/ reg' = [reg EXCEPT ![d] = 0]
    BY <1>5 DEF UpdateDevice, Leave
  <2>2. \A e \in Devices : reg'[e] <= built'[e] /\ helper'[e] <= built'[e]
    BY <1>5, <2>1 DEF UpdateDevice, Numbering, TypeOK
  <2> QED
    BY <1>5, <2>2 DEF UpdateDevice, Take, Blank, Numbering
<1>6. ASSUME NEW d \in Devices, UpdateRaises(d)
      PROVE  Blank' /\ Numbering'
  BY <1>6 DEF UpdateRaises, DropBatch, Blank, Numbering, Known
<1>7. ASSUME NEW d \in Devices, NewDevice(d)
      PROVE  Blank' /\ Numbering'
  BY <1>7 DEF NewDevice, Blank, Numbering, Known
<1>8. ASSUME NEW n \in new, AddDevice(n[1], n[2])
      PROVE  Blank' /\ Numbering'
  <2>1. n[1] \in Devices /\ built[n[1]] \in Nat
    BY DEF TypeOK
  <2>2. \A e \in Devices : reg'[e] <= built'[e]
    BY <1>8, <2>1 DEF AddDevice, Numbering, TypeOK
  <2>5. \A e \in Devices : helper'[e] <= built'[e]
    BY <1>8, <2>1 DEF AddDevice, Numbering, TypeOK
  <2>3. \A m \in new' : m = n
    BY <1>8 DEF AddDevice, Numbering
  <2>4. Known(n[1])'
    BY <1>8, <2>1 DEF AddDevice, Known, TypeOK
  <2> QED
    BY <1>8, <2>2, <2>3, <2>4, <2>5 DEF AddDevice, Blank, Numbering
<1>9. ASSUME NEW n \in new, SkipDevice(n[1]) \/ FetchFails(n[1]) \/ AnnounceRaises(n[1])
      PROVE  Blank' /\ Numbering'
  BY <1>9 DEF SkipDevice, FetchFails, AnnounceRaises, DropBatch, Blank, Numbering, Known
<1>10. ASSUME NEW n \in new, NEW s \in todo, Announce(n[1], s)
       PROVE  Blank' /\ Numbering'
  BY <1>10 DEF Announce, Blank, Numbering, Known
<1>11. CASE UNCHANGED vars
  BY <1>11 DEF vars, Blank, Numbering, Known
<1> QED
  BY <1>1, <1>2, <1>3, <1>4, <1>5, <1>6, <1>7, <1>8, <1>9, <1>10, <1>11
  DEF Next, Session

LEMMA CompleteStep ==
  ASSUME IInv, [Next]_vars
  PROVE  Listing'
<1> USE DEF IInv, shc, model, bounds, Listing, Known
<1>1. ASSUME NEW d \in Devices, Pair(d) \/ Edit(d) \/ Unpair(d)
      PROVE  Listing'
  BY <1>1 DEF Pair, Edit, Unpair, Emit
<1>2. CASE Rotate \/ Subscribe \/ Poll \/ Announced \/ EndBatch
  BY <1>2 DEF Rotate, Subscribe, Poll, Announced, EndBatch
<1>3. CASE EnumerateServices
  BY <1>3 DEF EnumerateServices, Blank
<1>4. CASE EnumerateDevices
  BY <1>4 DEF EnumerateDevices
<1>5. ASSUME NEW d \in Devices, UpdateDevice(d)
      PROVE  Listing'
  <2>1. \/ reg' = [reg EXCEPT ![d] = 0] /\ services' = services \ {d}
        \/ UNCHANGED <<reg, services>>
    BY <1>5 DEF UpdateDevice, Leave
  <2>2. UNCHANGED helper
    BY <1>5 DEF UpdateDevice
  <2> QED
    BY <2>1, <2>2 DEF TypeOK
<1>6. ASSUME NEW d \in Devices, UpdateRaises(d)
      PROVE  Listing'
  BY <1>6 DEF UpdateRaises
<1>7. ASSUME NEW d \in Devices, NewDevice(d)
      PROVE  Listing'
  BY <1>7 DEF NewDevice
<1>8. ASSUME NEW n \in new, AddDevice(n[1], n[2])
      PROVE  Listing'
  <2>1. n[1] \in Devices
    BY DEF TypeOK
  <2> QED
    BY <1>8, <2>1 DEF AddDevice, TypeOK
<1>9. ASSUME NEW n \in new, SkipDevice(n[1]) \/ FetchFails(n[1]) \/ AnnounceRaises(n[1])
      PROVE  Listing'
  BY <1>9 DEF SkipDevice, FetchFails, AnnounceRaises
<1>10. ASSUME NEW n \in new, NEW s \in todo, Announce(n[1], s)
       PROVE  Listing'
  BY <1>10 DEF Announce
<1>11. CASE UNCHANGED vars
  BY <1>11 DEF vars
<1> QED
  BY <1>1, <1>2, <1>3, <1>4, <1>5, <1>6, <1>7, <1>8, <1>9, <1>10, <1>11
  DEF Next, Session

\* An object loses its flag only by an event for the registered object, which
\* is the one the property makes no statement about.
LEMMA FlagStep ==
  ASSUME IInv, NEW d \in Devices, Known(d), Refresh(d), Leave(d), UNCHANGED built
  PROVE  GoneIsFlagged'
<1> SUFFICES ASSUME NEW e \in Devices, NEW k \in 1 .. built[e], k # reg'[e]
             PROVE  <<e, k>> \in flagged'
  BY DEF GoneIsFlagged
<1>1. CASE e = d /\ k = reg[d]
  BY <1>1 DEF IInv, TypeOK, Refresh, Leave, Object
<1>2. CASE ~(e = d /\ k = reg[d])
  <2>1. k # reg[e]
    BY <1>2 DEF IInv, TypeOK, Leave, Known
  <2>2. <<e, k>> \in flagged
    BY <2>1 DEF IInv, GoneIsFlagged
  <2> QED
    BY <1>2, <2>2 DEF Refresh, Object
<1> QED
  BY <1>1, <1>2

LEMMA GoneStep ==
  ASSUME IInv, [Next]_vars
  PROVE  GoneIsFlagged'
<1> USE DEF IInv, shc, model, bounds
<1>1. ASSUME NEW d \in Devices, Pair(d) \/ Edit(d) \/ Unpair(d)
      PROVE  GoneIsFlagged'
  BY <1>1 DEF Pair, Edit, Unpair, Emit, GoneIsFlagged
<1>2. CASE Rotate \/ Subscribe \/ Poll \/ Announced \/ EndBatch \/ EnumerateServices
  BY <1>2 DEF Rotate, Subscribe, Poll, Announced, EndBatch, EnumerateServices, GoneIsFlagged
<1>3. CASE EnumerateDevices
  BY <1>3 DEF EnumerateDevices, GoneIsFlagged
<1>4. ASSUME NEW d \in Devices, UpdateDevice(d)
      PROVE  GoneIsFlagged'
  BY <1>4, FlagStep DEF UpdateDevice
<1>5. ASSUME NEW d \in Devices, UpdateRaises(d)
      PROVE  GoneIsFlagged'
  BY <1>5 DEF UpdateRaises, Refresh, Object, GoneIsFlagged
<1>6. ASSUME NEW d \in Devices, NewDevice(d)
      PROVE  GoneIsFlagged'
  BY <1>6 DEF NewDevice, GoneIsFlagged
<1>7. ASSUME NEW n \in new, AddDevice(n[1], n[2])
      PROVE  GoneIsFlagged'
  <2>1. n[1] \in Devices /\ reg[n[1]] = 0 /\ built[n[1]] \in Nat
    BY <1>7 DEF AddDevice, Numbering, Known, TypeOK
  <2>2. flagged \subseteq flagged'
    BY <1>7 DEF AddDevice
  <2> SUFFICES ASSUME NEW e \in Devices, NEW k \in 1 .. built'[e], k # reg'[e]
               PROVE  <<e, k>> \in flagged
    BY <2>2 DEF GoneIsFlagged
  <2>3. k \in 1 .. built[e] /\ k # reg[e]
    BY <1>7, <2>1 DEF AddDevice, TypeOK
  <2> QED
    BY <2>3 DEF GoneIsFlagged
<1>8. ASSUME NEW n \in new, SkipDevice(n[1]) \/ FetchFails(n[1]) \/ AnnounceRaises(n[1])
      PROVE  GoneIsFlagged'
  BY <1>8 DEF SkipDevice, FetchFails, AnnounceRaises, GoneIsFlagged
<1>9. ASSUME NEW n \in new, NEW s \in todo, Announce(n[1], s)
      PROVE  GoneIsFlagged'
  BY <1>9 DEF Announce, GoneIsFlagged
<1>10. CASE UNCHANGED vars
  BY <1>10 DEF vars, GoneIsFlagged
<1> QED
  BY <1>1, <1>2, <1>3, <1>4, <1>5, <1>6, <1>7, <1>8, <1>9, <1>10
  DEF Next, Session

-----------------------------------------------------------------------------
(* What the session is told, and when.  The three properties that remain     *)
(* compare the session with the SHC, so their invariant follows the events   *)
(* of a device from the SHC's queue through the batch to the new object.     *)

Final(events) == events[Len(events)]

\* One of the events says that the device is deleted.
Deleting(events) == \E i \in 1 .. Len(events) : events[i]

\* Nothing is polled before the enumeration is over, a batch is handled to its
\* end before the next is asked for, and there is a new device only while it
\* is being added.
Phases ==
    /\ kit \subseteq there
    /\ pc \in {"services", "devices"} => ~live
    /\ pc \in {"services", "devices", "idle"} => batch = Empty
    /\ pc \notin {"fetch", "announce"} => new = {}

\* Only objects that have been built are flagged: the next one starts without.
FlagsAreBuilt ==
    \A d \in Devices, k \in Nat : <<d, k>> \in flagged => k <= built[d]

\* The last event on its way for a device says whether it is paired.
LastWordOf(d) ==
    live =>
        /\ queue[d] # <<>> => (Final(queue[d]) <=> d \notin there)
        /\ queue[d] = <<>> /\ batch[d] # <<>> => (Final(batch[d]) <=> d \notin there)
        /\ queue[d] = <<>> /\ batch[d] = <<>> =>
              \A n \in new : n[1] = d => (n[2] <=> d \notin there)

LastWord == \A d \in Devices : LastWordOf(d)

\* A device the session should forget has a deletion on its way ...
LeavesSoon(d) ==
    live /\ d \notin missed /\ Known(d) /\ d \notin kit =>
        Deleting(queue[d]) \/ Deleting(batch[d])

\* ... and one it should know has an event, whichever, or is being fetched.
IsFoundSoon(d) ==
    live /\ d \notin missed /\ ~Known(d) /\ d \in kit => Pending(d)

Converging == \A d \in Devices : LeavesSoon(d) /\ IsFoundSoon(d)

Course == Phases /\ FlagsAreBuilt /\ LastWord /\ Converging

Whole == IInv /\ Course /\ RegisteredIsNotFlagged /\ EveryoneTold

LEMMA AppendWord ==
  ASSUME NEW q \in Seq(BOOLEAN), NEW b \in BOOLEAN
  PROVE  /\ Append(q, b) # <<>>
         /\ Final(Append(q, b)) <=> b
         /\ Deleting(q) \/ b => Deleting(Append(q, b))
<1>1. /\ Append(q, b) # <<>>
      /\ Len(Append(q, b)) = Len(q) + 1
      /\ \A i \in 1 .. Len(q) : Append(q, b)[i] = q[i]
      /\ Append(q, b)[Len(q) + 1] = b
      /\ Len(q) \in Nat
  BY AppendProperties, LenProperties
<1>2. Final(Append(q, b)) = b
  BY <1>1 DEF Final
<1>3. ASSUME Deleting(q)
      PROVE  Deleting(Append(q, b))
  <2>1. PICK i \in 1 .. Len(q) : q[i]
    BY <1>3 DEF Deleting
  <2>2. i \in 1 .. Len(Append(q, b)) /\ Append(q, b)[i]
    BY <1>1, <2>1
  <2> QED
    BY <2>2 DEF Deleting
<1>4. ASSUME b
      PROVE  Deleting(Append(q, b))
  <2>1. Len(q) + 1 \in 1 .. Len(Append(q, b))
    BY <1>1
  <2>2. Append(q, b)[Len(q) + 1]
    BY <1>1, <1>4
  <2> QED
    BY <2>1, <2>2 DEF Deleting
<1> QED
  BY <1>1, <1>2, <1>3, <1>4

LEMMA TailWord ==
  ASSUME NEW q \in Seq(BOOLEAN), q # <<>>
  PROVE  /\ Tail(q) # <<>> => (Final(Tail(q)) <=> Final(q))
         /\ Tail(q) = <<>> => (Head(q) <=> Final(q))
         /\ Deleting(q) /\ ~Head(q) => Deleting(Tail(q))
<1>1. /\ Tail(q) \in Seq(BOOLEAN)
      /\ Len(Tail(q)) = Len(q) - 1
      /\ \A i \in 1 .. Len(Tail(q)) : Tail(q)[i] = q[i + 1]
      /\ Len(q) \in Nat
  BY HeadTailProperties, LenProperties
<1>2. Head(q) = q[1]
  OBVIOUS
<1>3. ASSUME Tail(q) # <<>>
      PROVE  Final(Tail(q)) = Final(q)
  <2>1. Len(Tail(q)) # 0
    BY <1>1, <1>3, EmptySeq
  <2>2. Len(Tail(q)) \in 1 .. Len(Tail(q)) /\ Len(Tail(q)) + 1 = Len(q)
    BY <1>1, <2>1
  <2> QED
    BY <1>1, <2>2 DEF Final
<1>4. ASSUME Tail(q) = <<>>
      PROVE  Head(q) = Final(q)
  <2>1. Len(Tail(q)) = 0
    BY <1>1, <1>4, EmptySeq
  <2>2. ASSUME NEW m, NEW n \in Nat, m = n - 1, m = 0
        PROVE  n = 1
    BY <2>2
  <2>3. Len(q) = 1
    BY <1>1, <2>1, <2>2, Zenon
  <2> QED
    BY <1>2, <2>3 DEF Final
<1>5. ASSUME Deleting(q), ~Head(q)
      PROVE  Deleting(Tail(q))
  <2>1. PICK i \in 1 .. Len(q) : q[i]
    BY <1>5 DEF Deleting
  <2>2. i # 1
    BY <1>2, <1>5, <2>1
  <2>3. i - 1 \in 1 .. Len(Tail(q)) /\ i = (i - 1) + 1
    BY <1>1, <2>2
  <2>4. Tail(q)[i - 1]
    BY <1>1, <2>1, <2>3
  <2> QED
    BY <2>3, <2>4 DEF Deleting
<1> QED
  BY <1>3, <1>4, <1>5

\* The effect of an event on the queue of a valid subscription.
LEMMA Emitted ==
  ASSUME TypeOK, NEW d \in Devices, NEW deleted \in BOOLEAN, Emit(d, deleted), live
  PROVE  /\ queue'[d] # <<>>
         /\ Final(queue'[d]) <=> deleted
         /\ Deleting(queue[d]) \/ deleted => Deleting(queue'[d])
         /\ \A e \in Devices : e # d => queue'[e] = queue[e]
<1>1. queue[d] \in Seq(BOOLEAN) /\ queue'[d] = Append(queue[d], deleted)
  BY DEF Emit, TypeOK, Queues
<1>2. \A e \in Devices : e # d => queue'[e] = queue[e]
  BY DEF Emit, TypeOK, Queues
<1> QED
  BY <1>1, <1>2, AppendWord

\* The effect of taking an event from the batch.
LEMMA Taken ==
  ASSUME TypeOK, NEW d \in Devices, Take(d), Advance(d)
  PROVE  /\ batch'[d] # <<>> => (Final(batch'[d]) <=> Final(batch[d]))
         /\ batch'[d] = <<>> => (Head(batch[d]) <=> Final(batch[d]))
         /\ Deleting(batch[d]) /\ ~Head(batch[d]) => Deleting(batch'[d])
         /\ \A e \in Devices : e # d => batch'[e] = batch[e]
<1>1. batch[d] \in Seq(BOOLEAN) /\ batch[d] # <<>> /\ batch'[d] = Tail(batch[d])
  BY DEF Take, Advance, TypeOK, Queues
<1>2. \A e \in Devices : e # d => batch'[e] = batch[e]
  BY DEF Advance, TypeOK, Queues
<1> QED
  BY <1>1, <1>2, TailWord

LEMMA NothingDeletes == ~Deleting(<<>>)
<1>1. Len(<<>>) = 0
  OBVIOUS
<1> QED
  BY <1>1 DEF Deleting

\* What an exception in the middle of a batch leaves of it.
LEMMA Dropped ==
  ASSUME DropBatch
  PROVE  /\ \A d \in Devices : batch'[d] = <<>>
         /\ new' = {} /\ pc' = "idle" /\ batch' = Empty
         /\ missed \subseteq missed'
         /\ \A d \in Devices : batch[d] # <<>> => d \in missed'
         /\ \A n \in new : n[1] \in missed'
  BY DEF DropBatch, Empty, DevicesIn

LEMMA PhasesStep ==
  ASSUME IInv, Phases, [Next]_vars
  PROVE  Phases'
<1> USE DEF Phases, shc, model, bounds
<1>1. ASSUME NEW d \in Devices, Pair(d) \/ Edit(d) \/ Unpair(d)
      PROVE  Phases'
  <2>1. UNCHANGED <<live, pc, batch, new>>
    BY <1>1 DEF Pair, Edit, Unpair, Emit
  <2>2. kit' \subseteq there'
    BY <1>1 DEF Pair, Edit, Unpair
  <2> QED
    BY <2>1, <2>2
<1>2. CASE Rotate \/ Subscribe \/ Poll
  BY <1>2 DEF Rotate, Subscribe, Poll
<1>12. CASE EnumerateServices \/ EnumerateDevices
  BY <1>12 DEF EnumerateServices, EnumerateDevices
<1>3. CASE Announced \/ EndBatch
  BY <1>3 DEF Announced, EndBatch
<1>4. ASSUME NEW d \in Devices, UpdateDevice(d)
      PROVE  Phases'
  BY <1>4 DEF UpdateDevice, Take
<1>5. ASSUME NEW d \in Devices, UpdateRaises(d)
      PROVE  Phases'
  BY <1>5, Dropped DEF UpdateRaises, Take
<1>6. ASSUME NEW d \in Devices, NewDevice(d)
      PROVE  Phases'
  BY <1>6 DEF NewDevice, Take
<1>7. ASSUME NEW n \in new, AddDevice(n[1], n[2])
      PROVE  Phases'
  BY <1>7 DEF AddDevice
<1>8. ASSUME NEW n \in new, SkipDevice(n[1])
      PROVE  Phases'
  BY <1>8 DEF SkipDevice
<1>9. ASSUME NEW n \in new, FetchFails(n[1]) \/ AnnounceRaises(n[1])
      PROVE  Phases'
  BY <1>9, Dropped DEF FetchFails, AnnounceRaises
<1>10. ASSUME NEW n \in new, NEW s \in todo, Announce(n[1], s)
       PROVE  Phases'
  BY <1>10 DEF Announce
<1>11. CASE UNCHANGED vars
  BY <1>11 DEF vars
<1> QED
  BY <1>1, <1>2, <1>3, <1>4, <1>5, <1>6, <1>7, <1>8, <1>9, <1>10, <1>11,
     <1>12
  DEF Next, Session

LEMMA FlagsAreBuiltStep ==
  ASSUME IInv, FlagsAreBuilt, [Next]_vars
  PROVE  FlagsAreBuilt'
<1> USE DEF FlagsAreBuilt, shc, model, bounds
<1>1. ASSUME NEW d \in Devices, Pair(d) \/ Edit(d) \/ Unpair(d)
      PROVE  FlagsAreBuilt'
  BY <1>1 DEF Pair, Edit, Unpair, Emit
<1>2. CASE Rotate \/ Subscribe \/ Poll \/ EnumerateServices \/ Announced \/ EndBatch
  BY <1>2 DEF Rotate, Subscribe, Poll, EnumerateServices, Announced, EndBatch
<1>3. CASE EnumerateDevices
  <2>1. \A d \in Devices : built[d] = 0 /\ built'[d] \in Nat
    BY <1>3 DEF EnumerateDevices, IInv, Blank
  <2>2. flagged' = flagged
    BY <1>3 DEF EnumerateDevices
  <2>3. ASSUME NEW d \in Devices, NEW k \in Nat, <<d, k>> \in flagged
        PROVE  k <= built'[d]
    <3>1. k <= 0
      BY <2>1, <2>3
    <3> QED
      BY <2>1, <3>1
  <2> QED
    BY <2>2, <2>3
<1>4. ASSUME NEW d \in Devices, Known(d), Refresh(d), UNCHANGED built
      PROVE  FlagsAreBuilt'
  <2>1. reg[d] <= built[d]
    BY DEF IInv, Numbering
  <2>2. flagged' \subseteq flagged \cup {<<d, reg[d]>>}
    BY <1>4 DEF Refresh, Object
  <2> QED
    BY <1>4, <2>1, <2>2
<1>5. ASSUME NEW d \in Devices, UpdateDevice(d) \/ UpdateRaises(d)
      PROVE  FlagsAreBuilt'
  BY <1>4, <1>5 DEF UpdateDevice, UpdateRaises
<1>6. ASSUME NEW d \in Devices, NewDevice(d)
      PROVE  FlagsAreBuilt'
  BY <1>6 DEF NewDevice
<1>7. ASSUME NEW n \in new, AddDevice(n[1], n[2])
      PROVE  FlagsAreBuilt'
  <2>1. n[1] \in Devices /\ built \in [Devices -> Nat]
    BY DEF IInv, TypeOK
  <2>2. /\ \A d \in Devices : built[d] <= built'[d] /\ built'[d] \in Nat
        /\ built'[n[1]] = built[n[1]] + 1
    BY <1>7, <2>1 DEF AddDevice
  <2>3. flagged' \subseteq flagged \cup {<<n[1], built'[n[1]]>>}
    BY <1>7, <2>2 DEF AddDevice
  <2>4. ASSUME NEW d \in Devices, NEW k \in Nat, <<d, k>> \in flagged
        PROVE  k <= built'[d]
    <3>1. k <= built[d] /\ built[d] \in Nat
      BY <2>1, <2>4
    <3> QED
      BY <2>2, <3>1
  <2>5. ASSUME NEW d \in Devices, NEW k \in Nat, <<d, k>> = <<n[1], built'[n[1]]>>
        PROVE  k <= built'[d]
    BY <2>2, <2>5
  <2> QED
    BY <2>3, <2>4, <2>5
<1>8. ASSUME NEW n \in new, SkipDevice(n[1]) \/ FetchFails(n[1]) \/ AnnounceRaises(n[1])
      PROVE  FlagsAreBuilt'
  BY <1>8 DEF SkipDevice, FetchFails, AnnounceRaises
<1>9. ASSUME NEW n \in new, NEW s \in todo, Announce(n[1], s)
      PROVE  FlagsAreBuilt'
  BY <1>9 DEF Announce
<1>10. CASE UNCHANGED vars
  BY <1>10 DEF vars
<1> QED
  BY <1>1, <1>2, <1>3, <1>5, <1>6, <1>7, <1>8, <1>9, <1>10
  DEF Next, Session

LEMMA LastWordStep ==
  ASSUME IInv, Phases, LastWord, [Next]_vars
  PROVE  LastWord'
<1> USE DEF shc, model, bounds
<1>0. TypeOK /\ Phases'
  BY PhasesStep DEF IInv
<1> SUFFICES ASSUME NEW e \in Devices, live'
             PROVE  LastWordOf(e)'
  BY DEF LastWord, LastWordOf
<1>a. LastWordOf(e)
  BY DEF LastWord
<1>1. ASSUME NEW d \in Devices, NEW deleted \in BOOLEAN, Emit(d, deleted),
             deleted <=> d \notin there',
             \A c \in Devices : c # d => (c \in there' <=> c \in there)
      PROVE  LastWordOf(e)'
  <2>1. live
    BY <1>1 DEF Emit
  <2>2. CASE e = d
    BY <1>0, <1>1, <2>1, <2>2, Emitted DEF LastWordOf
  <2>3. CASE e # d
    <3>1. queue'[e] = queue[e] /\ batch' = batch /\ new' = new
      BY <1>0, <1>1, <2>1, <2>3, Emitted DEF Emit
    <3>2. e \in there' <=> e \in there
      BY <1>1, <2>3
    <3> QED
      BY <1>a, <2>1, <3>1, <3>2 DEF LastWordOf
  <2> QED
    BY <2>2, <2>3
<1>2. ASSUME NEW d \in Devices, Pair(d) \/ Edit(d) \/ Unpair(d)
      PROVE  LastWordOf(e)'
  <2>1. CASE Pair(d)
    BY <1>1, <2>1 DEF Pair
  <2>2. CASE Edit(d)
    BY <1>1, <2>2 DEF Edit
  <2>3. CASE Unpair(d)
    BY <1>1, <2>3 DEF Unpair
  <2> QED
    BY <1>2, <2>1, <2>2, <2>3
<1>3. CASE Rotate
  BY <1>3 DEF Rotate
<1>4. CASE Subscribe
  <2>1. PICK snapshot \in SUBSET there :
           queue' = [d \in Devices |-> IF d \in snapshot THEN <<FALSE>> ELSE <<>>]
    BY <1>4 DEF Subscribe
  <2>2. there' = there /\ batch'[e] = <<>> /\ new' = {}
    BY <1>4 DEF Subscribe, Phases, Empty
  <2>3. CASE e \in snapshot
    <3>1. queue'[e] = <<FALSE>> /\ e \in there'
      BY <2>1, <2>2, <2>3
    <3>2. queue'[e] # <<>> /\ ~Final(queue'[e])
      BY <3>1 DEF Final
    <3> QED
      BY <3>1, <3>2 DEF LastWordOf
  <2>4. CASE e \notin snapshot
    <3>1. queue'[e] = <<>>
      BY <2>1, <2>4
    <3> QED
      BY <2>2, <3>1 DEF LastWordOf
  <2> QED
    BY <2>3, <2>4
<1>5. CASE Poll
  <2>1. queue'[e] = <<>> /\ batch'[e] = queue[e] /\ new' = {} /\ there' = there /\ live
    BY <1>5 DEF Poll, Phases, Empty
  <2> QED
    BY <1>a, <2>1 DEF LastWordOf
<1>6. CASE EnumerateServices \/ EnumerateDevices
  BY <1>a, <1>6 DEF EnumerateServices, EnumerateDevices, LastWordOf
<1>7. CASE Announced \/ EndBatch
  BY <1>a, <1>7 DEF Announced, EndBatch, LastWordOf
<1>8. ASSUME NEW d \in Devices, UpdateDevice(d)
      PROVE  LastWordOf(e)'
  <2>1. /\ Take(d) /\ Advance(d) /\ queue' = queue /\ there' = there /\ live
        /\ new' = {} /\ batch[d] # <<>>
    BY <1>8 DEF UpdateDevice, Take, Phases
  <2>2. CASE e = d
    BY <1>0, <1>a, <2>1, <2>2, Taken DEF LastWordOf
  <2>3. CASE e # d
    <3>1. batch'[e] = batch[e]
      BY <1>0, <2>1, <2>3, Taken
    <3> QED
      BY <1>a, <2>1, <3>1 DEF LastWordOf
  <2> QED
    BY <2>2, <2>3
<1>9. ASSUME NEW d \in Devices, NewDevice(d)
      PROVE  LastWordOf(e)'
  <2>1. /\ Take(d) /\ Advance(d) /\ queue' = queue /\ there' = there /\ live
        /\ new' = {<<d, Head(batch[d])>>} /\ batch[d] # <<>>
    BY <1>9 DEF NewDevice, Take
  <2>2. CASE e = d
    <3>1. \A n \in new' : n[2] = Head(batch[d])
      BY <2>1
    <3> QED
      BY <1>0, <1>a, <2>1, <2>2, <3>1, Taken DEF LastWordOf
  <2>3. CASE e # d
    <3>1. batch'[e] = batch[e]
      BY <1>0, <2>1, <2>3, Taken
    <3>2. \A n \in new' : n[1] # e
      BY <2>1, <2>3
    <3> QED
      BY <1>a, <2>1, <3>1, <3>2 DEF LastWordOf
  <2> QED
    BY <2>2, <2>3
<1>10. ASSUME DropBatch, UNCHANGED <<queue, there, live>>
       PROVE  LastWordOf(e)'
  BY <1>a, <1>10, Dropped DEF LastWordOf
<1>11. ASSUME NEW d \in Devices, UpdateRaises(d)
       PROVE  LastWordOf(e)'
  BY <1>10, <1>11 DEF UpdateRaises
<1>12. ASSUME NEW n \in new, FetchFails(n[1]) \/ AnnounceRaises(n[1])
       PROVE  LastWordOf(e)'
  BY <1>10, <1>12 DEF FetchFails, AnnounceRaises
<1>13. ASSUME NEW n \in new, AddDevice(n[1], n[2])
       PROVE  LastWordOf(e)'
  BY <1>a, <1>13 DEF AddDevice, LastWordOf
<1>14. ASSUME NEW n \in new, SkipDevice(n[1])
       PROVE  LastWordOf(e)'
  BY <1>a, <1>14 DEF SkipDevice, LastWordOf
<1>15. ASSUME NEW n \in new, NEW s \in todo, Announce(n[1], s)
       PROVE  LastWordOf(e)'
  BY <1>a, <1>15 DEF Announce, LastWordOf
<1>16. CASE UNCHANGED vars
  BY <1>a, <1>16 DEF vars, LastWordOf
<1> QED
  BY <1>2, <1>3, <1>4, <1>5, <1>6, <1>7, <1>8, <1>9, <1>11,
     <1>12, <1>13, <1>14, <1>15, <1>16
  DEF Next, Session

\* Handling the last event of a device settles what the session makes of it.
LEMMA Updated ==
  ASSUME IInv, Course, NEW d \in Devices, UpdateDevice(d), live
  PROVE  LeavesSoon(d)' /\ IsFoundSoon(d)'
<1> USE DEF Course, LastWord, shc, bounds
<1>1. /\ TypeOK /\ Take(d) /\ Advance(d) /\ Leave(d) /\ Known(d)
      /\ batch[d] # <<>> /\ new = {} /\ Phases
      /\ UNCHANGED <<queue, there, kit, live, missed>>
    BY DEF UpdateDevice, Take, IInv, Phases
<1>2. LastWordOf(d) /\ LeavesSoon(d) /\ (d \in kit => d \in there)
  BY DEF Converging, Phases
<1>3. CASE Head(batch[d])
  <2>1. ~Known(d)'
    BY <1>1, <1>3 DEF Leave, Known, TypeOK
  <2>2. ASSUME d \in kit, queue[d] = <<>>
        PROVE  batch'[d] # <<>>
    BY <1>1, <1>2, <1>3, <2>2, Taken DEF LastWordOf
  <2>3. d \in kit' => Pending(d)'
    BY <1>1, <2>2 DEF Pending, DevicesIn
  <2> QED
    BY <2>1, <2>3 DEF LeavesSoon, IsFoundSoon
<1>4. CASE ~Head(batch[d])
  <2>1. Known(d)'
    BY <1>1, <1>4 DEF Leave, Known
  <2>2. Deleting(batch[d]) => Deleting(batch'[d])
    BY <1>1, <1>4, Taken
  <2>3. LeavesSoon(d)'
    BY <1>1, <1>2, <2>2 DEF LeavesSoon
  <2> QED
    BY <2>1, <2>3 DEF IsFoundSoon
<1> QED
  BY <1>3, <1>4

\* A device of a batch that is dropped counts as missed; the rest is as before.
LEMMA DroppedConverges ==
  ASSUME IInv, Course, DropBatch, UNCHANGED <<shc, reg>>
  PROVE  Converging'
<1> SUFFICES ASSUME NEW d \in Devices, live, d \notin missed'
             PROVE  LeavesSoon(d)' /\ IsFoundSoon(d)'
  BY DEF Converging, LeavesSoon, IsFoundSoon, shc
<1>1. /\ UNCHANGED <<queue, there, kit, live, reg>>
      /\ batch[d] = <<>> /\ batch'[d] = <<>> /\ d \notin missed
      /\ \A n \in new : n[1] # d
  BY Dropped DEF shc
<1>2. LeavesSoon(d) /\ IsFoundSoon(d)
  BY DEF Course, Converging
<1>3. LeavesSoon(d)'
  BY <1>1, <1>2 DEF LeavesSoon, Known
<1>4. Pending(d) => Pending(d)'
  BY <1>1 DEF Pending, DevicesIn
<1>5. IsFoundSoon(d)'
  BY <1>1, <1>2, <1>4 DEF IsFoundSoon, Known
<1> QED
  BY <1>3, <1>5

LEMMA ConvergingStep ==
  ASSUME IInv, Course, [Next]_vars
  PROVE  Converging'
<1> USE DEF shc, model, bounds
<1>0. TypeOK /\ Phases /\ Phases' /\ LastWord
  BY PhasesStep DEF IInv, Course
<1> SUFFICES ASSUME NEW e \in Devices, live', e \notin missed'
             PROVE  LeavesSoon(e)' /\ IsFoundSoon(e)'
  BY DEF Converging, LeavesSoon, IsFoundSoon
<1>a. LeavesSoon(e) /\ IsFoundSoon(e)
  BY DEF Course, Converging
<1>b. ASSUME UNCHANGED <<kit, live, queue, reg, batch>>, e \notin missed,
             Pending(e) => Pending(e)'
      PROVE  LeavesSoon(e)' /\ IsFoundSoon(e)'
  BY <1>a, <1>b DEF LeavesSoon, IsFoundSoon, Known
<1>1. ASSUME NEW d \in Devices, NEW deleted \in BOOLEAN, Emit(d, deleted),
             d \in kit /\ d \notin kit' => deleted,
             \A c \in Devices : c # d => (c \in kit' <=> c \in kit)
      PROVE  LeavesSoon(e)' /\ IsFoundSoon(e)'
  <2>1. live /\ UNCHANGED <<reg, batch, new, pc, missed>>
    BY <1>1 DEF Emit
  <2>2. CASE e = d
    <3>1. queue'[e] # <<>> /\ (Deleting(queue[e]) \/ deleted => Deleting(queue'[e]))
      BY <1>0, <1>1, <2>1, <2>2, Emitted
    <3>2. Pending(e)'
      BY <3>1 DEF Pending, DevicesIn
    <3>3. LeavesSoon(e)'
      BY <1>a, <1>1, <2>1, <2>2, <3>1 DEF LeavesSoon, Known
    <3> QED
      BY <3>2, <3>3 DEF IsFoundSoon
  <2>3. CASE e # d
    <3>1. queue'[e] = queue[e] /\ (e \in kit' <=> e \in kit)
      BY <1>0, <1>1, <2>1, <2>3, Emitted
    <3>2. Pending(e) => Pending(e)'
      BY <2>1, <3>1 DEF Pending, DevicesIn
    <3>3. LeavesSoon(e)'
      BY <1>a, <2>1, <3>1 DEF LeavesSoon, Known
    <3>4. IsFoundSoon(e)'
      BY <1>a, <2>1, <3>1, <3>2 DEF IsFoundSoon, Known
    <3> QED
      BY <3>3, <3>4
  <2> QED
    BY <2>2, <2>3
<1>2. ASSUME NEW d \in Devices, Pair(d) \/ Edit(d) \/ Unpair(d)
      PROVE  LeavesSoon(e)' /\ IsFoundSoon(e)'
  <2>1. CASE Pair(d)
    BY <1>1, <2>1 DEF Pair
  <2>2. CASE Edit(d)
    BY <1>1, <2>2 DEF Edit
  <2>3. CASE Unpair(d)
    BY <1>1, <2>3 DEF Unpair
  <2> QED
    BY <1>2, <2>1, <2>2, <2>3
<1>3. CASE Rotate
  BY <1>3 DEF Rotate
<1>4. CASE Subscribe
  <2>1. PICK snapshot \in SUBSET there :
           /\ queue' = [d \in Devices |-> IF d \in snapshot THEN <<FALSE>> ELSE <<>>]
           /\ missed' = missed \cup
                {d \in Devices : \/ Wrong(d) /\ (Known(d) \/ d \notin snapshot)
                                 \/ SaysDeleted(d) /\ d \notin snapshot}
    BY <1>4 DEF Subscribe
  <2>2. UNCHANGED <<reg, kit, pc>> /\ (Wrong(e) => ~Known(e) /\ e \in snapshot)
    BY <1>4, <2>1 DEF Subscribe
  <2>3. e \in snapshot => queue'[e] # <<>>
    BY <2>1
  <2>4. LeavesSoon(e)'
    BY <2>2 DEF LeavesSoon, Wrong, Known
  <2>5. e \in snapshot => Pending(e)'
    BY <2>3 DEF Pending, DevicesIn
  <2>6. IsFoundSoon(e)'
    BY <2>2, <2>5 DEF IsFoundSoon, Wrong, Known
  <2> QED
    BY <2>4, <2>6
<1>5. CASE Poll
  <2>1. /\ batch'[e] = queue[e] /\ live /\ batch[e] = <<>> /\ pc = "idle"
        /\ UNCHANGED <<kit, reg, new, missed>>
    BY <1>0, <1>5 DEF Poll, Phases, Empty
  <2>2. ~Deleting(batch[e])
    BY <2>1, NothingDeletes
  <2>3. LeavesSoon(e)'
    BY <1>a, <2>1, <2>2 DEF LeavesSoon, Known
  <2>4. Pending(e) => Pending(e)'
    BY <2>1 DEF Pending, DevicesIn
  <2>5. IsFoundSoon(e)'
    BY <1>a, <2>1, <2>4 DEF IsFoundSoon, Known
  <2> QED
    BY <2>3, <2>5
<1>6. CASE EnumerateServices \/ EnumerateDevices
  BY <1>0, <1>6 DEF EnumerateServices, EnumerateDevices, Phases
<1>7. CASE Announced \/ EndBatch
  BY <1>b, <1>7 DEF Announced, EndBatch, Pending, DevicesIn
<1>8. ASSUME NEW d \in Devices, UpdateDevice(d)
      PROVE  LeavesSoon(e)' /\ IsFoundSoon(e)'
  <2>1. /\ Take(d) /\ Advance(d) /\ live /\ Leave(d)
        /\ UNCHANGED <<queue, kit, missed, new, pc>>
    BY <1>8 DEF UpdateDevice
  <2>2. CASE e = d
    BY <1>8, <2>1, <2>2, Updated
  <2>3. CASE e # d
    <3>1. batch'[e] = batch[e] /\ reg'[e] = reg[e]
      BY <1>0, <2>1, <2>3, Taken DEF Leave, TypeOK
    <3>2. Pending(e) => Pending(e)'
      BY <2>1, <3>1 DEF Pending, DevicesIn
    <3>3. LeavesSoon(e)'
      BY <1>a, <2>1, <3>1 DEF LeavesSoon, Known
    <3>4. IsFoundSoon(e)'
      BY <1>a, <2>1, <3>1, <3>2 DEF IsFoundSoon, Known
    <3> QED
      BY <3>3, <3>4
  <2> QED
    BY <2>2, <2>3
<1>9. ASSUME NEW d \in Devices, NewDevice(d)
      PROVE  LeavesSoon(e)' /\ IsFoundSoon(e)'
  <2>1. /\ Take(d) /\ Advance(d) /\ live /\ ~Known(d) /\ pc' = "fetch" /\ pc # "fetch"
        /\ UNCHANGED <<queue, kit, missed, reg>> /\ new' = {<<d, Head(batch[d])>>}
    BY <1>9 DEF NewDevice, Take
  <2>2. CASE e = d
    <3>1. ~Known(e)'
      BY <2>1, <2>2 DEF Known
    <3>2. \E n \in new' : n[1] = e
      BY <2>1, <2>2
    <3>3. Pending(e)'
      BY <2>1, <3>2 DEF Pending
    <3> QED
      BY <3>1, <3>3 DEF LeavesSoon, IsFoundSoon
  <2>3. CASE e # d
    <3>1. batch'[e] = batch[e]
      BY <1>0, <2>1, <2>3, Taken
    <3>2. Pending(e) => Pending(e)'
      BY <2>1, <3>1 DEF Pending, DevicesIn
    <3>3. LeavesSoon(e)'
      BY <1>a, <2>1, <3>1 DEF LeavesSoon, Known
    <3>4. IsFoundSoon(e)'
      BY <1>a, <2>1, <3>1, <3>2 DEF IsFoundSoon, Known
    <3> QED
      BY <3>3, <3>4
  <2> QED
    BY <2>2, <2>3
<1>10. ASSUME DropBatch, UNCHANGED <<shc, reg>>
       PROVE  LeavesSoon(e)' /\ IsFoundSoon(e)'
  BY <1>10, DroppedConverges DEF Converging
<1>11. ASSUME NEW d \in Devices, UpdateRaises(d)
       PROVE  LeavesSoon(e)' /\ IsFoundSoon(e)'
  BY <1>10, <1>11 DEF UpdateRaises
<1>12. ASSUME NEW n \in new, FetchFails(n[1]) \/ AnnounceRaises(n[1])
       PROVE  LeavesSoon(e)' /\ IsFoundSoon(e)'
  BY <1>10, <1>12 DEF FetchFails, AnnounceRaises
<1>13. ASSUME NEW n \in new, AddDevice(n[1], n[2])
       PROVE  LeavesSoon(e)' /\ IsFoundSoon(e)'
  <2>1. /\ UNCHANGED <<queue, kit, live, missed, batch, new>>
        /\ n[1] \in Devices /\ n[1] \in kit /\ pc = "fetch"
        /\ reg' = [reg EXCEPT ![n[1]] = built[n[1]] + 1]
    BY <1>0, <1>13 DEF AddDevice, TypeOK
  <2>2. \A m \in new : m = n
    BY DEF IInv, Numbering
  <2>3. CASE e = n[1]
    <3>1. Known(e)'
      BY <1>0, <2>1, <2>3 DEF Known, TypeOK
    <3> QED
      BY <2>1, <2>3, <3>1 DEF LeavesSoon, IsFoundSoon
  <2>4. CASE e # n[1]
    <3>1. reg'[e] = reg[e]
      BY <1>0, <2>1, <2>4 DEF TypeOK
    <3>2. Pending(e) => Pending(e)'
      BY <2>1, <2>2, <2>4 DEF Pending, DevicesIn
    <3>3. LeavesSoon(e)'
      BY <1>a, <2>1, <3>1 DEF LeavesSoon, Known
    <3>4. IsFoundSoon(e)'
      BY <1>a, <2>1, <3>1, <3>2 DEF IsFoundSoon, Known
    <3> QED
      BY <3>3, <3>4
  <2> QED
    BY <2>3, <2>4
<1>14. ASSUME NEW n \in new, SkipDevice(n[1])
       PROVE  LeavesSoon(e)' /\ IsFoundSoon(e)'
  <2>1. /\ UNCHANGED <<queue, kit, live, missed, batch, reg>> /\ n[1] \notin kit
        /\ \A m \in new : m = n
    BY <1>14 DEF SkipDevice, IInv, Numbering
  <2>2. Pending(e) /\ e \in kit => Pending(e)'
    BY <2>1 DEF Pending, DevicesIn
  <2>3. LeavesSoon(e)'
    BY <1>a, <2>1 DEF LeavesSoon, Known
  <2>4. IsFoundSoon(e)'
    BY <1>a, <2>1, <2>2 DEF IsFoundSoon, Known
  <2> QED
    BY <2>3, <2>4
<1>15. ASSUME NEW n \in new, NEW s \in todo, Announce(n[1], s)
       PROVE  LeavesSoon(e)' /\ IsFoundSoon(e)'
  BY <1>b, <1>15 DEF Announce, Pending, DevicesIn
<1>16. CASE UNCHANGED vars
  BY <1>b, <1>16 DEF vars, Pending, DevicesIn
<1> QED
  BY <1>2, <1>3, <1>4, <1>5, <1>6, <1>7, <1>8, <1>9, <1>11,
     <1>12, <1>13, <1>14, <1>15, <1>16
  DEF Next, Session

\* RegisteredIsNotFlagged for one device.
RightsItself(d) == SaysDeleted(d) => Pending(d) \/ ~live \/ d \in missed \cup cut

\* An event that is the last on its way for a known device either flags the
\* object and removes it, or takes the flag back.
LEMMA UpdatedIsRight ==
  ASSUME IInv, NEW d \in Devices, UpdateDevice(d)
  PROVE  ~SaysDeleted(d)'
<1>1. TypeOK /\ Refresh(d) /\ Leave(d)
  BY DEF UpdateDevice, IInv
<1>2. CASE Head(batch[d])
  BY <1>1, <1>2 DEF Leave, SaysDeleted, Known, TypeOK
<1>3. CASE ~Head(batch[d])
  BY <1>1, <1>3 DEF Leave, Refresh, SaysDeleted, Object
<1> QED
  BY <1>2, <1>3

\* An object that is built from a deletion is flagged from the start.  The
\* device was supported when its services were asked for, hence paired: the
\* deletion was not the last word on it.
LEMMA AddedIsRight ==
  ASSUME IInv, Course, NEW n \in new, AddDevice(n[1], n[2])
  PROVE  RightsItself(n[1])'
<1> DEFINE d == n[1]
           k == built[d] + 1
<1>1. TypeOK /\ Phases /\ d \in Devices /\ n[2] \in BOOLEAN /\ FlagsAreBuilt /\ LastWordOf(d)
  BY DEF IInv, TypeOK, Course, LastWord
<1>2. /\ d \in there /\ UNCHANGED <<queue, live, batch>>
      /\ reg'[d] = k /\ k \in Nat
      /\ flagged' = IF n[2] THEN flagged \cup {<<d, k>>} ELSE flagged
  BY <1>1 DEF AddDevice, Phases, TypeOK, shc
<1>3. <<d, k>> \notin flagged
  <2>1. built[d] \in Nat
    BY <1>1 DEF TypeOK
  <2>2. ~(k <= built[d])
    BY <2>1
  <2> QED
    BY <1>1, <1>2, <2>2 DEF FlagsAreBuilt
<1>4. CASE n[2]
  <2>1. live => queue[d] # <<>> \/ batch[d] # <<>>
    BY <1>1, <1>2, <1>4 DEF LastWordOf
  <2>2. live' => Pending(d)'
    BY <1>1, <1>2, <2>1 DEF Pending, DevicesIn
  <2> QED
    BY <2>2 DEF RightsItself
<1>5. CASE ~n[2]
  <2>1. <<d, reg'[d]>> \notin flagged'
    BY <1>2, <1>3, <1>5
  <2> QED
    BY <2>1 DEF RightsItself, SaysDeleted, Object
<1> QED
  BY <1>4, <1>5

LEMMA FlaggedStep ==
  ASSUME IInv, Course, RegisteredIsNotFlagged, [Next]_vars
  PROVE  RegisteredIsNotFlagged'
<1> USE DEF shc, model, bounds
<1>0. TypeOK /\ Phases
  BY DEF IInv, Course
<1> SUFFICES ASSUME NEW e \in Devices
             PROVE  RightsItself(e)'
  BY DEF RegisteredIsNotFlagged, RightsItself
<1>a. RightsItself(e)
  BY DEF RegisteredIsNotFlagged, RightsItself
<1>b. ASSUME SaysDeleted(e)' => SaysDeleted(e), Pending(e) => Pending(e)' \/ e \in missed',
             live' => live, missed \subseteq missed', cut \subseteq cut'
      PROVE  RightsItself(e)'
  BY <1>a, <1>b DEF RightsItself
<1>c. ASSUME reg'[e] = reg[e], <<e, reg[e]>> \in flagged' => <<e, reg[e]>> \in flagged
      PROVE  SaysDeleted(e)' => SaysDeleted(e)
  BY <1>c DEF SaysDeleted, Known, Object
<1>1. ASSUME NEW d \in Devices, NEW deleted \in BOOLEAN, Emit(d, deleted)
      PROVE  RightsItself(e)'
  <2>1. SaysDeleted(e)' => SaysDeleted(e)
    BY <1>1, <1>c DEF Emit
  <2>2. queue[e] # <<>> => queue'[e] # <<>>
    <3>1. CASE live
      BY <1>0, <1>1, <3>1, Emitted
    <3>2. CASE ~live
      BY <1>1, <3>2 DEF Emit
    <3> QED
      BY <3>1, <3>2
  <2>3. Pending(e) => Pending(e)'
    BY <1>1, <2>2 DEF Emit, Pending, DevicesIn
  <2> QED
    BY <1>1, <1>b, <2>1, <2>3 DEF Emit
<1>2. ASSUME NEW d \in Devices, Pair(d) \/ Edit(d) \/ Unpair(d)
      PROVE  RightsItself(e)'
  BY <1>1, <1>2 DEF Pair, Edit, Unpair
<1>3. CASE Rotate
  BY <1>3 DEF Rotate, RightsItself
<1>4. CASE Subscribe
  <2>1. PICK snapshot \in SUBSET there :
           /\ queue' = [d \in Devices |-> IF d \in snapshot THEN <<FALSE>> ELSE <<>>]
           /\ missed' = missed \cup
                {d \in Devices : \/ Wrong(d) /\ (Known(d) \/ d \notin snapshot)
                                 \/ SaysDeleted(d) /\ d \notin snapshot}
    BY <1>4 DEF Subscribe
  <2>2. SaysDeleted(e)' => SaysDeleted(e)
    BY <1>4, <1>c DEF Subscribe
  <2>3. e \in snapshot => Pending(e)'
    BY <2>1 DEF Pending, DevicesIn
  <2>4. SaysDeleted(e) => e \in snapshot \/ e \in missed'
    BY <2>1
  <2> QED
    BY <2>2, <2>3, <2>4 DEF RightsItself
<1>5. CASE Poll
  <2>1. SaysDeleted(e)' => SaysDeleted(e)
    BY <1>5, <1>c DEF Poll
  <2>2. batch'[e] = queue[e] /\ batch[e] = <<>> /\ new' = new /\ pc = "idle"
    BY <1>0, <1>5 DEF Poll, Phases, Empty
  <2>3. Pending(e) => Pending(e)'
    BY <2>2 DEF Pending, DevicesIn
  <2> QED
    BY <1>5, <1>b, <2>1, <2>3 DEF Poll
<1>6. CASE EnumerateServices \/ EnumerateDevices
  BY <1>0, <1>6 DEF EnumerateServices, EnumerateDevices, Phases, RightsItself
<1>7. CASE Announced \/ EndBatch
  <2>1. SaysDeleted(e)' => SaysDeleted(e)
    BY <1>7, <1>c DEF Announced, EndBatch
  <2>2. Pending(e) => Pending(e)'
    BY <1>7 DEF Announced, EndBatch, Pending, DevicesIn
  <2> QED
    BY <1>7, <1>b, <2>1, <2>2 DEF Announced, EndBatch
<1>8. ASSUME NEW d \in Devices, UpdateDevice(d)
      PROVE  RightsItself(e)'
  <2>1. CASE e = d
    BY <1>8, <2>1, UpdatedIsRight DEF RightsItself
  <2>2. CASE e # d
    <3>1. Take(d) /\ Advance(d) /\ Refresh(d) /\ Leave(d)
          /\ UNCHANGED <<queue, live, new, pc, missed, cut>>
      BY <1>8 DEF UpdateDevice
    <3>2. batch'[e] = batch[e]
      BY <1>0, <2>2, <3>1, Taken
    <3>3. reg'[e] = reg[e]
      BY <1>0, <2>2, <3>1 DEF Leave, TypeOK
    <3>4. <<e, reg[e]>> \in flagged' => <<e, reg[e]>> \in flagged
      BY <2>2, <3>1 DEF Refresh, Object
    <3>5. Pending(e) => Pending(e)'
      BY <3>1, <3>2 DEF Pending, DevicesIn
    <3> QED
      BY <1>b, <1>c, <3>1, <3>3, <3>4, <3>5
  <2> QED
    BY <2>1, <2>2
<1>9. ASSUME DropBatch, SaysDeleted(e)' => SaysDeleted(e), UNCHANGED <<queue, live>>,
             cut \subseteq cut'
      PROVE  RightsItself(e)'
  <2>1. Pending(e) => Pending(e)' \/ e \in missed'
    BY <1>9, Dropped DEF Pending, DevicesIn
  <2> QED
    BY <1>9, <1>b, <2>1, Dropped
<1>10. ASSUME NEW d \in Devices, UpdateRaises(d)
       PROVE  RightsItself(e)'
  <2>1. CASE e = d
    BY <1>10, <2>1 DEF UpdateRaises, RightsItself
  <2>2. CASE e # d
    <3>1. <<e, reg[e]>> \in flagged' => <<e, reg[e]>> \in flagged
      BY <1>10, <2>2 DEF UpdateRaises, Refresh, Object
    <3>2. SaysDeleted(e)' => SaysDeleted(e)
      BY <1>10, <1>c, <3>1 DEF UpdateRaises
    <3> QED
      BY <1>9, <1>10, <3>2 DEF UpdateRaises
  <2> QED
    BY <2>1, <2>2
<1>11. ASSUME NEW n \in new, FetchFails(n[1]) \/ AnnounceRaises(n[1])
       PROVE  RightsItself(e)'
  <2>1. SaysDeleted(e)' => SaysDeleted(e)
    BY <1>11, <1>c DEF FetchFails, AnnounceRaises
  <2> QED
    BY <1>9, <1>11, <2>1 DEF FetchFails, AnnounceRaises
<1>12. ASSUME NEW d \in Devices, NewDevice(d)
       PROVE  RightsItself(e)'
  <2>1. Take(d) /\ Advance(d) /\ ~Known(d) /\ pc # "fetch"
        /\ UNCHANGED <<queue, live, missed, cut, reg, flagged>>
    BY <1>12 DEF NewDevice, Take
  <2>2. CASE e = d
    BY <2>1, <2>2 DEF RightsItself, SaysDeleted, Known
  <2>3. CASE e # d
    <3>1. batch'[e] = batch[e]
      BY <1>0, <2>1, <2>3, Taken
    <3>2. Pending(e) => Pending(e)'
      BY <2>1, <3>1 DEF Pending, DevicesIn
    <3> QED
      BY <1>b, <1>c, <2>1, <3>2
  <2> QED
    BY <2>2, <2>3
<1>13. ASSUME NEW n \in new, AddDevice(n[1], n[2])
       PROVE  RightsItself(e)'
  <2>1. CASE e = n[1]
    BY <1>13, <2>1, AddedIsRight
  <2>2. CASE e # n[1]
    <3>1. reg'[e] = reg[e] /\ UNCHANGED <<queue, live, batch, missed, cut>>
      BY <1>0, <1>13, <2>2 DEF AddDevice, TypeOK
    <3>2. <<e, reg[e]>> \in flagged' => <<e, reg[e]>> \in flagged
      BY <1>13, <2>2 DEF AddDevice
    <3>3. \A m \in new : m[1] # e
      BY <2>2 DEF IInv, Numbering
    <3>4. Pending(e) => Pending(e)'
      BY <3>1, <3>3 DEF Pending, DevicesIn
    <3> QED
      BY <1>b, <1>c, <3>1, <3>2, <3>4
  <2> QED
    BY <2>1, <2>2
<1>14. ASSUME NEW n \in new, SkipDevice(n[1])
       PROVE  RightsItself(e)'
  <2>1. UNCHANGED <<queue, live, batch, missed, cut, reg, flagged>> /\ pc = "fetch"
    BY <1>14 DEF SkipDevice
  <2>2. CASE e = n[1]
    <3>1. ~Known(e)
      BY <2>1, <2>2 DEF IInv, Numbering
    <3> QED
      BY <2>1, <3>1 DEF RightsItself, SaysDeleted, Known
  <2>3. CASE e # n[1]
    <3>1. \A m \in new : m[1] # e
      BY <2>3 DEF IInv, Numbering
    <3>2. Pending(e) => Pending(e)'
      BY <2>1, <3>1 DEF Pending, DevicesIn
    <3> QED
      BY <1>b, <1>c, <2>1, <3>2
  <2> QED
    BY <2>2, <2>3
<1>15. ASSUME NEW n \in new, NEW s \in todo, Announce(n[1], s)
       PROVE  RightsItself(e)'
  <2>1. SaysDeleted(e)' => SaysDeleted(e)
    BY <1>15, <1>c DEF Announce
  <2>2. Pending(e) => Pending(e)'
    BY <1>15 DEF Announce, Pending, DevicesIn
  <2> QED
    BY <1>15, <1>b, <2>1, <2>2 DEF Announce
<1>16. CASE UNCHANGED vars
  <2>1. Pending(e) => Pending(e)'
    BY <1>16 DEF vars, Pending, DevicesIn
  <2> QED
    BY <1>16, <1>b, <1>c, <2>1 DEF vars
<1> QED
  BY <1>2, <1>3, <1>4, <1>5, <1>6, <1>7, <1>8, <1>10, <1>11,
     <1>12, <1>13, <1>14, <1>15, <1>16
  DEF Next, Session

\* EveryoneTold for one device and one subscriber.
ToldOf(d, s) ==
    Known(d) =>
        \/ <<s, Object(d)>> \in told
        \/ d \in cut
        \/ pc = "announce" /\ s \in todo /\ \E n \in new : n[1] = d

LEMMA ToldStep ==
  ASSUME IInv, EveryoneTold, [Next]_vars
  PROVE  EveryoneTold'
<1> USE DEF shc, model, bounds
<1>0. TypeOK
  BY DEF IInv
<1> SUFFICES ASSUME NEW e \in Devices, NEW u \in Subscribers, Known(e)'
             PROVE  ToldOf(e, u)'
  BY DEF EveryoneTold, ToldOf
<1>a. ToldOf(e, u)
  BY DEF EveryoneTold, ToldOf
<1>b. ASSUME reg'[e] = reg[e], pc # "announce", told \subseteq told', cut \subseteq cut'
      PROVE  ToldOf(e, u)'
  BY <1>a, <1>b DEF ToldOf, Known, Object
<1>c. ASSUME UNCHANGED <<reg, told, cut, pc, todo, new>>
      PROVE  ToldOf(e, u)'
  BY <1>a, <1>c DEF ToldOf, Known, Object
<1>1. ASSUME NEW d \in Devices, Pair(d) \/ Edit(d) \/ Unpair(d)
      PROVE  ToldOf(e, u)'
  BY <1>1, <1>c DEF Pair, Edit, Unpair, Emit
<1>2. CASE Rotate
  BY <1>2, <1>c DEF Rotate
<1>3. CASE EnumerateServices \/ Subscribe \/ Poll \/ EndBatch
  BY <1>3, <1>b DEF EnumerateServices, Subscribe, Poll, EndBatch
<1>4. CASE EnumerateDevices
  <2>1. /\ reg'[e] = IF e \in there \cap services THEN 1 ELSE 0
        /\ told' = Subscribers \X {<<d, 1>> : d \in there \cap services}
    BY <1>4 DEF EnumerateDevices
  <2>2. reg'[e] = 1 /\ <<u, <<e, 1>>>> \in told'
    BY <2>1 DEF Known
  <2> QED
    BY <2>2 DEF ToldOf, Object
<1>5. ASSUME NEW d \in Devices, UpdateDevice(d)
      PROVE  ToldOf(e, u)'
  <2>1. reg'[e] = reg[e]
    BY <1>0, <1>5 DEF UpdateDevice, Leave, Known, TypeOK
  <2> QED
    BY <1>5, <1>b, <2>1 DEF UpdateDevice, Take
<1>6. ASSUME NEW d \in Devices, UpdateRaises(d) \/ NewDevice(d)
      PROVE  ToldOf(e, u)'
  BY <1>6, <1>b DEF UpdateRaises, NewDevice, Take
<1>7. ASSUME NEW n \in new, AddDevice(n[1], n[2])
      PROVE  ToldOf(e, u)'
  <2>1. CASE e = n[1]
    BY <1>7, <2>1 DEF AddDevice, Audience, ToldOf
  <2>2. CASE e # n[1]
    <3>1. reg'[e] = reg[e]
      BY <1>0, <1>7, <2>2 DEF AddDevice, TypeOK
    <3> QED
      BY <1>7, <1>b, <3>1 DEF AddDevice
  <2> QED
    BY <2>1, <2>2
<1>8. ASSUME NEW n \in new, SkipDevice(n[1]) \/ FetchFails(n[1])
      PROVE  ToldOf(e, u)'
  BY <1>8, <1>b DEF SkipDevice, FetchFails
<1>9. ASSUME NEW n \in new, NEW s \in todo, Announce(n[1], s)
      PROVE  ToldOf(e, u)'
  <2>1. /\ UNCHANGED <<reg, cut, pc, new>> /\ told' = told \cup {<<s, Object(n[1])>>}
        /\ todo' = todo \ {s} /\ \A m \in new : m = n
    BY <1>9 DEF Announce, IInv, Numbering
  <2>2. Object(e)' = Object(e) /\ Known(e)
    BY <2>1 DEF Object, Known
  <2>3. CASE e = n[1] /\ u = s
    BY <2>1, <2>2, <2>3 DEF ToldOf
  <2>4. CASE e = n[1] /\ u # s
    BY <1>a, <2>1, <2>2, <2>4 DEF ToldOf
  <2>5. CASE e # n[1]
    BY <1>a, <2>1, <2>2, <2>5 DEF ToldOf
  <2> QED
    BY <2>3, <2>4, <2>5
<1>10. ASSUME NEW n \in new, AnnounceRaises(n[1])
       PROVE  ToldOf(e, u)'
  <2>1. /\ UNCHANGED <<reg, told>> /\ cut' = cut \cup {n[1]} /\ \A m \in new : m = n
    BY <1>10 DEF AnnounceRaises, IInv, Numbering
  <2> QED
    BY <1>a, <2>1 DEF ToldOf, Known, Object
<1>11. CASE Announced
  BY <1>a, <1>11 DEF Announced, ToldOf, Known, Object
<1>12. CASE UNCHANGED vars
  BY <1>12, <1>c DEF vars
<1> QED
  BY <1>1, <1>2, <1>3, <1>4, <1>5, <1>6, <1>7, <1>8, <1>9, <1>10, <1>11, <1>12
  DEF Next, Session

-----------------------------------------------------------------------------
LEMMA Initially == Init => IInv
<1> SUFFICES ASSUME Init
             PROVE  IInv
  OBVIOUS
<1>1. TypeOK
  BY EmptyQueues DEF Init, TypeOK
<1>2. Blank /\ Numbering /\ Listing /\ GoneIsFlagged
  BY DEF Init, Blank, Numbering, Listing, GoneIsFlagged, Known
<1> QED
  BY <1>1, <1>2 DEF IInv

LEMMA Inductive == IInv /\ [Next]_vars => IInv'
  BY TypeStep, NumberingStep, CompleteStep, GoneStep DEF IInv

LEMMA Invariance == Spec => []IInv
  BY Initially, Inductive, PTL DEF Spec

LEMMA WholeInitially == Init => Whole
<1> SUFFICES ASSUME Init
             PROVE  Whole
  OBVIOUS
<1>1. IInv
  BY Initially
<1>2. Phases /\ FlagsAreBuilt
  BY DEF Init, Phases, FlagsAreBuilt
<1>3. LastWord /\ Converging
  BY DEF Init, LastWord, LastWordOf, Converging, LeavesSoon, IsFoundSoon
<1>4. RegisteredIsNotFlagged /\ EveryoneTold
  BY DEF Init, RegisteredIsNotFlagged, EveryoneTold, SaysDeleted, Known
<1> QED
  BY <1>1, <1>2, <1>3, <1>4 DEF Whole, Course

LEMMA WholeIsInductive == Whole /\ [Next]_vars => Whole'
<1> SUFFICES ASSUME Whole, [Next]_vars
             PROVE  Whole'
  OBVIOUS
<1> USE DEF Whole, Course
<1>1. IInv'
  BY Inductive
<1>2. Phases' /\ FlagsAreBuilt'
  BY PhasesStep, FlagsAreBuiltStep
<1>3. LastWord' /\ Converging'
  BY LastWordStep, ConvergingStep
<1>4. RegisteredIsNotFlagged' /\ EveryoneTold'
  BY FlaggedStep, ToldStep
<1> QED
  BY <1>1, <1>2, <1>3, <1>4

LEMMA WholeInvariance == Spec => []Whole
  BY WholeInitially, WholeIsInductive, PTL DEF Spec

\* Every variable of the registry keeps its type.
THEOREM TypeCorrect == Spec => []TypeOK
<1>1. IInv => TypeOK
  BY DEF IInv
<1> QED
  BY <1>1, Invariance, PTL

\* However often devices are removed and paired again and whatever fails: what
\* is registered is complete, the helper lists it if it supports its
\* model, and a device that only the helper still lists says "deleted" (session.py
\* _add_device, the "device" branch of the dispatcher, device_helper.py
\* device_init).
THEOREM KnownIsComplete == Spec => []RegisteredIsComplete
<1>1. IInv => RegisteredIsComplete
  <2> SUFFICES ASSUME IInv, NEW d \in Devices, helper[d] \notin {0, reg[d]}
               PROVE  <<d, helper[d]>> \in flagged
    BY DEF IInv, Listing, RegisteredIsComplete
  <2>1. helper[d] \in 1 .. built[d]
    BY DEF IInv, TypeOK, Numbering
  <2> QED
    BY <2>1 DEF IInv, GoneIsFlagged
<1> QED
  BY <1>1, Invariance, PTL

\* Whoever still holds an object that has left the session finds it flagged as
\* deleted (device.py update_raw_information, before the session drops it).
THEOREM GoneSaysDeleted == Spec => []GoneIsFlagged
<1>1. IInv => GoneIsFlagged
  BY DEF IInv
<1> QED
  BY <1>1, Invariance, PTL

\* With a valid subscription the session knows exactly the devices that have
\* services it supports, up to those with an event on its way or lost, for any
\* number of devices, changes, forgotten subscriptions and failures (session.py
\* _process_long_polling_poll_result, "device").
THEOREM SessionConverges == Spec => []NoSilentDivergence
<1>1. Whole => NoSilentDivergence
  <2> SUFFICES ASSUME Whole, NEW d \in Devices, Wrong(d), live, d \notin missed
               PROVE  Pending(d)
    BY DEF NoSilentDivergence
  <2>1. LeavesSoon(d) /\ IsFoundSoon(d)
    BY DEF Whole, Course, Converging
  <2>2. CASE Known(d)
    <3>1. Deleting(queue[d]) \/ Deleting(batch[d])
      BY <2>1, <2>2 DEF LeavesSoon, Wrong
    <3>2. queue[d] # <<>> \/ batch[d] # <<>>
      BY <3>1, NothingDeletes
    <3> QED
      BY <3>2 DEF Pending, DevicesIn
  <2>3. CASE ~Known(d)
    <3>1. d \in kit
      BY <2>3 DEF Wrong, Known
    <3> QED
      BY <2>1, <2>3, <3>1 DEF IsFoundSoon
  <2> QED
    BY <2>2, <2>3
<1> QED
  BY <1>1, WholeInvariance, PTL

\* A device in the session that says "deleted" is put right by an event on its
\* way, unless a callback raised or an event was lost: in particular an object
\* built from a deletion does not keep the flag (device.py
\* update_raw_information, session.py _add_device).
THEOREM FlagsAreTakenBack == Spec => []RegisteredIsNotFlagged
<1>1. Whole => RegisteredIsNotFlagged
  BY DEF Whole
<1> QED
  BY <1>1, WholeInvariance, PTL

\* Every subscriber is given every device that joins the session, before
\* the next event is handled, unless one of them raises (session.py
\* _process_long_polling_poll_result, the loop over _subscribers).
THEOREM SubscribersAreTold == Spec => []EveryoneTold
<1>1. Whole => EveryoneTold
  BY DEF Whole
<1> QED
  BY <1>1, WholeInvariance, PTL

\* An object that is not, or no longer, the one of its device.
Left(d, k) == k \in 1 .. built[d] /\ k # reg[d]

StaysAway == \A d \in Devices, k \in Nat : Left(d, k) => Left(d, k)' /\ <<d, k>> \in flagged'

LEMMA LeftStep ==
  ASSUME IInv, [Next]_vars, NEW e \in Devices, NEW k \in Nat, Left(e, k)
  PROVE  Left(e, k)'
<1> USE DEF shc, model, bounds
<1>0. TypeOK /\ Blank /\ k \in 1 .. built[e] /\ k # reg[e]
  BY DEF IInv, Left
<1>a. ASSUME reg'[e] \in {reg[e], 0}, built'[e] = built[e]
      PROVE  Left(e, k)'
  BY <1>0, <1>a DEF Left
<1>1. ASSUME NEW d \in Devices, Pair(d) \/ Edit(d) \/ Unpair(d)
      PROVE  Left(e, k)'
  BY <1>1, <1>a DEF Pair, Edit, Unpair, Emit
<1>2. CASE Rotate \/ Subscribe \/ Poll \/ Announced \/ EndBatch \/ EnumerateServices
  BY <1>2, <1>a DEF Rotate, Subscribe, Poll, Announced, EndBatch, EnumerateServices
<1>3. CASE EnumerateDevices
  <2>1. built[e] = 0
    BY <1>0, <1>3 DEF EnumerateDevices, Blank
  <2> QED
    BY <1>0, <2>1
<1>4. ASSUME NEW d \in Devices, UpdateDevice(d)
      PROVE  Left(e, k)'
  <2>1. reg'[e] \in {reg[e], 0}
    BY <1>0, <1>4 DEF UpdateDevice, Leave, TypeOK
  <2> QED
    BY <1>4, <1>a, <2>1 DEF UpdateDevice
<1>5. ASSUME NEW d \in Devices, UpdateRaises(d) \/ NewDevice(d)
      PROVE  Left(e, k)'
  BY <1>5, <1>a DEF UpdateRaises, NewDevice
<1>6. ASSUME NEW n \in new, AddDevice(n[1], n[2])
      PROVE  Left(e, k)'
  <2>1. CASE e = n[1]
    <3>1. built[e] \in Nat /\ built'[e] = built[e] + 1 /\ reg'[e] = built[e] + 1
      BY <1>0, <1>6, <2>1 DEF AddDevice, TypeOK
    <3> QED
      BY <1>0, <3>1 DEF Left
  <2>2. CASE e # n[1]
    <3>1. built'[e] = built[e] /\ reg'[e] = reg[e]
      BY <1>0, <1>6, <2>2 DEF AddDevice, TypeOK
    <3> QED
      BY <1>a, <3>1
  <2> QED
    BY <2>1, <2>2
<1>7. ASSUME NEW n \in new, SkipDevice(n[1]) \/ FetchFails(n[1]) \/ AnnounceRaises(n[1])
      PROVE  Left(e, k)'
  BY <1>7, <1>a DEF SkipDevice, FetchFails, AnnounceRaises
<1>8. ASSUME NEW n \in new, NEW s \in todo, Announce(n[1], s)
      PROVE  Left(e, k)'
  BY <1>8, <1>a DEF Announce
<1>9. CASE UNCHANGED vars
  BY <1>9, <1>a DEF vars
<1> QED
  BY <1>1, <1>2, <1>3, <1>4, <1>5, <1>6, <1>7, <1>8, <1>9
  DEF Next, Session

\* A device that is paired again gets a new object: one that has left never
\* comes back, and never stops saying "deleted" (session.py _add_device builds,
\* and only _update_device of a registered object changes the raw device).
THEOREM ObjectsDoNotReturn == Spec => [][StaysAway]_vars
<1>1. IInv /\ [Next]_vars => [StaysAway]_vars
  <2> SUFFICES ASSUME IInv, [Next]_vars
               PROVE  StaysAway
    OBVIOUS
  <2>1. ASSUME NEW d \in Devices, NEW k \in Nat, Left(d, k)
        PROVE  Left(d, k)' /\ <<d, k>> \in flagged'
    <3>1. Left(d, k)'
      BY <2>1, LeftStep
    <3>2. GoneIsFlagged'
      BY Inductive DEF IInv
    <3> QED
      BY <3>1, <3>2 DEF Left, GoneIsFlagged
  <2> QED
    BY <2>1 DEF StaysAway
<1> QED
  BY <1>1, Invariance, PTL DEF Spec

-----------------------------------------------------------------------------
(* The refinement, step by step *)

LEMMA RosterInit == Init => Roster!Init
BY DEF Init, Roster!Init

\* The steps that leave the roster as it is.
LEMMA RosterStutters ==
  ASSUME UNCHANGED <<reg, built, flagged, told>>
  PROVE  UNCHANGED Roster!vars
BY DEF Roster!vars

LEMMA RosterEnumerate ==
  ASSUME IInv, EnumerateDevices
  PROVE  Roster!Enumerate
<1>1. \A d \in Devices : built[d] = 0
  BY DEF IInv, Blank, EnumerateDevices
<1> DEFINE found == there \cap services
<1>2. found \in SUBSET Devices
  BY DEF IInv, TypeOK
<1>3. /\ reg' = [d \in Devices |-> IF d \in found THEN 1 ELSE 0]
      /\ told' = Subscribers \X {<<d, 1>> : d \in found}
      /\ built' = reg' /\ flagged' = flagged
  BY DEF EnumerateDevices
<1> HIDE DEF found
<1> QED
  BY <1>1, <1>2, <1>3 DEF Roster!Enumerate

LEMMA RosterUpdate ==
  ASSUME NEW d \in Devices, UpdateDevice(d)
  PROVE  Roster!Leave(d) \/ Roster!Update(d)
<1>1. /\ reg[d] # 0 /\ UNCHANGED <<built, told>>
      /\ Refresh(d) /\ Leave(d)
  BY DEF UpdateDevice, Known, model
<1>2. CASE Head(batch[d])
  BY <1>1, <1>2 DEF Refresh, Leave, Object, Roster!Leave, Roster!Object
<1>3. CASE ~Head(batch[d])
  BY <1>1, <1>3 DEF Refresh, Leave, Object, Roster!Update, Roster!Object
<1> QED
  BY <1>2, <1>3

LEMMA RosterJoin ==
  ASSUME IInv, NEW n \in new, AddDevice(n[1], n[2])
  PROVE  n[1] \in Devices /\ Roster!Join(n[1])
<1> DEFINE d == n[1]
<1>1. d \in Devices /\ n[2] \in BOOLEAN /\ built \in [Devices -> Nat] /\ reg[d] = 0
  BY DEF IInv, TypeOK, Numbering, AddDevice, Known
<1>2. /\ built' = [built EXCEPT ![d] = @ + 1]
      /\ reg' = [reg EXCEPT ![d] = built[d] + 1]
      /\ flagged' = IF n[2] THEN flagged \cup {<<d, built[d] + 1>>} ELSE flagged
      /\ told' = told
  BY DEF AddDevice
<1> HIDE DEF d
<1>3. built'[d] = built[d] + 1
  BY <1>1, <1>2
<1>4. flagged' \in {flagged, flagged \cup {<<d, built'[d]>>}}
  BY <1>2, <1>3
<1>5. reg' = [reg EXCEPT ![d] = built'[d]]
  BY <1>2, <1>3
<1>6. d \in Devices /\ Roster!Join(d)
  BY <1>1, <1>2, <1>4, <1>5 DEF Roster!Join
<1> QED
  BY <1>6 DEF d

LEMMA RosterTell ==
  ASSUME IInv, NEW n \in new, NEW s \in todo, Announce(n[1], s)
  PROVE  n[1] \in Devices /\ s \in Subscribers /\ Roster!Tell(s, n[1])
<1>1. n[1] \in Devices /\ s \in Subscribers /\ reg[n[1]] # 0
  BY DEF IInv, TypeOK, Numbering, Announce, Known
<1>2. UNCHANGED <<reg, built, flagged>> /\ told' = told \cup {<<s, <<n[1], reg[n[1]]>>>>}
  BY DEF Announce, Object, model
<1> QED
  BY <1>1, <1>2 DEF Roster!Tell, Roster!Object

LEMMA RosterStep ==
  ASSUME IInv, [Next]_vars
  PROVE  [Roster!Next]_(Roster!vars)
<1> USE DEF shc, model, bounds
<1>1. ASSUME NEW d \in Devices, Pair(d) \/ Edit(d) \/ Unpair(d)
      PROVE  UNCHANGED Roster!vars
  BY <1>1, RosterStutters DEF Pair, Edit, Unpair, Emit
<1>2. CASE Rotate \/ Subscribe \/ Poll \/ EnumerateServices \/ Announced \/ EndBatch
  <2>1. UNCHANGED Roster!vars
    BY <1>2, RosterStutters
    DEF Rotate, Subscribe, Poll, EnumerateServices, Announced, EndBatch
  <2> QED
    BY <2>1
<1>3. CASE EnumerateDevices
  BY <1>3, RosterEnumerate DEF Roster!Next
<1>4. ASSUME NEW d \in Devices, UpdateDevice(d)
      PROVE  Roster!Next
  BY <1>4, RosterUpdate DEF Roster!Next
<1>5. ASSUME NEW d \in Devices, UpdateRaises(d)
      PROVE  Roster!Next
  <2>1. Roster!Update(d)
    BY <1>5 DEF UpdateRaises, Known, Refresh, Object, Roster!Update, Roster!Object
  <2> QED
    BY <2>1 DEF Roster!Next
<1>6. ASSUME NEW d \in Devices, NewDevice(d)
      PROVE  UNCHANGED Roster!vars
  BY <1>6, RosterStutters DEF NewDevice
<1>7. ASSUME NEW n \in new, AddDevice(n[1], n[2])
      PROVE  Roster!Next
  BY <1>7, RosterJoin DEF Roster!Next
<1>8. ASSUME NEW n \in new, SkipDevice(n[1]) \/ FetchFails(n[1]) \/ AnnounceRaises(n[1])
      PROVE  UNCHANGED Roster!vars
  BY <1>8, RosterStutters DEF SkipDevice, FetchFails, AnnounceRaises
<1>9. ASSUME NEW n \in new, NEW s \in todo, Announce(n[1], s)
      PROVE  Roster!Next
  BY <1>9, RosterTell DEF Roster!Next
<1>10. CASE UNCHANGED vars
  <2>1. UNCHANGED Roster!vars
    BY <1>10, RosterStutters DEF vars
  <2> QED
    BY <2>1
<1> QED
  BY <1>1, <1>2, <1>3, <1>4, <1>5, <1>6, <1>7, <1>8, <1>9, <1>10
  DEF Next, Session

\* For every set of devices and subscribers and whatever is lost or raises, the
\* objects of a session come and go as a DeviceRoster says (_add_device,
\* _update_device and the "device" branch of the dispatcher).
THEOREM RegistryIsARoster == Spec => ImplementsDeviceRoster
<1>1. IInv /\ [Next]_vars => [Roster!Next]_(Roster!vars)
  BY RosterStep
<1> QED
  BY <1>1, RosterInit, Invariance, PTL DEF Spec, ImplementsDeviceRoster, Roster!Spec
=============================================================================
