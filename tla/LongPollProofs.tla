--------------------------- MODULE LongPollProofs ---------------------------
(* Proofs about LongPoll for every set of services and domains, every set of *)
(* faults, both flavours and every value of the bounds.                      *)
EXTENDS LongPoll, TLAPS

\* What the program counter says about the poller's local variables.
Shape ==
    /\ pc \notin {"process", "notify"} => batch = {}
    /\ pc \notin {"notify", "fetched", "announce"} => hand = {}
    /\ \A e, f \in hand : e = f
    /\ pc \in {"fetched", "announce"} => \A e \in hand : e[1] \in Services \ todo
    /\ pc \notin {"refresh", "fetched", "announce"} => todo = {}
    /\ ~live => queue = {}
    /\ (~hasId /\ pc # "stopped") => ~live
    /\ pc \notin {"off", "idle", "sleep", "stopped"} => hasId

\* The SHC's queue holds the latest event of every object it has events of.
QueueInv ==
    \A e \in queue : e[2] <= server[e[1]] /\ Current(e[1]) \in queue

\* While the subscription lives, an object with an event in the batch has its
\* latest event in the batch or behind it.
BatchInv ==
    \A e \in batch :
        /\ e[2] <= server[e[1]]
        /\ live => Current(e[1]) \in queue \cup batch

\* What the poller is about to store or to announce is current, or a newer
\* event is on its way.
HandInv ==
    \A e \in hand :
        /\ pc = "fetched" => e = Current(e[1]) \/ Current(e[1]) \in queue \/ ~live
        /\ pc \in {"notify", "announce"} =>
              \/ cache[e[1]] = server[e[1]]
              \/ Current(e[1]) \in queue \cup batch
              \/ ~live
              \/ e[1] \in missed

\* When only the poller refreshes, no service is inside its throttle window
\* when a re-read begins: the previous one ended before the poller slept.
ThrottleInv ==
    gets = 0 =>
        /\ app = {}
        /\ todo \cap recent = {}
        /\ (resub /\ pc \in {"poll", "process", "notify"}) => recent = {}
        /\ (~hasId /\ pc # "stopped") => recent = {}

IInv == TypeOK /\ Shape /\ QueueInv /\ BatchInv /\ HandInv /\ ThrottleInv

LEMMA FailStep ==
  ASSUME TypeOK, NEW kind, Fail(kind)
  PROVE  faults' \in Nat /\ failed' \subseteq FaultKinds
<1>1. faults' \in Nat
  BY BoundsAssumption DEF Fail, TypeOK
<1>2. failed' \subseteq FaultKinds
  BY FaultsAssumption DEF Fail, TypeOK
<1> QED
  BY <1>1, <1>2

LEMMA TypeStep ==
  ASSUME TypeOK, Shape, [Next]_vars
  PROVE  TypeOK'
<1> USE DEF TypeOK, Objects, Events, shc, client, rest
<1>1. ASSUME NEW o \in Objects, Change(o)
      PROVE  TypeOK'
  BY <1>1, BoundsAssumption DEF Change, Events, Versions
<1>2. CASE Rotate
  <2>1. rotations' \in Nat
    BY <1>2, BoundsAssumption DEF Rotate
  <2>3. live' \in BOOLEAN
    BY <1>2 DEF Rotate
  <2>2. queue' \subseteq Events
    BY <1>2 DEF Rotate
  <2> QED
    BY <1>2, <2>1, <2>2, <2>3 DEF Rotate
<1>3. ASSUME NEW reread, NewSubscription(reread)
      PROVE  /\ live' \in BOOLEAN
             /\ hasId' \in BOOLEAN
             /\ queue' \subseteq Events
             /\ missed' \subseteq Objects
  BY <1>3 DEF NewSubscription, Current, Events
<1>4. CASE StartPolling
  BY <1>3, <1>4 DEF StartPolling
<1>5. CASE Subscribe
  BY <1>3, <1>5 DEF Subscribe
<1>6. CASE SubscribeFails \/ PollStale
  <2>1. faults' \in Nat /\ failed' \subseteq FaultKinds
    BY <1>6, FailStep DEF SubscribeFails, PollStale
  <2>2. recent' \subseteq Services
    BY <1>6 DEF SubscribeFails, PollStale, Sleep
  <2> QED
    BY <1>6, <2>1, <2>2 DEF SubscribeFails, PollStale, Sleep
<1>18. CASE Poll \/ PollReply \/ EndBatch \/ EndRefresh \/ Wake
  <2>1. queue' \subseteq Events /\ batch' \subseteq Events /\ todo' \subseteq Services
    BY <1>18 DEF Poll, PollReply, EndBatch, EndRefresh, Wake, ReRead
  <2> QED
    BY <1>18, <2>1 DEF Poll, PollReply, EndBatch, EndRefresh, Wake, ReRead
<1>7. CASE PollFails
  <2>1. faults' \in Nat /\ failed' \subseteq FaultKinds
    BY <1>7, FailStep DEF PollFails
  <2>2. missed' \subseteq Objects /\ queue' \subseteq Events /\ recent' \subseteq Services
    BY <1>7 DEF PollFails, Sleep, Stranded, ReRead
  <2> QED
    BY <1>7, <2>1, <2>2 DEF PollFails, Sleep
<1>19. CASE PollRetried
  <2>1. faults' \in Nat /\ failed' \subseteq FaultKinds
    BY <1>19, FailStep DEF PollRetried
  <2>2. missed' \subseteq Objects /\ queue' \subseteq Events
    BY <1>19 DEF PollRetried
  <2> QED
    BY <1>19, <2>1, <2>2 DEF PollRetried
<1>8. CASE StoreEvent \/ RefreshStore
  BY <1>8 DEF StoreEvent, RefreshStore, Shape, Events
<1>20. CASE IgnoreEvent
  <2>1. faults' \in Nat /\ failed' \subseteq FaultKinds
    BY <1>20, FailStep DEF IgnoreEvent
  <2>2. missed' \subseteq Objects /\ batch' \subseteq Events
    BY <1>20 DEF IgnoreEvent, Stranded
  <2> QED
    BY <1>20, <2>1, <2>2 DEF IgnoreEvent
<1>9. CASE Notify \/ RefreshNotify
  BY <1>9 DEF Notify, RefreshNotify, Announce
<1>10. CASE HandlerRaises
  <2>1. faults' \in Nat /\ failed' \subseteq FaultKinds
    BY <1>10, FailStep DEF HandlerRaises, DropBatch
  <2>2. /\ missed' \subseteq Objects /\ batch' \subseteq Events
        /\ hand' \subseteq Events /\ recent' \subseteq Services
    BY <1>10 DEF HandlerRaises, DropBatch, Sleep, Stranded, ReRead
  <2> QED
    BY <1>10, <2>1, <2>2 DEF HandlerRaises, Sleep
<1>11. CASE HandlerStops
  <2>1. faults' \in Nat /\ failed' \subseteq FaultKinds
    BY <1>11, FailStep DEF HandlerStops, DropBatch
  <2>2. missed' \subseteq Objects /\ queue' \subseteq Events /\ batch' \subseteq Events /\ hand' \subseteq Events
    BY <1>11 DEF HandlerStops, DropBatch, Stranded, ReRead
  <2> QED
    BY <1>11, <2>1, <2>2 DEF HandlerStops
<1>12. ASSUME NEW s \in Services, RefreshFetch(s) \/ RefreshThrottled(s) \/ RefreshFails(s)
      PROVE  TypeOK'
  <2>1. faults' \in Nat /\ failed' \subseteq FaultKinds
    BY <1>12, FailStep DEF RefreshFetch, RefreshThrottled, RefreshFails
  <2>2. hand' \subseteq Events
    BY <1>12 DEF RefreshFetch, RefreshThrottled, RefreshFails, Current
  <2>3. missed' \subseteq Objects /\ todo' \subseteq Services
    BY <1>12 DEF RefreshFetch, RefreshThrottled, RefreshFails, Stranded
  <2> QED
    BY <1>12, <2>1, <2>2, <2>3 DEF RefreshFetch, RefreshThrottled, RefreshFails
<1>13. CASE RefreshRaises
  <2>1. faults' \in Nat /\ failed' \subseteq FaultKinds
    BY <1>13, FailStep DEF RefreshRaises
  <2>2. missed' \subseteq Objects /\ todo' \subseteq Services /\ hand' \subseteq Events
    BY <1>13 DEF RefreshRaises, Stranded
  <2> QED
    BY <1>13, <2>1, <2>2 DEF RefreshRaises
<1>14. ASSUME NEW s \in Services, AppFetch(s)
      PROVE  TypeOK'
  BY <1>14 DEF AppFetch, Current, Objects
<1>15. ASSUME NEW e \in app, AppStore(e)
      PROVE  TypeOK'
  BY <1>15 DEF AppStore, Objects
<1>16. ASSUME NEW s \in recent, Tick(s)
      PROVE  TypeOK'
  BY <1>16 DEF Tick
<1>17. CASE UNCHANGED vars
  BY <1>17 DEF vars
<1> QED
  BY <1>1, <1>2, <1>4, <1>5, <1>6, <1>18, <1>7, <1>8, <1>9, <1>10, <1>11, <1>12,
     <1>13, <1>14, <1>15, <1>16, <1>17, <1>19, <1>20
  DEF Next, PollerStep, PollerFault, Environment

LEMMA ShapeStep ==
  ASSUME TypeOK, Shape, [Next]_vars
  PROVE  Shape'
<1> USE DEF Shape, TypeOK, Events, shc, client, rest
<1>1. ASSUME NEW o \in Objects, Change(o)
      PROVE  Shape'
  BY <1>1 DEF Change
<1>2. CASE Rotate
  BY <1>2 DEF Rotate
<1>3. CASE StartPolling \/ Subscribe
  BY <1>3 DEF StartPolling, Subscribe, NewSubscription
<1>4. CASE SubscribeFails \/ Poll \/ PollReply \/ PollStale \/ PollFails \/ PollRetried \/ Wake
  BY <1>4 DEF SubscribeFails, Poll, PollReply, PollStale, PollFails, PollRetried, Wake, Sleep
<1>5. CASE StoreEvent \/ IgnoreEvent \/ Notify \/ EndBatch
  BY <1>5 DEF StoreEvent, IgnoreEvent, Notify, EndBatch, Announce, ReRead
<1>6. CASE HandlerRaises \/ HandlerStops
  BY <1>6 DEF HandlerRaises, HandlerStops, DropBatch, Sleep
<1>7. ASSUME NEW s \in Services, RefreshFetch(s) \/ RefreshThrottled(s) \/ RefreshFails(s)
      PROVE  Shape'
  BY <1>7 DEF RefreshFetch, RefreshThrottled, RefreshFails, Current
<1>8. CASE RefreshStore \/ RefreshNotify \/ RefreshRaises \/ EndRefresh
  BY <1>8 DEF RefreshStore, RefreshNotify, RefreshRaises, EndRefresh, Announce
<1>9. ASSUME NEW s \in Services, AppFetch(s)
      PROVE  Shape'
  BY <1>9 DEF AppFetch
<1>10. ASSUME NEW e \in app, AppStore(e)
      PROVE  Shape'
  BY <1>10 DEF AppStore
<1>11. ASSUME NEW s \in recent, Tick(s)
      PROVE  Shape'
  BY <1>11 DEF Tick
<1>12. CASE UNCHANGED vars
  BY <1>12 DEF vars
<1> QED
  BY <1>1, <1>2, <1>3, <1>4, <1>5, <1>6, <1>7, <1>8, <1>9, <1>10, <1>11, <1>12
  DEF Next, PollerStep, PollerFault, Environment

LEMMA QueueStep ==
  ASSUME TypeOK, Shape, QueueInv, [Next]_vars
  PROVE  QueueInv'
<1> USE DEF QueueInv, TypeOK, Objects, Versions, Events, shc, client, rest, Current
<1>1. ASSUME NEW o \in Objects, Change(o)
      PROVE  QueueInv'
  <2>1. CASE live
    <3>1. queue' = queue \cup {<<o, server'[o]>>}
      BY <1>1, <2>1 DEF Change
    <3>2. \A p \in Objects : server[p] <= server'[p] /\ (p # o => server[p] = server'[p])
      BY <1>1 DEF Change
    <3> QED
      <4>1. TAKE e \in queue'
      <4>2. CASE e \in queue
        <5>1. e[1] \in Objects /\ e[2] \in Nat /\ e[2] <= server[e[1]] /\ <<e[1], server[e[1]]>> \in queue
          BY <4>2, BoundsAssumption
        <5>2. server[e[1]] \in Nat /\ server'[e[1]] \in Nat
          BY <5>1, <1>1, BoundsAssumption DEF Change
        <5> QED
          BY <5>1, <5>2, <3>1, <3>2
      <4>3. CASE e = <<o, server'[o]>>
        <5>1. server'[o] \in Nat
          BY <1>1, BoundsAssumption DEF Change
        <5> QED
          BY <5>1, <3>1, <4>3
      <4> QED
        BY <3>1, <4>2, <4>3
  <2>2. CASE ~live
    BY <1>1, <2>2 DEF Change, Shape
  <2> QED
    BY <2>1, <2>2
<1>2. CASE Rotate
  BY <1>2 DEF Rotate
<1>3. CASE StartPolling \/ Subscribe
  BY <1>3 DEF StartPolling, Subscribe, NewSubscription
<1>4. CASE SubscribeFails \/ Poll \/ PollReply \/ PollStale \/ PollFails \/ PollRetried \/ Wake
  BY <1>4 DEF SubscribeFails, Poll, PollReply, PollStale, PollFails, PollRetried, Wake
<1>5. CASE StoreEvent \/ IgnoreEvent \/ EndBatch \/ HandlerRaises \/ HandlerStops
  BY <1>5 DEF StoreEvent, IgnoreEvent, EndBatch, HandlerRaises, HandlerStops
<1>6. CASE Notify \/ RefreshNotify \/ RefreshStore \/ RefreshRaises \/ EndRefresh
  BY <1>6 DEF Notify, RefreshNotify, RefreshStore, RefreshRaises, EndRefresh, Announce
<1>7. ASSUME NEW s \in Services, RefreshFetch(s) \/ RefreshThrottled(s) \/ RefreshFails(s)
      PROVE  QueueInv'
  BY <1>7 DEF RefreshFetch, RefreshThrottled, RefreshFails
<1>8. ASSUME NEW s \in Services, AppFetch(s)
      PROVE  QueueInv'
  BY <1>8 DEF AppFetch
<1>9. ASSUME NEW e \in app, AppStore(e)
      PROVE  QueueInv'
  BY <1>9 DEF AppStore
<1>10. ASSUME NEW s \in recent, Tick(s)
      PROVE  QueueInv'
  BY <1>10 DEF Tick
<1>11. CASE UNCHANGED vars
  BY <1>11 DEF vars
<1> QED
  BY <1>1, <1>2, <1>3, <1>4, <1>5, <1>6, <1>7, <1>8, <1>9, <1>10, <1>11
  DEF Next, PollerStep, PollerFault, Environment

LEMMA BatchStep ==
  ASSUME TypeOK, Shape, QueueInv, BatchInv, [Next]_vars
  PROVE  BatchInv'
<1> USE DEF BatchInv, QueueInv, TypeOK, Objects, Versions, Events, shc, client, rest, Current
<1>1. ASSUME NEW o \in Objects, Change(o)
      PROVE  BatchInv'
  <2>1. /\ batch' = batch
        /\ live' = live
        /\ live => queue' = queue \cup {<<o, server'[o]>>}
    BY <1>1 DEF Change
  <2>2. \A p \in Objects : server[p] <= server'[p] /\ (p # o => server[p] = server'[p])
    BY <1>1 DEF Change
  <2>3. TAKE e \in batch'
  <2>4. e \in batch
    BY <2>1
  <2> QED
    <3>1. e[1] \in Objects /\ e[2] \in Nat
      BY <2>4, BoundsAssumption
    <3>4. server[e[1]] \in Nat
      BY <3>1, BoundsAssumption
    <3>5. e[2] <= server[e[1]]
      BY <2>4
    <3>2. e[2] <= server'[e[1]]
      BY <1>1, <3>1, <3>4, <3>5 DEF Change
    <3>3. live' => <<e[1], server'[e[1]]>> \in queue' \cup batch'
      BY <2>1, <2>2, <2>4, <3>1
    <3> QED
      BY <3>2, <3>3
<1>2. CASE Rotate
  BY <1>2 DEF Rotate
<1>3. CASE StartPolling \/ Subscribe
  BY <1>3 DEF StartPolling, Subscribe, NewSubscription, Shape
<1>4. CASE SubscribeFails \/ Poll \/ PollReply \/ PollStale \/ PollFails \/ PollRetried \/ Wake
  BY <1>4 DEF SubscribeFails, Poll, PollReply, PollStale, PollFails, PollRetried, Wake, Shape
<1>5. CASE StoreEvent \/ IgnoreEvent
  BY <1>5 DEF StoreEvent, IgnoreEvent, IsNext
<1>6. CASE EndBatch \/ HandlerRaises \/ HandlerStops
  BY <1>6 DEF EndBatch, HandlerRaises, HandlerStops, DropBatch
<1>7. CASE Notify \/ RefreshNotify \/ RefreshStore \/ RefreshRaises \/ EndRefresh
  BY <1>7 DEF Notify, RefreshNotify, RefreshStore, RefreshRaises, EndRefresh, Announce
<1>8. ASSUME NEW s \in Services, RefreshFetch(s) \/ RefreshThrottled(s) \/ RefreshFails(s)
      PROVE  BatchInv'
  BY <1>8 DEF RefreshFetch, RefreshThrottled, RefreshFails
<1>9. ASSUME NEW s \in Services, AppFetch(s)
      PROVE  BatchInv'
  BY <1>9 DEF AppFetch
<1>10. ASSUME NEW e \in app, AppStore(e)
      PROVE  BatchInv'
  BY <1>10 DEF AppStore
<1>11. ASSUME NEW s \in recent, Tick(s)
      PROVE  BatchInv'
  BY <1>11 DEF Tick
<1>12. CASE UNCHANGED vars
  BY <1>12 DEF vars
<1> QED
  BY <1>1, <1>2, <1>3, <1>4, <1>5, <1>6, <1>7, <1>8, <1>9, <1>10, <1>11, <1>12
  DEF Next, PollerStep, PollerFault, Environment

LEMMA HandStep ==
  ASSUME TypeOK, Shape, QueueInv, BatchInv, HandInv, [Next]_vars
  PROVE  HandInv'
<1> USE DEF HandInv, BatchInv, QueueInv, Shape, TypeOK, Objects, Versions, Events, shc, client, rest, Current
<1>1. ASSUME NEW o \in Objects, Change(o)
      PROVE  HandInv'
  BY <1>1 DEF Change
<1>2. CASE Rotate
  BY <1>2 DEF Rotate
<1>3. CASE StartPolling
  BY <1>3 DEF StartPolling, NewSubscription
<1>4. CASE Subscribe
  BY <1>4 DEF Subscribe, NewSubscription
<1>5. CASE SubscribeFails \/ Poll \/ PollReply \/ PollStale \/ Wake
  BY <1>5 DEF SubscribeFails, Poll, PollReply, PollStale, Wake, Sleep
<1>6. CASE PollFails \/ PollRetried
  BY <1>6 DEF PollFails, PollRetried, Sleep, Stranded, ReRead
<1>7. CASE StoreEvent
  BY <1>7 DEF StoreEvent, IsNext
<1>19. CASE IgnoreEvent
  BY <1>19 DEF IgnoreEvent, IsNext
<1>8. CASE Notify \/ RefreshNotify
  BY <1>8 DEF Notify, RefreshNotify, Announce
<1>9. CASE HandlerRaises \/ HandlerStops
  BY <1>9 DEF HandlerRaises, HandlerStops, DropBatch, Sleep, Stranded, ReRead
<1>10. CASE EndBatch \/ EndRefresh
  BY <1>10 DEF EndBatch, EndRefresh
<1>11. ASSUME NEW s \in Services, RefreshFetch(s)
      PROVE  HandInv'
  BY <1>11 DEF RefreshFetch
<1>12. ASSUME NEW s \in Services, RefreshThrottled(s) \/ RefreshFails(s)
      PROVE  HandInv'
  BY <1>12 DEF RefreshThrottled, RefreshFails, Stranded
<1>13. CASE RefreshStore
  BY <1>13 DEF RefreshStore
<1>14. CASE RefreshRaises
  BY <1>14 DEF RefreshRaises, Stranded
<1>15. ASSUME NEW s \in Services, AppFetch(s)
      PROVE  HandInv'
  BY <1>15 DEF AppFetch
<1>16. ASSUME NEW e \in app, AppStore(e)
      PROVE  HandInv'
  BY <1>16 DEF AppStore
<1>17. ASSUME NEW s \in recent, Tick(s)
      PROVE  HandInv'
  BY <1>17 DEF Tick
<1>18. CASE UNCHANGED vars
  BY <1>18 DEF vars
<1> QED
  BY <1>1, <1>2, <1>3, <1>4, <1>5, <1>6, <1>7, <1>8, <1>9, <1>10, <1>11, <1>12, <1>13, <1>14, <1>15, <1>16, <1>17, <1>18, <1>19
  DEF Next, PollerStep, PollerFault, Environment

LEMMA LossStep ==
  ASSUME TypeOK, Shape, QueueInv, BatchInv, HandInv, NoSilentLoss, [Next]_vars
  PROVE  NoSilentLoss'
<1> USE DEF NoSilentLoss, Recoverable, RefreshDue, InHand, Fresh, HandInv, BatchInv, QueueInv, Shape, TypeOK, Objects, Versions, Events, shc, client, rest, Current
<1>1. ASSUME NEW o \in Objects, Change(o)
      PROVE  NoSilentLoss'
  BY <1>1 DEF Change
<1>2. CASE Rotate
  BY <1>2 DEF Rotate
<1>3. CASE StartPolling
  BY <1>3 DEF StartPolling, NewSubscription
<1>4. CASE Subscribe
  BY <1>4 DEF Subscribe, NewSubscription
<1>5. CASE SubscribeFails \/ Poll \/ PollReply \/ PollStale \/ Wake
  BY <1>5 DEF SubscribeFails, Poll, PollReply, PollStale, Wake, Sleep
<1>6. CASE PollFails \/ PollRetried
  BY <1>6 DEF PollFails, PollRetried, Sleep, Stranded, ReRead
<1>7. CASE StoreEvent
  BY <1>7 DEF StoreEvent, IsNext
<1>19. CASE IgnoreEvent
  BY <1>19 DEF IgnoreEvent, IsNext, Stranded, ReRead
<1>8. CASE Notify \/ RefreshNotify
  BY <1>8 DEF Notify, RefreshNotify, Announce
<1>9. CASE HandlerRaises \/ HandlerStops
  BY <1>9 DEF HandlerRaises, HandlerStops, DropBatch, Sleep, Stranded, ReRead
<1>10. CASE EndBatch \/ EndRefresh
  BY <1>10 DEF EndBatch, EndRefresh, ReRead
<1>11. ASSUME NEW s \in Services, RefreshFetch(s)
      PROVE  NoSilentLoss'
  BY <1>11 DEF RefreshFetch
<1>12. ASSUME NEW s \in Services, RefreshThrottled(s) \/ RefreshFails(s)
      PROVE  NoSilentLoss'
  BY <1>12 DEF RefreshThrottled, RefreshFails, Stranded
<1>13. CASE RefreshStore
  BY <1>13 DEF RefreshStore
<1>14. CASE RefreshRaises
  BY <1>14 DEF RefreshRaises, Stranded
<1>15. ASSUME NEW s \in Services, AppFetch(s)
      PROVE  NoSilentLoss'
  BY <1>15 DEF AppFetch
<1>16. ASSUME NEW e \in app, AppStore(e)
      PROVE  NoSilentLoss'
  BY <1>16 DEF AppStore
<1>17. ASSUME NEW s \in recent, Tick(s)
      PROVE  NoSilentLoss'
  BY <1>17 DEF Tick
<1>18. CASE UNCHANGED vars
  BY <1>18 DEF vars
<1> QED
  BY <1>1, <1>2, <1>3, <1>4, <1>5, <1>6, <1>7, <1>8, <1>9, <1>10, <1>11, <1>12, <1>13, <1>14, <1>15, <1>16, <1>17, <1>18, <1>19
  DEF Next, PollerStep, PollerFault, Environment

LEMMA ThrottleStep ==
  ASSUME TypeOK, Shape, ThrottleInv, [Next]_vars
  PROVE  ThrottleInv'
<1> USE DEF ThrottleInv, TypeOK, shc, client, rest
<1>1. ASSUME NEW o \in Objects, Change(o)
      PROVE  ThrottleInv'
  BY <1>1 DEF Change
<1>2. CASE Rotate
  BY <1>2 DEF Rotate
<1>3. CASE StartPolling \/ Subscribe
  BY <1>3 DEF StartPolling, Subscribe, NewSubscription, Shape
<1>4. CASE SubscribeFails \/ Poll \/ PollReply \/ PollStale \/ PollFails \/ PollRetried \/ Wake
  BY <1>4 DEF SubscribeFails, Poll, PollReply, PollStale, PollFails, PollRetried, Wake, Sleep
<1>5. CASE StoreEvent \/ IgnoreEvent \/ Notify \/ EndBatch
  BY <1>5 DEF StoreEvent, IgnoreEvent, Notify, EndBatch, ReRead
<1>6. CASE HandlerRaises \/ HandlerStops
  BY <1>6 DEF HandlerRaises, HandlerStops, Sleep
<1>7. ASSUME NEW s \in Services, RefreshFetch(s) \/ RefreshThrottled(s) \/ RefreshFails(s)
      PROVE  ThrottleInv'
  BY <1>7 DEF RefreshFetch, RefreshThrottled, RefreshFails, Shape
<1>8. CASE RefreshStore
  <2>1. PICK e \in hand : recent' = recent \cup {e[1]}
    BY <1>8 DEF RefreshStore
  <2>2. e[1] \notin todo
    BY <1>8, <2>1 DEF RefreshStore, Shape
  <2>3. pc' = "announce" /\ gets' = gets /\ todo' = todo /\ app' = app /\ hasId' = hasId /\ hasId
    BY <1>8 DEF RefreshStore, Shape
  <2> QED
    BY <2>1, <2>2, <2>3
<1>9. CASE RefreshNotify \/ RefreshRaises \/ EndRefresh
  BY <1>9 DEF RefreshNotify, RefreshRaises, EndRefresh
<1>10. ASSUME NEW s \in Services, AppFetch(s)
       PROVE  ThrottleInv'
  BY <1>10, BoundsAssumption DEF AppFetch
<1>11. ASSUME NEW e \in app, AppStore(e)
       PROVE  ThrottleInv'
  BY <1>11 DEF AppStore
<1>12. ASSUME NEW s \in recent, Tick(s)
       PROVE  ThrottleInv'
  BY <1>12 DEF Tick
<1>13. CASE UNCHANGED vars
  BY <1>13 DEF vars
<1> QED
  BY <1>1, <1>2, <1>3, <1>4, <1>5, <1>6, <1>7, <1>8, <1>9, <1>10, <1>11, <1>12, <1>13
  DEF Next, PollerStep, PollerFault, Environment

\* The history only grows, and the flavour is chosen once.
LEMMA Tallies ==
  ASSUME TypeOK, [Next]_vars
  PROVE  /\ flavour' = flavour
         /\ failed \subseteq failed'
         /\ gets <= gets'
<1> USE DEF TypeOK, rest
<1>1. ASSUME NEW o \in Objects, Change(o)
      PROVE  flavour' = flavour /\ failed' = failed /\ gets' = gets
  BY <1>1 DEF Change
<1>2. CASE Rotate \/ StartPolling \/ Subscribe \/ Poll \/ PollReply \/ PollStale \/ Wake
  BY <1>2 DEF Rotate, StartPolling, Subscribe, Poll, PollReply, PollStale, Wake
<1>3. CASE \/ SubscribeFails \/ PollFails \/ PollRetried \/ IgnoreEvent
           \/ HandlerRaises \/ HandlerStops \/ RefreshRaises
  BY <1>3 DEF SubscribeFails, PollFails, PollRetried, IgnoreEvent, HandlerRaises, HandlerStops, RefreshRaises,
              DropBatch, Fail
<1>4. CASE StoreEvent \/ Notify \/ EndBatch \/ RefreshStore \/ RefreshNotify \/ EndRefresh
  BY <1>4 DEF StoreEvent, Notify, EndBatch, RefreshStore, RefreshNotify, EndRefresh
<1>5. ASSUME NEW s \in Services, RefreshFetch(s) \/ RefreshThrottled(s) \/ RefreshFails(s)
      PROVE  flavour' = flavour /\ failed \subseteq failed' /\ gets' = gets
  BY <1>5 DEF RefreshFetch, RefreshThrottled, RefreshFails, Fail
<1>6. ASSUME NEW s \in Services, AppFetch(s)
      PROVE  flavour' = flavour /\ failed' = failed /\ gets' = gets + 1
  BY <1>6 DEF AppFetch
<1>7. ASSUME NEW e \in app, AppStore(e)
      PROVE  flavour' = flavour /\ failed' = failed /\ gets' = gets
  BY <1>7 DEF AppStore
<1>8. ASSUME NEW s \in recent, Tick(s)
      PROVE  flavour' = flavour /\ failed' = failed /\ gets' = gets
  BY <1>8 DEF Tick
<1>9. CASE UNCHANGED vars
  BY <1>9 DEF vars
<1> QED
  BY <1>1, <1>2, <1>3, <1>4, <1>5, <1>6, <1>7, <1>8, <1>9
  DEF Next, PollerStep, PollerFault, Environment

LEMMA CleanStep ==
  ASSUME TypeOK, Shape, ThrottleInv, ServicesSurviveRotation, [Next]_vars
  PROVE  ServicesSurviveRotation'
<1> SUFFICES ASSUME flavour' = "sync", Undisturbed'
             PROVE  missed' \cap Services = {}
  BY DEF ServicesSurviveRotation
<1>0. flavour = "sync" /\ Undisturbed /\ missed \cap Services = {}
  <2>1. flavour = "sync" /\ failed \subseteq {"subscribe"}
    BY Tallies DEF Undisturbed
  <2>2. gets = 0
    BY Tallies DEF Undisturbed, TypeOK
  <2> QED
    BY <2>1, <2>2 DEF ServicesSurviveRotation, Undisturbed
<1> USE DEF ThrottleInv, TypeOK, shc, client, rest
<1>1. ASSUME NEW o \in Objects, Change(o)
      PROVE  missed' \cap Services = {}
  BY <1>0, <1>1 DEF Change
<1>2. CASE StartPolling
  BY <1>0, <1>2 DEF StartPolling
<1>3. CASE Subscribe
  BY <1>0, <1>3 DEF Subscribe, NewSubscription
<1>4. CASE \/ Rotate \/ SubscribeFails \/ Poll \/ PollReply \/ PollStale \/ Wake
           \/ StoreEvent \/ EndBatch \/ RefreshStore \/ EndRefresh
  BY <1>0, <1>4 DEF Rotate, SubscribeFails, Poll, PollReply, PollStale, Wake,
              StoreEvent, EndBatch, RefreshStore, EndRefresh
<1>5. CASE Notify \/ RefreshNotify
  BY <1>0, <1>5 DEF Notify, RefreshNotify, Announce
<1>6. \A kind \in {"poll", "reply", "event", "handler", "get"} : ~Fail(kind)
  BY DEF Fail, Undisturbed
<1>7. CASE \/ PollFails \/ PollRetried \/ IgnoreEvent
           \/ HandlerRaises \/ HandlerStops \/ RefreshRaises
  BY <1>6, <1>7 DEF PollFails, PollRetried, IgnoreEvent, HandlerRaises, HandlerStops, RefreshRaises, DropBatch
<1>12. ASSUME NEW s \in Services, RefreshFetch(s) \/ RefreshThrottled(s) \/ RefreshFails(s)
      PROVE  missed' \cap Services = {}
  BY <1>6, <1>12, <1>0 DEF RefreshFetch, RefreshThrottled, RefreshFails, Undisturbed
<1>8. ASSUME NEW s \in Services, AppFetch(s)
      PROVE  missed' \cap Services = {}
  BY <1>0, <1>8 DEF AppFetch
<1>9. ASSUME NEW e \in app, AppStore(e)
      PROVE  missed' \cap Services = {}
  BY <1>0, <1>9 DEF Undisturbed
<1>10. ASSUME NEW s \in recent, Tick(s)
       PROVE  missed' \cap Services = {}
  BY <1>0, <1>10 DEF Tick
<1>11. CASE UNCHANGED vars
  BY <1>0, <1>11 DEF vars
<1> QED
  BY <1>0, <1>1, <1>2, <1>3, <1>4, <1>5, <1>7, <1>12, <1>8, <1>9, <1>10, <1>11
  DEF Next, PollerStep, PollerFault, Environment

-----------------------------------------------------------------------------
LEMMA Initially == Init => IInv /\ NoSilentLoss /\ ServicesSurviveRotation
<1> SUFFICES ASSUME Init PROVE IInv /\ NoSilentLoss /\ ServicesSurviveRotation
  OBVIOUS
<1>1. TypeOK
  <2>1. 0 \in Versions
    BY BoundsAssumption DEF Versions
  <2>2. /\ server \in [Objects -> Versions]
        /\ cache \in [Objects -> Versions]
        /\ seen \in [Objects -> Versions]
    BY <2>1 DEF Init
  <2>3. rotations \in Nat /\ faults \in Nat /\ gets \in Nat /\ flavour \in {"sync", "async"}
    BY FlavoursAssumption DEF Init
  <2> QED
    BY <2>2, <2>3 DEF Init, TypeOK
<1>2. Shape /\ QueueInv /\ BatchInv /\ HandInv /\ ThrottleInv
  BY DEF Init, Shape, QueueInv, BatchInv, HandInv, ThrottleInv
<1>3. NoSilentLoss /\ ServicesSurviveRotation
  BY DEF Init, NoSilentLoss, Fresh, ServicesSurviveRotation
<1> QED
  BY <1>1, <1>2, <1>3 DEF IInv

LEMMA Inductive == IInv /\ [Next]_vars => IInv'
  BY TypeStep, ShapeStep, QueueStep, BatchStep, HandStep, ThrottleStep DEF IInv

LEMMA Invariance == Spec => []IInv
<1>1. Init => IInv
  BY Initially
<1> QED
  BY <1>1, Inductive, PTL DEF Spec

\* Every variable keeps its type.
THEOREM TypeCorrect == Spec => []TypeOK
<1>1. IInv => TypeOK
  BY DEF IInv
<1> QED
  BY <1>1, Invariance, PTL

\* No change is lost except where the poller is known to lose it, whatever
\* fails and however the threads interleave.
THEOREM NothingLostSilently == Spec => []NoSilentLoss
<1>1. Init => NoSilentLoss
  BY Initially
<1>2. IInv /\ NoSilentLoss /\ [Next]_vars => NoSilentLoss'
  BY LossStep DEF IInv
<1> QED
  BY <1>1, <1>2, Invariance, PTL DEF Spec

\* The sync session loses no change of a device service over any number of
\* rotations, unless a poll, a handler or a refresh fails.
THEOREM RotationLosesNothing == Spec => []ServicesSurviveRotation
<1>1. Init => ServicesSurviveRotation
  BY Initially
<1>2. IInv /\ ServicesSurviveRotation /\ [Next]_vars => ServicesSurviveRotation'
  BY CleanStep DEF IInv
<1> QED
  BY <1>1, <1>2, Invariance, PTL DEF Spec

\* The throttle of short_poll never swallows part of the poller's re-read.
THEOREM ReReadIsNeverThrottled == Spec => []RefreshNeverThrottled
<1>1. IInv => RefreshNeverThrottled
  BY DEF IInv, ThrottleInv, RefreshNeverThrottled
<1> QED
  BY <1>1, Invariance, PTL

\* Then, while nothing disturbs it, whenever the poller of the sync session is
\* at the top of its loop with a valid subscription and nothing on its way,
\* every service is up to date.
THEOREM QuietIsCurrent == Spec => []UndisturbedMeansCurrent
<1>1. IInv /\ NoSilentLoss /\ ServicesSurviveRotation => UndisturbedMeansCurrent
  BY DEF IInv, Shape, NoSilentLoss, ServicesSurviveRotation, QuietMeansCurrent,
         UndisturbedMeansCurrent, Recoverable, RefreshDue, InHand, Objects
<1> QED
  BY <1>1, Invariance, NothingLostSilently, RotationLosesNothing, PTL

=============================================================================
