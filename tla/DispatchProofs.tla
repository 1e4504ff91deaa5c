--------------------------- MODULE DispatchProofs ---------------------------
(***************************************************************************)
(* Proofs about Dispatch for every set of keys and callbacks, every kind   *)
(* of session and every value of the bounds.                               *)
(***************************************************************************)
EXTENDS Dispatch, SequenceTheorems, TLAPS

Events == [key : Keys, ver : Nat]
Runs == [channels : Seq(Channels), channel : Channels, left : Seq(Callbacks),
         start : Seq(Callbacks), heard : Seq(Callbacks), own : BOOLEAN]
Budgets == {"changes", "subs", "faults", "reads", "vanished"}

\* The parts of TypeOK that different actions change.
TypeBatch ==
    /\ now \in [Stored -> Nat] /\ batch \in Seq(Events)
    /\ \A i, j \in DOMAIN batch :
          i < j /\ batch[i].key = batch[j].key /\ batch[i].key \in Stored =>
              batch[i].ver < batch[j].ver
    /\ \A i \in DOMAIN batch : batch[i].key \in Stored => batch[i].ver <= now[batch[i].key]
TypeHeld == held \in [Stored -> Nat] /\ \A k \in Stored : held[k] <= now[k]
TypeSubs == subs \in [Channels -> Seq(Callbacks)] /\ \A c \in Triggers : Len(subs[c]) <= 1
TypeRead == read \subseteq [vers : [Parts -> Nat], over : SUBSET Parts]

(***************************************************************************)
(* The answer of a re-read is not ahead of the SHC, which TypeOK needs     *)
(* when it is stored.                                                      *)
(***************************************************************************)
ReadNotAhead == \A r \in read, k \in Parts : r.vers[k] <= now[k]

TypeInv == TypeOK /\ ReadNotAhead

LEMMA TypeParts ==
  TypeOK <=> /\ flavour \in Flavours /\ TypeBatch /\ TypeHeld /\ TypeSubs /\ run \in Runs
             /\ TypeRead /\ missed \subseteq Stored /\ used \in [Budgets -> Nat]
  BY DEF TypeOK, TypeBatch, TypeHeld, TypeSubs, Runs, TypeRead, Budgets, Events

LEMMA TypeFromParts ==
  ASSUME flavour' \in Flavours, TypeBatch', TypeHeld', TypeSubs', run' \in Runs, TypeRead',
         missed' \subseteq Stored, used' \in [Budgets -> Nat], ReadNotAhead'
  PROVE  TypeInv'
  BY DEF TypeInv, TypeOK, TypeBatch, TypeHeld, TypeSubs, Runs, TypeRead, Budgets, Events

LEMMA RestingRun == Resting \in Runs
  BY DEF Resting, Runs, Channels

LEMMA TypeInit == Init => TypeInv
<1> SUFFICES ASSUME Init PROVE TypeInv
  OBVIOUS
<1>1. flavour \in Flavours /\ now \in [Stored -> Nat] /\ held \in [Stored -> Nat]
  BY DEF Init
<1>2. \A k \in Stored : held[k] <= now[k]
  BY <1>1 DEF Init
<1>3. TypeBatch
  BY <1>1 DEF Init, TypeBatch
<1>4. TypeSubs
  BY DEF Init, TypeSubs, Channels
<1>5. used \in [Budgets -> Nat]
  BY DEF Init, Budgets
<1> QED
  BY <1>1, <1>2, <1>3, <1>4, <1>5, RestingRun, TypeParts
     DEF Init, TypeInv, TypeHeld, TypeRead, ReadNotAhead

LEMMA SpendType ==
  ASSUME used \in [Budgets -> Nat], NEW b \in Budgets, NEW max, Spend(b, max)
  PROVE  /\ used' \in [Budgets -> Nat] /\ used'[b] = used[b] + 1
         /\ \A x \in Budgets \ {b} : used'[x] = used[x]
  BY DEF Spend

LEMMA TypeArrive ==
  ASSUME TypeInv, NEW k \in Keys, Arrive(k)
  PROVE  TypeInv'
<1> DEFINE e == [key |-> k, ver |-> IF k \in Stored THEN now[k] + 1 ELSE 0]
<1>1. TypeBatch /\ TypeHeld /\ TypeRead /\ ReadNotAhead /\ used \in [Budgets -> Nat]
  BY TypeParts DEF TypeInv
<1>2. now' \in [Stored -> Nat] /\ e \in Events
  BY <1>1 DEF Arrive, TypeBatch, Events
<1>3. \A x \in Stored : now[x] <= now'[x] /\ (x # k => now'[x] = now[x])
  BY <1>1 DEF Arrive, TypeBatch
<1>4. k \in Stored => e.ver = now[k] + 1 /\ now'[k] = e.ver
  BY <1>1 DEF Arrive, TypeBatch
<1>5. batch' = Append(batch, e) /\ e.key = k
  BY DEF Arrive
<1> HIDE DEF e
<1>6. /\ batch' \in Seq(Events) /\ Len(batch') = Len(batch) + 1
      /\ DOMAIN batch' = 1 .. Len(batch) + 1 /\ DOMAIN batch = 1 .. Len(batch)
      /\ Len(batch) \in Nat
      /\ \A i \in 1 .. Len(batch) : batch'[i] = batch[i] /\ batch[i] \in Events
      /\ batch'[Len(batch) + 1] = e
  BY <1>1, <1>2, <1>5, AppendProperties DEF TypeBatch
<1>7. \A i \in DOMAIN batch' : batch'[i].key \in Stored => batch'[i].ver <= now'[batch'[i].key]
  <2> SUFFICES ASSUME NEW i \in DOMAIN batch', batch'[i].key \in Stored
               PROVE  batch'[i].ver <= now'[batch'[i].key]
    OBVIOUS
  <2>1. CASE i = Len(batch) + 1
    BY <1>2, <1>4, <1>5, <1>6, <2>1 DEF Events
  <2>2. CASE i # Len(batch) + 1
    <3>1. i \in DOMAIN batch /\ batch'[i] = batch[i] /\ batch[i] \in Events
      BY <1>6, <2>2
    <3>2. batch[i].ver <= now[batch[i].key] /\ now[batch[i].key] <= now'[batch[i].key]
      BY <1>1, <1>3, <3>1 DEF TypeBatch
    <3> QED
      BY <1>1, <1>2, <3>1, <3>2 DEF TypeBatch, Events
  <2> QED
    BY <2>1, <2>2
<1>8. ASSUME NEW i \in DOMAIN batch', NEW j \in DOMAIN batch',
             i < j, batch'[i].key = batch'[j].key, batch'[i].key \in Stored
      PROVE  batch'[i].ver < batch'[j].ver
  <2>1. i \in DOMAIN batch /\ batch'[i] = batch[i] /\ batch[i] \in Events
    BY <1>6, <1>8
  <2>2. CASE j = Len(batch) + 1
    <3>1. batch[i].ver <= now[k] /\ k \in Stored /\ batch'[j] = e
      BY <1>1, <1>5, <1>6, <1>8, <2>1, <2>2 DEF TypeBatch
    <3> QED
      BY <1>1, <1>4, <2>1, <3>1 DEF TypeBatch, Events
  <2>3. CASE j # Len(batch) + 1
    BY <1>1, <1>6, <1>8, <2>1, <2>3 DEF TypeBatch
  <2> QED
    BY <2>2, <2>3
<1>9. TypeBatch'
  BY <1>2, <1>6, <1>7, <1>8 DEF TypeBatch
<1>10. TypeHeld'
  BY <1>1, <1>2, <1>3 DEF Arrive, TypeHeld, TypeBatch
<1>11. ReadNotAhead'
  <2> SUFFICES ASSUME NEW r \in read, NEW p \in Parts PROVE r.vers[p] <= now'[p]
    BY DEF Arrive, ReadNotAhead
  <2>1. r.vers[p] \in Nat /\ p \in Stored /\ r.vers[p] <= now[p]
    BY <1>1 DEF TypeRead, ReadNotAhead, Stored
  <2> QED
    BY <1>1, <1>2, <1>3, <2>1 DEF TypeBatch
<1>12. used' \in [Budgets -> Nat]
  BY <1>1, SpendType DEF Arrive, Budgets
<1> QED
  <2>1. /\ flavour \in Flavours /\ TypeSubs /\ run \in Runs /\ TypeRead
        /\ missed \subseteq Stored
    BY TypeParts DEF TypeInv
  <2>2. UNCHANGED <<flavour, subs, run, read, missed>>
    BY DEF Arrive
  <2>3. TypeSubs' /\ TypeRead'
    BY <2>1, <2>2 DEF TypeSubs, TypeRead
  <2> QED
    BY <1>9, <1>10, <1>11, <1>12, <2>1, <2>2, <2>3, TypeFromParts

\* What is left of the batch when the first n events are gone.
LEMMA Rest ==
  ASSUME TypeBatch, NEW n \in 0 .. Len(batch)
  PROVE  LET rest == SubSeq(batch, n + 1, Len(batch))
         IN  /\ rest \in Seq(Events) /\ Len(rest) = Len(batch) - n
             /\ \A i \in 1 .. Len(batch) - n : rest[i] = batch[i + n]
  BY DEF TypeBatch

LEMMA RestType ==
  ASSUME TypeBatch, NEW n \in 0 .. Len(batch), now' = now,
         batch' = SubSeq(batch, n + 1, Len(batch))
  PROVE  TypeBatch'
<1>1. /\ batch' \in Seq(Events) /\ Len(batch') = Len(batch) - n
      /\ \A i \in 1 .. Len(batch) - n : batch'[i] = batch[i + n]
  BY Rest
<1>2. /\ DOMAIN batch' = 1 .. Len(batch) - n /\ DOMAIN batch = 1 .. Len(batch)
      /\ Len(batch) \in Nat /\ n \in Nat
  BY <1>1 DEF TypeBatch
<1>3. ASSUME NEW i \in DOMAIN batch'
      PROVE  i + n \in DOMAIN batch /\ batch'[i] = batch[i + n]
  <2>1. i \in 1 .. Len(batch) - n
    BY <1>2
  <2>2. i + n \in 1 .. Len(batch)
    BY <1>2, <2>1
  <2>3. batch'[i] = batch[i + n]
    BY <1>1, <2>1
  <2> QED
    BY <1>2, <2>2, <2>3
<1>4. ASSUME NEW i \in DOMAIN batch', NEW j \in DOMAIN batch',
             i < j, batch'[i].key = batch'[j].key, batch'[i].key \in Stored
      PROVE  batch'[i].ver < batch'[j].ver
  <2>1. i + n < j + n
    BY <1>2, <1>4
  <2> QED
    BY <1>3, <1>4, <2>1 DEF TypeBatch
<1>5. \A i \in DOMAIN batch' : batch'[i].key \in Stored =>
         batch'[i].ver <= now'[batch'[i].key]
  BY <1>3 DEF TypeBatch
<1> QED
  BY <1>1, <1>4, <1>5 DEF TypeBatch

LEMMA TailIsRest ==
  ASSUME TypeBatch, batch # <<>>
  PROVE  /\ Tail(batch) = SubSeq(batch, 1 + 1, Len(batch)) /\ 1 \in 1 .. Len(batch)
         /\ Head(batch) = batch[1] /\ Head(batch) \in Events
  BY TailIsSubSeq, HeadTailProperties DEF TypeBatch

LEMMA OvertakeType ==
  ASSUME TypeInv, NEW gone, Overtake(gone), now' = now
  PROVE  TypeRead' /\ ReadNotAhead'
<1>1. TypeRead /\ ReadNotAhead
  BY TypeParts DEF TypeInv
<1>2. ASSUME NEW r \in read
      PROVE  LET o == {x.key : x \in {e \in gone : e.key \in Parts /\ e.ver > r.vers[e.key]}}
             IN  /\ [r EXCEPT !.over = @ \cup o] \in [vers : [Parts -> Nat], over : SUBSET Parts]
                 /\ [r EXCEPT !.over = @ \cup o].vers = r.vers
  <2>1. {x.key : x \in {e \in gone : e.key \in Parts /\ e.ver > r.vers[e.key]}} \subseteq Parts
    OBVIOUS
  <2>2. r \in [vers : [Parts -> Nat], over : SUBSET Parts]
    BY <1>1 DEF TypeRead
  <2> QED
    BY <2>1, <2>2
<1>3. \A s \in read' : \E r \in read :
        s \in [vers : [Parts -> Nat], over : SUBSET Parts] /\ s.vers = r.vers
  BY <1>2 DEF Overtake
<1> QED
  BY <1>1, <1>3 DEF TypeRead, ReadNotAhead

LEMMA LookedType ==
  ASSUME NEW k \in Keys
  PROVE  Looked(k) \in Seq(Channels)
<1>1. CASE k \in Scenarios
  <2>1. k \in Channels /\ "shc" \in Channels
    BY <1>1 DEF Channels, Triggers
  <2> QED
    BY <1>1, <2>1 DEF Looked
<1>2. CASE k \in States
  <2>1. k \in Channels /\ "new" \in Channels /\ "IDS" \in Channels
    BY <1>2 DEF Channels, Triggers
  <2>2. CASE k \in Scenarios
    BY <1>1, <2>2
  <2>3. CASE k \notin Scenarios
    BY <1>2, <2>1, <2>3 DEF Looked
  <2> QED
    BY <2>2, <2>3
<1>3. CASE k \notin Scenarios \cup States
  <2>1. "IDS" \in Channels /\ "EMMA" \in Channels
    BY DEF Channels
  <2> QED
    BY <1>3, <2>1 DEF Looked
<1> QED
  BY <1>1, <1>2, <1>3

LEMMA DropType ==
  ASSUME TypeInv, NEW least \in {0, 1}, Drop(least), now' = now
  PROVE  TypeBatch' /\ TypeRead' /\ ReadNotAhead' /\ missed' \subseteq Stored
<1>1. TypeBatch /\ missed \subseteq Stored
  BY TypeParts DEF TypeInv
<1>2. PICK n \in least .. Len(batch) :
        LET gone == {batch[i] : i \in 1 .. n}
        IN  /\ batch' = SubSeq(batch, n + 1, Len(batch))
            /\ missed' = missed \cup ({e.key : e \in gone} \cap Stored)
            /\ Overtake(gone)
  BY DEF Drop
<1>3. n \in 0 .. Len(batch)
  BY <1>1 DEF TypeBatch
<1>4. TypeBatch'
  BY <1>1, <1>2, <1>3, RestType
<1> QED
  BY <1>1, <1>2, <1>4, OvertakeType

LEMMA TypeTake ==
  ASSUME TypeInv, Take
  PROVE  TypeInv'
<1> DEFINE e == Head(batch)
<1>1. /\ flavour \in Flavours /\ TypeBatch /\ TypeHeld /\ TypeSubs /\ TypeRead
      /\ missed \subseteq Stored /\ used \in [Budgets -> Nat]
  BY TypeParts DEF TypeInv
<1>2. /\ batch' = SubSeq(batch, 1 + 1, Len(batch)) /\ 1 \in 1 .. Len(batch)
      /\ e = batch[1] /\ e \in Events
  BY <1>1, TailIsRest DEF Take
<1>3. UNCHANGED <<flavour, now, subs, used>> /\ missed' = missed \ {e.key} /\ Overtake({e})
  BY DEF Take
<1>4. held' = IF e.key \in Stored THEN [held EXCEPT ![e.key] = e.ver] ELSE held
  BY DEF Take
<1>5. run' = [Resting EXCEPT !.channels = Looked(e.key)]
  BY DEF Take
<1>6. e.key \in Stored => e.ver <= now[e.key]
  BY <1>1, <1>2 DEF TypeBatch
<1> HIDE DEF e
<1>7. TypeHeld'
  BY <1>1, <1>2, <1>3, <1>4, <1>6 DEF TypeHeld, TypeBatch, Events
<1>8. run' \in Runs
  BY <1>2, <1>5, LookedType, RestingRun DEF Events, Resting, Runs
<1>9. TypeBatch'
  BY <1>1, <1>2, <1>3, RestType
<1>10. TypeRead' /\ ReadNotAhead'
  BY <1>3, OvertakeType
<1>11. TypeSubs'
  BY <1>1, <1>3 DEF TypeSubs
<1> QED
  BY <1>1, <1>3, <1>7, <1>8, <1>9, <1>10, <1>11, TypeFromParts

LEMMA TypeRaises ==
  ASSUME TypeInv, TakeRaises \/ CallRaises \/ CallVanished
  PROVE  TypeInv'
<1>1. /\ flavour \in Flavours /\ TypeHeld /\ TypeSubs /\ run \in Runs
      /\ used \in [Budgets -> Nat]
  BY TypeParts DEF TypeInv
<1>2. UNCHANGED <<flavour, now, held, subs>>
  BY DEF TakeRaises, CallRaises, CallVanished
<1>3. TypeBatch' /\ TypeRead' /\ ReadNotAhead' /\ missed' \subseteq Stored
  BY <1>2, DropType DEF TakeRaises, CallRaises, CallVanished
<1>4. used' \in [Budgets -> Nat]
  BY <1>1, SpendType DEF TakeRaises, CallRaises, CallVanished, Budgets
<1>5. run' \in Runs
  BY <1>1, RestingRun DEF TakeRaises, CallRaises, CallVanished
<1>6. TypeHeld' /\ TypeSubs'
  BY <1>1, <1>2 DEF TypeHeld, TypeSubs
<1> QED
  BY <1>1, <1>2, <1>3, <1>4, <1>5, <1>6, TypeFromParts

LEMMA CalledType ==
  ASSUME NEW r \in Runs, r.left # <<>>
  PROVE  /\ Called(r) \in Runs
         /\ Called(r).left = Tail(r.left) /\ Called(r).heard = Append(r.heard, Head(r.left))
         /\ Called(r).channel = r.channel /\ Called(r).own = r.own
         /\ Called(r).start = r.start /\ Called(r).channels = r.channels
<1>1. r.left \in Seq(Callbacks) /\ r.heard \in Seq(Callbacks)
  BY DEF Runs
<1>2. Tail(r.left) \in Seq(Callbacks) /\ Append(r.heard, Head(r.left)) \in Seq(Callbacks)
  BY <1>1, HeadTailProperties, AppendProperties
<1> QED
  BY <1>2 DEF Called, Runs

LEMMA EnteredType ==
  ASSUME NEW list \in Seq(Callbacks), NEW c \in Channels, NEW cb \in Callbacks
  PROVE  /\ Entered(list, c, cb) \in Seq(Callbacks)
         /\ c \in Triggers => Len(Entered(list, c, cb)) <= 1
  BY AppendProperties DEF Entered

LEMMA RemovedType ==
  ASSUME NEW list \in Seq(Callbacks), NEW c \in Channels, NEW cb \in Callbacks
  PROVE  /\ Removed(list, c, cb) \in Seq(Callbacks)
         /\ c \in Triggers => Removed(list, c, cb) = <<>>
<1>1. CASE c \in Triggers \cup States \/ ~Contains(list, cb)
  BY <1>1 DEF Removed
<1>2. CASE c \notin Triggers \cup States /\ Contains(list, cb)
  <2> DEFINE i == CHOOSE x \in DOMAIN list : list[x] = cb
  <2>1. i \in 1 .. Len(list)
    BY <1>2 DEF Contains
  <2> HIDE DEF i
  <2>2. SubSeq(list, 1, i - 1) \in Seq(Callbacks)
    BY <2>1
  <2>3. SubSeq(list, i + 1, Len(list)) \in Seq(Callbacks)
    BY <2>1
  <2>4. RemoveAt(list, i) \in Seq(Callbacks)
    BY <2>2, <2>3, ConcatProperties DEF RemoveAt
  <2> QED
    BY <1>2, <2>4 DEF Removed, i
<1> QED
  BY <1>1, <1>2

LEMMA SeenType ==
  ASSUME NEW r \in Runs, NEW c, NEW cb \in Callbacks
  PROVE  Seen(r, c, cb) \in Runs
<1>1. Append(r.left, cb) \in Seq(Callbacks) /\ <<cb>> \in Seq(Callbacks)
  BY AppendProperties DEF Runs
<1> QED
  BY <1>1 DEF Seen, Runs

LEMMA ChangesType ==
  ASSUME TypeSubs, used \in [Budgets -> Nat], NEW r \in Runs, Changes(r)
  PROVE  TypeSubs' /\ run' \in Runs /\ used' \in [Budgets -> Nat]
<1>1. PICK c \in Channels, cb \in Callbacks : Subscribe(r, c, cb) \/ Unsubscribe(r, c, cb)
  BY DEF Changes
<1>2. used' \in [Budgets -> Nat]
  BY <1>1, SpendType DEF Subscribe, Unsubscribe, Budgets
<1>3. subs[c] \in Seq(Callbacks)
  BY DEF TypeSubs
<1>4. CASE Subscribe(r, c, cb)
  <2>1. TypeSubs'
    <3>1. subs' = [subs EXCEPT ![c] = Entered(subs[c], c, cb)]
      BY <1>4 DEF Subscribe
    <3>2. /\ Entered(subs[c], c, cb) \in Seq(Callbacks)
          /\ c \in Triggers => Len(Entered(subs[c], c, cb)) <= 1
      BY <1>3, EnteredType
    <3> QED
      BY <3>1, <3>2 DEF TypeSubs
  <2>2. run' \in Runs
    BY <1>4, SeenType DEF Subscribe
  <2> QED
    BY <1>2, <2>1, <2>2
<1>5. CASE Unsubscribe(r, c, cb)
  <2>1. TypeSubs'
    <3>1. subs' = [subs EXCEPT ![c] = Removed(subs[c], c, cb)]
      BY <1>5 DEF Unsubscribe
    <3>2. Removed(subs[c], c, cb) \in Seq(Callbacks)
          /\ (c \in Triggers => Len(Removed(subs[c], c, cb)) = 0)
      BY <1>3, RemovedType
    <3> QED
      BY <3>1, <3>2 DEF TypeSubs
  <2>2. run' \in Runs
    BY <1>5 DEF Unsubscribe, Runs
  <2> QED
    BY <1>2, <2>1, <2>2
<1> QED
  BY <1>1, <1>4, <1>5

LEMMA TypeRun ==
  ASSUME TypeInv, LookUp \/ Finish \/ Call \/ CallChanges \/ OthersChange
  PROVE  TypeInv'
<1>1. /\ flavour \in Flavours /\ TypeBatch /\ TypeHeld /\ TypeSubs /\ run \in Runs /\ TypeRead
      /\ missed \subseteq Stored /\ used \in [Budgets -> Nat] /\ ReadNotAhead
  BY TypeParts DEF TypeInv
<1>2. UNCHANGED <<flavour, now, batch, held, read, missed>>
  BY DEF LookUp, Finish, Call, CallChanges, OthersChange
<1>3. TypeBatch' /\ TypeHeld' /\ TypeRead' /\ ReadNotAhead'
  BY <1>1, <1>2 DEF TypeBatch, TypeHeld, TypeRead, ReadNotAhead
<1>4. TypeSubs' /\ run' \in Runs /\ used' \in [Budgets -> Nat]
  <2>1. CASE LookUp
    <3>1. Head(run.channels) \in Channels /\ Tail(run.channels) \in Seq(Channels)
      BY <1>1, <2>1, HeadTailProperties DEF LookUp, Runs
    <3>2. subs[Head(run.channels)] \in Seq(Callbacks) /\ Own(Head(run.channels)) \in BOOLEAN
      BY <1>1, <3>1 DEF TypeSubs, Own
    <3>3. run' \in Runs
      BY <1>1, <2>1, <3>1, <3>2 DEF LookUp, Runs
    <3> QED
      BY <1>1, <2>1, <3>3 DEF LookUp, TypeSubs
  <2>2. CASE Finish
    BY <1>1, <2>2, RestingRun DEF Finish, TypeSubs
  <2>3. CASE Call
    BY <1>1, <2>3, CalledType DEF Call, TypeSubs
  <2>4. CASE CallChanges
    BY <1>1, <2>4, CalledType, ChangesType DEF CallChanges
  <2>5. CASE OthersChange
    BY <1>1, <2>5, ChangesType DEF OthersChange
  <2> QED
    BY <2>1, <2>2, <2>3, <2>4, <2>5
<1> QED
  BY <1>1, <1>2, <1>3, <1>4, TypeFromParts

LEMMA TypeReads ==
  ASSUME TypeInv, ReadDomain \/ StoreDomain
  PROVE  TypeInv'
<1>1. /\ flavour \in Flavours /\ TypeBatch /\ TypeHeld /\ TypeSubs /\ run \in Runs /\ TypeRead
      /\ missed \subseteq Stored /\ used \in [Budgets -> Nat] /\ ReadNotAhead
  BY TypeParts DEF TypeInv
<1>2. Parts \subseteq Stored
  BY DEF Stored
<1>3. UNCHANGED <<flavour, now, batch, subs, run>>
  BY DEF ReadDomain, StoreDomain
<1>4. TypeBatch' /\ TypeSubs'
  BY <1>1, <1>3 DEF TypeBatch, TypeSubs
<1>5. CASE ReadDomain
  <2>1. used' \in [Budgets -> Nat] /\ held' = held /\ missed' = missed
    BY <1>1, <1>5, SpendType DEF ReadDomain, Budgets
  <2>2. [k \in Parts |-> now[k]] \in [Parts -> Nat]
    BY <1>1, <1>2 DEF TypeBatch
  <2>3. TypeRead'
    BY <1>5, <2>2 DEF ReadDomain, TypeRead
  <2>4. ReadNotAhead'
    BY <1>1, <1>2, <1>5 DEF ReadDomain, ReadNotAhead, TypeBatch
  <2> QED
    BY <1>1, <1>3, <1>4, <2>1, <2>3, <2>4, TypeFromParts DEF TypeHeld
<1>6. CASE StoreDomain
  <2>1. PICK r \in read :
          /\ held' = [k \in Stored |-> IF k \in Parts THEN r.vers[k] ELSE held[k]]
          /\ missed' = (missed \ Parts) \cup r.over
    BY <1>6 DEF StoreDomain
  <2>2. r.vers \in [Parts -> Nat] /\ r.over \subseteq Parts
    BY <1>1 DEF TypeRead
  <2>3. TypeHeld'
    BY <1>1, <1>3, <2>1, <2>2 DEF TypeHeld, ReadNotAhead
  <2>4. missed' \subseteq Stored
    BY <1>1, <1>2, <2>1, <2>2
  <2>5. TypeRead' /\ ReadNotAhead' /\ used' = used
    BY <1>6 DEF StoreDomain, TypeRead, ReadNotAhead
  <2> QED
    BY <1>1, <1>3, <1>4, <2>3, <2>4, <2>5, TypeFromParts
<1> QED
  BY <1>5, <1>6

LEMMA TypeStep ==
  ASSUME TypeInv, [Next]_vars
  PROVE  TypeInv'
<1>1. CASE UNCHANGED vars
  BY <1>1 DEF vars, TypeInv, TypeOK, ReadNotAhead
<1> QED
  BY <1>1, TypeArrive, TypeTake, TypeRaises, TypeRun, TypeReads DEF Next

(***************************************************************************)
(* The variables of Dispatch keep their types, events of one key are on    *)
(* their way in the order they happened, and a scenario has one callback.  *)
(***************************************************************************)
THEOREM TypeCorrect == Spec => []TypeOK
<1>1. TypeInv => TypeOK
  BY DEF TypeInv
<1>2. TypeInv /\ [Next]_vars => TypeInv'
  BY TypeStep
<1> QED
  BY <1>1, <1>2, TypeInit, PTL DEF Spec

-----------------------------------------------------------------------------
(* What is held.                                                           *)

\* The latest version of k is on its way, at or behind position i.
Coming(k, i) ==
    \E j \in DOMAIN batch : i <= j /\ batch[j].key = k /\ batch[j].ver = now[k]

\* An event of a key has the latest one at or behind it.
LatestBehind == \A i \in DOMAIN batch : batch[i].key \in Stored => Coming(batch[i].key, i)

\* A key is current, or its latest version on its way, or it is missed.
HeldInv == \A k \in Stored \ missed : held[k] = now[k] \/ Coming(k, 1)

\* So it is for what an answer on its way would store.
AnswerInv == \A r \in read, k \in Parts : k \in r.over \/ r.vers[k] = now[k] \/ Coming(k, 1)

DataInv == TypeInv /\ LatestBehind /\ HeldInv /\ AnswerInv

LEMMA DataInit == Init => DataInv
  BY TypeInit DEF Init, DataInv, LatestBehind, HeldInv, AnswerInv

\* Only the events taken from the front are no longer coming.
LEMMA ComingBehind ==
  ASSUME TypeBatch, NEW n \in 0 .. Len(batch), now' = now,
         batch' = SubSeq(batch, n + 1, Len(batch)), NEW k, NEW i \in Nat \ {0},
         Coming(k, i + n)
  PROVE  Coming(k, i)'
<1>1. /\ batch' \in Seq(Events) /\ Len(batch') = Len(batch) - n
      /\ \A x \in 1 .. Len(batch) - n : batch'[x] = batch[x + n]
  BY Rest
<1>2. PICK j \in DOMAIN batch : i + n <= j /\ batch[j].key = k /\ batch[j].ver = now[k]
  BY DEF Coming
<1>3. DOMAIN batch' = 1 .. Len(batch) - n /\ j \in 1 .. Len(batch) /\ n \in Nat
      /\ Len(batch) \in Nat
  BY <1>1, <1>2 DEF TypeBatch
<1>4. j - n \in 1 .. Len(batch) - n /\ i <= j - n
  BY <1>2, <1>3
<1>5. batch'[j - n] = batch[j - n + n] /\ j - n \in DOMAIN batch'
  BY <1>1, <1>3, <1>4
<1>6. j - n + n = j
  BY <1>3
<1> QED
  BY <1>2, <1>4, <1>5, <1>6 DEF Coming

LEMMA GoneOrComing ==
  ASSUME TypeBatch, NEW n \in 0 .. Len(batch), NEW k, Coming(k, 1)
  PROVE  Coming(k, 1 + n) \/ \E j \in 1 .. n : batch[j].key = k /\ batch[j].ver = now[k]
<1>1. PICK j \in DOMAIN batch : batch[j].key = k /\ batch[j].ver = now[k]
  BY DEF Coming
<1>2. j \in 1 .. Len(batch) /\ n \in Nat /\ Len(batch) \in Nat
  BY <1>1 DEF TypeBatch
<1>3. CASE j <= n
  BY <1>1, <1>2, <1>3
<1>4. CASE 1 + n <= j
  BY <1>1, <1>4 DEF Coming
<1> QED
  BY <1>2, <1>3, <1>4

\* Of what is left, an event still has the latest one behind it.
LEMMA LatestKept ==
  ASSUME TypeBatch, LatestBehind, NEW n \in 0 .. Len(batch), now' = now,
         batch' = SubSeq(batch, n + 1, Len(batch))
  PROVE  LatestBehind'
<1> SUFFICES ASSUME NEW i \in DOMAIN batch', batch'[i].key \in Stored
             PROVE  \E j \in DOMAIN batch' : /\ i <= j /\ batch'[j].key = batch'[i].key
                                             /\ batch'[j].ver = now'[batch'[i].key]
  BY DEF LatestBehind, Coming
<1>1. /\ batch' \in Seq(Events) /\ Len(batch') = Len(batch) - n
      /\ \A x \in 1 .. Len(batch) - n : batch'[x] = batch[x + n]
  BY Rest
<1>2. i \in 1 .. Len(batch) - n /\ n \in Nat /\ Len(batch) \in Nat
      /\ DOMAIN batch = 1 .. Len(batch)
  BY <1>1 DEF TypeBatch
<1>3. i + n \in DOMAIN batch /\ i \in Nat \ {0}
  BY <1>2
<1>4. batch'[i] = batch[i + n]
  BY <1>1, <1>2
<1>5. Coming(batch[i + n].key, i + n)
  BY <1>3, <1>4 DEF LatestBehind
<1>6. ASSUME NEW x, Coming(x, i + n)
      PROVE  \E j \in DOMAIN batch' : i <= j /\ batch'[j].key = x /\ batch'[j].ver = now'[x]
  <2>1. Coming(x, i)'
    BY <1>3, <1>6, ComingBehind
  <2> QED
    BY <2>1 DEF Coming
<1> QED
  BY <1>4, <1>5, <1>6

LEMMA DataArrive ==
  ASSUME DataInv, NEW k \in Keys, Arrive(k)
  PROVE  DataInv'
<1> DEFINE e == [key |-> k, ver |-> IF k \in Stored THEN now[k] + 1 ELSE 0]
           last == Len(batch) + 1
<1>1. TypeBatch /\ TypeHeld /\ TypeRead
  BY TypeParts DEF DataInv, TypeInv
<1>2. TypeInv'
  BY TypeArrive DEF DataInv
<1>3. e \in Events
  BY <1>1 DEF TypeBatch, Events
<1>4. /\ \A x \in Stored \ {k} : now'[x] = now[x]
      /\ k \in Stored => now'[k] = e.ver
  BY <1>1 DEF Arrive, TypeBatch
<1>5. batch' = Append(batch, e) /\ e.key = k
  BY DEF Arrive
<1> HIDE DEF e
<1>6. /\ DOMAIN batch' = 1 .. last /\ DOMAIN batch = 1 .. Len(batch) /\ Len(batch) \in Nat
      /\ \A i \in DOMAIN batch : batch'[i] = batch[i]
      /\ batch'[last] = e
  BY <1>1, <1>3, <1>5, AppendProperties DEF TypeBatch
<1>7. ASSUME NEW x \in Stored \ {k}, NEW i, Coming(x, i)
      PROVE  Coming(x, i)'
  BY <1>4, <1>6, <1>7 DEF Coming
<1>8. ASSUME k \in Stored, NEW i \in 1 .. last
      PROVE  Coming(k, i)'
  BY <1>4, <1>5, <1>6, <1>8 DEF Coming
<1>9. ASSUME NEW i \in DOMAIN batch', batch'[i].key \in Stored
      PROVE  \E j \in DOMAIN batch' :
                i <= j /\ batch'[j].key = batch'[i].key /\ batch'[j].ver = now'[batch'[i].key]
  <2>1. CASE batch'[i].key = k
    BY <1>6, <1>8, <1>9, <2>1 DEF Coming
  <2>2. CASE batch'[i].key # k
    <3>1. i \in DOMAIN batch /\ batch'[i] = batch[i]
      BY <1>5, <1>6, <2>2
    <3>2. Coming(batch[i].key, i)
      BY <1>9, <3>1 DEF DataInv, LatestBehind
    <3>3. PICK j \in DOMAIN batch : i <= j /\ batch[j].key = batch[i].key
                                   /\ batch[j].ver = now[batch[i].key]
      BY <3>2 DEF Coming
    <3> QED
      BY <1>4, <1>6, <1>9, <2>2, <3>1, <3>3
  <2> QED
    BY <2>1, <2>2
<1>10. LatestBehind'
  BY <1>9 DEF LatestBehind, Coming
<1>11. HeldInv'
  <2> SUFFICES ASSUME NEW x \in Stored \ missed, held[x] # now'[x] PROVE Coming(x, 1)'
    BY DEF Arrive, HeldInv
  <2>1. CASE x = k
    BY <1>6, <1>8, <2>1
  <2>2. CASE x # k
    BY <1>4, <1>7, <2>2 DEF DataInv, HeldInv
  <2> QED
    BY <2>1, <2>2
<1>12. AnswerInv'
  <2> SUFFICES ASSUME NEW a \in read, NEW x \in Parts, x \notin a.over, a.vers[x] # now'[x]
               PROVE  Coming(x, 1)'
    BY DEF Arrive, AnswerInv
  <2>1. x \in Stored
    BY DEF Stored
  <2>2. CASE x = k
    BY <1>6, <1>8, <2>1, <2>2
  <2>3. CASE x # k
    BY <1>4, <1>7, <2>1, <2>3 DEF DataInv, AnswerInv
  <2> QED
    BY <2>2, <2>3
<1> QED
  BY <1>2, <1>10, <1>11, <1>12 DEF DataInv

LEMMA AnswerKept ==
  ASSUME DataInv, NEW n \in 0 .. Len(batch), now' = now,
         batch' = SubSeq(batch, n + 1, Len(batch)), Overtake({batch[i] : i \in 1 .. n})
  PROVE  AnswerInv'
<1>1. TypeBatch /\ TypeRead /\ ReadNotAhead
  BY TypeParts DEF DataInv, TypeInv
<1> DEFINE Gone == {batch[i] : i \in 1 .. n}
           Over(a) == {x.key : x \in {e \in Gone : e.key \in Parts /\ e.ver > a.vers[e.key]}}
<1> SUFFICES ASSUME NEW b \in read', NEW k \in Parts, k \notin b.over, b.vers[k] # now[k]
             PROVE  Coming(k, 1)'
  BY DEF AnswerInv
<1>2. PICK a \in read : b = [a EXCEPT !.over = @ \cup Over(a)]
  BY DEF Overtake
<1>3. a \in [vers : [Parts -> Nat], over : SUBSET Parts]
  BY <1>1 DEF TypeRead
<1>4. b.vers = a.vers /\ b.over = a.over \cup Over(a)
  BY <1>2, <1>3
<1>5. Coming(k, 1)
  BY <1>4 DEF DataInv, AnswerInv
<1>6. ASSUME NEW j \in 1 .. n, batch[j].key = k, batch[j].ver = now[k]
      PROVE  FALSE
  <2>1. a.vers[k] \in Nat /\ now[k] \in Nat /\ a.vers[k] <= now[k]
    BY <1>1, <1>3 DEF ReadNotAhead, TypeBatch, Stored
  <2>2. batch[j].ver > a.vers[batch[j].key]
    BY <1>4, <1>6, <2>1
  <2>3. batch[j] \in Gone
    OBVIOUS
  <2>4. k \in Over(a)
    BY <1>6, <2>2, <2>3
  <2> QED
    BY <1>4, <2>4
<1>7. Coming(k, 1 + n)
  BY <1>1, <1>5, <1>6, GoneOrComing
<1> QED
  BY <1>1, <1>7, ComingBehind

LEMMA DataDrop ==
  ASSUME DataInv, TakeRaises \/ CallRaises \/ CallVanished
  PROVE  LatestBehind' /\ HeldInv' /\ AnswerInv'
<1>1. TypeBatch
  BY TypeParts DEF DataInv, TypeInv
<1>2. UNCHANGED <<now, held>> /\ (Drop(0) \/ Drop(1))
  BY DEF TakeRaises, CallRaises, CallVanished
<1>3. PICK n \in 0 .. Len(batch) :
        LET gone == {batch[i] : i \in 1 .. n}
        IN  /\ batch' = SubSeq(batch, n + 1, Len(batch))
            /\ missed' = missed \cup ({e.key : e \in gone} \cap Stored)
            /\ Overtake(gone)
  <2>1. 1 .. Len(batch) \subseteq 0 .. Len(batch)
    BY <1>1 DEF TypeBatch
  <2> QED
    BY <1>2, <2>1 DEF Drop
<1>4. LatestBehind' /\ AnswerInv'
  BY <1>1, <1>2, <1>3, LatestKept, AnswerKept DEF DataInv
<1>5. ASSUME NEW k \in Stored \ missed', held'[k] # now'[k]
      PROVE  Coming(k, 1)'
  <2>1. k \in Stored \ missed /\ Coming(k, 1)
    BY <1>2, <1>3, <1>5 DEF DataInv, HeldInv
  <2>2. \A j \in 1 .. n : batch[j].key # k
    BY <1>3, <1>5
  <2>3. Coming(k, 1 + n)
    BY <1>1, <2>1, <2>2, GoneOrComing
  <2>4. batch' = SubSeq(batch, n + 1, Len(batch)) /\ now' = now
    BY <1>2, <1>3
  <2> QED
    BY <1>1, <2>3, <2>4, ComingBehind
<1> QED
  BY <1>4, <1>5 DEF HeldInv

LEMMA DataTake ==
  ASSUME DataInv, Take
  PROVE  LatestBehind' /\ HeldInv' /\ AnswerInv'
<1> DEFINE e == Head(batch)
<1>1. TypeBatch /\ TypeHeld
  BY TypeParts DEF DataInv, TypeInv
<1>2. /\ batch' = SubSeq(batch, 1 + 1, Len(batch)) /\ 1 \in 1 .. Len(batch)
      /\ e = batch[1] /\ e \in Events /\ 1 \in 0 .. Len(batch)
  BY <1>1, TailIsRest DEF Take
<1>3. UNCHANGED now /\ missed' = missed \ {e.key} /\ Overtake({e})
  BY DEF Take
<1>4. held' = IF e.key \in Stored THEN [held EXCEPT ![e.key] = e.ver] ELSE held
  BY DEF Take
<1>5. {batch[i] : i \in 1 .. 1} = {e}
  BY <1>2
<1> HIDE DEF e
<1>6. LatestBehind' /\ AnswerInv'
  BY <1>1, <1>2, <1>3, <1>5, LatestKept, AnswerKept DEF DataInv
<1>7. ASSUME NEW k \in Stored \ missed', held'[k] # now'[k]
      PROVE  Coming(k, 1)'
  <2>1. Coming(k, 1)
    <3>1. CASE k = e.key
      BY <1>1, <1>2, <3>1 DEF DataInv, LatestBehind, TypeBatch
    <3>2. CASE k # e.key
      BY <1>1, <1>3, <1>4, <1>7, <3>2 DEF DataInv, HeldInv, TypeHeld
    <3> QED
      BY <3>1, <3>2
  <2>2. ~(batch[1].key = k /\ batch[1].ver = now[k])
    BY <1>1, <1>2, <1>3, <1>4, <1>7 DEF TypeHeld
  <2>3. \A j \in 1 .. 1 : j = 1
    OBVIOUS
  <2>4. PICK n \in 0 .. Len(batch) : n = 1
    BY <1>2
  <2>5. batch' = SubSeq(batch, n + 1, Len(batch)) /\ \A j \in 1 .. n : j = 1
    BY <1>2, <2>3, <2>4
  <2>6. Coming(k, 1 + n)
    BY <1>1, <2>1, <2>2, <2>5, GoneOrComing
  <2> QED
    BY <1>1, <1>3, <2>5, <2>6, ComingBehind
<1> QED
  BY <1>6, <1>7 DEF HeldInv

LEMMA DataReads ==
  ASSUME DataInv, ReadDomain \/ StoreDomain
  PROVE  LatestBehind' /\ HeldInv' /\ AnswerInv'
<1>1. TypeHeld /\ TypeRead /\ Parts \subseteq Stored
  BY TypeParts DEF DataInv, TypeInv, Stored
<1>2. UNCHANGED <<now, batch>>
  BY DEF ReadDomain, StoreDomain
<1>3. LatestBehind'
  BY <1>2 DEF DataInv, LatestBehind, Coming
<1>4. \A k : Coming(k, 1)' <=> Coming(k, 1)
  BY <1>2 DEF Coming
<1>5. CASE ReadDomain
  BY <1>1, <1>2, <1>3, <1>4, <1>5 DEF ReadDomain, DataInv, HeldInv, AnswerInv
<1>6. CASE StoreDomain
  <2>1. PICK r \in read :
          /\ held' = [k \in Stored |-> IF k \in Parts THEN r.vers[k] ELSE held[k]]
          /\ missed' = (missed \ Parts) \cup r.over
    BY <1>6 DEF StoreDomain
  <2>2. HeldInv'
    BY <1>1, <1>2, <1>4, <2>1 DEF DataInv, HeldInv, AnswerInv
  <2> QED
    BY <1>3, <1>6, <2>2 DEF StoreDomain, AnswerInv
<1> QED
  BY <1>5, <1>6

LEMMA DataStep ==
  ASSUME DataInv, [Next]_vars
  PROVE  DataInv'
<1>1. TypeInv'
  BY TypeStep DEF DataInv
<1>2. CASE UNCHANGED <<now, batch, held, missed, read>>
  <2>1. LatestBehind' /\ HeldInv' /\ AnswerInv'
    BY <1>2 DEF DataInv, LatestBehind, HeldInv, AnswerInv, Coming
  <2> QED
    BY <1>1, <2>1 DEF DataInv
<1>3. CASE LookUp \/ Finish \/ Call \/ CallChanges \/ OthersChange \/ UNCHANGED vars
  BY <1>2, <1>3 DEF LookUp, Finish, Call, CallChanges, OthersChange, vars
<1>4. CASE \/ Take \/ TakeRaises \/ CallRaises \/ CallVanished \/ ReadDomain \/ StoreDomain
  <2>1. LatestBehind' /\ HeldInv' /\ AnswerInv'
    BY <1>4, DataTake, DataDrop, DataReads
  <2> QED
    BY <1>1, <2>1 DEF DataInv
<1> QED
  BY <1>3, <1>4, DataArrive DEF Next

(***************************************************************************)
(* When every event has been handled, the session holds what the SHC has,  *)
(* or the reason is one of those in missed (session.py 238-321,            *)
(* session_async.py 486-588, domain_impl.py 193-218).                      *)
(***************************************************************************)
THEOREM HandledMeansCurrent == Spec => []HeldIsCurrent
<1>1. DataInv => HeldIsCurrent
  <2> SUFFICES ASSUME DataInv, batch = <<>>, NEW k \in Stored \ missed
               PROVE  held[k] = now[k]
    BY DEF HeldIsCurrent
  <2>1. ~Coming(k, 1)
    BY DEF Coming
  <2> QED
    BY <2>1 DEF DataInv, HeldInv
<1>2. DataInv /\ [Next]_vars => DataInv'
  BY DataStep
<1> QED
  BY <1>1, <1>2, DataInit, PTL DEF Spec

-----------------------------------------------------------------------------
(* Who is called.                                                          *)

(***************************************************************************)
(* A handling calls whom it found: a scenario has one callback at most,    *)
(* under asyncio it cannot vanish, and no SHCSession iterates over the     *)
(* callbacks of a state where they are kept.                               *)
(***************************************************************************)
RunFine(r) ==
    /\ IsPrefix(r.start, r.heard \o r.left)
    /\ flavour # "async" => r.start = r.heard \o r.left
    /\ r.channel \in Triggers => Len(r.heard) + Len(r.left) <= 1
    /\ flavour = "async" /\ r.channel \in Triggers /\ r.left # <<>> => r.own
    /\ flavour # "async" /\ r.own => r.channel \in Triggers

LEMMA PrefixItself ==
  ASSUME NEW S, NEW s \in Seq(S)
  PROVE  IsPrefix(s, s)
  BY DEF IsPrefix

LEMMA PrefixAppend ==
  ASSUME NEW S, NEW s \in Seq(S), NEW t \in Seq(S), NEW e \in S, IsPrefix(s, t)
  PROVE  IsPrefix(s, Append(t, e))
<1>1. Len(s) <= Len(t) /\ SubSeq(s, 1, Len(s)) = SubSeq(t, 1, Len(s))
  BY DEF IsPrefix
<1>2. Len(Append(t, e)) = Len(t) + 1 /\ Append(t, e) \in Seq(S)
  BY AppendProperties
<1>3. SubSeq(Append(t, e), 1, Len(s)) = SubSeq(t, 1, Len(s))
  <2>1. CASE Len(s) = 0
    BY <1>2, <2>1, SubSeqEmpty
  <2>2. CASE Len(s) # 0
    <3>1. Append(t, e) = t \o <<e>> /\ <<e>> \in Seq(S)
      BY AppendIsConcat
    <3>2. 1 \in 1 .. Len(t) /\ Len(s) \in 1 .. Len(t)
      BY <1>1, <2>2
    <3> QED
      BY <3>1, <3>2, SubSeqOfConcat1
  <2> QED
    BY <2>1, <2>2
<1> QED
  BY <1>1, <1>2, <1>3 DEF IsPrefix

LEMMA LenZero ==
  ASSUME NEW S, NEW s \in Seq(S)
  PROVE  Len(s) \in Nat /\ (s = <<>> <=> Len(s) = 0)
  OBVIOUS

LEMMA AtMostOne == \A a, b \in Nat : a + b <= 1 /\ b # 0 => a = 0 /\ b = 1
  OBVIOUS

\* A callback moves from those to call to those called.
LEMMA MoveOver ==
  ASSUME NEW S, NEW s \in Seq(S), NEW t \in Seq(S), t # <<>>
  PROVE  Append(s, Head(t)) \o Tail(t) = s \o t
<1>0. Head(t) \in S /\ Tail(t) \in Seq(S) /\ <<Head(t)>> \in Seq(S)
  BY HeadTailProperties
<1>1. PICK h \in S, u \in Seq(S), one \in Seq(S) : h = Head(t) /\ u = Tail(t) /\ one = <<h>>
  BY <1>0, Zenon
<1>2. Append(s, h) = s \o one
  BY <1>1, AppendIsConcat
<1>3. (s \o one) \o u = s \o (one \o u)
  BY ConcatAssociative
<1>4. one \o u = t
  <2>1. one \o u \in Seq(S) /\ Len(one \o u) = Len(t)
    BY <1>1, HeadTailProperties, ConcatProperties
  <2>2. \A i \in 1 .. Len(t) : (one \o u)[i] = t[i]
    BY <1>1, HeadTailProperties
  <2> QED
    BY <2>1, <2>2, SeqEqual
<1> QED
  BY <1>1, <1>2, <1>3, <1>4

\* One more to call is one more at the end.
LEMMA OneMore ==
  ASSUME NEW S, NEW s \in Seq(S), NEW t \in Seq(S), NEW e \in S
  PROVE  s \o Append(t, e) = Append(s \o t, e)
<1>0. <<e>> \in Seq(S)
  OBVIOUS
<1>1. PICK one \in Seq(S) : one = <<e>>
  BY <1>0, Zenon
<1>2. Append(t, e) = t \o one
  BY <1>1, AppendIsConcat
<1>3. s \o t \in Seq(S)
  BY ConcatProperties
<1>4. Append(s \o t, e) = (s \o t) \o one
  BY <1>1, <1>3, AppendIsConcat
<1>5. (s \o t) \o one = s \o (t \o one)
  BY ConcatAssociative
<1> QED
  BY <1>2, <1>4, <1>5

LEMMA RestingFine == RunFine(Resting)
<1>1. <<>> \in Seq(Callbacks) /\ <<>> \o <<>> = <<>>
  BY ConcatEmptySeq
<1>2. IsPrefix(<<>>, <<>>)
  BY <1>1, PrefixItself
<1>3. Resting.start = <<>> /\ Resting.heard = <<>> /\ Resting.left = <<>> /\ Resting.own = FALSE
  BY DEF Resting
<1> QED
  BY <1>1, <1>2, <1>3 DEF RunFine

LEMMA CalledFine ==
  ASSUME NEW r \in Runs, r.left # <<>>, RunFine(r)
  PROVE  /\ RunFine(Called(r))
         /\ r.channel \in Triggers => Called(r).left = <<>>
<1> DEFINE c == Called(r)
<1>1. r.left \in Seq(Callbacks) /\ r.heard \in Seq(Callbacks)
  BY DEF Runs
<1>2. /\ c.left = Tail(r.left) /\ c.heard = Append(r.heard, Head(r.left))
      /\ c.channel = r.channel /\ c.own = r.own /\ c.start = r.start
  BY CalledType
<1>3. /\ Head(r.left) \in Callbacks /\ Tail(r.left) \in Seq(Callbacks)
      /\ Len(Tail(r.left)) = Len(r.left) - 1
  BY <1>1, HeadTailProperties
<1> HIDE DEF c
<1>4. c.heard \o c.left = r.heard \o r.left
  BY <1>1, <1>2, MoveOver
<1>5. Len(c.heard) = Len(r.heard) + 1 /\ Len(c.left) = Len(r.left) - 1
  BY <1>1, <1>2, <1>3, AppendProperties
<1>6. Len(r.heard) \in Nat /\ Len(r.left) \in Nat /\ Len(r.left) # 0
  BY <1>1, LenZero
<1>7. Len(c.heard) + Len(c.left) = Len(r.heard) + Len(r.left)
  <2>1. \A x, y \in Nat : (x + 1) + (y - 1) = x + y
    OBVIOUS
  <2> QED
    BY <1>5, <1>6, <2>1
<1>8. r.channel \in Triggers => c.left = <<>>
  <2> SUFFICES ASSUME r.channel \in Triggers PROVE Len(c.left) = 0
    BY <1>2, <1>3, LenZero
  <2>1. Len(r.heard) + Len(r.left) <= 1
    BY DEF RunFine
  <2>2. Len(r.left) = 1
    BY <1>6, <2>1, AtMostOne
  <2> QED
    BY <1>5, <2>2
<1>9. RunFine(c)
  BY <1>2, <1>4, <1>7, <1>8 DEF RunFine
<1> QED
  BY <1>8, <1>9 DEF c

LEMMA ChangesFine ==
  ASSUME NEW r \in Runs, RunFine(r), Changes(r),
         flavour = "async" /\ r.channel \in Triggers => r.left = <<>>
  PROVE  RunFine(run')
<1>1. PICK c \in Channels, cb \in Callbacks : Subscribe(r, c, cb) \/ Unsubscribe(r, c, cb)
  BY DEF Changes
<1>2. CASE run' = r
  BY <1>2
<1>3. CASE run' = [r EXCEPT !.own = FALSE]
  <2>1. /\ run'.left = r.left /\ run'.heard = r.heard /\ run'.start = r.start
        /\ run'.channel = r.channel /\ run'.own = FALSE
    BY <1>3 DEF Runs
  <2> QED
    BY <2>1 DEF RunFine
<1>4. /\ r.left \in Seq(Callbacks) /\ r.heard \in Seq(Callbacks) /\ r.start \in Seq(Callbacks)
      /\ <<cb>> \in Seq(Callbacks)
  BY DEF Runs
<1>5. CASE /\ r.channel = c /\ c \in Triggers /\ r.left # <<>>
           /\ run' = [r EXCEPT !.left = <<cb>>, !.start = <<cb>>, !.own = TRUE]
  <2>1. /\ run'.left = <<cb>> /\ run'.heard = r.heard /\ run'.start = <<cb>>
        /\ run'.channel = r.channel /\ run'.own = TRUE
    BY <1>5 DEF Runs
  <2>2. r.heard = <<>>
    <3>1. Len(r.heard) + Len(r.left) <= 1
      BY <1>5 DEF RunFine
    <3>2. Len(r.left) # 0 /\ Len(r.left) \in Nat /\ Len(r.heard) \in Nat
      BY <1>4, <1>5, LenZero
    <3>3. Len(r.heard) = 0
      BY <3>1, <3>2, AtMostOne
    <3> QED
      BY <1>4, <3>3, LenZero
  <2>3. r.heard \o <<cb>> = <<cb>>
    BY <1>4, <2>2, ConcatEmptySeq
  <2>4. IsPrefix(<<cb>>, <<cb>>) /\ Len(<<cb>>) = 1 /\ Len(r.heard) = 0
    BY <1>4, <2>2, PrefixItself
  <2> QED
    BY <1>5, <2>1, <2>3, <2>4, Len(r.heard) + Len(<<cb>>) <= 1 DEF RunFine
<1>6. CASE /\ r.channel = c /\ c \in States /\ r.own
           /\ run' = [r EXCEPT !.left = Append(@, cb)]
  <2>1. /\ run'.left = Append(r.left, cb) /\ run'.heard = r.heard /\ run'.start = r.start
        /\ run'.channel = r.channel /\ run'.own = r.own
    BY <1>6 DEF Runs
  <2>2. c \notin Triggers
    BY <1>6, ChannelsAssumption
  <2>3. flavour = "async"
    BY <1>6, <2>2 DEF RunFine
  <2>4. r.heard \o Append(r.left, cb) = Append(r.heard \o r.left, cb)
    <3>1. r.heard \in Seq(Callbacks) /\ r.left \in Seq(Callbacks)
      BY <1>4
    <3>2. cb \in Callbacks
      OBVIOUS
    <3>3. \A s, t \in Seq(Callbacks), e \in Callbacks : s \o Append(t, e) = Append(s \o t, e)
      BY OneMore
    <3> QED
      BY <3>1, <3>2, <3>3, Zenon
  <2>5. r.heard \o r.left \in Seq(Callbacks)
    BY <1>4, ConcatProperties
  <2>6. IsPrefix(r.start, r.heard \o Append(r.left, cb))
    BY <1>4, <2>4, <2>5, PrefixAppend DEF RunFine
  <2> QED
    BY <1>6, <2>1, <2>2, <2>3, <2>6 DEF RunFine
<1> QED
  BY <1>1, <1>2, <1>3, <1>5, <1>6 DEF Subscribe, Unsubscribe, Seen

LEMMA FineInit == Init => RunFine(run)
  BY RestingFine DEF Init

LEMMA FineStep ==
  ASSUME TypeInv, RunFine(run), [Next]_vars
  PROVE  RunFine(run)'
<1>1. /\ TypeSubs /\ run \in Runs
  BY TypeParts DEF TypeInv
<1>2. flavour' = flavour
  BY DEF Next, vars, Arrive, TakeRaises, Take, LookUp, Call, CallRaises, CallVanished, Finish,
         CallChanges, OthersChange, ReadDomain, StoreDomain
<1> SUFFICES RunFine(run')
  BY <1>2 DEF RunFine
<1>3. CASE run' = Resting
  BY <1>3, RestingFine
<1>4. CASE run' = run
  BY <1>4
<1>5. CASE Take
  <2>1. run' = [Resting EXCEPT !.channels = Looked(Head(batch).key)]
    BY <1>5 DEF Take
  <2>2. /\ run'.left = Resting.left /\ run'.heard = Resting.heard /\ run'.start = Resting.start
        /\ run'.channel = Resting.channel /\ run'.own = Resting.own
    BY <2>1 DEF Resting
  <2> QED
    BY <2>2, RestingFine DEF RunFine
<1>6. CASE LookUp
  <2>1. PICK c \in Channels : c = Head(run.channels)
    BY <1>1, <1>6, HeadTailProperties DEF LookUp, Runs
  <2>2. subs[c] \in Seq(Callbacks) /\ (c \in Triggers => Len(subs[c]) <= 1)
    BY <1>1 DEF TypeSubs
  <2>3. /\ run'.left = subs[c] /\ run'.heard = <<>> /\ run'.start = subs[c]
        /\ run'.channel = c /\ run'.own = Own(c)
    BY <1>1, <1>6, <2>1 DEF LookUp, Runs
  <2>4. <<>> \o subs[c] = subs[c] /\ IsPrefix(subs[c], subs[c]) /\ Len(<<>>) = 0
    BY <2>2, ConcatEmptySeq, PrefixItself
  <2>5. /\ c \in Triggers => Own(c)
        /\ flavour # "async" /\ Own(c) => c \in Triggers
    BY DEF Own
  <2> QED
    BY <2>2, <2>3, <2>4, <2>5 DEF RunFine
<1>7. CASE Call
  BY <1>1, <1>7, CalledFine DEF Call
<1>8. CASE CallChanges
  <2>1. Called(run) \in Runs /\ Called(run).channel = run.channel
    BY <1>1, <1>8, CalledType DEF CallChanges
  <2>2. RunFine(Called(run)) /\ (run.channel \in Triggers => Called(run).left = <<>>)
    BY <1>1, <1>8, CalledFine DEF CallChanges
  <2> QED
    BY <1>8, <2>1, <2>2, ChangesFine DEF CallChanges
<1>9. CASE OthersChange
  <2>1. flavour = "async" => run.left = <<>>
    BY <1>9 DEF OthersChange, Resting
  <2> QED
    BY <1>1, <1>9, <2>1, ChangesFine DEF OthersChange
<1> QED
  BY <1>3, <1>4, <1>5, <1>6, <1>7, <1>8, <1>9
     DEF Next, vars, Arrive, TakeRaises, CallRaises, CallVanished, Finish, ReadDomain,
         StoreDomain

CallInv == TypeInv /\ RunFine(run)

LEMMA CallInit == Init => CallInv
  BY TypeInit, FineInit DEF CallInv

(***************************************************************************)
(* Whoever was subscribed at the look-up is called, in that order and      *)
(* once, and in an SHCSession nobody else is (session.py 310-316,          *)
(* session_async.py 575-580, domain_impl.py 220, emma.py 93).              *)
(***************************************************************************)
THEOREM FoundAreHeard == Spec => []HeardAsFound
<1>1. CallInv => HeardAsFound
  BY DEF CallInv, RunFine, HeardAsFound
<1>2. CallInv /\ [Next]_vars => CallInv'
  BY TypeStep, FineStep DEF CallInv
<1> QED
  BY <1>1, <1>2, CallInit, PTL DEF Spec

-----------------------------------------------------------------------------
(* What an enumerated session misses.                                      *)

EagerInv == CallInv /\ EagerMissesNothing /\ (read # {} => used.reads > 0)

LEMMA EagerInit == Init => EagerInv
<1> SUFFICES ASSUME Init PROVE EagerInv
  OBVIOUS
<1>1. flavour # "lazy" => missed = {}
  BY DEF Init
<1>2. used.vanished = 0 /\ read = {}
  BY DEF Init
<1> QED
  BY <1>1, <1>2, CallInit DEF EagerInv, EagerMissesNothing

LEMMA EagerStep ==
  ASSUME EagerInv, [Next]_vars
  PROVE  EagerMissesNothing' /\ (read # {} => used.reads > 0)'
<1>1. used \in [Budgets -> Nat] /\ run \in Runs
  BY TypeParts DEF EagerInv, CallInv, TypeInv
<1>2. /\ used.faults \in Nat /\ used.reads \in Nat /\ used.vanished \in Nat
  BY <1>1 DEF Budgets
<1>3. /\ flavour # "lazy" /\ used.faults = 0 /\ used.reads = 0 /\ missed # {}
            => used.vanished = 1
      /\ flavour = "async" => used.vanished = 0
      /\ read # {} => used.reads > 0
  BY DEF EagerInv, EagerMissesNothing
<1>4. flavour' = flavour
  BY DEF Next, vars, Arrive, TakeRaises, Take, LookUp, Call, CallRaises, CallVanished, Finish,
         CallChanges, OthersChange, ReadDomain, StoreDomain
<1>5. SUFFICES /\ flavour # "lazy" /\ used'.faults = 0 /\ used'.reads = 0 /\ missed' # {}
                     => used'.vanished = 1
               /\ flavour = "async" => used'.vanished = 0
               /\ read' # {} => used'.reads > 0
  BY <1>4 DEF EagerMissesNothing
<1>6. ASSUME /\ used'.faults = used.faults /\ used'.reads = used.reads
             /\ used'.vanished = used.vanished
             /\ missed' # {} => missed # {}
             /\ read' # {} => read # {}
      PROVE  /\ flavour # "lazy" /\ used'.faults = 0 /\ used'.reads = 0 /\ missed' # {}
                   => used'.vanished = 1
             /\ flavour = "async" => used'.vanished = 0
             /\ read' # {} => used'.reads > 0
  BY <1>3, <1>6
<1>7. ASSUME NEW b \in Budgets, NEW max, Spend(b, max)
      PROVE  /\ used'[b] = used[b] + 1
             /\ \A x \in Budgets \ {b} : used'[x] = used[x]
  BY <1>1, <1>7, SpendType
<1>8. \A gone : Overtake(gone) => (read' # {} => read # {})
  BY DEF Overtake
<1>9. CASE (\E k \in Keys : Arrive(k)) \/ CallChanges \/ OthersChange
  <2>1. /\ used'.faults = used.faults /\ used'.reads = used.reads
        /\ used'.vanished = used.vanished
    BY <1>7, <1>9
       DEF Arrive, CallChanges, OthersChange, Changes, Subscribe, Unsubscribe, Budgets
  <2>2. missed' = missed /\ read' = read
    BY <1>9 DEF Arrive, CallChanges, OthersChange
  <2> QED
    BY <1>6, <2>1, <2>2
<1>10. CASE Take
  BY <1>6, <1>8, <1>10 DEF Take
<1>11. CASE LookUp \/ Finish \/ Call \/ UNCHANGED vars
  BY <1>6, <1>11 DEF LookUp, Finish, Call, vars
<1>12. CASE TakeRaises
  <2>1. flavour = "lazy" /\ used' = used /\ (read' # {} => read # {})
    BY <1>8, <1>12 DEF TakeRaises, Unready, Drop
  <2> QED
    BY <1>3, <2>1
<1>13. CASE CallRaises
  <2>1. /\ used'.faults = used.faults + 1 /\ used'.reads = used.reads
        /\ used'.vanished = used.vanished
    BY <1>7, <1>13 DEF CallRaises, Budgets
  <2>2. used'.faults # 0
    BY <1>2, <2>1
  <2>3. read' # {} => read # {}
    BY <1>8, <1>13 DEF CallRaises, Drop
  <2> QED
    BY <1>3, <2>1, <2>2, <2>3
<1>14. CASE CallVanished
  <2>1. used'.vanished = 1 /\ used'.reads = used.reads
    BY <1>1, <1>14 DEF CallVanished, Budgets
  <2>2. read' # {} => read # {}
    BY <1>8, <1>14 DEF CallVanished, Drop
  <2>3. flavour # "async"
    BY <1>14 DEF CallVanished, Vanished, EagerInv, CallInv, RunFine
  <2> QED
    BY <1>3, <2>1, <2>2, <2>3
<1>15. CASE ReadDomain
  <2>1. used'.reads = used.reads + 1 /\ used'.vanished = used.vanished
    BY <1>7, <1>15 DEF ReadDomain, Budgets
  <2>2. used'.reads > 0 /\ used'.reads # 0
    BY <1>2, <2>1
  <2> QED
    BY <1>3, <2>1, <2>2
<1>16. CASE StoreDomain
  <2>1. read # {} /\ read' = {} /\ used' = used
    BY <1>16 DEF StoreDomain
  <2>2. used'.reads # 0
    BY <1>2, <1>3, <2>1
  <2> QED
    BY <1>3, <2>1, <2>2
<1> QED
  BY <1>9, <1>10, <1>11, <1>12, <1>13, <1>14, <1>15, <1>16 DEF Next

(***************************************************************************)
(* Without an exception in a callback and without a re-read a session that *)
(* was enumerated misses nothing, but for a scenario's callback that       *)
(* vanished (session.py 293-296, 268-269, emma.py 86-88).                  *)
(***************************************************************************)
THEOREM EnumeratedMissesNothing == Spec => []EagerMissesNothing
<1>1. EagerInv => EagerMissesNothing
  BY DEF EagerInv
<1>2. EagerInv /\ [Next]_vars => EagerInv'
  <2> SUFFICES ASSUME EagerInv, [Next]_vars PROVE EagerInv'
    OBVIOUS
  <2>1. CallInv'
    BY TypeStep, FineStep DEF EagerInv, CallInv
  <2> QED
    BY <2>1, EagerStep DEF EagerInv
<1> QED
  BY <1>1, <1>2, EagerInit, PTL DEF Spec
=============================================================================
