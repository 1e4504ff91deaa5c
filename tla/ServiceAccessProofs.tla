------------------------ MODULE ServiceAccessProofs ------------------------
(***************************************************************************)
(* Proofs about ServiceAccess for every set of cases, every set of values  *)
(* and every value of the bounds.                                          *)
(***************************************************************************)
EXTENDS ServiceAccess, SequenceTheorems, TLAPS

-----------------------------------------------------------------------------
(* What a request does to the record.                                      *)

LEMMA Defaults == \A k \in Fields : DefaultOf(k) \in Nat /\ DefaultOf(k) \in Data
  BY ValuesAssumption DEF DefaultOf, Data

LEMMA RequestBody ==
  ASSUME case \in Cases, NEW q \in Requests
  PROVE  /\ Body(q).f = q.val /\ q.val \in Values
         /\ Body(q).g \in Data \cup {Absent}
         /\ Body(q).g # q.seen.g =>
               /\ Body(q).g = DefaultOf("g") /\ q.seen.g \in {Absent, New}
               /\ case.fill = "decoded" /\ Outcome(case.g, q.seen.g) = "default"
         /\ Bound("g", Body(q).g) = Bound("g", q.seen.g)
<1>1. q.val \in Values /\ q.seen.g \in Data \cup {Absent}
  BY DEF Requests, Records, Fields
<1>2. case.g \in WayType
  BY CasesAssumption DEF CaseType
<1>3. DefaultOf("g") \in Nat /\ DefaultOf("g") \in Data
  BY Defaults DEF Fields
<1>4. Body(q).f = q.val
  BY DEF Body
<1>5. CASE case.fill = "decoded" /\ Outcome(case.g, q.seen.g) = "default"
  <2>1. Body(q).g = DefaultOf("g")
    BY <1>5 DEF Body, Decoded
  <2>2. q.seen.g \in {Absent, New}
    BY <1>5 DEF Outcome
  <2>3. Bound("g", Body(q).g) = Bound("g", q.seen.g)
    BY <2>1, <2>2, <1>3, ValuesAssumption DEF Bound
  <2> QED
    BY <1>1, <1>3, <1>4, <1>5, <2>1, <2>2, <2>3
<1>6. CASE ~(case.fill = "decoded" /\ Outcome(case.g, q.seen.g) = "default")
  <2>1. Body(q).g = q.seen.g
    BY <1>6 DEF Body, Decoded
  <2> QED
    BY <1>1, <1>4, <2>1
<1> QED
  BY <1>5, <1>6

LEMMA RequestEffect ==
  ASSUME TypeOK, NEW q \in Requests
  PROVE  /\ Applied(q) \in Records
         /\ Applied(q).f = IF "f" \in Sent(q) THEN q.val ELSE shc.f
         /\ Applied(q).g = IF "g" \in Sent(q) THEN Body(q).g ELSE shc.g
<1>1. case \in Cases /\ shc \in Records
  BY DEF TypeOK
<1>2. /\ Body(q).f = q.val /\ q.val \in Values
      /\ Body(q).g \in Data \cup {Absent}
  BY <1>1, RequestBody
<1>3. Applied(q).f = IF "f" \in Sent(q) THEN q.val ELSE shc.f
  BY <1>2 DEF Applied, Fields
<1>4. Applied(q).g = IF "g" \in Sent(q) THEN Body(q).g ELSE shc.g
  BY DEF Applied, Fields
<1>5. shc.f \in Data \cup {Absent} /\ shc.g \in Data \cup {Absent}
  BY <1>1 DEF Records, Fields
<1>6. \A k \in Fields : Applied(q)[k] \in Data \cup {Absent}
  BY <1>2, <1>3, <1>4, <1>5 DEF Fields, Data
<1>7. Applied(q) \in Records
  BY <1>6 DEF Applied, Records
<1> QED
  BY <1>3, <1>4, <1>7

LEMMA BecomesQueue ==
  ASSUME TypeOK, NEW r \in Records, Becomes(r)
  PROVE  /\ shc' = r
         /\ queue' \in Seq(Records) /\ (queue' # <<>> => queue'[Len(queue')] = shc')
         /\ {queue'[i] : i \in DOMAIN queue'} \subseteq {queue[i] : i \in DOMAIN queue} \cup {r}
         /\ queue' = <<>> => shc' = shc /\ queue = <<>>
<1>1. queue \in Seq(Records) /\ (queue # <<>> => queue[Len(queue)] = shc)
  BY DEF TypeOK
<1>2. CASE r = shc
  BY <1>1, <1>2 DEF Becomes
<1>3. CASE r # shc
  <2>1. queue' = Append(queue, r) /\ shc' = r
    BY <1>3 DEF Becomes
  <2>2. /\ queue' \in Seq(Records) /\ Len(queue') = Len(queue) + 1
        /\ queue'[Len(queue')] = r /\ queue' # <<>>
        /\ \A i \in DOMAIN queue' : i = Len(queue') \/ (i \in DOMAIN queue /\ queue'[i] = queue[i])
    BY <1>1, <2>1
  <2> QED
    BY <2>1, <2>2
<1> QED
  BY <1>2, <1>3

\* A record is given by its two fields.
LEMMA TwoFields ==
  ASSUME NEW r \in Records
  PROVE  [f |-> r.f, g |-> r.g] = r
  BY DEF Records, Fields

\* What set_profile stores of a request is the whole device it sent.
LEMMA StoredBody ==
  ASSUME case \in Cases, case.stores, NEW q \in Requests
  PROVE  /\ Body(q) = [f |-> q.val, g |-> q.seen.g] /\ Body(q) \in Records
         /\ "f" \in Sent(q)
<1>1. case.fill = "raw" /\ ~case.patch
  BY CasesAssumption
<1>2. Body(q) = [f |-> q.val, g |-> q.seen.g] /\ "f" \in Sent(q)
  BY <1>1 DEF Body, Sent
<1>3. q.val \in Data /\ q.seen.g \in Data \cup {Absent}
  BY DEF Requests, Records, Fields, Data
<1>4. [f |-> q.val, g |-> q.seen.g] \in Records
  BY <1>3 DEF Records, Fields
<1> QED
  BY <1>2, <1>4

-----------------------------------------------------------------------------
(* Type correctness.                                                       *)

LEMMA TypeInit == Init => TypeOK
<1> SUFFICES ASSUME Init PROVE TypeOK
  OBVIOUS
<1>1. case \in Cases
  BY DEF Init
<1>2. shc \in Records
  BY DEF Init, Records, Data
<1>3. Unknown \in Records
  BY DEF Unknown, Records
<1>4. view \in Records
  BY <1>2, <1>3 DEF Init
<1>5. queue = <<>> /\ queue \in Seq(Records)
  BY DEF Init
<1>6. call = Idle /\ late = {}
  BY DEF Init
<1>7. used \in [{"calls", "foreign", "faults", "refreshes"} -> Nat]
  BY DEF Init
<1>8. {fresh, calm, behind} \subseteq BOOLEAN
  BY DEF Init
<1> QED
  BY <1>1, <1>2, <1>4, <1>5, <1>6, <1>7, <1>8 DEF TypeOK, Idle

LEMMA SpendType ==
  ASSUME TypeOK, NEW b \in {"calls", "foreign", "faults", "refreshes"}, NEW max \in Nat,
         Spend(b, max)
  PROVE  used' \in [{"calls", "foreign", "faults", "refreshes"} -> Nat]
  BY DEF TypeOK, Spend

\* The call is idle, or it has exactly one request.
LEMMA OneRequest ==
  ASSUME TypeOK
  PROVE  /\ call.pc = "idle" => call.request = {} /\ call.answer = {}
         /\ call.request \subseteq Requests /\ late \subseteq Requests
         /\ call.answer \subseteq Records
         /\ call.pc # "done" => call.answer = {}
         /\ call.pc # "idle" => \E q \in Requests : call.request = {q}
         /\ call.pc = "done" => \E r \in Records : call.answer = {r}
  BY DEF TypeOK, Idle

LEMMA TypeSet ==
  ASSUME TypeOK, NEW v \in Values, Set(v)
  PROVE  TypeOK'
<1> DEFINE q == [val |-> v, seen |-> view]
<1>1. q \in Requests
  BY DEF TypeOK, Requests
<1>2. \E pc \in {"asked", "sent"} :
        call' = [pc |-> pc, request |-> {q}, again |-> FALSE, answer |-> {}]
  BY DEF Set, Idle
<1>3. used' \in [{"calls", "foreign", "faults", "refreshes"} -> Nat]
  BY SpendType, BoundsAssumption DEF Set
<1>4. fresh' \in BOOLEAN /\ calm' \in BOOLEAN
  BY DEF Set
<1> HIDE DEF q
<1>5. /\ call' \in [pc : {"idle", "asked", "sent", "done"}, request : SUBSET Requests,
                  again : BOOLEAN, answer : SUBSET Records]
      /\ call'.pc \in {"asked", "sent"} /\ call'.request = {q} /\ call'.answer = {}
  BY <1>1, <1>2
<1>6. /\ case \in Cases /\ shc \in Records /\ view \in Records
      /\ queue \in Seq(Records) /\ (queue # <<>> => queue[Len(queue)] = shc)
      /\ late = {} \/ \E x \in Requests : late = {x}
      /\ behind \in BOOLEAN
  BY DEF TypeOK
<1>7. UNCHANGED <<case, shc, view, queue, late, behind>>
  BY DEF Set
<1> QED
  BY <1>1, <1>3, <1>4, <1>5, <1>6, <1>7 DEF TypeOK

LEMMA OneComposition ==
  ASSUME TypeOK, Compose
  PROVE  \E q \in Requests, n \in Requests :
           /\ call.request = {q} /\ n = [val |-> q.val, seen |-> [q.seen EXCEPT !.g = view.g]]
           /\ n.val = q.val /\ n.seen.g = view.g
           /\ call' = [pc |-> "sent", request |-> {n}, again |-> call.again, answer |-> {}]
<1>1. PICK q \in Requests : call.request = {q}
  BY OneRequest DEF Compose
<1> DEFINE n == [val |-> q.val, seen |-> [q.seen EXCEPT !.g = view.g]]
<1>2. q.seen \in Records /\ view \in Records /\ q.val \in Values
  BY DEF TypeOK, Requests
<1>3. view.g \in Data \cup {Absent}
  BY <1>2 DEF Records, Fields
<1>4. [q.seen EXCEPT !.g = view.g] \in Records /\ [q.seen EXCEPT !.g = view.g].g = view.g
  BY <1>2, <1>3 DEF Records, Fields
<1>5. n \in Requests /\ n.val = q.val /\ n.seen.g = view.g
  BY <1>2, <1>4 DEF Requests
<1>6. call.answer = {} /\ call.pc = "asked"
  BY OneRequest DEF Compose
<1>7. call' = [pc |-> "sent", request |-> {n}, again |-> call.again, answer |-> {}]
  BY <1>1, <1>6 DEF Compose, TypeOK
<1> QED
  BY <1>1, <1>5, <1>7

LEMMA TypeCompose ==
  ASSUME TypeOK, Compose
  PROVE  TypeOK'
<1>1. PICK n \in Requests :
        call' = [pc |-> "sent", request |-> {n}, again |-> call.again, answer |-> {}]
  BY OneComposition
<1>2. fresh' \in BOOLEAN /\ calm' \in BOOLEAN
  BY DEF Compose
<1>3. call.again \in BOOLEAN
  BY DEF TypeOK
<1>4. /\ call' \in [pc : {"idle", "asked", "sent", "done"}, request : SUBSET Requests,
                  again : BOOLEAN, answer : SUBSET Records]
      /\ call'.pc = "sent" /\ call'.request = {n} /\ call'.answer = {}
  BY <1>1, <1>3
<1>5. /\ case \in Cases /\ shc \in Records /\ view \in Records
      /\ queue \in Seq(Records) /\ (queue # <<>> => queue[Len(queue)] = shc)
      /\ late = {} \/ \E x \in Requests : late = {x}
      /\ behind \in BOOLEAN /\ used \in [{"calls", "foreign", "faults", "refreshes"} -> Nat]
  BY DEF TypeOK
<1>6. UNCHANGED <<case, shc, view, queue, late, behind, used>>
  BY DEF Compose
<1> QED
  BY <1>2, <1>4, <1>5, <1>6 DEF TypeOK

LEMMA TypeAssign ==
  ASSUME TypeOK, NEW v \in Values, Assign(v)
  PROVE  TypeOK'
<1>1. view' \in Records
  BY DEF Assign, TypeOK, Records, Fields, Data
<1>2. used' \in [{"calls", "foreign", "faults", "refreshes"} -> Nat]
  BY SpendType, BoundsAssumption DEF Assign
<1> QED
  BY <1>1, <1>2 DEF Assign, TypeOK, Idle

LEMMA TypeExecute ==
  ASSUME TypeOK, Execute
  PROVE  TypeOK'
<1>1. PICK q \in call.request : Becomes(Applied(q))
                               /\ call' = [call EXCEPT !.pc = "done", !.answer = {Applied(q)}]
  BY DEF Execute
<1>2. q \in Requests /\ call.request = {q}
  BY <1>1, OneRequest DEF Execute
<1>3. Applied(q) \in Records
  BY <1>2, RequestEffect
<1>4. /\ shc' \in Records /\ queue' \in Seq(Records)
      /\ (queue' # <<>> => queue'[Len(queue')] = shc')
  BY <1>1, <1>3, BecomesQueue
<1>5. call' = [pc |-> "done", request |-> {q}, again |-> call.again, answer |-> {Applied(q)}]
  BY <1>1, <1>2 DEF TypeOK
<1>6. calm' \in BOOLEAN
  BY DEF Execute
<1>7. call.again \in BOOLEAN
  BY DEF TypeOK
<1> QED
  BY <1>2, <1>3, <1>4, <1>5, <1>6, <1>7 DEF Execute, TypeOK, Idle

LEMMA TypeAnswer ==
  ASSUME TypeOK, Answer
  PROVE  TypeOK'
<1>1. view' \in Records
  <2>1. ASSUME case.stores, NEW q \in call.request, view' = Body(q)
        PROVE  view' \in Records
    BY <2>1, OneRequest, StoredBody DEF TypeOK
  <2> QED
    BY <2>1, OneRequest DEF Answer, TypeOK
<1>3. behind' \in BOOLEAN
  BY DEF Answer, TypeOK
<1>4. fresh' \in BOOLEAN /\ calm' \in BOOLEAN
  BY DEF Answer
<1>5. /\ case \in Cases /\ shc \in Records
      /\ queue \in Seq(Records) /\ (queue # <<>> => queue[Len(queue)] = shc)
      /\ late = {} \/ \E x \in Requests : late = {x}
      /\ used \in [{"calls", "foreign", "faults", "refreshes"} -> Nat]
  BY DEF TypeOK
<1>6. UNCHANGED <<case, shc, queue, late, used>>
  BY DEF Answer
<1>2. call' = Idle
  BY DEF Answer
<1> QED
  BY <1>1, <1>2, <1>3, <1>4, <1>5, <1>6 DEF TypeOK, Idle

LEMMA TypeDrop ==
  ASSUME TypeOK, Drop
  PROVE  TypeOK'
<1>1. used' \in [{"calls", "foreign", "faults", "refreshes"} -> Nat]
  BY SpendType, BoundsAssumption DEF Drop
<1>2. PICK q \in Requests : call.request = {q}
  BY OneRequest DEF Drop
<1>3. call' = Idle \/ call' = [pc |-> "sent", request |-> {q}, again |-> TRUE, answer |-> {}]
  BY <1>2 DEF Drop, TypeOK
<1> QED
  BY <1>1, <1>2, <1>3 DEF Drop, TypeOK, Idle

LEMMA TypeGiveUp ==
  ASSUME TypeOK, Reject \/ TimeOut
  PROVE  TypeOK'
<1>1. used' \in [{"calls", "foreign", "faults", "refreshes"} -> Nat]
  BY SpendType, BoundsAssumption DEF Reject, TimeOut
<1>2. call' = Idle
  BY DEF Reject, TimeOut
<1>3. late' = {} \/ \E q \in Requests : late' = {q}
  BY OneRequest DEF Reject, TimeOut, TypeOK
<1> QED
  BY <1>1, <1>2, <1>3 DEF Reject, TimeOut, TypeOK, Idle

LEMMA TypeExecuteLate ==
  ASSUME TypeOK, ExecuteLate
  PROVE  TypeOK'
<1>1. PICK q \in late : Becomes(Applied(q))
  BY DEF ExecuteLate
<1>2. Applied(q) \in Records
  BY OneRequest, RequestEffect
<1>3. /\ shc' \in Records /\ queue' \in Seq(Records)
      /\ (queue' # <<>> => queue'[Len(queue')] = shc')
  BY <1>1, <1>2, BecomesQueue
<1> QED
  BY <1>3 DEF ExecuteLate, TypeOK, Idle

LEMMA TypeForeign ==
  ASSUME TypeOK, NEW k \in Fields, NEW v \in Values \cup {New}, Foreign(k, v)
  PROVE  TypeOK'
<1>1. [shc EXCEPT ![k] = v] \in Records
  BY DEF TypeOK, Records, Data
<1>2. /\ shc' \in Records /\ queue' \in Seq(Records)
      /\ (queue' # <<>> => queue'[Len(queue')] = shc')
  BY <1>1, BecomesQueue DEF Foreign
<1>3. used' \in [{"calls", "foreign", "faults", "refreshes"} -> Nat]
  BY SpendType, BoundsAssumption DEF Foreign
<1> QED
  BY <1>2, <1>3 DEF Foreign, TypeOK, Idle

LEMMA TypeRefresh ==
  ASSUME TypeOK, Refresh
  PROVE  TypeOK'
<1>1. used' \in [{"calls", "foreign", "faults", "refreshes"} -> Nat]
  BY SpendType, BoundsAssumption DEF Refresh
<1> QED
  BY <1>1 DEF Refresh, TypeOK, Idle

\* The events left after some were taken from the front.
LEMMA TakenFromFront ==
  ASSUME TypeOK, NEW n \in 1 .. Len(queue)
  PROVE  LET rest == SubSeq(queue, n + 1, Len(queue))
         IN  /\ rest \in Seq(Records) /\ (rest # <<>> => rest[Len(rest)] = shc)
             /\ rest = <<>> => n = Len(queue)
             /\ {rest[i] : i \in DOMAIN rest} \subseteq {queue[i] : i \in DOMAIN queue}
<1> DEFINE rest == SubSeq(queue, n + 1, Len(queue))
<1>1. queue \in Seq(Records) /\ (queue # <<>> => queue[Len(queue)] = shc)
  BY DEF TypeOK
<1>2. /\ rest \in Seq(Records) /\ Len(rest) = Len(queue) - n
      /\ \A i \in 1 .. Len(rest) : rest[i] = queue[i + n]
  BY <1>1
<1>3. DOMAIN rest = 1 .. Len(rest) /\ DOMAIN queue = 1 .. Len(queue) /\ n \in Nat
      /\ Len(queue) \in Nat
  BY <1>1, <1>2
<1> HIDE DEF rest
<1>4. rest # <<>> => Len(rest) \in 1 .. Len(rest)
  BY <1>2, <1>3
<1>5. rest # <<>> => rest[Len(rest)] = shc
  BY <1>1, <1>2, <1>3, <1>4
<1>6. rest = <<>> => n = Len(queue)
  BY <1>2, <1>3
<1>7. \A i \in DOMAIN rest : rest[i] = queue[i + n] /\ i + n \in DOMAIN queue
  BY <1>2, <1>3
<1>8. {rest[i] : i \in DOMAIN rest} \subseteq {queue[i] : i \in DOMAIN queue}
  BY <1>7
<1> QED
  BY <1>2, <1>5, <1>6, <1>8 DEF rest

LEMMA TypeDeliver ==
  ASSUME TypeOK, Deliver
  PROVE  TypeOK'
<1>1. queue \in Seq(Records) /\ queue # <<>>
  BY DEF TypeOK, Deliver
<1>2. view' \in Records
  BY <1>1, HeadTailProperties DEF Deliver
<1>3. PICK n \in 1 .. Len(queue) :
        /\ queue' = SubSeq(queue, n + 1, Len(queue))
        /\ behind' = IF queue' = <<>> THEN n > 1 ELSE behind
  <2>1. {1} \subseteq 1 .. Len(queue)
    BY <1>1
  <2> QED
    BY <2>1 DEF Deliver
<1>4. /\ queue' \in Seq(Records) /\ (queue' # <<>> => queue'[Len(queue')] = shc)
  BY <1>3, TakenFromFront
<1>5. behind' \in BOOLEAN
  <2>1. behind \in BOOLEAN
    BY DEF TypeOK
  <2>2. (n > 1) \in BOOLEAN
    OBVIOUS
  <2>3. CASE queue' = <<>>
    BY <1>3, <2>2, <2>3, Zenon
  <2>4. CASE queue' # <<>>
    BY <1>3, <2>1, <2>4, Zenon
  <2> QED
    BY <2>3, <2>4
<1> QED
  BY <1>2, <1>4, <1>5 DEF Deliver, TypeOK, Idle

LEMMA TypeStep ==
  ASSUME TypeOK, [Next]_vars
  PROVE  TypeOK'
<1>1. CASE UNCHANGED vars
  BY <1>1 DEF TypeOK, vars, Idle
<1> QED
  BY <1>1, TypeSet, TypeCompose, TypeAssign, TypeExecute, TypeAnswer, TypeDrop, TypeGiveUp, TypeExecuteLate,
     TypeForeign, TypeRefresh, TypeDeliver DEF Next

(***************************************************************************)
(* The variables of ServiceAccess keep their types, the last event on its  *)
(* way is always the record of the SHC, and a call has a reply exactly     *)
(* when its request was executed (put_state, set_profile and               *)
(* _session_request under them).                                           *)
(***************************************************************************)
THEOREM TypeCorrect == Spec => []TypeOK
<1>1. TypeOK /\ [Next]_vars => TypeOK'
  BY TypeStep
<1> QED
  BY <1>1, TypeInit, PTL DEF Spec

-----------------------------------------------------------------------------
(* Safety.                                                                 *)

\* An answer nobody disturbed is the record of the SHC.
AnswerIsCurrent == call.pc = "done" /\ calm => call.answer = {shc}

\* The range at the SHC is in order, and every request is.
RangesInOrder ==
    /\ RangeStaysValid
    /\ \A q \in call.request \cup late : InOrder(q.val, q.seen.g)

\* A range is checked and sent from one read.
SplitHasNoOrder == call.pc = "asked" => case.order = "none"

\* Executed once more, an undisturbed request changes nothing.
RepeatIsIdle == calm => \A q \in call.request : Applied(q) = shc

\* The other field of a request whose caller saw the record is that of the SHC.
FreshKeeps ==
    fresh /\ shc.g \in Values =>
        \A q \in call.request : "g" \in Sent(q) => Body(q).g = shc.g

\* Nor is any field other than the profile of a device that set_profile sends.
SentAsSeen ==
    case.stores /\ fresh => \A q \in call.request : q.seen.g = shc.g

\* A configuration that is known stays known, also between the two reads of a
\* guarded write.
GuardHolds ==
    case.guarded => /\ \A r \in {queue[i] : i \in DOMAIN queue} : r # Unknown
                    /\ view # Unknown => shc # Unknown
                    /\ call.pc = "asked" => view # Unknown

IInv == /\ SentAsSeen /\ GuardHolds /\ SplitHasNoOrder
        /\ TypeOK /\ QuietIsCurrent /\ AnswerIsCurrent
        /\ RangesInOrder /\ RepeatIsIdle /\ FreshKeeps

LEMMA SafeInit == Init => IInv
<1> SUFFICES ASSUME Init PROVE IInv
  OBVIOUS
<1>1. TypeOK
  BY TypeInit
<1>2. call.request = {} /\ call.pc = "idle" /\ late = {}
  BY DEF Init, Idle
<1>3. QuietIsCurrent
  BY DEF Init, QuietIsCurrent
<1>4. InOrder(shc.f, shc.g)
  BY DEF Init, Possible
<1>5. SentAsSeen
  BY <1>2 DEF SentAsSeen
<1>6. GuardHolds /\ SplitHasNoOrder
  BY <1>2 DEF GuardHolds, SplitHasNoOrder, Init
<1> QED
  BY <1>1, <1>2, <1>3, <1>4, <1>5, <1>6
     DEF IInv, AnswerIsCurrent, RangesInOrder, RangeStaysValid, RepeatIsIdle, FreshKeeps

LEMMA SameCase == [Next]_vars => case' = case
  BY DEF Next, vars, Set, Compose, Assign, Execute, Answer, Reject, Drop, TimeOut, ExecuteLate, Foreign,
         Refresh, Deliver

LEMMA RangeOfRequest ==
  ASSUME TypeOK, NEW q \in Requests, InOrder(q.val, q.seen.g), InOrder(shc.f, shc.g)
  PROVE  InOrder(Applied(q).f, Applied(q).g)
<1>1. case \in CaseType /\ (case.order # "none" => case.fill = "decoded" /\ ~case.patch)
  BY CasesAssumption DEF TypeOK
<1>2. case.order \in {"none", "low", "high"}
  BY <1>1 DEF CaseType
<1>3. CASE case.order = "none"
  BY <1>3 DEF InOrder
<1>4. CASE case.order # "none"
  <2>1. "f" \in Sent(q) /\ "g" \in Sent(q)
    BY <1>1, <1>4 DEF Sent
  <2>2. Applied(q).f = q.val /\ Applied(q).g = Body(q).g
    BY <2>1, RequestEffect
  <2>3. Bound("g", Body(q).g) = Bound("g", q.seen.g)
    BY RequestBody DEF TypeOK
  <2> QED
    BY <1>2, <1>4, <2>2, <2>3 DEF InOrder
<1> QED
  BY <1>3, <1>4

\* InOrder is about the kind of write, which never changes.
LEMMA SameOrder ==
  ASSUME case' = case, NEW f, NEW g
  PROVE  InOrder(f, g)' <=> InOrder(f, g)
  BY DEF InOrder, Bound, DefaultOf

\* So are the fields a request holds.
LEMMA SameRequest ==
  ASSUME case' = case, NEW q
  PROVE  Sent(q)' = Sent(q) /\ Body(q)' = Body(q)
  BY DEF Sent, Body, Decoded, Outcome, DefaultOf

\* The one request of a call that is under way, and what its execution does.
LEMMA OneExecution ==
  ASSUME TypeOK, Execute
  PROVE  \E q \in Requests :
           /\ call.request = {q} /\ call'.request = {q}
           /\ Becomes(Applied(q)) /\ Applied(q) \in Records /\ shc' = Applied(q)
           /\ call'.answer = {Applied(q)} /\ call'.pc = "done"
<1>1. PICK q \in call.request : Becomes(Applied(q))
                               /\ call' = [call EXCEPT !.pc = "done", !.answer = {Applied(q)}]
  BY DEF Execute
<1>2. q \in Requests /\ call.request = {q}
  BY <1>1, OneRequest DEF Execute
<1>3. Applied(q) \in Records /\ shc' = Applied(q)
  BY <1>1, <1>2, RequestEffect, BecomesQueue
<1>4. /\ call'.request = {q} /\ call'.answer = {Applied(q)} /\ call'.pc = "done"
  BY <1>1, <1>2 DEF TypeOK
<1> QED
  BY <1>1, <1>2, <1>3, <1>4

LEMMA QuietStep ==
  ASSUME IInv, [Next]_vars
  PROVE  QuietIsCurrent'
<1> SUFFICES ASSUME queue' = <<>>, ~behind' PROVE view' = shc'
  BY DEF QuietIsCurrent
<1>1. TypeOK /\ (queue = <<>> /\ ~behind => view = shc)
  BY DEF IInv, QuietIsCurrent
<1>2. CASE UNCHANGED <<shc, view, queue, behind>>
  BY <1>1, <1>2
<1>3. CASE Execute
  <2>1. shc' = shc /\ queue = <<>>
    BY <1>1, <1>3, OneExecution, BecomesQueue
  <2> QED
    BY <1>1, <1>3, <2>1 DEF Execute
<1>4. CASE ExecuteLate
  <2>1. PICK q \in late : Becomes(Applied(q))
    BY <1>4 DEF ExecuteLate
  <2>2. shc' = shc /\ queue = <<>>
    BY <1>1, <2>1, OneRequest, RequestEffect, BecomesQueue
  <2> QED
    BY <1>1, <1>4, <2>2 DEF ExecuteLate
<1>5. ASSUME NEW k \in Fields, NEW v \in Values \cup {New}, Foreign(k, v)
      PROVE  view' = shc'
  <2>1. [shc EXCEPT ![k] = v] \in Records
    BY <1>1 DEF TypeOK, Records, Data
  <2>2. shc' = shc /\ queue = <<>>
    BY <1>1, <1>5, <2>1, BecomesQueue DEF Foreign
  <2> QED
    BY <1>1, <1>5, <2>2 DEF Foreign
<1>6. CASE Answer /\ view' \in call.answer /\ behind' = (queue = <<>> /\ ~calm)
  <2>1. call.pc = "done" /\ queue' = queue /\ shc' = shc
    BY <1>6 DEF Answer
  <2>2. calm
    BY <1>6, <2>1
  <2>3. call.answer = {shc}
    BY <2>1, <2>2 DEF IInv, AnswerIsCurrent
  <2> QED
    BY <1>6, <2>1, <2>3
<1>9. ASSUME Answer, case.stores, behind' = (queue = <<>> /\ ~(calm /\ fresh)),
             NEW q \in call.request, view' = Body(q)
      PROVE  view' = shc'
  <2>1. queue' = queue /\ shc' = shc /\ case \in Cases /\ shc \in Records
    BY <1>1, <1>9 DEF Answer, TypeOK
  <2>2. calm /\ fresh
    BY <1>9, <2>1
  <2>3. q \in Requests
    BY <1>1, <1>9, OneRequest
  <2>4. Applied(q) = shc /\ q.seen.g = shc.g
    BY <1>9, <2>2 DEF IInv, RepeatIsIdle, SentAsSeen
  <2>5. "f" \in Sent(q) /\ Body(q) = [f |-> q.val, g |-> q.seen.g]
    BY <1>9, <2>1, <2>3, StoredBody
  <2>6. shc.f = q.val
    BY <1>1, <2>3, <2>4, <2>5, RequestEffect
  <2> QED
    BY <1>9, <2>1, <2>4, <2>5, <2>6, TwoFields
<1>10. CASE Answer
  BY <1>2, <1>6, <1>9, <1>10 DEF Answer
<1>11. ASSUME NEW v \in Values, Assign(v)
       PROVE  view' = shc'
  BY <1>11 DEF Assign
<1>7. CASE Deliver
  <2>1. queue \in Seq(Records) /\ queue # <<>> /\ queue[Len(queue)] = shc
    BY <1>1, <1>7 DEF TypeOK, Deliver
  <2>2. PICK n \in 1 .. Len(queue) :
          /\ queue' = SubSeq(queue, n + 1, Len(queue))
          /\ behind' = (n > 1)
    <3>1. {1} \subseteq 1 .. Len(queue)
      BY <2>1
    <3> QED
      BY <1>7, <3>1 DEF Deliver
  <2>3. n = Len(queue)
    BY <1>1, <2>2, TakenFromFront
  <2>4. ~(n > 1)
    BY <2>2, Zenon
  <2>5. Len(queue) = 1
    BY <2>1, <2>3, <2>4
  <2>6. view' = queue[1]
    BY <1>7, <2>1, HeadTailProperties DEF Deliver
  <2> QED
    BY <1>7, <2>1, <2>5, <2>6 DEF Deliver
<1>8. CASE Refresh
  BY <1>8 DEF Refresh
<1> QED
  BY <1>2, <1>3, <1>4, <1>5, <1>7, <1>8, <1>10, <1>11
     DEF Next, vars, Set, Compose, Reject, Drop, TimeOut

LEMMA AnswerStep ==
  ASSUME IInv, [Next]_vars
  PROVE  AnswerIsCurrent'
<1> SUFFICES ASSUME call'.pc = "done", calm' PROVE call'.answer = {shc'}
  BY DEF AnswerIsCurrent
<1>1. TypeOK /\ (call.pc = "done" /\ calm => call.answer = {shc})
  BY DEF IInv, AnswerIsCurrent
<1>2. CASE UNCHANGED <<shc, call, calm>>
  BY <1>1, <1>2
<1>3. CASE Execute
  BY <1>1, <1>3, OneExecution
<1>4. CASE call' = Idle
  BY <1>4 DEF Idle
<1>5. CASE ~calm'
  BY <1>5
<1>6. CASE Drop
  <2>1. CASE call' = Idle
    BY <2>1 DEF Idle
  <2>2. CASE call' = [call EXCEPT !.pc = "sent", !.again = TRUE, !.answer = {}]
    <3>1. call'.pc = "sent"
      BY <1>1, <2>2 DEF TypeOK
    <3> QED
      BY <3>1
  <2> QED
    BY <1>6, <2>1, <2>2 DEF Drop
<1>7. CASE Answer \/ Reject \/ TimeOut
  BY <1>4, <1>7 DEF Answer, Reject, TimeOut
<1>8. ASSUME NEW v \in Values, Set(v) PROVE call'.answer = {shc'}
  BY <1>5, <1>8 DEF Set
<1>9. CASE ExecuteLate
  BY <1>5, <1>9 DEF ExecuteLate
<1>10. ASSUME NEW k \in Fields, NEW v \in Values \cup {New}, Foreign(k, v)
       PROVE  call'.answer = {shc'}
  BY <1>5, <1>10 DEF Foreign
<1>11. CASE Compose
  BY <1>5, <1>11 DEF Compose
<1> QED
  BY <1>2, <1>3, <1>6, <1>7, <1>8, <1>9, <1>10, <1>11 DEF Next, vars, Refresh, Deliver, Assign

\* Every step sets, executes, is foreign, or leaves the record alone.
LEMMA StepKinds ==
  ASSUME TypeOK, [Next]_vars
  PROVE  \/ Execute \/ ExecuteLate \/ Compose
         \/ \E v \in Values : Set(v)
         \/ \E k \in Fields, v \in Values \cup {New} : Foreign(k, v)
         \/ /\ shc' = shc /\ (fresh' => fresh) /\ (calm' => calm)
            /\ call'.request \subseteq call.request
            /\ late' \subseteq call.request \cup late
<1>1. CASE Drop
  <2>1. call'.request \subseteq call.request
    <3>1. CASE call' = Idle
      BY <3>1 DEF Idle
    <3>2. CASE call' = [call EXCEPT !.pc = "sent", !.again = TRUE, !.answer = {}]
      BY <3>2 DEF TypeOK
    <3> QED
      BY <1>1, <3>1, <3>2 DEF Drop
  <2> QED
    BY <1>1, <2>1 DEF Drop
<1> QED
  BY <1>1 DEF Next, vars, Assign, Answer, Reject, TimeOut, Refresh, Deliver, Idle

LEMMA RangesStep ==
  ASSUME IInv, [Next]_vars
  PROVE  RangesInOrder'
<1>1. TypeOK /\ case' = case
  BY SameCase DEF IInv
<1>2. InOrder(shc.f, shc.g) /\ \A q \in call.request \cup late : InOrder(q.val, q.seen.g)
  BY DEF IInv, RangesInOrder, RangeStaysValid
<1>3. SUFFICES /\ InOrder(shc'.f, shc'.g)
               /\ \A q \in call'.request \cup late' : InOrder(q.val, q.seen.g)
  BY <1>1, SameOrder DEF RangesInOrder, RangeStaysValid
<1>4. CASE Execute
  <2>1. PICK q \in Requests : call.request = {q} /\ call'.request = {q} /\ shc' = Applied(q)
    BY <1>1, <1>4, OneExecution
  <2>2. InOrder(shc'.f, shc'.g)
    BY <1>1, <1>2, <2>1, RangeOfRequest
  <2> QED
    BY <1>2, <1>4, <2>1, <2>2 DEF Execute
<1>5. CASE ExecuteLate
  <2>1. PICK q \in late : Becomes(Applied(q))
    BY <1>5 DEF ExecuteLate
  <2>2. q \in Requests /\ shc' = Applied(q)
    BY <1>1, <2>1, OneRequest, RequestEffect, BecomesQueue
  <2>3. InOrder(shc'.f, shc'.g)
    BY <1>1, <1>2, <2>2, RangeOfRequest
  <2> QED
    BY <1>2, <1>5, <2>3 DEF ExecuteLate
<1>6. ASSUME NEW v \in Values, Set(v)
      PROVE  /\ InOrder(shc'.f, shc'.g)
             /\ \A q \in call'.request \cup late' : InOrder(q.val, q.seen.g)
  <2>1. InOrder(v, view.g)
    BY <1>6 DEF Set, Sendable
  <2>2. call'.request = {[val |-> v, seen |-> view]}
    BY <1>6 DEF Set, Idle
  <2> QED
    BY <1>2, <1>6, <2>1, <2>2 DEF Set
<1>8. CASE Compose
  <2>1. InOrder(shc'.f, shc'.g) /\ late' = late
    BY <1>2, <1>8 DEF Compose
  <2>2. CASE case.order \notin {"low", "high"}
    BY <2>1, <2>2 DEF InOrder
  <2>3. CASE case.order \in {"low", "high"}
    BY <1>1, <1>8, <2>3 DEF IInv, SplitHasNoOrder, Compose
  <2> QED
    BY <2>2, <2>3
<1>7. ASSUME NEW k \in Fields, NEW v \in Values \cup {New}, Foreign(k, v)
      PROVE  /\ InOrder(shc'.f, shc'.g)
             /\ \A q \in call'.request \cup late' : InOrder(q.val, q.seen.g)
  <2>1. InOrder(shc'.f, shc'.g)
    BY <1>7 DEF Foreign, Possible, Becomes
  <2> QED
    BY <1>2, <1>7, <2>1 DEF Foreign
<1> QED
  BY <1>1, <1>2, <1>4, <1>5, <1>6, <1>7, <1>8, StepKinds

LEMMA RepeatStep ==
  ASSUME IInv, [Next]_vars
  PROVE  RepeatIsIdle'
<1>1. TypeOK /\ case' = case
  BY SameCase DEF IInv
<1>2. CASE Execute
  <2>1. PICK q \in Requests : call'.request = {q} /\ shc' = Applied(q)
    BY <1>1, <1>2, OneExecution
  <2>2. Applied(q)' = [k \in Fields |-> IF k \in Sent(q) THEN Body(q)[k] ELSE shc'[k]]
    BY <1>1, SameRequest DEF Applied
  <2>3. \A k \in Fields : k \in Sent(q) => shc'[k] = Body(q)[k]
    BY <2>1 DEF Applied
  <2>4. Applied(q) \in Records
    BY <1>1, RequestEffect
  <2>5. \A k \in Fields : Applied(q)'[k] = shc'[k]
    BY <2>2, <2>3
  <2>6. Applied(q)' = shc'
    BY <2>1, <2>2, <2>4, <2>5 DEF Records
  <2> QED
    BY <2>1, <2>6 DEF RepeatIsIdle
<1>3. CASE ~calm'
  BY <1>3 DEF RepeatIsIdle
<1>4. CASE shc' = shc /\ (calm' => calm) /\ call'.request \subseteq call.request
  <2>1. \A q : Applied(q)' = Applied(q)
    BY <1>1, <1>4, SameRequest DEF Applied
  <2> QED
    BY <1>4, <2>1 DEF IInv, RepeatIsIdle
<1> QED
  BY <1>1, <1>2, <1>3, <1>4, StepKinds
     DEF Set, Compose, ExecuteLate, Foreign

LEMMA FreshStep ==
  ASSUME IInv, [Next]_vars
  PROVE  FreshKeeps'
<1>1. TypeOK /\ case' = case
  BY SameCase DEF IInv
<1>2. SUFFICES ASSUME fresh', shc'.g \in Values, NEW q \in call'.request, "g" \in Sent(q)
               PROVE  Body(q).g = shc'.g
  BY <1>1, SameRequest DEF FreshKeeps
<1>3. CASE Execute
  <2>1. call'.request \subseteq Requests /\ shc' = Applied(q)
    BY <1>1, <1>3, OneExecution
  <2> QED
    BY <1>1, <1>2, <2>1, RequestEffect
<1>4. ASSUME NEW v \in Values, Set(v)
      PROVE  Body(q).g = shc'.g
  <2>1. q = [val |-> v, seen |-> view] /\ view = shc /\ shc' = shc
    BY <1>2, <1>4 DEF Set, Idle
  <2>2. q \in Requests
    BY <1>1, <2>1 DEF TypeOK, Requests
  <2>3. q.seen.g = shc.g /\ shc.g \notin {Absent, New}
    BY <1>2, <2>1, ValuesAssumption
  <2> QED
    BY <1>1, <2>1, <2>2, <2>3, RequestBody DEF TypeOK
<1>5. CASE shc' = shc /\ (fresh' => fresh) /\ call'.request \subseteq call.request
  BY <1>2, <1>5 DEF IInv, FreshKeeps
<1>6. CASE Compose
  <2>1. q \in Requests /\ q.seen.g = view.g
    BY <1>1, <1>2, <1>6, OneComposition
  <2>2. view = shc /\ shc' = shc
    BY <1>2, <1>6 DEF Compose
  <2>3. q.seen.g = shc.g /\ shc.g \notin {Absent, New}
    BY <1>2, <2>1, <2>2, ValuesAssumption
  <2> QED
    BY <1>1, <2>1, <2>2, <2>3, RequestBody DEF TypeOK
<1> QED
  BY <1>1, <1>2, <1>3, <1>4, <1>5, <1>6, StepKinds DEF ExecuteLate, Foreign

LEMMA SplitStep ==
  ASSUME IInv, [Next]_vars
  PROVE  SplitHasNoOrder'
<1>1. TypeOK /\ case' = case
  BY SameCase DEF IInv
<1>2. ASSUME NEW v \in Values, Set(v), call'.pc = "asked"
      PROVE  case.order = "none"
  <2>1. case.split
    BY <1>2 DEF Set, Idle
  <2> QED
    BY <1>1, <2>1, CasesAssumption DEF TypeOK
<1>3. ASSUME call.pc = "asked"
      PROVE  case.order = "none"
  BY <1>3 DEF IInv, SplitHasNoOrder
<1>4. CASE Execute \/ Compose
  <2>1. call'.pc # "asked"
    BY <1>1, <1>4, OneExecution, OneComposition
  <2> QED
    BY <2>1 DEF SplitHasNoOrder
<1>5. CASE Drop
  <2>1. call'.pc # "asked"
    BY <1>1, <1>5 DEF Drop, Idle, TypeOK
  <2> QED
    BY <2>1 DEF SplitHasNoOrder
<1>6. CASE UNCHANGED call \/ call' = Idle
  BY <1>1, <1>3, <1>6 DEF SplitHasNoOrder, Idle
<1>7. ASSUME NEW v \in Values, Set(v)
      PROVE  SplitHasNoOrder'
  BY <1>1, <1>2, <1>7 DEF SplitHasNoOrder
<1> QED
  BY <1>4, <1>5, <1>6, <1>7
     DEF Next, vars, Assign, Answer, Reject, TimeOut, ExecuteLate, Foreign, Refresh, Deliver

LEMMA SentStep ==
  ASSUME IInv, [Next]_vars
  PROVE  SentAsSeen'
<1>1. TypeOK /\ case' = case
  BY SameCase DEF IInv
<1>2. SUFFICES ASSUME case.stores, fresh', NEW q \in call'.request
               PROVE  q.seen.g = shc'.g
  BY <1>1 DEF SentAsSeen
<1>3. CASE Execute
  <2>1. call'.request = call.request /\ q \in Requests /\ shc' = Applied(q) /\ fresh
    BY <1>1, <1>2, <1>3, OneExecution DEF Execute
  <2>2. q.seen.g = shc.g
    BY <1>2, <2>1 DEF IInv, SentAsSeen
  <2>3. Body(q).g = q.seen.g
    BY <1>1, <1>2, <2>1, StoredBody DEF TypeOK
  <2> QED
    BY <1>1, <2>1, <2>2, <2>3, RequestEffect
<1>4. ASSUME NEW v \in Values, Set(v)
      PROVE  q.seen.g = shc'.g
  <2>1. call'.request = {[val |-> v, seen |-> view]}
    BY <1>4 DEF Set, Idle
  <2>2. view = shc /\ shc' = shc
    BY <1>2, <1>4 DEF Set
  <2> QED
    BY <1>2, <2>1, <2>2
<1>5. CASE shc' = shc /\ (fresh' => fresh) /\ call'.request \subseteq call.request
  BY <1>2, <1>5 DEF IInv, SentAsSeen
<1>6. CASE Compose
  <2>1. q.seen.g = view.g
    BY <1>1, <1>2, <1>6, OneComposition
  <2> QED
    BY <1>2, <1>6, <2>1 DEF Compose
<1> QED
  BY <1>1, <1>2, <1>3, <1>4, <1>5, <1>6, StepKinds DEF ExecuteLate, Foreign

\* Whatever a guarded block holds was a value: it is sent whole.
LEMMA KnownAfter ==
  ASSUME TypeOK, case.guarded, NEW q \in Requests
  PROVE  Applied(q) # Unknown
<1>1. "f" \in Sent(q)
  BY CasesAssumption DEF TypeOK, Sent
<1>2. Applied(q).f \in Values
  BY <1>1, RequestEffect DEF Requests
<1>3. Absent \notin Values
  BY ValuesAssumption
<1>4. Unknown.f = Absent
  BY DEF Unknown, Fields
<1> QED
  BY <1>2, <1>3, <1>4

LEMMA GuardStep ==
  ASSUME IInv, [Next]_vars
  PROVE  GuardHolds'
<1>1. TypeOK /\ case' = case
  BY SameCase DEF IInv
<1>2. SUFFICES ASSUME case.guarded
               PROVE  /\ \A r \in {queue'[i] : i \in DOMAIN queue'} : r # Unknown
                      /\ view' # Unknown => shc' # Unknown
                      /\ call'.pc = "asked" => view' # Unknown
  BY <1>1 DEF GuardHolds
<1>3. /\ \A r \in {queue[i] : i \in DOMAIN queue} : r # Unknown
      /\ view # Unknown => shc # Unknown
      /\ call.pc = "asked" => view # Unknown
  BY <1>2 DEF IInv, GuardHolds
<1>4. ~case.stores /\ ~case.local
  BY <1>1, <1>2, CasesAssumption DEF TypeOK
<1>5. ASSUME NEW r \in Records, r # Unknown, Becomes(r), view' = view,
             call'.pc = "asked" => call.pc = "asked"
      PROVE  /\ \A x \in {queue'[i] : i \in DOMAIN queue'} : x # Unknown
             /\ view' # Unknown => shc' # Unknown
             /\ call'.pc = "asked" => view' # Unknown
  <2>1. /\ shc' = r
        /\ {queue'[i] : i \in DOMAIN queue'} \subseteq {queue[i] : i \in DOMAIN queue} \cup {r}
    BY <1>1, <1>5, BecomesQueue
  <2> QED
    BY <1>3, <1>5, <2>1
<1>6. CASE Execute
  <2>1. PICK q \in Requests : Becomes(Applied(q)) /\ Applied(q) \in Records
                              /\ call'.pc = "done"
    BY <1>1, <1>6, OneExecution
  <2>2. Applied(q) # Unknown
    BY <1>1, <1>2, KnownAfter
  <2>3. view' = view
    BY <1>6 DEF Execute
  <2> QED
    BY <1>5, <2>1, <2>2, <2>3
<1>7. CASE ExecuteLate
  <2>1. PICK q \in late : Becomes(Applied(q))
    BY <1>7 DEF ExecuteLate
  <2>2. Applied(q) \in Records /\ Applied(q) # Unknown
    BY <1>1, <1>2, <2>1, OneRequest, RequestEffect, KnownAfter
  <2>3. view' = view /\ call' = call
    BY <1>7 DEF ExecuteLate
  <2> QED
    BY <1>5, <2>1, <2>2, <2>3
<1>8. ASSUME NEW k \in Fields, NEW v \in Values \cup {New}, Foreign(k, v)
      PROVE  /\ \A r \in {queue'[i] : i \in DOMAIN queue'} : r # Unknown
             /\ view' # Unknown => shc' # Unknown
             /\ call'.pc = "asked" => view' # Unknown
  <2>1. [shc EXCEPT ![k] = v] \in Records /\ [shc EXCEPT ![k] = v][k] = v
    BY <1>1 DEF TypeOK, Records, Data
  <2>2. v # Absent /\ Unknown[k] = Absent
    BY ValuesAssumption DEF Unknown
  <2>3. Becomes([shc EXCEPT ![k] = v]) /\ view' = view /\ call' = call
    BY <1>8 DEF Foreign
  <2> QED
    BY <1>5, <2>1, <2>2, <2>3
<1>9. CASE Deliver
  <2>1. queue \in Seq(Records) /\ queue # <<>> /\ queue[Len(queue)] = shc
    BY <1>1, <1>9 DEF TypeOK, Deliver
  <2>2. PICK n \in 1 .. Len(queue) : queue' = SubSeq(queue, n + 1, Len(queue))
    <3>1. {1} \subseteq 1 .. Len(queue)
      BY <2>1
    <3> QED
      BY <1>9, <3>1 DEF Deliver
  <2>3. {queue'[i] : i \in DOMAIN queue'} \subseteq {queue[i] : i \in DOMAIN queue}
    BY <1>1, <2>2, TakenFromFront
  <2>4. view' = queue[1] /\ 1 \in DOMAIN queue /\ Len(queue) \in DOMAIN queue
    BY <1>9, <2>1, HeadTailProperties DEF Deliver
  <2>5. view' # Unknown /\ shc # Unknown /\ shc' = shc
    BY <1>3, <1>9, <2>1, <2>4 DEF Deliver
  <2> QED
    BY <1>3, <2>3, <2>5
<1>10. CASE Refresh
  BY <1>3, <1>10 DEF Refresh
<1>11. CASE /\ UNCHANGED <<queue, view, shc>>
            /\ call'.pc = "asked" => call.pc = "asked" \/ view # Unknown
  BY <1>3, <1>11
<1>12. ASSUME NEW v \in Values, Set(v)
       PROVE  view # Unknown
  BY <1>2, <1>12 DEF Set, Sendable
<1>13. CASE Compose
  BY <1>1, <1>11, <1>13, OneComposition DEF Compose
<1>14. CASE Answer \/ Reject \/ TimeOut
  BY <1>4, <1>11, <1>14 DEF Answer, Reject, TimeOut, Idle
<1>15. CASE Drop
  <2>1. call'.pc # "asked"
    BY <1>1, <1>15 DEF Drop, Idle, TypeOK
  <2> QED
    BY <1>11, <1>15, <2>1 DEF Drop
<1> QED
  BY <1>4, <1>6, <1>7, <1>8, <1>9, <1>10, <1>11, <1>12, <1>13, <1>14, <1>15
     DEF Next, vars, Set, Assign

(***************************************************************************)
(* The parts that make the safety properties inductive hold in every  *)
(* reachable state (put_state, set_profile and _session_request).          *)
(***************************************************************************)
THEOREM Safe == Spec => []IInv
<1>1. Init => IInv
  BY SafeInit
<1>2. IInv /\ [Next]_vars => IInv'
  <2> SUFFICES ASSUME IInv, [Next]_vars PROVE IInv'
    OBVIOUS
  <2>1. TypeOK'
    BY TypeStep DEF IInv
  <2> QED
    BY <2>1, QuietStep, AnswerStep, RangesStep, RepeatStep, FreshStep,
       SplitStep, SentStep, GuardStep DEF IInv
<1> QED
  BY <1>1, <1>2, PTL DEF Spec

(***************************************************************************)
(* When no event is on its way the cached state is what the SHC has, but   *)
(* for the reasons QuietIsCurrent names: a batch was dropped, set_profile  *)
(* stored something older or a device it made up of old parts, or a local  *)
(* setter assigned a value (device_service.py 67-72, device.py 103-117).   *)
(***************************************************************************)
THEOREM CachedStateIsCurrent == Spec => []QuietIsCurrent
<1>1. IInv => QuietIsCurrent
  BY DEF IInv
<1> QED
  BY <1>1, Safe, PTL

(***************************************************************************)
(* The range of a dimmer at the SHC is never inverted, although it is      *)
(* checked against a cached bound (services_impl.py 2521-2545).            *)
(***************************************************************************)
THEOREM RangeIsNeverInverted == Spec => []RangeStaysValid
<1>1. IInv => RangeStaysValid
  BY DEF IInv, RangesInOrder
<1> QED
  BY <1>1, Safe, PTL

(***************************************************************************)
(* A write that nobody disturbs changes the field it is about and no other *)
(* (the merges of services_impl.py and device.py 101).                     *)
(***************************************************************************)
THEOREM WritesKeepOtherFields == Spec => UndisturbedWriteKeepsOthers
<1>1. IInv /\ [Next]_vars => [Execute /\ fresh /\ shc.g \in Values => shc'.g = shc.g]_vars
  <2> SUFFICES ASSUME IInv, Execute, fresh, shc.g \in Values
               PROVE  shc'.g = shc.g
    OBVIOUS
  <2>1. TypeOK
    BY DEF IInv
  <2>2. PICK q \in Requests : call.request = {q} /\ shc' = Applied(q)
    BY <2>1, OneExecution
  <2>3. "g" \in Sent(q) => Body(q).g = shc.g
    BY <2>2 DEF IInv, FreshKeeps
  <2> QED
    BY <2>1, <2>2, <2>3, RequestEffect
<1> QED
  BY <1>1, Safe, PTL DEF Spec, UndisturbedWriteKeepsOthers

(***************************************************************************)
(* A request the SHC executes a second time changes nothing unless         *)
(* somebody changed the record in between (api.py 86-111, api_async.py     *)
(* 157-191).                                                               *)
(***************************************************************************)
THEOREM RepeatIsHarmless == Spec => RepeatChangesNothing
<1>1. IInv /\ [Next]_vars => [Execute /\ call.again /\ calm => shc' = shc]_vars
  <2> SUFFICES ASSUME IInv, Execute, calm
               PROVE  shc' = shc
    OBVIOUS
  <2>1. PICK q \in Requests : call.request = {q} /\ shc' = Applied(q)
    BY OneExecution DEF IInv
  <2> QED
    BY <2>1 DEF IInv, RepeatIsIdle
<1> QED
  BY <1>1, Safe, PTL DEF Spec, RepeatChangesNothing

-----------------------------------------------------------------------------
(* Refinement.                                                             *)

LEMMA RecordsMap == SR!Records = Records /\ SR!Unknown = Unknown
  BY DEF SR!Records, Records, SR!Unknown, Unknown, Fields

LEMMA InitMaps == Init => SR!Init
<1> SUFFICES ASSUME Init PROVE SR!Init
  OBVIOUS
<1>1. shc \in Records /\ view \in {shc, Unknown}
  BY TypeInit DEF Init, TypeOK
<1>2. {queue[i] : i \in DOMAIN queue} \cup call.answer = {}
  BY DEF Init, Idle
<1>3. call.request \cup late = {} /\ used.foreign = 0
  BY DEF Init, Idle
<1> QED
  BY <1>1, <1>2, <1>3, RecordsMap DEF SR!Init

LEMMA EffectMaps ==
  ASSUME TypeOK, NEW q \in Requests
  PROVE  SR!Effect([val |-> q.val, saw |-> q.seen.g], Applied(q))
<1>1. Applied(q).f \in {shc.f, q.val}
  BY RequestEffect
<1>2. Applied(q).g \in {shc.g, Body(q).g}
  BY RequestEffect
<1>3. \/ Body(q).g = q.seen.g
      \/ /\ Body(q).g = DefaultOf("g") /\ q.seen.g \in {Absent, New}
         /\ case.fill = "decoded" /\ Outcome(case.g, q.seen.g) = "default"
  BY RequestBody DEF TypeOK
<1> QED
  BY <1>1, <1>2, <1>3 DEF SR!Effect

\* A change of the record brings its event along and nothing else.
LEMMA NewsMap ==
  ASSUME TypeOK, NEW r \in Records, Becomes(r), call'.answer \subseteq call.answer \cup {r}
  PROVE  {queue'[i] : i \in DOMAIN queue'} \cup call'.answer
            \subseteq ({queue[i] : i \in DOMAIN queue} \cup call.answer) \cup {shc'}
  BY BecomesQueue

LEMMA StepMaps ==
  ASSUME IInv, [Next]_vars
  PROVE  [SR!Next]_(SR!vars)
<1>1. TypeOK /\ case' = case
  BY SameCase DEF IInv
<1> DEFINE News == {queue[i] : i \in DOMAIN queue} \cup call.answer
           Kept == News' \subseteq News \cup {shc'}
           Pending == (IF call.pc = "asked" THEN {} ELSE call.request) \cup late
           Asked(q) == [val |-> q.val, saw |-> q.seen.g]
           Writes == {Asked(q) : q \in Pending}
<1>2. ASSUME Kept, SR!Ask \/ SR!TakeEffect \/ SR!Forget \/ SR!Foreign \/ SR!Learn \/ SR!Pretend
      PROVE  SR!Next
  BY <1>1, <1>2 DEF SR!Next, DefaultOf, Outcome
<1>3. CASE UNCHANGED vars
  BY <1>3 DEF vars, SR!vars, DefaultOf, Outcome
<1>12. ASSUME Pending' \subseteq Pending
       PROVE  Writes' \subseteq Writes
  BY <1>12
<1>13. ASSUME NEW q \in Requests, Pending' = Pending \cup {q}, q.seen.g = view.g,
              case.guarded => view # Unknown, UNCHANGED <<shc, view>>,
              used'.foreign = used.foreign
       PROVE  SR!Ask
  <2>1. Writes' = Writes \cup {Asked(q)}
    BY <1>13
  <2>2. q.val \in Data /\ Asked(q) = [val |-> q.val, saw |-> view.g]
    BY <1>13 DEF Requests, Data
  <2>3. \E v \in Data : Writes' = Writes \cup {[val |-> v, saw |-> view.g]}
    BY <2>1, <2>2
  <2> QED
    BY <1>13, <2>3, RecordsMap DEF SR!Ask
<1>4. ASSUME NEW v \in Values, Set(v)
      PROVE  SR!Next
  <2>1. /\ call'.request = {[val |-> v, seen |-> view]} /\ call'.answer = {}
        /\ call'.pc = (IF case.split THEN "asked" ELSE "sent") /\ call.request = {}
    BY <1>1, <1>4, OneRequest DEF Set, Idle
  <2>2. [val |-> v, seen |-> view] \in Requests /\ (case.guarded => view # Unknown)
    BY <1>1, <1>4 DEF Set, Sendable, Requests, TypeOK
  <2>3. used'.foreign = used.foreign
    BY <1>1, <1>4 DEF Set, Spend, TypeOK
  <2>7. UNCHANGED <<shc, view, late>> /\ call.pc = "idle"
    BY <1>4 DEF Set
  <2>4. ASSUME case.split
        PROVE  SR!Forget
    <3>1. Pending' \subseteq Pending
      BY <2>1, <2>4, <2>7
    <3>2. Writes' \subseteq Writes
      BY <1>12, <3>1
    <3> QED
      BY <2>3, <2>7, <3>2 DEF SR!Forget
  <2>5. ASSUME ~case.split
        PROVE  SR!Ask
    <3>1. Pending' = Pending \cup {[val |-> v, seen |-> view]}
      BY <2>1, <2>5, <2>7
    <3> QED
      BY <1>13, <2>2, <2>3, <2>7, <3>1
  <2>6. Kept
    BY <1>4, <2>1 DEF Set
  <2> QED
    BY <1>2, <2>4, <2>5, <2>6
<1>14. CASE Compose
  <2>1. PICK n \in Requests :
          /\ n.seen.g = view.g
          /\ call' = [pc |-> "sent", request |-> {n}, again |-> call.again, answer |-> {}]
    BY <1>1, <1>14, OneComposition
  <2>6. call.pc = "asked" /\ late' = late
    BY <1>14 DEF Compose
  <2>7. call'.pc = "sent" /\ call'.request = {n}
    BY <2>1
  <2>2. Pending' = Pending \cup {n}
    BY <2>6, <2>7
  <2>3. case.guarded => view # Unknown
    BY <1>14 DEF IInv, GuardHolds, Compose
  <2>4. SR!Ask
    BY <1>13, <1>14, <2>1, <2>2, <2>3 DEF Compose
  <2>5. Kept
    BY <1>14, <2>1 DEF Compose
  <2> QED
    BY <1>2, <2>4, <2>5
<1>15. ASSUME NEW v \in Values, Assign(v)
       PROVE  SR!Next
  <2>1. used'.foreign = used.foreign
    BY <1>1, <1>15 DEF Assign, Spend, TypeOK
  <2>2. SR!Pretend
    BY <1>15, <2>1 DEF Assign, SR!Pretend, Data
  <2>3. Kept
    BY <1>15 DEF Assign
  <2> QED
    BY <1>2, <2>2, <2>3
<1>16. ASSUME NEW q \in Requests, q \in Pending, Pending' \subseteq Pending, Becomes(Applied(q)),
              shc' = Applied(q), UNCHANGED <<view, used>>
       PROVE  SR!TakeEffect
  <2>1. Asked(q) \in Writes /\ Writes' \subseteq Writes
    BY <1>12, <1>16
  <2>2. SR!Effect(Asked(q), shc')
    BY <1>1, <1>16, EffectMaps
  <2>3. shc' \in SR!Records
    BY <1>1, <1>16, RequestEffect, RecordsMap
  <2>4. \E w \in Writes : SR!Effect(w, shc')
    BY <2>1, <2>2
  <2> QED
    BY <1>16, <2>1, <2>3, <2>4 DEF SR!TakeEffect
<1>5. CASE Execute
  <2>1. PICK q \in Requests :
          /\ call.request = {q} /\ call'.request = {q} /\ call'.pc = "done"
          /\ Becomes(Applied(q)) /\ Applied(q) \in Records /\ shc' = Applied(q)
          /\ call'.answer = {Applied(q)}
    BY <1>1, <1>5, OneExecution
  <2>2. q \in Pending /\ Pending' \subseteq Pending
    BY <1>5, <2>1 DEF Execute
  <2>3. SR!TakeEffect
    BY <1>5, <1>16, <2>1, <2>2 DEF Execute
  <2>4. Kept
    BY <1>1, <2>1, NewsMap
  <2> QED
    BY <1>2, <2>3, <2>4
<1>6. CASE ExecuteLate
  <2>1. PICK q \in late : Becomes(Applied(q))
    BY <1>6 DEF ExecuteLate
  <2>2. q \in Requests /\ Applied(q) \in Records /\ shc' = Applied(q)
    BY <1>1, <2>1, OneRequest, RequestEffect, BecomesQueue
  <2>3. q \in Pending /\ Pending' \subseteq Pending
    BY <1>6 DEF ExecuteLate
  <2>4. SR!TakeEffect
    BY <1>6, <1>16, <2>1, <2>2, <2>3 DEF ExecuteLate
  <2>5. Kept
    BY <1>1, <1>6, <2>1, <2>2, NewsMap DEF ExecuteLate
  <2> QED
    BY <1>2, <2>4, <2>5
<1>7. ASSUME NEW k \in Fields, NEW v \in Values \cup {New}, Foreign(k, v)
      PROVE  SR!Next
  <2>1. [shc EXCEPT ![k] = v] \in Records
    BY <1>1 DEF TypeOK, Records, Data
  <2>2. used'.foreign = used.foreign + 1
    BY <1>1, <1>7 DEF Foreign, Spend, TypeOK
  <2>3. SR!Foreign
    BY <1>7, <2>1, <2>2, RecordsMap DEF Foreign, Becomes, SR!Foreign
  <2>4. Kept
    BY <1>1, <1>7, <2>1, NewsMap DEF Foreign
  <2> QED
    BY <1>2, <2>3, <2>4
<1>8. CASE Answer
  <2>1. call'.request = {} /\ call'.answer = {} /\ call.pc = "done"
    BY <1>8 DEF Answer, Idle
  <2>2. Kept
    BY <1>8, <2>1 DEF Answer
  <2>3. Pending' \subseteq Pending
    BY <1>8, <2>1 DEF Answer
  <2>4. Writes' \subseteq Writes
    BY <1>12, <2>3
  <2>5. ASSUME case.stores, NEW q \in call.request, view' = Body(q)
        PROVE  SR!Learn
    <3>1. q \in Requests /\ Asked(q) \in Writes
      BY <1>1, <2>1, <2>5, OneRequest
    <3>2. view' = [f |-> Asked(q).val, g |-> Asked(q).saw]
      BY <1>1, <2>5, <3>1, StoredBody DEF TypeOK
    <3>3. view' \in SR!Believed
      BY <2>5, <3>1, <3>2 DEF SR!Believed
    <3> QED
      BY <1>8, <2>4, <3>3 DEF Answer, SR!Learn
  <2>8. UNCHANGED <<shc, used>>
    BY <1>8 DEF Answer
  <2>6. ASSUME view' \in call.answer
        PROVE  SR!Learn
    BY <2>4, <2>6, <2>8 DEF SR!Learn
  <2>7. ASSUME UNCHANGED view
        PROVE  SR!Forget
    BY <2>4, <2>7, <2>8 DEF SR!Forget
  <2> QED
    BY <1>2, <1>8, <2>2, <2>5, <2>6, <2>7 DEF Answer
<1>9. CASE Reject \/ Drop \/ TimeOut
  <2>1. /\ Pending' \subseteq Pending
        /\ call'.answer = {}
    <3>1. CASE call' = Idle
      BY <1>9, <3>1 DEF Reject, Drop, TimeOut, Idle
    <3>2. CASE /\ call' = [call EXCEPT !.pc = "sent", !.again = TRUE, !.answer = {}]
               /\ late' = late /\ call.pc # "asked"
      BY <1>1, <3>2 DEF TypeOK
    <3> QED
      BY <1>9, <3>1, <3>2 DEF Reject, Drop, TimeOut
  <2>2. used'.foreign = used.foreign
    BY <1>1, <1>9 DEF Reject, Drop, TimeOut, Spend, TypeOK
  <2>3. Writes' \subseteq Writes
    BY <1>12, <2>1
  <2>4. SR!Forget
    BY <1>9, <2>2, <2>3 DEF Reject, Drop, TimeOut, SR!Forget
  <2>5. Kept
    BY <1>9, <2>1 DEF Reject, Drop, TimeOut
  <2> QED
    BY <1>2, <2>4, <2>5
<1>10. CASE Refresh
  <2>1. used'.foreign = used.foreign
    BY <1>1, <1>10 DEF Refresh, Spend, TypeOK
  <2>2. SR!Learn
    BY <1>10, <2>1 DEF Refresh, SR!Learn
  <2> QED
    BY <1>2, <1>10, <2>2 DEF Refresh
<1>11. CASE Deliver
  <2>1. queue \in Seq(Records) /\ queue # <<>>
    BY <1>1, <1>11 DEF TypeOK, Deliver
  <2>2. PICK n \in 1 .. Len(queue) : queue' = SubSeq(queue, n + 1, Len(queue))
    <3>1. {1} \subseteq 1 .. Len(queue)
      BY <2>1
    <3> QED
      BY <1>11, <3>1 DEF Deliver
  <2>3. {queue'[i] : i \in DOMAIN queue'} \subseteq {queue[i] : i \in DOMAIN queue}
    BY <1>1, <2>2, TakenFromFront
  <2>4. view' = queue[1] /\ 1 \in DOMAIN queue
    BY <1>11, <2>1, HeadTailProperties DEF Deliver
  <2>5. view' \in News
    BY <2>4
  <2>6. SR!Learn
    BY <1>11, <2>5 DEF Deliver, SR!Learn
  <2>7. Kept
    BY <1>11, <2>3 DEF Deliver
  <2> QED
    BY <1>2, <2>6, <2>7
<1> QED
  BY <1>3, <1>4, <1>5, <1>6, <1>7, <1>8, <1>9, <1>10, <1>11, <1>14, <1>15 DEF Next

(***************************************************************************)
(* ServiceAccess implements SharedRecord: drops, repetitions, timeouts,    *)
(* lost batches and empty answers change nothing of what a client may rely *)
(* on.  It takes for current a record the SHC had, or, after set_profile   *)
(* was answered nothing, the device it sent (put_state and set_profile     *)
(* with everything below and above them).                                  *)
(***************************************************************************)
THEOREM Implementation == Spec => ImplementsSharedRecord
<1>1. IInv /\ [Next]_vars => [SR!Next]_(SR!vars)
  BY StepMaps
<1> QED
  BY <1>1, InitMaps, Safe, PTL DEF Spec, ImplementsSharedRecord, SR!Spec
=============================================================================
