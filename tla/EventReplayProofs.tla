------------------------- MODULE EventReplayProofs -------------------------
(* Proofs about EventReplay for every set of kinds and values and every      *)
(* value of the bounds.                                                      *)
EXTENDS EventReplay, TLAPS, SequenceTheorems

\* The SHC's log: the value of event 0 and of at most MaxEvents others; an alarm
\* changes its value with each.
LogInv ==
    /\ Len(log) \in 1 .. MaxEvents + 1
    /\ kind = "Alarm" => \A i \in 1 .. Len(log) - 1 : log[i] # log[i + 1]

Sorted(s) == \A i, j \in DOMAIN s : i <= j => s[i] <= s[j]

\* States are listed and handled in the order of their events.
OrderInv ==
    /\ Sorted(queue) /\ Sorted(batch)
    /\ \A x \in Members(batch), y \in Members(queue) : x <= y
    /\ \A x \in Members(batch) \cup Members(queue) : baseline <= x /\ x <= Last
    /\ baseline <= Last

\* Only a service that has a timestamp but never had an event has no baseline,
\* and nothing beyond the baseline has been handled.
BaselineInv ==
    /\ baseline = None => kind # "Alarm" /\ ~stamped
    /\ \A n \in Handled : n <= baseline \/ n = 0

\* Once an alarm has a callback, the baseline has the value it was last called with.
EdgeInv ==
    (kind = "Alarm" /\ fired # <<>>) =>
        /\ listening # {}
        /\ ValueOf(fired[Len(fired)]) = ValueOf(baseline)

\* Every event beyond the baseline is on its way or lost; the others have been
\* handled, lost or hidden, and the baseline itself has not been lost.
Ahead == \A n \in 1 .. Last : n > baseline => n \in missed \cup Members(queue) \cup Members(batch)
Behind == \A n \in 1 .. Last : n < baseline => n \in Handled \cup missed \/ Hidden(n)
AtBaseline == baseline > 0 => baseline \in Handled \/ Hidden(baseline)

\* Without a subscription nothing is listed.
QueueInv == ~live => queue = <<>>

Known     == TypeOK /\ LogInv /\ OrderInv /\ BaselineInv
Callbacks == BaselineInv /\ NoReplay /\ EdgeInv /\ AlarmEdges
Tracking  == QueueInv /\ Ahead /\ Behind /\ AtBaseline
IInv      == Known /\ Callbacks /\ Tracking /\ OnlyTheFirstIsSwallowed

-----------------------------------------------------------------------------
(* Sequences of event numbers *)

LEMMA MembersOf ==
  ASSUME NEW S, NEW s \in Seq(S)
  PROVE  Members(s) \subseteq S
BY DEF Members

LEMMA MembersOfEmpty == Members(<<>>) = {}
BY DEF Members

LEMMA MembersOfAppend ==
  ASSUME NEW S, NEW s \in Seq(S), NEW e \in S
  PROVE  Members(Append(s, e)) = Members(s) \cup {e}
<1>1. /\ Append(s, e) \in Seq(S)
      /\ Len(Append(s, e)) = Len(s) + 1
      /\ \A i \in 1 .. Len(s) : Append(s, e)[i] = s[i]
      /\ Append(s, e)[Len(s) + 1] = e
  BY AppendProperties
<1>2. DOMAIN s = 1 .. Len(s) /\ DOMAIN Append(s, e) = 1 .. Len(s) + 1 /\ Len(s) \in Nat
  BY <1>1
<1> QED
  BY <1>1, <1>2 DEF Members

LEMMA MembersOfTail ==
  ASSUME NEW S, NEW s \in Seq(S), s # <<>>
  PROVE  /\ Head(s) \in S
         /\ Tail(s) \in Seq(S)
         /\ Members(s) = {Head(s)} \cup Members(Tail(s))
<1>1. /\ Head(s) \in S
      /\ Tail(s) \in Seq(S)
      /\ Len(Tail(s)) = Len(s) - 1
      /\ \A i \in 1 .. Len(Tail(s)) : Tail(s)[i] = s[i + 1]
  BY HeadTailProperties
<1>2. Head(s) = s[1] /\ Len(s) \in Nat \ {0}
  BY EmptySeq
<1>3. DOMAIN s = 1 .. Len(s) /\ DOMAIN Tail(s) = 1 .. Len(s) - 1
  BY <1>1
<1>4. Members(s) \subseteq {Head(s)} \cup Members(Tail(s))
  <2> SUFFICES ASSUME NEW i \in 1 .. Len(s), i # 1 PROVE s[i] \in Members(Tail(s))
    BY <1>2, <1>3 DEF Members
  <2>1. i - 1 \in 1 .. Len(s) - 1 /\ (i - 1) + 1 = i
    BY <1>2
  <2> QED
    BY <1>1, <1>3, <2>1 DEF Members
<1>5. {Head(s)} \cup Members(Tail(s)) \subseteq Members(s)
  <2>1. \A i \in 1 .. Len(s) - 1 : i + 1 \in 1 .. Len(s)
    BY <1>2
  <2> QED
    BY <1>1, <1>2, <1>3, <2>1 DEF Members
<1> QED
  BY <1>1, <1>4, <1>5

LEMMA SortedEmpty == Sorted(<<>>)
BY DEF Sorted

LEMMA SortedAppend ==
  ASSUME NEW s \in Seq(Numbers), NEW e \in Numbers, Sorted(s), \A x \in Members(s) : x <= e
  PROVE  Sorted(Append(s, e))
<1>1. /\ Append(s, e) \in Seq(Numbers)
      /\ Len(Append(s, e)) = Len(s) + 1
      /\ \A i \in 1 .. Len(s) : Append(s, e)[i] = s[i]
      /\ Append(s, e)[Len(s) + 1] = e
  BY AppendProperties
<1>2. DOMAIN s = 1 .. Len(s) /\ DOMAIN Append(s, e) = 1 .. Len(s) + 1 /\ Len(s) \in Nat
  BY <1>1
<1> SUFFICES ASSUME NEW i \in 1 .. Len(s) + 1, NEW j \in 1 .. Len(s) + 1, i <= j
             PROVE  Append(s, e)[i] <= Append(s, e)[j]
  BY <1>2 DEF Sorted
<1>3. CASE j \in 1 .. Len(s)
  <2>1. i \in 1 .. Len(s)
    BY <1>2, <1>3
  <2> QED
    BY <1>1, <1>2, <1>3, <2>1 DEF Sorted
<1>4. CASE j = Len(s) + 1 /\ i \in 1 .. Len(s)
  BY <1>1, <1>2, <1>4 DEF Members
<1>5. CASE i = Len(s) + 1
  BY <1>1, <1>2, <1>5 DEF Numbers
<1> QED
  BY <1>2, <1>3, <1>4, <1>5

LEMMA SortedTail ==
  ASSUME NEW s \in Seq(Numbers), s # <<>>, Sorted(s)
  PROVE  Sorted(Tail(s)) /\ \A x \in Members(s) : Head(s) <= x
<1>1. /\ Tail(s) \in Seq(Numbers)
      /\ Len(Tail(s)) = Len(s) - 1
      /\ \A i \in 1 .. Len(Tail(s)) : Tail(s)[i] = s[i + 1]
  BY HeadTailProperties
<1>2. Head(s) = s[1] /\ Len(s) \in Nat \ {0}
  BY EmptySeq
<1>3. DOMAIN s = 1 .. Len(s) /\ DOMAIN Tail(s) = 1 .. Len(s) - 1
  BY <1>1
<1>4. Sorted(Tail(s))
  <2> SUFFICES ASSUME NEW i \in 1 .. Len(s) - 1, NEW j \in 1 .. Len(s) - 1, i <= j
               PROVE  Tail(s)[i] <= Tail(s)[j]
    BY <1>3 DEF Sorted
  <2>1. i + 1 \in 1 .. Len(s) /\ j + 1 \in 1 .. Len(s) /\ i + 1 <= j + 1
    BY <1>2
  <2>2. s[i + 1] <= s[j + 1]
    BY <1>3, <2>1 DEF Sorted
  <2> QED
    BY <1>1, <2>2
<1>5. \A i \in 1 .. Len(s) : s[1] <= s[i]
  BY <1>2, <1>3 DEF Sorted
<1> QED
  BY <1>2, <1>3, <1>4, <1>5 DEF Members

LEMMA SingleState ==
  ASSUME NEW e \in Numbers
  PROVE  <<e>> \in Seq(Numbers) /\ Members(<<e>>) = {e} /\ Sorted(<<e>>)
<1>1. <<e>> \in Seq(Numbers)
  OBVIOUS
<1>2. DOMAIN <<e>> = {1} /\ <<e>>[1] = e
  OBVIOUS
<1>3. e <= e
  BY DEF Numbers
<1> QED
  BY <1>1, <1>2, <1>3 DEF Members, Sorted

-----------------------------------------------------------------------------
(* The log of the SHC and the types *)

\* The log is append-only.
LogKept == UNCHANGED log \/ \E v \in Values : log' = Append(log, v)

LEMMA LastType ==
  ASSUME TypeOK, LogInv
  PROVE  /\ MaxEvents \in Nat
         /\ Last \in 0 .. MaxEvents
         /\ Last \in Numbers
         /\ Len(log) = Last + 1
BY BoundsAssumption DEF TypeOK, LogInv, Last, Numbers

LEMMA LogStays ==
  ASSUME TypeOK, LogInv, LogKept
  PROVE  /\ Last' \in Nat /\ Last <= Last'
         /\ \A n \in 0 .. Last : log'[n + 1] = log[n + 1]
<1>1. CASE UNCHANGED log
  BY <1>1, LastType DEF Last
<1>2. ASSUME NEW v \in Values, log' = Append(log, v)
      PROVE  /\ Last' \in Nat /\ Last <= Last'
             /\ \A n \in 0 .. Last : log'[n + 1] = log[n + 1]
  <2>1. Len(log') = Len(log) + 1 /\ \A i \in 1 .. Len(log) : log'[i] = log[i]
    BY <1>2, AppendProperties DEF TypeOK
  <2>2. \A n \in 0 .. Last : n + 1 \in 1 .. Len(log)
    BY LastType
  <2> QED
    BY <2>1, <2>2, LastType DEF Last
<1> QED
  BY <1>1, <1>2 DEF LogKept

LEMMA TypeStep ==
  ASSUME TypeOK, LogInv, [Next]_vars
  PROVE  TypeOK'
<1> USE DEF TypeOK
<1>1. ASSUME NEW v \in Values, Happen(v) PROVE TypeOK'
  <2>1. Last + 1 \in Numbers
    BY <1>1, LastType DEF Happen, Numbers
  <2> QED
    BY <1>1, <2>1, AppendProperties DEF Happen, service, bounds
<1>2. ASSUME NEW v \in Values, Register(v) PROVE TypeOK'
  BY <1>2 DEF Register, shc, bounds
<1>3. CASE Repeat
  BY <1>3, LastType, AppendProperties DEF Repeat, service
<1>4. CASE Rotate
  <2>1. LostWith(queue, batch) \subseteq Numbers
    BY MembersOf DEF LostWith
  <2>2. queue' \in Seq(Numbers) /\ missed' \subseteq Numbers /\ live' \in BOOLEAN
    BY <1>4, <2>1, EmptySeq DEF Rotate
  <2>3. repeats' \in Nat /\ rotations' \in Nat /\ faults' \in Nat
    BY <1>4 DEF Rotate
  <2> QED
    BY <1>4, <2>2, <2>3 DEF Rotate, service
<1>5. CASE Subscribe
  <2>1. <<Last>> \in Seq(Numbers)
    BY LastType
  <2>2. queue' \in Seq(Numbers) /\ missed' \subseteq Numbers
    BY <1>5, <2>1 DEF Subscribe
  <2> QED
    BY <1>5, <2>2 DEF Subscribe, service, bounds
<1>6. CASE Poll
  BY <1>6 DEF Poll, service, bounds
<1>7. CASE ReRead
  BY <1>7, LastType DEF ReRead, shc, bounds
<1>8. ASSUME batch # <<>>, Dispatch(Head(batch))
      PROVE  /\ baseline' \in Numbers \cup {None}
             /\ fired' \in Seq(Numbers)
             /\ ignored' \subseteq Numbers /\ swallowed' \subseteq Numbers
  <2>1. Head(batch) \in Numbers
    BY <1>8, MembersOfTail
  <2> QED
    BY <1>8, <2>1, AppendProperties DEF Dispatch, Advance, Newest
<1>9. CASE Handle
  BY <1>8, <1>9, MembersOfTail DEF Handle, shc, bounds
<1>10. CASE CallbackRaises
  <2>1. LostWith(batch, queue) \subseteq Numbers
    BY MembersOf DEF LostWith
  <2> QED
    BY <1>10, <2>1, MembersOfTail DEF CallbackRaises, Fault, shc
<1>11. CASE EventRaises
  <2>1. LostWith(Tail(batch), queue) \subseteq Numbers
    BY <1>11, MembersOfTail, MembersOf DEF EventRaises, LostWith
  <2> QED
    BY <1>8, <1>11, <2>1, MembersOfTail DEF EventRaises, Fault, shc
<1>13. CASE Ignore
  <2>3. LostWith(batch, queue) \subseteq Numbers
    BY MembersOf DEF LostWith
  <2>1. missed' \subseteq Numbers
    BY <1>13, <2>3 DEF Ignore
  <2>2. batch' \in Seq(Numbers) /\ faults' \in Nat
    BY <1>13, MembersOfTail DEF Ignore, Fault
  <2> QED
    BY <1>13, <2>1, <2>2 DEF Ignore, shc, service
<1>12. CASE UNCHANGED vars
  BY <1>12 DEF vars, shc, service, bounds
<1> QED
  BY <1>1, <1>2, <1>3, <1>4, <1>5, <1>6, <1>7, <1>9, <1>10, <1>11, <1>12, <1>13 DEF Next

LEMMA KeepsLog ==
  ASSUME [Next]_vars
  PROVE  LogKept /\ kind' = kind /\ stamped' = stamped /\ listening \subseteq listening'
BY DEF Next, vars, Happen, Register, Repeat, Rotate, Subscribe, Poll, ReRead, Handle,
       Ignore, CallbackRaises, EventRaises, shc, service, LogKept

LEMMA LogStep ==
  ASSUME TypeOK, LogInv, [Next]_vars
  PROVE  LogInv'
<1>1. ASSUME NEW v \in Values, Happen(v) PROVE LogInv'
  <2>1. /\ Len(log') = Len(log) + 1
        /\ \A i \in 1 .. Len(log) : log'[i] = log[i]
        /\ log'[Len(log) + 1] = v
    BY <1>1, AppendProperties DEF Happen, TypeOK
  <2>2. Len(log') \in 1 .. MaxEvents + 1
    BY <1>1, <2>1, LastType DEF Happen
  <2>3. ASSUME kind = "Alarm", NEW i \in 1 .. Len(log') - 1 PROVE log'[i] # log'[i + 1]
    <3>1. CASE i = Len(log)
      <4>1. v # log[Last + 1] /\ Last + 1 = Len(log) /\ Len(log) \in Nat \ {0}
        BY <1>1, <2>3, LastType DEF Happen, ValueOf
      <4> QED
        BY <2>1, <3>1, <4>1
    <3>2. CASE i \in 1 .. Len(log) - 1
      BY <2>1, <2>3, <3>2 DEF LogInv
    <3> QED
      BY <2>1, <3>1, <3>2, LastType
  <2>4. kind' = kind
    BY <1>1 DEF Happen
  <2> QED
    BY <2>2, <2>3, <2>4 DEF LogInv
<1>2. CASE UNCHANGED log
  BY <1>2, KeepsLog DEF LogInv
<1> QED
  BY <1>1, <1>2 DEF Next, vars, Register, Repeat, Rotate, Subscribe, Poll, ReRead, Handle,
                    Ignore, CallbackRaises, EventRaises, shc

-----------------------------------------------------------------------------
(* Handling a state *)

Unstamped(n) == kind # "Alarm" /\ ~Stamped(n)

\* The head of the batch is never behind the baseline, so handling it moves the
\* baseline there, unless the state has no timestamp.
LEMMA BaselineType ==
  ASSUME TypeOK
  PROVE  baseline \in Int /\ baseline >= -1
BY DEF TypeOK, Numbers, None

LEMMA HeadFacts ==
  ASSUME TypeOK, LogInv, OrderInv, batch # <<>>
  PROVE  /\ Head(batch) \in Numbers /\ Head(batch) \in Nat
         /\ Head(batch) \in 0 .. Last /\ baseline <= Head(batch)
         /\ Members(batch) = {Head(batch)} \cup Members(Tail(batch))
         /\ Tail(batch) \in Seq(Numbers) /\ Sorted(Tail(batch))
         /\ \A x \in Members(batch) \cup Members(queue) : Head(batch) <= x
<1>1. /\ Head(batch) \in Numbers
      /\ Tail(batch) \in Seq(Numbers)
      /\ Members(batch) = {Head(batch)} \cup Members(Tail(batch))
  BY MembersOfTail DEF TypeOK
<1>2. Sorted(Tail(batch)) /\ \A x \in Members(batch) : Head(batch) <= x
  BY SortedTail DEF TypeOK, OrderInv
<1>3. Head(batch) \in Members(batch)
  BY <1>1
<1>4. baseline <= Head(batch) /\ Head(batch) <= Last
  BY <1>3 DEF OrderInv
<1>5. \A x \in Members(queue) : Head(batch) <= x
  BY <1>3 DEF OrderInv
<1>6. Head(batch) \in Nat /\ Head(batch) \in 0 .. Last
  BY <1>1, <1>4, LastType DEF Numbers
<1> QED
  BY <1>1, <1>2, <1>4, <1>5, <1>6

LEMMA BaselineMoves ==
  ASSUME TypeOK, LogInv, OrderInv, batch # <<>>, Dispatch(Head(batch))
  PROVE  baseline' = IF Unstamped(Head(batch)) THEN baseline ELSE Head(batch)
<1> DEFINE n == Head(batch)
<1>1. n \in Int /\ baseline \in Int /\ ~(n < baseline)
  BY HeadFacts, BaselineType
<1> QED
  BY <1>1 DEF Dispatch, Advance, Newest, Unstamped

LEMMA BaselineGrows ==
  ASSUME TypeOK, LogInv, OrderInv, batch # <<>>, Dispatch(Head(batch))
  PROVE  /\ baseline' \in Int
         /\ baseline <= baseline' /\ baseline' <= Head(batch)
         /\ baseline' = Head(batch) \/ (baseline' = baseline /\ Head(batch) = 0)
<1>1. Head(batch) \in Int /\ baseline \in Int /\ baseline <= Head(batch)
  BY HeadFacts, BaselineType
<1>2. Unstamped(Head(batch)) => Head(batch) = 0
  BY HeadFacts, LastType DEF Unstamped, Stamped
<1> QED
  BY <1>1, <1>2, BaselineMoves

LEMMA Transitive == \A a, b, c \in Int : a <= b /\ b <= c => a <= c
OBVIOUS

LEMMA Listed ==
  ASSUME TypeOK
  PROVE  \A x \in Members(batch) \cup Members(queue) : x \in Numbers /\ x \in Int
<1>1. Members(queue) \subseteq Numbers /\ Members(batch) \subseteq Numbers
  BY MembersOf DEF TypeOK
<1>2. Numbers \subseteq Int
  BY DEF Numbers
<1> QED
  BY <1>1, <1>2

LEMMA OrderStep ==
  ASSUME TypeOK, LogInv, OrderInv, [Next]_vars
  PROVE  OrderInv'
<1>1. /\ Last' \in Nat /\ Last \in Nat /\ Last <= Last' /\ Last \in Numbers
      /\ baseline \in Int /\ baseline <= Last
  BY KeepsLog, LogStays, LastType, BaselineType DEF OrderInv
<1>2. \A x \in Members(batch) \cup Members(queue) : x \in Int
  BY Listed
<1>3. /\ \A x \in Members(batch), y \in Members(queue) : x <= y
      /\ \A x \in Members(batch) \cup Members(queue) : baseline <= x /\ x <= Last
      /\ Sorted(queue) /\ Sorted(batch)
  BY DEF OrderInv
<1>4. \A x \in Members(batch) \cup Members(queue) : x <= Last'
  BY <1>1, <1>2, <1>3, Transitive
<1>5. ASSUME NEW e \in Numbers, Last <= e, e <= Last', queue' = Append(queue, e),
             batch' = batch, baseline' = baseline
      PROVE  OrderInv'
  <2>1. Members(queue') = Members(queue) \cup {e}
    BY <1>5, MembersOfAppend DEF TypeOK
  <2>2. \A x \in Members(batch) \cup Members(queue) : x <= e
    <3>1. e \in Int
      BY DEF Numbers
    <3> QED
      BY <1>1, <1>2, <1>3, <1>5, <3>1, Transitive
  <2>3. Sorted(queue')
    BY <1>3, <1>5, <2>2, SortedAppend DEF TypeOK
  <2>4. baseline <= e /\ baseline <= Last'
    BY <1>1, <1>2, <1>5
  <2> QED
    BY <1>3, <1>4, <1>5, <2>1, <2>2, <2>3, <2>4 DEF OrderInv
<1>6. ASSUME UNCHANGED <<queue, batch, baseline>>
      PROVE  OrderInv'
  BY <1>1, <1>3, <1>4, <1>6 DEF OrderInv
<1>7. ASSUME Sorted(queue'), Members(queue') \subseteq Members(queue), batch' = <<>>,
             batch # <<>>, Dispatch(Head(batch)) \/ baseline' = baseline
      PROVE  OrderInv'
  <2>1. baseline' \in Int /\ baseline' <= Last /\ \A x \in Members(queue) : baseline' <= x
    <3>1. CASE baseline' = baseline
      BY <1>1, <1>3, <3>1
    <3>2. CASE Dispatch(Head(batch))
      <4>1. baseline' \in Int /\ Head(batch) \in Int /\ baseline' <= Head(batch)
        BY <1>7, <3>2, BaselineGrows, HeadFacts
      <4> QED
        BY <1>1, <1>2, <1>7, <4>1, HeadFacts, Transitive
    <3> QED
      BY <1>7, <3>1, <3>2
  <2>2. baseline' <= Last'
    BY <1>1, <2>1
  <2> QED
    BY <1>4, <1>7, <2>1, <2>2, MembersOfEmpty, SortedEmpty DEF OrderInv
<1>8. ASSUME NEW v \in Values, Happen(v) PROVE OrderInv'
  <2>1. Last + 1 \in Numbers /\ Last + 1 <= Last'
    BY <1>8, <1>1, LastType, AppendProperties DEF Happen, Numbers, TypeOK, Last
  <2>2. CASE live
    BY <1>1, <1>5, <1>8, <2>1, <2>2 DEF Happen, service
  <2>3. CASE ~live
    BY <1>6, <1>8, <2>3 DEF Happen, service
  <2> QED
    BY <2>2, <2>3
<1>9. CASE Repeat
  BY <1>1, <1>5, <1>9 DEF Repeat, service
<1>10. CASE Rotate
  BY <1>1, <1>3, <1>4, <1>10, MembersOfEmpty, SortedEmpty DEF Rotate, service, OrderInv
<1>11. CASE Subscribe
  <2>1. CASE UNCHANGED queue
    BY <1>6, <1>11, <2>1 DEF Subscribe, service
  <2>2. CASE queue' = <<Last>>
    <3>1. Members(queue') = {Last} /\ Sorted(queue')
      BY <1>1, <2>2, SingleState
    <3>2. batch' = <<>> /\ baseline' = baseline
      BY <1>11 DEF Subscribe, service
    <3>3. baseline <= Last'
      BY <1>1
    <3> QED
      BY <1>1, <3>1, <3>2, <3>3, MembersOfEmpty, SortedEmpty DEF OrderInv
  <2> QED
    BY <1>11, <2>1, <2>2 DEF Subscribe
<1>12. CASE Poll
  BY <1>1, <1>3, <1>4, <1>12, MembersOfEmpty, SortedEmpty DEF Poll, service, OrderInv
<1>13. CASE Handle
  <2>1. batch # <<>> /\ batch' = Tail(batch) /\ queue' = queue /\ Dispatch(Head(batch))
    BY <1>13 DEF Handle, shc
  <2>2. baseline' \in Int /\ Head(batch) \in Int /\ baseline' <= Head(batch)
    <3>1. Head(batch) \in Int
      BY <2>1, HeadFacts, LastType
    <3> QED
      BY <1>1, <2>1, <3>1, BaselineGrows
  <2>3. Members(batch') \subseteq Members(batch) /\ Sorted(batch')
    BY <2>1, HeadFacts
  <2>4. \A x \in Members(batch) \cup Members(queue) : baseline' <= x
    BY <1>2, <2>1, <2>2, HeadFacts, Transitive
  <2>5. baseline' <= Last'
    BY <1>1, <2>1, <2>2, HeadFacts
  <2> QED
    BY <1>3, <1>4, <2>1, <2>3, <2>4, <2>5 DEF OrderInv
<1>17. CASE Ignore
  <2>1. batch # <<>> /\ batch' = Tail(batch) /\ queue' = queue /\ baseline' = baseline
    BY <1>17 DEF Ignore, shc, service
  <2>2. Members(batch') \subseteq Members(batch) /\ Sorted(batch')
    BY <2>1, HeadFacts
  <2>3. baseline' <= Last'
    BY <1>1, <2>1
  <2> QED
    BY <1>3, <1>4, <2>1, <2>2, <2>3 DEF OrderInv
<1>14. CASE CallbackRaises
  BY <1>3, <1>7, <1>14 DEF CallbackRaises, shc
<1>15. CASE EventRaises
  BY <1>3, <1>7, <1>15 DEF EventRaises, shc
<1>16. CASE UNCHANGED <<queue, batch, baseline>>
  BY <1>6, <1>16
<1> QED
  BY <1>8, <1>9, <1>10, <1>11, <1>12, <1>13, <1>14, <1>15, <1>16, <1>17
     DEF Next, vars, Register, ReRead, shc, service

-----------------------------------------------------------------------------
(* What callbacks are called for *)

LEMMA FiredFacts ==
  ASSUME TypeOK, LogInv, OrderInv, BaselineInv
  PROVE  /\ \A n \in Handled : n \in 0 .. Last /\ (n <= baseline \/ n = 0)
         /\ \A i \in DOMAIN fired : fired[i] \in Handled
         /\ DOMAIN fired = 1 .. Len(fired) /\ Len(fired) \in Nat
         /\ baseline \in Int /\ baseline <= Last
<1>1. baseline \in Int /\ baseline <= Last
  BY BaselineType DEF OrderInv
<1>2. Members(fired) \subseteq Numbers
  BY MembersOf DEF TypeOK
<1>3. \A n \in Handled : n \in Numbers /\ (n <= baseline \/ n = 0)
  BY <1>2 DEF BaselineInv, Handled, TypeOK
<1>4. \A n \in Handled : n \in 0 .. Last
  <2> SUFFICES ASSUME NEW n \in Handled PROVE n \in 0 .. Last
    OBVIOUS
  <2>1. n \in Nat /\ (n <= baseline \/ n = 0)
    BY <1>3 DEF Numbers
  <2> QED
    BY <1>1, <2>1, LastType
<1>5. \A i \in DOMAIN fired : fired[i] \in Handled
  BY DEF Handled, Members
<1>6. DOMAIN fired = 1 .. Len(fired) /\ Len(fired) \in Nat
  BY DEF TypeOK
<1> QED
  BY <1>1, <1>3, <1>4, <1>5, <1>6

LEMMA CallbacksStay ==
  ASSUME TypeOK, LogInv, OrderInv, Callbacks, [Next]_vars,
         UNCHANGED <<baseline, fired, ignored, swallowed>>
  PROVE  Callbacks'
<1>1. kind' = kind /\ stamped' = stamped /\ listening \subseteq listening'
  BY KeepsLog
<1>2. \A n \in 0 .. Last : log'[n + 1] = log[n + 1]
  BY KeepsLog, LogStays
<1>3. \A i \in 1 .. Len(fired) : fired[i] \in 0 .. Last
  BY FiredFacts DEF Callbacks
<1>4. BaselineInv'
  BY <1>1 DEF Callbacks, BaselineInv, Handled
<1>5. NoReplay'
  BY <1>1 DEF Callbacks, NoReplay
<1>6. EdgeInv'
  <2> SUFFICES ASSUME kind = "Alarm", fired # <<>>
               PROVE  listening' # {} /\ log'[fired[Len(fired)] + 1] = log'[baseline + 1]
    BY <1>1 DEF EdgeInv, ValueOf
  <2>1. fired[Len(fired)] \in 0 .. Last
    BY <1>3, EmptySeq DEF TypeOK
  <2>2. baseline \in 0 .. Last
    BY FiredFacts, LastType DEF Callbacks, BaselineInv, TypeOK, Numbers
  <2> QED
    BY <1>1, <1>2, <2>1, <2>2 DEF Callbacks, EdgeInv, ValueOf
<1>7. AlarmEdges'
  <2> SUFFICES ASSUME kind = "Alarm", NEW i \in 1 .. Len(fired) - 1
               PROVE  log'[fired[i] + 1] # log'[fired[i + 1] + 1]
    BY <1>1 DEF AlarmEdges, ValueOf
  <2>1. i \in 1 .. Len(fired) /\ i + 1 \in 1 .. Len(fired)
    BY FiredFacts DEF Callbacks
  <2> QED
    BY <1>2, <1>3, <2>1 DEF Callbacks, AlarmEdges, ValueOf
<1> QED
  BY <1>4, <1>5, <1>6, <1>7 DEF Callbacks

\* A callback is called for a number beyond those it was called for before.
LEMMA FiredBeyond ==
  ASSUME TypeOK, LogInv, OrderInv, BaselineInv, batch # <<>>,
         ~Replayed(Head(batch)), Heard(Head(batch))
  PROVE  LET n == Head(batch)
         IN  /\ n > 0 \/ (n = 0 /\ kind = "LatestMotion" /\ ~stamped)
             /\ n > 0 => \A x \in Handled : x < n
<1> DEFINE n == Head(batch)
<1>1. n \in Nat /\ baseline \in Int /\ baseline >= -1 /\ baseline <= n
  BY HeadFacts, BaselineType
<1>2. kind \in {"Keypad", "LatestMotion", "Alarm"}
  BY KindsAssumption DEF TypeOK
<1>3. n = baseline => kind # "Alarm" /\ ~Stamped(n)
  <2> SUFFICES ASSUME n = baseline PROVE kind # "Alarm" /\ ~Stamped(n)
    OBVIOUS
  <2>1. kind # "Alarm"
    BY DEF Replayed
  <2>2. n <= baseline
    BY <1>1
  <2> QED
    BY <2>1, <2>2 DEF Replayed
<1>4. CASE n = 0
  <2>1. baseline = -1 \/ (kind # "Alarm" /\ ~Stamped(n))
    <3>1. baseline = -1 \/ n = baseline
      BY <1>1, <1>4
    <3> QED
      BY <1>3, <3>1
  <2>2. kind # "Alarm" /\ ~stamped
    BY <1>4, <2>1 DEF BaselineInv, None, Stamped
  <2>3. kind # "Keypad"
    BY <1>4, <2>2 DEF Heard, Stamped
  <2> QED
    BY <1>2, <1>4, <2>2, <2>3
<1>5. CASE n > 0
  <2>1. baseline < n
    BY <1>1, <1>3, <1>5 DEF Stamped
  <2>2. \A x \in Handled : x \in Nat /\ (x <= baseline \/ x = 0)
    BY FiredFacts, LastType
  <2>3. \A x \in Nat : (x <= baseline \/ x = 0) => x < n
    BY <1>1, <1>5, <2>1
  <2> QED
    BY <1>5, <2>2, <2>3
<1> QED
  BY <1>1, <1>4, <1>5

LEMMA DispatchHandles ==
  ASSUME NEW n, Dispatch(n), TypeOK, n \in Numbers
  PROVE  Handled \subseteq Handled' /\ Handled' \subseteq Handled \cup {n}
<1>1. Members(fired) \subseteq Members(fired') /\ Members(fired') \subseteq Members(fired) \cup {n}
  BY MembersOfAppend DEF Dispatch, TypeOK
<1>2. /\ ignored \subseteq ignored' /\ ignored' \subseteq ignored \cup {n}
      /\ swallowed \subseteq swallowed' /\ swallowed' \subseteq swallowed \cup {n}
  BY DEF Dispatch
<1> QED
  BY <1>1, <1>2 DEF Handled

LEMMA CallbacksDispatch ==
  ASSUME TypeOK, LogInv, OrderInv, Callbacks, batch # <<>>, Dispatch(Head(batch)),
         UNCHANGED <<kind, stamped, log, listening>>
  PROVE  Callbacks'
<1> DEFINE n == Head(batch)
<1>1. /\ n \in Numbers /\ n \in 0 .. Last /\ n \in Nat
      /\ baseline \in Int /\ baseline' \in Int /\ baseline >= -1 /\ baseline <= n
  BY HeadFacts, BaselineType, BaselineGrows
<1>2. /\ baseline <= baseline' /\ baseline' <= n
      /\ baseline' = n \/ (baseline' = baseline /\ n = 0)
  BY BaselineGrows
<1>3. /\ \A x \in Handled : x \in Nat /\ (x <= baseline \/ x = 0)
      /\ \A i \in DOMAIN fired : fired[i] \in Handled
      /\ DOMAIN fired = 1 .. Len(fired) /\ Len(fired) \in Nat
  BY FiredFacts, LastType DEF Callbacks
<1>4. BaselineInv'
  <2>1. baseline' = None => baseline = None
    BY <1>1, <1>2 DEF None
  <2>2. \A x \in Handled' : x <= baseline' \/ x = 0
    <3> SUFFICES ASSUME NEW x \in Handled' PROVE x <= baseline' \/ x = 0
      OBVIOUS
    <3>1. CASE x \in Handled
      BY <1>1, <1>2, <1>3, <3>1
    <3>2. CASE x = n
      BY <1>1, <1>2, <3>2
    <3> QED
      BY <1>1, <3>1, <3>2, DispatchHandles
  <2> QED
    BY <2>1, <2>2 DEF Callbacks, BaselineInv
<1>5. CASE ~Replayed(n) /\ Heard(n)
  <2>1. /\ Len(fired') = Len(fired) + 1
        /\ DOMAIN fired' = 1 .. Len(fired) + 1
        /\ \A i \in 1 .. Len(fired) : fired'[i] = fired[i]
        /\ fired'[Len(fired) + 1] = n
        /\ fired' # <<>>
    <3>1. fired' = Append(fired, n)
      BY <1>5 DEF Dispatch
    <3> QED
      BY <1>1, <3>1, AppendProperties DEF TypeOK
  <2>2. /\ n > 0 \/ (n = 0 /\ kind = "LatestMotion" /\ ~stamped)
        /\ n > 0 => \A x \in Handled : x < n
    BY <1>5, FiredBeyond DEF Callbacks
  <2>3. NoReplay'
    <3>1. ASSUME NEW i \in 1 .. Len(fired) + 1
          PROVE  fired'[i] > 0 \/ (kind = "LatestMotion" /\ ~stamped)
      <4>1. i \in 1 .. Len(fired) \/ i = Len(fired) + 1
        BY <1>3
      <4>2. CASE i \in 1 .. Len(fired)
        <5>1. fired[i] > 0 \/ (kind = "LatestMotion" /\ ~stamped)
          BY <1>3, <4>2 DEF Callbacks, NoReplay
        <5> QED
          BY <2>1, <4>2, <5>1
      <4>3. CASE i = Len(fired) + 1
        <5>1. fired'[i] = n
          BY <2>1, <4>3
        <5> QED
          BY <2>2, <5>1
      <4> QED
        BY <4>1, <4>2, <4>3
    <3>2. ASSUME NEW i \in 1 .. Len(fired) + 1, NEW j \in 1 .. Len(fired) + 1, i < j,
                 fired'[j] > 0
          PROVE  fired'[i] < fired'[j]
      <4>1. i \in 1 .. Len(fired)
        BY <1>3, <3>2
      <4>2. CASE j \in 1 .. Len(fired)
        BY <1>3, <2>1, <3>2, <4>1, <4>2 DEF Callbacks, NoReplay
      <4>3. CASE j = Len(fired) + 1
        BY <1>3, <2>1, <2>2, <3>2, <4>1, <4>3
      <4> QED
        BY <1>3, <4>2, <4>3
    <3> QED
      BY <2>1, <3>1, <3>2 DEF NoReplay
  <2>4. EdgeInv'
    BY <1>2, <1>1, <1>5, <2>1, BaselineMoves DEF EdgeInv, ValueOf, Heard, Unstamped
  <2>5. AlarmEdges'
    <3> SUFFICES ASSUME kind = "Alarm", NEW i \in 1 .. Len(fired)
                 PROVE  log[fired'[i] + 1] # log[fired'[i + 1] + 1]
      BY <1>3, <2>1 DEF AlarmEdges, ValueOf
    <3>1. CASE i \in 1 .. Len(fired) - 1
      BY <1>3, <2>1, <3>1 DEF Callbacks, AlarmEdges, ValueOf
    <3>2. CASE i = Len(fired)
      <4>1. fired # <<>>
        BY <1>3, <3>2
      <4>2. log[fired[i] + 1] = log[baseline + 1]
        BY <3>2, <4>1 DEF Callbacks, EdgeInv, ValueOf
      <4>3. log[n + 1] # log[baseline + 1]
        BY <1>5 DEF Replayed, ValueOf
      <4> QED
        BY <2>1, <3>2, <4>2, <4>3
    <3>3. i \in 1 .. Len(fired) - 1 \/ i = Len(fired)
      <4>1. Len(fired) \in Nat
        BY <1>3
      <4> QED
        BY <4>1
    <3> QED
      BY <3>1, <3>2, <3>3
  <2> QED
    BY <1>4, <2>3, <2>4, <2>5 DEF Callbacks
<1>6. CASE Replayed(n) \/ ~Heard(n)
  <2>1. fired' = fired
    BY <1>6 DEF Dispatch
  <2>2. NoReplay' /\ AlarmEdges'
    BY <2>1 DEF Callbacks, NoReplay, AlarmEdges, ValueOf
  <2>3. EdgeInv'
    <3> SUFFICES ASSUME kind = "Alarm", fired # <<>>
                 PROVE  listening # {} /\ log[fired[Len(fired)] + 1] = log[baseline' + 1]
      BY <2>1 DEF EdgeInv, ValueOf
    <3>1. listening # {} /\ log[fired[Len(fired)] + 1] = log[baseline + 1]
      BY DEF Callbacks, EdgeInv, ValueOf
    <3>2. log[n + 1] = log[baseline + 1]
      BY <1>6, <3>1 DEF Heard, Replayed, ValueOf
    <3> QED
      BY <1>2, <3>1, <3>2
  <2> QED
    BY <1>4, <2>2, <2>3 DEF Callbacks
<1> QED
  BY <1>5, <1>6

LEMMA CallbacksStep ==
  ASSUME TypeOK, LogInv, OrderInv, Callbacks, [Next]_vars
  PROVE  Callbacks'
<1>1. CASE Handle
  BY <1>1, CallbacksDispatch DEF Handle, shc
<1>2. CASE EventRaises
  BY <1>2, CallbacksDispatch DEF EventRaises, shc
<1>3. CASE UNCHANGED <<baseline, fired, ignored, swallowed>>
  BY <1>3, CallbacksStay
<1> QED
  BY <1>1, <1>2, <1>3 DEF Next, vars, Happen, Register, Repeat, Rotate, Subscribe, Poll,
                          ReRead, Ignore, CallbackRaises, service

-----------------------------------------------------------------------------
(* Where every event is *)

LEMMA MissedStays ==
  ASSUME [Next]_vars
  PROVE  missed \ {Last} \subseteq missed'
BY DEF Next, vars, Happen, Register, Repeat, Rotate, Subscribe, Poll, ReRead, Handle,
       Ignore, CallbackRaises, EventRaises, bounds

LEMMA HiddenStays ==
  ASSUME TypeOK, LogInv, [Next]_vars, NEW n \in 1 .. Last, Hidden(n)
  PROVE  Hidden(n)'
<1>1. kind' = "Alarm"
  BY KeepsLog DEF Hidden
<1>2. PICK m \in 0 .. n - 2 : /\ log[m + 1] = log[n + 1]
                              /\ \A k \in m + 1 .. n - 1 : k \in missed
  BY DEF Hidden, ValueOf
<1>3. log'[m + 1] = log'[n + 1]
  <2>1. m \in 0 .. Last /\ n \in 0 .. Last
    BY LastType
  <2> QED
    BY <1>2, <2>1, KeepsLog, LogStays
<1>4. \A k \in m + 1 .. n - 1 : k \in missed'
  <2>1. \A k \in m + 1 .. n - 1 : k # Last
    BY LastType
  <2> QED
    BY <1>2, <2>1, MissedStays
<1> QED
  BY <1>1, <1>3, <1>4 DEF Hidden, ValueOf

\* What lies between the baseline and the head of the batch has been lost.
LEMMA Between ==
  ASSUME Known, Tracking, batch # <<>>, NEW x \in 1 .. Last, baseline < x, x < Head(batch)
  PROVE  x \in missed
<1>1. x \in missed \cup Members(queue) \cup Members(batch)
  BY DEF Tracking, Ahead
<1>2. \A y \in Members(queue) \cup Members(batch) : Head(batch) <= y
  BY HeadFacts DEF Known
<1>3. x \notin Members(queue) \cup Members(batch)
  <2>1. x \in Int /\ Head(batch) \in Int
    BY HeadFacts, LastType DEF Known
  <2> QED
    BY <1>2, <2>1
<1> QED
  BY <1>1, <1>3

\* What is handled is not beyond the baseline.
LEMMA NotYetHandled ==
  ASSUME Known, NEW x \in 1 .. Last, x > baseline
  PROVE  x \notin Handled
<1>1. baseline \in Int /\ x \in Nat \ {0}
  BY BaselineType, LastType DEF Known
<1> QED
  BY <1>1 DEF Known, BaselineInv

LEMMA BehindStays ==
  ASSUME Known, Tracking, [Next]_vars, UNCHANGED <<baseline, fired, ignored, swallowed>>
  PROVE  Behind' /\ AtBaseline'
<1>1. Handled' = Handled
  BY DEF Handled
<1>2. baseline \in Int /\ baseline <= Last /\ Last \in Nat /\ Last' \in Nat
  BY FiredFacts, LastType, KeepsLog, LogStays DEF Known
<1>3. ASSUME NEW n \in 1 .. Last', n < baseline
      PROVE  n \in Handled \cup missed' \/ Hidden(n)'
  <2>1. n \in 1 .. Last /\ n # Last
    BY <1>2, <1>3
  <2>2. n \in Handled \cup missed \/ Hidden(n)
    BY <1>3, <2>1 DEF Tracking, Behind
  <2> QED
    BY <2>1, <2>2, HiddenStays, MissedStays DEF Known
<1>4. ASSUME baseline > 0
      PROVE  baseline \in Handled \/ Hidden(baseline)'
  <2>1. baseline \in 1 .. Last
    BY <1>2, <1>4
  <2> QED
    BY <1>4, <2>1, HiddenStays DEF Known, Tracking, AtBaseline
<1> QED
  BY <1>1, <1>3, <1>4 DEF Behind, AtBaseline, Hidden

LEMMA QueueStep ==
  ASSUME QueueInv, [Next]_vars
  PROVE  QueueInv'
BY DEF QueueInv, Next, vars, Happen, Register, Repeat, Rotate, Subscribe, Poll, ReRead, Handle,
       Ignore, CallbackRaises, EventRaises, shc, service

LEMMA LostFacts ==
  ASSUME Known, NEW list, NEW elsewhere, NEW x \in Members(list), x \in 1 .. Last, x > baseline
  PROVE  x \in LostWith(list, elsewhere) \/ x \in Members(elsewhere)
BY NotYetHandled DEF LostWith

LEMMA AheadStays ==
  ASSUME Known, Tracking, [Next]_vars, ~Handle, ~EventRaises, UNCHANGED baseline
  PROVE  Ahead'
<1> SUFFICES ASSUME NEW n \in 1 .. Last', n > baseline
             PROVE  n \in missed' \cup Members(queue') \cup Members(batch')
  BY DEF Ahead
<1>1. n \in 1 .. Last => n \in missed \cup Members(queue) \cup Members(batch)
  BY DEF Tracking, Ahead
<1>2. ASSUME NEW v \in Values, Happen(v)
      PROVE  n \in missed' \cup Members(queue') \cup Members(batch')
  <2>1. Last' = Last + 1 /\ Last + 1 \in Numbers
    BY <1>2, LastType, AppendProperties DEF Happen, Known, TypeOK, Last, Numbers
  <2>2. n \in 1 .. Last \/ n = Last + 1
    BY <2>1, LastType DEF Known
  <2>3. missed \subseteq missed' /\ batch' = batch
    BY <1>2 DEF Happen
  <2>4. CASE live
    <3>1. Members(queue') = Members(queue) \cup {Last + 1}
      BY <1>2, <2>1, <2>4, MembersOfAppend DEF Happen, Known, TypeOK
    <3> QED
      BY <1>1, <2>2, <2>3, <3>1
  <2>5. CASE ~live
    <3>1. queue' = queue /\ Last + 1 \in missed'
      BY <1>2, <2>5 DEF Happen
    <3> QED
      BY <1>1, <2>2, <2>3, <3>1
  <2> QED
    BY <2>4, <2>5
<1>3. ASSUME UNCHANGED log, missed \ {Last} \subseteq missed',
             Members(batch) \subseteq Members(batch') \cup Members(queue') \cup missed',
             Members(queue) \subseteq Members(batch') \cup Members(queue') \cup missed',
             missed \subseteq missed' \/ Last \in Members(queue')
      PROVE  n \in missed' \cup Members(queue') \cup Members(batch')
  BY <1>1, <1>3 DEF Last
<1>4. CASE Repeat
  <2>1. Members(queue') = Members(queue) \cup {Last} /\ batch' = batch /\ log' = log
    BY <1>4, LastType, MembersOfAppend DEF Repeat, Known, TypeOK
  <2> QED
    BY <1>3, <1>4, <2>1 DEF Repeat
<1>5. CASE Rotate
  <2>1. n \in 1 .. Last
    BY <1>5 DEF Rotate, Last
  <2>2. n \in Members(queue) => n \in missed' \cup Members(batch')
    BY <1>5, <2>1, LostFacts DEF Rotate
  <2> QED
    BY <1>1, <1>5, <2>1, <2>2 DEF Rotate
<1>6. CASE Subscribe
  <2>1. Members(queue) = {} /\ Members(batch) = {} /\ log' = log
    BY <1>6, MembersOfEmpty DEF Subscribe, Tracking, QueueInv
  <2>2. CASE UNCHANGED <<queue, missed>>
    BY <1>3, <1>6, <2>1, <2>2 DEF Subscribe
  <2>3. CASE queue' = <<Last>> /\ missed' = missed \ {Last}
    <3>1. Last \in Members(queue')
      BY <2>3, LastType, SingleState DEF Known
    <3> QED
      BY <1>3, <2>1, <2>3, <3>1
  <2> QED
    BY <1>6, <2>2, <2>3 DEF Subscribe
<1>7. CASE Poll
  <2>1. Members(batch) = {} /\ batch' = queue /\ missed' = missed /\ log' = log
    BY <1>7, MembersOfEmpty DEF Poll
  <2> QED
    BY <1>3, <2>1
<1>8. CASE CallbackRaises
  <2>1. n \in 1 .. Last
    BY <1>8 DEF CallbackRaises, Last, shc
  <2>2. n \in Members(batch) => n \in missed' \cup Members(queue')
    BY <1>8, <2>1, LostFacts DEF CallbackRaises, shc
  <2> QED
    BY <1>1, <1>8, <2>1, <2>2 DEF CallbackRaises, shc
<1>10. CASE Ignore
  <2>1. n \in 1 .. Last /\ batch # <<>>
    BY <1>10 DEF Ignore, Last, shc
  <2>2. n \in Members(batch) => n \in missed' \cup Members(queue') \cup Members(batch')
    BY <1>10, <2>1, LostFacts DEF Ignore, shc
  <2> QED
    BY <1>1, <1>10, <2>1, <2>2 DEF Ignore, shc
<1>9. CASE UNCHANGED <<log, queue, batch, missed>>
  BY <1>3, <1>9
<1> QED
  BY <1>2, <1>4, <1>5, <1>6, <1>7, <1>8, <1>9, <1>10
     DEF Next, vars, Register, ReRead, shc

LEMMA AheadDispatch ==
  ASSUME Known, Tracking, batch # <<>>, Dispatch(Head(batch)), UNCHANGED log,
         missed \subseteq missed', queue' = queue,
         Members(Tail(batch)) \ Handled \subseteq
            Members(batch') \cup Members(queue) \cup missed' \cup {0, Head(batch)}
  PROVE  Ahead'
<1> DEFINE n == Head(batch)
<1> SUFFICES ASSUME NEW x \in 1 .. Last, x > baseline'
             PROVE  x \in missed' \cup Members(queue) \cup Members(batch')
  BY DEF Ahead, Last
<1>1. /\ baseline \in Int /\ n \in 0 .. Last /\ x \in Nat \ {0}
      /\ baseline <= baseline' /\ (baseline' = n \/ (baseline' = baseline /\ n = 0))
  BY FiredFacts, HeadFacts, BaselineGrows, LastType DEF Known
<1>2. x > baseline /\ x # n
  BY <1>1
<1>3. x \in missed \cup Members(queue) \cup Members(batch)
  BY <1>2 DEF Tracking, Ahead
<1>4. x \in Members(batch) => x \in Members(Tail(batch)) \ Handled
  BY <1>2, HeadFacts, NotYetHandled DEF Known
<1> QED
  BY <1>1, <1>2, <1>3, <1>4

LEMMA BehindDispatch ==
  ASSUME Known, Tracking, [Next]_vars, batch # <<>>, Dispatch(Head(batch)),
         UNCHANGED <<kind, stamped, log>>, missed \subseteq missed'
  PROVE  Behind' /\ AtBaseline'
<1> DEFINE n == Head(batch)
<1>1. /\ baseline \in Int /\ n \in 0 .. Last /\ n \in Numbers /\ Last \in Nat
      /\ baseline <= n /\ baseline >= -1
      /\ baseline' = n \/ (baseline' = baseline /\ n = 0)
      /\ Last' = Last
  <2>1. baseline \in Int /\ baseline >= -1
    BY BaselineType DEF Known
  <2>2. n \in 0 .. Last /\ n \in Numbers /\ Last \in Nat /\ baseline <= n
    BY HeadFacts, LastType DEF Known, Numbers
  <2>3. baseline' = n \/ (baseline' = baseline /\ n = 0)
    BY BaselineGrows DEF Known
  <2>4. Last' = Last
    BY DEF Last
  <2> QED
    BY <2>1, <2>2, <2>3, <2>4
<1>2. Handled \subseteq Handled'
  BY <1>1, DispatchHandles DEF Known
<1>3. \A x \in 1 .. Last : Hidden(x) => Hidden(x)'
  BY HiddenStays DEF Known
<1>4. Behind'
  <2> SUFFICES ASSUME NEW x \in 1 .. Last, x < baseline'
               PROVE  x \in Handled' \cup missed' \/ Hidden(x)'
    BY <1>1 DEF Behind
  <2>1. baseline' = n \/ baseline' = baseline
    BY <1>1
  <2>2. CASE x < baseline
    BY <1>2, <1>3, <2>2 DEF Tracking, Behind
  <2>3. CASE x = baseline
    <3>1. x \in Handled \/ Hidden(x)
      BY <2>3 DEF Tracking, AtBaseline
    <3> QED
      BY <1>2, <1>3, <3>1
  <2>4. CASE x > baseline
    <3>1. x < n
      BY <1>1, <2>1, <2>4
    <3> QED
      BY <2>4, <3>1, Between
  <2> QED
    BY <1>1, <2>2, <2>3, <2>4
<1>5. ASSUME NEW h \in 1 .. Last, h = baseline'
      PROVE  h \in Handled' \/ Hidden(h)'
  <2>1. CASE h = baseline
    <3>1. h \in Handled \/ Hidden(h)
      BY <2>1 DEF Tracking, AtBaseline
    <3> QED
      BY <1>2, <1>3, <3>1
  <2>2. CASE h # baseline
    <3>1. h = n /\ h > baseline
      BY <1>1, <1>5, <2>2
    <3>2. CASE ~Replayed(n)
      <4>1. CASE Heard(n)
        <5>1. Members(fired') = Members(fired) \cup {n}
          BY <1>1, <3>2, <4>1, MembersOfAppend DEF Dispatch, Known, TypeOK
        <5> QED
          BY <3>1, <5>1 DEF Handled
      <4>2. CASE ~Heard(n)
        BY <3>1, <3>2, <4>2 DEF Dispatch, Handled
      <4> QED
        BY <4>1, <4>2
    <3>3. CASE Replayed(n) /\ kind # "Alarm"
      <4>1. Stamped(n) /\ ~(n <= baseline)
        BY <1>1, <3>1, LastType DEF Stamped
      <4>2. baseline = None
        BY <3>3, <4>1 DEF Replayed
      <4> QED
        BY <3>1, <4>1, <4>2 DEF Dispatch, Handled
    <3>4. CASE Replayed(n) /\ kind = "Alarm"
      <4>1. log[n + 1] = log[baseline + 1]
        BY <3>4 DEF Replayed, ValueOf
      <4>2. baseline >= 0
        BY <1>1, <3>4 DEF Known, BaselineInv, None
      <4>3. log[h] # log[h + 1]
        <5>1. h \in 1 .. Len(log) - 1
          BY <1>1, LastType DEF Known
        <5> QED
          BY <3>4, <5>1 DEF Known, LogInv
      <4>4. baseline # h - 1
        BY <1>1, <3>1, <4>1, <4>3
      <4>5. baseline \in 0 .. h - 2
        BY <1>1, <3>1, <4>2, <4>4
      <4>6. \A k \in baseline + 1 .. h - 1 : k \in missed
        <5> SUFFICES ASSUME NEW k \in baseline + 1 .. h - 1 PROVE k \in missed
          OBVIOUS
        <5>1. k \in 1 .. Last /\ baseline < k /\ k < n
          BY <1>1, <3>1, <4>2
        <5> QED
          BY <5>1, Between
      <4>7. Hidden(h)
        BY <3>1, <3>4, <4>1, <4>5, <4>6 DEF Hidden, ValueOf
      <4> QED
        BY <1>3, <4>7
    <3> QED
      BY <3>2, <3>3, <3>4
  <2> QED
    BY <2>1, <2>2
<1>6. baseline' > 0 => baseline' \in 1 .. Last
  BY <1>1
<1>7. AtBaseline'
  BY <1>5, <1>6 DEF AtBaseline, Hidden
<1> QED
  BY <1>4, <1>7

LEMMA TrackingStep ==
  ASSUME Known, Tracking, [Next]_vars
  PROVE  Tracking'
<1>1. QueueInv'
  BY QueueStep DEF Tracking
<1>2. CASE Handle
  <2>1. /\ batch # <<>> /\ Dispatch(Head(batch))
        /\ UNCHANGED <<kind, stamped, log, queue, missed>> /\ batch' = Tail(batch)
    BY <1>2 DEF Handle, shc
  <2>2. Ahead' /\ Behind' /\ AtBaseline'
    BY <2>1, AheadDispatch, BehindDispatch
  <2> QED
    BY <1>1, <2>2 DEF Tracking
<1>3. CASE EventRaises
  <2>1. /\ batch # <<>> /\ Dispatch(Head(batch))
        /\ UNCHANGED <<kind, stamped, log, queue>>
        /\ missed' = missed \cup (LostWith(Tail(batch), queue) \ {Head(batch)})
    BY <1>3 DEF EventRaises, shc
  <2>2. Members(Tail(batch)) \ Handled \subseteq
           Members(queue) \cup missed' \cup {0, Head(batch)}
    BY <2>1 DEF LostWith
  <2>3. Ahead' /\ Behind' /\ AtBaseline'
    BY <2>1, <2>2, AheadDispatch, BehindDispatch
  <2> QED
    BY <1>1, <2>3 DEF Tracking
<1>4. CASE ~Handle /\ ~EventRaises
  <2>1. UNCHANGED <<baseline, fired, ignored, swallowed>>
    BY <1>4 DEF Next, vars, Happen, Register, Repeat, Rotate, Subscribe, Poll, ReRead,
                Ignore, CallbackRaises, service
  <2> QED
    BY <1>1, <1>4, <2>1, AheadStays, BehindStays DEF Tracking
<1> QED
  BY <1>2, <1>3, <1>4

LEMMA SwallowStep ==
  ASSUME Known, Tracking, OnlyTheFirstIsSwallowed, [Next]_vars
  PROVE  OnlyTheFirstIsSwallowed'
<1> SUFFICES ASSUME NEW n \in swallowed'
             PROVE  ~stamped /\ kind # "Alarm" /\ \A m \in 1 .. n - 1 : m \in missed'
  BY KeepsLog DEF OnlyTheFirstIsSwallowed
<1>1. CASE n \in swallowed
  <2>1. ~stamped /\ kind # "Alarm" /\ \A m \in 1 .. n - 1 : m \in missed
    BY <1>1 DEF OnlyTheFirstIsSwallowed
  <2>2. n \in 0 .. Last
    BY <1>1, FiredFacts DEF Known, Handled
  <2>3. \A m \in 1 .. n - 1 : m # Last
    BY <2>2, LastType DEF Known
  <2> QED
    BY <2>1, <2>3, MissedStays
<1>2. CASE n \notin swallowed
  <2>1. /\ batch # <<>> /\ Dispatch(Head(batch))
        /\ missed \subseteq missed'
    BY <1>2 DEF Next, vars, Happen, Register, Repeat, Rotate, Subscribe, Poll, ReRead,
                Handle, Ignore, CallbackRaises, EventRaises
  <2>2. n = Head(batch) /\ Stamped(n) /\ baseline = None
    BY <1>2, <2>1 DEF Dispatch
  <2>3. ~stamped /\ kind # "Alarm"
    BY <2>2 DEF Known, BaselineInv
  <2>4. ASSUME NEW m \in 1 .. n - 1 PROVE m \in missed
    <3>1. n \in 0 .. Last
      BY <2>1, <2>2, HeadFacts DEF Known
    <3>2. m \in 1 .. Last /\ baseline < m /\ m < Head(batch)
      BY <2>2, <3>1, LastType DEF None, Known
    <3> QED
      BY <2>1, <3>2, Between
  <2> QED
    BY <2>1, <2>3, <2>4
<1> QED
  BY <1>1, <1>2

-----------------------------------------------------------------------------
LEMMA Initial == Init => IInv
<1> SUFFICES ASSUME Init PROVE IInv
  OBVIOUS
<1>1. PICK v \in Values \cup {None} : log = <<v>>
  BY DEF Init
<1>2. log \in Seq(Values \cup {None}) /\ Len(log) = 1 /\ Last = 0
  BY <1>1 DEF Last
<1>3. Handled = {} /\ Members(batch) = {} /\ Members(queue) = {}
  BY MembersOfEmpty DEF Init, Handled
<1>4. 0 \in Numbers /\ <<>> \in Seq(Numbers)
  BY BoundsAssumption, EmptySeq DEF Numbers
<1>5. TypeOK
  <2>1. baseline \in Numbers \cup {None}
    BY <1>4 DEF Init
  <2> QED
    BY <1>2, <1>4, <2>1 DEF Init, TypeOK
<1>6. LogInv
  BY <1>2, BoundsAssumption DEF LogInv
<1>7. OrderInv
  <2>1. baseline <= Last
    BY <1>2 DEF Init, None
  <2> QED
    BY <1>3, <2>1, SortedEmpty DEF Init, OrderInv
<1>8. BaselineInv
  BY <1>3 DEF Init, BaselineInv, None
<1>9. NoReplay /\ EdgeInv /\ AlarmEdges
  <2>1. fired = <<>> /\ DOMAIN fired = {} /\ 1 .. Len(fired) - 1 = {}
    BY DEF Init
  <2> QED
    BY <2>1 DEF NoReplay, EdgeInv, AlarmEdges
<1>10. QueueInv /\ Ahead /\ Behind
  BY <1>2 DEF Init, QueueInv, Ahead, Behind
<1>11. AtBaseline
  BY DEF Init, AtBaseline, None
<1>12. OnlyTheFirstIsSwallowed
  BY DEF Init, OnlyTheFirstIsSwallowed
<1> QED
  BY <1>5, <1>6, <1>7, <1>8, <1>9, <1>10, <1>11, <1>12 DEF IInv, Known, Callbacks, Tracking

\* The inductive invariant: listings come in the order of the events, the baseline
\* never passes one that is still to be handled, and every event is accounted for.
THEOREM Inductive == Spec => []IInv
<1>1. Init => IInv
  BY Initial
<1>2. IInv /\ [Next]_vars => IInv'
  <2> SUFFICES ASSUME IInv, [Next]_vars PROVE IInv'
    OBVIOUS
  <2>1. TypeOK' /\ LogInv' /\ OrderInv'
    BY TypeStep, LogStep, OrderStep DEF IInv, Known
  <2>2. Callbacks'
    BY CallbacksStep DEF IInv, Known
  <2>3. Tracking' /\ OnlyTheFirstIsSwallowed'
    BY TrackingStep, SwallowStep DEF IInv
  <2> QED
    BY <2>1, <2>2, <2>3 DEF IInv, Known, Callbacks
<1> QED
  BY <1>1, <1>2, PTL DEF Spec

\* The variables of the SHC, of the session and of the service keep their types.
THEOREM Typing == Spec => []TypeOK
<1>1. IInv => TypeOK
  BY DEF IInv, Known
<1> QED
  BY <1>1, Inductive, PTL

\* A callback is called at most once per event, in the order of the events, and
\* never for what happened before the service was built, however often the SHC
\* lists a state.
THEOREM CallbacksRunOnce == Spec => []NoReplay
<1>1. IInv => NoReplay
  BY DEF IInv, Callbacks
<1> QED
  BY <1>1, Inductive, PTL

\* An alarm callback is never called for the same value twice in a row.
THEOREM AlarmsRunOnEdges == Spec => []AlarmEdges
<1>1. IInv => AlarmEdges
  BY DEF IInv, Callbacks
<1> QED
  BY <1>1, Inductive, PTL

\* Every event reaches its callback if it has one, unless its listings were lost,
\* it is the first event ever or an alarm's return to the value last seen.
THEOREM EventsReachTheirCallback == Spec => []NoEventLost
<1>1. IInv => NoEventLost
  <2> SUFFICES ASSUME IInv, NEW n \in 1 .. Last
               PROVE  \/ n \in Handled \cup missed
                      \/ n \in Members(queue) \cup Members(batch)
                      \/ Hidden(n)
    BY DEF NoEventLost
  <2>1. n \in Int /\ baseline \in Int
    BY FiredFacts, LastType DEF IInv, Known
  <2>2. CASE n < baseline
    BY <2>2 DEF IInv, Tracking, Behind
  <2>3. CASE n = baseline
    <3>1. baseline > 0
      BY <2>3
    <3> QED
      BY <2>3, <3>1 DEF IInv, Tracking, AtBaseline
  <2>4. CASE n > baseline
    BY <2>4 DEF IInv, Tracking, Ahead
  <2> QED
    BY <2>1, <2>2, <2>3, <2>4
<1> QED
  BY <1>1, Inductive, PTL

\* The only event that establishes the baseline instead of being handled is the
\* first that a service without any learns of: what came before it was lost.
THEOREM OneEventIsSwallowed == Spec => []OnlyTheFirstIsSwallowed
<1>1. IInv => OnlyTheFirstIsSwallowed
  BY DEF IInv
<1> QED
  BY <1>1, Inductive, PTL
=============================================================================
