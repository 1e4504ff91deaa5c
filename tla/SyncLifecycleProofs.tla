------------------------ MODULE SyncLifecycleProofs ------------------------
(* Proofs about SyncLifecycle for every set of callers and every value of    *)
(* the bounds.                                                               *)
EXTENDS SyncLifecycle, TLAPS, FiniteSetTheorems

\* start_polling() and stop_polling() take no lock, so what follows them needs
\* an application that begins a call only when no other one is under way.
SerialCalls == \A c, d \in Callers : cpc[c] # "idle" /\ cpc[d] # "idle" => c = d

\* Threads are created in the order of their numbers, and started later.
Numbered ==
    /\ handle <= started
    /\ \A t \in Threads : t > started => tpc[t] = "unborn"

\* A stop_polling() waits for a thread.
Targeted ==
    \A c \in Callers :
        cpc[c] \in {"join", "unsubscribe", "finish"} => target[c] \in Threads

\* A thread that has been granted a subscription knows its id.
Granted == \A t \in Threads : tpc[t] = "subscribed" => held[t] \in Ids

HandleInv == Numbered /\ Targeted /\ Granted /\ NoLockout

\* What the position of a caller says about the handle.
CallInv ==
    \A c \in Callers :
        /\ cpc[c] = "start" => handle = None
        /\ cpc[c] = "launch" => handle = None \/ tpc[handle] = "unborn"
        /\ cpc[c] \in {"join", "unsubscribe", "finish"} =>
              stopFlag /\ handle \in {None, target[c]}

\* At most one thread is past its look at the stop flag.
Busy(t) == tpc[t] \notin {"unborn", "loop", "finally", "dead"}
OneBusy == \A t, u \in Threads : Busy(t) /\ Busy(u) => t = u

ThreadInv == NoRunawayThread /\ OneBusy

\* Nobody but the busy thread gives the session a poll id.
PollInv ==
    \A t \in Threads :
        /\ tpc[t] \in {"subscribe", "subscribed"} => pollId = None
        /\ tpc[t] = "poll" => pollId \in {None, held[t]}

\* As long as every join has seen its thread end, the handle names the only
\* thread there is, and a stop forgets only what it has unsubscribed.
JoinInv ==
    late = {} =>
        /\ \A t \in Alive : handle = t
        /\ \A c \in Callers :
              /\ cpc[c] \in {"unsubscribe", "finish"} => tpc[target[c]] = "dead"
              /\ cpc[c] = "finish" => pollId \notin subs

SerialInv == CallInv /\ ThreadInv /\ PollInv /\ JoinInv /\ NoSubscriptionForgotten

-----------------------------------------------------------------------------
LEMMA FaultStep ==
  ASSUME TypeOK, Fault
  PROVE  faults' \in 0 .. MaxFaults
BY BoundsAssumption DEF TypeOK, Fault

LEMMA TypeStep ==
  ASSUME TypeOK, HandleInv, [Next]_vars
  PROVE  TypeOK'
<1>1. ASSUME NEW c \in Callers, StartCheck(c) PROVE TypeOK'
  BY <1>1, BoundsAssumption DEF StartCheck, None, Call, shc, TypeOK, Threads, Ids
<1>2. ASSUME NEW c \in Callers, StartThread(c) PROVE TypeOK'
  BY <1>2, BoundsAssumption DEF StartThread, Goto, Call, shc, TypeOK, Threads, Ids, None
<1>21. ASSUME NEW c \in Callers, CreateThread(c) PROVE TypeOK'
  BY <1>21, BoundsAssumption DEF CreateThread, Call, shc, TypeOK, Threads, Ids, None
<1>3. ASSUME NEW c \in Callers, StopCall(c) PROVE TypeOK'
  BY <1>3, BoundsAssumption DEF StopCall, None, Call, shc, Alive, Threads, TypeOK, Ids
<1>4. ASSUME NEW c \in Callers, Joined(c) PROVE TypeOK'
  BY <1>4, BoundsAssumption, FaultStep DEF Joined, Call, shc, TypeOK, Threads, Ids, None,
      HandleInv, Targeted
<1>5. ASSUME NEW c \in Callers, StopUnsubscribe(c) PROVE TypeOK'
  BY <1>5, BoundsAssumption, FaultStep DEF StopUnsubscribe, None, Call, TypeOK, Threads, Ids
<1>6. ASSUME NEW c \in Callers, StopFinish(c) PROVE TypeOK'
  BY <1>6, BoundsAssumption DEF StopFinish, None, Call, shc, TypeOK, Threads, Ids
<1>7. ASSUME NEW t \in Threads, LoopTop(t) PROVE TypeOK'
  BY <1>7, BoundsAssumption DEF LoopTop, None, Goto, shc, caller, TypeOK, Threads, Ids
<1>8. ASSUME NEW t \in Threads, Grant(t) PROVE TypeOK'
  BY <1>8, BoundsAssumption DEF Grant, Goto, caller, TypeOK, Threads, Ids, None
<1>9. ASSUME NEW t \in Threads, Refuse(t) PROVE TypeOK'
  BY <1>9, BoundsAssumption DEF Refuse, Goto, shc, caller, TypeOK, Threads, Ids, None
<1>10. ASSUME NEW t \in Threads, Subscribed(t) PROVE TypeOK'
  BY <1>10, BoundsAssumption DEF Subscribed, Goto, shc, caller, TypeOK, Threads, Ids, None
<1>11. ASSUME NEW t \in Threads, PollOk(t) PROVE TypeOK'
  BY <1>11, BoundsAssumption DEF PollOk, Goto, shc, caller, TypeOK, Threads, Ids, None
<1>12. ASSUME NEW t \in Threads, PollStale(t) PROVE TypeOK'
  BY <1>12, BoundsAssumption DEF PollStale, None, Goto, shc, caller, TypeOK, Threads, Ids
<1>13. ASSUME NEW t \in Threads, ThreadUnsubscribe(t) PROVE TypeOK'
  BY <1>13, BoundsAssumption, FaultStep DEF ThreadUnsubscribe, None, Goto, caller, TypeOK,
      Threads, Ids
<1>14. ASSUME NEW t \in Threads, Wake(t) PROVE TypeOK'
  BY <1>14, BoundsAssumption DEF Wake, Goto, shc, caller, TypeOK, Threads, Ids, None
<1>15. ASSUME NEW t \in Threads, Finally(t) PROVE TypeOK'
  BY <1>15, BoundsAssumption DEF Finally, None, Goto, shc, caller, TypeOK, Threads, Ids
<1>16. ASSUME NEW t \in Threads, RequestFails(t) PROVE TypeOK'
  BY <1>16, BoundsAssumption, FaultStep DEF RequestFails, Goto, caller, TypeOK, Threads, Ids,
      None, HandleInv, Granted
<1>17. ASSUME NEW t \in Threads, Retried(t) PROVE TypeOK'
  BY <1>17, BoundsAssumption, FaultStep DEF Retried, Goto, caller, TypeOK, Threads, Ids, None,
      HandleInv, Granted
<1>18. ASSUME NEW t \in Threads, MeetsRuntimeError(t) PROVE TypeOK'
  BY <1>18, BoundsAssumption, FaultStep DEF MeetsRuntimeError, Goto, shc, caller, Alive,
      Threads, TypeOK, Ids, None
<1>19. ASSUME NEW id \in subs, Rotate(id) PROVE TypeOK'
  BY <1>19, BoundsAssumption DEF Rotate, caller, TypeOK, Threads, Ids, None
<1>20. CASE UNCHANGED vars
  BY <1>20, BoundsAssumption DEF vars, TypeOK, Threads, Ids, None
<1> QED
  BY <1>1, <1>2, <1>3, <1>4, <1>5, <1>6, <1>7, <1>8, <1>9, <1>10, <1>11, <1>12, <1>13, <1>14,
      <1>15, <1>16, <1>17, <1>18, <1>19, <1>20, <1>21 DEF Next, ThreadStep, StopStep

LEMMA HandleStep ==
  ASSUME TypeOK, HandleInv, [Next]_vars
  PROVE  HandleInv'
<1>1. ASSUME NEW c \in Callers, StartCheck(c) PROVE HandleInv'
  BY <1>1, BoundsAssumption DEF StartCheck, None, Call, shc, HandleInv, Numbered, Targeted,
      Granted, NoLockout, TypeOK, Threads, Ids
<1>2. ASSUME NEW c \in Callers, StartThread(c) PROVE HandleInv'
  BY <1>2, BoundsAssumption DEF StartThread, Goto, Call, shc, HandleInv, Numbered, Targeted,
      Granted, NoLockout, TypeOK, None, Threads, Ids
<1>21. ASSUME NEW c \in Callers, CreateThread(c) PROVE HandleInv'
  BY <1>21, BoundsAssumption DEF CreateThread, Call, shc, HandleInv, Numbered, Targeted,
      Granted, NoLockout, TypeOK, None, Threads, Ids
<1>3. ASSUME NEW c \in Callers, StopCall(c) PROVE HandleInv'
  BY <1>3, BoundsAssumption DEF StopCall, None, Call, shc, Alive, Threads, HandleInv, Numbered,
      Targeted, Granted, NoLockout, TypeOK, Ids
<1>4. ASSUME NEW c \in Callers, Joined(c) PROVE HandleInv'
  BY <1>4, BoundsAssumption DEF Joined, Call, Fault, shc, HandleInv, Numbered, Targeted,
      Granted, NoLockout, TypeOK, None, Threads, Ids
<1>5. ASSUME NEW c \in Callers, StopUnsubscribe(c) PROVE HandleInv'
  BY <1>5, BoundsAssumption DEF StopUnsubscribe, None, Call, Fault, HandleInv, Numbered,
      Targeted, Granted, NoLockout, TypeOK, Threads, Ids
<1>6. ASSUME NEW c \in Callers, StopFinish(c) PROVE HandleInv'
  BY <1>6, BoundsAssumption DEF StopFinish, None, Call, shc, HandleInv, Numbered, Targeted,
      Granted, NoLockout, TypeOK, Threads, Ids
<1>7. ASSUME NEW t \in Threads, LoopTop(t) PROVE HandleInv'
  BY <1>7, BoundsAssumption DEF LoopTop, None, Goto, shc, caller, HandleInv, Numbered, Targeted,
      Granted, NoLockout, TypeOK, Threads, Ids
<1>8. ASSUME NEW t \in Threads, Grant(t) PROVE HandleInv'
  BY <1>8, BoundsAssumption DEF Grant, Goto, caller, HandleInv, Numbered, Targeted, Granted,
      NoLockout, TypeOK, None, Threads, Ids
<1>9. ASSUME NEW t \in Threads, Refuse(t) PROVE HandleInv'
  BY <1>9, BoundsAssumption DEF Refuse, Goto, shc, caller, HandleInv, Numbered, Targeted,
      Granted, NoLockout, TypeOK, None, Threads, Ids
<1>10. ASSUME NEW t \in Threads, Subscribed(t) PROVE HandleInv'
  BY <1>10, BoundsAssumption DEF Subscribed, Goto, shc, caller, HandleInv, Numbered, Targeted,
      Granted, NoLockout, TypeOK, None, Threads, Ids
<1>11. ASSUME NEW t \in Threads, PollOk(t) PROVE HandleInv'
  BY <1>11, BoundsAssumption DEF PollOk, Goto, shc, caller, HandleInv, Numbered, Targeted,
      Granted, NoLockout, TypeOK, None, Threads, Ids
<1>12. ASSUME NEW t \in Threads, PollStale(t) PROVE HandleInv'
  BY <1>12, BoundsAssumption DEF PollStale, None, Goto, shc, caller, HandleInv, Numbered,
      Targeted, Granted, NoLockout, TypeOK, Threads, Ids
<1>13. ASSUME NEW t \in Threads, ThreadUnsubscribe(t) PROVE HandleInv'
  BY <1>13, BoundsAssumption DEF ThreadUnsubscribe, None, Goto, Fault, caller, HandleInv,
      Numbered, Targeted, Granted, NoLockout, TypeOK, Threads, Ids
<1>14. ASSUME NEW t \in Threads, Wake(t) PROVE HandleInv'
  BY <1>14, BoundsAssumption DEF Wake, Goto, shc, caller, HandleInv, Numbered, Targeted,
      Granted, NoLockout, TypeOK, None, Threads, Ids
<1>15. ASSUME NEW t \in Threads, Finally(t) PROVE HandleInv'
  BY <1>15, BoundsAssumption DEF Finally, None, Goto, shc, caller, HandleInv, Numbered,
      Targeted, Granted, NoLockout, TypeOK, Threads, Ids
<1>16. ASSUME NEW t \in Threads, RequestFails(t) PROVE HandleInv'
  BY <1>16, BoundsAssumption DEF RequestFails, Goto, Fault, caller, HandleInv, Numbered,
      Targeted, Granted, NoLockout, TypeOK, None, Threads, Ids
<1>17. ASSUME NEW t \in Threads, Retried(t) PROVE HandleInv'
  BY <1>17, BoundsAssumption DEF Retried, Goto, Fault, caller, HandleInv, Numbered, Targeted,
      Granted, NoLockout, TypeOK, None, Threads, Ids
<1>18. ASSUME NEW t \in Threads, MeetsRuntimeError(t) PROVE HandleInv'
  BY <1>18, BoundsAssumption DEF MeetsRuntimeError, Goto, Fault, shc, caller, Alive, Threads,
      HandleInv, Numbered, Targeted, Granted, NoLockout, TypeOK, None, Ids
<1>19. ASSUME NEW id \in subs, Rotate(id) PROVE HandleInv'
  BY <1>19, BoundsAssumption DEF Rotate, caller, HandleInv, Numbered, Targeted, Granted,
      NoLockout, TypeOK, None, Threads, Ids
<1>20. CASE UNCHANGED vars
  BY <1>20, BoundsAssumption DEF vars, HandleInv, Numbered, Targeted, Granted, NoLockout,
      TypeOK, None, Threads, Ids
<1> QED
  BY <1>1, <1>2, <1>3, <1>4, <1>5, <1>6, <1>7, <1>8, <1>9, <1>10, <1>11, <1>12, <1>13, <1>14,
      <1>15, <1>16, <1>17, <1>18, <1>19, <1>20, <1>21 DEF Next, ThreadStep, StopStep

LEMMA CallStep ==
  ASSUME TypeOK, HandleInv, SerialInv, SerialCalls, SerialCalls', [Next]_vars
  PROVE  CallInv'
<1>1. ASSUME NEW c \in Callers, StartCheck(c) PROVE CallInv'
  BY <1>1 DEF StartCheck, None, Call, shc, SerialCalls, SerialInv, CallInv, HandleInv, Targeted,
      TypeOK, Threads, Ids
<1>2. ASSUME NEW c \in Callers, StartThread(c) PROVE CallInv'
  BY <1>2 DEF StartThread, Goto, Call, shc, SerialCalls, SerialInv, CallInv, HandleInv,
      Targeted, TypeOK, Threads, Ids, None
<1>21. ASSUME NEW c \in Callers, CreateThread(c) PROVE CallInv'
  BY <1>21, BoundsAssumption DEF CreateThread, Call, shc, SerialCalls, SerialInv, CallInv, HandleInv,
      Numbered, Targeted, TypeOK, Threads, Ids, None
<1>3. ASSUME NEW c \in Callers, StopCall(c) PROVE CallInv'
  BY <1>3 DEF StopCall, None, Call, shc, Alive, Threads, SerialCalls, SerialInv, CallInv,
      HandleInv, Targeted, TypeOK, Ids
<1>4. ASSUME NEW c \in Callers, Joined(c) PROVE CallInv'
  BY <1>4 DEF Joined, Call, Fault, shc, SerialCalls, SerialInv, CallInv, HandleInv, Targeted,
      TypeOK, Threads, Ids, None
<1>5. ASSUME NEW c \in Callers, StopUnsubscribe(c) PROVE CallInv'
  BY <1>5 DEF StopUnsubscribe, None, Call, Fault, SerialCalls, SerialInv, CallInv, HandleInv,
      Targeted, TypeOK, Threads, Ids
<1>6. ASSUME NEW c \in Callers, StopFinish(c) PROVE CallInv'
  BY <1>6 DEF StopFinish, None, Call, shc, SerialCalls, SerialInv, CallInv, HandleInv, Targeted,
      TypeOK, Threads, Ids
<1>7. ASSUME NEW t \in Threads, LoopTop(t) PROVE CallInv'
  BY <1>7 DEF LoopTop, None, Goto, shc, caller, SerialCalls, SerialInv, CallInv, HandleInv,
      Targeted, TypeOK, Threads, Ids
<1>8. ASSUME NEW t \in Threads, Grant(t) PROVE CallInv'
  BY <1>8 DEF Grant, Goto, caller, SerialCalls, SerialInv, CallInv, HandleInv, Targeted, TypeOK,
      Threads, Ids, None
<1>9. ASSUME NEW t \in Threads, Refuse(t) PROVE CallInv'
  BY <1>9 DEF Refuse, Goto, shc, caller, SerialCalls, SerialInv, CallInv, HandleInv, Targeted,
      TypeOK, Threads, Ids, None
<1>10. ASSUME NEW t \in Threads, Subscribed(t) PROVE CallInv'
  BY <1>10 DEF Subscribed, Goto, shc, caller, SerialCalls, SerialInv, CallInv, HandleInv,
      Targeted, TypeOK, Threads, Ids, None
<1>11. ASSUME NEW t \in Threads, PollOk(t) PROVE CallInv'
  BY <1>11 DEF PollOk, Goto, shc, caller, SerialCalls, SerialInv, CallInv, HandleInv, Targeted,
      TypeOK, Threads, Ids, None
<1>12. ASSUME NEW t \in Threads, PollStale(t) PROVE CallInv'
  BY <1>12 DEF PollStale, None, Goto, shc, caller, SerialCalls, SerialInv, CallInv, HandleInv,
      Targeted, TypeOK, Threads, Ids
<1>13. ASSUME NEW t \in Threads, ThreadUnsubscribe(t) PROVE CallInv'
  BY <1>13 DEF ThreadUnsubscribe, None, Goto, Fault, caller, SerialCalls, SerialInv, CallInv,
      HandleInv, Targeted, TypeOK, Threads, Ids
<1>14. ASSUME NEW t \in Threads, Wake(t) PROVE CallInv'
  BY <1>14 DEF Wake, Goto, shc, caller, SerialCalls, SerialInv, CallInv, HandleInv, Targeted,
      TypeOK, Threads, Ids, None
<1>15. ASSUME NEW t \in Threads, Finally(t) PROVE CallInv'
  BY <1>15 DEF Finally, None, Goto, shc, caller, SerialCalls, SerialInv, CallInv, HandleInv,
      Targeted, TypeOK, Threads, Ids
<1>16. ASSUME NEW t \in Threads, RequestFails(t) PROVE CallInv'
  BY <1>16 DEF RequestFails, Goto, Fault, caller, SerialCalls, SerialInv, CallInv, HandleInv,
      Targeted, TypeOK, Threads, Ids, None
<1>17. ASSUME NEW t \in Threads, Retried(t) PROVE CallInv'
  BY <1>17 DEF Retried, Goto, Fault, caller, SerialCalls, SerialInv, CallInv, HandleInv,
      Targeted, TypeOK, Threads, Ids, None
<1>18. ASSUME NEW t \in Threads, MeetsRuntimeError(t) PROVE CallInv'
  BY <1>18 DEF MeetsRuntimeError, Goto, Fault, shc, caller, Alive, Threads, SerialCalls,
      SerialInv, CallInv, HandleInv, Targeted, TypeOK, Ids, None
<1>19. ASSUME NEW id \in subs, Rotate(id) PROVE CallInv'
  BY <1>19 DEF Rotate, caller, SerialCalls, SerialInv, CallInv, HandleInv, Targeted, TypeOK,
      Threads, Ids, None
<1>20. CASE UNCHANGED vars
  BY <1>20 DEF vars, SerialCalls, SerialInv, CallInv, HandleInv, Targeted, TypeOK, Threads, Ids,
      None
<1> QED
  BY <1>1, <1>2, <1>3, <1>4, <1>5, <1>6, <1>7, <1>8, <1>9, <1>10, <1>11, <1>12, <1>13, <1>14,
      <1>15, <1>16, <1>17, <1>18, <1>19, <1>20, <1>21 DEF Next, ThreadStep, StopStep

LEMMA ThreadInvStep ==
  ASSUME TypeOK, HandleInv, SerialInv, SerialCalls, SerialCalls', [Next]_vars
  PROVE  ThreadInv'
<1>1. ASSUME NEW c \in Callers, StartCheck(c) PROVE ThreadInv'
  BY <1>1, BoundsAssumption DEF StartCheck, None, Call, shc, SerialInv, CallInv, ThreadInv,
      NoRunawayThread, OneBusy, Busy, HandleInv, Numbered, TypeOK, Alive, Threads, Ids
<1>21. ASSUME NEW c \in Callers, CreateThread(c) PROVE ThreadInv'
  <2>1. handle = None /\ UNCHANGED <<tpc, stopFlag>>
    BY <1>21 DEF CreateThread, SerialInv, CallInv
  <2>2. NoRunawayThread'
    BY <2>1 DEF SerialInv, ThreadInv, NoRunawayThread, Alive, Threads, None
  <2>3. OneBusy'
    BY <2>1 DEF SerialInv, ThreadInv, OneBusy, Busy
  <2> QED
    BY <2>2, <2>3 DEF ThreadInv
<1>2. ASSUME NEW c \in Callers, StartThread(c) PROVE ThreadInv'
  <2>1. UNCHANGED <<handle, stopFlag>>
    BY <1>2 DEF StartThread
  <2>2. \A u \in Threads : u \in Alive' => u = handle \/ u \in Alive
    BY <1>2, BoundsAssumption DEF StartThread, Goto, Alive, Threads, None, TypeOK
  <2>3. \A u \in Threads : tpc'[u] = tpc[u] \/ tpc'[u] = "loop"
    BY <1>2, BoundsAssumption DEF StartThread, Goto, TypeOK, Threads
  <2>4. NoRunawayThread'
    BY <2>1, <2>2 DEF SerialInv, ThreadInv, NoRunawayThread, Alive
  <2>5. OneBusy'
    BY <2>3 DEF SerialInv, ThreadInv, OneBusy, Busy
  <2> QED
    BY <2>4, <2>5 DEF ThreadInv
<1>3. ASSUME NEW c \in Callers, StopCall(c) PROVE ThreadInv'
  BY <1>3, BoundsAssumption DEF StopCall, None, Call, shc, Alive, Threads, SerialInv, CallInv,
      ThreadInv, NoRunawayThread, OneBusy, Busy, HandleInv, Numbered, TypeOK, Ids
<1>4. ASSUME NEW c \in Callers, Joined(c) PROVE ThreadInv'
  BY <1>4, BoundsAssumption DEF Joined, Call, Fault, shc, SerialInv, CallInv, ThreadInv,
      NoRunawayThread, OneBusy, Busy, HandleInv, Numbered, TypeOK, Alive, Threads, Ids, None
<1>5. ASSUME NEW c \in Callers, StopUnsubscribe(c) PROVE ThreadInv'
  BY <1>5, BoundsAssumption DEF StopUnsubscribe, None, Call, Fault, SerialInv, CallInv,
      ThreadInv, NoRunawayThread, OneBusy, Busy, HandleInv, Numbered, TypeOK, Alive, Threads,
      Ids
<1>6. ASSUME NEW c \in Callers, StopFinish(c) PROVE ThreadInv'
  BY <1>6, BoundsAssumption DEF StopFinish, None, Call, shc, SerialInv, CallInv, ThreadInv,
      NoRunawayThread, OneBusy, Busy, HandleInv, Numbered, TypeOK, Alive, Threads, Ids
<1>7. ASSUME NEW t \in Threads, LoopTop(t) PROVE ThreadInv'
  BY <1>7, BoundsAssumption DEF LoopTop, None, Goto, shc, caller, SerialInv, CallInv, ThreadInv,
      NoRunawayThread, OneBusy, Busy, HandleInv, Numbered, TypeOK, Alive, Threads, Ids
<1>8. ASSUME NEW t \in Threads, Grant(t) PROVE ThreadInv'
  BY <1>8, BoundsAssumption DEF Grant, Goto, caller, SerialInv, CallInv, ThreadInv,
      NoRunawayThread, OneBusy, Busy, HandleInv, Numbered, TypeOK, Alive, Threads, Ids, None
<1>9. ASSUME NEW t \in Threads, Refuse(t) PROVE ThreadInv'
  BY <1>9, BoundsAssumption DEF Refuse, Goto, shc, caller, SerialInv, CallInv, ThreadInv,
      NoRunawayThread, OneBusy, Busy, HandleInv, Numbered, TypeOK, Alive, Threads, Ids, None
<1>10. ASSUME NEW t \in Threads, Subscribed(t) PROVE ThreadInv'
  BY <1>10, BoundsAssumption DEF Subscribed, Goto, shc, caller, SerialInv, CallInv, ThreadInv,
      NoRunawayThread, OneBusy, Busy, HandleInv, Numbered, TypeOK, Alive, Threads, Ids, None
<1>11. ASSUME NEW t \in Threads, PollOk(t) PROVE ThreadInv'
  BY <1>11, BoundsAssumption DEF PollOk, Goto, shc, caller, SerialInv, CallInv, ThreadInv,
      NoRunawayThread, OneBusy, Busy, HandleInv, Numbered, TypeOK, Alive, Threads, Ids, None
<1>12. ASSUME NEW t \in Threads, PollStale(t) PROVE ThreadInv'
  BY <1>12, BoundsAssumption DEF PollStale, None, Goto, shc, caller, SerialInv, CallInv,
      ThreadInv, NoRunawayThread, OneBusy, Busy, HandleInv, Numbered, TypeOK, Alive, Threads,
      Ids
<1>13. ASSUME NEW t \in Threads, ThreadUnsubscribe(t) PROVE ThreadInv'
  BY <1>13, BoundsAssumption DEF ThreadUnsubscribe, None, Goto, Fault, caller, SerialInv,
      CallInv, ThreadInv, NoRunawayThread, OneBusy, Busy, HandleInv, Numbered, TypeOK, Alive,
      Threads, Ids
<1>14. ASSUME NEW t \in Threads, Wake(t) PROVE ThreadInv'
  BY <1>14, BoundsAssumption DEF Wake, Goto, shc, caller, SerialInv, CallInv, ThreadInv,
      NoRunawayThread, OneBusy, Busy, HandleInv, Numbered, TypeOK, Alive, Threads, Ids, None
<1>15. ASSUME NEW t \in Threads, Finally(t) PROVE ThreadInv'
  BY <1>15, BoundsAssumption DEF Finally, None, Goto, shc, caller, SerialInv, CallInv,
      ThreadInv, NoRunawayThread, OneBusy, Busy, HandleInv, Numbered, TypeOK, Alive, Threads,
      Ids
<1>16. ASSUME NEW t \in Threads, RequestFails(t) PROVE ThreadInv'
  BY <1>16, BoundsAssumption DEF RequestFails, Goto, Fault, caller, SerialInv, CallInv,
      ThreadInv, NoRunawayThread, OneBusy, Busy, HandleInv, Numbered, TypeOK, Alive, Threads,
      Ids, None
<1>17. ASSUME NEW t \in Threads, Retried(t) PROVE ThreadInv'
  BY <1>17, BoundsAssumption DEF Retried, Goto, Fault, caller, SerialInv, CallInv, ThreadInv,
      NoRunawayThread, OneBusy, Busy, HandleInv, Numbered, TypeOK, Alive, Threads, Ids, None
<1>18. ASSUME NEW t \in Threads, MeetsRuntimeError(t) PROVE ThreadInv'
  BY <1>18, BoundsAssumption DEF MeetsRuntimeError, Goto, Fault, shc, caller, Alive, Threads,
      SerialInv, CallInv, ThreadInv, NoRunawayThread, OneBusy, Busy, HandleInv, Numbered,
      TypeOK, Ids, None
<1>19. ASSUME NEW id \in subs, Rotate(id) PROVE ThreadInv'
  BY <1>19, BoundsAssumption DEF Rotate, caller, SerialInv, CallInv, ThreadInv, NoRunawayThread,
      OneBusy, Busy, HandleInv, Numbered, TypeOK, Alive, Threads, Ids, None
<1>20. CASE UNCHANGED vars
  BY <1>20, BoundsAssumption DEF vars, SerialInv, CallInv, ThreadInv, NoRunawayThread, OneBusy,
      Busy, HandleInv, Numbered, TypeOK, Alive, Threads, Ids, None
<1> QED
  BY <1>1, <1>2, <1>3, <1>4, <1>5, <1>6, <1>7, <1>8, <1>9, <1>10, <1>11, <1>12, <1>13, <1>14,
      <1>15, <1>16, <1>17, <1>18, <1>19, <1>20, <1>21 DEF Next, ThreadStep, StopStep

LEMMA PollStep ==
  ASSUME TypeOK, HandleInv, SerialInv, SerialCalls, SerialCalls', [Next]_vars
  PROVE  PollInv'
<1>1. ASSUME NEW c \in Callers, StartCheck(c) PROVE PollInv'
  BY <1>1 DEF StartCheck, None, Call, shc, SerialInv, ThreadInv, OneBusy, Busy, PollInv, TypeOK,
      Threads, Ids
<1>2. ASSUME NEW c \in Callers, StartThread(c) PROVE PollInv'
  BY <1>2 DEF StartThread, Goto, Call, shc, SerialInv, ThreadInv, OneBusy, Busy, PollInv,
      TypeOK, Threads, Ids, None
<1>21. ASSUME NEW c \in Callers, CreateThread(c) PROVE PollInv'
  BY <1>21 DEF CreateThread, Call, shc, SerialInv, ThreadInv, OneBusy, Busy, PollInv,
      TypeOK, Threads, Ids, None
<1>3. ASSUME NEW c \in Callers, StopCall(c) PROVE PollInv'
  BY <1>3 DEF StopCall, None, Call, shc, Alive, Threads, SerialInv, ThreadInv, OneBusy, Busy,
      PollInv, TypeOK, Ids
<1>4. ASSUME NEW c \in Callers, Joined(c) PROVE PollInv'
  BY <1>4 DEF Joined, Call, Fault, shc, SerialInv, ThreadInv, OneBusy, Busy, PollInv, TypeOK,
      Threads, Ids, None
<1>5. ASSUME NEW c \in Callers, StopUnsubscribe(c) PROVE PollInv'
  BY <1>5 DEF StopUnsubscribe, None, Call, Fault, SerialInv, ThreadInv, OneBusy, Busy, PollInv,
      TypeOK, Threads, Ids
<1>6. ASSUME NEW c \in Callers, StopFinish(c) PROVE PollInv'
  BY <1>6 DEF StopFinish, None, Call, shc, SerialInv, ThreadInv, OneBusy, Busy, PollInv, TypeOK,
      Threads, Ids
<1>7. ASSUME NEW t \in Threads, LoopTop(t) PROVE PollInv'
  BY <1>7 DEF LoopTop, None, Goto, shc, caller, SerialInv, ThreadInv, OneBusy, Busy, PollInv,
      TypeOK, Threads, Ids
<1>8. ASSUME NEW t \in Threads, Grant(t) PROVE PollInv'
  BY <1>8 DEF Grant, Goto, caller, SerialInv, ThreadInv, OneBusy, Busy, PollInv, TypeOK,
      Threads, Ids, None
<1>9. ASSUME NEW t \in Threads, Refuse(t) PROVE PollInv'
  BY <1>9 DEF Refuse, Goto, shc, caller, SerialInv, ThreadInv, OneBusy, Busy, PollInv, TypeOK,
      Threads, Ids, None
<1>10. ASSUME NEW t \in Threads, Subscribed(t) PROVE PollInv'
  BY <1>10 DEF Subscribed, Goto, shc, caller, SerialInv, ThreadInv, OneBusy, Busy, PollInv,
      TypeOK, Threads, Ids, None
<1>11. ASSUME NEW t \in Threads, PollOk(t) PROVE PollInv'
  BY <1>11 DEF PollOk, Goto, shc, caller, SerialInv, ThreadInv, OneBusy, Busy, PollInv, TypeOK,
      Threads, Ids, None
<1>12. ASSUME NEW t \in Threads, PollStale(t) PROVE PollInv'
  BY <1>12 DEF PollStale, None, Goto, shc, caller, SerialInv, ThreadInv, OneBusy, Busy, PollInv,
      TypeOK, Threads, Ids
<1>13. ASSUME NEW t \in Threads, ThreadUnsubscribe(t) PROVE PollInv'
  BY <1>13 DEF ThreadUnsubscribe, None, Goto, Fault, caller, SerialInv, ThreadInv, OneBusy,
      Busy, PollInv, TypeOK, Threads, Ids
<1>14. ASSUME NEW t \in Threads, Wake(t) PROVE PollInv'
  BY <1>14 DEF Wake, Goto, shc, caller, SerialInv, ThreadInv, OneBusy, Busy, PollInv, TypeOK,
      Threads, Ids, None
<1>15. ASSUME NEW t \in Threads, Finally(t) PROVE PollInv'
  BY <1>15 DEF Finally, None, Goto, shc, caller, SerialInv, ThreadInv, OneBusy, Busy, PollInv,
      TypeOK, Threads, Ids
<1>16. ASSUME NEW t \in Threads, RequestFails(t) PROVE PollInv'
  BY <1>16 DEF RequestFails, Goto, Fault, caller, SerialInv, ThreadInv, OneBusy, Busy, PollInv,
      TypeOK, Threads, Ids, None
<1>17. ASSUME NEW t \in Threads, Retried(t) PROVE PollInv'
  BY <1>17 DEF Retried, Goto, Fault, caller, SerialInv, ThreadInv, OneBusy, Busy, PollInv,
      TypeOK, Threads, Ids, None
<1>18. ASSUME NEW t \in Threads, MeetsRuntimeError(t) PROVE PollInv'
  BY <1>18 DEF MeetsRuntimeError, Goto, Fault, shc, caller, Alive, Threads, SerialInv,
      ThreadInv, OneBusy, Busy, PollInv, TypeOK, Ids, None
<1>19. ASSUME NEW id \in subs, Rotate(id) PROVE PollInv'
  BY <1>19 DEF Rotate, caller, SerialInv, ThreadInv, OneBusy, Busy, PollInv, TypeOK, Threads,
      Ids, None
<1>20. CASE UNCHANGED vars
  BY <1>20 DEF vars, SerialInv, ThreadInv, OneBusy, Busy, PollInv, TypeOK, Threads, Ids, None
<1> QED
  BY <1>1, <1>2, <1>3, <1>4, <1>5, <1>6, <1>7, <1>8, <1>9, <1>10, <1>11, <1>12, <1>13, <1>14,
      <1>15, <1>16, <1>17, <1>18, <1>19, <1>20, <1>21 DEF Next, ThreadStep, StopStep

LEMMA JoinStep ==
  ASSUME TypeOK, HandleInv, SerialInv, SerialCalls, SerialCalls', [Next]_vars
  PROVE  JoinInv'
<1>1. ASSUME NEW c \in Callers, StartCheck(c) PROVE JoinInv'
  BY <1>1, BoundsAssumption DEF StartCheck, None, Call, shc, SerialCalls, SerialInv, CallInv,
      ThreadInv, JoinInv, Alive, HandleInv, Numbered, Targeted, NoLockout, TypeOK, Threads, Ids
<1>2. ASSUME NEW c \in Callers, StartThread(c) PROVE JoinInv'
  BY <1>2, BoundsAssumption DEF StartThread, Goto, Call, shc, SerialCalls, SerialInv, CallInv,
      ThreadInv, JoinInv, Alive, HandleInv, Numbered, Targeted, NoLockout, TypeOK, Threads,
      None, Ids
<1>21. ASSUME NEW c \in Callers, CreateThread(c) PROVE JoinInv'
  BY <1>21, BoundsAssumption DEF CreateThread, Call, shc, SerialCalls, SerialInv, CallInv,
      ThreadInv, JoinInv, Alive, HandleInv, Numbered, Targeted, NoLockout, TypeOK, Threads,
      None, Ids
<1>3. ASSUME NEW c \in Callers, StopCall(c) PROVE JoinInv'
  BY <1>3, BoundsAssumption DEF StopCall, None, Call, shc, Alive, Threads, SerialCalls,
      SerialInv, CallInv, ThreadInv, JoinInv, HandleInv, Numbered, Targeted, NoLockout, TypeOK,
      Ids
<1>4. ASSUME NEW c \in Callers, Joined(c) PROVE JoinInv'
  BY <1>4, BoundsAssumption DEF Joined, Call, Fault, shc, SerialCalls, SerialInv, CallInv,
      ThreadInv, JoinInv, Alive, HandleInv, Numbered, Targeted, NoLockout, TypeOK, Threads,
      None, Ids
<1>5. ASSUME NEW c \in Callers, StopUnsubscribe(c) PROVE JoinInv'
  BY <1>5, BoundsAssumption DEF StopUnsubscribe, None, Call, Fault, SerialCalls, SerialInv,
      CallInv, ThreadInv, JoinInv, Alive, HandleInv, Numbered, Targeted, NoLockout, TypeOK,
      Threads, Ids
<1>6. ASSUME NEW c \in Callers, StopFinish(c) PROVE JoinInv'
  BY <1>6, BoundsAssumption DEF StopFinish, None, Call, shc, SerialCalls, SerialInv, CallInv,
      ThreadInv, JoinInv, Alive, HandleInv, Numbered, Targeted, NoLockout, TypeOK, Threads, Ids
<1>7. ASSUME NEW t \in Threads, LoopTop(t) PROVE JoinInv'
  BY <1>7, BoundsAssumption DEF LoopTop, None, Goto, shc, caller, SerialCalls, SerialInv,
      CallInv, ThreadInv, JoinInv, Alive, HandleInv, Numbered, Targeted, NoLockout, TypeOK,
      Threads, Ids
<1>8. ASSUME NEW t \in Threads, Grant(t) PROVE JoinInv'
  BY <1>8, BoundsAssumption DEF Grant, Goto, caller, SerialCalls, SerialInv, CallInv, ThreadInv,
      JoinInv, Alive, HandleInv, Numbered, Targeted, NoLockout, TypeOK, Threads, None, Ids
<1>9. ASSUME NEW t \in Threads, Refuse(t) PROVE JoinInv'
  BY <1>9, BoundsAssumption DEF Refuse, Goto, shc, caller, SerialCalls, SerialInv, CallInv,
      ThreadInv, JoinInv, Alive, HandleInv, Numbered, Targeted, NoLockout, TypeOK, Threads,
      None, Ids
<1>10. ASSUME NEW t \in Threads, Subscribed(t) PROVE JoinInv'
  BY <1>10, BoundsAssumption DEF Subscribed, Goto, shc, caller, SerialCalls, SerialInv, CallInv,
      ThreadInv, JoinInv, Alive, HandleInv, Numbered, Targeted, NoLockout, TypeOK, Threads,
      None, Ids
<1>11. ASSUME NEW t \in Threads, PollOk(t) PROVE JoinInv'
  BY <1>11, BoundsAssumption DEF PollOk, Goto, shc, caller, SerialCalls, SerialInv, CallInv,
      ThreadInv, JoinInv, Alive, HandleInv, Numbered, Targeted, NoLockout, TypeOK, Threads,
      None, Ids
<1>12. ASSUME NEW t \in Threads, PollStale(t) PROVE JoinInv'
  BY <1>12, BoundsAssumption DEF PollStale, None, Goto, shc, caller, SerialCalls, SerialInv,
      CallInv, ThreadInv, JoinInv, Alive, HandleInv, Numbered, Targeted, NoLockout, TypeOK,
      Threads, Ids
<1>13. ASSUME NEW t \in Threads, ThreadUnsubscribe(t) PROVE JoinInv'
  BY <1>13, BoundsAssumption DEF ThreadUnsubscribe, None, Goto, Fault, caller, SerialCalls,
      SerialInv, CallInv, ThreadInv, JoinInv, Alive, HandleInv, Numbered, Targeted, NoLockout,
      TypeOK, Threads, Ids
<1>14. ASSUME NEW t \in Threads, Wake(t) PROVE JoinInv'
  BY <1>14, BoundsAssumption DEF Wake, Goto, shc, caller, SerialCalls, SerialInv, CallInv,
      ThreadInv, JoinInv, Alive, HandleInv, Numbered, Targeted, NoLockout, TypeOK, Threads,
      None, Ids
<1>15. ASSUME NEW t \in Threads, Finally(t) PROVE JoinInv'
  BY <1>15, BoundsAssumption DEF Finally, None, Goto, shc, caller, SerialCalls, SerialInv,
      CallInv, ThreadInv, JoinInv, Alive, HandleInv, Numbered, Targeted, NoLockout, TypeOK,
      Threads, Ids
<1>16. ASSUME NEW t \in Threads, RequestFails(t) PROVE JoinInv'
  BY <1>16, BoundsAssumption DEF RequestFails, Goto, Fault, caller, SerialCalls, SerialInv,
      CallInv, ThreadInv, JoinInv, Alive, HandleInv, Numbered, Targeted, NoLockout, TypeOK,
      Threads, None, Ids
<1>17. ASSUME NEW t \in Threads, Retried(t) PROVE JoinInv'
  BY <1>17, BoundsAssumption DEF Retried, Goto, Fault, caller, SerialCalls, SerialInv, CallInv,
      ThreadInv, JoinInv, Alive, HandleInv, Numbered, Targeted, NoLockout, TypeOK, Threads,
      None, Ids
<1>18. ASSUME NEW t \in Threads, MeetsRuntimeError(t) PROVE JoinInv'
  BY <1>18, BoundsAssumption DEF MeetsRuntimeError, Goto, Fault, shc, caller, Alive, Threads,
      SerialCalls, SerialInv, CallInv, ThreadInv, JoinInv, HandleInv, Numbered, Targeted,
      NoLockout, TypeOK, None, Ids
<1>19. ASSUME NEW id \in subs, Rotate(id) PROVE JoinInv'
  BY <1>19, BoundsAssumption DEF Rotate, caller, SerialCalls, SerialInv, CallInv, ThreadInv,
      JoinInv, Alive, HandleInv, Numbered, Targeted, NoLockout, TypeOK, Threads, None, Ids
<1>20. CASE UNCHANGED vars
  BY <1>20, BoundsAssumption DEF vars, SerialCalls, SerialInv, CallInv, ThreadInv, JoinInv,
      Alive, HandleInv, Numbered, Targeted, NoLockout, TypeOK, Threads, None, Ids
<1> QED
  BY <1>1, <1>2, <1>3, <1>4, <1>5, <1>6, <1>7, <1>8, <1>9, <1>10, <1>11, <1>12, <1>13, <1>14,
      <1>15, <1>16, <1>17, <1>18, <1>19, <1>20, <1>21 DEF Next, ThreadStep, StopStep

LEMMA SubsStep ==
  ASSUME TypeOK, HandleInv, SerialInv, SerialCalls, SerialCalls', [Next]_vars
  PROVE  NoSubscriptionForgotten'
<1>1. ASSUME NEW c \in Callers, StartCheck(c) PROVE NoSubscriptionForgotten'
  BY <1>1 DEF StartCheck, None, Call, shc, NoSubscriptionForgotten, SerialInv, JoinInv, PollInv,
      TypeOK, Threads, Ids
<1>2. ASSUME NEW c \in Callers, StartThread(c) PROVE NoSubscriptionForgotten'
  BY <1>2, BoundsAssumption DEF StartThread, Goto, Call, shc, NoSubscriptionForgotten,
      SerialInv, JoinInv, PollInv, TypeOK, Threads, Ids, None, HandleInv, Numbered
<1>21. ASSUME NEW c \in Callers, CreateThread(c) PROVE NoSubscriptionForgotten'
  BY <1>21, BoundsAssumption DEF CreateThread, Call, shc, NoSubscriptionForgotten,
      SerialInv, JoinInv, PollInv, TypeOK, Threads, Ids, None, HandleInv, Numbered
<1>3. ASSUME NEW c \in Callers, StopCall(c) PROVE NoSubscriptionForgotten'
  BY <1>3 DEF StopCall, None, Call, shc, Alive, Threads, NoSubscriptionForgotten, SerialInv,
      JoinInv, PollInv, TypeOK, Ids
<1>4. ASSUME NEW c \in Callers, Joined(c) PROVE NoSubscriptionForgotten'
  BY <1>4 DEF Joined, Call, Fault, shc, NoSubscriptionForgotten, SerialInv, JoinInv, PollInv,
      TypeOK, Threads, Ids, None
<1>5. ASSUME NEW c \in Callers, StopUnsubscribe(c) PROVE NoSubscriptionForgotten'
  BY <1>5 DEF StopUnsubscribe, None, Call, Fault, NoSubscriptionForgotten, SerialInv, JoinInv,
      PollInv, TypeOK, Threads, Ids
<1>6. ASSUME NEW c \in Callers, StopFinish(c) PROVE NoSubscriptionForgotten'
  BY <1>6 DEF StopFinish, None, Call, shc, NoSubscriptionForgotten, SerialInv, JoinInv, PollInv,
      TypeOK, Threads, Ids
<1>7. ASSUME NEW t \in Threads, LoopTop(t) PROVE NoSubscriptionForgotten'
  BY <1>7 DEF LoopTop, None, Goto, shc, caller, NoSubscriptionForgotten, SerialInv, JoinInv,
      PollInv, TypeOK, Threads, Ids
<1>8. ASSUME NEW t \in Threads, Grant(t) PROVE NoSubscriptionForgotten'
  BY <1>8 DEF Grant, Goto, caller, NoSubscriptionForgotten, SerialInv, JoinInv, PollInv, TypeOK,
      Threads, Ids, None
<1>9. ASSUME NEW t \in Threads, Refuse(t) PROVE NoSubscriptionForgotten'
  BY <1>9 DEF Refuse, Goto, shc, caller, NoSubscriptionForgotten, SerialInv, JoinInv, PollInv,
      TypeOK, Threads, Ids, None
<1>10. ASSUME NEW t \in Threads, Subscribed(t) PROVE NoSubscriptionForgotten'
  BY <1>10 DEF Subscribed, Goto, shc, caller, NoSubscriptionForgotten, SerialInv, JoinInv,
      PollInv, TypeOK, Threads, Ids, None
<1>11. ASSUME NEW t \in Threads, PollOk(t) PROVE NoSubscriptionForgotten'
  BY <1>11 DEF PollOk, Goto, shc, caller, NoSubscriptionForgotten, SerialInv, JoinInv, PollInv,
      TypeOK, Threads, Ids, None
<1>12. ASSUME NEW t \in Threads, PollStale(t) PROVE NoSubscriptionForgotten'
  BY <1>12 DEF PollStale, None, Goto, shc, caller, NoSubscriptionForgotten, SerialInv, JoinInv,
      PollInv, TypeOK, Threads, Ids
<1>13. ASSUME NEW t \in Threads, ThreadUnsubscribe(t) PROVE NoSubscriptionForgotten'
  <2>1. CASE subs' = subs \ {pollId} /\ pollId' = None
    BY <1>13, <2>1 DEF ThreadUnsubscribe, Goto, caller, NoSubscriptionForgotten, SerialInv,
      PollInv, TypeOK
  <2>2. CASE UNCHANGED <<subs, pollId>>
    BY <1>13, <2>2 DEF ThreadUnsubscribe, Goto, caller, NoSubscriptionForgotten, SerialInv, TypeOK
  <2> QED
    BY <1>13, <2>1, <2>2 DEF ThreadUnsubscribe
<1>14. ASSUME NEW t \in Threads, Wake(t) PROVE NoSubscriptionForgotten'
  BY <1>14 DEF Wake, Goto, shc, caller, NoSubscriptionForgotten, SerialInv, JoinInv, PollInv,
      TypeOK, Threads, Ids, None
<1>15. ASSUME NEW t \in Threads, Finally(t) PROVE NoSubscriptionForgotten'
  BY <1>15 DEF Finally, None, Goto, shc, caller, NoSubscriptionForgotten, SerialInv, JoinInv,
      PollInv, TypeOK, Threads, Ids
<1>16. ASSUME NEW t \in Threads, RequestFails(t) PROVE NoSubscriptionForgotten'
  BY <1>16 DEF RequestFails, Goto, Fault, caller, NoSubscriptionForgotten, SerialInv, JoinInv,
      PollInv, TypeOK, Threads, Ids, None
<1>17. ASSUME NEW t \in Threads, Retried(t) PROVE NoSubscriptionForgotten'
  BY <1>17 DEF Retried, Goto, Fault, caller, NoSubscriptionForgotten, SerialInv, JoinInv,
      PollInv, TypeOK, Threads, Ids, None
<1>18. ASSUME NEW t \in Threads, MeetsRuntimeError(t) PROVE NoSubscriptionForgotten'
  BY <1>18 DEF MeetsRuntimeError, Goto, Fault, shc, caller, Alive, Threads,
      NoSubscriptionForgotten, SerialInv, JoinInv, PollInv, TypeOK, Ids, None
<1>19. ASSUME NEW id \in subs, Rotate(id) PROVE NoSubscriptionForgotten'
  BY <1>19 DEF Rotate, caller, NoSubscriptionForgotten, SerialInv, JoinInv, PollInv, TypeOK,
      Threads, Ids, None
<1>20. CASE UNCHANGED vars
  BY <1>20 DEF vars, NoSubscriptionForgotten, SerialInv, JoinInv, PollInv, TypeOK, Threads, Ids,
      None
<1> QED
  BY <1>1, <1>2, <1>3, <1>4, <1>5, <1>6, <1>7, <1>8, <1>9, <1>10, <1>11, <1>12, <1>13, <1>14,
      <1>15, <1>16, <1>17, <1>18, <1>19, <1>20, <1>21 DEF Next, ThreadStep, StopStep

-----------------------------------------------------------------------------
\* The stop flag is never taken back, and while it is set no thread goes past
\* its look at it: what polls then has polled before.
StopIsForGood == stopFlag => stopFlag' /\ \A t \in Threads : Busy(t)' => Busy(t)

LEMMA StopStepForGood ==
  ASSUME TypeOK, [Next]_vars
  PROVE  StopIsForGood
<1>1. ASSUME NEW c \in Callers, StartCheck(c) PROVE StopIsForGood
  BY <1>1, BoundsAssumption DEF StartCheck, None, Call, shc, StopIsForGood, Busy, TypeOK,
      Threads, Ids
<1>2. ASSUME NEW c \in Callers, StartThread(c) PROVE StopIsForGood
  BY <1>2, BoundsAssumption DEF StartThread, Goto, Call, shc, StopIsForGood, Busy, TypeOK,
      Threads, Ids, None
<1>21. ASSUME NEW c \in Callers, CreateThread(c) PROVE StopIsForGood
  BY <1>21, BoundsAssumption DEF CreateThread, Call, shc, StopIsForGood, Busy, TypeOK,
      Threads, Ids, None
<1>3. ASSUME NEW c \in Callers, StopCall(c) PROVE StopIsForGood
  BY <1>3, BoundsAssumption DEF StopCall, None, Call, shc, Alive, Threads, StopIsForGood, Busy,
      TypeOK, Ids
<1>4. ASSUME NEW c \in Callers, Joined(c) PROVE StopIsForGood
  BY <1>4, BoundsAssumption DEF Joined, Call, Fault, shc, StopIsForGood, Busy, TypeOK, Threads,
      Ids, None
<1>5. ASSUME NEW c \in Callers, StopUnsubscribe(c) PROVE StopIsForGood
  BY <1>5, BoundsAssumption DEF StopUnsubscribe, None, Call, Fault, StopIsForGood, Busy, TypeOK,
      Threads, Ids
<1>6. ASSUME NEW c \in Callers, StopFinish(c) PROVE StopIsForGood
  BY <1>6, BoundsAssumption DEF StopFinish, None, Call, shc, StopIsForGood, Busy, TypeOK,
      Threads, Ids
<1>7. ASSUME NEW t \in Threads, LoopTop(t) PROVE StopIsForGood
  BY <1>7, BoundsAssumption DEF LoopTop, None, Goto, shc, caller, StopIsForGood, Busy, TypeOK,
      Threads, Ids
<1>8. ASSUME NEW t \in Threads, Grant(t) PROVE StopIsForGood
  BY <1>8, BoundsAssumption DEF Grant, Goto, caller, StopIsForGood, Busy, TypeOK, Threads, Ids,
      None
<1>9. ASSUME NEW t \in Threads, Refuse(t) PROVE StopIsForGood
  BY <1>9, BoundsAssumption DEF Refuse, Goto, shc, caller, StopIsForGood, Busy, TypeOK, Threads,
      Ids, None
<1>10. ASSUME NEW t \in Threads, Subscribed(t) PROVE StopIsForGood
  BY <1>10, BoundsAssumption DEF Subscribed, Goto, shc, caller, StopIsForGood, Busy, TypeOK,
      Threads, Ids, None
<1>11. ASSUME NEW t \in Threads, PollOk(t) PROVE StopIsForGood
  BY <1>11, BoundsAssumption DEF PollOk, Goto, shc, caller, StopIsForGood, Busy, TypeOK,
      Threads, Ids, None
<1>12. ASSUME NEW t \in Threads, PollStale(t) PROVE StopIsForGood
  BY <1>12, BoundsAssumption DEF PollStale, None, Goto, shc, caller, StopIsForGood, Busy,
      TypeOK, Threads, Ids
<1>13. ASSUME NEW t \in Threads, ThreadUnsubscribe(t) PROVE StopIsForGood
  BY <1>13, BoundsAssumption DEF ThreadUnsubscribe, None, Goto, Fault, caller, StopIsForGood,
      Busy, TypeOK, Threads, Ids
<1>14. ASSUME NEW t \in Threads, Wake(t) PROVE StopIsForGood
  BY <1>14, BoundsAssumption DEF Wake, Goto, shc, caller, StopIsForGood, Busy, TypeOK, Threads,
      Ids, None
<1>15. ASSUME NEW t \in Threads, Finally(t) PROVE StopIsForGood
  BY <1>15, BoundsAssumption DEF Finally, None, Goto, shc, caller, StopIsForGood, Busy, TypeOK,
      Threads, Ids
<1>16. ASSUME NEW t \in Threads, RequestFails(t) PROVE StopIsForGood
  BY <1>16, BoundsAssumption DEF RequestFails, Goto, Fault, caller, StopIsForGood, Busy, TypeOK,
      Threads, Ids, None
<1>17. ASSUME NEW t \in Threads, Retried(t) PROVE StopIsForGood
  BY <1>17, BoundsAssumption DEF Retried, Goto, Fault, caller, StopIsForGood, Busy, TypeOK,
      Threads, Ids, None
<1>18. ASSUME NEW t \in Threads, MeetsRuntimeError(t) PROVE StopIsForGood
  BY <1>18, BoundsAssumption DEF MeetsRuntimeError, Goto, Fault, shc, caller, Alive, Threads,
      StopIsForGood, Busy, TypeOK, Ids, None
<1>19. ASSUME NEW id \in subs, Rotate(id) PROVE StopIsForGood
  BY <1>19, BoundsAssumption DEF Rotate, caller, StopIsForGood, Busy, TypeOK, Threads, Ids, None
<1>20. CASE UNCHANGED vars
  BY <1>20, BoundsAssumption DEF vars, StopIsForGood, Busy, TypeOK, Threads, Ids, None
<1> QED
  BY <1>1, <1>2, <1>3, <1>4, <1>5, <1>6, <1>7, <1>8, <1>9, <1>10, <1>11, <1>12, <1>13, <1>14,
      <1>15, <1>16, <1>17, <1>18, <1>19, <1>20, <1>21 DEF Next, ThreadStep, StopStep

-----------------------------------------------------------------------------
LEMMA Initial == Init => TypeOK /\ HandleInv /\ SerialInv
<1> SUFFICES ASSUME Init PROVE TypeOK /\ HandleInv /\ SerialInv
  OBVIOUS
<1>1. TypeOK
  <2>1. /\ 0 \in 0 .. MaxStarts
        /\ 0 \in 0 .. MaxSubs
        /\ 0 \in 0 .. MaxFaults
    BY BoundsAssumption
  <2>2. /\ tpc \in [Threads -> {"unborn"}]
        /\ held \in [Threads -> {None}]
        /\ cpc \in [Callers -> {"idle"}]
        /\ target \in [Callers -> {None}]
    BY DEF Init
  <2> QED
    BY <2>1, <2>2 DEF Init, TypeOK
<1>2. HandleInv
  BY BoundsAssumption
     DEF Init, HandleInv, Numbered, Targeted, Granted, NoLockout, Threads, None
<1>3. SerialInv
  BY DEF Init, SerialInv, CallInv, ThreadInv, NoRunawayThread, OneBusy, Busy, PollInv, JoinInv,
         NoSubscriptionForgotten, Alive
<1> QED
  BY <1>1, <1>2, <1>3

\* The variables of the session, of its threads and of the SHC keep their
\* types, however many application threads start and stop the polling.
THEOREM Typing == Spec => []TypeOK
<1>1. Init => TypeOK /\ HandleInv
  BY Initial
<1>2. TypeOK /\ HandleInv /\ [Next]_vars => TypeOK' /\ HandleInv'
  BY TypeStep, HandleStep
<1> QED
  BY <1>1, <1>2, PTL DEF Spec

\* A dead thread never blocks start_polling(): the finally block and the start
\* keep the handle off ended threads, even when calls overlap.
THEOREM DeadThreadsHoldNoHandle == Spec => []NoLockout
<1>1. Init => TypeOK /\ HandleInv
  BY Initial
<1>2. TypeOK /\ HandleInv /\ [Next]_vars => TypeOK' /\ HandleInv'
  BY TypeStep, HandleStep
<1>3. HandleInv => NoLockout
  BY DEF HandleInv
<1> QED
  BY <1>1, <1>2, <1>3, PTL DEF Spec

\* The inductive invariant of a session whose calls do not overlap.
THEOREM Serialised == Spec /\ []SerialCalls => [](TypeOK /\ HandleInv /\ SerialInv)
<1> DEFINE Inv == TypeOK /\ HandleInv /\ SerialInv
<1>1. Init => Inv
  BY Initial
<1>2. Inv /\ SerialCalls /\ SerialCalls' /\ [Next]_vars => Inv'
  <2> SUFFICES ASSUME TypeOK, HandleInv, SerialInv, SerialCalls, SerialCalls', [Next]_vars
               PROVE  Inv'
    OBVIOUS
  <2>1. TypeOK' /\ HandleInv'
    BY TypeStep, HandleStep
  <2>2. CallInv' /\ ThreadInv' /\ PollInv'
    BY CallStep, ThreadInvStep, PollStep
  <2>3. JoinInv' /\ NoSubscriptionForgotten'
    BY JoinStep, SubsStep
  <2> QED
    BY <2>1, <2>2, <2>3 DEF SerialInv
<1> HIDE DEF Inv
<1>3. Spec /\ []SerialCalls => []Inv
  BY <1>1, <1>2, PTL DEF Spec
<1> QED
  BY <1>3, PTL DEF Inv

\* A thread that has lost its handle is bound to end, when calls do not overlap.
THEOREM LostThreadsEnd == Spec /\ []SerialCalls => []NoRunawayThread
<1>1. SerialInv => NoRunawayThread
  BY DEF SerialInv, ThreadInv
<1> QED
  BY <1>1, Serialised, PTL

\* At most one thread talks to the SHC, even after a join that timed out and a
\* second start_polling(), when calls do not overlap.
THEOREM OneThreadPolls == Spec /\ []SerialCalls => []OnePoller
<1>1. SerialInv => OnePoller
  <2> DEFINE Pollers == {t \in Threads :
                           tpc[t] \in {"subscribe", "subscribed", "poll", "unsubscribe"}}
  <2> SUFFICES ASSUME SerialInv PROVE Cardinality(Pollers) <= 1
    BY DEF OnePoller
  <2>1. \A t, u \in Pollers : t = u
    BY DEF SerialInv, ThreadInv, OneBusy, Busy
  <2> HIDE DEF Pollers
  <2>2. CASE Pollers = {}
    BY <2>2, FS_EmptySet
  <2>3. ASSUME NEW t, Pollers = {t} PROVE Cardinality(Pollers) <= 1
    <3>1. Cardinality({t}) = 1
      BY FS_Singleton
    <3> QED
      BY <2>3, <3>1
  <2> QED
    BY <2>1, <2>2, <2>3
<1> QED
  BY <1>1, Serialised, PTL

\* No subscription that the SHC still holds is forgotten by a session whose
\* joins all saw their thread end, when calls do not overlap.
THEOREM SubscriptionsAreKept == Spec /\ []SerialCalls => []NoSubscriptionForgotten
<1>1. SerialInv => NoSubscriptionForgotten
  BY DEF SerialInv
<1> QED
  BY <1>1, Serialised, PTL

\* With a single application thread calls cannot overlap, so all of it holds.
COROLLARY OneApplicationThread ==
  ASSUME \A c, d \in Callers : c = d
  PROVE  Spec => [](NoRunawayThread /\ OnePoller /\ NoSubscriptionForgotten)
<1>1. SerialCalls
  BY DEF SerialCalls
<1> QED
  BY <1>1, LostThreadsEnd, OneThreadPolls, SubscriptionsAreKept, PTL

\* A thread that is started after a stop has been asked for, by a caller or by a
\* RuntimeError, never polls: nothing takes the stop flag back.
THEOREM StopsAreForGood == Spec => [][StopIsForGood]_vars
<1>1. TypeOK /\ [Next]_vars => [StopIsForGood]_vars
  BY StopStepForGood
<1> QED
  BY <1>1, Typing, PTL DEF Spec
=============================================================================
