------------------------ MODULE AsyncLifecycleProofs ------------------------
(* Proofs about AsyncLifecycle for every set of callers and every value of   *)
(* the bounds.                                                               *)
EXTENDS AsyncLifecycle, TLAPS, FiniteSetTheorems

\* start_polling() awaits its subscribe between the look at the handle and the
\* task it creates, so what follows them needs an application that begins a call
\* only when no other one is under way.
SerialCalls == \A c, d \in Callers : cpc[c] # "idle" /\ cpc[d] # "idle" => c = d

\* Tasks are created in the order of their numbers, and who is past a reply
\* holds an id.
Holding ==
    /\ \A t \in Tasks : tpc[t] = "unborn" <=> t > created
    /\ \A t \in cancelled \cup {handle} : t <= created
    /\ \A t \in Tasks : tpc[t] = "granted" => held[t] \in Ids
    /\ \A c \in Callers :
          /\ cpc[c] = "join" => target[c] \in Tasks
          /\ cpc[c] \in {"granted", "unsubscribe"} => cid[c] \in Ids

\* The handle names the only task there is.
HandleInv == \A t \in Alive : handle = t

\* What the position of a caller says about the handle and the poll id.
CallInv ==
    \A c \in Callers :
        /\ cpc[c] \in {"subscribe", "granted", "unsubscribe", "close"} => handle = None
        /\ cpc[c] \in {"subscribe", "granted"} => ~stopFlag
        /\ cpc[c] = "granted" => open
        /\ cpc[c] = "join" => handle \in {None, target[c]}
        /\ cpc[c] = "unsubscribe" => cid[c] = pollId
        /\ cpc[c] = "close" => pollId = None

\* Between two calls a task that is to be found has not been told to stop.
Quiet == \A c \in Callers : cpc[c] = "idle"
FlagInv == (Quiet /\ handle # None) => ~stopFlag

\* Nobody but the task and a start_polling() gives the session a poll id.
PollInv ==
    \A t \in Tasks :
        /\ tpc[t] \in {"subscribe", "granted"} => pollId = None
        /\ tpc[t] = "poll" => pollId = held[t]

\* The SHC numbers the subscriptions in the order it hands them out.
IssuedInv ==
    /\ \A id \in subs : id <= issued
    /\ pollId <= issued
    /\ \A t \in Tasks : held[t] <= issued
    /\ \A c \in Callers : cid[c] <= issued

\* As long as nobody else cancels a task, only a stop_polling() that waits for it
\* has, and a session without a handle has no subscription of the SHC's.
OwnInv ==
    strays = {} =>
        /\ \A t \in Alive : t \in cancelled => \E c \in Callers : cpc[c] = "join"
        /\ (Quiet \/ \E c \in Callers : cpc[c] \in {"subscribe", "granted"})
              => handle # None \/ pollId \notin subs

SerialInv ==
    /\ HandleInv
    /\ CallInv
    /\ FlagInv
    /\ PollInv
    /\ OwnInv
    /\ ClosedMeansQuiet
    /\ NoSubscriptionForgotten

-----------------------------------------------------------------------------
LEMMA FailsStep ==
  ASSUME TypeOK, Fails
  PROVE  faults' \in 0 .. MaxFaults
BY BoundsAssumption DEF TypeOK, Fails

LEMMA TypeStep ==
  ASSUME TypeOK, Holding, [Next]_vars
  PROVE  TypeOK'
<1>1. ASSUME NEW c \in Callers, StartCall(c) PROVE TypeOK'
  BY <1>1, BoundsAssumption DEF StartCall, None, Call, shc, task, cancel, TypeOK, Tasks, Ids
<1>2. ASSUME NEW c \in Callers, StartGranted(c) PROVE TypeOK'
  BY <1>2, BoundsAssumption DEF StartGranted, Call, Grant, cancel, TypeOK, Tasks, Ids, None
<1>3. ASSUME NEW c \in Callers, StartFails(c) PROVE TypeOK'
  BY <1>3, BoundsAssumption, FailsStep DEF StartFails, Call, task, cancel, TypeOK, Tasks, Ids,
      None, Holding
<1>4. ASSUME NEW c \in Callers, StartRetried(c) PROVE TypeOK'
  <2>1. faults' \in 0 .. MaxFaults
    BY <1>4, BoundsAssumption DEF StartRetried, TypeOK
  <2>2. lost' \subseteq Ids
    BY <1>4 DEF StartRetried, Holding, TypeOK
  <2> QED
    BY <1>4, <2>1, <2>2 DEF StartRetried, Call, task, cancel, TypeOK
<1>5. ASSUME NEW c \in Callers, StartDone(c) PROVE TypeOK'
  BY <1>5, BoundsAssumption DEF StartDone, Goto, Call, shc, cancel, TypeOK, Tasks, Ids, None,
      Holding
<1>6. ASSUME NEW c \in Callers, StopCall(c) PROVE TypeOK'
  BY <1>6, BoundsAssumption DEF StopCall, None, Call, shc, task, TypeOK, Tasks, Ids
<1>7. ASSUME NEW c \in Callers, StopJoined(c) PROVE TypeOK'
  BY <1>7, BoundsAssumption DEF StopJoined, None, Call, shc, task, cancel, TypeOK, Tasks, Ids,
      Holding
<1>8. ASSUME NEW c \in Callers, StopUnsubscribe(c) PROVE TypeOK'
  BY <1>8, BoundsAssumption, FailsStep DEF StopUnsubscribe, None, Call, task, cancel, TypeOK,
      Tasks, Ids, Holding
<1>9. ASSUME NEW c \in Callers, StopClose(c) PROVE TypeOK'
  BY <1>9, BoundsAssumption DEF StopClose, Call, shc, task, cancel, TypeOK, Tasks, Ids, None
<1>10. ASSUME NEW t \in Tasks, Begin(t) PROVE TypeOK'
  BY <1>10, BoundsAssumption DEF Begin, Iterate, Resumes, shc, cancel, caller, None, Goto,
      TypeOK, Tasks, Ids
<1>11. ASSUME NEW t \in Tasks, Granted(t) PROVE TypeOK'
  BY <1>11, BoundsAssumption DEF Granted, Goto, Grant, Resumes, cancel, TypeOK, Tasks, Ids, None
<1>12. ASSUME NEW t \in Tasks, Subscribed(t) PROVE TypeOK'
  BY <1>12, BoundsAssumption DEF Subscribed, Goto, Resumes, shc, cancel, caller, TypeOK, Tasks,
      Ids, None, Holding
<1>13. ASSUME NEW t \in Tasks, PollOk(t) PROVE TypeOK'
  BY <1>13, BoundsAssumption DEF PollOk, Goto, Iterate, Resumes, shc, cancel, caller, None,
      TypeOK, Tasks, Ids
<1>14. ASSUME NEW t \in Tasks, Worked(t) PROVE TypeOK'
  BY <1>14, BoundsAssumption DEF Worked, Iterate, Resumes, shc, cancel, caller, None, Goto,
      TypeOK, Tasks, Ids
<1>15. ASSUME NEW t \in Tasks, PollStale(t) PROVE TypeOK'
  BY <1>15, BoundsAssumption DEF PollStale, None, Goto, Resumes, shc, cancel, caller, TypeOK,
      Tasks, Ids
<1>16. ASSUME NEW t \in Tasks, TaskFails(t) PROVE TypeOK'
  BY <1>16, BoundsAssumption, FailsStep DEF TaskFails, Goto, Resumes, cancel, caller, TypeOK,
      Tasks, Ids, None, Holding
<1>17. ASSUME NEW t \in Tasks, Wake(t) PROVE TypeOK'
  BY <1>17, BoundsAssumption DEF Wake, Iterate, Resumes, shc, cancel, caller, None, Goto,
      TypeOK, Tasks, Ids
<1>18. ASSUME NEW t \in Tasks, Cancelled(t) PROVE TypeOK'
  BY <1>18, BoundsAssumption DEF Cancelled, None, Goto, cancel, caller, Alive, Tasks, TypeOK,
      Ids, Holding
<1>19. ASSUME NEW t \in Tasks, Retried(t) PROVE TypeOK'
  <2>1. faults' \in 0 .. MaxFaults
    BY <1>19, BoundsAssumption DEF Retried, TypeOK
  <2>2. lost' \subseteq Ids
    BY <1>19 DEF Retried, Holding, TypeOK, Resumes
  <2> QED
    BY <1>19, <2>1, <2>2 DEF Retried, Resumes, Goto, cancel, caller, TypeOK
<1>20. ASSUME NEW t \in Tasks, CancelledByOthers(t) PROVE TypeOK'
  BY <1>20, BoundsAssumption DEF CancelledByOthers, shc, task, caller, Alive, Tasks, TypeOK,
      Ids, None
<1>21. ASSUME NEW id \in subs, Rotate(id) PROVE TypeOK'
  BY <1>21, BoundsAssumption DEF Rotate, task, cancel, caller, TypeOK, Tasks, Ids, None
<1>22. CASE UNCHANGED vars
  BY <1>22, BoundsAssumption DEF vars, TypeOK, Tasks, Ids, None
<1> QED
  BY <1>1, <1>2, <1>3, <1>4, <1>5, <1>6, <1>7, <1>8, <1>9, <1>10, <1>11, <1>12, <1>13, <1>14,
      <1>15, <1>16, <1>17, <1>18, <1>19, <1>20, <1>21, <1>22 DEF Next, TaskStep, StopStep

LEMMA HoldingStep ==
  ASSUME TypeOK, Holding, [Next]_vars
  PROVE  Holding'
<1>1. ASSUME NEW c \in Callers, StartCall(c) PROVE Holding'
  BY <1>1, BoundsAssumption DEF StartCall, None, Call, shc, task, cancel, Holding, TypeOK,
      Tasks, Ids
<1>2. ASSUME NEW c \in Callers, StartGranted(c) PROVE Holding'
  BY <1>2, BoundsAssumption DEF StartGranted, Call, Grant, cancel, Holding, TypeOK, Tasks, Ids,
      None
<1>3. ASSUME NEW c \in Callers, StartFails(c) PROVE Holding'
  BY <1>3, BoundsAssumption DEF StartFails, Call, Fails, task, cancel, Holding, TypeOK, Tasks,
      Ids, None
<1>4. ASSUME NEW c \in Callers, StartRetried(c) PROVE Holding'
  BY <1>4, BoundsAssumption DEF StartRetried, Call, task, cancel, Holding, TypeOK, Tasks, Ids,
      None
<1>5. ASSUME NEW c \in Callers, StartDone(c) PROVE Holding'
  BY <1>5, BoundsAssumption DEF StartDone, Goto, Call, shc, cancel, Holding, TypeOK, Tasks, Ids,
      None
<1>6. ASSUME NEW c \in Callers, StopCall(c) PROVE Holding'
  BY <1>6, BoundsAssumption DEF StopCall, None, Call, shc, task, Holding, TypeOK, Tasks, Ids
<1>7. ASSUME NEW c \in Callers, StopJoined(c) PROVE Holding'
  BY <1>7, BoundsAssumption DEF StopJoined, None, Call, shc, task, cancel, Holding, TypeOK,
      Tasks, Ids
<1>8. ASSUME NEW c \in Callers, StopUnsubscribe(c) PROVE Holding'
  BY <1>8, BoundsAssumption DEF StopUnsubscribe, None, Call, Fails, task, cancel, Holding,
      TypeOK, Tasks, Ids
<1>9. ASSUME NEW c \in Callers, StopClose(c) PROVE Holding'
  BY <1>9, BoundsAssumption DEF StopClose, Call, shc, task, cancel, Holding, TypeOK, Tasks, Ids,
      None
<1>10. ASSUME NEW t \in Tasks, Begin(t) PROVE Holding'
  BY <1>10, BoundsAssumption DEF Begin, Iterate, Resumes, shc, cancel, caller, None, Goto,
      Holding, TypeOK, Tasks, Ids
<1>11. ASSUME NEW t \in Tasks, Granted(t) PROVE Holding'
  BY <1>11, BoundsAssumption DEF Granted, Goto, Grant, Resumes, cancel, Holding, TypeOK, Tasks,
      Ids, None
<1>12. ASSUME NEW t \in Tasks, Subscribed(t) PROVE Holding'
  BY <1>12, BoundsAssumption DEF Subscribed, Goto, Resumes, shc, cancel, caller, Holding,
      TypeOK, Tasks, Ids, None
<1>13. ASSUME NEW t \in Tasks, PollOk(t) PROVE Holding'
  BY <1>13, BoundsAssumption DEF PollOk, Goto, Iterate, Resumes, shc, cancel, caller, None,
      Holding, TypeOK, Tasks, Ids
<1>14. ASSUME NEW t \in Tasks, Worked(t) PROVE Holding'
  BY <1>14, BoundsAssumption DEF Worked, Iterate, Resumes, shc, cancel, caller, None, Goto,
      Holding, TypeOK, Tasks, Ids
<1>15. ASSUME NEW t \in Tasks, PollStale(t) PROVE Holding'
  BY <1>15, BoundsAssumption DEF PollStale, None, Goto, Resumes, shc, cancel, caller, Holding,
      TypeOK, Tasks, Ids
<1>16. ASSUME NEW t \in Tasks, TaskFails(t) PROVE Holding'
  BY <1>16, BoundsAssumption DEF TaskFails, Goto, Fails, Resumes, cancel, caller, Holding,
      TypeOK, Tasks, Ids, None
<1>17. ASSUME NEW t \in Tasks, Wake(t) PROVE Holding'
  BY <1>17, BoundsAssumption DEF Wake, Iterate, Resumes, shc, cancel, caller, None, Goto,
      Holding, TypeOK, Tasks, Ids
<1>18. ASSUME NEW t \in Tasks, Cancelled(t) PROVE Holding'
  BY <1>18, BoundsAssumption DEF Cancelled, None, Goto, cancel, caller, Alive, Tasks, Holding,
      TypeOK, Ids
<1>19. ASSUME NEW t \in Tasks, Retried(t) PROVE Holding'
  BY <1>19, BoundsAssumption DEF Retried, Goto, Resumes, cancel, caller, Holding, TypeOK, Tasks,
      Ids, None
<1>20. ASSUME NEW t \in Tasks, CancelledByOthers(t) PROVE Holding'
  BY <1>20, BoundsAssumption DEF CancelledByOthers, shc, task, caller, Alive, Tasks, Holding,
      TypeOK, Ids, None
<1>21. ASSUME NEW id \in subs, Rotate(id) PROVE Holding'
  BY <1>21, BoundsAssumption DEF Rotate, task, cancel, caller, Holding, TypeOK, Tasks, Ids, None
<1>22. CASE UNCHANGED vars
  BY <1>22, BoundsAssumption DEF vars, Holding, TypeOK, Tasks, Ids, None
<1> QED
  BY <1>1, <1>2, <1>3, <1>4, <1>5, <1>6, <1>7, <1>8, <1>9, <1>10, <1>11, <1>12, <1>13, <1>14,
      <1>15, <1>16, <1>17, <1>18, <1>19, <1>20, <1>21, <1>22 DEF Next, TaskStep, StopStep

LEMMA IssuedStep ==
  ASSUME TypeOK, Holding, IssuedInv, [Next]_vars
  PROVE  IssuedInv'
<1>1. ASSUME NEW c \in Callers, StartCall(c) PROVE IssuedInv'
  BY <1>1, BoundsAssumption DEF StartCall, None, Call, shc, task, cancel, IssuedInv, Holding,
      TypeOK, Tasks, Ids
<1>2. ASSUME NEW c \in Callers, StartGranted(c) PROVE IssuedInv'
  <2>1. issued' = issued + 1 /\ issued \in Nat
    BY <1>2, BoundsAssumption DEF StartGranted, Grant, TypeOK
  <2>2. \A n \in Ids \cup {None} : n <= issued => n <= issued'
    BY <2>1, BoundsAssumption DEF Ids, None
  <2>3. (\A n \in subs' : n <= issued') /\ pollId' <= issued'
    BY <1>2, <2>1, <2>2, BoundsAssumption DEF StartGranted, Grant, IssuedInv, TypeOK, Ids
  <2>4. cid' = [cid EXCEPT ![c] = issued + 1] /\ held' = held
    BY <1>2 DEF StartGranted, Grant
  <2>5. (\A t \in Tasks : held[t] <= issued') /\ (\A d \in Callers : cid[d] <= issued')
    BY <2>2 DEF IssuedInv, TypeOK
  <2>6. (\A t \in Tasks : held'[t] <= issued') /\ (\A d \in Callers : cid'[d] <= issued')
    BY <2>1, <2>4, <2>5 DEF TypeOK
  <2> QED
    BY <2>3, <2>6 DEF IssuedInv
<1>3. ASSUME NEW c \in Callers, StartFails(c) PROVE IssuedInv'
  BY <1>3, BoundsAssumption DEF StartFails, Call, Fails, task, cancel, IssuedInv, Holding,
      TypeOK, Tasks, Ids, None
<1>4. ASSUME NEW c \in Callers, StartRetried(c) PROVE IssuedInv'
  BY <1>4, BoundsAssumption DEF StartRetried, Call, task, cancel, IssuedInv, Holding, TypeOK,
      Tasks, Ids, None
<1>5. ASSUME NEW c \in Callers, StartDone(c) PROVE IssuedInv'
  BY <1>5, BoundsAssumption DEF StartDone, Goto, Call, shc, cancel, IssuedInv, Holding, TypeOK,
      Tasks, Ids, None
<1>6. ASSUME NEW c \in Callers, StopCall(c) PROVE IssuedInv'
  BY <1>6, BoundsAssumption DEF StopCall, None, Call, shc, task, IssuedInv, Holding, TypeOK,
      Tasks, Ids
<1>7. ASSUME NEW c \in Callers, StopJoined(c) PROVE IssuedInv'
  BY <1>7, BoundsAssumption DEF StopJoined, None, Call, shc, task, cancel, IssuedInv, Holding,
      TypeOK, Tasks, Ids
<1>8. ASSUME NEW c \in Callers, StopUnsubscribe(c) PROVE IssuedInv'
  <2>1. issued' = issued /\ issued \in Nat /\ pollId' = None /\ subs' \subseteq subs
    BY <1>8, BoundsAssumption DEF StopUnsubscribe, TypeOK
  <2>2. held' = held /\ cid' = cid
    BY <1>8 DEF StopUnsubscribe, task
  <2> QED
    BY <2>1, <2>2 DEF IssuedInv, None
<1>9. ASSUME NEW c \in Callers, StopClose(c) PROVE IssuedInv'
  BY <1>9, BoundsAssumption DEF StopClose, Call, shc, task, cancel, IssuedInv, Holding, TypeOK,
      Tasks, Ids, None
<1>10. ASSUME NEW t \in Tasks, Begin(t) PROVE IssuedInv'
  BY <1>10, BoundsAssumption DEF Begin, Iterate, Resumes, shc, cancel, caller, None, Goto,
      IssuedInv, Holding, TypeOK, Tasks, Ids
<1>11. ASSUME NEW t \in Tasks, Granted(t) PROVE IssuedInv'
  <2>1. issued' = issued + 1 /\ issued \in Nat
    BY <1>11, BoundsAssumption DEF Granted, Grant, TypeOK
  <2>2. \A n \in Ids \cup {None} : n <= issued => n <= issued'
    BY <2>1, BoundsAssumption DEF Ids, None
  <2>3. (\A n \in subs' : n <= issued') /\ pollId' <= issued'
    BY <1>11, <2>1, <2>2, BoundsAssumption DEF Granted, Grant, IssuedInv, TypeOK, Ids
  <2>4. held' = [held EXCEPT ![t] = issued + 1] /\ cid' = cid
    BY <1>11 DEF Granted, Grant
  <2>5. (\A u \in Tasks : held[u] <= issued') /\ (\A c \in Callers : cid[c] <= issued')
    BY <2>2 DEF IssuedInv, TypeOK
  <2>6. (\A u \in Tasks : held'[u] <= issued') /\ (\A c \in Callers : cid'[c] <= issued')
    BY <2>1, <2>4, <2>5 DEF TypeOK
  <2> QED
    BY <2>3, <2>6 DEF IssuedInv
<1>12. ASSUME NEW t \in Tasks, Subscribed(t) PROVE IssuedInv'
  BY <1>12, BoundsAssumption DEF Subscribed, Goto, Resumes, shc, cancel, caller, IssuedInv,
      Holding, TypeOK, Tasks, Ids, None
<1>13. ASSUME NEW t \in Tasks, PollOk(t) PROVE IssuedInv'
  BY <1>13, BoundsAssumption DEF PollOk, Goto, Iterate, Resumes, shc, cancel, caller, None,
      IssuedInv, Holding, TypeOK, Tasks, Ids
<1>14. ASSUME NEW t \in Tasks, Worked(t) PROVE IssuedInv'
  BY <1>14, BoundsAssumption DEF Worked, Iterate, Resumes, shc, cancel, caller, None, Goto,
      IssuedInv, Holding, TypeOK, Tasks, Ids
<1>15. ASSUME NEW t \in Tasks, PollStale(t) PROVE IssuedInv'
  BY <1>15, BoundsAssumption DEF PollStale, None, Goto, Resumes, shc, cancel, caller, IssuedInv,
      Holding, TypeOK, Tasks, Ids
<1>16. ASSUME NEW t \in Tasks, TaskFails(t) PROVE IssuedInv'
  BY <1>16, BoundsAssumption DEF TaskFails, Goto, Fails, Resumes, cancel, caller, IssuedInv,
      Holding, TypeOK, Tasks, Ids, None
<1>17. ASSUME NEW t \in Tasks, Wake(t) PROVE IssuedInv'
  BY <1>17, BoundsAssumption DEF Wake, Iterate, Resumes, shc, cancel, caller, None, Goto,
      IssuedInv, Holding, TypeOK, Tasks, Ids
<1>18. ASSUME NEW t \in Tasks, Cancelled(t) PROVE IssuedInv'
  BY <1>18, BoundsAssumption DEF Cancelled, None, Goto, cancel, caller, Alive, Tasks, IssuedInv,
      Holding, TypeOK, Ids
<1>19. ASSUME NEW t \in Tasks, Retried(t) PROVE IssuedInv'
  BY <1>19, BoundsAssumption DEF Retried, Goto, Resumes, cancel, caller, IssuedInv, Holding,
      TypeOK, Tasks, Ids, None
<1>20. ASSUME NEW t \in Tasks, CancelledByOthers(t) PROVE IssuedInv'
  BY <1>20, BoundsAssumption DEF CancelledByOthers, shc, task, caller, Alive, Tasks, IssuedInv,
      Holding, TypeOK, Ids, None
<1>21. ASSUME NEW id \in subs, Rotate(id) PROVE IssuedInv'
  BY <1>21, BoundsAssumption DEF Rotate, task, cancel, caller, IssuedInv, Holding, TypeOK,
      Tasks, Ids, None
<1>22. CASE UNCHANGED vars
  BY <1>22, BoundsAssumption DEF vars, IssuedInv, Holding, TypeOK, Tasks, Ids, None
<1> QED
  BY <1>1, <1>2, <1>3, <1>4, <1>5, <1>6, <1>7, <1>8, <1>9, <1>10, <1>11, <1>12, <1>13, <1>14,
      <1>15, <1>16, <1>17, <1>18, <1>19, <1>20, <1>21, <1>22 DEF Next, TaskStep, StopStep

LEMMA HandleStep ==
  ASSUME TypeOK, Holding, IssuedInv, SerialInv, SerialCalls, SerialCalls', [Next]_vars
  PROVE  HandleInv'
<1>1. ASSUME NEW c \in Callers, StartCall(c) PROVE HandleInv'
  BY <1>1, BoundsAssumption DEF StartCall, None, Call, shc, task, cancel, SerialCalls,
      SerialInv, CallInv, HandleInv, Holding, TypeOK, Alive, Tasks, Ids
<1>2. ASSUME NEW c \in Callers, StartGranted(c) PROVE HandleInv'
  BY <1>2, BoundsAssumption DEF StartGranted, Call, Grant, cancel, SerialCalls, SerialInv,
      CallInv, HandleInv, Holding, TypeOK, Alive, Tasks, Ids, None
<1>3. ASSUME NEW c \in Callers, StartFails(c) PROVE HandleInv'
  BY <1>3, BoundsAssumption DEF StartFails, Call, Fails, task, cancel, SerialCalls, SerialInv,
      CallInv, HandleInv, Holding, TypeOK, Alive, Tasks, Ids, None
<1>4. ASSUME NEW c \in Callers, StartRetried(c) PROVE HandleInv'
  BY <1>4, BoundsAssumption DEF StartRetried, Call, task, cancel, SerialCalls, SerialInv,
      CallInv, HandleInv, Holding, TypeOK, Alive, Tasks, Ids, None
<1>5. ASSUME NEW c \in Callers, StartDone(c) PROVE HandleInv'
  BY <1>5, BoundsAssumption DEF StartDone, Goto, Call, shc, cancel, SerialCalls, SerialInv,
      CallInv, HandleInv, Holding, TypeOK, Alive, Tasks, Ids, None
<1>6. ASSUME NEW c \in Callers, StopCall(c) PROVE HandleInv'
  BY <1>6, BoundsAssumption DEF StopCall, None, Call, shc, task, SerialCalls, SerialInv,
      CallInv, HandleInv, Holding, TypeOK, Alive, Tasks, Ids
<1>7. ASSUME NEW c \in Callers, StopJoined(c) PROVE HandleInv'
  BY <1>7, BoundsAssumption DEF StopJoined, None, Call, shc, task, cancel, SerialCalls,
      SerialInv, CallInv, HandleInv, Holding, TypeOK, Alive, Tasks, Ids
<1>8. ASSUME NEW c \in Callers, StopUnsubscribe(c) PROVE HandleInv'
  BY <1>8, BoundsAssumption DEF StopUnsubscribe, None, Call, Fails, task, cancel, SerialCalls,
      SerialInv, CallInv, HandleInv, Holding, TypeOK, Alive, Tasks, Ids
<1>9. ASSUME NEW c \in Callers, StopClose(c) PROVE HandleInv'
  BY <1>9, BoundsAssumption DEF StopClose, Call, shc, task, cancel, SerialCalls, SerialInv,
      CallInv, HandleInv, Holding, TypeOK, Alive, Tasks, Ids, None
<1>10. ASSUME NEW t \in Tasks, Begin(t) PROVE HandleInv'
  BY <1>10, BoundsAssumption DEF Begin, Iterate, Resumes, shc, cancel, caller, None, Goto,
      SerialCalls, SerialInv, CallInv, HandleInv, Holding, TypeOK, Alive, Tasks, Ids
<1>11. ASSUME NEW t \in Tasks, Granted(t) PROVE HandleInv'
  BY <1>11, BoundsAssumption DEF Granted, Goto, Grant, Resumes, cancel, SerialCalls, SerialInv,
      CallInv, HandleInv, Holding, TypeOK, Alive, Tasks, Ids, None
<1>12. ASSUME NEW t \in Tasks, Subscribed(t) PROVE HandleInv'
  BY <1>12, BoundsAssumption DEF Subscribed, Goto, Resumes, shc, cancel, caller, SerialCalls,
      SerialInv, CallInv, HandleInv, Holding, TypeOK, Alive, Tasks, Ids, None
<1>13. ASSUME NEW t \in Tasks, PollOk(t) PROVE HandleInv'
  BY <1>13, BoundsAssumption DEF PollOk, Goto, Iterate, Resumes, shc, cancel, caller, None,
      SerialCalls, SerialInv, CallInv, HandleInv, Holding, TypeOK, Alive, Tasks, Ids
<1>14. ASSUME NEW t \in Tasks, Worked(t) PROVE HandleInv'
  BY <1>14, BoundsAssumption DEF Worked, Iterate, Resumes, shc, cancel, caller, None, Goto,
      SerialCalls, SerialInv, CallInv, HandleInv, Holding, TypeOK, Alive, Tasks, Ids
<1>15. ASSUME NEW t \in Tasks, PollStale(t) PROVE HandleInv'
  BY <1>15, BoundsAssumption DEF PollStale, None, Goto, Resumes, shc, cancel, caller,
      SerialCalls, SerialInv, CallInv, HandleInv, Holding, TypeOK, Alive, Tasks, Ids
<1>16. ASSUME NEW t \in Tasks, TaskFails(t) PROVE HandleInv'
  BY <1>16, BoundsAssumption DEF TaskFails, Goto, Fails, Resumes, cancel, caller, SerialCalls,
      SerialInv, CallInv, HandleInv, Holding, TypeOK, Alive, Tasks, Ids, None
<1>17. ASSUME NEW t \in Tasks, Wake(t) PROVE HandleInv'
  BY <1>17, BoundsAssumption DEF Wake, Iterate, Resumes, shc, cancel, caller, None, Goto,
      SerialCalls, SerialInv, CallInv, HandleInv, Holding, TypeOK, Alive, Tasks, Ids
<1>18. ASSUME NEW t \in Tasks, Cancelled(t) PROVE HandleInv'
  BY <1>18, BoundsAssumption DEF Cancelled, None, Goto, cancel, caller, Alive, Tasks,
      SerialCalls, SerialInv, CallInv, HandleInv, Holding, TypeOK, Ids
<1>19. ASSUME NEW t \in Tasks, Retried(t) PROVE HandleInv'
  BY <1>19, BoundsAssumption DEF Retried, Goto, Resumes, cancel, caller, SerialCalls, SerialInv,
      CallInv, HandleInv, Holding, TypeOK, Alive, Tasks, Ids, None
<1>20. ASSUME NEW t \in Tasks, CancelledByOthers(t) PROVE HandleInv'
  BY <1>20, BoundsAssumption DEF CancelledByOthers, shc, task, caller, Alive, Tasks,
      SerialCalls, SerialInv, CallInv, HandleInv, Holding, TypeOK, Ids, None
<1>21. ASSUME NEW id \in subs, Rotate(id) PROVE HandleInv'
  BY <1>21, BoundsAssumption DEF Rotate, task, cancel, caller, SerialCalls, SerialInv, CallInv,
      HandleInv, Holding, TypeOK, Alive, Tasks, Ids, None
<1>22. CASE UNCHANGED vars
  BY <1>22, BoundsAssumption DEF vars, SerialCalls, SerialInv, CallInv, HandleInv, Holding,
      TypeOK, Alive, Tasks, Ids, None
<1> QED
  BY <1>1, <1>2, <1>3, <1>4, <1>5, <1>6, <1>7, <1>8, <1>9, <1>10, <1>11, <1>12, <1>13, <1>14,
      <1>15, <1>16, <1>17, <1>18, <1>19, <1>20, <1>21, <1>22 DEF Next, TaskStep, StopStep

LEMMA CallStep ==
  ASSUME TypeOK, Holding, IssuedInv, SerialInv, SerialCalls, SerialCalls', [Next]_vars
  PROVE  CallInv'
<1>1. ASSUME NEW c \in Callers, StartCall(c) PROVE CallInv'
  BY <1>1 DEF StartCall, None, Call, shc, task, cancel, SerialCalls, SerialInv, CallInv,
      HandleInv, Holding, TypeOK, Alive, Tasks, Ids
<1>2. ASSUME NEW c \in Callers, StartGranted(c) PROVE CallInv'
  BY <1>2 DEF StartGranted, Call, Grant, cancel, SerialCalls, SerialInv, CallInv, HandleInv,
      Holding, TypeOK, Alive, Tasks, Ids, None
<1>3. ASSUME NEW c \in Callers, StartFails(c) PROVE CallInv'
  BY <1>3 DEF StartFails, Call, Fails, task, cancel, SerialCalls, SerialInv, CallInv, HandleInv,
      Holding, TypeOK, Alive, Tasks, Ids, None
<1>4. ASSUME NEW c \in Callers, StartRetried(c) PROVE CallInv'
  BY <1>4 DEF StartRetried, Call, task, cancel, SerialCalls, SerialInv, CallInv, HandleInv,
      Holding, TypeOK, Alive, Tasks, Ids, None
<1>5. ASSUME NEW c \in Callers, StartDone(c) PROVE CallInv'
  BY <1>5 DEF StartDone, Goto, Call, shc, cancel, SerialCalls, SerialInv, CallInv, HandleInv,
      Holding, TypeOK, Alive, Tasks, Ids, None
<1>6. ASSUME NEW c \in Callers, StopCall(c) PROVE CallInv'
  BY <1>6 DEF StopCall, None, Call, shc, task, SerialCalls, SerialInv, CallInv, HandleInv,
      Holding, TypeOK, Alive, Tasks, Ids
<1>7. ASSUME NEW c \in Callers, StopJoined(c) PROVE CallInv'
  BY <1>7 DEF StopJoined, None, Call, shc, task, cancel, SerialCalls, SerialInv, CallInv,
      HandleInv, Holding, TypeOK, Alive, Tasks, Ids
<1>8. ASSUME NEW c \in Callers, StopUnsubscribe(c) PROVE CallInv'
  BY <1>8 DEF StopUnsubscribe, None, Call, Fails, task, cancel, SerialCalls, SerialInv, CallInv,
      HandleInv, Holding, TypeOK, Alive, Tasks, Ids
<1>9. ASSUME NEW c \in Callers, StopClose(c) PROVE CallInv'
  BY <1>9 DEF StopClose, Call, shc, task, cancel, SerialCalls, SerialInv, CallInv, HandleInv,
      Holding, TypeOK, Alive, Tasks, Ids, None
<1>10. ASSUME NEW t \in Tasks, Begin(t) PROVE CallInv'
  BY <1>10 DEF Begin, Iterate, Resumes, shc, cancel, caller, None, Goto, SerialCalls, SerialInv,
      CallInv, HandleInv, Holding, TypeOK, Alive, Tasks, Ids
<1>11. ASSUME NEW t \in Tasks, Granted(t) PROVE CallInv'
  BY <1>11 DEF Granted, Goto, Grant, Resumes, cancel, SerialCalls, SerialInv, CallInv,
      HandleInv, Holding, TypeOK, Alive, Tasks, Ids, None
<1>12. ASSUME NEW t \in Tasks, Subscribed(t) PROVE CallInv'
  BY <1>12 DEF Subscribed, Goto, Resumes, shc, cancel, caller, SerialCalls, SerialInv, CallInv,
      HandleInv, Holding, TypeOK, Alive, Tasks, Ids, None
<1>13. ASSUME NEW t \in Tasks, PollOk(t) PROVE CallInv'
  BY <1>13 DEF PollOk, Goto, Iterate, Resumes, shc, cancel, caller, None, SerialCalls,
      SerialInv, CallInv, HandleInv, Holding, TypeOK, Alive, Tasks, Ids
<1>14. ASSUME NEW t \in Tasks, Worked(t) PROVE CallInv'
  BY <1>14 DEF Worked, Iterate, Resumes, shc, cancel, caller, None, Goto, SerialCalls,
      SerialInv, CallInv, HandleInv, Holding, TypeOK, Alive, Tasks, Ids
<1>15. ASSUME NEW t \in Tasks, PollStale(t) PROVE CallInv'
  BY <1>15 DEF PollStale, None, Goto, Resumes, shc, cancel, caller, SerialCalls, SerialInv,
      CallInv, HandleInv, Holding, TypeOK, Alive, Tasks, Ids
<1>16. ASSUME NEW t \in Tasks, TaskFails(t) PROVE CallInv'
  BY <1>16 DEF TaskFails, Goto, Fails, Resumes, cancel, caller, SerialCalls, SerialInv, CallInv,
      HandleInv, Holding, TypeOK, Alive, Tasks, Ids, None
<1>17. ASSUME NEW t \in Tasks, Wake(t) PROVE CallInv'
  BY <1>17 DEF Wake, Iterate, Resumes, shc, cancel, caller, None, Goto, SerialCalls, SerialInv,
      CallInv, HandleInv, Holding, TypeOK, Alive, Tasks, Ids
<1>18. ASSUME NEW t \in Tasks, Cancelled(t) PROVE CallInv'
  BY <1>18 DEF Cancelled, None, Goto, cancel, caller, Alive, Tasks, SerialCalls, SerialInv,
      CallInv, HandleInv, Holding, TypeOK, Ids
<1>19. ASSUME NEW t \in Tasks, Retried(t) PROVE CallInv'
  BY <1>19 DEF Retried, Goto, Resumes, cancel, caller, SerialCalls, SerialInv, CallInv,
      HandleInv, Holding, TypeOK, Alive, Tasks, Ids, None
<1>20. ASSUME NEW t \in Tasks, CancelledByOthers(t) PROVE CallInv'
  BY <1>20 DEF CancelledByOthers, shc, task, caller, Alive, Tasks, SerialCalls, SerialInv,
      CallInv, HandleInv, Holding, TypeOK, Ids, None
<1>21. ASSUME NEW id \in subs, Rotate(id) PROVE CallInv'
  BY <1>21 DEF Rotate, task, cancel, caller, SerialCalls, SerialInv, CallInv, HandleInv,
      Holding, TypeOK, Alive, Tasks, Ids, None
<1>22. CASE UNCHANGED vars
  BY <1>22 DEF vars, SerialCalls, SerialInv, CallInv, HandleInv, Holding, TypeOK, Alive, Tasks,
      Ids, None
<1> QED
  BY <1>1, <1>2, <1>3, <1>4, <1>5, <1>6, <1>7, <1>8, <1>9, <1>10, <1>11, <1>12, <1>13, <1>14,
      <1>15, <1>16, <1>17, <1>18, <1>19, <1>20, <1>21, <1>22 DEF Next, TaskStep, StopStep

LEMMA FlagStep ==
  ASSUME TypeOK, Holding, IssuedInv, SerialInv, SerialCalls, SerialCalls', [Next]_vars
  PROVE  FlagInv'
<1>1. ASSUME NEW c \in Callers, StartCall(c) PROVE FlagInv'
  BY <1>1 DEF StartCall, None, Call, shc, task, cancel, SerialCalls, SerialInv, FlagInv, Quiet,
      CallInv, HandleInv, TypeOK, Alive, Tasks, Ids
<1>2. ASSUME NEW c \in Callers, StartGranted(c) PROVE FlagInv'
  BY <1>2 DEF StartGranted, Call, Grant, cancel, SerialCalls, SerialInv, FlagInv, Quiet,
      CallInv, HandleInv, TypeOK, Alive, Tasks, Ids, None
<1>3. ASSUME NEW c \in Callers, StartFails(c) PROVE FlagInv'
  BY <1>3 DEF StartFails, Call, Fails, task, cancel, SerialCalls, SerialInv, FlagInv, Quiet,
      CallInv, HandleInv, TypeOK, Alive, Tasks, Ids, None
<1>4. ASSUME NEW c \in Callers, StartRetried(c) PROVE FlagInv'
  BY <1>4 DEF StartRetried, Call, task, cancel, SerialCalls, SerialInv, FlagInv, Quiet, CallInv,
      HandleInv, TypeOK, Alive, Tasks, Ids, None
<1>5. ASSUME NEW c \in Callers, StartDone(c) PROVE FlagInv'
  BY <1>5 DEF StartDone, Goto, Call, shc, cancel, SerialCalls, SerialInv, FlagInv, Quiet,
      CallInv, HandleInv, TypeOK, Alive, Tasks, Ids, None
<1>6. ASSUME NEW c \in Callers, StopCall(c) PROVE FlagInv'
  BY <1>6 DEF StopCall, None, Call, shc, task, SerialCalls, SerialInv, FlagInv, Quiet, CallInv,
      HandleInv, TypeOK, Alive, Tasks, Ids
<1>7. ASSUME NEW c \in Callers, StopJoined(c) PROVE FlagInv'
  BY <1>7 DEF StopJoined, None, Call, shc, task, cancel, SerialCalls, SerialInv, FlagInv, Quiet,
      CallInv, HandleInv, TypeOK, Alive, Tasks, Ids
<1>8. ASSUME NEW c \in Callers, StopUnsubscribe(c) PROVE FlagInv'
  BY <1>8 DEF StopUnsubscribe, None, Call, Fails, task, cancel, SerialCalls, SerialInv, FlagInv,
      Quiet, CallInv, HandleInv, TypeOK, Alive, Tasks, Ids
<1>9. ASSUME NEW c \in Callers, StopClose(c) PROVE FlagInv'
  BY <1>9 DEF StopClose, Call, shc, task, cancel, SerialCalls, SerialInv, FlagInv, Quiet,
      CallInv, HandleInv, TypeOK, Alive, Tasks, Ids, None
<1>10. ASSUME NEW t \in Tasks, Begin(t) PROVE FlagInv'
  BY <1>10 DEF Begin, Iterate, Resumes, shc, cancel, caller, None, Goto, SerialCalls, SerialInv,
      FlagInv, Quiet, CallInv, HandleInv, TypeOK, Alive, Tasks, Ids
<1>11. ASSUME NEW t \in Tasks, Granted(t) PROVE FlagInv'
  BY <1>11 DEF Granted, Goto, Grant, Resumes, cancel, SerialCalls, SerialInv, FlagInv, Quiet,
      CallInv, HandleInv, TypeOK, Alive, Tasks, Ids, None
<1>12. ASSUME NEW t \in Tasks, Subscribed(t) PROVE FlagInv'
  BY <1>12 DEF Subscribed, Goto, Resumes, shc, cancel, caller, SerialCalls, SerialInv, FlagInv,
      Quiet, CallInv, HandleInv, TypeOK, Alive, Tasks, Ids, None
<1>13. ASSUME NEW t \in Tasks, PollOk(t) PROVE FlagInv'
  BY <1>13 DEF PollOk, Goto, Iterate, Resumes, shc, cancel, caller, None, SerialCalls,
      SerialInv, FlagInv, Quiet, CallInv, HandleInv, TypeOK, Alive, Tasks, Ids
<1>14. ASSUME NEW t \in Tasks, Worked(t) PROVE FlagInv'
  BY <1>14 DEF Worked, Iterate, Resumes, shc, cancel, caller, None, Goto, SerialCalls,
      SerialInv, FlagInv, Quiet, CallInv, HandleInv, TypeOK, Alive, Tasks, Ids
<1>15. ASSUME NEW t \in Tasks, PollStale(t) PROVE FlagInv'
  BY <1>15 DEF PollStale, None, Goto, Resumes, shc, cancel, caller, SerialCalls, SerialInv,
      FlagInv, Quiet, CallInv, HandleInv, TypeOK, Alive, Tasks, Ids
<1>16. ASSUME NEW t \in Tasks, TaskFails(t) PROVE FlagInv'
  BY <1>16 DEF TaskFails, Goto, Fails, Resumes, cancel, caller, SerialCalls, SerialInv, FlagInv,
      Quiet, CallInv, HandleInv, TypeOK, Alive, Tasks, Ids, None
<1>17. ASSUME NEW t \in Tasks, Wake(t) PROVE FlagInv'
  BY <1>17 DEF Wake, Iterate, Resumes, shc, cancel, caller, None, Goto, SerialCalls, SerialInv,
      FlagInv, Quiet, CallInv, HandleInv, TypeOK, Alive, Tasks, Ids
<1>18. ASSUME NEW t \in Tasks, Cancelled(t) PROVE FlagInv'
  BY <1>18 DEF Cancelled, None, Goto, cancel, caller, Alive, Tasks, SerialCalls, SerialInv,
      FlagInv, Quiet, CallInv, HandleInv, TypeOK, Ids
<1>19. ASSUME NEW t \in Tasks, Retried(t) PROVE FlagInv'
  BY <1>19 DEF Retried, Goto, Resumes, cancel, caller, SerialCalls, SerialInv, FlagInv, Quiet,
      CallInv, HandleInv, TypeOK, Alive, Tasks, Ids, None
<1>20. ASSUME NEW t \in Tasks, CancelledByOthers(t) PROVE FlagInv'
  BY <1>20 DEF CancelledByOthers, shc, task, caller, Alive, Tasks, SerialCalls, SerialInv,
      FlagInv, Quiet, CallInv, HandleInv, TypeOK, Ids, None
<1>21. ASSUME NEW id \in subs, Rotate(id) PROVE FlagInv'
  BY <1>21 DEF Rotate, task, cancel, caller, SerialCalls, SerialInv, FlagInv, Quiet, CallInv,
      HandleInv, TypeOK, Alive, Tasks, Ids, None
<1>22. CASE UNCHANGED vars
  BY <1>22 DEF vars, SerialCalls, SerialInv, FlagInv, Quiet, CallInv, HandleInv, TypeOK, Alive,
      Tasks, Ids, None
<1> QED
  BY <1>1, <1>2, <1>3, <1>4, <1>5, <1>6, <1>7, <1>8, <1>9, <1>10, <1>11, <1>12, <1>13, <1>14,
      <1>15, <1>16, <1>17, <1>18, <1>19, <1>20, <1>21, <1>22 DEF Next, TaskStep, StopStep

LEMMA PollStep ==
  ASSUME TypeOK, Holding, IssuedInv, SerialInv, SerialCalls, SerialCalls', [Next]_vars
  PROVE  PollInv'
<1>1. ASSUME NEW c \in Callers, StartCall(c) PROVE PollInv'
  BY <1>1 DEF StartCall, None, Call, shc, task, cancel, SerialInv, PollInv, CallInv, HandleInv,
      TypeOK, Alive, Tasks, Ids
<1>2. ASSUME NEW c \in Callers, StartGranted(c) PROVE PollInv'
  BY <1>2 DEF StartGranted, Call, Grant, cancel, SerialInv, PollInv, CallInv, HandleInv, TypeOK,
      Alive, Tasks, Ids, None
<1>3. ASSUME NEW c \in Callers, StartFails(c) PROVE PollInv'
  BY <1>3 DEF StartFails, Call, Fails, task, cancel, SerialInv, PollInv, CallInv, HandleInv,
      TypeOK, Alive, Tasks, Ids, None
<1>4. ASSUME NEW c \in Callers, StartRetried(c) PROVE PollInv'
  BY <1>4 DEF StartRetried, Call, task, cancel, SerialInv, PollInv, CallInv, HandleInv, TypeOK,
      Alive, Tasks, Ids, None
<1>5. ASSUME NEW c \in Callers, StartDone(c) PROVE PollInv'
  BY <1>5 DEF StartDone, Goto, Call, shc, cancel, SerialInv, PollInv, CallInv, HandleInv,
      TypeOK, Alive, Tasks, Ids, None
<1>6. ASSUME NEW c \in Callers, StopCall(c) PROVE PollInv'
  BY <1>6 DEF StopCall, None, Call, shc, task, SerialInv, PollInv, CallInv, HandleInv, TypeOK,
      Alive, Tasks, Ids
<1>7. ASSUME NEW c \in Callers, StopJoined(c) PROVE PollInv'
  BY <1>7 DEF StopJoined, None, Call, shc, task, cancel, SerialInv, PollInv, CallInv, HandleInv,
      TypeOK, Alive, Tasks, Ids
<1>8. ASSUME NEW c \in Callers, StopUnsubscribe(c) PROVE PollInv'
  BY <1>8 DEF StopUnsubscribe, None, Call, Fails, task, cancel, SerialInv, PollInv, CallInv,
      HandleInv, TypeOK, Alive, Tasks, Ids
<1>9. ASSUME NEW c \in Callers, StopClose(c) PROVE PollInv'
  BY <1>9 DEF StopClose, Call, shc, task, cancel, SerialInv, PollInv, CallInv, HandleInv,
      TypeOK, Alive, Tasks, Ids, None
<1>10. ASSUME NEW t \in Tasks, Begin(t) PROVE PollInv'
  BY <1>10 DEF Begin, Iterate, Resumes, shc, cancel, caller, None, Goto, SerialInv, PollInv,
      CallInv, HandleInv, TypeOK, Alive, Tasks, Ids
<1>11. ASSUME NEW t \in Tasks, Granted(t) PROVE PollInv'
  BY <1>11 DEF Granted, Goto, Grant, Resumes, cancel, SerialInv, PollInv, CallInv, HandleInv,
      TypeOK, Alive, Tasks, Ids, None
<1>12. ASSUME NEW t \in Tasks, Subscribed(t) PROVE PollInv'
  BY <1>12 DEF Subscribed, Goto, Resumes, shc, cancel, caller, SerialInv, PollInv, CallInv,
      HandleInv, TypeOK, Alive, Tasks, Ids, None
<1>13. ASSUME NEW t \in Tasks, PollOk(t) PROVE PollInv'
  BY <1>13 DEF PollOk, Goto, Iterate, Resumes, shc, cancel, caller, None, SerialInv, PollInv,
      CallInv, HandleInv, TypeOK, Alive, Tasks, Ids
<1>14. ASSUME NEW t \in Tasks, Worked(t) PROVE PollInv'
  BY <1>14 DEF Worked, Iterate, Resumes, shc, cancel, caller, None, Goto, SerialInv, PollInv,
      CallInv, HandleInv, TypeOK, Alive, Tasks, Ids
<1>15. ASSUME NEW t \in Tasks, PollStale(t) PROVE PollInv'
  BY <1>15 DEF PollStale, None, Goto, Resumes, shc, cancel, caller, SerialInv, PollInv, CallInv,
      HandleInv, TypeOK, Alive, Tasks, Ids
<1>16. ASSUME NEW t \in Tasks, TaskFails(t) PROVE PollInv'
  BY <1>16 DEF TaskFails, Goto, Fails, Resumes, cancel, caller, SerialInv, PollInv, CallInv,
      HandleInv, TypeOK, Alive, Tasks, Ids, None
<1>17. ASSUME NEW t \in Tasks, Wake(t) PROVE PollInv'
  BY <1>17 DEF Wake, Iterate, Resumes, shc, cancel, caller, None, Goto, SerialInv, PollInv,
      CallInv, HandleInv, TypeOK, Alive, Tasks, Ids
<1>18. ASSUME NEW t \in Tasks, Cancelled(t) PROVE PollInv'
  BY <1>18 DEF Cancelled, None, Goto, cancel, caller, Alive, Tasks, SerialInv, PollInv, CallInv,
      HandleInv, TypeOK, Ids
<1>19. ASSUME NEW t \in Tasks, Retried(t) PROVE PollInv'
  BY <1>19 DEF Retried, Goto, Resumes, cancel, caller, SerialInv, PollInv, CallInv, HandleInv,
      TypeOK, Alive, Tasks, Ids, None
<1>20. ASSUME NEW t \in Tasks, CancelledByOthers(t) PROVE PollInv'
  BY <1>20 DEF CancelledByOthers, shc, task, caller, Alive, Tasks, SerialInv, PollInv, CallInv,
      HandleInv, TypeOK, Ids, None
<1>21. ASSUME NEW id \in subs, Rotate(id) PROVE PollInv'
  BY <1>21 DEF Rotate, task, cancel, caller, SerialInv, PollInv, CallInv, HandleInv, TypeOK,
      Alive, Tasks, Ids, None
<1>22. CASE UNCHANGED vars
  BY <1>22 DEF vars, SerialInv, PollInv, CallInv, HandleInv, TypeOK, Alive, Tasks, Ids, None
<1> QED
  BY <1>1, <1>2, <1>3, <1>4, <1>5, <1>6, <1>7, <1>8, <1>9, <1>10, <1>11, <1>12, <1>13, <1>14,
      <1>15, <1>16, <1>17, <1>18, <1>19, <1>20, <1>21, <1>22 DEF Next, TaskStep, StopStep

LEMMA OwnStep ==
  ASSUME TypeOK, Holding, IssuedInv, SerialInv, SerialCalls, SerialCalls', [Next]_vars
  PROVE  OwnInv'
<1>1. ASSUME NEW c \in Callers, StartCall(c) PROVE OwnInv'
  BY <1>1, BoundsAssumption DEF StartCall, None, Call, shc, task, cancel, SerialCalls,
      SerialInv, OwnInv, FlagInv, Quiet, CallInv, HandleInv, Holding, IssuedInv, TypeOK, Alive,
      Tasks, Ids
<1>2. ASSUME NEW c \in Callers, StartGranted(c) PROVE OwnInv'
  BY <1>2, BoundsAssumption DEF StartGranted, Call, Grant, cancel, SerialCalls, SerialInv,
      OwnInv, FlagInv, Quiet, CallInv, HandleInv, Holding, IssuedInv, TypeOK, Alive, Tasks, Ids,
      None
<1>3. ASSUME NEW c \in Callers, StartFails(c) PROVE OwnInv'
  BY <1>3, BoundsAssumption DEF StartFails, Call, Fails, task, cancel, SerialCalls, SerialInv,
      OwnInv, FlagInv, Quiet, CallInv, HandleInv, Holding, IssuedInv, TypeOK, Alive, Tasks, Ids,
      None
<1>4. ASSUME NEW c \in Callers, StartRetried(c) PROVE OwnInv'
  BY <1>4, BoundsAssumption DEF StartRetried, Call, task, cancel, SerialCalls, SerialInv,
      OwnInv, FlagInv, Quiet, CallInv, HandleInv, Holding, IssuedInv, TypeOK, Alive, Tasks, Ids,
      None
<1>5. ASSUME NEW c \in Callers, StartDone(c) PROVE OwnInv'
  BY <1>5, BoundsAssumption DEF StartDone, Goto, Call, shc, cancel, SerialCalls, SerialInv,
      OwnInv, FlagInv, Quiet, CallInv, HandleInv, Holding, IssuedInv, TypeOK, Alive, Tasks, Ids,
      None
<1>6. ASSUME NEW c \in Callers, StopCall(c) PROVE OwnInv'
  BY <1>6, BoundsAssumption DEF StopCall, None, Call, shc, task, SerialCalls, SerialInv, OwnInv,
      FlagInv, Quiet, CallInv, HandleInv, Holding, IssuedInv, TypeOK, Alive, Tasks, Ids
<1>7. ASSUME NEW c \in Callers, StopJoined(c) PROVE OwnInv'
  BY <1>7, BoundsAssumption DEF StopJoined, None, Call, shc, task, cancel, SerialCalls,
      SerialInv, OwnInv, FlagInv, Quiet, CallInv, HandleInv, Holding, IssuedInv, TypeOK, Alive,
      Tasks, Ids
<1>8. ASSUME NEW c \in Callers, StopUnsubscribe(c) PROVE OwnInv'
  BY <1>8, BoundsAssumption DEF StopUnsubscribe, None, Call, Fails, task, cancel, SerialCalls,
      SerialInv, OwnInv, FlagInv, Quiet, CallInv, HandleInv, Holding, IssuedInv, TypeOK, Alive,
      Tasks, Ids
<1>9. ASSUME NEW c \in Callers, StopClose(c) PROVE OwnInv'
  BY <1>9, BoundsAssumption DEF StopClose, Call, shc, task, cancel, SerialCalls, SerialInv,
      OwnInv, FlagInv, Quiet, CallInv, HandleInv, Holding, IssuedInv, TypeOK, Alive, Tasks, Ids,
      None
<1>10. ASSUME NEW t \in Tasks, Begin(t) PROVE OwnInv'
  BY <1>10, BoundsAssumption DEF Begin, Iterate, Resumes, shc, cancel, caller, None, Goto,
      SerialCalls, SerialInv, OwnInv, FlagInv, Quiet, CallInv, HandleInv, Holding, IssuedInv,
      TypeOK, Alive, Tasks, Ids
<1>11. ASSUME NEW t \in Tasks, Granted(t) PROVE OwnInv'
  BY <1>11, BoundsAssumption DEF Granted, Goto, Grant, Resumes, cancel, SerialCalls, SerialInv,
      OwnInv, FlagInv, Quiet, CallInv, HandleInv, Holding, IssuedInv, TypeOK, Alive, Tasks, Ids,
      None
<1>12. ASSUME NEW t \in Tasks, Subscribed(t) PROVE OwnInv'
  BY <1>12, BoundsAssumption DEF Subscribed, Goto, Resumes, shc, cancel, caller, SerialCalls,
      SerialInv, OwnInv, FlagInv, Quiet, CallInv, HandleInv, Holding, IssuedInv, TypeOK, Alive,
      Tasks, Ids, None
<1>13. ASSUME NEW t \in Tasks, PollOk(t) PROVE OwnInv'
  BY <1>13, BoundsAssumption DEF PollOk, Goto, Iterate, Resumes, shc, cancel, caller, None,
      SerialCalls, SerialInv, OwnInv, FlagInv, Quiet, CallInv, HandleInv, Holding, IssuedInv,
      TypeOK, Alive, Tasks, Ids
<1>14. ASSUME NEW t \in Tasks, Worked(t) PROVE OwnInv'
  BY <1>14, BoundsAssumption DEF Worked, Iterate, Resumes, shc, cancel, caller, None, Goto,
      SerialCalls, SerialInv, OwnInv, FlagInv, Quiet, CallInv, HandleInv, Holding, IssuedInv,
      TypeOK, Alive, Tasks, Ids
<1>15. ASSUME NEW t \in Tasks, PollStale(t) PROVE OwnInv'
  BY <1>15, BoundsAssumption DEF PollStale, None, Goto, Resumes, shc, cancel, caller,
      SerialCalls, SerialInv, OwnInv, FlagInv, Quiet, CallInv, HandleInv, Holding, IssuedInv,
      TypeOK, Alive, Tasks, Ids
<1>16. ASSUME NEW t \in Tasks, TaskFails(t) PROVE OwnInv'
  BY <1>16, BoundsAssumption DEF TaskFails, Goto, Fails, Resumes, cancel, caller, SerialCalls,
      SerialInv, OwnInv, FlagInv, Quiet, CallInv, HandleInv, Holding, IssuedInv, TypeOK, Alive,
      Tasks, Ids, None
<1>17. ASSUME NEW t \in Tasks, Wake(t) PROVE OwnInv'
  BY <1>17, BoundsAssumption DEF Wake, Iterate, Resumes, shc, cancel, caller, None, Goto,
      SerialCalls, SerialInv, OwnInv, FlagInv, Quiet, CallInv, HandleInv, Holding, IssuedInv,
      TypeOK, Alive, Tasks, Ids
<1>18. ASSUME NEW t \in Tasks, Cancelled(t) PROVE OwnInv'
  BY <1>18, BoundsAssumption DEF Cancelled, None, Goto, cancel, caller, Alive, Tasks,
      SerialCalls, SerialInv, OwnInv, FlagInv, Quiet, CallInv, HandleInv, Holding, IssuedInv,
      TypeOK, Ids
<1>19. ASSUME NEW t \in Tasks, Retried(t) PROVE OwnInv'
  BY <1>19, BoundsAssumption DEF Retried, Goto, Resumes, cancel, caller, SerialCalls, SerialInv,
      OwnInv, FlagInv, Quiet, CallInv, HandleInv, Holding, IssuedInv, TypeOK, Alive, Tasks, Ids,
      None
<1>20. ASSUME NEW t \in Tasks, CancelledByOthers(t) PROVE OwnInv'
  BY <1>20, BoundsAssumption DEF CancelledByOthers, shc, task, caller, Alive, Tasks,
      SerialCalls, SerialInv, OwnInv, FlagInv, Quiet, CallInv, HandleInv, Holding, IssuedInv,
      TypeOK, Ids, None
<1>21. ASSUME NEW id \in subs, Rotate(id) PROVE OwnInv'
  BY <1>21, BoundsAssumption DEF Rotate, task, cancel, caller, SerialCalls, SerialInv, OwnInv,
      FlagInv, Quiet, CallInv, HandleInv, Holding, IssuedInv, TypeOK, Alive, Tasks, Ids, None
<1>22. CASE UNCHANGED vars
  BY <1>22, BoundsAssumption DEF vars, SerialCalls, SerialInv, OwnInv, FlagInv, Quiet, CallInv,
      HandleInv, Holding, IssuedInv, TypeOK, Alive, Tasks, Ids, None
<1> QED
  BY <1>1, <1>2, <1>3, <1>4, <1>5, <1>6, <1>7, <1>8, <1>9, <1>10, <1>11, <1>12, <1>13, <1>14,
      <1>15, <1>16, <1>17, <1>18, <1>19, <1>20, <1>21, <1>22 DEF Next, TaskStep, StopStep

LEMMA ClosedStep ==
  ASSUME TypeOK, Holding, IssuedInv, SerialInv, SerialCalls, SerialCalls', [Next]_vars
  PROVE  ClosedMeansQuiet'
<1>1. ASSUME NEW c \in Callers, StartCall(c) PROVE ClosedMeansQuiet'
  BY <1>1 DEF StartCall, None, Call, shc, task, cancel, SerialInv, ClosedMeansQuiet, CallInv,
      HandleInv, TypeOK, Alive, Tasks, Ids
<1>2. ASSUME NEW c \in Callers, StartGranted(c) PROVE ClosedMeansQuiet'
  BY <1>2 DEF StartGranted, Call, Grant, cancel, SerialInv, ClosedMeansQuiet, CallInv,
      HandleInv, TypeOK, Alive, Tasks, Ids, None
<1>3. ASSUME NEW c \in Callers, StartFails(c) PROVE ClosedMeansQuiet'
  BY <1>3 DEF StartFails, Call, Fails, task, cancel, SerialInv, ClosedMeansQuiet, CallInv,
      HandleInv, TypeOK, Alive, Tasks, Ids, None
<1>4. ASSUME NEW c \in Callers, StartRetried(c) PROVE ClosedMeansQuiet'
  BY <1>4 DEF StartRetried, Call, task, cancel, SerialInv, ClosedMeansQuiet, CallInv, HandleInv,
      TypeOK, Alive, Tasks, Ids, None
<1>5. ASSUME NEW c \in Callers, StartDone(c) PROVE ClosedMeansQuiet'
  BY <1>5 DEF StartDone, Goto, Call, shc, cancel, SerialInv, ClosedMeansQuiet, CallInv,
      HandleInv, TypeOK, Alive, Tasks, Ids, None
<1>6. ASSUME NEW c \in Callers, StopCall(c) PROVE ClosedMeansQuiet'
  BY <1>6 DEF StopCall, None, Call, shc, task, SerialInv, ClosedMeansQuiet, CallInv, HandleInv,
      TypeOK, Alive, Tasks, Ids
<1>7. ASSUME NEW c \in Callers, StopJoined(c) PROVE ClosedMeansQuiet'
  BY <1>7 DEF StopJoined, None, Call, shc, task, cancel, SerialInv, ClosedMeansQuiet, CallInv,
      HandleInv, TypeOK, Alive, Tasks, Ids
<1>8. ASSUME NEW c \in Callers, StopUnsubscribe(c) PROVE ClosedMeansQuiet'
  BY <1>8 DEF StopUnsubscribe, None, Call, Fails, task, cancel, SerialInv, ClosedMeansQuiet,
      CallInv, HandleInv, TypeOK, Alive, Tasks, Ids
<1>9. ASSUME NEW c \in Callers, StopClose(c) PROVE ClosedMeansQuiet'
  BY <1>9 DEF StopClose, Call, shc, task, cancel, SerialInv, ClosedMeansQuiet, CallInv,
      HandleInv, TypeOK, Alive, Tasks, Ids, None
<1>10. ASSUME NEW t \in Tasks, Begin(t) PROVE ClosedMeansQuiet'
  BY <1>10 DEF Begin, Iterate, Resumes, shc, cancel, caller, None, Goto, SerialInv,
      ClosedMeansQuiet, CallInv, HandleInv, TypeOK, Alive, Tasks, Ids
<1>11. ASSUME NEW t \in Tasks, Granted(t) PROVE ClosedMeansQuiet'
  BY <1>11 DEF Granted, Goto, Grant, Resumes, cancel, SerialInv, ClosedMeansQuiet, CallInv,
      HandleInv, TypeOK, Alive, Tasks, Ids, None
<1>12. ASSUME NEW t \in Tasks, Subscribed(t) PROVE ClosedMeansQuiet'
  BY <1>12 DEF Subscribed, Goto, Resumes, shc, cancel, caller, SerialInv, ClosedMeansQuiet,
      CallInv, HandleInv, TypeOK, Alive, Tasks, Ids, None
<1>13. ASSUME NEW t \in Tasks, PollOk(t) PROVE ClosedMeansQuiet'
  BY <1>13 DEF PollOk, Goto, Iterate, Resumes, shc, cancel, caller, None, SerialInv,
      ClosedMeansQuiet, CallInv, HandleInv, TypeOK, Alive, Tasks, Ids
<1>14. ASSUME NEW t \in Tasks, Worked(t) PROVE ClosedMeansQuiet'
  BY <1>14 DEF Worked, Iterate, Resumes, shc, cancel, caller, None, Goto, SerialInv,
      ClosedMeansQuiet, CallInv, HandleInv, TypeOK, Alive, Tasks, Ids
<1>15. ASSUME NEW t \in Tasks, PollStale(t) PROVE ClosedMeansQuiet'
  BY <1>15 DEF PollStale, None, Goto, Resumes, shc, cancel, caller, SerialInv, ClosedMeansQuiet,
      CallInv, HandleInv, TypeOK, Alive, Tasks, Ids
<1>16. ASSUME NEW t \in Tasks, TaskFails(t) PROVE ClosedMeansQuiet'
  BY <1>16 DEF TaskFails, Goto, Fails, Resumes, cancel, caller, SerialInv, ClosedMeansQuiet,
      CallInv, HandleInv, TypeOK, Alive, Tasks, Ids, None
<1>17. ASSUME NEW t \in Tasks, Wake(t) PROVE ClosedMeansQuiet'
  BY <1>17 DEF Wake, Iterate, Resumes, shc, cancel, caller, None, Goto, SerialInv,
      ClosedMeansQuiet, CallInv, HandleInv, TypeOK, Alive, Tasks, Ids
<1>18. ASSUME NEW t \in Tasks, Cancelled(t) PROVE ClosedMeansQuiet'
  BY <1>18 DEF Cancelled, None, Goto, cancel, caller, Alive, Tasks, SerialInv, ClosedMeansQuiet,
      CallInv, HandleInv, TypeOK, Ids
<1>19. ASSUME NEW t \in Tasks, Retried(t) PROVE ClosedMeansQuiet'
  BY <1>19 DEF Retried, Goto, Resumes, cancel, caller, SerialInv, ClosedMeansQuiet, CallInv,
      HandleInv, TypeOK, Alive, Tasks, Ids, None
<1>20. ASSUME NEW t \in Tasks, CancelledByOthers(t) PROVE ClosedMeansQuiet'
  BY <1>20 DEF CancelledByOthers, shc, task, caller, Alive, Tasks, SerialInv, ClosedMeansQuiet,
      CallInv, HandleInv, TypeOK, Ids, None
<1>21. ASSUME NEW id \in subs, Rotate(id) PROVE ClosedMeansQuiet'
  BY <1>21 DEF Rotate, task, cancel, caller, SerialInv, ClosedMeansQuiet, CallInv, HandleInv,
      TypeOK, Alive, Tasks, Ids, None
<1>22. CASE UNCHANGED vars
  BY <1>22 DEF vars, SerialInv, ClosedMeansQuiet, CallInv, HandleInv, TypeOK, Alive, Tasks, Ids,
      None
<1> QED
  BY <1>1, <1>2, <1>3, <1>4, <1>5, <1>6, <1>7, <1>8, <1>9, <1>10, <1>11, <1>12, <1>13, <1>14,
      <1>15, <1>16, <1>17, <1>18, <1>19, <1>20, <1>21, <1>22 DEF Next, TaskStep, StopStep

LEMMA SubsStep ==
  ASSUME TypeOK, Holding, IssuedInv, SerialInv, SerialCalls, SerialCalls', [Next]_vars
  PROVE  NoSubscriptionForgotten'
<1>1. ASSUME NEW c \in Callers, StartCall(c) PROVE NoSubscriptionForgotten'
  BY <1>1 DEF StartCall, None, Call, shc, task, cancel, SerialInv, NoSubscriptionForgotten,
      OwnInv, PollInv, CallInv, HandleInv, TypeOK, Alive, Tasks, Ids
<1>2. ASSUME NEW c \in Callers, StartGranted(c) PROVE NoSubscriptionForgotten'
  BY <1>2 DEF StartGranted, Call, Grant, cancel, SerialInv, NoSubscriptionForgotten, OwnInv,
      PollInv, CallInv, HandleInv, TypeOK, Alive, Tasks, Ids, None
<1>3. ASSUME NEW c \in Callers, StartFails(c) PROVE NoSubscriptionForgotten'
  BY <1>3 DEF StartFails, Call, Fails, task, cancel, SerialInv, NoSubscriptionForgotten, OwnInv,
      PollInv, CallInv, HandleInv, TypeOK, Alive, Tasks, Ids, None
<1>4. ASSUME NEW c \in Callers, StartRetried(c) PROVE NoSubscriptionForgotten'
  BY <1>4 DEF StartRetried, Call, task, cancel, SerialInv, NoSubscriptionForgotten, OwnInv,
      PollInv, CallInv, HandleInv, TypeOK, Alive, Tasks, Ids, None
<1>5. ASSUME NEW c \in Callers, StartDone(c) PROVE NoSubscriptionForgotten'
  BY <1>5 DEF StartDone, Goto, Call, shc, cancel, SerialInv, NoSubscriptionForgotten, OwnInv,
      PollInv, CallInv, HandleInv, TypeOK, Alive, Tasks, Ids, None
<1>6. ASSUME NEW c \in Callers, StopCall(c) PROVE NoSubscriptionForgotten'
  BY <1>6 DEF StopCall, None, Call, shc, task, SerialInv, NoSubscriptionForgotten, OwnInv,
      PollInv, CallInv, HandleInv, TypeOK, Alive, Tasks, Ids
<1>7. ASSUME NEW c \in Callers, StopJoined(c) PROVE NoSubscriptionForgotten'
  BY <1>7 DEF StopJoined, None, Call, shc, task, cancel, SerialInv, NoSubscriptionForgotten,
      OwnInv, PollInv, CallInv, HandleInv, TypeOK, Alive, Tasks, Ids
<1>8. ASSUME NEW c \in Callers, StopUnsubscribe(c) PROVE NoSubscriptionForgotten'
  <2>1. cid[c] = pollId
    BY <1>8 DEF StopUnsubscribe, SerialInv, CallInv
  <2>2. \A id \in subs' : id # pollId \/ id \in lost'
    BY <1>8, <2>1 DEF StopUnsubscribe
  <2>3. subs' \subseteq subs /\ lost \subseteq lost' /\ strays' = strays
    BY <1>8 DEF StopUnsubscribe, cancel
  <2>4. \A d \in Callers : cpc[d] = "granted" => cpc'[d] = "granted" /\ cid'[d] = cid[d]
    BY <1>8 DEF StopUnsubscribe, Call, TypeOK
  <2> QED
    BY <1>8, <2>2, <2>3, <2>4 DEF StopUnsubscribe, task, SerialInv, NoSubscriptionForgotten
<1>9. ASSUME NEW c \in Callers, StopClose(c) PROVE NoSubscriptionForgotten'
  BY <1>9 DEF StopClose, Call, shc, task, cancel, SerialInv, NoSubscriptionForgotten, OwnInv,
      PollInv, CallInv, HandleInv, TypeOK, Alive, Tasks, Ids, None
<1>10. ASSUME NEW t \in Tasks, Begin(t) PROVE NoSubscriptionForgotten'
  BY <1>10 DEF Begin, Iterate, Resumes, shc, cancel, caller, None, Goto, SerialInv,
      NoSubscriptionForgotten, OwnInv, PollInv, CallInv, HandleInv, TypeOK, Alive, Tasks, Ids
<1>11. ASSUME NEW t \in Tasks, Granted(t) PROVE NoSubscriptionForgotten'
  BY <1>11 DEF Granted, Goto, Grant, Resumes, cancel, SerialInv, NoSubscriptionForgotten,
      OwnInv, PollInv, CallInv, HandleInv, TypeOK, Alive, Tasks, Ids, None
<1>12. ASSUME NEW t \in Tasks, Subscribed(t) PROVE NoSubscriptionForgotten'
  BY <1>12 DEF Subscribed, Goto, Resumes, shc, cancel, caller, SerialInv,
      NoSubscriptionForgotten, OwnInv, PollInv, CallInv, HandleInv, TypeOK, Alive, Tasks, Ids,
      None
<1>13. ASSUME NEW t \in Tasks, PollOk(t) PROVE NoSubscriptionForgotten'
  BY <1>13 DEF PollOk, Goto, Iterate, Resumes, shc, cancel, caller, None, SerialInv,
      NoSubscriptionForgotten, OwnInv, PollInv, CallInv, HandleInv, TypeOK, Alive, Tasks, Ids
<1>14. ASSUME NEW t \in Tasks, Worked(t) PROVE NoSubscriptionForgotten'
  BY <1>14 DEF Worked, Iterate, Resumes, shc, cancel, caller, None, Goto, SerialInv,
      NoSubscriptionForgotten, OwnInv, PollInv, CallInv, HandleInv, TypeOK, Alive, Tasks, Ids
<1>15. ASSUME NEW t \in Tasks, PollStale(t) PROVE NoSubscriptionForgotten'
  BY <1>15 DEF PollStale, None, Goto, Resumes, shc, cancel, caller, SerialInv,
      NoSubscriptionForgotten, OwnInv, PollInv, CallInv, HandleInv, TypeOK, Alive, Tasks, Ids
<1>16. ASSUME NEW t \in Tasks, TaskFails(t) PROVE NoSubscriptionForgotten'
  BY <1>16 DEF TaskFails, Goto, Fails, Resumes, cancel, caller, SerialInv,
      NoSubscriptionForgotten, OwnInv, PollInv, CallInv, HandleInv, TypeOK, Alive, Tasks, Ids,
      None
<1>17. ASSUME NEW t \in Tasks, Wake(t) PROVE NoSubscriptionForgotten'
  BY <1>17 DEF Wake, Iterate, Resumes, shc, cancel, caller, None, Goto, SerialInv,
      NoSubscriptionForgotten, OwnInv, PollInv, CallInv, HandleInv, TypeOK, Alive, Tasks, Ids
<1>18. ASSUME NEW t \in Tasks, Cancelled(t) PROVE NoSubscriptionForgotten'
  BY <1>18 DEF Cancelled, None, Goto, cancel, caller, Alive, Tasks, SerialInv,
      NoSubscriptionForgotten, OwnInv, PollInv, CallInv, HandleInv, TypeOK, Ids
<1>19. ASSUME NEW t \in Tasks, Retried(t) PROVE NoSubscriptionForgotten'
  BY <1>19 DEF Retried, Goto, Resumes, cancel, caller, SerialInv, NoSubscriptionForgotten,
      OwnInv, PollInv, CallInv, HandleInv, TypeOK, Alive, Tasks, Ids, None
<1>20. ASSUME NEW t \in Tasks, CancelledByOthers(t) PROVE NoSubscriptionForgotten'
  BY <1>20 DEF CancelledByOthers, shc, task, caller, Alive, Tasks, SerialInv,
      NoSubscriptionForgotten, OwnInv, PollInv, CallInv, HandleInv, TypeOK, Ids, None
<1>21. ASSUME NEW id \in subs, Rotate(id) PROVE NoSubscriptionForgotten'
  BY <1>21 DEF Rotate, task, cancel, caller, SerialInv, NoSubscriptionForgotten, OwnInv,
      PollInv, CallInv, HandleInv, TypeOK, Alive, Tasks, Ids, None
<1>22. CASE UNCHANGED vars
  BY <1>22 DEF vars, SerialInv, NoSubscriptionForgotten, OwnInv, PollInv, CallInv, HandleInv,
      TypeOK, Alive, Tasks, Ids, None
<1> QED
  BY <1>1, <1>2, <1>3, <1>4, <1>5, <1>6, <1>7, <1>8, <1>9, <1>10, <1>11, <1>12, <1>13, <1>14,
      <1>15, <1>16, <1>17, <1>18, <1>19, <1>20, <1>21, <1>22 DEF Next, TaskStep, StopStep

-----------------------------------------------------------------------------
LEMMA Initial == Init => TypeOK /\ Holding /\ IssuedInv /\ SerialInv
<1> SUFFICES ASSUME Init PROVE TypeOK /\ Holding /\ IssuedInv /\ SerialInv
  OBVIOUS
<1>1. TypeOK
  <2>1. /\ 0 \in 0 .. MaxTasks
        /\ 0 \in 0 .. MaxSubs
        /\ 0 \in 0 .. MaxFaults
    BY BoundsAssumption
  <2>2. /\ tpc \in [Tasks -> {"unborn"}]
        /\ held \in [Tasks -> {None}]
        /\ cpc \in [Callers -> {"idle"}]
        /\ target \in [Callers -> {None}]
        /\ cid \in [Callers -> {None}]
    BY DEF Init
  <2> QED
    BY <2>1, <2>2 DEF Init, TypeOK
<1>2. Holding
  BY BoundsAssumption DEF Init, Holding, Tasks, None
<1>3. IssuedInv
  BY DEF Init, IssuedInv, None
<1>4. SerialInv
  BY DEF Init, SerialInv, HandleInv, CallInv, FlagInv, Quiet, PollInv, OwnInv,
         ClosedMeansQuiet, NoSubscriptionForgotten, Alive
<1> QED
  BY <1>1, <1>2, <1>3, <1>4

\* The variables of the session, of its tasks and of the SHC keep their types,
\* however many coroutines start and stop the polling.
THEOREM Typing == Spec => []TypeOK
<1>1. Init => TypeOK /\ Holding
  BY Initial
<1>2. TypeOK /\ Holding /\ [Next]_vars => TypeOK' /\ Holding'
  BY TypeStep, HoldingStep
<1> QED
  BY <1>1, <1>2, PTL DEF Spec

\* The inductive invariant of a session whose calls do not overlap.
THEOREM Serialised ==
  Spec /\ []SerialCalls => [](TypeOK /\ Holding /\ IssuedInv /\ SerialInv)
<1> DEFINE Inv == TypeOK /\ Holding /\ IssuedInv /\ SerialInv
<1>1. Init => Inv
  BY Initial
<1>2. Inv /\ SerialCalls /\ SerialCalls' /\ [Next]_vars => Inv'
  <2> SUFFICES ASSUME TypeOK, Holding, IssuedInv, SerialInv, SerialCalls, SerialCalls',
                      [Next]_vars
               PROVE  Inv'
    OBVIOUS
  <2>1. TypeOK' /\ Holding' /\ IssuedInv'
    BY TypeStep, HoldingStep, IssuedStep
  <2>2. HandleInv' /\ CallInv' /\ FlagInv' /\ PollInv'
    BY HandleStep, CallStep, FlagStep, PollStep
  <2>3. OwnInv' /\ ClosedMeansQuiet' /\ NoSubscriptionForgotten'
    BY OwnStep, ClosedStep, SubsStep
  <2> QED
    BY <2>1, <2>2, <2>3 DEF SerialInv
<1> HIDE DEF Inv
<1>3. Spec /\ []SerialCalls => []Inv
  BY <1>1, <1>2, PTL DEF Spec
<1> QED
  BY <1>3, PTL DEF Inv

\* One poll loop at a time: when calls do not overlap, a start_polling() that has
\* awaited its subscribe finds no other task, and a stop waits for the one there is.
THEOREM OneLoop == Spec /\ []SerialCalls => []AtMostOneLoop
<1>1. SerialInv => AtMostOneLoop
  <2> SUFFICES ASSUME SerialInv PROVE Cardinality(Alive) <= 1
    BY DEF AtMostOneLoop
  <2>1. \A t, u \in Alive : t = u
    BY DEF SerialInv, HandleInv
  <2>2. CASE Alive = {}
    BY <2>2, FS_EmptySet
  <2>3. ASSUME NEW t, Alive = {t} PROVE Cardinality(Alive) <= 1
    <3>1. Cardinality({t}) = 1
      BY FS_Singleton
    <3> QED
      BY <2>3, <3>1
  <2>4. Alive = {} \/ \E t : Alive = {t}
    BY <2>1
  <2> QED
    BY <2>2, <2>3, <2>4
<1> QED
  BY <1>1, Serialised, PTL

\* No task escapes the handle by which stop_polling() reaches it, when calls do
\* not overlap.
THEOREM NoTaskEscapes == Spec /\ []SerialCalls => []NoRunawayTask
<1>1. SerialInv => NoRunawayTask
  BY DEF SerialInv, HandleInv, NoRunawayTask
<1> QED
  BY <1>1, Serialised, PTL

\* Once stop_polling() has closed the session nothing polls any more, when calls
\* do not overlap.
THEOREM ClosedSessionsAreQuiet == Spec /\ []SerialCalls => []ClosedMeansQuiet
<1>1. SerialInv => ClosedMeansQuiet
  BY DEF SerialInv
<1> QED
  BY <1>1, Serialised, PTL

\* The session forgets no subscription the SHC still holds, unless its unsubscribe
\* failed or somebody else cancelled the task, when calls do not overlap.
THEOREM SubscriptionsAreKept == Spec /\ []SerialCalls => []NoSubscriptionForgotten
<1>1. SerialInv => NoSubscriptionForgotten
  BY DEF SerialInv
<1> QED
  BY <1>1, Serialised, PTL

\* As long as nobody else cancels a task, stop_polling() accepts to end whatever
\* subscription the session holds, when calls do not overlap.
THEOREM StopsCleanUp == Spec /\ []SerialCalls => []StopCleansUpItsOwn
<1>1. SerialInv => StopCleansUpItsOwn
  BY DEF SerialInv, OwnInv, Quiet, StopCleansUpItsOwn, StopCanCleanUp
<1> QED
  BY <1>1, Serialised, PTL

\* With a single coroutine calls cannot overlap, so all of it holds.
COROLLARY OneApplicationTask ==
  ASSUME \A c, d \in Callers : c = d
  PROVE  Spec => [](/\ AtMostOneLoop /\ NoRunawayTask /\ ClosedMeansQuiet
                    /\ NoSubscriptionForgotten /\ StopCleansUpItsOwn)
<1>1. SerialCalls
  BY DEF SerialCalls
<1> QED
  BY <1>1, OneLoop, NoTaskEscapes, ClosedSessionsAreQuiet, SubscriptionsAreKept,
     StopsCleanUp, PTL
=============================================================================
