--------------------------- MODULE AsyncLifecycle ---------------------------
(***************************************************************************)
(* start_polling() and stop_polling() of SHCSessionAsync and the life of   *)
(* the SHCAsyncPollingTask.  Coroutines give up control only where they    *)
(* await, so each action runs from one await to the next.                  *)
(*                                                                         *)
(* Tasks and subscriptions are numbered; None (0) stands for Python's      *)
(* None.  What a poll delivers is the subject of LongPoll.                 *)
(***************************************************************************)
EXTENDS Integers, FiniteSets

CONSTANTS
    Callers,      \* coroutines of the application that start and stop
    MaxTasks,     \* bound: poll tasks created in one behaviour
    MaxSubs,      \* bound: subscriptions the SHC hands out
    MaxFaults,    \* bound: failing requests
    MaxStrays     \* bound: tasks cancelled by somebody else than stop_polling()

ASSUME BoundsAssumption ==
    MaxTasks \in Nat /\ MaxSubs \in Nat /\ MaxFaults \in Nat /\ MaxStrays \in Nat

None  == 0
Tasks == 1 .. MaxTasks
Ids   == 1 .. MaxSubs

VARIABLES
    handle,     \* _poll_task
    stopFlag,   \* _stop_polling
    pollId,     \* _poll_id
    open,       \* the API's session accepts requests
    subs,       \* SHC: valid subscriptions
    issued,     \* SHC: how many subscriptions it has handed out
    lost,       \* history: ids the client never got or could not unsubscribe
    tpc,        \* what each task awaits
    held,       \* the id a task got from the SHC or polls with
    cancelled,  \* tasks with a pending CancelledError
    strays,     \* history: tasks cancelled by somebody else
    created,    \* how many tasks have been created
    cpc,        \* what each caller awaits
    target,     \* the task a stop_polling() awaits
    cid,        \* the id a caller got or unsubscribes
    faults

vars   == <<handle, stopFlag, pollId, open, subs, issued, lost, tpc, held,
            cancelled, strays, created, cpc, target, cid, faults>>
shc    == <<subs, issued, lost>>
task   == <<tpc, held, created>>
cancel == <<cancelled, strays>>
caller == <<cpc, target, cid>>

Alive == {t \in Tasks : tpc[t] \notin {"unborn", "done"}}

TypeOK ==
    /\ handle \in Tasks \cup {None}
    /\ stopFlag \in BOOLEAN
    /\ pollId \in Ids \cup {None}
    /\ open \in BOOLEAN
    /\ subs \subseteq Ids
    /\ issued \in 0 .. MaxSubs
    /\ lost \subseteq Ids
    /\ tpc \in [Tasks -> {"unborn", "ready", "subscribe", "granted", "poll",
                          "work", "sleep", "done"}]
    /\ held \in [Tasks -> Ids \cup {None}]
    /\ cancelled \subseteq Tasks
    /\ strays \subseteq Tasks
    /\ created \in 0 .. MaxTasks
    /\ cpc \in [Callers -> {"idle", "subscribe", "granted", "join",
                            "unsubscribe", "close"}]
    /\ target \in [Callers -> Tasks \cup {None}]
    /\ cid \in [Callers -> Ids \cup {None}]
    /\ faults \in 0 .. MaxFaults

Init ==
    /\ handle = None
    /\ stopFlag = FALSE
    /\ pollId = None
    /\ open = TRUE
    /\ subs = {}
    /\ issued = 0
    /\ lost = {}
    /\ tpc = [t \in Tasks |-> "unborn"]
    /\ held = [t \in Tasks |-> None]
    /\ cancelled = {}
    /\ strays = {}
    /\ created = 0
    /\ cpc = [c \in Callers |-> "idle"]
    /\ target = [c \in Callers |-> None]
    /\ cid = [c \in Callers |-> None]
    /\ faults = 0

\* A request fails for want of a session, of a further subscription, or by chance.
Fails ==
    \/ (~open \/ issued = MaxSubs) /\ UNCHANGED faults
    \/ faults < MaxFaults /\ faults' = faults + 1

Goto(t, label) == tpc' = [tpc EXCEPT ![t] = label]
Call(c, label) == cpc' = [cpc EXCEPT ![c] = label]

\* The SHC hands out a subscription.
Grant ==
    /\ open
    /\ issued < MaxSubs
    /\ issued' = issued + 1
    /\ subs' = subs \cup {issued + 1}
    /\ UNCHANGED <<handle, stopFlag, pollId, open, lost, cancel, created,
                   target, faults>>

-----------------------------------------------------------------------------
(* start_polling *)

\* "Already polling!" is raised unless the handle is None; then subscribe.
StartCall(c) ==
    /\ cpc[c] = "idle"
    /\ handle = None
    /\ stopFlag' = FALSE
    /\ Call(c, "subscribe")
    /\ UNCHANGED <<handle, pollId, open, shc, task, cancel, target, cid, faults>>

StartGranted(c) ==
    /\ cpc[c] = "subscribe"
    /\ Grant
    /\ cid' = [cid EXCEPT ![c] = issued + 1]
    /\ Call(c, "granted")
    /\ UNCHANGED <<tpc, held>>

StartFails(c) ==
    /\ cpc[c] \in {"subscribe", "granted"}
    /\ Fails
    /\ lost' = IF cpc[c] = "granted" THEN lost \cup {cid[c]} ELSE lost
    /\ Call(c, "idle")
    /\ UNCHANGED <<handle, stopFlag, pollId, open, subs, issued, task,
                   cancel, target, cid>>

\* The reply to the subscribe is lost with its connection: the request layer
\* sends it again.
StartRetried(c) ==
    /\ cpc[c] = "granted"
    /\ faults < MaxFaults
    /\ faults' = faults + 1
    /\ lost' = lost \cup {cid[c]}
    /\ Call(c, "subscribe")
    /\ UNCHANGED <<handle, stopFlag, pollId, open, subs, issued, task, cancel,
                   target, cid>>

\* Variant: the id is off by one (for TypeOK).
StartDoneNext(c) ==
    /\ cpc[c] = "granted"
    /\ created < MaxTasks
    /\ pollId' = cid[c] + 1
    /\ created' = created + 1
    /\ handle' = created + 1
    /\ Goto(created + 1, "ready")
    /\ Call(c, "idle")
    /\ UNCHANGED <<stopFlag, open, shc, held, cancel, target, cid, faults>>

\* The id is stored and the task created; the handle is not looked at again.
StartDone(c) ==
    /\ cpc[c] = "granted"
    /\ created < MaxTasks
    /\ pollId' = cid[c]
    /\ created' = created + 1
    /\ handle' = created + 1
    /\ Goto(created + 1, "ready")
    /\ Call(c, "idle")
    /\ UNCHANGED <<stopFlag, open, shc, held, cancel, target, cid, faults>>

-----------------------------------------------------------------------------
(* stop_polling *)

\* Variant: the task is dropped, not cancelled (for NoRunawayTask).
StopCallDrops(c) ==
    /\ cpc[c] = "idle"
    /\ handle # None
    /\ stopFlag' = TRUE
    /\ handle' = None
    /\ Call(c, "close")
    /\ UNCHANGED <<pollId, open, shc, task, cancel, target, cid, faults>>

\* Variant: the task is awaited, not told to stop (for StopReturns).
StopCallAwaits(c) ==
    /\ cpc[c] = "idle"
    /\ handle # None
    /\ target' = [target EXCEPT ![c] = handle]
    /\ Call(c, "join")
    /\ UNCHANGED <<handle, stopFlag, pollId, open, shc, task, cancel, cid, faults>>

\* "Not polling!" is raised if the handle is None.
StopCall(c) ==
    /\ cpc[c] = "idle"
    /\ handle # None
    /\ stopFlag' = TRUE
    /\ cancelled' = cancelled \cup {handle}
    /\ target' = [target EXCEPT ![c] = handle]
    /\ Call(c, "join")
    /\ UNCHANGED <<handle, pollId, open, shc, task, strays, cid, faults>>

\* Variant: the cancelled task is not awaited (for AtMostOneLoop and
\* ClosedMeansQuiet).
StopAtOnce(c) ==
    /\ cpc[c] = "join"
    /\ handle' = None
    /\ cid' = [cid EXCEPT ![c] = pollId]
    /\ Call(c, IF pollId = None THEN "close" ELSE "unsubscribe")
    /\ UNCHANGED <<stopFlag, pollId, open, shc, task, cancel, target, faults>>

StopJoined(c) ==
    /\ cpc[c] = "join"
    /\ tpc[target[c]] = "done"
    /\ handle' = None
    /\ cid' = [cid EXCEPT ![c] = pollId]
    /\ Call(c, IF pollId = None THEN "close" ELSE "unsubscribe")
    /\ UNCHANGED <<stopFlag, pollId, open, shc, task, cancel, target, faults>>

\* Best effort: the poll id goes even when the request fails.
StopUnsubscribe(c) ==
    /\ cpc[c] = "unsubscribe"
    /\ \/ /\ open
          /\ subs' = subs \ {cid[c]}
          /\ UNCHANGED <<lost, faults>>
       \/ /\ Fails
          /\ lost' = lost \cup {cid[c]}
          /\ UNCHANGED subs
    /\ pollId' = None
    /\ Call(c, "close")
    /\ UNCHANGED <<handle, stopFlag, open, issued, task, cancel, target, cid>>

\* close() closes the aiohttp session unless it belongs to the application.
StopClose(c) ==
    /\ cpc[c] = "close"
    /\ open' \in {open, FALSE}
    /\ Call(c, "idle")
    /\ UNCHANGED <<handle, stopFlag, pollId, shc, task, cancel, target, cid, faults>>

-----------------------------------------------------------------------------
(* _poll_loop *)

\* The top of the while loop; leaving it runs the finally block.
Iterate(t, id) ==
    /\ Goto(t, IF stopFlag THEN "done" ELSE IF id = None THEN "subscribe" ELSE "poll")
    /\ held' = [held EXCEPT ![t] = id]
    /\ handle' = IF stopFlag THEN None ELSE handle

Resumes(t, label) == tpc[t] = label /\ t \notin cancelled

Begin(t) ==
    /\ Resumes(t, "ready")
    /\ Iterate(t, pollId)
    /\ UNCHANGED <<stopFlag, pollId, open, shc, cancel, created, caller, faults>>

Granted(t) ==
    /\ Resumes(t, "subscribe")
    /\ Grant
    /\ held' = [held EXCEPT ![t] = issued + 1]
    /\ Goto(t, "granted")
    /\ UNCHANGED <<cpc, cid>>

Subscribed(t) ==
    /\ Resumes(t, "granted")
    /\ pollId' = held[t]
    /\ Goto(t, "poll")
    /\ UNCHANGED <<handle, stopFlag, open, shc, held, cancel, created, caller, faults>>

\* The results may call for more requests: a new device's services, or the
\* re-read after a resubscribe.
PollOk(t) ==
    /\ Resumes(t, "poll")
    /\ open
    /\ held[t] \in subs
    /\ \/ Goto(t, "work") /\ UNCHANGED <<held, handle>>
       \/ Iterate(t, pollId)
    /\ UNCHANGED <<stopFlag, pollId, open, shc, cancel, created, caller, faults>>

Worked(t) ==
    /\ Resumes(t, "work")
    /\ Iterate(t, pollId)
    /\ UNCHANGED <<stopFlag, pollId, open, shc, cancel, created, caller, faults>>

PollStale(t) ==
    /\ Resumes(t, "poll")
    /\ open
    /\ held[t] \notin subs
    /\ pollId' = None
    /\ Goto(t, "sleep")
    /\ UNCHANGED <<handle, stopFlag, open, shc, held, cancel, created, caller, faults>>

\* Variant: an error ends the task (for StopCleansUpItsOwn).
TaskFailsForGood(t) ==
    /\ \E label \in {"subscribe", "granted", "poll", "work"} : Resumes(t, label)
    /\ Fails
    /\ lost' = IF tpc[t] = "granted" THEN lost \cup {held[t]} ELSE lost
    /\ handle' = None
    /\ Goto(t, "done")
    /\ UNCHANGED <<stopFlag, pollId, open, subs, issued, held, cancel,
                   created, caller>>

TaskFails(t) ==
    /\ \E label \in {"subscribe", "granted", "poll", "work"} : Resumes(t, label)
    /\ Fails
    /\ lost' = IF tpc[t] = "granted" THEN lost \cup {held[t]} ELSE lost
    /\ Goto(t, "sleep")
    /\ UNCHANGED <<handle, stopFlag, pollId, open, subs, issued, held,
                   cancel, created, caller>>

Retried(t) ==
    /\ Resumes(t, "granted")
    /\ faults < MaxFaults
    /\ faults' = faults + 1
    /\ lost' = lost \cup {held[t]}
    /\ Goto(t, "subscribe")
    /\ UNCHANGED <<handle, stopFlag, pollId, open, subs, issued, held,
                   cancel, created, caller>>

Wake(t) ==
    /\ Resumes(t, "sleep")
    /\ Iterate(t, pollId)
    /\ UNCHANGED <<stopFlag, pollId, open, shc, cancel, created, caller, faults>>

\* Variant: the finally block clears the poll id too (for
\* NoSubscriptionForgotten).
CancelledForgets(t) ==
    /\ t \in cancelled
    /\ t \in Alive
    /\ handle' = None
    /\ pollId' = None
    /\ lost' = IF tpc[t] = "granted" THEN lost \cup {held[t]} ELSE lost
    /\ Goto(t, "done")
    /\ UNCHANGED <<stopFlag, open, subs, issued, held, cancel, created, caller, faults>>

\* The CancelledError arrives at the await and runs the finally block, unless
\* the task had not begun: then the coroutine is never entered.
Cancelled(t) ==
    /\ t \in cancelled
    /\ t \in Alive
    /\ handle' = IF tpc[t] = "ready" THEN handle ELSE None
    /\ lost' = IF tpc[t] = "granted" THEN lost \cup {held[t]} ELSE lost
    /\ Goto(t, "done")
    /\ UNCHANGED <<stopFlag, pollId, open, subs, issued, held, cancel,
                   created, caller, faults>>

-----------------------------------------------------------------------------
\* The SHC forgets a subscription.
Rotate(id) ==
    /\ subs' = subs \ {id}
    /\ UNCHANGED <<handle, stopFlag, pollId, open, issued, lost, task,
                   cancel, caller, faults>>

\* "A CancelledError not already handled by stop_polling".
CancelledByOthers(t) ==
    /\ Cardinality(strays) < MaxStrays
    /\ t \in Alive \ cancelled
    /\ cancelled' = cancelled \cup {t}
    /\ strays' = strays \cup {t}
    /\ UNCHANGED <<handle, stopFlag, pollId, open, shc, task, caller, faults>>

TaskStep(t) ==
    \/ Begin(t) \/ Granted(t) \/ Subscribed(t) \/ PollOk(t) \/ Worked(t)
    \/ PollStale(t) \/ TaskFails(t) \/ Wake(t) \/ Cancelled(t)

StopStep(c) == StopJoined(c) \/ StopUnsubscribe(c) \/ StopClose(c)

Next ==
    \/ \E c \in Callers :
          StartCall(c) \/ StartGranted(c) \/ StartFails(c) \/ StartRetried(c) \/ StartDone(c)
          \/ StopCall(c) \/ StopStep(c)
    \/ \E t \in Tasks : TaskStep(t) \/ Retried(t) \/ CancelledByOthers(t)
    \/ \E id \in subs : Rotate(id)

Spec == Init /\ [][Next]_vars

\* The event loop runs ready coroutines, and requests end (they have timeouts).
FairSpec ==
    /\ Spec
    /\ \A t \in Tasks : WF_vars(TaskStep(t))
    /\ \A c \in Callers : WF_vars(StopStep(c))

-----------------------------------------------------------------------------
\* "Already polling!" (session_async.py:318): one poll loop at a time.
AtMostOneLoop == Cardinality(Alive) <= 1

\* A task without its handle, out of reach of any stop_polling(), is already
\* cancelled.
NoRunawayTask == \A t \in Alive : handle = t \/ t \in cancelled

\* Once the session is closed nothing polls any more.
ClosedMeansQuiet == ~open => Alive = {}

\* The session never forgets the id of a subscription that the SHC still
\* holds, unless the unsubscribe request itself fails or somebody else cancels
\* the task.
NoSubscriptionForgotten ==
    strays = {} => \A id \in subs :
        \/ id = pollId \/ id \in lost
        \/ \E t \in Tasks : tpc[t] = "granted" /\ held[t] = id
        \/ \E c \in Callers : cpc[c] = "granted" /\ cid[c] = id

\* While the session holds a subscription, stop_polling() accepts to end it,
\* rather than to raise "Not polling!": it is "safe to call even if the task
\* finished on its own" (session_async.py:335).
StopCanCleanUp ==
    ((\A c \in Callers : cpc[c] = "idle") /\ pollId \in subs) => handle # None

\* It does as long as nobody else has cancelled the task.
StopCleansUpItsOwn == strays = {} => StopCanCleanUp

\* stop_polling() returns, with the task it cancelled at its end.
StopReturns ==
    \A c \in Callers, t \in Tasks :
        (cpc[c] = "join" /\ target[c] = t) ~> (cpc[c] = "idle" /\ tpc[t] = "done")
=============================================================================
