--------------------------- MODULE SyncLifecycle ---------------------------
(***************************************************************************)
(* start_polling() and stop_polling() of SHCSession and the life of the    *)
(* SHCPollingThread: the handle of the thread, the stop flag, the poll id  *)
(* and the subscriptions the SHC holds for this client.                    *)
(*                                                                         *)
(* Threads are numbered in the order they are created, subscriptions in    *)
(* the order the SHC hands them out; None (0) stands for Python's None.    *)
(* What a poll delivers is the subject of LongPoll.                        *)
(***************************************************************************)
EXTENDS Integers, FiniteSets

CONSTANTS
    Callers,      \* application threads that start and stop the polling
    MaxStarts,    \* bound: threads started in one behaviour
    MaxSubs,      \* bound: subscriptions the SHC hands out
    MaxFaults     \* bound: failing requests, RuntimeErrors, joins that time out

ASSUME BoundsAssumption == MaxStarts \in Nat /\ MaxSubs \in Nat /\ MaxFaults \in Nat

None    == 0
Threads == 1 .. MaxStarts
Ids     == 1 .. MaxSubs

VARIABLES
    handle,    \* _polling_thread
    stopFlag,  \* _stop_polling_thread
    pollId,    \* _poll_id
    subs,      \* SHC: valid subscriptions
    issued,    \* SHC: how many subscriptions it has handed out
    lost,      \* history: subscriptions whose id never reached the client
    tpc,       \* where each thread is
    held,      \* the id a thread got from the SHC or polls with
    started,   \* how many threads have been created
    cpc,       \* where each caller is
    target,    \* the thread a stop_polling() has captured
    told,      \* history: threads that were asked to end or met a RuntimeError
    late,      \* history: threads that outlived the join of a stop_polling()
    faults

vars   == <<handle, stopFlag, pollId, subs, issued, lost, tpc, held, started,
            cpc, target, told, late, faults>>
shc    == <<subs, issued, lost>>
caller == <<cpc, target>>

Alive == {t \in Threads : tpc[t] \notin {"unborn", "dead"}}

TypeOK ==
    /\ handle \in Threads \cup {None}
    /\ stopFlag \in BOOLEAN
    /\ pollId \in Ids \cup {None}
    /\ subs \subseteq Ids
    /\ issued \in 0 .. MaxSubs
    /\ lost \subseteq Ids
    /\ tpc \in [Threads -> {"unborn", "loop", "subscribe", "subscribed", "poll",
                            "sleep", "unsubscribe", "finally", "dead"}]
    /\ held \in [Threads -> Ids \cup {None}]
    /\ started \in 0 .. MaxStarts
    /\ cpc \in [Callers -> {"idle", "start", "launch", "join", "unsubscribe", "finish"}]
    /\ target \in [Callers -> Threads \cup {None}]
    /\ told \subseteq Threads
    /\ late \subseteq Threads
    /\ faults \in 0 .. MaxFaults

Init ==
    /\ handle = None
    /\ stopFlag = FALSE
    /\ pollId = None
    /\ subs = {}
    /\ issued = 0
    /\ lost = {}
    /\ tpc = [t \in Threads |-> "unborn"]
    /\ held = [t \in Threads |-> None]
    /\ started = 0
    /\ cpc = [c \in Callers |-> "idle"]
    /\ target = [c \in Callers |-> None]
    /\ told = {}
    /\ late = {}
    /\ faults = 0

Fault == faults < MaxFaults /\ faults' = faults + 1

Goto(t, label) == tpc' = [tpc EXCEPT ![t] = label]
Call(c, label) == cpc' = [cpc EXCEPT ![c] = label]

-----------------------------------------------------------------------------
(* start_polling *)

\* "Already polling!" is raised unless the handle is None ...
StartCheck(c) ==
    /\ cpc[c] = "idle"
    /\ handle = None
    /\ started < MaxStarts
    /\ Call(c, "start")
    /\ UNCHANGED <<handle, stopFlag, pollId, shc, tpc, held, started, target,
                   told, late, faults>>

\* ... a new thread takes its place ...
CreateThread(c) ==
    /\ cpc[c] = "start"
    /\ IF started < MaxStarts
         THEN /\ started' = started + 1
              /\ handle' = started + 1
              /\ Call(c, "launch")
         ELSE /\ Call(c, "idle")
              /\ UNCHANGED <<started, handle>>
    /\ UNCHANGED <<stopFlag, pollId, shc, tpc, held, target, told, late, faults>>

\* Variant: the new thread takes back an earlier stop (for OnePoller).
StartThreadAnew(c) ==
    /\ cpc[c] = "launch"
    /\ Call(c, "idle")
    /\ handle # None
    /\ Goto(handle, "loop")
    /\ stopFlag' = FALSE
    /\ UNCHANGED <<handle, pollId, shc, held, started, target, told, late, faults>>

\* ... and is started: the one the handle names by now.  If a thread that ends
\* late has cleared the handle, or a start that overlaps this one has been
\* quicker, start_polling() raises.  The stop flag keeps its value.
StartThread(c) ==
    /\ cpc[c] = "launch"
    /\ Call(c, "idle")
    /\ IF handle # None /\ tpc[handle] = "unborn"
         THEN Goto(handle, "loop")
         ELSE UNCHANGED tpc
    /\ UNCHANGED <<handle, stopFlag, pollId, shc, held, started, target, told,
                   late, faults>>

-----------------------------------------------------------------------------
(* stop_polling *)

\* Variant: the flag is not set (for NoRunawayThread).
StopCallUnflagged(c) ==
    /\ cpc[c] = "idle"
    /\ handle # None
    /\ target' = [target EXCEPT ![c] = handle]
    /\ told' = told \cup Alive
    /\ Call(c, "join")
    /\ UNCHANGED <<handle, stopFlag, pollId, shc, tpc, held, started, late, faults>>

\* "Not polling!" is raised if the handle is None.
StopCall(c) ==
    /\ cpc[c] = "idle"
    /\ handle # None
    /\ target' = [target EXCEPT ![c] = handle]
    /\ stopFlag' = TRUE
    /\ told' = told \cup Alive
    /\ Call(c, "join")
    /\ UNCHANGED <<handle, pollId, shc, tpc, held, started, late, faults>>

\* join() returns, perhaps because its timeout has passed; it raises for a
\* thread that an overlapping start has not started yet.
Joined(c) ==
    /\ cpc[c] = "join"
    /\ \/ /\ tpc[target[c]] \in {"dead", "unborn"}
          /\ UNCHANGED <<late, faults>>
       \/ /\ target[c] \in Alive
          /\ Fault
          /\ late' = late \cup {target[c]}
    /\ Call(c, IF tpc[target[c]] = "unborn" THEN "idle" ELSE "unsubscribe")
    /\ UNCHANGED <<handle, stopFlag, pollId, shc, tpc, held, started, target,
                   told>>

\* _maybe_unsubscribe; when the request fails its exception leaves
\* stop_polling() with the handle and the poll id as they are.
StopUnsubscribe(c) ==
    /\ cpc[c] = "unsubscribe"
    /\ \/ /\ subs' = subs \ {pollId}
          /\ Call(c, "finish")
          /\ UNCHANGED faults
       \/ /\ pollId # None
          /\ Fault
          /\ Call(c, "idle")
          /\ UNCHANGED subs
    /\ UNCHANGED <<handle, stopFlag, pollId, issued, lost, tpc, held, started,
                   target, told, late>>

StopFinish(c) ==
    /\ cpc[c] = "finish"
    /\ handle' = None
    /\ pollId' = None
    /\ Call(c, "idle")
    /\ UNCHANGED <<stopFlag, shc, tpc, held, started, target, told, late, faults>>

-----------------------------------------------------------------------------
(* polling_thread_main and _long_poll *)

\* Variant: the flag is looked at only before a subscribe (for StopReturns).
LoopTopHurried(t) ==
    /\ tpc[t] = "loop"
    /\ held' = [held EXCEPT ![t] = pollId]
    /\ Goto(t, IF pollId # None THEN "poll"
               ELSE IF stopFlag THEN "finally" ELSE "subscribe")
    /\ UNCHANGED <<handle, stopFlag, pollId, shc, started, caller, told, late, faults>>

LoopTop(t) ==
    /\ tpc[t] = "loop"
    /\ held' = [held EXCEPT ![t] = IF stopFlag THEN None ELSE pollId]
    /\ Goto(t, IF stopFlag THEN "finally"
               ELSE IF pollId = None THEN "subscribe" ELSE "poll")
    /\ UNCHANGED <<handle, stopFlag, pollId, shc, started, caller, told, late, faults>>

\* The SHC hands out a subscription ...
Grant(t) ==
    /\ tpc[t] = "subscribe"
    /\ issued < MaxSubs
    /\ issued' = issued + 1
    /\ subs' = subs \cup {issued + 1}
    /\ held' = [held EXCEPT ![t] = issued + 1]
    /\ Goto(t, "subscribed")
    /\ UNCHANGED <<handle, stopFlag, pollId, lost, started, caller, told, late, faults>>

\* (once it has handed out MaxSubs, it answers with an error) ...
Refuse(t) ==
    /\ tpc[t] = "subscribe"
    /\ issued = MaxSubs
    /\ Goto(t, "sleep")
    /\ UNCHANGED <<handle, stopFlag, pollId, shc, held, started, caller, told, late, faults>>

\* Variant: the id is off by one (for TypeOK).
SubscribedNext(t) ==
    /\ tpc[t] = "subscribed"
    /\ pollId' = held[t] + 1
    /\ Goto(t, "poll")
    /\ UNCHANGED <<handle, stopFlag, shc, held, started, caller, told, late, faults>>

\* ... whose id the thread stores and polls with.
Subscribed(t) ==
    /\ tpc[t] = "subscribed"
    /\ pollId' = held[t]
    /\ Goto(t, "poll")
    /\ UNCHANGED <<handle, stopFlag, shc, held, started, caller, told, late, faults>>

PollOk(t) ==
    /\ tpc[t] = "poll"
    /\ held[t] \in subs
    /\ Goto(t, "loop")
    /\ UNCHANGED <<handle, stopFlag, pollId, shc, held, started, caller, told, late, faults>>

\* -32001: the SHC does not know the id (any more).
PollStale(t) ==
    /\ tpc[t] = "poll"
    /\ held[t] \notin subs
    /\ pollId' = None
    /\ Goto(t, "sleep")
    /\ UNCHANGED <<handle, stopFlag, shc, held, started, caller, told, late, faults>>

\* An exception of any other kind: wait 15 seconds.
RequestFails(t) ==
    /\ tpc[t] \in {"subscribe", "subscribed", "poll"}
    /\ Fault
    /\ lost' = IF tpc[t] = "subscribed" THEN lost \cup {held[t]} ELSE lost
    /\ Goto(t, "sleep")
    /\ UNCHANGED <<handle, stopFlag, pollId, subs, issued, held, started,
                   caller, told, late>>

\* The reply to the subscribe is lost with its connection: the request layer
\* sends it again.
Retried(t) ==
    /\ tpc[t] = "subscribed"
    /\ Fault
    /\ lost' = lost \cup {held[t]}
    /\ Goto(t, "subscribe")
    /\ UNCHANGED <<handle, stopFlag, pollId, subs, issued, held, started,
                   caller, told, late>>

\* A RuntimeError, e.g. a callback that calls stop_polling() and so joins its
\* own thread: the flag is set, one unsubscribe is tried.  At "poll" the thread
\* may be handling what was polled, where callbacks run; that of a callback
\* which the re-read calls is only logged (session.py:214).
MeetsRuntimeError(t) ==
    /\ tpc[t] \in {"subscribe", "poll"}
    /\ Fault
    /\ stopFlag' = TRUE
    /\ told' = told \cup Alive
    /\ Goto(t, "unsubscribe")
    /\ UNCHANGED <<handle, pollId, shc, held, started, caller, late>>

ThreadUnsubscribe(t) ==
    /\ tpc[t] = "unsubscribe"
    /\ \/ /\ subs' = subs \ {pollId}
          /\ pollId' = None
          /\ UNCHANGED faults
       \/ /\ pollId # None
          /\ Fault
          /\ UNCHANGED <<subs, pollId>>
    /\ Goto(t, "loop")
    /\ UNCHANGED <<handle, stopFlag, issued, lost, held, started, caller, told, late>>

Wake(t) ==
    /\ tpc[t] = "sleep"
    /\ Goto(t, "loop")
    /\ UNCHANGED <<handle, stopFlag, pollId, shc, held, started, caller, told, late, faults>>

\* Variant: the handle stays (for NoLockout).
FinallyKeeps(t) ==
    /\ tpc[t] = "finally"
    /\ Goto(t, "dead")
    /\ UNCHANGED <<handle, stopFlag, pollId, shc, held, started, caller, told,
                   late, faults>>

\* Variant: the poll id goes too (for NoSubscriptionForgotten).
FinallyForgets(t) ==
    /\ tpc[t] = "finally"
    /\ handle' = None
    /\ pollId' = None
    /\ Goto(t, "dead")
    /\ UNCHANGED <<stopFlag, shc, held, started, caller, told, late, faults>>

\* The finally block clears the handle, whichever thread it names.
Finally(t) ==
    /\ tpc[t] = "finally"
    /\ handle' = None
    /\ Goto(t, "dead")
    /\ UNCHANGED <<stopFlag, pollId, shc, held, started, caller, told, late, faults>>

-----------------------------------------------------------------------------
\* The SHC forgets a subscription.
Rotate(id) ==
    /\ subs' = subs \ {id}
    /\ UNCHANGED <<handle, stopFlag, pollId, issued, lost, tpc, held, started,
                   caller, told, late, faults>>

ThreadStep(t) ==
    \/ LoopTop(t) \/ Grant(t) \/ Refuse(t) \/ Subscribed(t) \/ PollOk(t)
    \/ PollStale(t) \/ ThreadUnsubscribe(t) \/ Wake(t) \/ Finally(t)

StopStep(c) == Joined(c) \/ StopUnsubscribe(c) \/ StopFinish(c)

Next ==
    \/ \E c \in Callers : StartCheck(c) \/ CreateThread(c) \/ StartThread(c) \/ StopCall(c) \/ StopStep(c)
    \/ \E t \in Threads : ThreadStep(t) \/ RequestFails(t) \/ Retried(t) \/ MeetsRuntimeError(t)
    \/ \E id \in subs : Rotate(id)

Spec == Init /\ [][Next]_vars

\* Threads are scheduled, requests end (they carry timeouts), and so does a join.
FairSpec ==
    /\ Spec
    /\ \A t \in Threads : WF_vars(ThreadStep(t))
    /\ \A c \in Callers : WF_vars(StopStep(c))

-----------------------------------------------------------------------------
\* "a dead thread doesn't permanently block start_polling()" (session.py:353):
\* the handle never names a thread that has ended.
NoLockout == handle # None => tpc[handle] # "dead"

\* A thread that has lost its handle, so that no stop_polling() can reach it,
\* is already bound to end: the flag stays set once a stop has been asked for.
NoRunawayThread == \A t \in Alive : handle = t \/ stopFlag

\* Two threads never talk to the SHC at a time, even when the join of the
\* first timed out and a second was started meanwhile.
OnePoller ==
    Cardinality({t \in Threads :
        tpc[t] \in {"subscribe", "subscribed", "poll", "unsubscribe"}}) <= 1

\* The session never forgets the id of a subscription that the SHC still
\* holds, unless a join timed out; clearing it in the finally block would leak
\* "the SHC-side long-poll subscription on every clean stop" (session.py:356).
NoSubscriptionForgotten ==
    late = {} => \A id \in subs :
        \/ id = pollId \/ id \in lost
        \/ \E t \in Threads : tpc[t] = "subscribed" /\ held[t] = id

\* A thread ends only after a stop_polling() or a RuntimeError of its own time:
\* clearing the handle restores "the ability to restart polling"
\* (CHANGELOG.md:101).
EndsOnlyWhenTold == \A t \in Threads : tpc[t] = "dead" => t \in told

\* stop_polling() returns, with the thread at its end unless the join timed out.
StopReturns ==
    \A c \in Callers, t \in Threads :
        (cpc[c] = "join" /\ target[c] = t) ~> (cpc[c] = "idle" /\ (tpc[t] = "dead" \/ t \in late))
=============================================================================
