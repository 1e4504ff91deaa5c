------------------------------ MODULE LongPoll ------------------------------
(***************************************************************************)
(* How the library keeps its cached device-service states and its          *)
(* listeners in step with the Smart Home Controller (SHC).                 *)
(*                                                                         *)
(* One poller (the SHCPollingThread of SHCSession, the SHCAsyncPollingTask *)
(* of SHCSessionAsync) subscribes at the SHC, long-polls it for events,    *)
(* stores each event in the object it belongs to and runs that object's    *)
(* callbacks.  The SHC forgets subscriptions (about once a day); the       *)
(* poller then subscribes again and re-reads every device service, because *)
(* what changed in between is not delivered.  Meanwhile the application    *)
(* may refresh a service on demand, with device.update().                  *)
(*                                                                         *)
(* A state of the SHC is abstracted to a version: Change(o) gives object o *)
(* its next version.  seen[o] is the version the slowest listener of o has *)
(* been called for.  Starting twice, stopping and the thread or task       *)
(* itself belong to the lifecycle modules.                                 *)
(***************************************************************************)
EXTENDS Integers, FiniteSets

CONSTANTS
    Services,      \* device services: re-read after a resubscribe
    Domains,       \* intrusion system, user defined states, emma: never re-read
    DeviceOf,      \* the device a service belongs to
    Flavours,      \* "sync" (SHCSession), "async" (SHCSessionAsync) or both
    Faults,        \* the failures the environment may inject
    MaxVersion,    \* bound: changes of one object
    MaxRotations,  \* bound: subscriptions the SHC forgets
    MaxFaults,     \* bound: failures in one behaviour
    MaxGets        \* bound: on-demand refreshes by the application

FaultKinds == {"subscribe", "poll", "reply", "event", "handler", "get"}

ASSUME ObjectsAssumption == Services \cap Domains = {}
ASSUME FlavoursAssumption == Flavours \subseteq {"sync", "async"}
ASSUME FaultsAssumption == Faults \subseteq FaultKinds
ASSUME BoundsAssumption ==
    /\ MaxVersion \in Nat
    /\ MaxRotations \in Nat
    /\ MaxFaults \in Nat
    /\ MaxGets \in Nat

Objects  == Services \cup Domains
Versions == 0 .. MaxVersion
Events   == Objects \X Versions

VARIABLES
    server,     \* SHC: current version of each object
    live,       \* SHC: the last subscription it handed out is still valid
    queue,      \* SHC: events waiting for the next poll of that subscription
    cache,      \* _raw_state of each object
    seen,       \* version of the last callback run for each object
    recent,     \* services whose _last_update is less than a second old
    pc,         \* where the poller is
    hasId,      \* _poll_id is not None
    resub,      \* the local flag "resubscribed" of this iteration
    batch,      \* raw_results not handled yet
    hand,       \* the result being handled or the service being refreshed
    todo,       \* services the refresh has not reached yet
    app,        \* on-demand GETs answered by the SHC but not stored yet
    missed,     \* history: objects whose latest change was lost
    failed,     \* history: the kinds of failures so far
    flavour,    \* which of the two sessions this is
    rotations, faults, gets   \* how much of each bound is used

vars == <<server, live, queue, cache, seen, recent, pc, hasId, resub, batch,
          hand, todo, app, missed, failed, flavour, rotations, faults, gets>>
shc     == <<server, live, queue>>
client  == <<cache, seen, recent>>
rest    == <<failed, flavour, rotations, faults, gets>>

-----------------------------------------------------------------------------
Current(o) == <<o, server[o]>>
Fresh(o)   == cache[o] = server[o] /\ seen[o] = server[o]

\* A service that stays stale if the poller now forgets about it.
Stranded(S) == {o \in S : ~Fresh(o) /\ live /\ Current(o) \notin queue}

\* Variant: what is no service is re-read too (for TypeOK).
ReReadAll == IF resub THEN Objects ELSE {}

\* What this iteration re-reads after its batch.
ReRead == IF resub THEN Services ELSE {}

Siblings(s) == {t \in Services : DeviceOf[t] = DeviceOf[s]}

\* Variant: the batch is handled in any order (for NoSilentLoss).
InAnyOrder(e) == e \in batch

\* Events of one object are handled in the order the SHC listed them.
IsNext(e) == \A f \in batch : f[1] = e[1] => e[2] <= f[2]

Fail(kind) ==
    /\ kind \in Faults
    /\ faults < MaxFaults
    /\ faults' = faults + 1
    /\ failed' = failed \cup {kind}

\* Variant: a pause shorter than the throttle (for RefreshNeverThrottled).
BriefSleep == pc' = "sleep" /\ UNCHANGED recent

\* time.sleep(1) and time.sleep(15) both outlast the one-second throttle.
Sleep == pc' = "sleep" /\ recent' = {}

TypeOK ==
    /\ server \in [Objects -> Versions]
    /\ live \in BOOLEAN
    /\ queue \subseteq Events
    /\ cache \in [Objects -> Versions]
    /\ seen \in [Objects -> Versions]
    /\ recent \subseteq Services
    /\ pc \in {"off", "idle", "poll", "process", "notify", "refresh",
               "fetched", "announce", "sleep", "stopped"}
    /\ hasId \in BOOLEAN
    /\ resub \in BOOLEAN
    /\ batch \subseteq Events
    /\ hand \subseteq Events
    /\ todo \subseteq Services
    /\ app \subseteq Services \X Versions
    /\ missed \subseteq Objects
    /\ failed \subseteq FaultKinds
    /\ flavour \in {"sync", "async"}
    /\ rotations \in Nat
    /\ faults \in Nat
    /\ gets \in Nat

\* After the enumeration in the constructor (async_init) every object holds
\* the state the SHC had when it was read.
Init ==
    /\ server = [o \in Objects |-> 0]
    /\ live = FALSE
    /\ queue = {}
    /\ cache = [o \in Objects |-> 0]
    /\ seen = [o \in Objects |-> 0]
    /\ recent = {}
    /\ pc = "off"
    /\ hasId = FALSE
    /\ resub = FALSE
    /\ batch = {}
    /\ hand = {}
    /\ todo = {}
    /\ app = {}
    /\ missed = {}
    /\ failed = {}
    /\ flavour \in Flavours
    /\ rotations = 0
    /\ faults = 0
    /\ gets = 0

-----------------------------------------------------------------------------
(* The SHC *)

\* An object changes; a valid subscription gets an event for it.
Change(o) ==
    /\ server[o] < MaxVersion
    /\ server' = [server EXCEPT ![o] = @ + 1]
    /\ queue' = IF live THEN queue \cup {<<o, server[o] + 1>>} ELSE queue
    /\ missed' = missed \ {o}
    /\ UNCHANGED <<live, client, pc, hasId, resub, batch, hand, todo, app, rest>>

\* The SHC forgets the subscription (every 24 hours, or when it reboots).
Rotate ==
    /\ live
    /\ rotations < MaxRotations
    /\ rotations' = rotations + 1
    /\ live' = FALSE
    /\ queue' = {}
    /\ UNCHANGED <<server, client, pc, hasId, resub, batch, hand, todo, app,
                   missed, failed, flavour, faults, gets>>

\* A new subscription.  Its first poll may repeat the present state of any
\* object (device_service.py, _is_replayed_event) but does not have to
\* (session.py, _long_poll).  An object that is stale and neither repeated
\* nor about to be re-read is missed.
NewSubscription(reread) ==
    /\ live' = TRUE
    /\ hasId' = TRUE
    /\ \E snapshot \in SUBSET Objects :
          /\ queue' = {Current(o) : o \in snapshot}
          /\ missed' = missed \cup
                {o \in Objects \ (reread \cup snapshot) : ~Fresh(o)}

-----------------------------------------------------------------------------
(* The poller *)

\* start_polling: the thread subscribes later, the task's creator at once.
StartPolling ==
    /\ pc = "off"
    /\ pc' = "idle"
    /\ resub' = FALSE
    /\ IF flavour = "sync"
         THEN UNCHANGED <<live, queue, hasId, missed>>
         ELSE NewSubscription({})
    /\ UNCHANGED <<server, client, batch, hand, todo, app, rest>>

\* Variant: no re-read after a resubscribe, as before #183 (for
\* ServicesSurviveRotation).
SubscribeOnly ==
    /\ pc = "idle"
    /\ ~hasId
    /\ NewSubscription({})
    /\ resub' = FALSE
    /\ pc' = "poll"
    /\ UNCHANGED <<server, client, batch, hand, todo, app, rest>>

Subscribe ==
    /\ pc = "idle"
    /\ ~hasId
    /\ NewSubscription(Services)
    /\ resub' = TRUE
    /\ pc' = "poll"
    /\ UNCHANGED <<server, client, batch, hand, todo, app, rest>>

\* long_polling_subscribe raises: the generic handler waits and tries again.
SubscribeFails ==
    /\ pc = "idle"
    /\ ~hasId
    /\ Fail("subscribe")
    /\ Sleep
    /\ UNCHANGED <<shc, cache, seen, hasId, resub, batch, hand, todo, app,
                   missed, flavour, rotations, gets>>

Poll ==
    /\ pc = "idle"
    /\ hasId
    /\ resub' = FALSE
    /\ pc' = "poll"
    /\ UNCHANGED <<shc, client, hasId, batch, hand, todo, app, missed, rest>>

\* The SHC answers with what it has queued, or with nothing on timeout.
PollReply ==
    /\ pc = "poll"
    /\ live
    /\ batch' = queue
    /\ queue' = {}
    /\ pc' = "process"
    /\ UNCHANGED <<server, live, client, hasId, resub, hand, todo, app, missed,
                   rest>>

\* Variant: the unknown poll id is kept (for StaleIsRepaired).
PollStaleKeepsId ==
    /\ pc = "poll"
    /\ ~live
    /\ Sleep
    /\ UNCHANGED <<shc, cache, seen, hasId, resub, batch, hand, todo, app,
                   missed, rest>>

\* JSON-RPC error -32001: the SHC does not know this poll id.
PollStale ==
    /\ pc = "poll"
    /\ ~live
    /\ hasId' = FALSE
    /\ Sleep
    /\ UNCHANGED <<shc, cache, seen, resub, batch, hand, todo, app, missed,
                   rest>>

\* Any other error of the poll; with "reply" the answer is lost on its way.
\* The poll id survives, the flag "resubscribed" does not.
PollFails ==
    /\ pc = "poll"
    /\ \/ /\ Fail("poll")
          /\ UNCHANGED queue
       \/ /\ Fail("reply")
          /\ live
          /\ queue' = {}
    /\ missed' = missed \cup Stranded(ReRead)
                        \cup {o \in Objects : ~Fresh(o) /\ \E e \in queue \ queue' : e[1] = o}
    /\ Sleep
    /\ UNCHANGED <<server, live, cache, seen, hasId, resub, batch, hand, todo,
                   app, flavour, rotations, gets>>

\* The connection drops after the SHC has taken the events off its queue: the
\* request is sent again, and the answer to that does not hold them any more.
PollRetried ==
    /\ pc = "poll"
    /\ live
    /\ Fail("reply")
    /\ queue' = {}
    /\ missed' = missed \cup
          {o \in Objects \ ReRead : ~Fresh(o) /\ \E e \in queue : e[1] = o}
    /\ UNCHANGED <<server, live, client, pc, hasId, resub, batch, hand, todo,
                   app, flavour, rotations, gets>>

\* process_long_polling_poll_result: first the state ...
StoreEvent ==
    /\ pc = "process"
    /\ \E e \in batch :
          /\ IsNext(e)
          /\ cache' = [cache EXCEPT ![e[1]] = e[2]]
          /\ batch' = batch \ {e}
          /\ hand' = {e}
    /\ pc' = "notify"
    /\ UNCHANGED <<shc, seen, recent, hasId, resub, todo, app, missed, rest>>

\* A service stores no event that has no state, or a state of another @type
\* than the one it holds, and calls nobody.
IgnoreEvent ==
    /\ pc = "process"
    /\ Fail("event")
    /\ \E e \in batch :
          /\ IsNext(e)
          /\ e[1] \in Services
          /\ batch' = batch \ {e}
          /\ missed' = missed \cup Stranded({o \in {e[1]} \ ReRead : e = Current(o)})
    /\ UNCHANGED <<shc, client, pc, hasId, resub, hand, todo, app, flavour,
                   rotations, gets>>

\* Variant: no callback is called (for UndisturbedMeansCurrent).
KeepQuiet(o) == hand' = {} /\ UNCHANGED <<seen, missed>>

\* ... then the callbacks, which read whatever the cache holds by then.
Announce(o) ==
    /\ seen' = [seen EXCEPT ![o] = cache[o]]
    /\ missed' = IF cache[o] = server[o] THEN missed \ {o} ELSE missed
    /\ hand' = {}

Notify ==
    /\ pc = "notify"
    /\ \E e \in hand : Announce(e[1])
    /\ pc' = "process"
    /\ UNCHANGED <<shc, cache, recent, hasId, resub, batch, todo, app, rest>>

\* A handler or a callback raises: the rest of the batch, already taken off
\* the SHC's queue, is dropped, and so is the refresh that was due.
DropBatch ==
    /\ Fail("handler")
    /\ batch # {} \/ hand # {}
    /\ batch' = {}
    /\ hand' = {}
    /\ missed' = missed \cup
          Stranded(ReRead \cup {o \in Objects : \E e \in batch \cup hand : e[1] = o})

HandlerRaises ==
    /\ pc \in {"process", "notify"}
    /\ DropBatch
    /\ Sleep
    /\ UNCHANGED <<shc, cache, seen, hasId, resub, todo, app, flavour, rotations, gets>>

\* A RuntimeError ends the thread, after one attempt to unsubscribe.
HandlerStops ==
    /\ flavour = "sync"
    /\ pc \in {"process", "notify"}
    /\ DropBatch
    /\ pc' = "stopped"
    /\ \/ hasId' = FALSE /\ live' = FALSE /\ queue' = {}
       \/ UNCHANGED <<hasId, live, queue>>
    /\ UNCHANGED <<server, client, resub, todo, app, flavour, rotations, gets>>

EndBatch ==
    /\ pc = "process"
    /\ batch = {}
    /\ pc' = IF resub THEN "refresh" ELSE "idle"
    /\ todo' = ReRead
    /\ UNCHANGED <<shc, client, hasId, resub, batch, hand, app, missed, rest>>

\* short_poll(fire_callbacks=True): the GET is answered ...
RefreshFetch(s) ==
    /\ pc = "refresh"
    /\ s \in todo \ recent
    /\ hand' = {Current(s)}
    /\ todo' = todo \ {s}
    /\ pc' = "fetched"
    /\ UNCHANGED <<shc, client, hasId, resub, batch, app, missed, rest>>

\* ... or not sent at all, less than a second after the previous one ...
RefreshThrottled(s) ==
    /\ pc = "refresh"
    /\ s \in todo \cap recent
    /\ todo' = todo \ {s}
    /\ missed' = missed \cup Stranded({s})
    /\ UNCHANGED <<shc, client, pc, hasId, resub, batch, hand, app, rest>>

\* ... or fails, and the rest of the device is skipped.
RefreshFails(s) ==
    /\ pc = "refresh"
    /\ s \in todo \ recent
    /\ Fail("get")
    /\ todo' = todo \ Siblings(s)
    /\ missed' = missed \cup Stranded(todo \cap Siblings(s))
    /\ UNCHANGED <<shc, client, pc, hasId, resub, batch, hand, app,
                   flavour, rotations, gets>>

RefreshStore ==
    /\ pc = "fetched"
    /\ \E e \in hand :
          /\ cache' = [cache EXCEPT ![e[1]] = e[2]]
          /\ recent' = recent \cup {e[1]}
    /\ pc' = "announce"
    /\ UNCHANGED <<shc, seen, hasId, resub, batch, hand, todo, app, missed, rest>>

RefreshNotify ==
    /\ pc = "announce"
    /\ \E e \in hand : Announce(e[1])
    /\ pc' = "refresh"
    /\ UNCHANGED <<shc, cache, recent, hasId, resub, batch, todo, app, rest>>

\* A callback raises during the refresh: the rest of the device is skipped.
RefreshRaises ==
    /\ pc = "announce"
    /\ Fail("handler")
    /\ \E e \in hand :
          /\ todo' = todo \ Siblings(e[1])
          /\ missed' = missed \cup Stranded({e[1]} \cup (todo \cap Siblings(e[1])))
    /\ hand' = {}
    /\ pc' = "refresh"
    /\ UNCHANGED <<shc, client, hasId, resub, batch, app, flavour, rotations, gets>>

EndRefresh ==
    /\ pc = "refresh"
    /\ todo = {}
    /\ pc' = "idle"
    /\ UNCHANGED <<shc, client, hasId, resub, batch, hand, todo, app, missed, rest>>

Wake ==
    /\ pc = "sleep"
    /\ pc' = "idle"
    /\ UNCHANGED <<shc, client, hasId, resub, batch, hand, todo, app, missed, rest>>

-----------------------------------------------------------------------------
(* The application *)

\* Threads interleave anywhere, coroutines only where the poller awaits: its
\* requests, and in a batch the request for the services of a new device.  A
\* state is stored and announced without an await in between.
AppMayRun == flavour = "sync" \/ pc \notin {"notify", "announce"}

\* device.update(): the same short_poll, without callbacks.
AppFetch(s) ==
    /\ AppMayRun
    /\ s \notin recent
    /\ gets < MaxGets
    /\ gets' = gets + 1
    /\ app' = app \cup {Current(s)}
    /\ UNCHANGED <<shc, client, pc, hasId, resub, batch, hand, todo, missed,
                   failed, flavour, rotations, faults>>

\* The reply overwrites whatever has been stored since the SHC answered.
AppStore(e) ==
    /\ AppMayRun
    /\ app' = app \ {e}
    /\ cache' = [cache EXCEPT ![e[1]] = e[2]]
    /\ recent' = recent \cup {e[1]}
    /\ missed' = IF e[2] = server[e[1]] /\ seen[e[1]] = server[e[1]]
                   THEN missed \ {e[1]}
                   ELSE missed \cup {e[1]}
    /\ UNCHANGED <<shc, seen, pc, hasId, resub, batch, hand, todo, rest>>

\* A second has passed since the last refresh of s.
Tick(s) ==
    /\ recent' = recent \ {s}
    /\ UNCHANGED <<shc, cache, seen, pc, hasId, resub, batch, hand, todo, app,
                   missed, rest>>

-----------------------------------------------------------------------------
\* What the poller does when nothing fails.
PollerStep ==
    \/ Subscribe \/ Poll \/ PollReply \/ PollStale
    \/ StoreEvent \/ Notify \/ EndBatch
    \/ \E s \in Services : RefreshFetch(s) \/ RefreshThrottled(s)
    \/ RefreshStore \/ RefreshNotify \/ EndRefresh \/ Wake

PollerFault ==
    \/ SubscribeFails \/ PollFails \/ PollRetried
    \/ IgnoreEvent \/ HandlerRaises \/ HandlerStops
    \/ \E s \in Services : RefreshFails(s)
    \/ RefreshRaises

Environment ==
    \/ \E o \in Objects : Change(o)
    \/ Rotate
    \/ \E s \in Services : AppFetch(s)
    \/ \E e \in app : AppStore(e)
    \/ \E s \in recent : Tick(s)

Next == StartPolling \/ PollerStep \/ PollerFault \/ Environment

Spec == Init /\ [][Next]_vars

\* The thread (task) keeps running and the SHC answers a poll, at the latest
\* when the long poll times out.
FairSpec == Spec /\ WF_vars(PollerStep)

-----------------------------------------------------------------------------
(* Why a stale object is not forgotten *)

\* The re-read after a resubscribe is still ahead of s.
RefreshDue(s) ==
    /\ s \in Services
    /\ \/ resub /\ pc \in {"poll", "process", "notify"}
       \/ s \in todo

\* The poller is about to tell o's listeners the current version.
InHand(o) ==
    /\ \E e \in hand : e[1] = o
    /\ \/ pc = "fetched" /\ Current(o) \in hand
       \/ pc \in {"notify", "announce"} /\ cache[o] = server[o]

Recoverable(o) ==
    \/ Current(o) \in queue \cup batch
    \/ ~live
    \/ RefreshDue(o)
    \/ InHand(o)

\* A stale object is always one whose latest change is still on its way (in a
\* queue, in the batch, in the hands of the poller, behind a resubscribe), or
\* one that a failure, a throttled or silent refresh or a resubscribe without
\* re-read is known to have cost its change: nothing else loses a change
\* (session.py _long_poll, device_service.py short_poll).
NoSilentLoss ==
    pc # "stopped" =>
        \A o \in Objects : Fresh(o) \/ Recoverable(o) \/ o \in missed

\* As long as at most subscribe requests have failed and the application has
\* not refreshed on its own, the sync session has lost no change of a device
\* service, whatever the SHC rotates: the resubscribe re-reads them all (#183,
\* session.py:195-219).
Undisturbed == failed \subseteq {"subscribe"} /\ gets = 0

ServicesSurviveRotation ==
    flavour = "sync" /\ Undisturbed => missed \cap Services = {}

\* The one-second throttle of short_poll never swallows part of the re-read
\* that follows a resubscribe: the poller slept at least as long before it.
RefreshNeverThrottled == gets = 0 => todo \cap recent = {}

\* "Refresh all device-service states after a poll-id resubscribe (#183) ...
\* so listeners receive current state" (session.py:196): at the top of the
\* loop, with a valid subscription and nothing on its way, every service is up
\* to date.
QuietMeansCurrent ==
    pc = "idle" /\ live /\ queue = {} /\ app = {}
        => \A s \in Services : Fresh(s)

\* What of that the sync session keeps while it is undisturbed.
UndisturbedMeansCurrent ==
    flavour = "sync" /\ Undisturbed => QuietMeansCurrent

\* The claim itself, once the SHC has forgotten a subscription.
ResubscribeRefreshesAll == rotations > 0 => QuietMeansCurrent

\* A change that no failure swallowed reaches the listeners, across any
\* number of rotations, unless a RuntimeError ends the poller first.
StaleIsRepaired ==
    \A o \in Objects :
        (pc # "off" /\ ~Fresh(o) /\ o \notin missed)
            ~> (Fresh(o) \/ o \in missed \/ pc = "stopped")
=============================================================================
