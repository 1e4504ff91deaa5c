# A verification project for boschshcpy

boschshcpy is a Python client for the Bosch Smart Home Controller (SHC). It
enumerates the controller's devices, keeps their state up to date by long
polling, runs callbacks when something changes and writes commands back. There
are two variants of almost everything: `SHCSession` with a polling *thread* and
`requests`, `SHCSessionAsync` with an asyncio *task* and `aiohttp`.

This directory holds TLA+ models of the parts where order, failure and
concurrency matter, the TLC runs that check them, and proofs checked by TLAPS.
`PROJECT.json` maps every definition to the lines it models and lists runs,
mutants, hazards and theorems.

## The system

| Part | State | Operations | Interacts with |
|---|---|---|---|
| `session.py` `SHCSession` | `_poll_id`, `_polling_thread`, `_stop_polling_thread`, the dictionaries of devices, services, rooms, scenarios, messages, user defined states, `_subscribers`, callbacks | enumeration, `start_polling`, `stop_polling`, `_long_poll`, dispatch of events, `subscribe...` | SHC through `SHCAPI`; devices; callbacks of the application |
| `session_async.py` `SHCSessionAsync` | the same, with `_poll_task` and `_stop_polling` | the same as coroutines, `close` of the HTTP session | event loop, `SHCAPIAsync` |
| `device.py`, `device_service.py` | `_raw_device`, `_raw_device_service`, `_raw_state`, `_last_update`, callbacks, event baseline | `process_long_polling_poll_result`, `short_poll`, `update`, `update_raw_information`, `put_state`, `set_profile` | called by the session's poller and by the application at the same time |
| `device_helper.py` | `_devices_by_model` | `device_init`, one view per model | session |
| `api.py`, `api_async.py` | HTTP session | REST and JSON-RPC requests, one retry after a dropped connection, errors to exceptions | SHC |
| `domain_impl.py`, `emma.py`, `userdefinedstate.py` | raw states, callbacks | event handling, arming, setters | session |
| `services_impl.py`, `models_impl.py` | none of their own | typed getters; writes, some merged from the cached state | device services |
| `message.py`, `room.py`, `scenario.py`, `information.py` | raw data | getters, discovery | session |
| `register_client.py`, `certificate.py`, `generate_cert.py`, `rawscan.py` | none | registration, certificates, a command line tool | SHC |

What is hard here: the poller and the application share every object without
locks; a subscription at the SHC disappears about once a day and what changed in
between is not delivered; one exception anywhere in a batch of events skips the
rest of it; requests are repeated after a dropped connection; threads and tasks
are started, stopped, cancelled and restarted while requests are under way. The
complete list, by line, is under "hazards" in `PROJECT.json`, each with the
properties that a loss of its protection would violate. Where the code has no
protection, an entry has a note instead: the step is in the model, a history
variable (`missed`, `cut`, `lost`, `late`, `behind`) records what it costs, and the
invariants that name that variable say that nothing *else* costs anything.

What makes each part correct:

- *State synchronisation*: a state that changed at the SHC reaches the cache and
  the listeners, or its loss has a known cause.
- *Lifecycle*: at most one poller, one that can always be stopped, no
  subscription left behind at the SHC, a stop that returns.
- *Registry*: the devices of the session are those of the SHC; subscribers learn
  of every new one; who holds a removed device can tell.
- *Events*: one callback per key press, motion or alarm, never one for an old
  event that the SHC lists again.
- *Writes*: a write changes the field it is about and takes no other field back
  to more than the caller saw, however often it is repeated and however late it
  is executed; the cached state follows by the event the write causes.
- *Other events*: the intrusion system, messages, user defined states and EMMA
  are what the SHC last said, and whoever is subscribed hears of it once.

## Modules

| Module | Models | Checked by |
|---|---|---|
| `LongPoll` | one iteration after the other of `_long_poll` (sync) and `_poll_loop_body` (async), `process_long_polling_poll_result`, `short_poll`, `update`, the SHC's queue | `MCLongPoll`, 4 runs; `LongPollProofs` |
| `SyncLifecycle` | `start_polling`, `stop_polling`, `polling_thread_main` with its `finally` | `MCSyncLifecycle`, 2 runs; `SyncLifecycleProofs` |
| `AsyncLifecycle` | `start_polling`, `stop_polling`, `_poll_loop`, cancellation | `MCAsyncLifecycle`, 2 runs; `AsyncLifecycleProofs` |
| `DeviceRegistry` | `_enumerate_services`, `_enumerate_devices`, the "device" events, `_add_device`, `device_init`, subscribers | `MCDeviceRegistry`, 1 run; `DeviceRegistryProofs` |
| `DeviceRoster` | abstract: what an application may rely on that holds on to the device objects of a session | refined by `DeviceRegistry` |
| `EventReplay` | `_process_events`, `_is_replayed_event`, `_is_replayed_value`, `register_event` | `MCEventReplay`, 1 run; `EventReplayProofs` |
| `ServiceCatalogue` | the classes of `services_impl.py` as tables: how every key is read, which keys are written and in which block | used by `DeviceCatalogue` |
| `DeviceCatalogue` | the classes of `models_impl.py`, `MODEL_MAPPING`, the lists of `device_helper.py`: which services a model uses, what it writes itself, of which classes an object is an instance | its `ASSUME`s, evaluated by the run of `MCServiceAccess` |
| `SharedRecord` | abstract: what a client may rely on that writes one field of a record the SHC and others change too | refined by `ServiceAccess` |
| `ServiceAccess` | a setter from its guard to its reply, `put_state`, `set_profile`, `_session_request`, `_retry_once_on_connection_drop`, `short_poll`, the event that brings the change back | `MCServiceAccess`, 1 run; `ServiceAccessProofs` |
| `Dispatch` | `_process_long_polling_poll_result` for everything that is no device: messages, scenarios, intrusion system, user defined states, EMMA, with their subscriptions | `MCDispatch`, 1 run; `DispatchProofs` |

The modules share the SHC and the subscription; each keeps the detail that its
own properties need and abstracts the rest: `LongPoll` has one poller that never
stops by request, the lifecycle modules have no states or events, the registry
and the event module reduce polling to "take the queue over as the next batch",
`ServiceAccess` and `Dispatch` to "the next event is stored, or an exception
drops some of those on their way".

A definition introduced by a comment "Variant:" is no part of a specification:
it is the definition after it with a plausible bug (a dropped guard, a missing
reset, a swapped order). Putting it in the place of the real one makes TLC find
the named property violated, which shows that the property depends on the code.

### LongPoll

`server[o]` is the version of object `o` (a device service, or a *domain*: the
intrusion system, a user defined state, emma), `cache[o]` what `_raw_state`
holds and `seen[o]` the version for which the slowest listener has been called.
`queue` holds the SHC's events of the current subscription, `batch` the results
of the last poll not handled yet, `hand` the event or GET being stored and
announced. `pc` follows the code:

    idle -> (Subscribe) -> poll -> process <-> notify -> refresh -> fetched -> announce -> refresh -> idle
                             \-> sleep -> idle                \-> idle

- `resub` is the local `resubscribed`. It is set by `Subscribe`, reset by `Poll`
  (the next iteration) and therefore lost when the iteration ends in an
  exception: `PollFails`, `HandlerRaises`.
- Events are a set; `IsNext` keeps the order of the events of one object, and
  events of different objects may be handled in any order, since no handler
  reads another object.
- A handler stores `_raw_device_service` and then `_raw_state`; nobody reads the
  first of them between the two, so `StoreEvent` is one step. Storing and
  calling back are two (`StoreEvent`, `Notify`): in the sync session another
  thread may refresh the service in between, in the async one nothing can
  (`AppMayRun`: between the two there is no await). `seen` becomes what the cache
  holds when the callbacks run.
- The throttle of `short_poll` is the set `recent`. `Tick` ends a window at any
  time, and `Sleep` (at least one second) ends all of them.
- `Fail(kind)` injects a failure: a subscribe, a poll, a reply lost on its way
  (also one that the request layer hides by repeating the request,
  `PollRetried`), an event that the service does not store because it has no
  state or one of another `@type` (`IgnoreEvent`), a handler or callback that
  raises, a GET of the re-read. `HandlerStops` is the `RuntimeError` that ends the sync thread.
- `missed` and `failed` are history: an object enters `missed` when its latest
  change is lost for a *known* reason, and leaves it with the next change or
  when it is repaired.

### SyncLifecycle, AsyncLifecycle

Threads (tasks) are numbered in the order of their creation, subscriptions by
the SHC. Every request is two steps, one where the SHC grants it and one where
the client stores the result, so that a stop, a cancellation or a lost reply
falls between them. `lost` holds subscriptions whose id nobody could have
learnt (a reply lost, a repeated subscribe, a failed unsubscribe), `late` the
threads whose join timed out, `told` those that have been asked to end, `strays`
the tasks that somebody other than `stop_polling` cancelled. Cancelling reaches
a task at its next await; a `RuntimeError` ends a thread when it comes from a
subscribe, a poll or the handling of a batch, not from the re-read, which catches
every exception. `start_polling()` makes the thread (`CreateThread`) and then
starts the one that the handle names (`StartThread`): when a thread that ends
late clears the handle in between, the new one is never started. A task
cancelled before its first step never runs, not even its `finally`. `Callers` are the application's threads or coroutines;
the runs have one, since two overlapping `start_polling()` or `stop_polling()`
calls are the application's error, listed as hazards. The proofs have any number
and say what they need of them: that their calls do not overlap.

### DeviceRegistry

The k-th object built for device `d` is `<<d, k>>`, `reg[d]` is the one in
`_devices_by_id` and `helper[d]` the one in `SHCDeviceHelper` (0 for none).
`Listed` are the devices of a model in `SUPPORTED_MODELS`: `device_init` makes a
plain `SHCDevice` of any other and does not enter it in the helper, while the
session registers both.
`flagged` are the objects whose raw device says `deleted`. Events keep their
order per device. When a device is unknown its services are requested
(`NewDevice`), which the SHC may answer (`AddDevice`, `SkipDevice`) or refuse, as
it may for a device that is gone (`FetchFails`); in the async session this is an
await. `missed` are devices with an event lost with a batch or a subscription,
`cut` those with a callback that raised. A device that is deleted leaves the
session, not the helper, as in the code.

`DeviceRoster` is what remains for an application that keeps device objects: its
`current` is `reg`, `made` is `built`, `deleted` is `flagged`. A device that comes
back has a new object, one that left says so for good, nobody is given an object
that is not in use. Batches, fetches, rotations and what gets lost are its
stuttering steps; a callback that raises while its device is being deleted leaves
an `Update` where there should have been a `Leave`.

### EventReplay

Event `n` has the timestamp `n`; alarms have only `log[n]`, their value. The SHC
lists the last state again after a subscription or inside a message, and a
re-read stores it without looking at the event. A service whose snapshot had
none starts without a baseline; that of an alarm is the value `None` then, from
which its first value is an edge. `Ignore` is a state that the service neither
stores nor looks at (none in it, or another `@type`). `Replayed` is the code's test
against the baseline, for timestamps and for values; `Dispatch` moves the
baseline and records in `fired` the callbacks in their order.

### ServiceCatalogue, DeviceCatalogue

One definition per class, with the name of the class. A *way* of reading a key
says what the property returns when the key is absent from the state and when it
holds a value the enumeration of the class lacks: it raises, or answers a
default, `None` or `UNKNOWN`, or hands the value through. A *block* is a write
that sends several fields: `set` are the fields its setters change, `raw` those
copied from the cached state and patched there, the others are filled from their
properties and so get a default where the cached state has none; `guarded` and
`ordered` are the checks before it. `DeviceCatalogue!Class` adds to what a class
does itself what it inherits, as Python does, and its assumptions say that every
service a model names exists, that a model writes only keys of services it uses,
and how the lists of the helper and the classes they build belong together. What
a getter converts (units, percentages, colours) is not modelled, nor is the
wording of what it logs.

### ServiceAccess and SharedRecord

A record has a field `f` that is written and a field `g` that stands for every
other one; `shc` is what the SHC has, `view` the cached state, `queue` the events
between them. A *case* is a kind of write, and `MCServiceAccess` makes one of
every key any model can write alone, one of every pair of fields of every block,
and one of `set_profile`. A request remembers the `view` it was built from:
`Sent` and `Body` are what its body holds, `Applied` what the SHC makes of it.

    idle -> (Set) -> [asked -> (Compose) ->] sent -> (Execute) -> done -> (Answer) -> idle
    sent, done -> (Drop) -> sent, the first time; -> idle, the second
    sent, done -> (TimeOut) -> idle, perhaps (ExecuteLate) later
    sent -> (Reject) -> idle

`Compose` belongs to the blocking block setters, which read the cached state once
for their guard and again for the other fields, with the polling thread in
between. `Assign` is `KeypadService.eventType`, the one setter that sends nothing
and changes the cached state. `Answer` stores for `set_profile` the device the SHC
answered with, or the body that was sent when the answer is empty, which need not
be a record the SHC ever had.

`Drop` is a connection that breaks before or after the SHC executed the request,
which is then sent once more, unchanged. `TimeOut` is not repeated, but the SHC
may still execute the request. `Deliver` stores an event and reads `f` as a
callback would: a property that raises there costs the rest of the batch.
`fresh`, `calm` and `behind` are history: whether the caller saw what the SHC
had, whether nobody interfered since the execution, and whether the cached state
has reason to differ with no event on its way: events were dropped, an answer or
a body was stored that was not current any more, a setter assigned its value
locally.

External and assumed: the SHC keeps the fields a request does not name, and
sends an event exactly when the record changes.

`SharedRecord` says what remains of this for a client that knows nothing of
requests and retries. Its `record` is `shc`, its `writes` are the request under
way and the one that may come late, `known` are the records on their way (the
events, and the answer of a `set_profile`), `rule` what the case says about
guards, defaults and what is stored. `Believed` are the bodies sent: the client
takes one for the record when `set_profile` is answered with nothing. `Set` is
its `Ask` (`Compose` where the other fields are read later), `Assign` its
`Pretend`, `Execute` and `ExecuteLate` are its `TakeEffect`, `Refresh`, `Deliver` and the `Answer` that is stored are its
`Learn`, every other end of a call is its `Forget`. That `g` may go back to what
the caller saw is part of the promise: writes of blocks are merged on the client,
and the library has nothing to detect a change in between.

### Dispatch

What the SHC has under a key is a version in `now`, what the session holds one in
`held`. `Take` stores the next event, `LookUp` reads the callbacks of the next
channel (a scenario and then all scenarios, a state, the system, EMMA, new
states), `Call` calls them one by one. A callback may itself subscribe or
unsubscribe (`CallChanges`), raise (`CallRaises`), and in an `SHCSession` other
threads may do so at any time (`OthersChange`); with asyncio they run only
between two events. `own` marks the lists that are read where they are kept and
not in a copy: those of a state in `SHCSessionAsync`, and the one callback of a
scenario, which is looked for and then read again. `ReadDomain` and `StoreDomain`
are `short_poll` of the intrusion system on another thread, whose answer may be
stored after a newer event; its five assignments are one step, so that an event
handled between two of them counts as overwritten in all parts it names. `missed` collects what a known reason explains: never
read (`lazy=True`), dropped with a batch, written over by such an answer.
Arming, setting a user defined state and triggering a scenario are requests
whose effect comes back as an event: changes of the SHC here.

## What the runs show

| Run | Instance | Shows |
|---|---|---|
| `longpoll` | 2 services of 1 device, 1 domain, both sessions, 1 version, 2 rotations, 1 failure of any kind (also an event that is not stored), 1 on-demand refresh | `NoSilentLoss`: a stale object always has its latest change on its way or lost for a known reason. `ServicesSurviveRotation`, `UndisturbedMeansCurrent`: without failures other than of subscribe requests the sync session loses nothing across rotations and a quiet poller is current. `RefreshNeverThrottled` |
| `longpoll_live` | 1 service, 1 domain, 2 versions, 1 rotation, 1 failure | `StaleIsRepaired`: a change no failure swallowed is eventually announced |
| `longpoll_resubscribe` | 1 service, 1 failing poll | *violation*: the re-read of #183 is lost with the local flag when the first poll after a resubscribe fails |
| `longpoll_async_start` | 1 service, async, no failure | *violation*: nothing is re-read after the async session's first subscribe |
| `sync_lifecycle` | 3 threads, 3 subscriptions, 2 failures | `NoLockout`, `NoRunawayThread`, `OnePoller`, `NoSubscriptionForgotten`, `StopReturns` |
| `sync_restart` | 2 threads, no failure | *violation*: a thread started after a stop ends at once, the flag is never reset |
| `async_lifecycle` | 2 tasks, 3 subscriptions, 2 failures, 1 foreign cancellation | `AtMostOneLoop`, `NoRunawayTask`, `ClosedMeansQuiet`, `NoSubscriptionForgotten`, `StopCleansUpItsOwn`, `StopReturns` |
| `async_stop_refused` | 1 task, 1 foreign cancellation | *violation*: `stop_polling()` raises "Not polling!" and leaves the subscription |
| `device_registry` | 2 devices, one of them `Listed`, 2 subscribers, 4 changes, 1 rotation, 1 failure | `NoSilentDivergence`, `RegisteredIsComplete`, `RegisteredIsNotFlagged`, `EveryoneTold`, and `ImplementsDeviceRoster`, the refinement |
| `event_replay` | 2 keys or alarm values, 3 events, 1 repeat, 1 rotation, 1 failure (a callback, or a state that is not stored) | `NoReplay`, `AlarmEdges`, `NoEventLost`, `OnlyTheFirstIsSwallowed` |
| `service_access` | every kind of write in the tables, values 1 and 2 with defaults 0 and 3, 2 calls, 1 foreign change, 2 faults, 1 re-read | `QuietIsCurrent`: without events on their way the cached state is current, but for the reasons named in `behind`. `RangeStaysValid`: no stale bound inverts a range at the SHC. `UndisturbedWriteKeepsOthers`, `RepeatChangesNothing`, and `ImplementsSharedRecord`, the refinement |
| `dispatch` | 1 message, scenario, state, EMMA, 2 parts of the intrusion system, 2 callbacks, 3 kinds of session, 2 events, 3 subscriptions, 1 raising callback, 1 re-read | `HeldIsCurrent`: what is not current has a known reason. `EagerMissesNothing`: an enumerated session handles every event, but for one scenario callback that vanished. `HeardAsFound`: everyone subscribed is called once |

The four violations are findings: each contradicts a comment, a docstring or
the change log, quoted in `PROJECT.json`.

*Why the bounds are enough.* Services interact only through the device they
share and the batch, so two of one device and one object that is never re-read
show every combination. Two rotations make a resubscribe follow another; one
failure can strike at every step. The liveness run has two versions, so that a
change can arrive while an earlier one is handled. Three threads let a late
thread outlive its successor. Two devices let one event of a batch fail and
another be lost with it; four changes allow pair, remove, pair, edit of one
device, hence a second object for it. Three events allow one before, one inside
and one after a gap. Two calls let a request of the first, given up, be
executed during the second; two faults allow a drop and a timeout of one call;
values 1 and 2 between the defaults 0 and 3 make a range that a default can
invert. Two events let one be dropped or handled behind another, and three
subscriptions let one callback replace itself and another vanish. The theorems
below do not depend on the bounds.

*Deadlock checking is off* in most runs: these systems rest. A polling thread
that has ended, a session that was stopped, a queue without events, an
application that calls no more setters and the bounds on the environment all
leave states in which nothing more has to happen.

*Fairness.* `LongPoll!FairSpec` assumes weak fairness of the poller's
fault-free steps only: the thread or task is scheduled, the SHC answers a poll at
the latest when the long poll times out, and a sleep ends. Nothing is assumed
about the SHC changing or the application. Failures are bounded, never fair. The
lifecycle modules assume the same of every thread or task, and of a
`stop_polling` under way: its join is bounded by a timeout (sync) or waits for a
task that it has cancelled (async), its unsubscribe by the request's timeout.

## What is proved

`LongPollProofs`, for all sets of services and domains, every set of faults,
both sessions and all values of the bounds:

- `TypeCorrect`: `Spec => []TypeOK`
- `NothingLostSilently`: `Spec => []NoSilentLoss`
- `RotationLosesNothing`: `Spec => []ServicesSurviveRotation`
- `ReReadIsNeverThrottled`: `Spec => []RefreshNeverThrottled`
- `QuietIsCurrent`: `Spec => []UndisturbedMeansCurrent`

The assumptions are the four `ASSUME`s of `LongPoll`: services and domains are
disjoint, the sessions and failures are among those the module knows, the
bounds are natural numbers.

The argument. `NoSilentLoss` is not inductive: that an announced object is
current again needs to know what the poller has in its hands. `IInv` adds, next
to the types,

- `Shape`: which local variables are in use at which `pc`, that at most one
  event is in hand, that a dead subscription has no queue, and that a poller
  without a poll id has no live subscription;
- `QueueInv`: if the SHC's queue has an event of an object, it has the latest;
- `BatchInv`: if the batch has an event of an object, its latest event is in the
  batch or in the queue behind it, as long as the subscription lives;
- `HandInv`: what is about to be stored or announced is current, or a newer
  event of the object is on its way, or the object is in `missed` already;
- `ThrottleInv`: as long as the application refreshes nothing, no service is
  inside its throttle window when a re-read begins.

Each part has a lemma that one step keeps it, by cases over the actions
(`TypeStep`, `ShapeStep`, ...), together they give `Inductive` and `Invariance`.
`LossStep` shows that a step from a state with `IInv` keeps `NoSilentLoss`;
`CleanStep` does the same for `ServicesSurviveRotation` and needs the tallies:
`failed` and `gets` only grow, so a behaviour undisturbed now was so before.

`DeviceRegistryProofs`, for all sets of devices and subscribers and all bounds
(assumed to be natural numbers):

- `TypeCorrect`: `Spec => []TypeOK`
- `KnownIsComplete`: `Spec => []RegisteredIsComplete`: what is registered has its
  services, what is registered and of a listed model is what the helper lists, and
  the helper lists nothing else but what says "deleted"
- `GoneSaysDeleted`: `Spec => []GoneIsFlagged`

The strengthening there is `Blank` (no objects before the enumeration) and
`Numbering` (the registered object is one that has been built; the one device
whose services are being fetched is not registered, the one being announced is),
and `Listing`, which says of the helper what `RegisteredIsComplete` does without
the flags: with `GoneIsFlagged` an object that only the helper still has is one
that left. Without `Numbering` a second object could be built over a registered one, which
would leave the session unflagged.

- `SessionConverges`: `Spec => []NoSilentDivergence`
- `FlagsAreTakenBack`: `Spec => []RegisteredIsNotFlagged`
- `SubscribersAreTold`: `Spec => []EveryoneTold`
- `ObjectsDoNotReturn`: `Spec => [][StaysAway]_vars`: an object that has left
  never comes back and never loses its flag
- `RegistryIsARoster`: `Spec => ImplementsDeviceRoster`, hence
  `DeviceRoster!Spec` under the mapping; a lemma per abstract step
  (`RosterEnumerate`, `RosterUpdate`, `RosterJoin`, `RosterTell`) from `IInv`

The first two compare the session with the SHC and are not inductive: that the
session may drop a device now depends on what its event says of the SHC *now*.
`Course` follows the events: `LastWord` says that the last event on its way for
a device, in the queue, else in the batch, else the one the new object is built
from, says "deleted" exactly if the device is not paired; `Converging`, that a
device the session should forget has a deletion among its events, and one it
should know any event at all or a fetch under way. `Phases` (the batch is empty
whenever the next is asked for or a subscription begins) keeps an event of an old
subscription from being the last word under a new one, and `FlagsAreBuilt` (only
objects that exist are flagged) lets a new object start without the flag. An
object that is built *from* a deletion starts with it: `AddedIsRight` derives
from `LastWord` that another event follows.

`SyncLifecycleProofs` and `AsyncLifecycleProofs`, for every set of callers and
all bounds (natural numbers). For callers whose calls overlap as they like:

- `Typing` of both: `Spec => []TypeOK`
- `DeadThreadsHoldNoHandle`: `Spec => []NoLockout`
- `StopsAreForGood`: `Spec => [][StopIsForGood]_vars`: the stop flag is never
  taken back and a thread that has not looked at it before never polls. This is
  what the run `sync_restart` shows of one behaviour, for all of them.

The rest needs calls that do not overlap. `start_polling()` looks at the handle
and acts on it without a lock, in the async session with an await in between, so
two of them can start two pollers; `SerialCalls` says that a call begins only
when no other is under way, and `OneApplicationThread` and `OneApplicationTask`
that it is no assumption where one thread or coroutine makes all calls:

- `Spec /\ []SerialCalls => []NoRunawayThread`, `[]OnePoller`,
  `[]NoSubscriptionForgotten` (`LostThreadsEnd`, `OneThreadPolls`,
  `SubscriptionsAreKept`)
- `Spec /\ []SerialCalls => []AtMostOneLoop`, `[]NoRunawayTask`,
  `[]ClosedMeansQuiet`, `[]NoSubscriptionForgotten`, `[]StopCleansUpItsOwn`
  (`OneLoop`, `NoTaskEscapes`, `ClosedSessionsAreQuiet`, `SubscriptionsAreKept`,
  `StopsCleanUp`)

`Serialised` is the inductive invariant of each. For threads: `OneBusy` (at most
one thread is past its look at the stop flag, though several may be alive after
joins that timed out), `CallInv` (while a stop is under way the flag is set and
the handle is none or the thread it waits for), `PollInv` (nobody but the busy
thread gives the session a poll id) and `JoinInv` (as long as every join saw its
thread end, the handle names the only thread, and a stop forgets only what it has
unsubscribed). For tasks: `HandleInv` (the handle names the only task there is,
because a stop awaits what it cancelled), `FlagInv`, `PollInv`, `IssuedInv`
(which makes a fresh subscription differ from every id held) and `OwnInv` (a
session without a handle has no subscription, as long as nobody else cancels).

`EventReplayProofs`, for every set of values, every choice of the three kinds of
service and all bounds (natural numbers):

- `Typing`: `Spec => []TypeOK`
- `CallbacksRunOnce`: `Spec => []NoReplay`
- `AlarmsRunOnEdges`: `Spec => []AlarmEdges`
- `EventsReachTheirCallback`: `Spec => []NoEventLost`
- `OneEventIsSwallowed`: `Spec => []OnlyTheFirstIsSwallowed`

`Inductive` is `Spec => []IInv`. `OrderInv` says that queue and batch are sorted,
one behind the other, and never older than the baseline, so that a comparison
with the baseline tells a replay; `BaselineInv`, that nothing beyond the baseline
has been handled; `EdgeInv`, that an alarm's baseline has the value its callback
was last called with. `NoEventLost` follows from three parts, of the events
before, at and after the baseline (`Behind`, `AtBaseline`, `Ahead`).

`ServiceAccessProofs`, for every set of cases, every set of values and all
bounds. The assumptions: cases have the type of `CaseType`, those with an order
read and send both bounds together, `set_profile` reads and sends the whole
device, guarded writes are writes of a block; values and defaults are natural numbers, `New` and
`Absent` are neither and differ.

- `TypeCorrect`: `Spec => []TypeOK`
- `CachedStateIsCurrent`: `Spec => []QuietIsCurrent`
- `RangeIsNeverInverted`: `Spec => []RangeStaysValid`
- `WritesKeepOtherFields`: `Spec => UndisturbedWriteKeepsOthers`
- `RepeatIsHarmless`: `Spec => RepeatChangesNothing`
- `Implementation`: `Spec => ImplementsSharedRecord`, hence `SharedRecord!Spec`
  under the mapping

`TypeOK` includes that the last event on its way is the record of the SHC, which
is what `QuietIsCurrent` rests on. It is not enough: `set_profile` stores an
answer or the body it sent, so `IInv` adds `AnswerIsCurrent` (an answer nobody
disturbed is the record) and `SentAsSeen` (a body whose caller saw the record is
the record but for the profile), and for the others `RangesInOrder` (every request, also a late one, was
in order when it was built), `RepeatIsIdle` (after an undisturbed execution the
same request would change nothing) and `FreshKeeps` (a request whose caller saw
the record holds its other field as it is). `SplitHasNoOrder` and `GuardHolds` are
about the setters that read twice: none of them checks a range, and a
configuration that was known to the guard is known to the second read. `Safe` is `Spec => []IInv`. The
refinement is step by step: `EffectMaps` shows what an execution does to be an
effect `SharedRecord` allows, `NewsMap` and `TakenFromFront` that only the SHC
makes news; `InitMaps` and `StepMaps` do the rest.

`DispatchProofs`, for all sets of keys and callbacks, every kind of session and
all bounds (natural numbers); no name of a scenario is one of another channel.

- `TypeCorrect`: `Spec => []TypeOK`
- `HandledMeansCurrent`: `Spec => []HeldIsCurrent`
- `FoundAreHeard`: `Spec => []HeardAsFound`
- `EnumeratedMissesNothing`: `Spec => []EagerMissesNothing`

There are three inductive invariants. `DataInv`: an event of a key has the latest
one at or behind it (`LatestBehind`), and a key is current, missed or its latest
version is coming (`HeldInv`); the same holds of what an answer under way would
store (`AnswerInv`), which is why `Overtake` has to note the events that pass it.
`RunFine`, of the event being handled: a scenario has at most one callback to
call, which cannot vanish under asyncio, and no `SHCSession` reads the callbacks
of a state where they are kept. `EagerInv` puts the tallies next to it.

Every safety property of the runs that pass is proved. Model-checked only:
`StaleIsRepaired` and both `StopReturns`, which are liveness properties (they need
fairness and ENABLED, which the prover does not handle); the tables of the
catalogues, which are finite and evaluated as assumptions; and the four
violations, which are existence claims that one behaviour settles.

## Where code and text differ without a run

These were met while modelling. The models follow the code, and no run refutes
the text:

- `device.py` `_profile_put_body` says "we fetch the current body"; the body is
  the cached `_raw_device` (`ProfileCase`: `fill` is `"raw"`).
- `api.py` 93-97 and `api_async.py` 160-169 say that repeating a request after a
  dropped connection has no risk of double execution. The connection may also
  drop after the SHC executed it; `RepeatChangesNothing` says when that is
  harmless: when nobody changed the record in between.
- `session_async.py` 486-500 names one difference to the sync dispatch. There are
  two more: the callbacks of a user defined state are iterated without a copy
  (578-580), and the intrusion system is a field there, not a property that
  raises.
- `session.py` 268-269 looks for a scenario's callback and then reads it again: a
  thread that unsubscribes in between causes a `KeyError` that costs the rest of
  the batch (`CallVanished`).

## Not modelled

- The values getters convert, the parsing of JSON, dates and EMMA's value, HTTP
  status codes, TLS: formatting and parsing without a state of their own. A getter
  is modelled by what it answers for a missing or an unknown value.
- `information.py`, registration and certificates, `rawscan.py`: one request or
  one search each, printed or returned; nothing later depends on their order.
- Rooms, the records of scenarios: read once, never changed.
- The requests that only return what the SHC says.
- Runs with two callers of `start_polling` or `stop_polling` at a time. Both
  check a handle and act on it (in the async session with an await in between)
  without a lock; the documentation shows one caller, and nothing would keep two
  from starting two pollers. The proofs cover several callers that take turns.
- Two events of one service with the same timestamp, and an SHC clock that is
  set back.
- Two setters of one device at a time. Each would be a caller of its own; what
  the other changes is a foreign change, of which `ServiceAccess` has one.

## Plan

1. An abstract specification of a session (a device state is current or its
   change is pending) that `LongPoll` implements, with its step-by-step proof.
2. A second caller of `start_polling` in the runs of `SyncLifecycle` and
   `AsyncLifecycle`, once the intended behaviour is written down.
