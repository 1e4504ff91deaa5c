---------------------------- MODULE EventReplay ----------------------------
(***************************************************************************)
(* The event callbacks of one device service: the keys of a keypad, a      *)
(* motion detector, an alarm.  The service's state holds its last event,   *)
(* and the SHC lists that state again after each subscription, in messages *)
(* and in re-reads; a callback must run once per event nevertheless.       *)
(* Keypads and motion detectors tell events by their timestamp, alarms     *)
(* have none and are told by a change of their value.                      *)
(*                                                                         *)
(* The service is built while the SHC holds event 0; the n-th event since  *)
(* is the number n.  The timestamp of an event is its number, so no two    *)
(* events of a service share one.  If nothing has ever happened (~stamped) *)
(* event 0 has neither a timestamp nor a key or value.  LongPoll models    *)
(* the polling itself.                                                     *)
(***************************************************************************)
EXTENDS Integers, Sequences

CONSTANTS
    Kinds,          \* "Keypad", "LatestMotion", "Alarm" (also SurveillanceAlarm)
    Values,         \* keys of a keypad, values of an alarm
    MaxEvents,      \* bound: events of the service
    MaxRepeats,     \* bound: states the SHC lists once more
    MaxRotations,   \* bound: subscriptions the SHC forgets
    MaxFaults       \* bound: states that are not stored, callbacks that raise

ASSUME KindsAssumption == Kinds \subseteq {"Keypad", "LatestMotion", "Alarm"}
ASSUME BoundsAssumption ==
    /\ MaxEvents \in Nat
    /\ MaxRepeats \in Nat
    /\ MaxRotations \in Nat
    /\ MaxFaults \in Nat

None == -1

VARIABLES
    kind,       \* the kind of the service
    stamped,    \* something had happened before the service was built
    log,        \* SHC: the values of events 0, 1, ...
    live,       \* SHC: the client's subscription is valid
    queue,      \* SHC: states listed for the next poll
    state,      \* _raw_state: the event it holds
    baseline,   \* the event of _last_event_timestamp or _last_event_value
    listening,  \* values (one key each) in _event_callbacks
    batch,      \* states polled and not handled yet
    fired,      \* history: events a callback was called for, in this order
    ignored,    \* history: events handled without a callback to call
    swallowed,  \* history: events that only established the baseline
    missed,     \* history: events of which no listing has survived
    repeats, rotations, faults

shc     == <<log, live, queue>>
service == <<state, baseline, listening>>
bounds  == <<repeats, rotations, faults>>
vars    == <<kind, stamped, shc, service, batch, fired, ignored, swallowed,
             missed, bounds>>

Numbers    == 0 .. MaxEvents
Last       == Len(log) - 1
ValueOf(n) == log[n + 1]
Members(s) == {s[i] : i \in DOMAIN s}

TypeOK ==
    /\ kind \in Kinds
    /\ stamped \in BOOLEAN
    /\ log \in Seq(Values \cup {None})
    /\ live \in BOOLEAN
    /\ queue \in Seq(Numbers)
    /\ state \in Numbers
    /\ baseline \in Numbers \cup {None}
    /\ listening \subseteq Values
    /\ batch \in Seq(Numbers)
    /\ fired \in Seq(Numbers)
    /\ ignored \subseteq Numbers
    /\ swallowed \subseteq Numbers
    /\ missed \subseteq Numbers
    /\ repeats \in Nat /\ rotations \in Nat /\ faults \in Nat

\* The baseline comes from the snapshot the service is built from.  That of an
\* alarm is the value of event 0, which None is too: its first value fires.
Init ==
    /\ kind \in Kinds
    /\ stamped \in BOOLEAN
    /\ log \in IF stamped THEN {<<v>> : v \in Values} ELSE {<<None>>}
    /\ live = FALSE
    /\ queue = <<>>
    /\ state = 0
    /\ baseline = IF kind = "Alarm" \/ stamped THEN 0 ELSE None
    /\ listening = {}
    /\ batch = <<>>
    /\ fired = <<>>
    /\ ignored = {}
    /\ swallowed = {}
    /\ missed = {}
    /\ repeats = 0 /\ rotations = 0 /\ faults = 0

-----------------------------------------------------------------------------
(* The SHC *)

\* A key is pressed, a motion detected; an alarm changes its value.
Happen(v) ==
    /\ Last < MaxEvents
    /\ kind = "Alarm" => v # ValueOf(Last)
    /\ log' = Append(log, v)
    /\ queue' = IF live THEN Append(queue, Last + 1) ELSE queue
    /\ missed' = IF live THEN missed ELSE missed \cup {Last + 1}
    /\ UNCHANGED <<kind, stamped, live, service, batch, fired, ignored,
                   swallowed, bounds>>

\* The state is listed once more, inside a message.
Repeat ==
    /\ live
    /\ repeats < MaxRepeats
    /\ repeats' = repeats + 1
    /\ queue' = Append(queue, Last)
    /\ missed' = missed \ {Last}
    /\ UNCHANGED <<kind, stamped, log, live, service, batch, fired, ignored,
                   swallowed, rotations, faults>>

Handled == Members(fired) \cup ignored \cup swallowed

\* What is lost with a list of states, unless it is listed elsewhere too.
LostWith(list, elsewhere) == Members(list) \ (Handled \cup Members(elsewhere) \cup {0})

Rotate ==
    /\ live
    /\ rotations < MaxRotations
    /\ rotations' = rotations + 1
    /\ live' = FALSE
    /\ queue' = <<>>
    /\ missed' = missed \cup LostWith(queue, batch)
    /\ UNCHANGED <<kind, stamped, log, service, batch, fired, ignored,
                   swallowed, repeats, faults>>

-----------------------------------------------------------------------------
(* The session *)

\* Whether the first poll lists the present state is up to the SHC.
Subscribe ==
    /\ ~live
    /\ batch = <<>>
    /\ live' = TRUE
    /\ \/ queue' = <<Last>> /\ missed' = missed \ {Last}
       \/ UNCHANGED <<queue, missed>>
    /\ UNCHANGED <<kind, stamped, log, service, batch, fired, ignored,
                   swallowed, bounds>>

Poll ==
    /\ live
    /\ batch = <<>>
    /\ queue # <<>>
    /\ batch' = queue
    /\ queue' = <<>>
    /\ UNCHANGED <<kind, stamped, log, live, service, fired, ignored,
                   swallowed, missed, bounds>>

\* Variant: a re-read moves the baseline (for NoEventLost).
ReReadSeeds ==
    /\ state' = Last
    /\ baseline' = IF Last = 0 THEN baseline ELSE Last
    /\ UNCHANGED <<kind, stamped, shc, listening, batch, fired, ignored,
                   swallowed, missed, bounds>>

\* Variant: one event ahead (for TypeOK).
ReReadAhead ==
    /\ state' = Last + 1
    /\ UNCHANGED <<kind, stamped, shc, baseline, listening, batch, fired,
                   ignored, swallowed, missed, bounds>>

\* short_poll: the state, but neither the baseline nor the event callbacks.
ReRead ==
    /\ state' = Last
    /\ UNCHANGED <<kind, stamped, shc, baseline, listening, batch, fired,
                   ignored, swallowed, missed, bounds>>

Register(v) ==
    /\ listening' = listening \cup {v}
    /\ UNCHANGED <<kind, stamped, shc, state, baseline, batch, fired, ignored,
                   swallowed, missed, bounds>>

-----------------------------------------------------------------------------
(* Handling a listed state *)

Stamped(n) == n > 0 \/ stamped

\* Variant: a timestamp equal to the baseline passes (for NoReplay).
SeenBefore(n) ==
    IF kind = "Alarm"
      THEN ValueOf(n) = ValueOf(baseline)
      ELSE Stamped(n) /\ (baseline = None \/ n < baseline)

\* Variant: an alarm fires on its value, not on a change (for AlarmEdges).
LevelTriggered(n) ==
    kind # "Alarm" /\ Stamped(n) /\ (baseline = None \/ n <= baseline)

\* The state is a replay of an event that has been handled, or the baseline.
Replayed(n) ==
    IF kind = "Alarm"
      THEN ValueOf(n) = ValueOf(baseline)
      ELSE Stamped(n) /\ (baseline = None \/ n <= baseline)

Newest(n) ==
    IF (kind # "Alarm" /\ ~Stamped(n)) \/ n < baseline THEN baseline ELSE n

\* Variant: a baseline that is None stays None (for OnlyTheFirstIsSwallowed).
AdvanceFrom(n) == baseline' = IF baseline = None THEN None ELSE Newest(n)

Advance(n) == baseline' = Newest(n)

\* A keypad has a callback per key, the others one per device; a keypad that
\* was never used names no key.
Heard(n) ==
    IF kind = "Keypad" THEN Stamped(n) /\ ValueOf(n) \in listening ELSE listening # {}

\* process_long_polling_poll_result: state, callbacks, then the event.
Dispatch(n) ==
    /\ Advance(n)
    /\ fired' = IF ~Replayed(n) /\ Heard(n) THEN Append(fired, n) ELSE fired
    /\ ignored' = IF ~Replayed(n) /\ ~Heard(n) THEN ignored \cup {n} ELSE ignored
    /\ swallowed' = IF Stamped(n) /\ baseline = None THEN swallowed \cup {n} ELSE swallowed

Handle ==
    /\ batch # <<>>
    /\ state' = Head(batch)
    /\ Dispatch(Head(batch))
    /\ batch' = Tail(batch)
    /\ UNCHANGED <<kind, stamped, shc, listening, missed, bounds>>

Fault == faults < MaxFaults /\ faults' = faults + 1

\* A state without "state", or with another @type than the one the service
\* holds, is neither stored nor looked at.
Ignore ==
    /\ batch # <<>>
    /\ Fault
    /\ batch' = Tail(batch)
    /\ missed' = missed \cup (LostWith(batch, queue) \ Members(Tail(batch)))
    /\ UNCHANGED <<kind, stamped, shc, service, fired, ignored, swallowed,
                   repeats, rotations>>

\* A callback of the service raises before the event is looked at: the event
\* is gone with the rest of the batch.
CallbackRaises ==
    /\ batch # <<>>
    /\ Fault
    /\ state' = Head(batch)
    /\ batch' = <<>>
    /\ missed' = missed \cup LostWith(batch, queue)
    /\ UNCHANGED <<kind, stamped, shc, baseline, listening, fired, ignored,
                   swallowed, repeats, rotations>>

\* The event callback itself raises: the event counts as handled.
EventRaises ==
    /\ batch # <<>>
    /\ Fault
    /\ ~Replayed(Head(batch)) /\ Heard(Head(batch))
    /\ state' = Head(batch)
    /\ Dispatch(Head(batch))
    /\ batch' = <<>>
    /\ missed' = missed \cup (LostWith(Tail(batch), queue) \ {Head(batch)})
    /\ UNCHANGED <<kind, stamped, shc, listening, repeats, rotations>>

Next ==
    \/ \E v \in Values : Happen(v) \/ Register(v)
    \/ Repeat \/ Rotate \/ Subscribe \/ Poll \/ ReRead
    \/ Handle \/ Ignore \/ CallbackRaises \/ EventRaises

Spec == Init /\ [][Next]_vars

-----------------------------------------------------------------------------
\* However often the SHC lists a state, its callback is called once, in the
\* order of the events and never for what happened before the service was
\* built (device_service.py:181, "replay on (re)subscribe").  A motion detector
\* that has never detected anything has no timestamp to tell a replay by.
NoReplay ==
    /\ \A i \in DOMAIN fired :
          \/ fired[i] > 0
          \/ kind = "LatestMotion" /\ ~stamped
    /\ \A i, j \in DOMAIN fired : i < j /\ fired[j] > 0 => fired[i] < fired[j]

\* An alarm callback runs on edges: no value twice in a row
\* (device_service.py:199).
AlarmEdges ==
    kind = "Alarm" =>
        \A i \in 1 .. Len(fired) - 1 : ValueOf(fired[i]) # ValueOf(fired[i + 1])

\* An alarm that went back to the value last seen while nobody looked.
Hidden(n) ==
    /\ kind = "Alarm"
    /\ \E m \in 0 .. n - 2 :
          /\ ValueOf(m) = ValueOf(n)
          /\ \A k \in m + 1 .. n - 1 : k \in missed

\* Every event reaches its callback if it has one, unless its listing was lost,
\* it is the first event ever, or it is an alarm's return to the value last
\* seen.
NoEventLost ==
    \A n \in 1 .. Last :
        \/ n \in Handled \cup missed
        \/ n \in Members(queue) \cup Members(batch)
        \/ Hidden(n)

\* Only the very first event of a service that had none is swallowed.
OnlyTheFirstIsSwallowed ==
    \A n \in swallowed : ~stamped /\ kind # "Alarm" /\ \A m \in 1 .. n - 1 : m \in missed
=============================================================================
