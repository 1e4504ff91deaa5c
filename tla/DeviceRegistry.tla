--------------------------- MODULE DeviceRegistry ---------------------------
(***************************************************************************)
(* Which devices a session knows: the enumeration when it is built, the    *)
(* "device" events that add, update and delete devices while it polls, and *)
(* the subscribers that are told of each new device.                       *)
(*                                                                         *)
(* The k-th object built for device d is <<d, k>>; 0 stands for "no        *)
(* object".  An event of a device is TRUE if it says "deleted"; the events *)
(* of one device keep their order, those of two may be handled in any.     *)
(* Polling is abstracted to taking the SHC's queue over as the next batch  *)
(* and to subscribing again after the SHC has forgotten the subscription:  *)
(* LongPoll has the detail.                                                *)
(***************************************************************************)
EXTENDS Integers, Sequences

CONSTANTS
    Devices,
    Listed,         \* those of a model in SUPPORTED_MODELS
    Subscribers,    \* callbacks registered with subscribe() for these devices
    MaxChanges,     \* bound: devices paired, changed or removed
    MaxRotations,   \* bound: subscriptions the SHC forgets
    MaxFaults       \* bound: callbacks that raise, requests that fail

ASSUME ListedAssumption == Listed \subseteq Devices

ASSUME BoundsAssumption ==
    MaxChanges \in Nat /\ MaxRotations \in Nat /\ MaxFaults \in Nat

Queues  == [Devices -> Seq(BOOLEAN)]
Objects == Devices \X (Nat \ {0})

VARIABLES
    there,      \* SHC: paired devices
    kit,        \* SHC: those with a service this library supports
    live,       \* SHC: the client's subscription is valid
    queue,      \* SHC: "device" events of that subscription
    reg,        \* _devices_by_id
    helper,     \* _devices_by_model of SHCDeviceHelper, 0 for none
    services,   \* _services_by_device_id: devices with a list that is not empty
    built,      \* how many objects have been built for each device
    flagged,    \* objects whose raw device says deleted
    told,       \* which subscriber has been given which object
    pc,         \* where the session is
    batch,      \* events not handled yet
    new,        \* the device a new object is built for, and its event
    todo,       \* subscribers not told of the new device yet
    missed,     \* history: devices with an event that was lost
    cut,        \* history: devices with a callback that raised
    changes, rotations, faults

vars   == <<there, kit, live, queue, reg, helper, services, built, flagged, told,
            pc, batch, new, todo, missed, cut, changes, rotations, faults>>
shc    == <<there, kit, live, queue>>
model  == <<reg, helper, services, built>>
bounds == <<changes, rotations, faults>>

Empty == [d \in Devices |-> <<>>]

TypeOK ==
    /\ there \subseteq Devices
    /\ kit \subseteq Devices
    /\ live \in BOOLEAN
    /\ queue \in Queues
    /\ reg \in [Devices -> Nat]
    /\ helper \in [Devices -> Nat]
    /\ services \subseteq Devices
    /\ built \in [Devices -> Nat]
    /\ flagged \subseteq Objects
    /\ told \subseteq Subscribers \X Objects
    /\ pc \in {"services", "devices", "idle", "handle", "fetch", "announce"}
    /\ batch \in Queues
    /\ new \subseteq Devices \X BOOLEAN
    /\ todo \subseteq Subscribers
    /\ missed \subseteq Devices
    /\ cut \subseteq Devices
    /\ changes \in Nat /\ rotations \in Nat /\ faults \in Nat

Init ==
    /\ there \in SUBSET Devices
    /\ kit \in SUBSET there
    /\ live = FALSE
    /\ queue = Empty
    /\ reg = [d \in Devices |-> 0]
    /\ helper = reg
    /\ services = {}
    /\ built = reg
    /\ flagged = {}
    /\ told = {}
    /\ pc = "services"
    /\ batch = Empty
    /\ new = {}
    /\ todo = {}
    /\ missed = {}
    /\ cut = {}
    /\ changes = 0 /\ rotations = 0 /\ faults = 0

-----------------------------------------------------------------------------
(* The SHC *)

Emit(d, deleted) ==
    /\ changes < MaxChanges
    /\ changes' = changes + 1
    /\ queue' = IF live THEN [queue EXCEPT ![d] = Append(@, deleted)] ELSE queue
    /\ UNCHANGED <<live, model, flagged, told, pc, batch, new, todo, missed,
                   cut, rotations, faults>>

Pair(d) ==
    /\ d \notin there
    /\ there' = there \cup {d}
    /\ kit' \in {kit, kit \cup {d}}
    /\ Emit(d, FALSE)

Edit(d) ==
    /\ d \in there
    /\ UNCHANGED <<there, kit>>
    /\ Emit(d, FALSE)

Unpair(d) ==
    /\ d \in there
    /\ there' = there \ {d}
    /\ kit' = kit \ {d}
    /\ Emit(d, TRUE)

DevicesIn(events) == {d \in Devices : events[d] # <<>>}

\* The SHC forgets the subscription, and the events it had for it.
Rotate ==
    /\ live
    /\ rotations < MaxRotations
    /\ rotations' = rotations + 1
    /\ live' = FALSE
    /\ queue' = Empty
    /\ missed' = missed \cup DevicesIn(queue)
    /\ UNCHANGED <<there, kit, model, flagged, told, pc, batch, new, todo,
                   cut, changes, faults>>

-----------------------------------------------------------------------------
(* Enumeration: first the services, then the devices *)

EnumerateServices ==
    /\ pc = "services"
    /\ services' = kit
    /\ pc' = "devices"
    /\ UNCHANGED <<shc, reg, helper, built, flagged, told, batch, new, todo,
                   missed, cut, bounds>>

\* A device without services is skipped, and the helper lists only those of a
\* model it supports.  The application finds the others in the session itself,
\* hence "told".
EnumerateDevices ==
    /\ pc = "devices"
    /\ reg' = [d \in Devices |-> IF d \in there \cap services THEN 1 ELSE 0]
    /\ helper' = [d \in Devices |-> IF d \in Listed THEN reg'[d] ELSE 0]
    /\ built' = reg'
    /\ told' = Subscribers \X {<<d, 1>> : d \in there \cap services}
    /\ pc' = "idle"
    /\ UNCHANGED <<shc, services, flagged, batch, new, todo, missed, cut, bounds>>

Known(d) == reg[d] # 0

\* The session's opinion of d differs from the SHC's.
Wrong(d) == Known(d) # (d \in kit)

\* Variant: no object at all (for TypeOK).
Nothing(d) == <<d, 0>>

Object(d) == <<d, reg[d]>>

SaysDeleted(d) == Known(d) /\ Object(d) \in flagged

\* A subscription, the first or the next.  It may begin with an event for some
\* of the devices; nothing enumerates the others again, and an event for a
\* known device does not look at its services.
Subscribe ==
    /\ pc = "idle"
    /\ ~live
    /\ live' = TRUE
    /\ \E snapshot \in SUBSET there :
          /\ queue' = [d \in Devices |-> IF d \in snapshot THEN <<FALSE>> ELSE <<>>]
          /\ missed' = missed \cup
                {d \in Devices : \/ Wrong(d) /\ (Known(d) \/ d \notin snapshot)
                                 \/ SaysDeleted(d) /\ d \notin snapshot}
    /\ UNCHANGED <<there, kit, model, flagged, told, pc, batch, new, todo, cut, bounds>>

Poll ==
    /\ pc = "idle"
    /\ live
    /\ queue # Empty
    /\ batch' = queue
    /\ queue' = Empty
    /\ pc' = "handle"
    /\ UNCHANGED <<there, kit, live, model, flagged, told, new, todo, missed,
                   cut, bounds>>

-----------------------------------------------------------------------------
(* Handling a "device" event *)

Take(d) ==
    /\ pc = "handle"
    /\ batch[d] # <<>>

\* Variant: a deleted device is not updated (for ImplementsDeviceRoster).
KeepRaw(d) == UNCHANGED flagged

\* update_raw_information: the raw device, then its callbacks.
Refresh(d) ==
    flagged' = IF Head(batch[d]) THEN flagged \cup {Object(d)} ELSE flagged \ {Object(d)}

\* Variant: a deleted device stays (for RegisteredIsNotFlagged).
Stay(d) == UNCHANGED <<reg, services>>

\* Variant: every update forgets the services (for RegisteredIsComplete).
ForgetServices(d) ==
    /\ reg' = IF Head(batch[d]) THEN [reg EXCEPT ![d] = 0] ELSE reg
    /\ services' = services \ {d}

\* A deleted device leaves the session, though not the helper.
Leave(d) ==
    /\ reg' = IF Head(batch[d]) THEN [reg EXCEPT ![d] = 0] ELSE reg
    /\ services' = IF Head(batch[d]) THEN services \ {d} ELSE services

Advance(d) == batch' = [batch EXCEPT ![d] = Tail(@)]

\* A known device is updated, and leaves if it is deleted.
UpdateDevice(d) ==
    /\ Take(d)
    /\ Known(d)
    /\ Refresh(d)
    /\ Leave(d)
    /\ Advance(d)
    /\ UNCHANGED <<shc, helper, built, told, pc, new, todo, missed, cut, bounds>>

Fault == faults < MaxFaults /\ faults' = faults + 1

\* An exception leaves the loop over the batch: the rest of it is lost.
DropBatch ==
    /\ missed' = missed \cup DevicesIn(batch) \cup {n[1] : n \in new}
    /\ batch' = Empty
    /\ new' = {}
    /\ todo' = {}
    /\ pc' = "idle"

\* A callback of the device raises: what comes after the callbacks, such as
\* the removal of a deleted device, does not happen.
UpdateRaises(d) ==
    /\ Take(d)
    /\ Known(d)
    /\ Fault
    /\ Refresh(d)
    /\ cut' = cut \cup {d}
    /\ DropBatch
    /\ UNCHANGED <<shc, model, told, changes, rotations>>

\* Variant: an event for an unknown device is skipped (for NoSilentDivergence).
SkipUnknown(d) ==
    /\ Take(d)
    /\ ~Known(d)
    /\ Advance(d)
    /\ UNCHANGED <<shc, model, flagged, told, pc, new, todo, missed, cut, bounds>>

\* An event for an unknown device, deleted or not, makes the session ask for
\* the device's services.
NewDevice(d) ==
    /\ Take(d)
    /\ ~Known(d)
    /\ new' = {<<d, Head(batch[d])>>}
    /\ Advance(d)
    /\ services' = services \ {d}
    /\ pc' = "fetch"
    /\ UNCHANGED <<shc, reg, helper, built, flagged, told, todo, missed, cut, bounds>>

\* Variant: nobody is told of a new device (for EveryoneTold).
Nobody == {}

\* The subscribers for devices of this class.
Audience == Subscribers

\* They arrive: the device is built and registered ...
AddDevice(d, deleted) ==
    /\ pc = "fetch"
    /\ d \in kit
    /\ services' = services \cup {d}
    /\ built' = [built EXCEPT ![d] = @ + 1]
    /\ reg' = [reg EXCEPT ![d] = built[d] + 1]
    /\ helper' = IF d \in Listed THEN [helper EXCEPT ![d] = built[d] + 1] ELSE helper
    /\ flagged' = IF deleted THEN flagged \cup {<<d, built[d] + 1>>} ELSE flagged
    /\ todo' = Audience
    /\ pc' = "announce"
    /\ UNCHANGED <<shc, told, batch, new, missed, cut, bounds>>

\* ... or there are none that the library supports ...
SkipDevice(d) ==
    /\ pc = "fetch"
    /\ d \notin kit
    /\ new' = {}
    /\ pc' = "handle"
    /\ UNCHANGED <<shc, model, flagged, told, batch, todo, missed, cut, bounds>>

\* ... or the request fails, as it may for a device that is gone.
FetchFails(d) ==
    /\ pc = "fetch"
    /\ Fault \/ (d \notin there /\ UNCHANGED faults)
    /\ DropBatch
    /\ UNCHANGED <<shc, model, flagged, told, cut, changes, rotations>>

Announce(d, s) ==
    /\ pc = "announce"
    /\ told' = told \cup {<<s, Object(d)>>}
    /\ todo' = todo \ {s}
    /\ UNCHANGED <<shc, model, flagged, pc, batch, new, missed, cut, bounds>>

AnnounceRaises(d) ==
    /\ pc = "announce"
    /\ todo # {}
    /\ Fault
    /\ cut' = cut \cup {d}
    /\ DropBatch
    /\ UNCHANGED <<shc, model, flagged, told, changes, rotations>>

Announced ==
    /\ pc = "announce"
    /\ todo = {}
    /\ new' = {}
    /\ pc' = "handle"
    /\ UNCHANGED <<shc, model, flagged, told, batch, todo, missed, cut, bounds>>

EndBatch ==
    /\ pc = "handle"
    /\ batch = Empty
    /\ pc' = "idle"
    /\ UNCHANGED <<shc, model, flagged, told, batch, new, todo, missed, cut, bounds>>

Session ==
    \/ EnumerateServices \/ EnumerateDevices \/ Subscribe \/ Poll
    \/ \E d \in Devices : UpdateDevice(d) \/ UpdateRaises(d) \/ NewDevice(d)
    \/ \E n \in new :
          \/ AddDevice(n[1], n[2]) \/ SkipDevice(n[1]) \/ FetchFails(n[1])
          \/ \E s \in todo : Announce(n[1], s)
          \/ AnnounceRaises(n[1])
    \/ Announced \/ EndBatch

Next ==
    \/ \E d \in Devices : Pair(d) \/ Edit(d) \/ Unpair(d)
    \/ Rotate
    \/ Session

Spec == Init /\ [][Next]_vars

-----------------------------------------------------------------------------
\* An event for d is on its way.
Pending(d) ==
    \/ d \in DevicesIn(queue) \cup DevicesIn(batch)
    \/ pc = "fetch" /\ \E n \in new : n[1] = d

\* The session knows exactly the devices with supported services, except for
\* those with an event on its way, or lost with a batch, with a subscription or
\* before one (session.py _process_long_polling_poll_result, "device").
NoSilentDivergence ==
    \A d \in Devices : Wrong(d) => Pending(d) \/ ~live \/ d \in missed

\* However often a device is removed and paired again: the services of one in
\* the session are known; the helper lists it too if it supports its model, and
\* no device of another model (device_init, device_helper.py 100-112); and a
\* device that the helper still lists after it left the session says "deleted".
RegisteredIsComplete ==
    \A d \in Devices :
        /\ Known(d) => d \in services /\ (d \in Listed => helper[d] = reg[d])
        /\ helper[d] # 0 => d \in Listed
        /\ helper[d] \notin {0, reg[d]} => <<d, helper[d]>> \in flagged

\* An object that left the session says so: who still holds it, like the
\* helper, sees "deleted".
GoneIsFlagged ==
    \A d \in Devices : \A k \in 1 .. built[d] : k # reg[d] => <<d, k>> \in flagged

\* A device in the session says "deleted" only while an event that puts it
\* right is on its way, or after a callback raised or an event was lost.
RegisteredIsNotFlagged ==
    \A d \in Devices :
        SaysDeleted(d) => Pending(d) \/ ~live \/ d \in missed \cup cut

\* Every subscriber has been given every device in the session, unless one
\* of them raised or the device is still being announced.
EveryoneTold ==
    \A d \in Devices, s \in Subscribers :
        Known(d) =>
            \/ <<s, Object(d)>> \in told
            \/ d \in cut
            \/ pc = "announce" /\ s \in todo /\ \E n \in new : n[1] = d

-----------------------------------------------------------------------------
\* The objects are those of a DeviceRoster: a device that comes back gets a new
\* one, an object that left says "deleted" for good and never comes back, and
\* nobody is given one that is not in the session (_add_device, _update_device
\* and the "device" branch of the dispatcher, whatever fails in between).
Roster == INSTANCE DeviceRoster WITH current <- reg, made <- built, deleted <- flagged

ImplementsDeviceRoster == Roster!Spec
=============================================================================
