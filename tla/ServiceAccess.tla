---------------------------- MODULE ServiceAccess ----------------------------
(***************************************************************************)
(* The application writes one field of a device service (or the profile of *)
(* a device) and reads it in a callback, while the SHC and other clients   *)
(* change the same record: the setters of services_impl.py, put_state of   *)
(* device_service.py, set_profile of device.py, and _session_request and   *)
(* _retry_once_on_connection_drop under them.                              *)
(*                                                                         *)
(* A record has two fields, "f" that is written and "g" that stands for    *)
(* every other one.  How a write is put together depends on the service: a *)
(* case says it, and MCServiceAccess takes the cases from the tables of    *)
(* ServiceCatalogue.                                                       *)
(***************************************************************************)
EXTENDS Naturals, Sequences

CONSTANTS Cases,         \* the kinds of write, see CaseType
          Values,        \* the values a field can be given
          New,           \* a value the enumeration of the library lacks
          Absent,        \* the field is not in the state
          Zero, Full,    \* the defaults of an absent lower and upper bound
          MaxCalls, MaxForeign, MaxFaults, MaxRefreshes  \* bounds

Outcomes == {"value", "default", "none", "unknown", "raises"}
WayType == [absent : Outcomes, odd : Outcomes]

(***************************************************************************)
(* f, g: how the fields are read.  fill: whether g is sent along, "none",  *)
(* "decoded" (from its property) or "raw" (as it is in the cached state).  *)
(* patch: f is only sent when the cached state has it.  guarded: nothing   *)
(* is sent while the cached state has neither field.  order: f is the      *)
(* "low" or "high" bound of a range that must not be empty.  stores: the   *)
(* answer becomes the cached state.  split: a blocking setter reads the    *)
(* cached state once to see whether it can send and again to fill g, with  *)
(* the polling thread in between.  local: nothing is sent at all.          *)
(***************************************************************************)
CaseType == [f : WayType, g : WayType, fill : {"none", "decoded", "raw"}, patch : BOOLEAN,
             guarded : BOOLEAN, order : {"none", "low", "high"}, stores : BOOLEAN, split : BOOLEAN,
             local : BOOLEAN]

Data == Values \cup {New, Zero, Full}
Fields == {"f", "g"}
Records == [Fields -> Data \cup {Absent}]
Unknown == [k \in Fields |-> Absent]

\* The bounds of a range are read and sent together, a device as a whole; a
\* guarded block is an ordinary one.
ASSUME CasesAssumption ==
    /\ Cases \subseteq CaseType
    /\ \A c \in Cases : /\ c.order # "none" => c.fill = "decoded" /\ ~c.patch /\ ~c.split
                        /\ c.stores => c.fill = "raw" /\ ~c.patch /\ ~c.split
                        /\ c.guarded => ~c.patch /\ ~c.stores /\ ~c.local
ASSUME ValuesAssumption ==
    /\ Values \subseteq Nat /\ Zero \in Nat /\ Full \in Nat
    /\ New \notin Nat /\ Absent \notin Nat /\ New # Absent
ASSUME BoundsAssumption == {MaxCalls, MaxForeign, MaxFaults, MaxRefreshes} \subseteq Nat

VARIABLES
    case,       \* the kind of write
    shc,        \* the record at the SHC
    view,       \* the cached state (_raw_state, _raw_device)
    queue,      \* the events on their way to the session
    call,       \* the call of the application
    late,       \* a request that was given up and may still be executed
    fresh,      \* nobody else changed the record since the call read it
    calm,       \* the call was executed, and nobody else changed it since
    behind,     \* the cached state has reason to differ, see QuietIsCurrent
    used        \* budgets

vars == <<case, shc, view, queue, call, late, fresh, calm, behind, used>>

\* The value a field counts as when a range is checked or a block filled.
DefaultOf(k) == IF case.order = (IF k = "f" THEN "high" ELSE "low") THEN Full ELSE Zero

Outcome(way, v) == IF v = Absent THEN way.absent ELSE IF v = New THEN way.odd ELSE "value"

Decoded(k, v) == IF Outcome(case[k], v) = "default" THEN DefaultOf(k) ELSE v

(***************************************************************************)
(* A request is a value for f and the cached state it was built from; sent *)
(* are the fields its body holds.  The SHC keeps the others.               *)
(***************************************************************************)
Requests == [val : Values, seen : Records]

\* Variant: only the field that changes is sent (for RangeStaysValid).
SentAlone(q) == {"f"}

Sent(q) == {k \in {"f"} : case.patch => q.seen.f # Absent}
    \cup {k \in {"g"} : case.fill = "decoded" \/ (case.fill = "raw" /\ q.seen.g # Absent)}

\* Variant: the other fields are not merged from the cached state (for
\* UndisturbedWriteKeepsOthers).
BodyUnmerged(q) == [f |-> q.val, g |-> DefaultOf("g")]

Body(q) == [f |-> q.val,
            g |-> IF case.fill = "decoded" THEN Decoded("g", q.seen.g) ELSE q.seen.g]

Applied(q) == [k \in Fields |-> IF k \in Sent(q) THEN Body(q)[k] ELSE shc[k]]

Bound(k, v) == IF v \in Nat THEN v ELSE DefaultOf(k)
InOrder(f, g) == CASE case.order = "low"  -> Bound("f", f) < Bound("g", g)
                   [] case.order = "high" -> Bound("g", g) < Bound("f", f)
                   [] OTHER -> TRUE

\* Variant: no guard against a configuration not yet known (for
\* ImplementsSharedRecord).
SendableBlindly(q) == InOrder(q.val, q.seen.g)

(***************************************************************************)
(* A write without its configuration is skipped, one that would invert the *)
(* range raises: nothing is sent.                                          *)
(***************************************************************************)
Sendable(q) == /\ case.guarded => q.seen # Unknown
               /\ InOrder(q.val, q.seen.g)

\* The request of a call and the record of the reply are sets of at most one.
Idle == [pc |-> "idle", request |-> {}, again |-> FALSE, answer |-> {}]

\* What the SHC can hold: an unlisted value only where the library has a list.
Possible(r) == /\ \A k \in Fields : r[k] = New => case[k].odd # "value"
               /\ InOrder(r.f, r.g)

Init == /\ case \in Cases
        /\ shc \in {r \in [Fields -> Values \cup {New, Absent}] : Possible(r)}
        /\ view \in IF case.stores THEN {shc} ELSE {shc, Unknown}
        /\ queue = <<>> /\ call = Idle /\ late = {}
        /\ fresh = FALSE /\ calm = FALSE /\ behind = (view # shc)
        /\ used = [calls |-> 0, foreign |-> 0, faults |-> 0, refreshes |-> 0]

Spend(b, max) == used[b] < max /\ used' = [used EXCEPT ![b] = @ + 1]

-----------------------------------------------------------------------------
\* Variant: the setter stores what it asked for in the cached state (for
\* QuietIsCurrent).
SetStores(v) == /\ call.pc = "idle" /\ ~case.local /\ Spend("calls", MaxCalls)
                /\ LET q == [val |-> v, seen |-> view]
                   IN  Sendable(q) /\ call' = [Idle EXCEPT !.pc = "sent", !.request = {q}]
                /\ view' = [view EXCEPT !.f = v]
                /\ fresh' = (view = shc) /\ calm' = FALSE
                /\ UNCHANGED <<case, shc, queue, late, behind>>

(***************************************************************************)
(* The application calls a setter.                                         *)
(***************************************************************************)
Set(v) == /\ call.pc = "idle" /\ ~case.local /\ Spend("calls", MaxCalls)
          /\ LET q == [val |-> v, seen |-> view]
             IN  /\ Sendable(q)
                 /\ call' = [Idle EXCEPT !.pc = IF case.split THEN "asked" ELSE "sent",
                                         !.request = {q}]
          /\ fresh' = (view = shc) /\ calm' = FALSE
          /\ UNCHANGED <<case, shc, view, queue, late, behind>>

\* The other field is read, from what is the cached state by now.
Compose == /\ call.pc = "asked"
           /\ call' = [call EXCEPT !.pc = "sent",
                  !.request = {[val |-> q.val, seen |-> [q.seen EXCEPT !.g = view.g]] : q \in @}]
           /\ fresh' = (view = shc) /\ calm' = FALSE
           /\ UNCHANGED <<case, shc, view, queue, late, behind, used>>

(***************************************************************************)
(* A setter that sends nothing changes the cached state in its place.      *)
(***************************************************************************)
Assign(v) == /\ case.local /\ Spend("calls", MaxCalls)
             /\ view' = [view EXCEPT !.f = v] /\ behind' = TRUE
             /\ UNCHANGED <<case, shc, queue, call, late, fresh, calm>>

\* The SHC has a new record: an event is queued when it differs.
Becomes(r) == /\ shc' = r
              /\ queue' = IF r = shc THEN queue ELSE Append(queue, r)

Execute == /\ call.pc = "sent"
           /\ \E q \in call.request :
                /\ Becomes(Applied(q))
                /\ call' = [call EXCEPT !.pc = "done", !.answer = {Applied(q)}]
           /\ calm' = TRUE
           /\ UNCHANGED <<case, view, late, fresh, behind, used>>

(***************************************************************************)
(* The reply arrives.  set_profile stores the device it holds, or, when it *)
(* holds none, the body that was sent.                                     *)
(***************************************************************************)
Answer == /\ call.pc = "done"
          /\ call' = Idle
          /\ \/ ~case.stores /\ UNCHANGED <<view, behind>>
             \/ /\ case.stores /\ view' \in call.answer
                /\ behind' = (queue = <<>> /\ ~calm)
             \/ /\ case.stores /\ \E q \in call.request : view' = Body(q)
                /\ behind' = (queue = <<>> /\ ~(calm /\ fresh))
          /\ fresh' = FALSE /\ calm' = FALSE
          /\ UNCHANGED <<case, shc, queue, late, used>>

\* The SHC answers with an error instead.
Reject == /\ call.pc = "sent" /\ Spend("faults", MaxFaults)
          /\ call' = Idle /\ fresh' = FALSE /\ calm' = FALSE
          /\ UNCHANGED <<case, shc, view, queue, late, behind>>

\* Variant: the second attempt is built anew from the cached state (for
\* RepeatChangesNothing).
DropRebuilds ==
    /\ call.pc \in {"sent", "done"} /\ Spend("faults", MaxFaults)
    /\ call' = IF call.again THEN Idle
               ELSE [call EXCEPT !.pc = "sent", !.again = TRUE, !.answer = {},
                                 !.request = {[val |-> q.val, seen |-> view] : q \in @}]
    /\ UNCHANGED <<case, shc, view, queue, late, fresh, calm, behind>>

\* Variant: the reply of the first attempt is kept (for TypeOK).
DropKeepsAnswer ==
    /\ call.pc \in {"sent", "done"} /\ Spend("faults", MaxFaults)
    /\ call' = IF call.again THEN Idle ELSE [call EXCEPT !.pc = "sent", !.again = TRUE]
    /\ UNCHANGED <<case, shc, view, queue, late, fresh, calm, behind>>

(***************************************************************************)
(* The connection drops, before or after the SHC executed the request: it  *)
(* is sent again once, as it was.                                          *)
(***************************************************************************)
Drop == /\ call.pc \in {"sent", "done"} /\ Spend("faults", MaxFaults)
        /\ call' = IF call.again THEN Idle
                   ELSE [call EXCEPT !.pc = "sent", !.again = TRUE, !.answer = {}]
        /\ UNCHANGED <<case, shc, view, queue, late, fresh, calm, behind>>

(***************************************************************************)
(* No reply within 30 seconds: the call raises and is not repeated.  What  *)
(* the SHC has not executed by then it may execute later.                  *)
(***************************************************************************)
TimeOut == /\ call.pc \in {"sent", "done"} /\ late = {} /\ Spend("faults", MaxFaults)
           /\ late' = IF call.pc = "sent" THEN call.request ELSE {}
           /\ call' = Idle /\ fresh' = FALSE /\ calm' = FALSE
           /\ UNCHANGED <<case, shc, view, queue, behind>>

ExecuteLate == /\ \E q \in late : Becomes(Applied(q))
               /\ late' = {} /\ fresh' = FALSE /\ calm' = FALSE
               /\ UNCHANGED <<case, view, call, behind, used>>

\* The device itself, the Bosch app or another client changes a field.
Foreign(k, v) == /\ Spend("foreign", MaxForeign)
                 /\ shc[k] # v /\ Possible([shc EXCEPT ![k] = v])
                 /\ Becomes([shc EXCEPT ![k] = v])
                 /\ fresh' = FALSE /\ calm' = FALSE
                 /\ UNCHANGED <<case, view, call, late, behind>>

-----------------------------------------------------------------------------
\* short_poll reads the record.
Refresh == /\ ~case.stores /\ Spend("refreshes", MaxRefreshes)
           /\ view' = shc /\ behind' = FALSE
           /\ UNCHANGED <<case, shc, queue, call, late, fresh, calm>>

Raises(r) == Outcome(case.f, r.f) = "raises"

(***************************************************************************)
(* An event is stored and a callback reads f: either it gets a value, or   *)
(* the property raises and the session drops the rest of the batch.        *)
(***************************************************************************)
Deliver == /\ queue # <<>>
           /\ view' = Head(queue)
           /\ \E n \in IF Raises(Head(queue)) THEN 1 .. Len(queue) ELSE {1} :
                /\ queue' = SubSeq(queue, n + 1, Len(queue))
                /\ behind' = IF queue' = <<>> THEN n > 1 ELSE behind
           /\ UNCHANGED <<case, shc, call, late, fresh, calm, used>>

Next == \/ \E v \in Values : Set(v) \/ Assign(v)
        \/ Compose \/ Execute \/ Answer \/ Reject \/ Drop \/ TimeOut \/ ExecuteLate
        \/ \E k \in Fields, v \in Values \cup {New} : Foreign(k, v)
        \/ Refresh \/ Deliver

Spec == Init /\ [][Next]_vars

-----------------------------------------------------------------------------
(***************************************************************************)
(* The variables keep their types, an answer is there exactly when the SHC *)
(* has executed the request, and the last event on its way is the record   *)
(* of the SHC (put_state, set_profile, _session_request).                  *)
(***************************************************************************)
TypeOK ==
    /\ case \in Cases /\ shc \in Records /\ view \in Records
    /\ queue \in Seq(Records) /\ (queue # <<>> => queue[Len(queue)] = shc)
    /\ call \in [pc : {"idle", "asked", "sent", "done"}, request : SUBSET Requests,
                 again : BOOLEAN, answer : SUBSET Records]
    /\ IF call.pc = "idle" THEN call = Idle ELSE \E q \in Requests : call.request = {q}
    /\ IF call.pc = "done" THEN \E r \in Records : call.answer = {r} ELSE call.answer = {}
    /\ late = {} \/ \E q \in Requests : late = {q}
    /\ {fresh, calm, behind} \subseteq BOOLEAN
    /\ used \in [{"calls", "foreign", "faults", "refreshes"} -> Nat]

(***************************************************************************)
(* When no event is on its way the cached state is what the SHC has.  What *)
(* excuses a difference (behind): a property raised in a callback and the  *)
(* rest of the batch was dropped; set_profile stored an answer older than  *)
(* an event, or, of an answer without a body, the device it had sent when  *)
(* that was not current or somebody changed the record since               *)
(* (device.py 103-109); a setter changed the cached state alone            *)
(* (services_impl.py 961-963).  Apart from these no setter has to update   *)
(* the cached state itself (device_service.py 67-72).                      *)
(***************************************************************************)
QuietIsCurrent == queue = <<>> /\ ~behind => view = shc

(***************************************************************************)
(* The brightness range of a dimmer is never inverted at the SHC, although *)
(* the check compares with a cached bound that may be stale                *)
(* (services_impl.py 2521-2545): both bounds are sent.                     *)
(***************************************************************************)
RangeStaysValid == InOrder(shc.f, shc.g)

(***************************************************************************)
(* A write of one field whose caller saw the current record, which nobody  *)
(* changed since, leaves the other fields alone wherever the library       *)
(* understands them (the merges of services_impl.py 380-390, 2228-2239,    *)
(* 822-833, 1222-1255, 2534-2545 and device.py 101).                       *)
(***************************************************************************)
UndisturbedWriteKeepsOthers ==
    [][Execute /\ fresh /\ shc.g \in Values => shc'.g = shc.g]_vars

(***************************************************************************)
(* A request the SHC executes a second time, because the connection        *)
(* dropped after the first (api.py 86-111, api_async.py 157-191), changes  *)
(* nothing that nobody else changed in between.                            *)
(***************************************************************************)
RepeatChangesNothing == [][Execute /\ call.again /\ calm => shc' = shc]_vars

-----------------------------------------------------------------------------
(***************************************************************************)
(* The writes are those of SharedRecord: whatever drops, repeats and       *)
(* delays, the only changes of the record that are ours give f a value     *)
(* somebody asked for and take g back at most to what the caller saw.  The *)
(* cached state is a record the SHC had, save for the device set_profile   *)
(* had sent (device.py 109 and 117) and the value a local setter assigned  *)
(* (put_state and set_profile with everything below and above them).       *)
(***************************************************************************)
SR == INSTANCE SharedRecord WITH
    Values <- Data, record <- shc,
    known <- {queue[i] : i \in DOMAIN queue} \cup call.answer,
    writes <- {[val |-> q.val, saw |-> q.seen.g] :
                  q \in (IF call.pc = "asked" THEN {} ELSE call.request) \cup late},
    foreign <- used.foreign,
    rule <- [guarded |-> case.guarded, stores |-> case.stores, local |-> case.local,
             gDefault |-> DefaultOf("g"),
             gUnread |-> {v \in {Absent, New} :
                             case.fill = "decoded" /\ Outcome(case.g, v) = "default"}]

ImplementsSharedRecord == SR!Spec
=============================================================================
