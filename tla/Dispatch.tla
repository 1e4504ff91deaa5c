------------------------------ MODULE Dispatch ------------------------------
(***************************************************************************)
(* The events that are not about a device: messages, triggered scenarios,  *)
(* the parts of the intrusion detection system, user defined states and    *)
(* EMMA.  _process_long_polling_poll_result of a session stores what the   *)
(* event says and calls whoever is subscribed, while callbacks and other   *)
(* threads subscribe and unsubscribe.                                      *)
(*                                                                         *)
(* A session is an SHCSession ("sync"), an SHCSession built with lazy=True *)
(* ("lazy"), which has read nothing, or an initialised SHCSessionAsync     *)
(* ("async").  Its subscription is in place and stays: LongPoll models how *)
(* it is lost, EventReplay and DeviceRegistry the events of devices.       *)
(*                                                                         *)
(* What the SHC has under a key is a version, 0 while it is not there.     *)
(***************************************************************************)
EXTENDS Naturals, Sequences, SequencesExt

CONSTANTS
    Flavours,    \* the sessions to look at
    Messages,    \* ids of messages
    Scenarios,   \* ids of scenarios
    Parts,       \* the parts of the intrusion detection system
    States,      \* ids of user defined states
    Emma,        \* the link of EMMA
    Callbacks,   \* callbacks of the application
    MaxChanges,  \* bound: events of the SHC
    MaxSubs,     \* bound: subscriptions and unsubscriptions
    MaxFaults,   \* bound: callbacks that raise
    MaxReads     \* bound: re-reads of the intrusion detection system

ASSUME FlavoursAssumption == Flavours \subseteq {"sync", "lazy", "async"}
ASSUME BoundsAssumption == {MaxChanges, MaxSubs, MaxFaults, MaxReads} \subseteq Nat

Stored == Messages \cup Parts \cup States \cup {Emma}
Keys == Stored \cup Scenarios

(***************************************************************************)
(* Who can be subscribed: to one scenario or all ("shc"), a dictionary     *)
(* with one callback each; to a user defined state, a list; to the system  *)
(* and to EMMA, a dictionary of callbacks by entity, here one per callback;*)
(* to new user defined states ("new"), a list.                             *)
(***************************************************************************)
Triggers == Scenarios \cup {"shc"}
Channels == Triggers \cup States \cup {"IDS", "EMMA", "new"}

\* A channel is of one kind only.
ASSUME ChannelsAssumption == Triggers \cap (States \cup {"IDS", "EMMA", "new"}) = {}

VARIABLES
    flavour,   \* the kind of session
    now,       \* the versions the SHC has
    batch,     \* the events on their way, in order
    held,      \* the versions the session has, 0 before the first
    subs,      \* the callbacks of every channel, in calling order
    run,       \* the event being handled
    read,      \* the answer of short_poll on its way, a set of at most one
    missed,    \* keys whose version was never read, dropped or written over
    used       \* budgets

vars == <<flavour, now, batch, held, subs, run, read, missed, used>>

(***************************************************************************)
(* channels are still to be looked up; of the one being called, left are   *)
(* the callbacks to call, start those found at its look-up and heard those *)
(* called.  own: they are read where they are subscribed, not in a copy.   *)
(***************************************************************************)
Resting == [channels |-> <<>>, channel |-> "new", left |-> <<>>,
            start |-> <<>>, heard |-> <<>>, own |-> FALSE]

Init == /\ flavour \in Flavours
        /\ now \in [Stored -> {0, 1}]
        /\ \A k \in Parts : now[k] = 1
        /\ \A k \in Messages \cup {Emma} : now[k] = 0
        /\ held = IF flavour = "lazy" THEN [k \in Stored |-> 0] ELSE now
        /\ missed = {k \in Stored : held[k] # now[k]}
        /\ batch = <<>> /\ run = Resting /\ read = {}
        /\ \E cb \in Callbacks : subs = [c \in Channels |-> <<cb>>]
        /\ used = [changes |-> 0, subs |-> 0, faults |-> 0, reads |-> 0,
                   vanished |-> 0]

Spend(b, max) == used[b] < max /\ used' = [used EXCEPT ![b] = @ + 1]

-----------------------------------------------------------------------------
\* Something happens at the SHC.
Arrive(k) ==
    /\ Spend("changes", MaxChanges)
    /\ now' = IF k \in Stored THEN [now EXCEPT ![k] = @ + 1] ELSE now
    /\ batch' = Append(batch, [key |-> k, ver |-> IF k \in Stored THEN now[k] + 1 ELSE 0])
    /\ UNCHANGED <<flavour, held, subs, run, read, missed>>

\* Variant: EMMA is built without the information of the SHC (for
\* EagerMissesNothing).
UnreadyEmma(k) == k = Emma \/ (flavour = "lazy" /\ k \in Parts)

(***************************************************************************)
(* Without its first read the session has no intrusion system to look up,  *)
(* and EMMA refuses data without the information of the SHC: both raise.   *)
(***************************************************************************)
Unready(k) == flavour = "lazy" /\ k \in Parts \cup {Emma}

Looked(k) == IF k \in Scenarios THEN <<k, "shc">>
             ELSE IF k \in Parts THEN <<"IDS">>
             ELSE IF k \in States THEN IF held[k] = 0 THEN <<"new", k>> ELSE <<k>>
             ELSE IF k = Emma THEN <<"EMMA">> ELSE <<>>

\* A version newer than an answer on its way is gone once that is stored.
Overtake(gone) ==
    read' = {[r EXCEPT !.over = @ \cup {e.key : e \in {x \in gone :
                x.key \in Parts /\ x.ver > r.vers[x.key]}}] : r \in read}

(***************************************************************************)
(* An exception leaves the handler: it drops the rest of what one poll has *)
(* brought, which is at most all that is on its way.                       *)
(***************************************************************************)
Drop(least) == \E n \in least .. Len(batch) :
    LET gone == {batch[i] : i \in 1 .. n}
    IN  /\ batch' = SubSeq(batch, n + 1, Len(batch))
        /\ missed' = missed \cup ({e.key : e \in gone} \cap Stored)
        /\ Overtake(gone)

\* The event that raises is itself not stored.
TakeRaises == /\ run = Resting /\ batch # <<>> /\ Unready(Head(batch).key)
              /\ Drop(1)
              /\ UNCHANGED <<flavour, now, held, subs, run, used>>

\* Variant: a known state is told to its callbacks but not updated (for
\* HeldIsCurrent).
TakeTellsOnly ==
    /\ run = Resting /\ batch # <<>> /\ ~Unready(Head(batch).key)
    /\ LET e == Head(batch)
       IN  /\ held' = IF e.key \in Stored /\ ~(e.key \in States /\ held[e.key] # 0)
                      THEN [held EXCEPT ![e.key] = e.ver] ELSE held
           /\ missed' = missed \ {e.key}
           /\ run' = [Resting EXCEPT !.channels = Looked(e.key)]
           /\ Overtake({e})
    /\ batch' = Tail(batch)
    /\ UNCHANGED <<flavour, now, subs, used>>

(***************************************************************************)
(* The next event is stored.                                               *)
(***************************************************************************)
Take == /\ run = Resting /\ batch # <<>> /\ ~Unready(Head(batch).key)
        /\ LET e == Head(batch)
           IN  /\ held' = IF e.key \in Stored THEN [held EXCEPT ![e.key] = e.ver] ELSE held
               /\ missed' = missed \ {e.key}
               /\ run' = [Resting EXCEPT !.channels = Looked(e.key)]
               /\ Overtake({e})
        /\ batch' = Tail(batch)
        /\ UNCHANGED <<flavour, now, subs, used>>

\* Variant: no session copies the callbacks of a user defined state (for
\* HeardAsFound).
OwnAlways(c) == c \in Triggers \cup States

(***************************************************************************)
(* A scenario's callback is looked for and then read again to be called;   *)
(* SHCSessionAsync iterates over the callbacks of a state without a copy.  *)
(***************************************************************************)
Own(c) == c \in Triggers \/ (flavour = "async" /\ c \in States)

LookUp == /\ run.channels # <<>> /\ run.left = <<>>
          /\ LET c == Head(run.channels)
             IN  run' = [run EXCEPT !.channels = Tail(@), !.channel = c, !.left = subs[c],
                                    !.start = subs[c], !.heard = <<>>, !.own = Own(c)]
          /\ UNCHANGED <<flavour, now, batch, held, subs, read, missed, used>>

Finish == /\ run # Resting /\ run.channels = <<>> /\ run.left = <<>>
          /\ run' = Resting
          /\ UNCHANGED <<flavour, now, batch, held, subs, read, missed, used>>

\* The next callback is called, with run as it is after the call.
Called(r) == [r EXCEPT !.left = Tail(@), !.heard = Append(@, Head(r.left))]

\* The callback of a scenario was unsubscribed after it was looked for.
Vanished == run.channel \in Triggers /\ ~run.own

Call == /\ run.left # <<>> /\ ~Vanished /\ run' = Called(run)
        /\ UNCHANGED <<flavour, now, batch, held, subs, read, missed, used>>

CallRaises == /\ run.left # <<>> /\ ~Vanished /\ Spend("faults", MaxFaults)
              /\ run' = Resting /\ Drop(0)
              /\ UNCHANGED <<flavour, now, held, subs>>

CallVanished == /\ run.left # <<>> /\ Vanished
                /\ used' = [used EXCEPT !.vanished = 1]
                /\ run' = Resting /\ Drop(0)
                /\ UNCHANGED <<flavour, now, held, subs>>

-----------------------------------------------------------------------------
\* Variant: a second subscription to the same scenario is added to the first
\* (for TypeOK).
EnteredAdds(list, c, cb) == IF c \in Triggers \cup States \cup {"new"} THEN Append(list, cb)
                            ELSE IF Contains(list, cb) THEN list ELSE Append(list, cb)

Entered(list, c, cb) == IF c \in Triggers THEN <<cb>>
                        ELSE IF c \in States \cup {"new"} THEN Append(list, cb)
                        ELSE IF Contains(list, cb) THEN list ELSE Append(list, cb)

Removed(list, c, cb) == IF c \in Triggers \cup States THEN <<>>
                        ELSE IF ~Contains(list, cb) THEN list
                        ELSE RemoveAt(list, CHOOSE i \in DOMAIN list : list[i] = cb)

(***************************************************************************)
(* What becomes of the handling r when someone subscribes or unsubscribes: *)
(* a list iterated without a copy grows with it, until it is taken out of  *)
(* the dictionary; a scenario's callback that is not called yet is         *)
(* replaced.                                                               *)
(***************************************************************************)
Seen(r, c, cb) ==
    IF c \in Triggers /\ r.left # <<>>
    THEN [r EXCEPT !.left = <<cb>>, !.start = <<cb>>, !.own = TRUE]
    ELSE IF c \in States /\ r.own THEN [r EXCEPT !.left = Append(@, cb)] ELSE r

Subscribe(r, c, cb) ==
    /\ Spend("subs", MaxSubs)
    /\ subs' = [subs EXCEPT ![c] = Entered(@, c, cb)]
    /\ run' = IF r.channel = c THEN Seen(r, c, cb) ELSE r

Unsubscribe(r, c, cb) ==
    /\ c # "new" /\ subs[c] # <<>>
    /\ Spend("subs", MaxSubs)
    /\ subs' = [subs EXCEPT ![c] = Removed(@, c, cb)]
    /\ run' = IF r.channel = c THEN [r EXCEPT !.own = FALSE] ELSE r

Changes(r) == \E c \in Channels, cb \in Callbacks : Subscribe(r, c, cb) \/ Unsubscribe(r, c, cb)

\* The next callback itself subscribes or unsubscribes.
CallChanges == /\ run.left # <<>> /\ ~Vanished /\ Changes(Called(run))
               /\ UNCHANGED <<flavour, now, batch, held, read, missed>>

(***************************************************************************)
(* Another thread does, at any time; with asyncio no other code runs while *)
(* an event is handled.                                                    *)
(***************************************************************************)
OthersChange == /\ flavour = "async" => run = Resting
                /\ Changes(run)
                /\ UNCHANGED <<flavour, now, batch, held, read, missed>>

(***************************************************************************)
(* Another thread calls short_poll of the intrusion system: the GET is     *)
(* answered, and what it says stored some time later.  Under asyncio it    *)
(* has no counterpart, in a lazy session no system.                        *)
(***************************************************************************)
ReadDomain == /\ flavour = "sync" /\ read = {} /\ Spend("reads", MaxReads)
              /\ read' = {[vers |-> [k \in Parts |-> now[k]], over |-> {}]}
              /\ UNCHANGED <<flavour, now, batch, held, subs, run, missed>>

StoreDomain == /\ \E r \in read :
                    /\ held' = [k \in Stored |-> IF k \in Parts THEN r.vers[k] ELSE held[k]]
                    /\ missed' = (missed \ Parts) \cup r.over
               /\ read' = {}
               /\ UNCHANGED <<flavour, now, batch, subs, run, used>>

Next == \/ \E k \in Keys : Arrive(k)
        \/ TakeRaises \/ Take \/ LookUp \/ Call \/ CallRaises \/ CallVanished \/ Finish
        \/ CallChanges \/ OthersChange
        \/ ReadDomain \/ StoreDomain

Spec == Init /\ [][Next]_vars

-----------------------------------------------------------------------------
(***************************************************************************)
(* The variables keep their types, the events of a key are on their way in *)
(* the order they happened and none is ahead of the SHC, and there is at   *)
(* most one callback for a scenario (subscribe_scenario_callback).         *)
(***************************************************************************)
TypeOK ==
    /\ flavour \in Flavours
    /\ now \in [Stored -> Nat] /\ held \in [Stored -> Nat]
    /\ \A k \in Stored : held[k] <= now[k]
    /\ batch \in Seq([key : Keys, ver : Nat])
    /\ \A i, j \in DOMAIN batch :
          i < j /\ batch[i].key = batch[j].key /\ batch[i].key \in Stored =>
              batch[i].ver < batch[j].ver
    /\ \A i \in DOMAIN batch : batch[i].key \in Stored => batch[i].ver <= now[batch[i].key]
    /\ subs \in [Channels -> Seq(Callbacks)]
    /\ \A c \in Triggers : Len(subs[c]) <= 1
    /\ run \in [channels : Seq(Channels), channel : Channels, left : Seq(Callbacks),
                start : Seq(Callbacks), heard : Seq(Callbacks), own : BOOLEAN]
    /\ read \subseteq [vers : [Parts -> Nat], over : SUBSET Parts]
    /\ missed \subseteq Stored
    /\ used \in [{"changes", "subs", "faults", "reads", "vanished"} -> Nat]

(***************************************************************************)
(* When every event has been handled, the session holds what the SHC has,  *)
(* unless it never read it, an exception dropped the event, or a re-read   *)
(* that was answered before the event was stored after it                  *)
(* (session.py 238-321, session_async.py 486-588, domain_impl.py 193-218). *)
(***************************************************************************)
HeldIsCurrent == batch = <<>> /\ read = {} => \A k \in Stored \ missed : held[k] = now[k]

(***************************************************************************)
(* Without an exception in a callback and without a re-read on another     *)
(* thread a session that was enumerated misses nothing: no event itself    *)
(* raises, which in a lazy one those of the intrusion system and of EMMA   *)
(* do (session.py 293-296, emma.py 86-88).  In an SHCSession a scenario's  *)
(* callback that another thread unsubscribes between the look and the call *)
(* raises too (session.py 268-269).                                        *)
(***************************************************************************)
EagerMissesNothing ==
    /\ flavour # "lazy" /\ used.faults = 0 /\ used.reads = 0 /\ missed # {} => used.vanished = 1
    /\ flavour = "async" => used.vanished = 0

(***************************************************************************)
(* Who is subscribed when an event looks the callbacks up is called for    *)
(* it, in that order and once, whoever unsubscribes meanwhile; in an       *)
(* SHCSession nobody else is, in an SHCSessionAsync those who subscribe to *)
(* the same state from a callback are too (session.py 310-316,             *)
(* session_async.py 575-580, domain_impl.py 220, emma.py 93).              *)
(***************************************************************************)
HeardAsFound ==
    /\ IsPrefix(run.start, run.heard \o run.left)
    /\ flavour # "async" => run.start = run.heard \o run.left
=============================================================================
