---------------------------- MODULE SharedRecord ----------------------------
(***************************************************************************)
(* What a client of the SHC may rely on when it writes one field of a      *)
(* record that the SHC and other clients change as well (the state of a    *)
(* device service, the body of a device), said without requests, retries,  *)
(* timeouts or events: which changes of the record are ours, and which     *)
(* records the client can take for current.                                *)
(*                                                                         *)
(* record   what the SHC has, a function of its two fields                 *)
(* view     what the client takes for current                              *)
(* known    the records on their way to the client                         *)
(* writes   the writes asked for whose effect may still come               *)
(* foreign  how many changes others have made                              *)
(* rule     the kind of write, fixed                                       *)
(***************************************************************************)
EXTENDS Naturals

CONSTANTS Values, Absent

VARIABLES record, view, known, writes, foreign, rule
vars == <<record, view, known, writes, foreign, rule>>

Records == [{"f", "g"} -> Values \cup {Absent}]

\* A record none of whose fields the client knows.
Unknown == [k \in {"f", "g"} |-> Absent]

Init == /\ record \in Records /\ view \in {record, Unknown}
        /\ known = {} /\ writes = {} /\ foreign = 0

(***************************************************************************)
(* A write asks for a value of f, with the g the client takes for current. *)
(***************************************************************************)
Ask == /\ UNCHANGED <<record, view, foreign>>
       /\ rule.guarded => view # Unknown
       /\ \E v \in Values : writes' = writes \cup {[val |-> v, saw |-> view.g]}

(***************************************************************************)
(* It changes f to that value or not at all; g keeps its value, goes back  *)
(* to what the client saw, or gets a default when the client saw nothing   *)
(* it understood.                                                          *)
(***************************************************************************)
Effect(w, r) ==
    /\ r.f \in {record.f, w.val}
    /\ r.g \in {record.g, w.saw} \cup {d \in {rule.gDefault} : w.saw \in rule.gUnread}

TakeEffect == /\ UNCHANGED <<view, foreign>>
              /\ record' \in Records /\ \E w \in writes : Effect(w, record')
              /\ writes' \subseteq writes

\* It may be done, refused or given up: the client cannot always tell.
Forget == UNCHANGED <<record, view, foreign>> /\ writes' \subseteq writes

Foreign == /\ foreign' = foreign + 1 /\ record' \in Records
           /\ UNCHANGED <<view, writes>>

(***************************************************************************)
(* The client learns of a record.  Where it stores what it is answered and *)
(* is answered nothing, it believes that what it sent is the record now.   *)
(***************************************************************************)
Believed == {[f |-> w.val, g |-> w.saw] : w \in {x \in writes : rule.stores}}

Learn == /\ UNCHANGED <<record, foreign>>
         /\ view' \in known \cup {record} \cup Believed
         /\ writes' \subseteq writes

\* A local setter changes what the client takes for current, and nothing else.
Pretend == /\ rule.local /\ \E v \in Values : view' = [view EXCEPT !.f = v]
           /\ UNCHANGED <<record, writes, foreign>>

(***************************************************************************)
(* Whatever happens, news can be lost, and only the SHC makes them.        *)
(***************************************************************************)
Next == /\ Forget \/ Foreign \/ Learn \/ Ask \/ TakeEffect \/ Pretend
        /\ known' \subseteq known \cup {record'}
        /\ rule' = rule

Spec == Init /\ [][Next]_vars
=============================================================================
