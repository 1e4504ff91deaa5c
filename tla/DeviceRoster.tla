---------------------------- MODULE DeviceRoster ----------------------------
(***************************************************************************)
(* What an application may rely on that holds on to the device objects of  *)
(* a session, said without events, batches, requests or failures: which    *)
(* object stands for a device, how it is replaced, and what becomes of the *)
(* objects that are no longer used.                                        *)
(*                                                                         *)
(* current  the object in use for each device, 0 for none                  *)
(* made     how many objects each device has had                           *)
(* deleted  objects that say their device is deleted                       *)
(* told     which subscriber has been given which object                   *)
(***************************************************************************)
EXTENDS Naturals

CONSTANTS Devices, Subscribers

VARIABLES current, made, deleted, told
vars == <<current, made, deleted, told>>

Object(d) == <<d, current[d]>>

Init == /\ current = [d \in Devices |-> 0]
        /\ made = current
        /\ deleted = {}
        /\ told = {}

\* The devices a session finds when it is built, before it has had any object.
Enumerate ==
    /\ \A d \in Devices : made[d] = 0
    /\ \E found \in SUBSET Devices :
          /\ current' = [d \in Devices |-> IF d \in found THEN 1 ELSE 0]
          /\ told' = Subscribers \X {<<d, 1>> : d \in found}
    /\ made' = current'
    /\ UNCHANGED deleted

\* A device always joins with an object of its own, which may say from the
\* start that it is deleted.
Join(d) ==
    /\ current[d] = 0
    /\ made' = [made EXCEPT ![d] = @ + 1]
    /\ current' = [current EXCEPT ![d] = made'[d]]
    /\ deleted' \in {deleted, deleted \cup {<<d, made'[d]>>}}
    /\ UNCHANGED told

\* Only the object in use learns what the SHC says of its device ...
Update(d) ==
    /\ current[d] # 0
    /\ deleted' \in {deleted \cup {Object(d)}, deleted \ {Object(d)}}
    /\ UNCHANGED <<current, made, told>>

\* ... and one that leaves says so, for good.
Leave(d) ==
    /\ current[d] # 0
    /\ deleted' = deleted \cup {Object(d)}
    /\ current' = [current EXCEPT ![d] = 0]
    /\ UNCHANGED <<made, told>>

\* Nobody is given an object that is not in use.
Tell(s, d) ==
    /\ current[d] # 0
    /\ told' = told \cup {<<s, Object(d)>>}
    /\ UNCHANGED <<current, made, deleted>>

Next ==
    \/ Enumerate
    \/ \E d \in Devices :
          \/ Join(d) \/ Update(d) \/ Leave(d)
          \/ \E s \in Subscribers : Tell(s, d)

Spec == Init /\ [][Next]_vars
=============================================================================
