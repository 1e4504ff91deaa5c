-------------------------- MODULE MCSyncLifecycle --------------------------
(* Instances of SyncLifecycle for TLC. *)
EXTENDS SyncLifecycle

CONSTANTS c1

OneCaller  == {c1}
=============================================================================
