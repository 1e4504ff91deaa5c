-------------------------- MODULE MCAsyncLifecycle --------------------------
(* Instances of AsyncLifecycle for TLC. *)
EXTENDS AsyncLifecycle

CONSTANT c1

OneCaller  == {c1}
=============================================================================
