--------------------------- MODULE MCEventReplay ---------------------------
(* Instances of EventReplay for TLC. *)
EXTENDS EventReplay, TLC

CONSTANTS v1, v2

TwoValues == {v1, v2}
Symmetry  == Permutations(TwoValues)
AllKinds  == {"Keypad", "LatestMotion", "Alarm"}
=============================================================================
