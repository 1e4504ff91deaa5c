-------------------------- MODULE MCDeviceRegistry --------------------------
(* Instances of DeviceRegistry for TLC. *)
EXTENDS DeviceRegistry, TLC

CONSTANTS d1, d2, u1, u2

TwoDevices     == {d1, d2}
TwoSubscribers == {u1, u2}
OneListed      == {d1}
Symmetry       == Permutations(TwoSubscribers)
=============================================================================
