----------------------------- MODULE MCDispatch -----------------------------
(***************************************************************************)
(* Dispatch with one message, scenario and user defined state, two parts   *)
(* of the intrusion detection system and two callbacks.                    *)
(***************************************************************************)
EXTENDS Dispatch, TLC

CONSTANTS message, scenario, arming, alarm, state, a, b

MCMessages == {message}
MCScenarios == {scenario}
MCParts == {arming, alarm}
MCStates == {state}
MCCallbacks == {a, b}
MCFlavours == {"sync", "lazy", "async"}
Symmetry == Permutations(MCCallbacks) \cup Permutations(MCParts)
=============================================================================
