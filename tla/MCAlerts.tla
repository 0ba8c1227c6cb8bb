------------------------------ MODULE MCAlerts ------------------------------
(***************************************************************************)
(* Instances of Alerts for TLC.                                            *)
(***************************************************************************)
EXTENDS Alerts, TLC

CONSTANTS peak, ramp

(* Two predictions over their thresholds; one of them only, when the other *)
(* has no source-health context to combine with; none.                     *)
MCCandidateLists == {<<peak, ramp>>, <<ramp>>, << >>}

Symmetry == Permutations(Calls) \cup Permutations(Alerts)
=============================================================================
