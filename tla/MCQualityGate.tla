--------------------------- MODULE MCQualityGate ---------------------------
(***************************************************************************)
(* Instances of QualityGate for TLC.                                       *)
(***************************************************************************)
EXTENDS QualityGate

(* What passed_result, skipped_result and failed_result return. *)
Passed == [severity |-> "info", blocking |-> FALSE]
Skipped == [severity |-> "warning", blocking |-> FALSE]
Failed == [severity |-> "error", blocking |-> TRUE]

TwoHours == {1, 2}
WideAndNarrow == {{1, 2}, {1}}
PassOrFail == {{Passed, Skipped}, {Passed, Failed}}
=============================================================================
