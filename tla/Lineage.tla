------------------------------ MODULE Lineage ------------------------------
(***************************************************************************)
(* What the forecasting commands promise about provenance (the lineage     *)
(* columns of FORECAST_OUTPUT_CONTRACT.md and MODEL_ARTIFACT_CONTRACT.md): *)
(* outputs are published once and for good, and each rests only on outputs *)
(* published before it.  Followed backwards, evidence never runs in a      *)
(* circle and never leads to something that was rolled back.               *)
(***************************************************************************)
CONSTANT Outputs

VARIABLES
    published,  \* the outputs that can be read
    basis       \* what a published output rests on

lineageVars == <<published, basis>>

LineageInit == published = {} /\ basis = [o \in Outputs |-> {}]

Publish(o) ==
    /\ o \notin published
    /\ published' = published \cup {o}
    /\ basis'[o] \subseteq published
    /\ basis' = [basis EXCEPT ![o] = basis'[o]]

LineageNext == \E o \in Outputs : Publish(o)

LineageSpec == LineageInit /\ [][LineageNext]_lineageVars
=============================================================================
