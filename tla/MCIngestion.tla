---------------------------- MODULE MCIngestion ----------------------------
(***************************************************************************)
(* Instances of Ingestion for TLC.                                         *)
(***************************************************************************)
EXTENDS Ingestion, TLC

CONSTANTS k1, k2, A, B, first, revised, again, garbled, doubled,
          repeated

(* Two keys; "revised" changes both of them and lists them the other way   *)
(* round, as a source that reorders its file does.                         *)
MCRecords ==
    [p \in Payloads |->
        CASE p = first -> << <<k1, A>>, <<k2, A>> >>
          [] p = revised -> << <<k2, B>>, <<k1, B>> >>
          [] p = again -> << <<k1, A>> >>
          [] p = doubled -> << <<k1, B>>, <<k1, A>> >>
          [] p = repeated -> << <<k1, A>>, <<k1, A>> >>
          [] OTHER -> << >>]

Symmetry == Permutations(Runs)
=============================================================================
