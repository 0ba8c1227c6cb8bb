------------------------- MODULE QualityGateProofs -------------------------
(***************************************************************************)
(* Theorems about QualityGate, for any number of commands, datasets and    *)
(* windows.                                                                *)
(*                                                                         *)
(* Progress says what a command at each stage has made visible and what    *)
(* its session is about to; Reported ties the verdict a command returned   *)
(* to the outcome it left in the tables.                                   *)
(***************************************************************************)
EXTENDS QualityGate, TLAPS

(* Committed as running, without an outcome. *)
Pending(r) ==
    runs[r].status = "running" /\ runs[r].completed = 0 /\ results[r] = {}

(* Committed as succeeded. *)
Succeeded(r) ==
    runs[r].status = "succeeded" /\ runs[r].completed # 0 /\ results[r] # {}

Absent(r) ==
    runs[r].status = "absent" /\ runs[r].completed = 0 /\ results[r] = {}

Progress ==
    \A r \in Runs :
        /\ pc[r] \in {"idle", "starting"} => Absent(r)
        /\ pc[r] = "starting" => row[r].status = "running" /\ row[r].completed = 0
        /\ pc[r] \in {"evaluating", "storing"} => Pending(r)
        /\ pc[r] = "storing" =>
              row[r].status = "succeeded" /\ row[r].completed # 0 /\ found[r] # {}
        /\ pc[r] \in {"raising", "marking"} => Pending(r) \/ Succeeded(r)
        /\ pc[r] = "marking" => row[r].status = "failed" /\ row[r].completed # 0

Reported ==
    \A r \in Runs : report[r] # "none" =>
        /\ pc[r] = "done"
        /\ report[r] = "blocked" <=> Blocks(runs[r].status, results[r])

(* A run that was never committed covers nothing. *)
Unstarted == \A r \in Runs : runs[r].status = "absent" => runs[r].window = {}

IInv == TypeOK /\ Progress /\ OutcomeHasEvidence /\ Reported /\ Unstarted

-----------------------------------------------------------------------------
(* Type correctness *)

LEMMA NoRowType == NoRow \in Row
  BY DEF NoRow, Row

LEMMA StampType ==
  ASSUME TypeOK, NEW r \in Runs, NEW stamp \in 1..MaxNow, Stamp(r, stamp)
  PROVE  stamp \in Nat \ {0} /\ now' \in Nat \ {0}
  BY QualityAssumption DEF TypeOK, Stamp

(* The row a session stamps as completed. *)
LEMMA CompletedType ==
  ASSUME TypeOK, NEW r \in Runs, NEW stamp \in Nat \ {0}, NEW status \in Done,
         row' = [row EXCEPT ![r].status = status, ![r].completed = stamp]
  PROVE  /\ row' \in [Runs -> Row]
         /\ row'[r].status = status /\ row'[r].completed = stamp
         /\ \A s \in Runs \ {r} : row'[s] = row[s]
  <1> DEFINE new == [row[r] EXCEPT !.status = status, !.completed = stamp]
  <1>1. new \in Row /\ new.status = status /\ new.completed = stamp
    BY DEF TypeOK, Row, Done
  <1>2. row' = [row EXCEPT ![r] = new]
    BY DEF TypeOK
  <1>3. row \in [Runs -> Row]
    BY DEF TypeOK
  <1> HIDE DEF new
  <1>4. row'[r] = new /\ \A s \in Runs \ {r} : row'[s] = row[s]
    BY <1>2, <1>3
  <1>5. row' \in [Runs -> Row]
    BY <1>1, <1>2, <1>3
  <1> QED
    BY <1>1, <1>4, <1>5

LEMMA CloseType ==
  ASSUME TypeOK, NEW r \in Runs, NEW stage \in Stages, Close(r, stage)
  PROVE  /\ pc' \in [Runs -> Stages]
         /\ row' \in [Runs -> Row]
         /\ found' \in [Runs -> SUBSET Result]
         /\ clock' \in [Runs -> FixedClocks \cup {0}]
  BY NoRowType DEF TypeOK, Close, Goto

LEMMA TypeStep == TypeOK /\ [Next]_vars => TypeOK'
  <1> SUFFICES ASSUME TypeOK, [Next]_vars PROVE TypeOK'
    OBVIOUS
  <1> USE DEF Goto, Stages
  <1>1. ASSUME NEW r \in Runs, NEW dataset \in Datasets, NEW window \in Windows,
               NEW fixed \in FixedClocks \cup {0},
               StartQualityRun(r, dataset, window, fixed)
        PROVE  TypeOK'
    <2> DEFINE new == [id |-> lastId + 1, dataset |-> dataset, window |-> window,
                       status |-> "running",
                       started |-> IF fixed # 0 THEN fixed ELSE now, completed |-> 0]
    <2>1. new \in Row
      BY QualityAssumption DEF Row, TypeOK
    <2>2. row' = [row EXCEPT ![r] = new]
      BY <1>1 DEF StartQualityRun
    <2>3. now' \in Nat \ {0}
      BY <1>1 DEF StartQualityRun, TypeOK
    <2> HIDE DEF new
    <2> QED
      BY <1>1, <2>1, <2>2, <2>3 DEF StartQualityRun, TypeOK
  <1>2. ASSUME NEW r \in Runs, CommitStart(r) PROVE TypeOK'
    BY <1>2 DEF CommitStart, TypeOK
  <1>3. ASSUME NEW r \in Runs, EvaluateDataset(r) PROVE TypeOK'
    <2>1. PICK stamp \in 1..MaxNow, res \in ResultSets :
             /\ Stamp(r, stamp)
             /\ found' = [found EXCEPT ![r] = res]
             /\ row' = [row EXCEPT ![r].status = "succeeded", ![r].completed = stamp]
      BY <1>3 DEF EvaluateDataset
    <2>2. stamp \in Nat \ {0} /\ now' \in Nat \ {0}
      BY <2>1, StampType
    <2>3. row' \in [Runs -> Row]
      BY <2>1, <2>2, CompletedType DEF Done
    <2>4. found' \in [Runs -> SUBSET Result]
      BY <2>1, QualityAssumption DEF TypeOK
    <2> QED
      BY <1>3, <2>2, <2>3, <2>4 DEF EvaluateDataset, TypeOK
  <1>4. ASSUME NEW r \in Runs, CommitResults(r) PROVE TypeOK'
    BY <1>4, CloseType DEF CommitResults, TypeOK
  <1>5. ASSUME NEW r \in Runs, CommitResultsLostAck(r) PROVE TypeOK'
    BY <1>5 DEF CommitResultsLostAck, TypeOK
  <1>6. ASSUME NEW r \in Runs, Raise(r) PROVE TypeOK'
    BY <1>6 DEF Raise, TypeOK
  <1>7. ASSUME NEW r \in Runs, MarkQualityRunFailed(r) PROVE TypeOK'
    <2>1. PICK stamp \in 1..MaxNow :
             /\ Stamp(r, stamp)
             /\ row' = [row EXCEPT ![r].status = "failed", ![r].completed = stamp]
      BY <1>7 DEF MarkQualityRunFailed
    <2>2. stamp \in Nat \ {0} /\ now' \in Nat \ {0}
      BY <2>1, StampType
    <2>3. row' \in [Runs -> Row]
      BY <2>1, <2>2, CompletedType DEF Done
    <2> QED
      BY <1>7, <2>2, <2>3 DEF MarkQualityRunFailed, TypeOK
  <1>8. ASSUME NEW r \in Runs, CommitFailure(r) PROVE TypeOK'
    BY <1>8, CloseType DEF CommitFailure, TypeOK
  <1>9. ASSUME NEW r \in Runs, Crash(r) PROVE TypeOK'
    BY <1>9, CloseType DEF Crash, TypeOK
  <1>10. CASE UNCHANGED vars
    BY <1>10 DEF vars, TypeOK
  <1> QED
    BY <1>1, <1>2, <1>3, <1>4, <1>5, <1>6, <1>7, <1>8, <1>9, <1>10 DEF Next, Step

LEMMA TypeInit == Init => TypeOK
  BY NoRowType DEF Init, TypeOK, Stages

-----------------------------------------------------------------------------
(* Outcomes and reports *)

LEMMA InitInv == Init => IInv
  BY TypeInit DEF Init, IInv, Progress, OutcomeHasEvidence, Reported, Unstarted,
     Absent, NoRow, Done

(* What holds of a command that does not move, or only moves in its own    *)
(* session, keeps holding.                                                 *)
LEMMA OthersKeep ==
  ASSUME IInv, NEW r \in Runs,
         \A s \in Runs \ {r} :
            /\ runs'[s] = runs[s] /\ results'[s] = results[s] /\ pc'[s] = pc[s]
            /\ row'[s] = row[s] /\ found'[s] = found[s] /\ report'[s] = report[s],
         /\ pc'[r] \in {"idle", "starting"} => Absent(r)'
         /\ pc'[r] = "starting" => row'[r].status = "running" /\ row'[r].completed = 0
         /\ pc'[r] \in {"evaluating", "storing"} => Pending(r)'
         /\ pc'[r] = "storing" =>
               row'[r].status = "succeeded" /\ row'[r].completed # 0 /\ found'[r] # {}
         /\ pc'[r] \in {"raising", "marking"} => Pending(r)' \/ Succeeded(r)'
         /\ pc'[r] = "marking" => row'[r].status = "failed" /\ row'[r].completed # 0,
         /\ runs'[r].status = "succeeded" => results'[r] # {}
         /\ results'[r] # {} => runs'[r].status \in Done
         /\ runs'[r].status \in Done <=> runs'[r].completed # 0,
         runs'[r].status = "absent" => runs'[r].window = {},
         report'[r] # "none" =>
            /\ pc'[r] = "done"
            /\ report'[r] = "blocked" <=> Blocks(runs'[r].status, results'[r])
  PROVE  Progress' /\ OutcomeHasEvidence' /\ Reported' /\ Unstarted'
  <1>1. Progress'
    BY DEF IInv, Progress, Absent, Pending, Succeeded
  <1>2. OutcomeHasEvidence'
    BY DEF IInv, OutcomeHasEvidence
  <1>3. Reported'
    <2> SUFFICES ASSUME NEW s \in Runs \ {r}, report'[s] # "none"
                 PROVE  /\ pc'[s] = "done"
                        /\ report'[s] = "blocked" <=> Blocks(runs'[s].status, results'[s])
      BY DEF Reported, Blocks
    <2> QED
      BY DEF IInv, Reported
  <1>4. Unstarted'
    BY DEF IInv, Unstarted
  <1> QED
    BY <1>1, <1>2, <1>3, <1>4

LEMMA InvStep == IInv /\ [Next]_vars => IInv'
  <1> SUFFICES ASSUME IInv, [Next]_vars
               PROVE  Progress' /\ OutcomeHasEvidence' /\ Reported' /\ Unstarted'
    BY TypeStep DEF IInv
  <1> DEFINE Goal == Progress' /\ OutcomeHasEvidence' /\ Reported' /\ Unstarted'
  <1> USE DEF Goto
  <1>0. /\ TypeOK
        /\ \A r \in Runs : pc[r] # "done" => report[r] = "none"
        /\ \A r \in Runs : runs[r].status = "absent" => runs[r].window = {}
    BY DEF IInv, Reported, Unstarted
  <1>1. ASSUME NEW r \in Runs, NEW dataset \in Datasets, NEW window \in Windows,
               NEW fixed \in FixedClocks \cup {0},
               StartQualityRun(r, dataset, window, fixed)
        PROVE  Goal
    <2>1. pc[r] = "idle" /\ pc'[r] = "starting"
      BY <1>0, <1>1 DEF StartQualityRun, TypeOK
    <2>2. row'[r].status = "running" /\ row'[r].completed = 0
      BY <1>0, <1>1 DEF StartQualityRun, TypeOK
    <2>3. Absent(r)'
      BY <1>1, <2>1 DEF StartQualityRun, IInv, Progress, Absent
    <2> QED
      BY <1>0, <1>1, <2>1, <2>2, <2>3, OthersKeep
         DEF StartQualityRun, TypeOK, Absent, Done
  <1>2. ASSUME NEW r \in Runs, CommitStart(r) PROVE Goal
    <2>1. pc[r] = "starting" /\ pc'[r] = "evaluating" /\ runs'[r] = row[r]
      BY <1>0, <1>2 DEF CommitStart, TypeOK
    <2>2. Pending(r)'
      BY <1>2, <2>1 DEF CommitStart, IInv, Progress, Absent, Pending
    <2> QED
      BY <1>0, <1>2, <2>1, <2>2, OthersKeep DEF CommitStart, TypeOK, Pending, Done
  <1>3. ASSUME NEW r \in Runs, EvaluateDataset(r) PROVE Goal
    <2>1. PICK stamp \in 1..MaxNow, res \in ResultSets :
             /\ Stamp(r, stamp)
             /\ found' = [found EXCEPT ![r] = res]
             /\ row' = [row EXCEPT ![r].status = "succeeded", ![r].completed = stamp]
      BY <1>3 DEF EvaluateDataset
    <2>2. stamp \in Nat \ {0}
      BY <1>0, <2>1, StampType
    <2>3. /\ row'[r].status = "succeeded" /\ row'[r].completed # 0
          /\ \A s \in Runs \ {r} : row'[s] = row[s]
      BY <1>0, <2>1, <2>2, CompletedType DEF Done
    <2>4. found'[r] # {} /\ \A s \in Runs \ {r} : found'[s] = found[s]
      BY <1>0, <2>1, QualityAssumption DEF TypeOK
    <2>5. pc[r] = "evaluating" /\ pc'[r] = "storing" /\ Pending(r)'
      BY <1>0, <1>3 DEF EvaluateDataset, TypeOK, IInv, Progress, Pending
    <2> QED
      BY <1>0, <1>3, <2>3, <2>4, <2>5, OthersKeep
         DEF EvaluateDataset, TypeOK, Pending, Done
  <1>4. ASSUME NEW r \in Runs, CommitResults(r) PROVE Goal
    <2>1. /\ pc[r] = "storing" /\ pc'[r] = "done"
          /\ runs'[r] = row[r] /\ results'[r] = found[r]
          /\ report'[r] = IF Blocks(row[r].status, found[r]) THEN "blocked" ELSE "open"
      BY <1>0, <1>4 DEF CommitResults, Close, TypeOK
    <2>2. row[r].status = "succeeded" /\ row[r].completed # 0 /\ found[r] # {}
      BY <2>1 DEF IInv, Progress
    <2> QED
      BY <1>0, <1>4, <2>1, <2>2, OthersKeep DEF CommitResults, Close, TypeOK, Done
  <1>5. ASSUME NEW r \in Runs, CommitResultsLostAck(r) PROVE Goal
    <2>1. /\ pc[r] = "storing" /\ pc'[r] = "raising"
          /\ runs'[r] = row[r] /\ results'[r] = found[r]
      BY <1>0, <1>5 DEF CommitResultsLostAck, TypeOK
    <2>2. Succeeded(r)'
      BY <2>1 DEF IInv, Progress, Succeeded
    <2> QED
      BY <1>0, <1>5, <2>1, <2>2, OthersKeep
         DEF CommitResultsLostAck, TypeOK, Succeeded, Done
  <1>6. ASSUME NEW r \in Runs, Raise(r) PROVE Goal
    <2>1. pc[r] \in {"evaluating", "storing"} /\ pc'[r] = "raising"
      BY <1>0, <1>6 DEF Raise, TypeOK
    <2>2. Pending(r)'
      BY <1>6, <2>1 DEF Raise, IInv, Progress, Pending
    <2> QED
      BY <1>0, <1>6, <2>1, <2>2, OthersKeep DEF Raise, TypeOK, Pending, Done
  <1>7. ASSUME NEW r \in Runs, MarkQualityRunFailed(r) PROVE Goal
    <2>1. PICK stamp \in 1..MaxNow :
             /\ Stamp(r, stamp)
             /\ row' = [row EXCEPT ![r].status = "failed", ![r].completed = stamp]
      BY <1>7 DEF MarkQualityRunFailed
    <2>2. stamp \in Nat \ {0}
      BY <1>0, <2>1, StampType
    <2>3. /\ row'[r].status = "failed" /\ row'[r].completed # 0
          /\ \A s \in Runs \ {r} : row'[s] = row[s]
      BY <1>0, <2>1, <2>2, CompletedType DEF Done
    <2>4. /\ pc[r] = "raising" /\ pc'[r] = "marking"
          /\ Pending(r)' \/ Succeeded(r)'
      BY <1>0, <1>7 DEF MarkQualityRunFailed, TypeOK, IInv, Progress, Pending, Succeeded
    <2> QED
      BY <1>0, <1>7, <2>3, <2>4, OthersKeep
         DEF MarkQualityRunFailed, TypeOK, Pending, Succeeded, Done
  <1>8. ASSUME NEW r \in Runs, CommitFailure(r) PROVE Goal
    <2>1. /\ pc[r] = "marking" /\ pc'[r] = "done" /\ runs'[r] = row[r]
          /\ results'[r] = results[r] /\ report'[r] = "blocked"
      BY <1>0, <1>8 DEF CommitFailure, Close, TypeOK
    <2>2. row[r].status = "failed" /\ row[r].completed # 0
      BY <2>1 DEF IInv, Progress
    <2>3. Blocks(row[r].status, results[r])
      BY <2>2 DEF Blocks
    <2> QED
      BY <1>0, <1>8, <2>1, <2>2, <2>3, OthersKeep DEF CommitFailure, Close, TypeOK, Done
  <1>9. ASSUME NEW r \in Runs, Crash(r) PROVE Goal
    <2>1. pc'[r] = "crashed" /\ report'[r] = "none"
      BY <1>0, <1>9 DEF Crash, Close, Open, TypeOK
    <2> QED
      BY <1>0, <1>9, <2>1, OthersKeep
         DEF Crash, Close, TypeOK, IInv, OutcomeHasEvidence
  <1>10. CASE UNCHANGED vars
    BY <1>10 DEF vars, IInv, Progress, OutcomeHasEvidence, Reported, Unstarted, Absent,
       Pending, Succeeded, Blocks
  <1> QED
    BY <1>1, <1>2, <1>3, <1>4, <1>5, <1>6, <1>7, <1>8, <1>9, <1>10 DEF Next, Step

(* The latest run of a dataset is the gate's answer. *)
LEMMA LatestDecides ==
  ASSUME IInv, NEW dataset \in Datasets, NEW window \in Windows,
         \A r \in Applicable(dataset, window) : runs[r].status # "running",
         NEW r \in Applicable(dataset, window),
         \A s \in Applicable(dataset, window) \ {r} : runs[s].completed < runs[r].completed
  PROVE  Blocked(dataset, window) <=> Blocks(runs[r].status, results[r])
  <1> DEFINE covering == Applicable(dataset, window)
  <1>1. \A s \in covering : /\ s \in Runs
                            /\ runs[s] \in Row
                            /\ runs[s].window # {}
    BY DEF Applicable, IInv, TypeOK
  <1>2. \A s \in covering : runs[s].status \in Done
    BY <1>1 DEF IInv, Unstarted, Row
  <1>3. \A s \in covering : runs[s].completed \in Nat \ {0}
    BY <1>1, <1>2 DEF Row, IInv, OutcomeHasEvidence
  <1>4. \A s \in covering \ {r} : Precedes(r, s) /\ ~Precedes(s, r)
    BY <1>3 DEF Precedes
  <1> HIDE DEF covering
  <1> QED
    BY <1>4 DEF Blocked, covering

(* Every variable of the quality runner keeps its type. *)
THEOREM TypeInvariant == Spec => []TypeOK
  BY TypeInit, TypeStep, PTL DEF Spec

(* No run is ever visible with results and no outcome, or succeeded        *)
(* without results, wherever commands crash or lose their connection.      *)
THEOREM EvidenceInvariant == Spec => []OutcomeHasEvidence
  <1>1. IInv => OutcomeHasEvidence
    BY DEF IInv
  <1> QED
    BY <1>1, InitInv, InvStep, PTL DEF Spec

(* The gate answers what the last finished command reported, for any       *)
(* number of concurrent commands and any windows.                          *)
THEOREM GateAgreesWithReport == Spec => []ReportAgrees
  <1>1. IInv => ReportAgrees
    <2> SUFFICES ASSUME IInv, NEW dataset \in Datasets, NEW window \in Windows,
                        \A r \in Applicable(dataset, window) : runs[r].status # "running",
                        NEW r \in Applicable(dataset, window),
                        \A s \in Applicable(dataset, window) \ {r} :
                           runs[s].completed < runs[r].completed,
                        report[r] # "none"
                 PROVE  report[r] = "blocked" <=> Blocked(dataset, window)
      BY DEF ReportAgrees
    <2>1. r \in Runs
      BY DEF Applicable
    <2>2. report[r] = "blocked" <=> Blocks(runs[r].status, results[r])
      BY <2>1 DEF IInv, Reported
    <2>3. Blocked(dataset, window) <=> Blocks(runs[r].status, results[r])
      BY LatestDecides
    <2> QED
      BY <2>2, <2>3
  <1> QED
    BY <1>1, InitInv, InvStep, PTL DEF Spec
=============================================================================
