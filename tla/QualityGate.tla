---------------------------- MODULE QualityGate ----------------------------
(***************************************************************************)
(* The quality runner (gridops.quality.runner, gridops.quality.results)    *)
(* and the blocking decision that gates what is built from a dataset       *)
(* (gridops.quality.blocking), over quality_runs and quality_results.      *)
(*                                                                         *)
(* A run is one run-quality-checks command.  It commits the run as         *)
(* running, evaluates and commits the results with the outcome in a second *)
(* transaction, and on an exception commits the failure in a third.        *)
(* Commands run concurrently, die between two commits, and stamp a row     *)
(* some time before the commit that shows it to others.                    *)
(***************************************************************************)
EXTENDS Integers, FiniteSets

CONSTANTS
    Runs,         \* commands
    Datasets,     \* supported datasets
    NoDataset,    \* the dataset of a run that does not exist
    Hours,        \* the time line; a window is a set of hours
    Windows,      \* windows commands check, Hours when they name none
    ResultSets,   \* sets of results an evaluation may come to
    FixedClocks,  \* what --now-utc may be
    MaxNow,       \* bound: readings of the system clock
    MaxOpen,      \* bound: commands in progress at one time
    Faults        \* which of "crash", "error", "lostack" may happen

(* is_blocking is the flag a check sets on its result. *)
Severities == {"info", "warning", "error", "critical"}
Result == [severity : Severities, blocking : BOOLEAN]

(* Every evaluation returns a result: "no rows" is one of them. *)
ASSUME QualityAssumption ==
    /\ NoDataset \notin Datasets
    /\ ResultSets \subseteq (SUBSET Result) \ {{}}
    /\ Windows \subseteq (SUBSET Hours) \ {{}}
    /\ FixedClocks \subseteq Nat \ {0}
    /\ MaxNow \in Nat
    /\ MaxOpen \in Nat
    /\ Faults \subseteq {"crash", "error", "lostack"}

VARIABLES
    runs,     \* committed quality_runs
    results,  \* committed quality_results of a run
    pc,       \* where a command is
    clock,    \* its --now-utc, 0 when not given
    row,      \* the quality_runs row in its session
    found,    \* the results in its session
    report,   \* is_blocked of the QualityRunnerResult it returned
    lastId,   \* the sequence behind quality_runs.id
    now       \* the system clock

vars == <<runs, results, pc, clock, row, found, report, lastId, now>>

-----------------------------------------------------------------------------
(* Types *)

Done == {"succeeded", "failed"}

(* completed = 0 is NULL. *)
Row == [id : Nat,
        dataset : Datasets \cup {NoDataset},
        window : SUBSET Hours,
        status : Done \cup {"absent", "running"},
        started : Nat,
        completed : Nat]
NoRow == [id |-> 0, dataset |-> NoDataset, window |-> {}, status |-> "absent",
          started |-> 0, completed |-> 0]

Stages == {"idle", "starting", "evaluating", "storing", "raising", "marking",
           "done", "crashed"}

TypeOK ==
    /\ runs \in [Runs -> Row]
    /\ results \in [Runs -> SUBSET Result]
    /\ pc \in [Runs -> Stages]
    /\ clock \in [Runs -> FixedClocks \cup {0}]
    /\ row \in [Runs -> Row]
    /\ found \in [Runs -> SUBSET Result]
    /\ report \in [Runs -> {"none", "open", "blocked"}]
    /\ lastId \in Nat
    /\ now \in Nat \ {0}

Init ==
    /\ runs = [r \in Runs |-> NoRow]
    /\ results = [r \in Runs |-> {}]
    /\ pc = [r \in Runs |-> "idle"]
    /\ clock = [r \in Runs |-> 0]
    /\ row = [r \in Runs |-> NoRow]
    /\ found = [r \in Runs |-> {}]
    /\ report = [r \in Runs |-> "none"]
    /\ lastId = 0
    /\ now = 1

-----------------------------------------------------------------------------
(* gridops.quality.blocking *)

(* decide_run_blocking *)
Blocks(status, found_) ==
    \/ \E res \in found_ : res.blocking \/ res.severity \in {"error", "critical"}
    \/ status = "failed"

(* Fault: the oldest run first. *)
PrecedesAscending(r, s) ==
    LET a == runs[r]
        b == runs[s]
    IN  \/ a.completed < b.completed
        \/ a.completed = b.completed /\ a.id < b.id

(* ORDER BY completed_at_utc DESC, started_at_utc DESC, id DESC: PostgreSQL *)
(* sorts NULL as larger than every value.                                  *)
Precedes(r, s) ==
    LET a == runs[r]
        b == runs[s]
        tied == a.completed = b.completed
    IN  \/ a.completed = 0 /\ b.completed # 0
        \/ a.completed # 0 /\ b.completed # 0 /\ a.completed > b.completed
        \/ tied /\ a.started > b.started
        \/ tied /\ a.started = b.started /\ a.id > b.id

(* _window_overlaps *)
Applicable(dataset, window) ==
    {r \in Runs : runs[r].dataset = dataset /\ runs[r].window \cap window # {}}

(* get_blocking_decision for the window: _latest_applicable_run, decided   *)
(* by its results.  A dataset no run covers is not blocked.                *)
Blocked(dataset, window) ==
    \E r \in Applicable(dataset, window) :
        /\ \A s \in Applicable(dataset, window) \ {r} : Precedes(r, s)
        /\ Blocks(runs[r].status, results[r])

-----------------------------------------------------------------------------
(* run_quality_checks *)

Goto(r, stage) == pc' = [pc EXCEPT ![r] = stage]

(* Reading the clock: the fixed one, or the system clock, which moves on. *)
Stamp(r, stamp) ==
    IF clock[r] # 0
    THEN stamp = clock[r] /\ UNCHANGED now
    ELSE stamp = now /\ now < MaxNow /\ now' = now + 1

(* The session and the command's arguments are gone. *)
Close(r, stage) ==
    /\ Goto(r, stage)
    /\ row' = [row EXCEPT ![r] = NoRow]
    /\ found' = [found EXCEPT ![r] = {}]
    /\ clock' = [clock EXCEPT ![r] = 0]

Open(r) == pc[r] \notin {"idle", "done", "crashed"}

(* start_quality_run: the row is stamped, inserted as running and takes    *)
(* its id.                                                                 *)
StartQualityRun(r, dataset, window, fixed) ==
    /\ pc[r] = "idle"
    /\ Cardinality({s \in Runs : Open(s)}) < MaxOpen
    /\ \/ fixed # 0 /\ UNCHANGED now
       \/ fixed = 0 /\ now < MaxNow /\ now' = now + 1
    /\ clock' = [clock EXCEPT ![r] = fixed]
    /\ row' = [row EXCEPT ![r] =
          [id |-> lastId + 1, dataset |-> dataset, window |-> window,
           status |-> "running", started |-> IF fixed # 0 THEN fixed ELSE now,
           completed |-> 0]]
    /\ lastId' = lastId + 1
    /\ Goto(r, "starting")
    /\ UNCHANGED <<runs, results, found, report>>

CommitStart(r) ==
    /\ pc[r] = "starting"
    /\ runs' = [runs EXCEPT ![r] = row[r]]
    /\ Goto(r, "evaluating")
    /\ UNCHANGED <<results, clock, row, found, report, lastId, now>>

(* Fault: an evaluation that meets no rows returns no result. *)
EvaluateDatasetSilently(r) ==
    /\ pc[r] = "evaluating"
    /\ \E stamp \in 1..MaxNow, res \in ResultSets \cup {{}} :
          /\ Stamp(r, stamp)
          /\ found' = [found EXCEPT ![r] = res]
          /\ row' = [row EXCEPT ![r].status = "succeeded", ![r].completed = stamp]
    /\ Goto(r, "storing")
    /\ UNCHANGED <<runs, results, clock, report, lastId>>

(* _evaluate_dataset, store_quality_result for each result, and            *)
(* mark_quality_run_succeeded, which stamps the completion.                *)
EvaluateDataset(r) ==
    /\ pc[r] = "evaluating"
    /\ \E stamp \in 1..MaxNow, res \in ResultSets :
          /\ Stamp(r, stamp)
          /\ found' = [found EXCEPT ![r] = res]
          /\ row' = [row EXCEPT ![r].status = "succeeded", ![r].completed = stamp]
    /\ Goto(r, "storing")
    /\ UNCHANGED <<runs, results, clock, report, lastId>>

CommitResults(r) ==
    /\ pc[r] = "storing"
    /\ runs' = [runs EXCEPT ![r] = row[r]]
    /\ results' = [results EXCEPT ![r] = found[r]]
    /\ report' = [report EXCEPT ![r] =
          IF Blocks(row[r].status, found[r]) THEN "blocked" ELSE "open"]
    /\ Close(r, "done")
    /\ UNCHANGED <<lastId, now>>

(* The commit takes effect but the connection is lost before its answer. *)
CommitResultsLostAck(r) ==
    /\ "lostack" \in Faults
    /\ pc[r] = "storing"
    /\ runs' = [runs EXCEPT ![r] = row[r]]
    /\ results' = [results EXCEPT ![r] = found[r]]
    /\ Goto(r, "raising")
    /\ UNCHANGED <<clock, row, found, report, lastId, now>>

(* Fault: only failures of the evaluation itself are handled. *)
RaiseUnhandled(r) ==
    /\ "error" \in Faults
    /\ \/ pc[r] = "evaluating" /\ Goto(r, "raising")
       \/ pc[r] = "storing" /\ Goto(r, "done")
    /\ UNCHANGED <<runs, results, clock, row, found, report, lastId, now>>

(* An exception in the evaluation, a flush or the commit rolls back. *)
Raise(r) ==
    /\ "error" \in Faults
    /\ pc[r] \in {"evaluating", "storing"}
    /\ Goto(r, "raising")
    /\ UNCHANGED <<runs, results, clock, row, found, report, lastId, now>>

(* Fault: a failure is recorded with the status the results use for one. *)
MarkQualityRunFailedAsError(r) ==
    /\ pc[r] = "raising"
    /\ \E stamp \in 1..MaxNow :
          /\ Stamp(r, stamp)
          /\ row' = [row EXCEPT ![r].status = "error", ![r].completed = stamp]
    /\ Goto(r, "marking")
    /\ UNCHANGED <<runs, results, clock, found, report, lastId>>

(* mark_quality_run_failed, in a session of its own. *)
MarkQualityRunFailed(r) ==
    /\ pc[r] = "raising"
    /\ \E stamp \in 1..MaxNow :
          /\ Stamp(r, stamp)
          /\ row' = [row EXCEPT ![r].status = "failed", ![r].completed = stamp]
    /\ Goto(r, "marking")
    /\ UNCHANGED <<runs, results, clock, found, report, lastId>>

CommitFailure(r) ==
    /\ pc[r] = "marking"
    /\ runs' = [runs EXCEPT ![r] = row[r]]
    /\ report' = [report EXCEPT ![r] = "blocked"]
    /\ Close(r, "done")
    /\ UNCHANGED <<results, lastId, now>>

(* The process dies, or an error hits the start or the third transaction. *)
Crash(r) ==
    /\ "crash" \in Faults
    /\ Open(r)
    /\ Close(r, "crashed")
    /\ UNCHANGED <<runs, results, report, lastId, now>>

Step(r) ==
    \/ CommitStart(r)
    \/ EvaluateDataset(r)
    \/ CommitResults(r)
    \/ CommitResultsLostAck(r)
    \/ Raise(r)
    \/ MarkQualityRunFailed(r)
    \/ CommitFailure(r)

Next ==
    \E r \in Runs :
        \/ \E dataset \in Datasets, window \in Windows, fixed \in FixedClocks \cup {0} :
              StartQualityRun(r, dataset, window, fixed)
        \/ Step(r)
        \/ Crash(r)

Spec == Init /\ [][Next]_vars

(* A started command keeps executing. *)
FairSpec == Spec /\ \A r \in Runs : WF_vars(Step(r))

-----------------------------------------------------------------------------
(* Correctness *)

(* Results and outcome become visible together: no run shows results while *)
(* it is running, and none succeeds without them.                          *)
OutcomeHasEvidence ==
    \A r \in Runs :
        /\ runs[r].status = "succeeded" => results[r] # {}
        /\ results[r] # {} => runs[r].status \in Done
        /\ runs[r].status \in Done <=> runs[r].completed # 0

(* What the command told its caller is what the gate says: when no run     *)
(* that covers a window is still running, the gate's answer is the one     *)
(* reported by the run among them that was completed last.                 *)
ReportAgrees ==
    \A dataset \in Datasets, window \in Windows :
        LET covering == Applicable(dataset, window)
        IN  (\A r \in covering : runs[r].status # "running") =>
                \A r \in covering :
                    /\ \A s \in covering \ {r} : runs[s].completed < runs[r].completed
                    /\ report[r] # "none"
                    => (report[r] = "blocked" <=> Blocked(dataset, window))

(* A command whose process lives ends with its run succeeded or failed.    *)
RunsFinish ==
    \A r \in Runs : Open(r) ~> \/ runs[r].status \in Done /\ report[r] # "none"
                               \/ pc[r] = "crashed"

-----------------------------------------------------------------------------
(* What the documents say and the code does not do *)

(* QUALITY_CONTRACTS.md, "Blocking Behavior": "a failed quality run blocks *)
(* and is treated as critical at decision time", decided by "the latest    *)
(* applicable quality run".  A blocked dataset should open only because a  *)
(* run of it succeeded; it opens as soon as the next run is started.       *)
OpensOnlyOnSuccess ==
    [][\A dataset \in Datasets : Blocked(dataset, Hours) /\ ~Blocked(dataset, Hours)' =>
          \E r \in Runs : /\ runs'[r].dataset = dataset
                          /\ runs[r].status # "succeeded"
                          /\ runs'[r].status = "succeeded"
      ]_<<runs, results>>
=============================================================================
