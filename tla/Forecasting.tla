---------------------------- MODULE Forecasting ----------------------------
(***************************************************************************)
(* The forecasting commands: build-features (gridops.forecasting.          *)
(* feature_snapshots), train-candidate (training, artifacts,               *)
(* model_selection), generate-forecast (forecast_outputs) and              *)
(* summarize-monitoring (monitoring), over the tables they share and the   *)
(* directory of model artifacts.                                           *)
(*                                                                         *)
(* A command is one process and one transaction under PostgreSQL's READ    *)
(* COMMITTED, committed at its end; files are written outside it.          *)
(* Commands overlap, meet each other's uncommitted rows only at unique     *)
(* indexes and row locks, and die anywhere.                                *)
(*                                                                         *)
(* No row that build-features stores has a full feature vector, because    *)
(* lag_1h_mw is missing from all of them (Algorithms, BuiltRowsUsable).    *)
(* Rows that a training or a forecast can use come from elsewhere, as the  *)
(* tests and a deployment that seeds its tables put them there: these are  *)
(* the environment's action, SeedSnapshot.                                 *)
(***************************************************************************)
EXTENDS Integers, FiniteSets, Sequences

CONSTANTS
    N,         \* commands are 1..N, in the order they start
    Plan,      \* bound: what the n-th command may be, <<kind, issue time>>
    Issues,    \* forecast issue times
    Versions,  \* feature versions
    Files,     \* artifact files, one per model name and version
    Fits,      \* the bytes of the models a training may fit
    Partial,   \* the content of a file that is being written
    Absent,    \* the content of a file that does not exist
    Windows,   \* evaluation windows of the monitoring summaries
    Null,
    Required,  \* REQUIRED_FEATURE_DATASETS, a sequence
    MaxOpen,   \* bound: commands in progress at one time
    Faults     \* which of "crash", "disk" may happen

Commands == 1..N
Kinds == {"build", "train", "forecast", "summarize", "seed"}
Datasets == {Required[k] : k \in DOMAIN Required}

ASSUME ForecastingAssumption ==
    /\ N \in Nat
    /\ Plan \in [Commands -> SUBSET (Kinds \X (Issues \cup {Null}))]
    /\ Partial \notin Fits /\ Absent \notin Fits /\ Null \notin Fits
    /\ Partial # Absent /\ Null # Absent /\ Null # Partial
    /\ Null \notin Issues /\ Null \notin Versions
    /\ Null \notin Files /\ Null \notin Windows
    /\ Required \in Seq(Datasets) /\ Required # <<>>
    /\ MaxOpen \in Nat
    /\ Faults \subseteq {"crash", "disk"}

VARIABLES
    issues,     \* committed forecast_issues, by the command that inserted it
    snaps,      \* committed feature_snapshot_runs and rows, by command
    trainings,  \* committed training run, artifact and selection, by command
    forecasts,  \* committed production_forecast_runs and outputs, by command
    summaries,  \* committed monitoring summaries, by command
    lastId,     \* the sequence behind feature_snapshot_runs.id
    files,      \* the content of an artifact file
    open,       \* whether a dataset's blocking decision is "not blocked"
    pc,         \* where a command is
    session,    \* the rows in a command's session, and what it has read
    seen,       \* answers of the gate while a command decides (history)
    clobbered   \* commands whose file another wrote since they opened it (history)

tables == <<issues, snaps, trainings, forecasts, summaries>>
world == <<lastId, files, open>>
history == <<seen, clobbered>>
vars == <<tables, world, pc, session, history>>

-----------------------------------------------------------------------------
(* Rows.  A row that does not exist has status "absent". *)

IssueRow == [issue : Issues \cup {Null},
             version : Versions \cup {Null},
             status : {"absent", "defined", "ready", "blocked"}]
NoIssue == [issue |-> Null, version |-> Null, status |-> "absent"]

(* owner: the command that inserted the forecast issue it refers to.       *)
(* complete: its rows hold full feature vectors, as only seeded ones do.   *)
SnapRow == [id : Nat,
            owner : 0..N,
            issue : Issues \cup {Null},
            version : Versions \cup {Null},
            status : {"absent", "succeeded", "blocked"},
            complete : BOOLEAN]
NoSnap == [id |-> 0, owner |-> 0, issue |-> Null, version |-> Null,
           status |-> "absent", complete |-> FALSE]

Contents == Fits \cup {Partial, Absent}

(* The training run, its artifact (none when hash is Null) and selection   *)
(* result.  fit: the model in memory that the metrics and the selection    *)
(* are about; hash: of the file the artifact refers to; rows: the          *)
(* snapshots it was trained on.                                            *)
TrainingRow == [status : {"absent", "running", "succeeded", "failed"},
                version : Versions \cup {Null},
                file : Files \cup {Null},
                rows : SUBSET Commands,
                fit : Fits \cup {Null},
                selected : BOOLEAN,
                hash : Contents \cup {Null}]
NoTraining == [status |-> "absent", version |-> Null, file |-> Null, rows |-> {},
               fit |-> Null, selected |-> FALSE, hash |-> Null]

(* model: the bytes that made the predictions, Null when there are none.   *)
ForecastRow == [status : {"absent", "running", "succeeded", "blocked"},
                artifact : 0..N,
                snap : 0..N,
                issue : Issues \cup {Null},
                model : Fits \cup {Null}]
NoForecast == [status |-> "absent", artifact |-> 0, snap |-> 0, issue |-> Null,
               model |-> Null]

(* counted: the forecasts behind the performance rows.  Without any there  *)
(* are only drift rows.                                                    *)
SummaryRow == [status : {"absent", "stored"},
               artifact : 0..N,
               window : Windows \cup {Null},
               counted : SUBSET Commands]
NoSummary == [status |-> "absent", artifact |-> 0, window |-> Null, counted |-> {}]

(* was: the status the issue row was loaded or inserted with; gates: the   *)
(* blocking decisions read; blocked: whether one of them blocks.           *)
Session == [issue : IssueRow,
            owner : 0..N,
            was : {"absent", "defined", "ready", "blocked"},
            gates : 0..Len(Required),
            blocked : BOOLEAN,
            snap : SnapRow,
            training : TrainingRow,
            forecast : ForecastRow,
            summary : SummaryRow]
NoSession == [issue |-> NoIssue, owner |-> 0, was |-> "absent", gates |-> 0,
              blocked |-> FALSE, snap |-> NoSnap, training |-> NoTraining,
              forecast |-> NoForecast, summary |-> NoSummary]

Unseen == [d \in Datasets |-> {}]

Stages == {"idle", "seeking", "issuing", "gating", "snapping",
           "fitting", "truncating", "dumping", "hashing", "storing",
           "finding", "reusing", "loading", "counting", "recording",
           "committing", "done", "lost"}

TypeOK ==
    /\ issues \in [Commands -> IssueRow]
    /\ snaps \in [Commands -> SnapRow]
    /\ trainings \in [Commands -> TrainingRow]
    /\ forecasts \in [Commands -> ForecastRow]
    /\ summaries \in [Commands -> SummaryRow]
    /\ lastId \in Nat
    /\ files \in [Files -> Contents]
    /\ open \in [Datasets -> BOOLEAN]
    /\ pc \in [Commands -> Stages]
    /\ session \in [Commands -> Session]
    /\ seen \in [Commands -> [Datasets -> SUBSET BOOLEAN]]
    /\ clobbered \in SUBSET Commands

Init ==
    /\ issues = [c \in Commands |-> NoIssue]
    /\ snaps = [c \in Commands |-> NoSnap]
    /\ trainings = [c \in Commands |-> NoTraining]
    /\ forecasts = [c \in Commands |-> NoForecast]
    /\ summaries = [c \in Commands |-> NoSummary]
    /\ lastId = 0
    /\ files = [f \in Files |-> Absent]
    /\ open = [d \in Datasets |-> TRUE]
    /\ pc = [c \in Commands |-> "idle"]
    /\ session = [c \in Commands |-> NoSession]
    /\ seen = [c \in Commands |-> Unseen]
    /\ clobbered = {}

-----------------------------------------------------------------------------
(* Commands and their transactions *)

Open(c) == pc[c] \notin {"idle", "done", "lost"}

Goto(c, stage) == pc' = [pc EXCEPT ![c] = stage]

(* A command starts after those before it, with an empty session. *)
Starts(c, kind, i) ==
    /\ pc[c] = "idle"
    /\ <<kind, i>> \in Plan[c]
    /\ \A d \in 1..(c - 1) : pc[d] # "idle"
    /\ Cardinality({d \in Commands : Open(d)}) < MaxOpen

(* The with block closes the session: what c's statements have written is  *)
(* undone, while files stay as they are.                                   *)
Rollback(c) ==
    /\ Goto(c, "lost")
    /\ session' = [session EXCEPT ![c] = NoSession]
    /\ seen' = [seen EXCEPT ![c] = Unseen]
    /\ UNCHANGED <<tables, world, clobbered>>

(* The command line calls session.commit() once, when the function it      *)
(* called has returned.  An issue row c inserted appears; of one it found  *)
(* only a changed status was sent.                                         *)
Commit(c) ==
    /\ pc[c] = "committing"
    /\ LET s == session[c]
       IN  /\ issues' =
                 IF s.owner = c THEN [issues EXCEPT ![c] = s.issue]
                 ELSE IF s.owner # 0 /\ s.issue.status # s.was
                      THEN [issues EXCEPT ![s.owner].status = s.issue.status]
                      ELSE issues
           /\ snaps' = [snaps EXCEPT ![c] = s.snap]
           /\ trainings' = [trainings EXCEPT ![c] = s.training]
           /\ forecasts' = [forecasts EXCEPT ![c] = s.forecast]
           /\ summaries' = [summaries EXCEPT ![c] = s.summary]
    /\ Goto(c, "done")
    /\ session' = [session EXCEPT ![c] = NoSession]
    /\ seen' = [seen EXCEPT ![c] = Unseen]
    /\ UNCHANGED <<world, clobbered>>

(* The process dies or loses its connection. *)
Crash(c) ==
    /\ "crash" \in Faults
    /\ Open(c)
    /\ Rollback(c)

(* What d's open transaction has written and others cannot see yet.        *)
WroteIssue(d) == session[d].owner = d
WroteStatus(d) == /\ session[d].owner # d
                  /\ session[d].snap.status # "absent"
                  /\ session[d].issue.status # session[d].was
WroteArtifact(d) == pc[d] = "committing" /\ session[d].training.hash # Null
WroteSummary(d) == pc[d] = "committing" /\ session[d].summary.counted # {}

-----------------------------------------------------------------------------
(* build-features: persist_feature_snapshot *)

StartBuild(c, i, v) ==
    /\ Starts(c, "build", i)
    /\ session' = [session EXCEPT ![c].issue =
          [issue |-> i, version |-> v, status |-> "absent"]]
    /\ Goto(c, "seeking")
    /\ UNCHANGED <<tables, world, history>>

SameIssue(a, b) == a.issue = b.issue /\ a.version = b.version

IssueRowsLike(c) ==
    {d \in Commands : issues[d].status # "absent" /\ SameIssue(issues[d], session[c].issue)}

(* The gate's answers from now on are noted. *)
Watch(c) == seen' = [seen EXCEPT ![c] = [d \in Datasets |-> {open[d]}]]

(* _get_or_create_forecast_issue: the SELECT. *)
GetIssue(c) ==
    /\ pc[c] = "seeking"
    /\ IF IssueRowsLike(c) = {}
       THEN Goto(c, "issuing") /\ UNCHANGED <<session, seen>>
       ELSE \E d \in IssueRowsLike(c) :
              /\ session' = [session EXCEPT ![c].owner = d, ![c].was = issues[d].status,
                                            ![c].issue.status = issues[d].status]
              /\ Goto(c, "gating")
              /\ Watch(c)
    /\ UNCHANGED <<tables, world, clobbered>>

(* Fault: the issue is locked before it is looked for.                     *)
IssueBusyEarly(c) ==
    \E d \in Commands \ {c} :
        /\ pc[d] = "issuing" \/ WroteIssue(d)
        /\ SameIssue(session[d].issue, session[c].issue)

(* uq_forecast_issues_issue_type_feature_version: wait for a twin in an    *)
(* open transaction ...                                                    *)
IssueBusy(c) ==
    \E d \in Commands \ {c} :
        WroteIssue(d) /\ SameIssue(session[d].issue, session[c].issue)

(* Fault: there is no unique constraint. *)
IssueTakenUnindexed(c) == FALSE

(* ... and fail on a committed one. *)
IssueTaken(c) == IssueRowsLike(c) # {}

(* _get_or_create_forecast_issue: the INSERT. *)
InsertIssue(c) ==
    /\ pc[c] = "issuing"
    /\ ~IssueBusy(c) /\ ~IssueTaken(c)
    /\ session' = [session EXCEPT ![c].owner = c, ![c].was = "defined",
                                  ![c].issue.status = "defined"]
    /\ Goto(c, "gating")
    /\ Watch(c)
    /\ UNCHANGED <<tables, world, clobbered>>

(* The IntegrityError ends a build; generate-forecast catches it, but its  *)
(* session can no longer commit.                                           *)
IssueClash(c) ==
    /\ pc[c] = "issuing"
    /\ ~IssueBusy(c) /\ IssueTaken(c)
    /\ Rollback(c)

(* Fault: only the last decision counts. *)
ReadGateLast(c) ==
    /\ pc[c] = "gating"
    /\ LET k == session[c].gates + 1
       IN  /\ k \in DOMAIN Required
           /\ session' = [session EXCEPT ![c].gates = k,
                                         ![c].blocked = ~open[Required[k]]]
           /\ Goto(c, IF k = Len(Required) THEN "snapping" ELSE "gating")
    /\ UNCHANGED <<tables, world, history>>

(* One get_blocking_decision after the other. *)
ReadGate(c) ==
    /\ pc[c] = "gating"
    /\ LET k == session[c].gates + 1
       IN  /\ k \in DOMAIN Required
           /\ session' = [session EXCEPT ![c].gates = k,
                                         ![c].blocked = @ \/ ~open[Required[k]]]
           /\ Goto(c, IF k = Len(Required) THEN "snapping" ELSE "gating")
    /\ UNCHANGED <<tables, world, history>>

(* Fault: the issue is ready before the decisions are looked at. *)
IssueStatusReady(blocked) == "ready"

IssueStatus(blocked) == IF blocked THEN "blocked" ELSE "ready"

(* Another transaction has updated the issue row c is about to update. *)
StatusBusy(c) ==
    /\ session[c].owner # c
    /\ IssueStatus(session[c].blocked) # session[c].was
    /\ \E d \in Commands \ {c} : WroteStatus(d) /\ session[d].owner = session[c].owner

(* The snapshot run that the decision of a session leads to. *)
NewSnap(s) ==
    [id |-> lastId + 1, owner |-> s.owner,
     issue |-> s.issue.issue, version |-> s.issue.version,
     status |-> IF s.blocked THEN "blocked" ELSE "succeeded",
     complete |-> FALSE]

(* The forecast run, if there is one, rests on the snapshot c has built.   *)
RestedOn(c, forecast, blocked) ==
    IF forecast.status = "absent" THEN forecast
    ELSE [forecast EXCEPT !.snap = c, !.status = IF blocked THEN "blocked" ELSE @]

(* The flush: UPDATE of the issue's status if it changed, INSERT of the    *)
(* snapshot run and, unless blocked, its rows.  generate-forecast goes on  *)
(* with the snapshot.                                                      *)
WriteSnapshot(c) ==
    /\ pc[c] = "snapping"
    /\ ~StatusBusy(c)
    /\ LET s == session[c]
       IN  /\ session' = [session EXCEPT
                 ![c].issue.status = IssueStatus(s.blocked),
                 ![c].snap = NewSnap(s),
                 ![c].forecast = RestedOn(c, s.forecast, s.blocked)]
           /\ Goto(c, IF s.forecast.status # "absent" /\ ~s.blocked
                      THEN "loading" ELSE "committing")
    /\ lastId' = lastId + 1
    /\ UNCHANGED <<tables, files, open, history>>

(* The environment: rows with full vectors are put into the tables, with a *)
(* new forecast issue and without asking the gate.                         *)
SeedSnapshot(c, i, v) ==
    LET issue == [issue |-> i, version |-> v, status |-> "ready"]
    IN  /\ Starts(c, "seed", i)
        /\ \A d \in Commands : SameIssue(issues[d], issue) => issues[d].status = "absent"
        /\ \A d \in Commands : WroteIssue(d) => ~SameIssue(session[d].issue, issue)
        /\ session' = [session EXCEPT
              ![c].issue = issue, ![c].owner = c, ![c].was = "ready",
              ![c].snap = [id |-> lastId + 1, owner |-> c, issue |-> i, version |-> v,
                           status |-> "succeeded", complete |-> TRUE]]
        /\ Goto(c, "committing")
        /\ lastId' = lastId + 1
        /\ UNCHANGED <<tables, files, open, history>>

-----------------------------------------------------------------------------
(* train-candidate: train_candidate_from_feature_snapshots *)

StartTraining(c, v, f) ==
    /\ Starts(c, "train", Null)
    /\ session' = [session EXCEPT ![c].training =
          [NoTraining EXCEPT !.status = "running", !.version = v, !.file = f]]
    /\ Goto(c, "fitting")
    /\ UNCHANGED <<tables, world, history>>

(* Snapshots with rows of the version that can be trained on: rows without *)
(* a full vector are skipped, which leaves none of a built snapshot.       *)
Usable(v) ==
    {d \in Commands : /\ snaps[d].version = v
                      /\ snaps[d].status = "succeeded"
                      /\ snaps[d].complete}

(* load_candidate_rows of the two windows, fit, predict, the baseline's    *)
(* metrics and evaluate_model_selection_gate.  Without usable rows only    *)
(* FailTraining is left.                                                   *)
FitCandidate(c) ==
    /\ pc[c] = "fitting"
    /\ \E rows \in (SUBSET Usable(session[c].training.version)) \ {{}},
          fit \in Fits, selected \in BOOLEAN :
          session' = [session EXCEPT ![c].training.rows = rows,
                                     ![c].training.fit = fit,
                                     ![c].training.selected = selected]
    /\ Goto(c, "truncating")
    /\ UNCHANGED <<tables, world, history>>

(* The except branch: too few rows, no baseline metrics, or the file       *)
(* cannot be written.  The run is recorded as failed, with no artifact.    *)
FailTraining(c) ==
    /\ \/ pc[c] = "fitting"
       \/ "disk" \in Faults /\ pc[c] \in {"truncating", "dumping"}
    /\ session' = [session EXCEPT ![c].training =
          [NoTraining EXCEPT !.status = "failed",
                             !.version = session[c].training.version]]
    /\ Goto(c, "committing")
    /\ UNCHANGED <<tables, world, history>>

FileOf(d) == IF trainings[d].file # Null THEN trainings[d].file
             ELSE session[d].training.file

WriteFile(c, content) ==
    LET f == session[c].training.file
    IN  /\ files' = [files EXCEPT ![f] = content]
        /\ clobbered' = (clobbered \cup {d \in Commands : FileOf(d) = f}) \ {c}

(* save_artifact: opening the file for writing empties it, ...             *)
OpenFile(c) ==
    /\ pc[c] = "truncating"
    /\ WriteFile(c, Partial)
    /\ Goto(c, "dumping")
    /\ UNCHANGED <<tables, lastId, open, session, seen>>

(* Fault: a dump that fails half-way goes unnoticed. *)
DumpModelQuietly(c) ==
    /\ pc[c] = "dumping"
    /\ \E content \in {Partial, session[c].training.fit} : WriteFile(c, content)
    /\ Goto(c, "hashing")
    /\ UNCHANGED <<tables, lastId, open, session, seen>>

(* ... pickle.dump fills it, ...                                           *)
DumpModel(c) ==
    /\ pc[c] = "dumping"
    /\ WriteFile(c, session[c].training.fit)
    /\ Goto(c, "hashing")
    /\ UNCHANGED <<tables, lastId, open, session, seen>>

(* ... and compute_artifact_hash reads it back.                            *)
HashFile(c) ==
    /\ pc[c] = "hashing"
    /\ session' = [session EXCEPT ![c].training.hash = files[session[c].training.file]]
    /\ Goto(c, "storing")
    /\ UNCHANGED <<tables, world, history>>

(* Another open transaction has inserted an artifact of the same hash. *)
ArtifactBusy(c) ==
    \E d \in Commands \ {c} :
        WroteArtifact(d) /\ session[d].training.hash = session[c].training.hash

(* uq_model_artifacts_artifact_hash *)
ArtifactTaken(c) ==
    \E d \in Commands : trainings[d].hash # Null /\ trainings[d].hash = session[c].training.hash

(* persist_model_artifact_metadata and persist_model_selection_result; the *)
(* artifact row is kept whatever the selection says.                       *)
StoreArtifact(c) ==
    /\ pc[c] = "storing"
    /\ ~ArtifactBusy(c) /\ ~ArtifactTaken(c)
    /\ session' = [session EXCEPT ![c].training.status = "succeeded"]
    /\ Goto(c, "committing")
    /\ UNCHANGED <<tables, world, history>>

(* The IntegrityError is caught, but recording the failure is one more     *)
(* flush of a session that can no longer be used.                          *)
ArtifactClash(c) ==
    /\ pc[c] = "storing"
    /\ ~ArtifactBusy(c) /\ ArtifactTaken(c)
    /\ Rollback(c)

-----------------------------------------------------------------------------
(* generate-forecast: generate_forecast_from_selected_artifact *)

Artifacts == {a \in Commands : trainings[a].hash # Null}

StartForecast(c, a, i) ==
    /\ Starts(c, "forecast", i)
    /\ a \in Artifacts
    /\ session' = [session EXCEPT
          ![c].forecast = [NoForecast EXCEPT !.status = "running", !.artifact = a, !.issue = i],
          ![c].issue = [issue |-> i, version |-> trainings[a].version, status |-> "absent"]]
    /\ Goto(c, "finding")
    /\ UNCHANGED <<tables, world, history>>

(* The except branch: the run is recorded as blocked, without outputs. *)
BlockForecast(c, snap) ==
    /\ session' = [session EXCEPT ![c].forecast.status = "blocked", ![c].forecast.snap = snap]
    /\ Goto(c, "committing")

Newest(S) == CHOOSE d \in S : \A e \in S : snaps[e].id =< snaps[d].id

(* Fault: the snapshot of another issue time will do. *)
SnapshotsForAnyIssue(c) ==
    {d \in Commands : /\ snaps[d].status = "succeeded"
                      /\ snaps[d].version = session[c].issue.version}

(* Fault: rows other sessions have not committed are read, too. *)
SnapshotsForDirty(c) ==
    {d \in Commands : snaps[d].status = "succeeded" /\ SameIssue(snaps[d], session[c].issue)}
    \cup {d \in Commands \ {c} : /\ session[d].snap.status = "succeeded"
                                 /\ SameIssue(session[d].snap, session[c].issue)}

(* The snapshots that have rows for the issue time, in the artifact's      *)
(* feature version.                                                        *)
SnapshotsFor(c) ==
    {d \in Commands : snaps[d].status = "succeeded" /\ SameIssue(snaps[d], session[c].issue)}

(* _validate_artifact_is_selected_and_usable, and the first SELECT of      *)
(* _get_or_build_feature_snapshot_run.                                     *)
FindSnapshot(c) ==
    /\ pc[c] = "finding"
    /\ IF ~trainings[session[c].forecast.artifact].selected
       THEN BlockForecast(c, 0)
       ELSE IF SnapshotsFor(c) # {}
            THEN /\ session' = [session EXCEPT ![c].forecast.snap = Newest(SnapshotsFor(c))]
                 /\ Goto(c, "loading")
            ELSE Goto(c, "reusing") /\ UNCHANGED session
    /\ UNCHANGED <<tables, world, history>>

(* The second SELECT: a blocked snapshot of the version, of any issue      *)
(* time, settles the forecast; otherwise persist_feature_snapshot.         *)
ReuseBlocked(c) ==
    /\ pc[c] = "reusing"
    /\ LET blocked == {d \in Commands : /\ snaps[d].status = "blocked"
                                        /\ snaps[d].version = session[c].issue.version}
       IN  IF blocked # {}
           THEN BlockForecast(c, Newest(blocked))
           ELSE Goto(c, "seeking") /\ UNCHANGED session
    /\ UNCHANGED <<tables, world, history>>

(* The snapshot of c's forecast, which c may have built itself. *)
SnapshotOf(c) == LET d == session[c].forecast.snap
                 IN  IF d = c THEN session[c].snap ELSE snaps[d]

(* Fault: a file that cannot be read does not stop the forecast. *)
LoadModelUnchecked(c) ==
    /\ pc[c] = "loading"
    /\ LET content == files[trainings[session[c].forecast.artifact].file]
       IN  IF SnapshotOf(c).complete
           THEN /\ session' = [session EXCEPT ![c].forecast.status = "succeeded",
                                              ![c].forecast.model = content]
                /\ Goto(c, "committing")
           ELSE BlockForecast(c, session[c].forecast.snap)
    /\ UNCHANGED <<tables, world, history>>

(* load_artifact, which does not look at the recorded hash,                *)
(* _persist_predictions, which needs every row's vector, and the peak and  *)
(* ramp outputs.                                                           *)
LoadModel(c) ==
    /\ pc[c] = "loading"
    /\ LET content == files[trainings[session[c].forecast.artifact].file]
       IN  IF content \in Fits /\ SnapshotOf(c).complete
           THEN /\ session' = [session EXCEPT ![c].forecast.status = "succeeded",
                                              ![c].forecast.model = content]
                /\ Goto(c, "committing")
           ELSE BlockForecast(c, session[c].forecast.snap)
    /\ UNCHANGED <<tables, world, history>>

-----------------------------------------------------------------------------
(* summarize-monitoring *)

StartSummary(c, a, w) ==
    /\ Starts(c, "summarize", Null)
    /\ a \in Artifacts
    /\ session' = [session EXCEPT ![c].summary =
          [status |-> "stored", artifact |-> a, window |-> w, counted |-> {}]]
    /\ Goto(c, "counting")
    /\ UNCHANGED <<tables, world, history>>

(* _performance_predictions: the predictions of succeeded forecasts of the *)
(* artifact that fall into the window and have an actual.                  *)
CountPerformance(c) ==
    /\ pc[c] = "counting"
    /\ \E counted \in SUBSET {f \in Commands :
              /\ forecasts[f].status = "succeeded"
              /\ forecasts[f].artifact = session[c].summary.artifact} :
          session' = [session EXCEPT ![c].summary.counted = counted]
    /\ Goto(c, "recording")
    /\ UNCHANGED <<tables, world, history>>

SameSummary(a, b) ==
    a.counted # {} /\ b.counted # {} /\ a.artifact = b.artifact /\ a.window = b.window

SummaryBusy(c) ==
    \E d \in Commands \ {c} : WroteSummary(d) /\ SameSummary(session[d].summary, session[c].summary)

(* uq_model_performance_summaries_artifact_metric_window *)
SummaryTaken(c) == \E d \in Commands : SameSummary(summaries[d], session[c].summary)

(* The INSERTs: performance rows, which are unique per artifact and        *)
(* window, then drift rows, which may repeat.                              *)
StoreSummary(c) ==
    /\ pc[c] = "recording"
    /\ ~SummaryBusy(c) /\ ~SummaryTaken(c)
    /\ Goto(c, "committing")
    /\ UNCHANGED <<tables, world, session, history>>

(* Summarising a window again fails as a whole. *)
SummaryClash(c) ==
    /\ pc[c] = "recording"
    /\ ~SummaryBusy(c) /\ SummaryTaken(c)
    /\ Rollback(c)

-----------------------------------------------------------------------------

(* A quality run of d is committed, in any session: the gate turns over.   *)
QualityRunCompletes(d) ==
    /\ open' = [open EXCEPT ![d] = ~@]
    /\ seen' = [c \in Commands |->
          IF pc[c] = "gating" THEN [seen[c] EXCEPT ![d] = @ \cup {~open[d]}] ELSE seen[c]]
    /\ UNCHANGED <<tables, lastId, files, pc, session, clobbered>>

Step(c) ==
    \/ GetIssue(c)
    \/ InsertIssue(c)
    \/ IssueClash(c)
    \/ ReadGate(c)
    \/ WriteSnapshot(c)
    \/ FitCandidate(c)
    \/ OpenFile(c)
    \/ DumpModel(c)
    \/ HashFile(c)
    \/ StoreArtifact(c)
    \/ ArtifactClash(c)
    \/ FindSnapshot(c)
    \/ ReuseBlocked(c)
    \/ LoadModel(c)
    \/ CountPerformance(c)
    \/ StoreSummary(c)
    \/ SummaryClash(c)
    \/ Commit(c)

Next ==
    \/ \E c \in Commands :
          \/ \E i \in Issues, v \in Versions : StartBuild(c, i, v) \/ SeedSnapshot(c, i, v)
          \/ \E v \in Versions, f \in Files : StartTraining(c, v, f)
          \/ \E a \in Commands, i \in Issues : StartForecast(c, a, i)
          \/ \E a \in Commands, w \in Windows : StartSummary(c, a, w)
          \/ Step(c)
          \/ FailTraining(c)
          \/ Crash(c)
    \/ \E d \in Datasets : QualityRunCompletes(d)

Spec == Init /\ [][Next]_vars

-----------------------------------------------------------------------------
(* Correctness *)

(* Issue rows are looked up by issue time, type and version, artifacts are *)
(* identified by their hash and summaries read by window: none of them     *)
(* exists twice, although commands find nothing and insert concurrently    *)
(* (the unique constraints of models.py).                                  *)
UniqueRows ==
    \A c, d \in Commands : c # d =>
        /\ issues[c].status # "absent" => ~SameIssue(issues[c], issues[d])
        /\ trainings[c].hash # Null => trainings[c].hash # trainings[d].hash
        /\ ~SameSummary(summaries[c], summaries[d])

(* The status of a committed issue is the outcome of a committed snapshot  *)
(* run of it: no crash leaves it "defined", and no builder that found the  *)
(* row and lost a race leaves it a status nobody's snapshot supports.      *)
IssueFollowsRuns ==
    \A c \in Commands : issues[c].status # "absent" =>
        \E d \in Commands :
            /\ snaps[d].owner = c
            /\ SameIssue(snaps[d], issues[c])
            /\ \/ issues[c].status = "ready" /\ snaps[d].status = "succeeded"
               \/ issues[c].status = "blocked" /\ snaps[d].status = "blocked"

(* A committed forecast that succeeded used an artifact that passed the    *)
(* selection and a committed, complete snapshot of its own issue time in   *)
(* the artifact's feature version, and a whole model; a blocked one has no *)
(* outputs, and at worst it rests on a blocked snapshot of another issue   *)
(* time (FORECAST_OUTPUT_CONTRACT.md, "Lineage Fields").                   *)
ForecastsTrace ==
    \A c \in Commands :
        LET run == forecasts[c]
            snap == snaps[run.snap]
        IN  /\ run.status \in {"succeeded", "blocked", "absent"}
            /\ run.status # "succeeded" => run.model = Null
            /\ run.status = "succeeded" =>
                  /\ trainings[run.artifact].selected
                  /\ run.model \in Fits
                  /\ run.snap # 0
                  /\ snap.status = "succeeded" /\ snap.complete
            /\ run.snap # 0 =>
                  /\ snap.status # "absent"
                  /\ snap.version = trainings[run.artifact].version
                  /\ snap.status = "succeeded" => snap.issue = run.issue

(* The file an artifact row points to holds the model the metrics and the  *)
(* selection are about, and has the recorded hash, unless another training *)
(* has written the file since, be it one that failed or died.              *)
UndisturbedArtifacts ==
    \A a \in Artifacts \ clobbered :
        /\ trainings[a].hash = trainings[a].fit
        /\ files[trainings[a].file] = trainings[a].fit

(* c's step publishes a snapshot it has built, with that outcome. *)
Built(c, outcome) ==
    snaps[c].status = "absent" /\ snaps'[c].status = outcome /\ ~snaps'[c].complete

(* The blocking decisions are read one by one while quality runs complete, *)
(* so there may be no moment at which all of them read as they were.  Yet  *)
(* a built snapshot succeeds only if each dataset was open at some moment  *)
(* of the decision, and is blocked only if one of them was blocked in it.  *)
VerdictSeen ==
    [][\A c \in Commands :
          /\ Built(c, "succeeded") => \A d \in Datasets : TRUE \in seen[c][d]
          /\ Built(c, "blocked") => \E d \in Datasets : FALSE \in seen[c][d]
      ]_vars

(* What the output of c refers to, other than itself. *)
Basis(c) ==
    ({snaps[c].owner, forecasts[c].artifact, forecasts[c].snap, summaries[c].artifact}
       \cup trainings[c].rows \cup summaries[c].counted) \ {0, c}

(* The references among snapshots, artifacts, forecasts and summaries      *)
(* never lead to what was rolled back, and never run in a circle.          *)
Provenance == INSTANCE Lineage WITH
    Outputs <- Commands,
    published <- {c \in Commands : pc[c] = "done"},
    basis <- [c \in Commands |-> Basis(c)]

ImplementsLineage == Provenance!LineageSpec

(* Commands wait for each other at three unique indexes and for the issue  *)
(* row.  They never all wait: of the commands in progress one can move.    *)
Waiting(c) == \/ pc[c] = "issuing" /\ IssueBusy(c)
              \/ pc[c] = "snapping" /\ StatusBusy(c)
              \/ pc[c] = "storing" /\ ArtifactBusy(c)
              \/ pc[c] = "recording" /\ SummaryBusy(c)

NotAllWait ==
    \A c \in Commands : Waiting(c) => \E d \in Commands : Open(d) /\ ~Waiting(d)

-----------------------------------------------------------------------------
(* What the documents say and the code does not do *)

(* MODEL_SELECTION.md, "Failure Behavior": "Rejected artifacts are not     *)
(* usable by forecast generation."  The model behind a forecast is one     *)
(* that passed the selection.  A training whose candidate is rejected has  *)
(* overwritten the file of the selected artifact of the same name and      *)
(* version, and load_artifact does not compare the hash.  (The rows of the *)
(* trainings and of the forecast are seeded ones.)                         *)
RejectedNeverUsed ==
    \A c \in Commands : forecasts[c].status = "succeeded" =>
        \E a \in Artifacts : trainings[a].selected /\ trainings[a].fit = forecasts[c].model
=============================================================================
