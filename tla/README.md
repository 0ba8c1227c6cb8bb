# GridOps Intelligence: verification project

TLA+ models of the parts of GridOps Intelligence where several processes,
transactions or failures meet and of the calculations they rest on, TLC
configurations that check them on small instances, and TLAPS proofs of what matters
most for every instance. Paths below
are relative to the repository; the Python package is `src/gridops`.

## 1. The system

GridOps takes hourly electricity demand and weather files, stores them with their
evidence, checks their quality, builds point-in-time feature snapshots, trains and
selects forecast models, produces forecasts, and derives alerts, scenarios and
briefings that an API and a web page show. There is no daemon: every step is a
command or an HTTP request, and every one of them may run at the same time as
another. They meet in one PostgreSQL database (READ COMMITTED, no explicit locks,
no version columns) and, for raw payloads and model artifacts, in a directory.

| Component | State it keeps | Operations | What is hard |
|---|---|---|---|
| Fixture ingestion (`ingestion/`) | `ingestion_runs`, `raw_snapshots`, three silver tables with revisions, raw files | one run: start, store, parse, load, finish | three transactions per run, files outside them, two queries and a deferred flush per record, unique indexes, races between runs |
| Parsers, hashing | none | bytes to records | DST hours, duplicate keys, malformed rows |
| Quality runner (`quality/runner.py`, `results.py`) | `quality_runs`, `quality_results` | start, evaluate, store, finish | three transactions, crashes between them, timestamps taken before the commit |
| Blocking decision, source health (`quality/blocking.py`, `source_health.py`) | reads the above | latest applicable run, decide | order by a nullable time, overlapping windows |
| Quality checks (`quality/ieso_demand.py`, `weather.py`, `source_metadata.py`) | none | pure functions of rows | windows, gaps, DST |
| Feature snapshots (`forecasting/feature_snapshots.py`, `asof.py`) | `forecast_issues`, snapshot runs and rows | build for an issue time | gate read before the data, get-or-create race, late revisions |
| Forecast generation (`forecasting/forecast_outputs.py`, `production_runner.py`) | production runs, predictions, peak and ramp outputs | reuse or build a snapshot, predict | reuse of blocked snapshots, artifact and row out of step |
| Training and selection (`forecasting/training.py`, `artifacts.py`, `model_selection.py`) | training runs, artifacts, files, selections | train, save, select | a file overwritten under an older row |
| Baselines, backtesting, metrics | baseline runs and metrics | windows, lags, errors | window arithmetic, leakage |
| Monitoring | performance and drift summaries | summarise | repeated windows |
| Alerts (`decision/alert_engine.py`, `alert_lifecycle.py`, `alert_rules.py`) | `alerts`, evidence, history, evaluation runs | evaluate, change state | concurrent evaluations and state changes of the same alert |
| Scenarios, briefings | their runs and results | one transaction each | little |
| API, dashboard, CLI | none of their own | call the above | error paths of `session_scope` |
| Frontend, migrations, containers | - | - | - |

Interactions: ingestion writes what the quality runner reads; the blocking decision
gates feature snapshots; source health feeds alerts and briefings; forecasts feed
alerts, scenarios and briefings. All of them meet only through committed rows.

What makes each correct: a silver table publishes at most one revision per key and
each row traces to evidence; a quality run shows outcome and results together and
the gate follows the run that completed last; a condition has one active alert
whose history ends in its state; a snapshot or forecast is never built from data
that is blocked; an available artifact is the file that was evaluated.

## 2. Modules

| Module | What it is |
|---|---|
| `Ingestion` | runs of `ingestion/runner.py` with `raw_store.py`, `runs.py` and the loaders, down to each query and flushed statement |
| `RevisionStore` | the abstract specification of a silver table: a payload takes effect in one step, and only a key that some payload states twice can lose its revision; `Ingestion` implements it |
| `QualityGate` | the protocol of `quality/runner.py`, `results.py` and `blocking.py` |
| `Forecasting` | `build-features`, `train-candidate`, `generate-forecast` and `summarize-monitoring`: their transactions, the tables they share and the artifact files |
| `Lineage` | the abstract specification of provenance; `Forecasting` implements it |
| `Alerts` | `alert_engine.py`, `alert_lifecycle.py` and the handlers and command that call them |
| `HourTime`, `TorontoTime` | instants and hours; `time_utils.py` and the demand labels |
| `QualityChecks` | what a quality run evaluates, and the demand parser |
| `PointInTime` | horizons, as-of selection, features, training rows, baselines |
| `Evaluation` | backtest windows, metrics, selection gate, peak and ramps, drift, scenarios |
| `AlertRules` | source health and the five alert rules |
| `Algorithms` | inputs of the five modules above, and what their results promise |
| `MCIngestion`, `MCQualityGate`, `MCForecasting`, `MCAlerts`, `MCAlgorithms` | instances for TLC |
| `IngestionProofs`, `StoreProofs`, `QualityGateProofs`, `AlertsProofs`, `ForecastingProofs` | theorems about the processes |
| `ChecksProofs`, `EvaluationProofs` | theorems about the calculations |
| `FiniteInduction` | lemmas both use: induction over the subsets of a finite set, counting, greatest, least and last element |

A definition whose comment starts with "Fault:" is a mutation of the definition that
follows it; each property of a passing run is checked to notice one.

### Transactions and locks

The models share one view of PostgreSQL and SQLAlchemy. A transaction's own writes
are in `pend`, keyed by who wrote them; other sessions see only committed rows
(`rows`, `alerts`, `runs`), and each query sees what is committed when it executes.
A written row is locked until the transaction ends. A unique index is checked per
statement: against rows whose fate is certain it fails at once (`KeyClash`,
`IndexClash`), against a row another open transaction is changing it waits
(`KeyBusyWith`, `IndexBusy`). An error rolls the whole transaction back. With
`autoflush=False`, queries do not see the session's own changes; a flush sends the
UPDATEs of changed columns by ascending primary key, then the INSERTs in the order
of `session.add`.

### Ingestion

`pc` walks through `run_fixture_ingestion`: *idle*, *started* (the run is committed
as running), *filing* and *writing* (the raw file is created exclusively and then
written), *inserting* (the snapshot row), *parsing*, *loading* (`_get_current_record`
of record `pos`), *matching* (`_get_existing_revision` and the rest of the loop
body), then the flush, the commit, and *failing* for the `except` branch. Silver rows
are keyed by (natural key, row hash), which the table's unique constraint makes an
identity; `mem` is the session's identity map with the loaded and the assigned
`is_current`, `adds` the new objects. The map refers weakly to its objects: one with
changes to send (`Modified`) stays alive and answers later queries as the session left
it, another is read anew. The three loaders differ only in their keys, so
one table stands for all. `UsedIds`/`IsNextId` keep only the order of identity
values, which decides the order of UPDATEs.

Left out: counters of seen and loaded records, error texts, timestamps, column
values beyond the row hash; `superseded_at_utc` is NULL exactly when `is_current`.

### QualityGate

`pc` walks through `run_quality_checks`. `row` and `found` are the session's run and
results; `clock` is `--now-utc` (0 when not given); `now` is the system clock, which
moves at every reading; `report` is the `is_blocked` the command returns. A window is
a set of hours; a run that names none covers `Hours`. What the checks find is an
input, any member of `ResultSets`; an evaluation always returns a result because an
empty scope is a critical one (`_no_rows_result`). `Precedes` is the query's order
with PostgreSQL's rule that NULL sorts first in descending order. `lastId` is the
sequence behind `quality_runs.id`.

### Forecasting

A command is one process and one transaction, committed at its end by the command
line; `issues`, `snaps`, `trainings`, `forecasts` and `summaries` hold what is
committed, indexed by the command that inserted it, and `session` what its open
transaction holds and has read. `pc` walks through the functions:

- `persist_feature_snapshot`: *seeking* and *issuing* (`_get_or_create_forecast_issue`,
  SELECT and INSERT), *gating* (one `get_blocking_decision` after another),
  *snapping* (the flush of the issue's status, the snapshot run and its rows);
- `train_candidate_model`: *fitting*, then `save_artifact` as *truncating*, *dumping*
  and *hashing*, and *storing* (artifact and selection rows);
- `generate_production_forecast`: *finding* and *reusing* (the two SELECTs of
  `_get_or_build_feature_snapshot_run`), the stages of a build where there is no
  snapshot, *loading* (`load_artifact` and everything derived from the predictions);
- `generate_monitoring_summaries`: *counting* and *recording*.

Commands meet at three unique indexes, at the row of a forecast issue whose status a
build updates, and at the artifact file, which is written in place outside the
transaction and stays as it is when the transaction rolls back. `seen` and
`clobbered` are history variables: the gate's answers during a decision, and the
commands whose file another one wrote after them. `QualityRunCompletes` stands for
`QualityGate`: a decision that turns over at any time. `complete` says that every row of
a snapshot has a full feature vector. It is FALSE of every snapshot a command builds,
because `lag_1h_mw` is missing from all of its rows (finding 6): a training over built
rows alone has no row to fit and fails. Rows that can be used come from outside the
commands, as the tests insert them and as `DEPLOYMENT_GUIDE.md` expects ("until
persisted data is seeded"); `SeedSnapshot` is this environment, one transaction that
adds a new issue and its complete snapshot without asking the gate. The command line
opens one session per command and calls `session.commit()` once, after the function
it called has returned (`Commit`).
Version and issue time are all that identifies a snapshot, because the code's
look-ups ignore forecast type and horizon. The regression is an input as well: any
member of `Fits`. `build_missing_feature_snapshot = False`, which no command sets, is
left out.

### Calculations

The remaining modules are operators. An instant is an integer and `Hour` of them an
hour, so that times off the hour exist; `TorontoTime` knows one change to daylight
time and one back. A table is a set of records that carry the columns the code looks
at. A decimal is an integer, a quotient a pair of integers that is compared by cross
multiplication, a root stays squared, a missing value is `None`. `Algorithms` has one
step per calculation that picks an input; its properties relate what the operators
return to a reference: another calculation, the same one over less, or a definition
that does not look like the code.

### Alerts

A call is one evaluation or one PATCH, one transaction of `session_scope` each. An
evaluation reads the candidates in the order of the rules, then per candidate looks
for an active alert and creates or refreshes one. `RefreshExistingAlert` writes the
latest version of the row because its UPDATE does not set `state`; it may also write
nothing, when no column changes. A PATCH validates the state it loaded (`from`),
then waits for the row and writes `goal`. Evidence and history rows cannot conflict,
so they are kept with the transaction and appear at its commit. Demo mode (403) and
missing alerts (404) change nothing and are left out. A commit whose answer is lost
would be answered 503 although it took effect; it changes no row afterwards and is
left out.

## 3. Runs

| Run | Shows | Result |
|---|---|---|
| `ingestion_races` | 3 overlapping runs over two payloads that revise the same keys in opposite orders, crashes, disk errors, lost commit answers: `OneCurrentRevision`, `RowsTraceToEvidence`, `SnapshotsHaveFiles`, `RunsFinish`, and the silver table implements `RevisionStore` | holds |
| `ingestion_serial` | 4 runs in sequence over six payloads, one malformed, one that repeats part of another, one that states a key twice with two values and one with the same value: a succeeded run publishes what its payload states and touches nothing else | holds |
| `ingestion_revert` | a value that returns to an earlier one | violated: finding 1 |
| `ingestion_cut` | what the file of a snapshot holds | violated: finding 2 |
| `quality_races` | 2 overlapping commands, 2 datasets, wide and narrow windows, a fixed clock, errors, crashes, lost commit answers: `OutcomeHasEvidence`, `ReportAgrees`, `RunsFinish` | holds |
| `quality_opens` | when a blocked dataset opens | violated: finding 3 |
| `forecasting_races` | 5 commands over built and seeded snapshot rows, 2 at a time, quality runs in between, crashes and disk errors: no issue, artifact or summary twice (`UniqueRows`), an issue's status has a snapshot to show for it (`IssueFollowsRuns`), a succeeded forecast rests on a selected artifact and a complete snapshot of its own issue time (`ForecastsTrace`), files hold what was evaluated unless overwritten (`UndisturbedArtifacts`), a built snapshot's status was true at some moment of the decision (`VerdictSeen`), no deadlock (`NotAllWait`), and `Lineage` is implemented | holds |
| `forecasting_rejected` | which model a forecast uses after a rejected retraining, over seeded rows | violated: finding 5 |
| `alerts_races` | 4 calls, 4 alerts, 2 conditions, crashes: `OneActiveAlert`, `HistoryEndsInState`, `EvidenceForEveryCandidate`, `NoCircularWait` | holds |
| `alerts_terminal` | terminal states under concurrent PATCH requests | violated: finding 4 |
| `algorithms` | the calculations over all inputs of small sets: `LabelsReturn`, `DaysParse` (time), `WindowsOpenWhenWhole`, `PastWindowsStayClosed`, `StationsAnswerForThemselves`, `ShortIssuesPass` (checks), `NothingLaterIsSeen`, `BaselinesUseThePast` (point in time), `EvaluationNeverTrained`, `SummariesAgree`, `SelectionIsMonotone`, `OutputsAgree` (evaluation), `FingerprintsDistinct` (alert rules) | holds |
| `algorithms_training` | whether a training can use the rows that a build stores | violated: finding 6 |

Every property of a passing run fails when the mutation listed for it in
`PROJECT.json` is put in place.

### Bounds

- Ingestion: two natural keys and two values are what a deadlock, a second current
  revision and a revert need; three runs let a third party see or wait for both of two
  racing ones. The serial run has four, for A, B, and two more loads.
- `ingestion_cut` needs two runs one after the other and one disk error.
- `MaxOpen` bounds the runs, calls or commands in progress at one time, `MaxId` the
  identity values (more than the rows of any state, so it never cuts a run short),
  `MaxNow` the readings of the system clock: seven, enough for each run to start and
  to complete, after an error as well.
- Quality: two hours with windows {1,2} and {1} give overlap without equality. Two
  result sets suffice because the decision only depends on whether some result
  blocks. Two runs can overlap, follow each other and outlive each other; the theorems
  about this module hold for any number.
- Forecasting: `Plan` says which commands the n-th may be. The instance starts
  with seeded rows or with a build, lets two
  builds of one issue overlap, a training be repeated while another training or a
  forecast runs, two forecasts build the snapshot of one issue and a summary be
  repeated. Two commands at a time are enough for each conflict, which is always one
  between two; one file and one version make every training meet every other, two
  issue times tell a snapshot of another issue apart. The fitted models are
  interchangeable, so symmetry is sound: nothing compares them but for equality, and
  the run has no liveness property.
- Alerts: four calls let two evaluations race with two state changes of the same alert;
  two fingerprints, listed in one order by the rules, let evaluations hold one index
  entry while they wait for another.
- Calculations: instants are half hours, so issue times and windows can lie off the
  hour. Windows lie around both clock changes, with an hour missing on either side;
  demand spans ten days, more than the longest lag; forecasts, backtests, errors,
  metrics and scenarios include empty sides, ties, zeros, rounding and the thresholds
  themselves.
- Deadlock checking is off: the commands of an instance come to an end. That nobody
  waits for ever is what `RunsFinish`, `NotAllWait` and `NoCircularWait` show.

### Fairness

Weak fairness of each process's own `Step`, never of its start, of errors or of
crashes. The code has no sleep, queue or user between the statements of a command
or a request, so a live process does execute its next statement; a statement that
waits for a lock is not enabled, and progress then depends on the lock's holder.
PostgreSQL breaks cycles of waiting transactions by itself (`deadlock_timeout`), which
`DeadlockDetected` models as part of the step of each process in the cycle. `Alerts`
and `Forecasting` have no such action and state no fairness: `NotAllWait` shows that
commands never all wait, `NoCircularWait` that calls never wait in a circle, because
the rules list candidates in one order and a state change holds nothing while it waits. `NoCircularWait` is stated over what a call's next statement
would wait for if it is sent (`WaitsFor`), not over enabled actions, since a refresh
may turn out to send no UPDATE.

### Findings

1. *A value cannot revert* (`ingestion_revert`). `INGESTION_RUNBOOK.md` says a changed
   value retires the previous row and a current row takes its place. When the new value
   equals an older revision, the loader reactivates that older row; the flush updates it
   (lower primary key) before it retires the current row, and the partial unique index
   refuses. The run fails, and so does every later run of that payload.
2. *A snapshot of a file cut short* (`ingestion_cut`). `RawSnapshotStore` promises
   immutable raw payload bytes. The file is written under its final name; after a write
   that failed half way the next run of the payload finds the file, takes it for stored
   and commits a snapshot row with the hash and size of the whole payload.
3. *A started run opens a blocked dataset* (`quality_opens`). `completed_at_utc DESC`
   puts a running run first; it has no results and does not block. A process that dies
   leaves the dataset open until it is checked again.
4. *A terminal state is overwritten* (`alerts_terminal`). Two PATCH requests validate the
   same open state; the later one wins, even from resolved to acknowledged.
5. *A rejected model is used* (`forecasting_rejected`). `MODEL_SELECTION.md` says rejected
   artifacts are not usable. Training writes the file of its name and version before the
   gate has decided, over the file of the selected artifact, and `load_artifact` does not
   compare the recorded hash: forecasts of the selected artifact then use the model
   that was rejected. The rows of these trainings and forecasts are seeded ones: because
   of finding 6 the rows that `build-features` stores lead to no artifact at all.
6. *No built row can be trained on* (`algorithms_training`). The first target of an issue
   starts after the issue time, the hour before it has not ended by then, so `lag_1h_mw`
   is missing in every row that `build-features` stores, and
   `feature_vector_from_payload` needs it. `EvaluationProofs!NoBuiltRowIsTrainable`
   proves it for every table and issue time. Tests use rows that were written by hand.

Two more disagreements have no run of their own.

- *The same finding is a new alert.* `ALERT_RULES.md:75` says that fingerprints hash
  business identity only and no processing timestamps or database IDs. That of a
  source-health alert hashes `latest_checked_at_utc` and `production_forecast_run_id`
  (`alert_rules.py:367-372`), so each quality run of a bad dataset makes a new condition
  and the next evaluation opens a second active alert beside the first.
  `ChecksProofs!ChecksRaiseAnew` proves it of every later check.
- *A key is left without a current row.* `INGESTION_RUNBOOK.md:49` says that a current row
  takes the place of a superseded one. A payload may state a key twice, which no parser
  refuses. While its run loads, a second run commits the first record's value between
  the two queries of the loop body, so the revision the session then reads is already
  current and `is_current = True` changes nothing; before the second record a third run
  supersedes that revision. The second record retires the third run's row and takes the
  stale object for the row that replaces it: the commit makes nothing current.
  `RevisionStore` allows for it (`lost`): without that, TLC refutes
  `ImplementsRevisionStore` for the payloads `revised`, `again` and `repeated`.
  `StoreProofs!TableImplementsStore` proves that only keys some payload states twice are
  at risk. No fixture of the repository has such a payload.

Known consequences without a property of their own, because no document says
otherwise: a run may end succeeded although a record it skipped as unchanged was
superseded before it committed (`GetCurrentRecord` takes no lock, and `RevisionStore`
lets a load take effect on some of its keys only); a failed alert evaluation is recorded
in the transaction that rolls back because of it; after a lost commit answer an ingestion
run whose rows are in is marked failed, which `RowsTraceToEvidence` allows for; a narrow
quality run that passes decides for every window it overlaps; a load may commit between
the gate's decisions and the rows a snapshot is built from; a blocked snapshot answers for
every later issue time of its version, until one is built; the rows of a snapshot that is
built again for an old issue time come from the revisions that are current now
(`feature_snapshots.py:326`); a snapshot is reused whatever its forecast type and horizon;
the gate compares with the last stored metrics of the baseline, whatever window they were
measured in.

## 4. Proofs

TLAPS checks these theorems for every value of the constants that satisfies the
modules' assumptions. Every safety invariant, action property and refinement that a
passing run checks is stated by one of them.

| Theorem | Statement |
|---|---|
| `IngestionProofs!TypeInvariant` | `Spec => []TypeOK` |
| `IngestionProofs!NoTwoCurrentRevisions` | `Spec => []OneCurrentRevision` |
| `IngestionProofs!SnapshotsKeepFiles` | `Spec => []SnapshotsHaveFiles` |
| `IngestionProofs!RowsAreTraced` | `Spec => []RowsTraceToEvidence` |
| `StoreProofs!TableImplementsStore` | `Spec => ImplementsRevisionStore` |
| `StoreProofs!LoadsAreComplete` | `MaxOpen = 1` implies `Spec => LoadsWhatItRead` |
| `QualityGateProofs!TypeInvariant` | `Spec => []TypeOK` |
| `QualityGateProofs!EvidenceInvariant` | `Spec => []OutcomeHasEvidence` |
| `QualityGateProofs!GateAgreesWithReport` | `Spec => []ReportAgrees` |
| `AlertsProofs!TypeInvariant` | `Spec => []TypeOK` |
| `AlertsProofs!NoDuplicateActiveAlerts` | `Spec => []OneActiveAlert` |
| `AlertsProofs!HistoryIsComplete` | `Spec => []HistoryEndsInState` |
| `AlertsProofs!EvidenceIsComplete` | `Spec => []EvidenceForEveryCandidate` |
| `AlertsProofs!NoDeadlock` | `Spec => []NoCircularWait` |
| `AlertsProofs!LifecycleHolds` | `MaxOpen = 1` implies `Spec => LifecycleObeyed` |
| `AlertsProofs!ConditionsHaveAlerts` | `MaxOpen = 1` implies `Spec => EvaluatedConditionsActive` |
| `ForecastingProofs!TypeInvariant` | `Spec => []TypeOK` |
| `ForecastingProofs!RowsExistOnce` | `Spec => []UniqueRows` |
| `ForecastingProofs!IssuesFollowTheirRuns` | `Spec => []IssueFollowsRuns` |
| `ForecastingProofs!ForecastsAreTraced` | `Spec => []ForecastsTrace` |
| `ForecastingProofs!ArtifactsStandUndisturbed` | `Spec => []UndisturbedArtifacts` |
| `ForecastingProofs!SomeoneCanMove` | `Spec => []NotAllWait` |
| `ForecastingProofs!VerdictsWereSeen` | `Spec => VerdictSeen` |
| `ForecastingProofs!ForecastingImplementsLineage` | `Spec => ImplementsLineage` |
| `ChecksProofs!LabelsAlwaysReturn` | `Spec => []LabelsReturn` |
| `ChecksProofs!DaysAlwaysParse` | `Spec => []DaysParse` |
| `ChecksProofs!WholeWindowsOpen` | `Spec => []WindowsOpenWhenWhole` |
| `ChecksProofs!PastIsClosed` | `Spec => []PastWindowsStayClosed` |
| `ChecksProofs!StationsAlwaysAnswer` | `Spec => []StationsAnswerForThemselves` |
| `ChecksProofs!ShortIssuesAlwaysPass` | `Spec => []ShortIssuesPass` |
| `ChecksProofs!AlertsListOnce` | `Spec => []FingerprintsDistinct` |
| `ChecksProofs!ChecksRaiseAnew` | a later check of an unhealthy dataset adds exactly one fingerprint, its own |
| `EvaluationProofs!NothingLaterIsEverSeen` | `Spec => []NothingLaterIsSeen` |
| `EvaluationProofs!BaselinesNeverPeek` | `Spec => []BaselinesUseThePast` |
| `EvaluationProofs!NoBuiltRowIsTrainable` | no stored row has a full vector (finding 6) |
| `EvaluationProofs!BacktestsNeverTrained` | `Spec => []EvaluationNeverTrained` |
| `EvaluationProofs!SummariesConsistent` | `Spec => []SummariesAgree` |
| `EvaluationProofs!SelectionMonotone` | `Spec => []SelectionIsMonotone` |
| `EvaluationProofs!OutputsConsistent` | `Spec => []OutputsAgree` |

### Assumptions

- Of the modules: null values differ from real ones; an evaluation of the quality
  runner returns at least one result; there is a required dataset; the contents of a
  model file differ from "absent" and "half written"; parsed payloads are finite.
- `AlertsAssumption`: the rules list no fingerprint twice in one evaluation.
  `AlertsListOnce` proves this of the rules as `AlertRules` models them.
- `CandidateOrder`: the rules list what they find in one order, whatever they find.
  `evaluate_alert_candidates` calls the rules one after another; each goes through
  its hours in ascending order, the last through the datasets in theirs. Only `NoDeadlock` uses
  it.
- `DaylightAssumption`: the clock goes forward once and, at least two hours later,
  back once.
- `MaxOpen = 1`: these theorems are about executions one after another, as the run
  `ingestion_serial` is. Without it `LifecycleHolds` is false
  (finding 4).
- The theorems about calculations say which inputs the enumerated sets may hold:
  whole hours (`Whole`); windows that are not empty (`Windowed`); at most one reading
  of a station and time, within the schema's range (`Observed`); hourly weather
  forecasts (`Issued`); midnights the clock reads once, since it changes at two in the
  morning (`MidnightsOnce`); demand tables with one current row per hour
  (`CurrentRows`, what `IngestionProofs` establishes); configurations `BacktestConfig`
  accepts (`ValidConfig`); forecasts and demand that are numbers (`Joinable`,
  `Measured`); stored metrics that are quotients (`Gateable`); forecasts of
  consecutive hours and well-formed scenario requests; quality runs of which no two
  have one identity (`Alertable`). `RowsAreAnAnswer` says that a set of parsed rows is
  not the value for a refused payload. Apart from that one, which the model values of
  TLC satisfy by construction, every input of the run `algorithms` satisfies them.

### Arguments

*One current revision.* The property speaks of committed rows only and is not
inductive: a commit publishes a transaction's pending rows. The strengthening adds
that a row is written by at most one open transaction (`RowLocks`), and that a
pending current row meets no other current row of its key that is certain, pending
in its own transaction or committed and untouched (`PendingCurrent`); that the
objects a session has loaded exist (`LoadedExist`) makes an UPDATE hit a real row.
A statement establishes `PendingCurrent` by its index check; the wait for undecided
rows is what keeps it while others commit.

*Evidence.* A commit publishes what a session collected, so the invariant follows the
evidence into the session. A file exists before its snapshot row (`FilesFirst`), and a
run loads only with a snapshot row, its own or a committed one (`SnapshotFirst`). Row
versions and objects exist only while a run loads (`Blank`); what they carry under the
run's name its payload states, and a row that is only retired keeps its name
(`OwnWrites`). A recorded outcome is final, except after a lost answer (`Ended`), so
the rows of a succeeded run keep their witness.

*The revision store.* A key is `Plain` when no payload states it twice. The current
revision of a plain key is its newest row (`NewestCurrent`); an UPDATE that reactivates an older one therefore meets the partial
index and fails, which is finding 1 again, and a transaction that commits published
only rows of such keys that it inserted (`Versions`). It retires a current row only with another to take
its place, its own or one that is newer already (`Replaced`); UPDATEs go by ascending
identity and before the INSERTs (`UpdateOrder`), so no statement sees the key without
knowing which. The last two parts say where the loop stands: the session has loaded
rows only of keys it came by (`LoadedSoFar`), and of the record in hand only the current
row (`Matching`); with `LoadedSoFar` the record in hand is the first of a plain key.
What a session makes current its payload states, of any key (`Announced`). A commit then
is a `Publish` of the keys it makes current; the keys it leaves without a current row,
`lost`, are stated by its payload and not plain.

*One active alert.* The same argument over the partial unique index on fingerprints
(`RowLocks`, `Rivals`), with one more part: an UPDATE of a row never changes its
fingerprint (`FixedFingerprint`), and calls that are not writing hold nothing
(`Quiet`, `Replying`).

*History and evidence of alerts.* Both are written to the transaction and appear at
its commit, so `WorkInv` says what the session of an open call holds: per candidate
passed one evidence row, on an alert it created or refreshed that carries the
candidate's fingerprint, and per alert it writes the event that leads from the
committed history to the state it will commit. A refresh leaves state and fingerprint
alone, and the row lock keeps two state changes of one alert apart.

*No deadlock of alerts.* A call that waits is an evaluation at one of its candidates
or a state change, which holds nothing. What an evaluation holds belongs to candidates
it has passed, which come before the one it waits for in `CandidateOrder`. Of finitely
many waiting calls (`FewOpen`) the one that waits for the last fingerprint therefore
waits for none of the others.

*One at a time.* `SerialInv` of `Alerts` says that what the call has read is still so,
which is what a race breaks: the state a PATCH validated is the committed one, and a
candidate passed has an active alert, in the table or in the transaction. `SerialInv`
of `Ingestion` says the same of the loader's two queries (`ReadTrue`), and that every
record gone through leaves a revision of its key that is current or will be after the
flush (`Accounted`). This survives a payload that states a key twice, because the
session's own objects answer its later queries.

*Outcome and evidence; gate and report.* The invariant relates each command's stage
to its committed row, its session's row and its report: a committed outcome came
with its results or from the failure handler, and the report is the decision on
exactly the committed outcome. `ReportAgrees` then follows from the order alone: the
run with the strictly largest completion time precedes every other.

*The forecasting commands.* The properties are about committed rows, which appear only
in `Commit`; one invariant carries all of them. `Held` says stage by stage what a
session holds: an issue row of its own or a committed one, a snapshot that settles it
(`Settles`), committed snapshots behind a training, a committed artifact and an
existing snapshot behind a forecast, committed forecasts behind a summary, what the
file of an undisturbed training contains, and which answers of the gate have been
noticed. `Uncommitted` says that only finished commands have rows, so a reference to an
existing row is one to a finished command, and a commit overwrites nothing. `Apart`
extends the unique constraints to rows written but not committed; the wait (`...Busy`)
keeps it against open transactions and the failure (`...Taken`) against committed
ones. Most steps move one command and one part of its session: frame lemmas
(`TrainingKept`, `SummaryKept`, `BuildKept`, `BuilderStep`, `WorkerStep`) carry the
rest, so each action's lemma is about what it changes. `NotAllWait` follows because
whoever holds what others wait for is past its own last wait; the refinement because
what a commit refers to is finished.

*Point in time, backtests.* `NoLeakage` shows that every operator behind a snapshot
filters by the time a row became known before it selects, hence commutes with removing
later rows. `BacktestsNeverTrained` places the windows on a grid of steps: consecutive
windows meet when the step is the horizon, and the first issue time that qualifies is
the least.

*Time and parser.* The date and hour of a label are found by division, and the clock
reads the instant back as the label says unless it reads it twice. A day without a
repeated hour is all of one season or turns from winter to summer at one hour, which
the clock skips (`DayIsPlain`); its labels then parse exactly when nothing turns.

*Checks.* Which results block is worked out once per table (`WhatBlocks`,
`BlockingIs`), then compared with what the rows of the window say; expected hours are
counted against stored ones by induction over finite sets.

*Metrics, selection, outputs.* Sums over a set are split, bounded and compared by
induction over its finite subsets: slices add up, and the square of a sum of errors is
at most their number times the sum of squares. Quotients are compared by cross
multiplication, whose transitivity is a lemma about products. Ramps add up by
induction over the hours of the forecast.

*Alert rules.* A rule lists one candidate per hour in the order of the hours: the n-th
element of a finite set of integers is the one with n elements up to it (`Nth`), and
each n has one. Its fingerprints begin with the rule and hold the hour, so the lists of
all rules joined repeat none.

`FiniteInduction` gives the induction these need. The library's induction theorems take
an operator as parameter, which the provers cannot instantiate; here the property is
given as the set of the subsets that have it, and the induction comes from the
library's theorem that the strict subset order of a finite set is well founded. The
models use no RECURSIVE operator.

Only proved, because the runs of `Alerts` overlap: `LifecycleObeyed` and
`EvaluatedConditionsActive`. Only model-checked: the liveness property `RunsFinish` of `Ingestion` and of
`QualityGate`. Liveness under fairness, and ENABLED, are outside what the installed
provers handle.

## 5. What could be added

- A composition of `Ingestion`, `QualityGate` and `Forecasting` through their abstract
  specifications, in place of the decision that turns over at any time.
- `CandidateOrder` as a theorem about `AlertRules`, as `AlertsListOnce` is for the other
  assumption about the rules.
- The fingerprint of a condition across evaluations: which alerts a later evaluation
  refreshes, from the rules through the engine.

## 6. Not modelled, and why

- Ridge and gradient boosting regression, hashing and the JSON parsers of the weather
  payloads: numeric and textual code whose result is an input of the models.
- Checks that a column exists or a value is present, which the tables' NOT NULL
  columns settle before; the checks of source metadata, which compare constants.
- Briefings, backtest runs and scenario runs as transactions: each inserts the rows of
  one request and nothing updates them. What a scenario calculates is modelled.
- The dashboard, the reading API handlers, reports and the frontend, which present
  committed rows; configuration, logging, migrations and containers, which keep no
  state the properties speak of.
