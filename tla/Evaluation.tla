----------------------------- MODULE Evaluation -----------------------------
(***************************************************************************)
(* How forecasts are evaluated: backtest windows (gridops.forecasting.     *)
(* backtesting), error metrics (metrics), the model-selection gate         *)
(* (model_selection), the peak and the ramps of a forecast                 *)
(* (forecast_outputs) and the monitoring summaries (monitoring).           *)
(*                                                                         *)
(* Demand is an integer.  A quotient is a pair <<numerator, denominator>>, *)
(* the denominator positive; a root is kept squared.                       *)
(***************************************************************************)
EXTENDS HourTime, FiniteSetsExt

-----------------------------------------------------------------------------
(* Backtest windows *)

(* BacktestConfig.__post_init__, times in hours.  rolling is None for the  *)
(* expanding strategy, final when no final test period is set aside.       *)
ValidConfig(config) ==
    /\ config.trainingStart < config.evaluationStart
    /\ config.evaluationStart < config.evaluationEnd
    /\ config.horizon > 0 /\ config.step > 0 /\ config.minimum >= 0
    /\ config.rolling = None \/ config.rolling > 0

EvaluationLimit(config) ==
    IF config.final = None THEN config.evaluationEnd
    ELSE Lesser(config.evaluationEnd, config.final)

IssueTimes(config) ==
    {t \in config.evaluationStart..(EvaluationLimit(config) - 1) :
        (t - config.evaluationStart) % config.step = 0}

(* _training_start_for_issue *)
TrainingStart(config, issue) ==
    IF config.rolling = None THEN config.trainingStart
    ELSE Greater(config.trainingStart, issue - config.rolling)

(* Fault: the last window runs past the limit. *)
WindowsUncut(config) ==
    {[trainingStart |-> TrainingStart(config, issue),
      issue |-> issue,
      evaluationEnd |-> issue + config.horizon] :
        issue \in {t \in IssueTimes(config) : t - config.trainingStart >= config.minimum}}

(* generate_backtest_windows.  Training ends, and evaluation starts, at    *)
(* the issue time.                                                         *)
Windows(config) ==
    {[trainingStart |-> TrainingStart(config, issue),
      issue |-> issue,
      evaluationEnd |-> Lesser(issue + config.horizon, EvaluationLimit(config))] :
        issue \in {t \in IssueTimes(config) : t - config.trainingStart >= config.minimum}}

-----------------------------------------------------------------------------
(* Metrics *)

Total(S, value) == MapThenSumSet(LAMBDA p : value[p], S)

(* Predictions are records [id, predicted, actual]; usable ones have both. *)
UsablePredictions(predictions) ==
    {p \in predictions : p.predicted # None /\ p.actual # None}

(* Fault: WAPE is relative to what was forecast. *)
MetricsByForecast(predictions) ==
    LET usable == UsablePredictions(predictions)
        count == Cardinality(usable)
        error == [p \in usable |-> p.predicted - p.actual]
        absolute == Total(usable, [p \in usable |-> Magnitude(error[p])])
        scale == Total(usable, [p \in usable |-> Magnitude(p.predicted)])
    IN  IF count = 0 THEN None
        ELSE [mae |-> <<absolute, count>>,
              mse |-> <<Total(usable, [p \in usable |-> error[p] * error[p]]), count>>,
              bias |-> <<Total(usable, error), count>>,
              wape |-> IF scale = 0 THEN None ELSE <<absolute, scale>>]

(* calculate_baseline_metrics: None without a usable prediction.           *)
Metrics(predictions) ==
    LET usable == UsablePredictions(predictions)
        count == Cardinality(usable)
        error == [p \in usable |-> p.predicted - p.actual]
        absolute == Total(usable, [p \in usable |-> Magnitude(error[p])])
        scale == Total(usable, [p \in usable |-> Magnitude(p.actual)])
    IN  IF count = 0 THEN None
        ELSE [mae |-> <<absolute, count>>,
              mse |-> <<Total(usable, [p \in usable |-> error[p] * error[p]]), count>>,
              bias |-> <<Total(usable, error), count>>,
              wape |-> IF scale = 0 THEN None ELSE <<absolute, scale>>]

(* calculate_slice_metrics, for one dimension: the metrics of each group.  *)
SliceMetrics(predictions, slice) ==
    [value \in {slice[p] : p \in predictions} |->
        Metrics({p \in predictions : slice[p] = value})]

Exceeds(q, r) == q[1] * r[2] > r[1] * q[2]

-----------------------------------------------------------------------------
(* The model-selection gate *)

(* load_selected_baseline_metrics: of each metric the value stored last    *)
(* for the baseline; rows are [id, created, baseline, metric, value].      *)
BaselineMetrics(rows, baseline, names) ==
    LET of(name) == {r \in rows : r.baseline = baseline /\ r.metric = name}
    IN  [name \in names |->
            IF of(name) = {} THEN None
            ELSE (CHOOSE r \in of(name) : \A s \in of(name) :
                    s.created < r.created \/ (s.created = r.created /\ s.id =< r.id)).value]

(* Fault: a baseline without a value is no obstacle. *)
SelectedLeniently(candidate, baseline, lineageComplete) ==
    /\ lineageComplete
    /\ candidate # None
    /\ baseline.mae = None \/ ~Exceeds(candidate.mae, baseline.mae)
    /\ \/ candidate.wape = None \/ baseline.wape = None
       \/ ~Exceeds(candidate.wape, baseline.wape)

(* evaluate_model_selection_gate: whether the candidate is selected.       *)
(* Candidates carry no slice flags, so the slice check passes.             *)
Selected(candidate, baseline, lineageComplete) ==
    /\ lineageComplete
    /\ candidate # None /\ baseline.mae # None
    /\ ~Exceeds(candidate.mae, baseline.mae)
    /\ \/ candidate.wape = None \/ baseline.wape = None
       \/ ~Exceeds(candidate.wape, baseline.wape)

-----------------------------------------------------------------------------
(* Forecast outputs and monitoring *)

(* _persist_peak_output: the first hour of the largest.  A forecast is a   *)
(* function of its target hours, which are consecutive.                    *)
Peak(p50) ==
    CHOOSE t \in DOMAIN p50 :
        \A u \in DOMAIN p50 : p50[u] < p50[t] \/ (p50[u] = p50[t] /\ t =< u)

(* Fault: an hour is compared with the next one. *)
RampsBackwards(p50) ==
    [t \in {u \in DOMAIN p50 : u - 1 \in DOMAIN p50} |-> p50[t - 1] - p50[t]]

(* _persist_ramp_outputs: from each hour to the next.                      *)
Ramps(p50) ==
    [t \in {u \in DOMAIN p50 : u - 1 \in DOMAIN p50} |-> p50[t] - p50[t - 1]]

(* _performance_predictions: predictions in the window that have an        *)
(* actual.  "p50 or point forecast" takes a p50 of zero for missing.       *)
PerformancePredictions(predictions, actual, from, until) ==
    {[id |-> p.id, predicted |-> p.p50, actual |-> actual[p.start]] :
        p \in {q \in predictions : /\ q.start >= from /\ q.end =< until
                                   /\ q.p50 # 0
                                   /\ q.start \in DOMAIN actual}}

(* Fault: without rows to compare the means are taken to be zero. *)
DriftScoreOfNothing(baseline, comparison) ==
    LET n == Greater(Cardinality(baseline), 1)
        m == Greater(Cardinality(comparison), 1)
        Sum(rows) == Total(rows, [r \in rows |-> r.value])
    IN  <<Magnitude(Sum(comparison) * n - Sum(baseline) * m), n * m>>

(* summarize_feature_drift, for one feature: the distance of the means.    *)
DriftScore(baseline, comparison) ==
    LET n == Cardinality(baseline)
        m == Cardinality(comparison)
        Sum(rows) == Total(rows, [r \in rows |-> r.value])
    IN  IF n = 0 \/ m = 0 THEN None
        ELSE <<Magnitude(Sum(comparison) * n - Sum(baseline) * m), n * m>>
-----------------------------------------------------------------------------
(* Scenarios (gridops.decision.scenario_engine).  Megawatts are counted in *)
(* the steps they are rounded to; a request has a growth in percent, an    *)
(* added load and a change of temperature.                                 *)

WeatherDeltaPerDegree == 75000

(* Fault: half a step is always rounded upwards. *)
RoundedUpwards(n, d) == (2 * n + d) \div (2 * d)

(* _quantize of n / d: half a step is rounded away from zero.              *)
Rounded(n, d) ==
    LET steps == (2 * Magnitude(n) + d) \div (2 * d)
    IN  IF n < 0 THEN 0 - steps ELSE steps

DemandDelta(request, base) == Rounded(base * request.percent, 100) + request.added

(* _calculate_rows: an hour without a value, which a p50 of zero counts    *)
(* as, has no row.                                                         *)
ScenarioDeltas(p50, request) ==
    [t \in {u \in DOMAIN p50 : p50[u] # 0} |->
        DemandDelta(request, p50[t]) + request.degrees * WeatherDeltaPerDegree]

(* _summary, of a scenario with rows. *)
ScenarioSummary(p50, deltas) ==
    LET hours == DOMAIN deltas
        base == [t \in hours |-> p50[t]]
        moved == [t \in hours |-> p50[t] + deltas[t]]
    IN  [rows |-> Cardinality(hours),
         basePeak |-> base[Peak(base)],
         scenarioPeak |-> moved[Peak(moved)],
         peakDelta |-> moved[Peak(moved)] - base[Peak(base)],
         totalDelta |-> Total(hours, deltas)]
=============================================================================
