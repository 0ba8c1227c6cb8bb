----------------------------- MODULE Algorithms -----------------------------
(***************************************************************************)
(* What the calculations of gridops promise, over given inputs.  A step    *)
(* picks one input of one of them; a property reads what was picked.       *)
(***************************************************************************)
EXTENDS PointInTime, AlertRules

CONSTANTS
    Starts,        \* whole hours, as instants
    Dates,         \* days of the time line
    DemandInputs,  \* [missing, from, until]: hours the table lacks, a window
    Observations,  \* [table, from, until]
    IssueTables,   \* tables of weather forecasts, and a time [table, now]
    Snapshots,     \* [demand, observations, forecasts, issue, hours]
    Backtests,     \* configurations of a backtest
    Errors,        \* [predictions, actual, from, until]
    Drifts,        \* [baseline, comparison]: rows with a value
    Gates,         \* [rows, candidate, better]: stored metrics, candidates
    Outputs,       \* forecasts: functions of consecutive hours
    Scenarios,     \* [p50, request]: forecasts, scenario requests
    AlertInputs    \* [forecasts, quality, next]: runs, and a quality run to come

VARIABLES
    topic,  \* which calculation is looked at
    input   \* what it is given

vars == <<topic, input>>

Init == topic = "none" /\ input = None

Look(name, inputs) ==
    /\ topic = "none"
    /\ topic' = name
    /\ input' \in inputs

Next ==
    \/ Look("label", Starts)
    \/ Look("day", Dates)
    \/ Look("demand", DemandInputs)
    \/ Look("observations", Observations)
    \/ Look("issues", IssueTables)
    \/ Look("snapshot", Snapshots)
    \/ Look("backtest", Backtests)
    \/ Look("errors", Errors)
    \/ Look("drift", Drifts)
    \/ Look("gate", Gates)
    \/ Look("outputs", Outputs)
    \/ Look("scenario", Scenarios)
    \/ Look("alerts", AlertInputs)

Spec == Init /\ [][Next]_vars

-----------------------------------------------------------------------------
(* Toronto time and the demand parser *)

(* The label an hour is expected under is placed back at the end of that   *)
(* hour, and refused when the clock reads its end twice: an hour is never  *)
(* stored at another's place (time_utils.py, quality/ieso_demand.py).      *)
LabelsReturn ==
    topic = "label" =>
        IesoHourEndingToUtc(SourceKey(input)[1], SourceKey(input)[2]) =
            IF Ambiguous(ToToronto(input + Hour)) THEN None ELSE input + Hour

(* A day's 24 labels parse unless the clock changes within the day; what   *)
(* parses is hours without gap or overlap, also the 23 labels of the day   *)
(* daylight time begins.  On a day of a change the usual payload, which    *)
(* lists every label, is rejected as a whole (parsers/ieso_demand.py).     *)
DaysParse ==
    topic = "day" =>
        LET midnight == input * Day
            skipped == {hour \in 1..24 : Nonexistent(midnight + hour * Hour)}
            repeated == {hour \in 1..24 : Ambiguous(midnight + hour * Hour)}
            parsed == ParseDemand({<<input, hour>> : hour \in (1..24) \ skipped}, 0)
        IN  /\ (ParseDemand({<<input, hour>> : hour \in 1..24}, 0) = None)
                   <=> (skipped \cup repeated # {})
            /\ repeated = {} =>
                  {r.start : r \in parsed} =
                      HourlyStarts(TorontoToUtc(midnight, None),
                                   TorontoToUtc(midnight + Day, None))

-----------------------------------------------------------------------------
(* Quality checks *)

(* The rows the parser can have stored for the hours of Starts. *)
Storable ==
    {start \in Starts : ~Ambiguous(ToToronto(start + Hour))}

DemandTable(starts) ==
    {[start |-> start, end |-> start + Hour, date |-> SourceKey(start)[1],
      hour |-> SourceKey(start)[2], mw |-> 15000, current |-> TRUE] : start \in starts}

(* A window is open exactly when each of its hours can be stored and is: a *)
(* missing hour closes it, a window that does not begin on the hour or     *)
(* that holds the repeated hour of the autumn change stays closed with     *)
(* every row the source has, a window over the spring change does not.     *)
(* The check of the alignment is skipped in autumn, that of the continuity *)
(* is not (quality/ieso_demand.py).                                        *)
WindowsOpenWhenWhole ==
    topic = "demand" =>
        LET results == DemandResults(DemandTable(Storable \ input.missing),
                                     input.from, input.until, input.until)
        IN  Blocking(results) <=>
               ~(HourlyStarts(input.from, input.until) \subseteq Storable \ input.missing)

(* A window that ended long enough before the check is closed whatever it  *)
(* holds: freshness is measured by the rows of the window, so data of the  *)
(* past passes only under a clock of the past (runner.py, --now-utc).      *)
PastWindowsStayClosed ==
    topic = "demand" =>
        Blocking(DemandResults(DemandTable(Storable \ input.missing),
                               input.from, input.until, input.until + 31 * Hour))

(* A gap of one station closes the window although another station reports *)
(* the hour; a station without a row in the window is not missed           *)
(* (quality/runner.py, quality/weather.py).                                *)
StationsAnswerForThemselves ==
    topic = "observations" =>
        LET seen == {r \in input.table : r.at >= input.from /\ r.at < input.until}
            reports == {<<r.station, r.at>> : r \in seen}
        IN  Blocking(ObservationResults(input.table, input.from, input.until, input.until)) <=>
               \/ seen = {}
               \/ \E r \in seen, t \in HourlyStarts(input.from, input.until) :
                     <<r.station, t>> \notin reports

(* Cutting the far end off one issue of a table that passes is never       *)
(* noticed: an issue is only expected to reach as far as its own last row  *)
(* (quality/runner.py:480).                                                *)
ShortIssuesPass ==
    topic = "issues" =>
        \A cut \in input.table :
            LET rest == {r \in input.table :
                            \/ <<r.series, r.issued>> # <<cut.series, cut.issued>>
                            \/ r.valid < cut.valid}
            IN  /\ ~Blocking(ForecastResults(input.table, None, None, input.now))
                /\ \E r \in rest : r.issued = Max({q.issued : q \in input.table})
                => ~Blocking(ForecastResults(rest, None, None, input.now))

-----------------------------------------------------------------------------
(* Point-in-time features and baselines *)

(* Rows that become known after the issue time change nothing in a         *)
(* snapshot: no target, lag, mean or weather value comes from the future   *)
(* (feature_snapshots.py, asof.py).                                        *)
NothingLaterIsSeen ==
    topic = "snapshot" =>
        Snapshot(input.demand, input.observations, input.forecasts, input.issue, input.hours) =
            Snapshot({r \in input.demand : r.end =< input.issue},
                     {r \in input.observations : r.at =< input.issue},
                     {r \in input.forecasts : r.issued =< input.issue},
                     input.issue, input.hours)

(* A baseline averages nothing its target or the issue time had still to   *)
(* see, and the lag baselines answer for a target whose source hour is in  *)
(* the table exactly when its lead is less than the lag: the last target   *)
(* of a 24 hour horizon never has a same hour yesterday (baselines.py).    *)
BaselinesUseThePast ==
    topic = "snapshot" =>
        \A target \in Horizon(input.issue, input.hours) :
            LET stored == {r.start : r \in input.demand}
            IN  /\ (SameHourYesterday(input.demand, input.issue, target) # None) <=>
                       target.start - 24 * Hour \in stored /\ target.lead < 24
                /\ (SameHourLastWeek(input.demand, input.issue, target) # None) <=>
                       target.start - 168 * Hour \in stored /\ target.lead < 168
                /\ \A r \in SeasonalRows(input.demand, input.issue, target, 0, target.end) :
                       r.end =< input.issue

(* Training can use the snapshot rows that gridops builds: from a complete *)
(* history at least one row has a vector and a label                       *)
(* (docs/forecasting/MODEL_TRAINING_RUNBOOK.md:5).                         *)
BuiltRowsUsable ==
    /\ topic = "snapshot"
    /\ HourlyStarts(0, input.issue + 48 * Hour) \subseteq {r.start : r \in input.demand}
    => CandidateRows(Snapshot(input.demand, input.observations, input.forecasts,
                              input.issue, input.hours),
                     input.demand, 0, input.issue + 48 * Hour) # {}

-----------------------------------------------------------------------------
(* Evaluation *)

(* No window evaluates an hour it trained on, or an hour of the final test *)
(* period; with a step as long as the horizon the windows evaluate each    *)
(* hour up to the limit once (backtesting.py).                             *)
EvaluationNeverTrained ==
    topic = "backtest" =>
        LET windows == Windows(input)
            evaluated(w) == w.issue..(w.evaluationEnd - 1)
            first == Min({w.issue : w \in windows})
        IN  /\ \A w \in windows :
                  /\ evaluated(w) # {} /\ w.trainingStart < w.issue
                  /\ input.final # None => \A t \in evaluated(w) : t < input.final
            /\ input.step = input.horizon /\ windows # {} =>
                  /\ UNION {evaluated(w) : w \in windows} = first..(EvaluationLimit(input) - 1)
                  /\ \A v, w \in windows : v # w => evaluated(v) \cap evaluated(w) = {}

(* The metrics of a summary agree with one another: the bias is no larger  *)
(* than the MAE, the MAE no larger than the RMSE, both are equal when      *)
(* every usable forecast is off by the same, and WAPE is left out exactly  *)
(* when nothing was consumed.  Those of the slices add up to them          *)
(* (metrics.py, reports.py, over the predictions monitoring.py joins).     *)
MetricsAgree ==
    topic = "errors" =>
        LET joined == PerformancePredictions(input.predictions, input.actual,
                                             input.from, input.until)
            m == Metrics(joined)
            off == {Magnitude(p.predicted - p.actual) : p \in joined}
        IN  IF joined = {} THEN m = None
            ELSE /\ Magnitude(m.bias[1]) * m.mae[2] =< m.mae[1] * m.bias[2]
                 /\ m.mae[1] * m.mae[1] * m.mse[2] =< m.mse[1] * m.mae[2] * m.mae[2]
                 /\ \A e \in off : off = {e} => m.mae[1] = e * m.mae[2] /\ m.mse[1] = e * e * m.mse[2]
                 /\ (m.wape = None) <=> (\A p \in joined : p.actual = 0)
                 /\ LET slices == SliceMetrics(joined, [p \in joined |-> p.actual])
                        Part(of) == [value \in DOMAIN slices |-> slices[value][of][1]]
                    IN  /\ Total(DOMAIN slices, Part("mae")) = m.mae[1]
                        /\ Total(DOMAIN slices, Part("bias")) = m.bias[1]

(* Drift is a distance: the same both ways, and absent exactly when one of *)
(* the windows has nothing to compare (monitoring.py).                     *)
DriftIsADistance ==
    topic = "drift" =>
        LET there == DriftScore(input.baseline, input.comparison)
            back == DriftScore(input.comparison, input.baseline)
        IN  /\ (there = None) <=> (input.baseline = {} \/ input.comparison = {})
            /\ there # None => there[1] * back[2] = back[1] * there[2]

(* What monitoring stores of a model is consistent: MetricsAgree of its    *)
(* performance and DriftIsADistance of its features.                       *)
SummariesAgree == MetricsAgree /\ DriftIsADistance

(* A candidate no worse than one that is selected is selected, a selected  *)
(* one is no worse than the value stored last for the baseline, and        *)
(* without a stored baseline nothing is selected (model_selection.py).     *)
SelectionIsMonotone ==
    topic = "gate" =>
        LET baseline == BaselineMetrics(input.rows, "ridge", {"mae", "wape"})
        IN  Selected(input.candidate, baseline, TRUE) =>
               /\ \E r \in input.rows :
                     /\ r.baseline = "ridge" /\ r.metric = "mae"
                     /\ ~Exceeds(input.candidate.mae, r.value)
                     /\ \A s \in input.rows :
                           s.baseline = "ridge" /\ s.metric = "mae" => s.created =< r.created
               /\ /\ ~Exceeds(input.better.mae, input.candidate.mae)
                  /\ \/ input.better.wape = None
                     \/ /\ input.candidate.wape # None
                        /\ ~Exceeds(input.better.wape, input.candidate.wape)
                  => Selected(input.better, baseline, TRUE)

(* The ramps between two hours add up to the difference of their demand;   *)
(* there is a rise into the peak hour and none out of it: the three        *)
(* outputs of a run tell one story (forecast_outputs.py).                  *)
RampsAgree ==
    topic = "outputs" =>
        LET ramps == Ramps(input)
            peak == Peak(input)
        IN  /\ \A t, u \in DOMAIN input :
                  t < u => Total((t + 1)..u, ramps) = input[u] - input[t]
            /\ peak \in DOMAIN ramps => ramps[peak] > 0
            /\ peak + 1 \in DOMAIN ramps => ramps[peak + 1] =< 0

(* A scenario moves the peak by no less than it moves some hour and no     *)
(* more than another, wherever the peak goes, and by what it moves all of  *)
(* them when that is the same everywhere; the reverse of a request takes   *)
(* away exactly what the request adds, whatever is rounded on the way      *)
(* (scenario_engine.py).                                                   *)
ScenariosAgree ==
    topic = "scenario" =>
        LET deltas == ScenarioDeltas(input.p50, input.request)
            summary == ScenarioSummary(input.p50, deltas)
            moves == {deltas[t] : t \in DOMAIN deltas}
            reverse == [part \in DOMAIN input.request |-> 0 - input.request[part]]
        IN  moves # {} =>
               /\ \A t \in DOMAIN deltas : ScenarioDeltas(input.p50, reverse)[t] = 0 - deltas[t]
               /\ summary.peakDelta \in Min(moves)..Max(moves)
               /\ input.request.percent = 0 =>
                     /\ summary.peakDelta = Max(moves)
                     /\ summary.totalDelta = summary.rows * summary.peakDelta

(* What is derived from a forecast agrees with it: RampsAgree of the peak  *)
(* and the ramps stored with it, ScenariosAgree of the scenarios over it.  *)
OutputsAgree == RampsAgree /\ ScenariosAgree

-----------------------------------------------------------------------------
(* Alert rules *)

Fingerprints(candidates) == {candidates[i].fingerprint : i \in DOMAIN candidates}

(* One evaluation lists no fingerprint twice: what AlertsAssumption        *)
(* assumes of the rules in Alerts (alert_rules.py).                        *)
FingerprintsDistinct ==
    topic = "alerts" =>
        \A forecast \in input.forecasts : forecast.status = "succeeded" =>
            LET candidates == AlertCandidates(input.forecasts, input.quality, forecast)
            IN  Cardinality(Fingerprints(candidates)) = Len(candidates)

(* A quality run later than every other of its dataset, all of them ended. *)
LaterCheck(quality, next) ==
    \A q \in quality : q.dataset = next.dataset =>
        q.completed # None /\ CheckedAt(q) < CheckedAt(next)
=============================================================================
