----------------------------- MODULE AlertRules -----------------------------
(***************************************************************************)
(* The rules that find what an alert evaluation raises                     *)
(* (gridops.decision.alert_rules), and the source-health summary one of    *)
(* them reads (gridops.quality.source_health).                             *)
(*                                                                         *)
(*   production run  [id, issue, status, p50]    p50 a function of the     *)
(*                                               target hours              *)
(*   quality run     [id, dataset, status, started, completed, results]    *)
(*                                                                         *)
(* Hours are numbered here.  A candidate is [type, severity, fingerprint]: *)
(* texts and evidence follow from these.  A fingerprint is the tuple of    *)
(* what is hashed.  completed is None for NULL.                            *)
(***************************************************************************)
EXTENDS Evaluation, QualityChecks, SequencesExt

-----------------------------------------------------------------------------
(* Source health *)

Datasets == <<"ieso_hourly_demand", "weather_observations", "weather_forecasts",
              "raw_snapshots", "ingestion_runs">>

QualitySeverities == <<"info", "warning", "error", "critical">>
QualityRank(severity) == CHOOSE i \in DOMAIN QualitySeverities : QualitySeverities[i] = severity

(* decide_run_blocking: whether the run blocks, and its worst severity.    *)
RunBlocks(run) == run.status = "failed" \/ Blocking(run.results)

WorstSeverity(run) ==
    LET found == {result.severity : result \in run.results}
                    \cup IF run.status = "failed" THEN {"critical"} ELSE {}
    IN  IF found = {} THEN None
        ELSE CHOOSE s \in found : \A t \in found : QualityRank(t) =< QualityRank(s)

(* ORDER BY completed_at_utc DESC, started_at_utc DESC, id DESC.           *)
ComesFirst(a, b) ==
    \/ a.completed = None /\ b.completed # None
    \/ a.completed # None /\ b.completed # None /\ a.completed > b.completed
    \/ a.completed = b.completed /\ a.started > b.started
    \/ a.completed = b.completed /\ a.started = b.started /\ a.id > b.id

(* summarize_source_health, of a dataset some run has checked. *)
Checked(quality, dataset) == \E run \in quality : run.dataset = dataset

LatestRun(quality, dataset) ==
    CHOOSE run \in {r \in quality : r.dataset = dataset} :
        \A other \in quality \ {run} : other.dataset = dataset => ComesFirst(run, other)

CheckedAt(run) == IF run.completed # None THEN run.completed ELSE run.started

-----------------------------------------------------------------------------
(* Severities and candidates *)

Severities == <<"info", "watch", "warning", "critical">>
Rank(severity) == CHOOSE i \in DOMAIN Severities : Severities[i] = severity

HighDemandWarning == 24000
HighDemandCritical == 26000
RampWarning == 1000
RampCritical == 1500
DeviationWarning == 750
DeviationCritical == 1250

Candidate(type, severity, fingerprint) ==
    [type |-> type, severity |-> severity, fingerprint |-> fingerprint]

Severity(value, critical) == IF value >= critical THEN "critical" ELSE "warning"
Threshold(value, warning, critical) == IF value >= critical THEN critical ELSE warning

(* One candidate of each hour, in their order: the i-th has i - 1 hours    *)
(* before it.                                                              *)
InOrder(hours, Of(_)) ==
    [i \in 1..Cardinality(hours) |->
        Of(CHOOSE t \in hours : Cardinality({u \in hours : u < t}) = i - 1)]

(* _forecast_value: p50 or point forecast, which forecasts leave empty; a  *)
(* p50 of zero counts as no value.                                         *)
ForecastValue(p50) == IF p50 = 0 THEN None ELSE p50

(* high_demand_alert_candidates *)
HighDemandCandidates(forecast) ==
    LET hours == {t \in DOMAIN forecast.p50 :
                    /\ ForecastValue(forecast.p50[t]) # None
                    /\ forecast.p50[t] >= HighDemandWarning}
        Of(t) == Candidate("high_demand", Severity(forecast.p50[t], HighDemandCritical),
                    <<"high_demand_fixed_threshold", forecast.id, t,
                      Threshold(forecast.p50[t], HighDemandWarning, HighDemandCritical)>>)
    IN  InOrder(hours, Of)

(* Fault: a run's ramps are one condition. *)
RampFingerprintOfRun(forecast, t, threshold) ==
    <<"large_adjacent_forecast_ramp", forecast.id, threshold>>

RampFingerprint(forecast, t, threshold) ==
    <<"large_adjacent_forecast_ramp", forecast.id, t, threshold>>

(* ramp_alert_candidates: a run stores its ramps, unless it has just one   *)
(* hour, and then the fallback finds none either.                          *)
RampCandidates(forecast) ==
    LET ramp == Ramps(forecast.p50)
        Of(t) == Candidate("ramp", Severity(Magnitude(ramp[t]), RampCritical),
                    RampFingerprint(forecast, t,
                        Threshold(Magnitude(ramp[t]), RampWarning, RampCritical)))
    IN  InOrder({t \in DOMAIN ramp : Magnitude(ramp[t]) >= RampWarning}, Of)

(* _previous_prediction_for_target: the run it is of. *)
PreviousForecasts(forecasts, forecast, t) ==
    {f \in forecasts : /\ f.status = "succeeded" /\ f.id # forecast.id
                       /\ f.issue < forecast.issue
                       /\ t \in DOMAIN f.p50}

PreviousForecast(forecasts, forecast, t) ==
    CHOOSE f \in PreviousForecasts(forecasts, forecast, t) :
        \A g \in PreviousForecasts(forecasts, forecast, t) :
            g.issue < f.issue \/ (g.issue = f.issue /\ g.id =< f.id)

(* forecast_deviation_alert_candidates *)
DeviationCandidates(forecasts, forecast) ==
    LET compared == {t \in DOMAIN forecast.p50 :
                        /\ PreviousForecasts(forecasts, forecast, t) # {}
                        /\ ForecastValue(forecast.p50[t]) # None
                        /\ ForecastValue(PreviousForecast(forecasts, forecast, t).p50[t]) # None}
        deviation == [t \in compared |->
            Magnitude(forecast.p50[t] - PreviousForecast(forecasts, forecast, t).p50[t])]
        Of(t) == Candidate("forecast_deviation", Severity(deviation[t], DeviationCritical),
                    <<"previous_forecast_deviation", forecast.id,
                      PreviousForecast(forecasts, forecast, t).id, t,
                      Threshold(deviation[t], DeviationWarning, DeviationCritical)>>)
    IN  InOrder({t \in compared : deviation[t] >= DeviationWarning}, Of)

(* _source_health_alert_severity; None raises nothing. *)
HealthSeverity(run) ==
    IF RunBlocks(run) \/ WorstSeverity(run) = "critical" THEN "critical"
    ELSE CASE WorstSeverity(run) = "error" -> "warning"
           [] WorstSeverity(run) = "warning" -> "watch"
           [] OTHER -> None

HealthFingerprint(forecast, run) ==
    <<"source_health_context", forecast.id, run.dataset, CheckedAt(run), WorstSeverity(run),
      RunBlocks(run)>>

(* source_health_alert_candidates *)
HealthCandidates(quality, forecast) ==
    LET raising == {i \in DOMAIN Datasets :
                        /\ Checked(quality, Datasets[i])
                        /\ HealthSeverity(LatestRun(quality, Datasets[i])) # None}
        Of(i) == LET run == LatestRun(quality, Datasets[i])
                 IN  Candidate("source_health", HealthSeverity(run),
                               HealthFingerprint(forecast, run))
    IN  InOrder(raising, Of)

(* max(source_health, key=severity): the first of the most severe. *)
LinkedSource(health) ==
    health[CHOOSE i \in DOMAIN health :
             \A j \in DOMAIN health :
                \/ Rank(health[j].severity) < Rank(health[i].severity)
                \/ health[j].severity = health[i].severity /\ i =< j]

(* combined_context_alert_candidates *)
CombinedCandidates(forecast, components, health) ==
    LET Of(component) ==
            LET source == LinkedSource(health)
            IN  Candidate("combined_context",
                          IF Rank(component.severity) >= Rank(source.severity)
                          THEN component.severity ELSE source.severity,
                          <<"combined_forecast_and_source_health_context", forecast.id,
                            component.fingerprint, source.fingerprint>>)
    IN  IF health = <<>> THEN <<>>
        ELSE [i \in DOMAIN components |-> Of(components[i])]

(* evaluate_alert_candidates, of a run that succeeded. *)
AlertCandidates(forecasts, quality, forecast) ==
    LET demand == HighDemandCandidates(forecast)
        ramp == RampCandidates(forecast)
        health == HealthCandidates(quality, forecast)
    IN  demand \o ramp \o DeviationCandidates(forecasts, forecast) \o health
            \o CombinedCandidates(forecast, demand \o ramp, health)
=============================================================================
