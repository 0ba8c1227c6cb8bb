---------------------------- MODULE PointInTime ----------------------------
(***************************************************************************)
(* What a forecast may know: the hourly horizon of an issue time, the      *)
(* point-in-time features of its targets (gridops.forecasting.horizons,    *)
(* asof, feature_snapshots), the vector a model needs                      *)
(* (candidate_models), the rows a training uses (training) and the         *)
(* baselines (baselines).                                                  *)
(*                                                                         *)
(* Times are integers, Hour of them to an hour.  A table is a set of rows: *)
(*   demand       [id, start, end, mw, current]                            *)
(*   observation  [id, station, at, current]                               *)
(*   forecast     [id, series, issued, valid, current]                     *)
(* where series stands for location and variable.  Demand is an integer.   *)
(***************************************************************************)
EXTENDS HourTime, FiniteSets

-----------------------------------------------------------------------------
(* The horizon *)

Target(issue, lead) ==
    LET start == NextHourAfter(issue) + (lead - 1) * Hour
    IN  [start |-> start, end |-> start + Hour, lead |-> lead]

(* generate_hourly_horizon *)
Horizon(issue, hours) == {Target(issue, lead) : lead \in 1..hours}

(* make_calendar_features, as far as the baselines look at it. *)
HourOfDay(t) == (t \div Hour) % 24

-----------------------------------------------------------------------------
(* As-of selection *)

(* The last row in the order of a time, then of the row id. *)
Latest(rows, time) ==
    CHOOSE r \in rows : \A s \in rows :
        time[s] < time[r] \/ (time[s] = time[r] /\ s.id =< r.id)

ByEnd(rows) == [r \in rows |-> r.end]
ByObservation(rows) == [r \in rows |-> r.at]
ByIssue(rows) == [r \in rows |-> r.issued]

(* select_latest_weather_observations_asof: at most one row per station.   *)
ObservationsAsOf(observations, issue) ==
    LET known == {r \in observations : r.current /\ r.at =< issue}
    IN  {Latest({r \in known : r.station = station}, ByObservation(known)) :
            station \in {r.station : r \in known}}

(* Fault: the newest forecast, whenever it was issued. *)
ForecastsAsOfNow(forecasts, issue, times) ==
    LET known == {r \in forecasts : r.current /\ r.valid \in times}
    IN  {Latest({r \in known : r.series = key[1] /\ r.valid = key[2]}, ByIssue(known)) :
            key \in {<<r.series, r.valid>> : r \in known}}

(* select_archived_weather_forecasts_asof: one row per series and valid    *)
(* time, the latest issued.                                                *)
ForecastsAsOf(forecasts, issue, times) ==
    LET known == {r \in forecasts : r.current /\ r.issued =< issue /\ r.valid \in times}
    IN  {Latest({r \in known : r.series = key[1] /\ r.valid = key[2]}, ByIssue(known)) :
            key \in {<<r.series, r.valid>> : r \in known}}

(* _load_current_demand_history, and the filter make_demand_features       *)
(* repeats.                                                                *)
DemandHistory(demand, issue) == {r \in demand : r.current /\ r.end =< issue}

-----------------------------------------------------------------------------
(* Demand features *)

Lags == {1, 2, 24, 48, 168}
RollingHours == 24

(* The demand of the hour that starts at start, in a history. *)
DemandAt(history, start) ==
    LET rows == {r \in history : r.start = start}
    IN  IF rows = {} THEN None ELSE Latest(rows, ByEnd(rows)).mw

(* Fault: what has ended when the target starts is taken for known. *)
SafeLagAtTarget(demand, issue, start, lag) ==
    DemandAt(DemandHistory(demand, start), start - lag * Hour)

(* _safe_lag_row *)
SafeLag(demand, issue, start, lag) ==
    DemandAt(DemandHistory(demand, issue), start - lag * Hour)

RollingRows(demand, issue) ==
    {r \in DemandHistory(demand, issue) : r.end > issue - RollingHours * Hour}

(* _recent_ramp: the last row less the one before it. *)
RecentRamp(rows) ==
    IF Cardinality(rows) < 2 THEN None
    ELSE LET last == Latest(rows, ByEnd(rows))
         IN  last.mw - Latest(rows \ {last}, ByEnd(rows)).mw

(* make_demand_features.  Mean, minimum, maximum and deviation are         *)
(* functions of the rolling rows, and missing when there are none.         *)
DemandFeatures(demand, issue, start) ==
    [lags |-> [lag \in Lags |-> SafeLag(demand, issue, start, lag)],
     rolling |-> {<<r.end, r.mw>> : r \in RollingRows(demand, issue)},
     ramp |-> RecentRamp(RollingRows(demand, issue))]

(* build_feature_snapshot_targets: the payload of each target.             *)
Snapshot(demand, observations, forecasts, issue, hours) ==
    LET horizon == Horizon(issue, hours)
        archived == ForecastsAsOf(forecasts, issue, {target.start : target \in horizon})
    IN  {[target |-> target,
          demand |-> DemandFeatures(demand, issue, target.start),
          observations |-> ObservationsAsOf(observations, issue),
          forecasts |-> {r \in archived : r.valid = target.start}] : target \in horizon}

(* feature_vector_from_payload and baselines._feature_vector give a vector *)
(* only when nothing is missing; calendar features never are.              *)
HasVector(features) ==
    /\ \A lag \in Lags : features.lags[lag] # None
    /\ features.rolling # {}
    /\ features.ramp # None

-----------------------------------------------------------------------------
(* Training rows and baselines *)

(* load_candidate_rows: the snapshot rows of a window that have a vector,  *)
(* each with the current demand of its target hour as the label.           *)
CandidateRows(rows, demand, from, until) ==
    LET actuals == {r \in demand : r.current /\ r.start >= from /\ r.end =< until}
        usable == {row \in rows : /\ row.target.start >= from
                                  /\ row.target.end =< until
                                  /\ HasVector(row.demand)
                                  /\ DemandAt(actuals, row.target.start) # None}
    IN  {[features |-> row, actual |-> DemandAt(actuals, row.target.start)] : row \in usable}

(* _predict_lag_baseline, with a lag of 24 or 168 hours; None is skipped.  *)
LagBaseline(demand, issue, target, lag) ==
    DemandAt(DemandHistory(demand, issue), target.start - lag * Hour)

SameHourYesterday(demand, issue, target) == LagBaseline(demand, issue, target, 24)
SameHourLastWeek(demand, issue, target) == LagBaseline(demand, issue, target, 168)

(* Fault: the training window alone bounds what is averaged. *)
SeasonalRowsUnbounded(demand, issue, target, from, until) ==
    {r \in demand : /\ r.current /\ r.start >= from /\ r.end =< until
                    /\ HourOfDay(r.start) = HourOfDay(target.start)}

(* predict_seasonal_hourly_mean: the rows it averages. *)
SeasonalRows(demand, issue, target, from, until) ==
    {r \in DemandHistory(demand, issue) :
        /\ r.start >= from /\ r.end =< until
        /\ HourOfDay(r.start) = HourOfDay(target.start)}
=============================================================================
