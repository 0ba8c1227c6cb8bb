--------------------------- MODULE QualityChecks ---------------------------
(***************************************************************************)
(* What a quality run evaluates: the checks of demand and weather          *)
(* (gridops.quality.ieso_demand, gridops.quality.weather) over the rows    *)
(* the runner selects for a window (gridops.quality.runner), and the       *)
(* demand parser that the rows come from.                                  *)
(*                                                                         *)
(*   demand       [date, hour, start, end, mw, current]                    *)
(*   observation  [station, at, value, current]                            *)
(*   forecast     [series, issued, valid, lead, value, current]            *)
(* and an id each.  The value of an observation stands for its readings.   *)
(* Columns exist and required values are present: the tables see to it.    *)
(***************************************************************************)
EXTENDS TorontoTime, FiniteSetsExt

-----------------------------------------------------------------------------
(* Results *)

Passed(check) ==
    [check |-> check, status |-> "passed", severity |-> "info", blocking |-> FALSE]
Failed(check, severity) ==
    [check |-> check, status |-> "failed", severity |-> severity, blocking |-> TRUE]
Skipped(check) ==
    [check |-> check, status |-> "skipped", severity |-> "warning", blocking |-> FALSE]

Verdict(check, holds) == IF holds THEN Passed(check) ELSE Failed(check, "error")

(* decide_run_blocking, for a run that succeeded. *)
Blocking(results) ==
    \E result \in results : result.blocking \/ result.severity \in {"error", "critical"}

-----------------------------------------------------------------------------
(* Checks the datasets share *)

Current(rows) == {r \in rows : r.current}

UniqueKeys(key) == \A r, s \in DOMAIN key : key[r] = key[s] => r = s

(* _check_freshness, over the times of the current rows: the latest is no  *)
(* older than the tolerance.                                               *)
Freshness(check, times, now, tolerance) ==
    IF times = {} THEN Failed(check, "critical")
    ELSE Verdict(check, now - Max(times) =< tolerance)

(* _resolved_window: None where nothing is left to check. *)
ResolvedWindow(from, until, starts, ends) ==
    IF (from = None /\ starts = {}) \/ (until = None /\ ends = {}) THEN None
    ELSE LET start == IF from # None THEN from ELSE Min(starts)
             end == IF until # None THEN until ELSE Max(ends)
         IN  IF start >= end THEN None ELSE <<start, end>>

Within(t, window) == t >= window[1] /\ t < window[2]

-----------------------------------------------------------------------------
(* IESO demand *)

(* A row of parse_ieso_hourly_demand. *)
ParsedDemand(date, hour, mw) ==
    LET end == IesoHourEndingToUtc(date, hour)
    IN  [date |-> date, hour |-> hour, start |-> end - Hour, end |-> end, mw |-> mw]

(* parse_ieso_hourly_demand: one label that cannot be placed rejects the   *)
(* payload.  Labels are pairs of a date and an hour ending.                *)
ParseDemand(labels, mw) ==
    IF \E label \in labels : IesoHourEndingToUtc(label[1], label[2]) = None THEN None
    ELSE {ParsedDemand(label[1], label[2], mw) : label \in labels}

CurrentStarts(rows, window) ==
    {r.start : r \in {row \in rows : row.current /\ Within(row.start, window)}}

(* check_ieso_continuity *)
DemandContinuity(rows, window) ==
    Verdict("ieso_utc_interval_continuity",
            HourlyStarts(window[1], window[2]) \subseteq CurrentStarts(rows, window))

(* check_ieso_source_hour_completeness *)
SourceHours(rows, window) ==
    LET observed == {<<r.date, r.hour>> :
                        r \in {row \in rows : row.current /\ Within(row.start, window)}}
    IN  Verdict("ieso_source_hour_completeness",
                {SourceKey(start) : start \in HourlyStarts(window[1], window[2])}
                    \subseteq observed)

(* check_ieso_dst_alignment *)
DstAlignment(rows, window) ==
    IF \E start \in HourlyStarts(window[1], window[2]) :
          /\ SecondReading(start + Hour)
          /\ (ToToronto(start + Hour) \div Hour) % 24 = 1
    THEN Skipped("ieso_dst_alignment")
    ELSE Verdict("ieso_dst_alignment",
                 \A r \in rows : r.current /\ Within(r.start, window) =>
                    IesoHourEndingToUtc(r.date, r.hour) = r.end)

(* check_ieso_unique_current_source_keys *)
UniqueDemandKeys(rows) ==
    Verdict("ieso_unique_current_source_keys",
            UniqueKeys([r \in Current(rows) |-> <<r.date, r.hour>>]))

MinDemandMw == 0
MaxDemandMw == 60000

(* check_ieso_demand_range *)
DemandRange(rows) ==
    Verdict("ieso_demand_range", \A r \in rows : r.mw >= MinDemandMw /\ r.mw =< MaxDemandMw)

(* check_ieso_timestamps *)
DemandTimestamps(rows) == Verdict("ieso_timestamps", \A r \in rows : r.end - r.start = Hour)

(* check_ieso_freshness *)
DemandFreshness(rows, now) ==
    Freshness("ieso_freshness", {r.end : r \in Current(rows)}, now, 30 * Hour)

(* Fault: the whole table tells how fresh a window is. *)
DemandResultsFreshTable(table, from, until, now) ==
    LET rows == {r \in table : /\ from = None \/ r.end > from
                               /\ until = None \/ r.start < until}
        current == Current(rows)
        window == ResolvedWindow(from, until, {r.start : r \in current}, {r.end : r \in current})
    IN  IF rows = {} THEN {Failed("no_rows", "critical")}
        ELSE {DemandFreshness(table, now)}
             \cup IF window = None THEN {Skipped("ieso_windowed_checks")}
                  ELSE {DemandContinuity(rows, window), SourceHours(rows, window),
                        DstAlignment(rows, window)}

(* _evaluate_ieso_hourly_demand; from and until are None when not given.   *)
DemandResults(table, from, until, now) ==
    LET rows == {r \in table : /\ from = None \/ r.end > from
                               /\ until = None \/ r.start < until}
        current == Current(rows)
        window == ResolvedWindow(from, until, {r.start : r \in current}, {r.end : r \in current})
    IN  IF rows = {} THEN {Failed("no_rows", "critical")}
        ELSE {UniqueDemandKeys(rows), DemandRange(rows), DemandTimestamps(rows),
              DemandFreshness(rows, now)}
             \cup IF window = None THEN {Skipped("ieso_windowed_checks")}
                  ELSE {DemandContinuity(rows, window), SourceHours(rows, window),
                        DstAlignment(rows, window)}

-----------------------------------------------------------------------------
(* Weather observations *)

(* check_weather_observation_continuity, of one station. *)
ObservationContinuity(rows, station, window) ==
    Verdict("weather_observation_continuity",
            HourlyStarts(window[1], window[2]) \subseteq
                {r.at : r \in {row \in rows : /\ row.current /\ row.station = station
                                              /\ Within(row.at, window)}})

(* The window of a station in _evaluate_weather_observations. *)
StationResult(rows, station, from, until) ==
    LET times == {r.at : r \in {row \in rows : row.current /\ row.station = station}}
        window == ResolvedWindow(from, until, times, {t + Hour : t \in times})
    IN  IF window = None THEN Skipped("weather_observation_continuity")
        ELSE ObservationContinuity(rows, station, window)

(* check_weather_observation_unique_current_source_keys *)
UniqueObservationKeys(rows) ==
    Verdict("weather_observation_unique_current_source_keys",
            UniqueKeys([r \in Current(rows) |-> <<r.station, r.at>>]))

MinReading == -80
MaxReading == 60

(* check_weather_observation_ranges, of the readings the temperature.      *)
ObservationRanges(rows) ==
    Verdict("weather_observation_ranges",
            \A r \in rows : r.value = None \/ (r.value >= MinReading /\ r.value =< MaxReading))

(* check_weather_observation_freshness *)
ObservationFreshness(rows, now) ==
    Freshness("weather_observation_freshness",
              {r.at : r \in Current(rows)}, now, 6 * Hour)

(* Fault: what one station lacks another may report. *)
ObservationResultsPooled(table, from, until, now) ==
    LET rows == {r \in table : /\ from = None \/ r.at >= from
                               /\ until = None \/ r.at < until}
        current == Current(rows)
        pooled == {[r EXCEPT !.station = None] : r \in current}
    IN  IF rows = {} THEN {Failed("no_rows", "critical")}
        ELSE {ObservationFreshness(rows, now),
              StationResult(pooled, None, from, until)}

(* _evaluate_weather_observations *)
ObservationResults(table, from, until, now) ==
    LET rows == {r \in table : /\ from = None \/ r.at >= from
                               /\ until = None \/ r.at < until}
        stations == {r.station : r \in Current(rows)}
    IN  IF rows = {} THEN {Failed("no_rows", "critical")}
        ELSE {UniqueObservationKeys(rows), ObservationRanges(rows),
              ObservationFreshness(rows, now)}
             \cup IF stations = {} THEN {Skipped("weather_observation_continuity")}
                  ELSE {StationResult(rows, station, from, until) : station \in stations}

-----------------------------------------------------------------------------
(* Weather forecasts *)

(* check_weather_forecast_unique_current_source_keys *)
UniqueForecastKeys(rows) ==
    Verdict("weather_forecast_unique_current_source_keys",
            UniqueKeys([r \in Current(rows) |-> <<r.series, r.issued, r.valid>>]))

MinForecastValue == -1000
MaxForecastValue == 1000

(* check_weather_forecast_ranges *)
ForecastRanges(rows) ==
    Verdict("weather_forecast_ranges",
            \A r \in rows : r.value >= MinForecastValue /\ r.value =< MaxForecastValue)

(* check_weather_forecast_timestamps; _whole_hours in the last conjunct.   *)
ForecastTimestamps(rows) ==
    Verdict("weather_forecast_timestamps",
            \A r \in rows : /\ r.valid > r.issued
                            /\ r.lead # None => r.valid - r.issued = r.lead * Hour)

(* check_weather_forecast_freshness *)
ForecastFreshness(rows, now) ==
    Freshness("weather_forecast_freshness",
              {r.issued : r \in Current(rows)}, now, 24 * Hour)

(* Fault: every issue is expected to reach as far as the others. *)
IssueResultFullReach(rows, group) ==
    LET valids == {r.valid : r \in {row \in rows : row.current
                                                   /\ <<row.series, row.issued>> = group}}
    IN  Verdict("weather_forecast_valid_time_completeness",
                HourlyStarts(Min(valids), Max({r.valid : r \in rows}) + Hour) \subseteq valids)

(* check_weather_forecast_valid_time_completeness, with the valid times    *)
(* _evaluate_weather_forecasts expects: each hour from the first of the    *)
(* group to its last.                                                      *)
IssueResult(rows, group) ==
    LET valids == {r.valid : r \in {row \in rows : row.current
                                                   /\ <<row.series, row.issued>> = group}}
    IN  Verdict("weather_forecast_valid_time_completeness",
                HourlyStarts(Min(valids), Max(valids) + Hour) \subseteq valids)

(* _evaluate_weather_forecasts *)
ForecastResults(table, from, until, now) ==
    LET rows == {r \in table : /\ from = None \/ r.valid >= from
                               /\ until = None \/ r.valid < until}
        groups == {<<r.series, r.issued>> : r \in Current(rows)}
    IN  IF rows = {} THEN {Failed("no_rows", "critical")}
        ELSE {UniqueForecastKeys(rows), ForecastRanges(rows), ForecastTimestamps(rows),
              ForecastFreshness(rows, now)}
             \cup IF groups = {} THEN {Skipped("weather_forecast_valid_time_completeness")}
                  ELSE {IssueResult(rows, group) : group \in groups}
=============================================================================
