----------------------------- MODULE TorontoTime -----------------------------
(***************************************************************************)
(* Toronto wall time and the hour-ending labels of IESO                    *)
(* (gridops.time_utils), over a time line with one change to daylight time *)
(* and one back.  A local time is an integer too: the reading of the clock *)
(* on the wall, midnight of day 0 being 0.                                 *)
(***************************************************************************)
EXTENDS HourTime

CONSTANTS
    SpringForward,  \* the instant daylight time begins
    FallBack        \* the instant it ends

ASSUME DaylightAssumption ==
    /\ SpringForward \in Int /\ FallBack \in Int
    /\ SpringForward + 2 * Hour =< FallBack

Day == 24 * Hour

(* The zone: five hours behind UTC, four in daylight time. *)
Offset(t) == IF t >= SpringForward /\ t < FallBack THEN 4 * Hour ELSE 5 * Hour

(* utc_to_toronto *)
ToToronto(t) == t - Offset(t)

(* The instants that read a local time: none of a skipped one, two of a    *)
(* repeated one (_is_nonexistent_toronto_time, _is_ambiguous_toronto_time).*)
Readings(local) ==
    {t \in {local + 4 * Hour, local + 5 * Hour} : ToToronto(t) = local}

Nonexistent(local) == Readings(local) = {}
Ambiguous(local) == local + 4 * Hour \in Readings(local) /\ local + 5 * Hour \in Readings(local)

(* utc_to_toronto(t).fold = 1 *)
SecondReading(t) == Ambiguous(ToToronto(t)) /\ t = ToToronto(t) + 5 * Hour

(* Fault: of a repeated local time the first is meant. *)
TorontoToUtcGuessing(local, fold) ==
    IF Nonexistent(local) THEN None
    ELSE IF local + 4 * Hour \in Readings(local) THEN local + 4 * Hour ELSE local + 5 * Hour

(* toronto_to_utc; None where it raises ValueError. *)
TorontoToUtc(local, fold) ==
    IF Nonexistent(local) \/ (Ambiguous(local) /\ fold \notin {0, 1}) THEN None
    ELSE IF Ambiguous(local)
    THEN IF fold = 0 THEN local + 4 * Hour ELSE local + 5 * Hour
    ELSE CHOOSE t \in Readings(local) : TRUE

(* ieso_hour_ending_to_utc; dates are numbers of days. *)
IesoHourEndingToUtc(date, hourEnding) ==
    IF hourEnding \in 1..24 THEN TorontoToUtc(date * Day + hourEnding * Hour, None) ELSE None

(* Fault: the last hour of a day belongs to the next one. *)
SourceKeyNextDay(start) ==
    LET local == ToToronto(start + Hour)
        hour == (local \div Hour) % 24
    IN  <<local \div Day, IF hour = 0 THEN 24 ELSE hour>>

(* _source_key_for_interval_start: service date and hour ending. *)
SourceKey(start) ==
    LET local == ToToronto(start + Hour)
        hour == (local \div Hour) % 24
    IN  IF hour = 0 THEN <<local \div Day - 1, 24>> ELSE <<local \div Day, hour>>
=============================================================================
