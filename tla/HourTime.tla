------------------------------ MODULE HourTime ------------------------------
(***************************************************************************)
(* Time as the calculations of gridops use it: an instant is an integer,   *)
(* Hour of them to an hour, whole hours its multiples.                     *)
(***************************************************************************)
EXTENDS Integers

CONSTANTS
    Hour,  \* an hour, in units of time
    None   \* a value that is missing

ASSUME HourAssumption == Hour \in Nat \ {0}
ASSUME NoneAssumption == None \notin Int /\ None \notin Int \X Int

Lesser(a, b) == IF b < a THEN b ELSE a
Greater(a, b) == IF a < b THEN b ELSE a
Magnitude(x) == IF x < 0 THEN 0 - x ELSE x

(* _next_hour_after *)
NextHourAfter(t) == (t \div Hour) * Hour + Hour

(* Fault: the end belongs to the window. *)
HourlyStartsClosed(start, until) == {t \in start..until : (t - start) % Hour = 0}

(* The steps of an hour from start that stay below until: _hourly_starts,  *)
(* _expected_times and _hourly_points.                                     *)
HourlyStarts(start, until) == {t \in start..(until - 1) : (t - start) % Hour = 0}
=============================================================================
