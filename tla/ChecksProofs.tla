---------------------------- MODULE ChecksProofs ----------------------------
(***************************************************************************)
(* Theorems about Toronto time, the demand parser, the quality checks and  *)
(* the alert rules, for any tables, windows, forecasts, thresholds, length *)
(* of an hour and changes of the clock.                                    *)
(*                                                                         *)
(* Labels: the hour a label names is found by division, and the clock      *)
(* reads an instant back as the label says unless it reads it twice.       *)
(* Tables: which results block is worked out once for each table (Blocks,  *)
(* WhatBlocks, BlockingIs), then each check is compared with what the rows *)
(* of the window say.                                                      *)
(* Days: a day without a repeated hour is all of one season, or turns from *)
(* winter to summer at one hour, which the clock skips (DayIsPlain).       *)
(* Rules: a rule lists one candidate of each hour in the order of the      *)
(* hours (Nth), its fingerprints begin with the rule and hold the hour, so *)
(* the lists of all rules joined repeat none (CandidatesListed).           *)
(***************************************************************************)
EXTENDS Algorithms, FiniteInduction, TLAPS

(* Whole hours, as instants and as readings of the clock. *)
Whole(t) == \E k \in Int : t = k * Hour

-----------------------------------------------------------------------------
(* Arithmetic *)

LEMMA DivideBy ==
  ASSUME NEW q \in Int, NEW b \in Nat \ {0}, NEW r \in 0..(b - 1)
  PROVE  (q * b + r) \div b = q
<1>1. PICK a \in Int : a = q * b + r
  OBVIOUS
<1>2. PICK d \in Int : d = a \div b
  BY <1>1
<1>3. d * b =< a /\ a < d * b + b
  BY <1>2
<1>4. (q - d) * b < b /\ (d - q) * b < b
  BY <1>1, <1>3
<1>5. \A n \in Int : n >= 1 => n * b >= b
  OBVIOUS
<1>6. q - d < 1 /\ d - q < 1
  BY <1>4, <1>5
<1> QED
  BY <1>1, <1>2, <1>6

(* Multiples of an hour are counted by division. *)
LEMMA HoursCount ==
  ASSUME NEW k \in Int
  PROVE  /\ (k * Hour) \div Hour = k
         /\ (k * Hour) \div Day = k \div 24
         /\ k = 24 * (k \div 24) + (k % 24)
         /\ k % 24 \in 0..23 /\ k \div 24 \in Int
<1>0. Hour \in Nat \ {0}
  BY HourAssumption
<1>1. (k * Hour) \div Hour = k
  <2>1. 0 \in 0..(Hour - 1)
    BY <1>0
  <2>2. (k * Hour + 0) \div Hour = k
    BY <1>0, <2>1, DivideBy
  <2>3. k * Hour + 0 = k * Hour
    BY <1>0
  <2> QED
    BY <2>2, <2>3
<1>2. k = 24 * (k \div 24) + (k % 24) /\ k % 24 \in 0..23 /\ k \div 24 \in Int
  OBVIOUS
<1>3. PICK q \in Int, r \in 0..23 : q = k \div 24 /\ r = k % 24 /\ k = 24 * q + r
  BY <1>2
<1>4. Day \in Nat \ {0} /\ Day = 24 * Hour
  BY <1>0 DEF Day
<1>5. r * Hour \in 0..(Day - 1)
  <2>1. r * Hour >= 0 /\ (23 - r) * Hour >= 0
    BY <1>0
  <2>2. r * Hour =< 23 * Hour
    BY <1>0, <2>1
  <2> QED
    BY <1>0, <1>4, <2>1, <2>2
<1>6. k * Hour = q * Day + r * Hour
  BY <1>0, <1>3, <1>4
<1>7. (q * Day + r * Hour) \div Day = q
  BY <1>4, <1>5, DivideBy
<1> QED
  BY <1>1, <1>2, <1>3, <1>6, <1>7

(* A number is a whole number of hours when its remainder is nought. *)
LEMMA WholeByRemainder ==
  ASSUME NEW t \in Int, t % Hour = 0
  PROVE  Whole(t)
<1>1. t = (t \div Hour) * Hour /\ t \div Hour \in Int
  BY HourAssumption
<1> QED
  BY <1>1 DEF Whole

LEMMA RemainderOfWhole ==
  ASSUME NEW k \in Int
  PROVE  (k * Hour) % Hour = 0
<1>1. PICK a \in Int : a = k * Hour
  BY HourAssumption
<1>2. a \div Hour = k
  BY <1>1, HoursCount
<1>3. a = (a \div Hour) * Hour + (a % Hour) /\ a % Hour \in Int
  BY HourAssumption
<1> QED
  BY <1>1, <1>2, <1>3, HourAssumption

(* Whole hours that differ are an hour apart. *)
LEMMA WholeApart ==
  ASSUME NEW s, NEW t, Whole(s), Whole(t), s < t
  PROVE  s + Hour =< t
<1>1. PICK j \in Int, k \in Int : s = j * Hour /\ t = k * Hour
  BY DEF Whole
<1>2. (k - j) * Hour > 0
  BY <1>1, HourAssumption
<1>3. k - j >= 1
  BY <1>2, HourAssumption
<1>4. (k - j - 1) * Hour >= 0
  BY <1>3, HourAssumption
<1> QED
  BY <1>1, <1>4, HourAssumption

(* Steps of an hour from a whole hour are whole hours. *)
LEMMA StepsAreWhole ==
  ASSUME NEW from \in Int, NEW until \in Int, NEW t \in HourlyStarts(from, until)
  PROVE  /\ t \in Int /\ from =< t /\ t < until
         /\ Whole(from) <=> Whole(t)
         /\ \E n \in Nat : t = from + n * Hour
<1>1. t \in Int /\ from =< t /\ t < until /\ (t - from) % Hour = 0
  BY DEF HourlyStarts
<1>2. PICK n \in Int : t - from = n * Hour
  BY <1>1, WholeByRemainder DEF Whole
<1>3. n >= 0
  <2> SUFFICES ASSUME n < 0 PROVE FALSE
    BY <1>2
  <2>1. n * Hour < 0
    BY HourAssumption
  <2> QED
    BY <1>1, <1>2, <2>1
<1>4. ASSUME Whole(from) PROVE Whole(t)
  <2>1. PICK k \in Int : from = k * Hour
    BY <1>4 DEF Whole
  <2>2. t = (k + n) * Hour
    BY <1>1, <1>2, <2>1, HourAssumption
  <2> QED
    BY <2>2 DEF Whole
<1>5. ASSUME Whole(t) PROVE Whole(from)
  <2>1. PICK k \in Int : t = k * Hour
    BY <1>5 DEF Whole
  <2>2. from = (k - n) * Hour
    BY <1>1, <1>2, <2>1, HourAssumption
  <2> QED
    BY <2>2 DEF Whole
<1> QED
  BY <1>1, <1>2, <1>3, <1>4, <1>5, HourAssumption

LEMMA IsStep ==
  ASSUME NEW from \in Int, NEW until \in Int, NEW n \in Nat, from + n * Hour < until
  PROVE  from + n * Hour \in HourlyStarts(from, until)
<1>1. n * Hour \in Int /\ n * Hour >= 0 /\ (n * Hour) % Hour = 0
  BY HourAssumption, RemainderOfWhole
<1>2. PICK m \in Int : m = n * Hour /\ m >= 0 /\ m % Hour = 0
  BY <1>1
<1>3. (from + m) - from = m
  BY <1>2
<1> QED
  BY <1>2, <1>3 DEF HourlyStarts

-----------------------------------------------------------------------------
(* Toronto time *)

LEMMA OffsetIs ==
  ASSUME NEW t \in Int
  PROVE  /\ Offset(t) \in {4 * Hour, 5 * Hour} /\ Offset(t) \in Int
         /\ ToToronto(t) \in Int
         /\ t = ToToronto(t) + Offset(t)
         /\ t \in Readings(ToToronto(t))
<1>1. Offset(t) \in {4 * Hour, 5 * Hour} /\ Offset(t) \in Int
  BY HourAssumption DEF Offset
<1>2. ToToronto(t) \in Int /\ t = ToToronto(t) + Offset(t)
  BY <1>1 DEF ToToronto
<1> QED
  BY <1>1, <1>2 DEF Readings

(* What the clock reads at an instant means that instant, unless it reads  *)
(* it twice.                                                               *)
LEMMA ReadingReturns ==
  ASSUME NEW t \in Int
  PROVE  TorontoToUtc(ToToronto(t), None) = IF Ambiguous(ToToronto(t)) THEN None ELSE t
<1> DEFINE local == ToToronto(t)
<1>1. t \in Readings(local) /\ local \in Int
  BY OffsetIs
<1>2. ~Nonexistent(local)
  BY <1>1 DEF Nonexistent
<1>3. None \notin {0, 1}
  BY NoneAssumption
<1>4. ASSUME ~Ambiguous(local) PROVE (CHOOSE u \in Readings(local) : TRUE) = t
  <2>1. Readings(local) \subseteq {local + 4 * Hour, local + 5 * Hour}
    BY DEF Readings
  <2> HIDE DEF local
  <2>2. \A u \in Readings(local) : u = t
    BY <1>1, <1>4, <2>1 DEF Ambiguous
  <2> QED
    BY <1>1, <2>2
<1> QED
  BY <1>2, <1>3, <1>4 DEF TorontoToUtc

(* The label an hour has is the reading of the clock at its end.           *)
LEMMA LabelIsReading ==
  ASSUME NEW start, Whole(start)
  PROVE  /\ SourceKey(start)[1] \in Int /\ SourceKey(start)[2] \in 1..24
         /\ SourceKey(start)[1] * Day + SourceKey(start)[2] * Hour = ToToronto(start + Hour)
         /\ Whole(ToToronto(start + Hour))
<1>1. PICK j \in Int : start = j * Hour
  BY DEF Whole
<1>2. start + Hour = (j + 1) * Hour /\ start + Hour \in Int
  BY <1>1, HourAssumption
<1>3. PICK k \in Int : ToToronto(start + Hour) = k * Hour
  <2>1. CASE Offset(start + Hour) = 4 * Hour
    <3>1. ToToronto(start + Hour) = (j - 3) * Hour
      BY <1>1, <1>2, <2>1, HourAssumption DEF ToToronto
    <3> QED
      BY <3>1
  <2>2. CASE Offset(start + Hour) = 5 * Hour
    <3>1. ToToronto(start + Hour) = (j - 4) * Hour
      BY <1>1, <1>2, <2>2, HourAssumption DEF ToToronto
    <3> QED
      BY <3>1
  <2> QED
    BY <1>2, <2>1, <2>2, OffsetIs
<1>4. /\ (k * Hour) \div Hour = k /\ (k * Hour) \div Day = k \div 24
      /\ k = 24 * (k \div 24) + (k % 24)
      /\ k % 24 \in 0..23 /\ k \div 24 \in Int
  BY HoursCount
<1>5. SourceKey(start) = IF k % 24 = 0 THEN <<(k \div 24) - 1, 24>> ELSE <<k \div 24, k % 24>>
  BY <1>3, <1>4 DEF SourceKey
<1>6. PICK q \in Int, r \in 0..23 : q = k \div 24 /\ r = k % 24 /\ k = 24 * q + r
  BY <1>4
<1>7. CASE r = 0
  <2>1. SourceKey(start)[1] = q - 1 /\ SourceKey(start)[2] = 24
    BY <1>5, <1>6, <1>7
  <2>2. (q - 1) * Day + 24 * Hour = k * Hour
    BY <1>6, <1>7, HourAssumption DEF Day
  <2> QED
    BY <1>3, <2>1, <2>2 DEF Whole
<1>8. CASE r # 0
  <2>1. SourceKey(start)[1] = q /\ SourceKey(start)[2] = r
    BY <1>5, <1>6, <1>8
  <2>2. q * Day + r * Hour = k * Hour
    BY <1>6, HourAssumption DEF Day
  <2> QED
    BY <1>3, <1>8, <2>1, <2>2 DEF Whole
<1> QED
  BY <1>7, <1>8

(* LabelsReturn, of one hour.                                              *)
LEMMA LabelReturns ==
  ASSUME NEW start, Whole(start)
  PROVE  IesoHourEndingToUtc(SourceKey(start)[1], SourceKey(start)[2]) =
            IF Ambiguous(ToToronto(start + Hour)) THEN None ELSE start + Hour
<1>1. start + Hour \in Int
  BY HourAssumption DEF Whole
<1> QED
  BY <1>1, LabelIsReading, ReadingReturns DEF IesoHourEndingToUtc

InputIsHour == topic = "label" => input \in Starts

(* LabelsReturn, for any whole hours, length of an hour and changes of the *)
(* clock.                                                                  *)
THEOREM LabelsAlwaysReturn ==
  ASSUME \A start \in Starts : Whole(start)
  PROVE  Spec => []LabelsReturn
<1>1. Init => InputIsHour
  BY DEF Init, InputIsHour
<1>2. InputIsHour /\ [Next]_vars => InputIsHour'
  BY DEF InputIsHour, Next, Look, vars
<1>3. InputIsHour => LabelsReturn
  BY LabelReturns DEF InputIsHour, LabelsReturn
<1> QED
  BY <1>1, <1>2, <1>3, PTL DEF Spec

-----------------------------------------------------------------------------
(* Results *)

Blocks(result) == result.blocking \/ result.severity \in {"error", "critical"}

(* A window is closed by a result that is a failure, and by no other.      *)
LEMMA WhatBlocks ==
  /\ \A check : ~Blocks(Passed(check)) /\ ~Blocks(Skipped(check))
  /\ \A check, severity : Blocks(Failed(check, severity))
  BY DEF Blocks, Passed, Skipped, Failed

LEMMA BlockingIs ==
  ASSUME NEW results
  PROVE  Blocking(results) <=> \E result \in results : Blocks(result)
  BY DEF Blocking, Blocks

(* The largest and the least of finitely many numbers.                     *)
LEMMA LargestAndLeast ==
  ASSUME NEW S \in SUBSET Int, IsFiniteSet(S), S # {}
  PROVE  /\ Max(S) \in S /\ \A x \in S : x =< Max(S)
         /\ Min(S) \in S /\ \A x \in S : Min(S) =< x
<1>1. \E x \in S : \A y \in S : x >= y
  BY FiniteHasMax
<1>2. \E x \in S : \A y \in S : x =< y
  BY FiniteHasMin
<1>3. Max(S) \in S /\ \A y \in S : Max(S) >= y
  BY <1>1 DEF Max
<1>4. Min(S) \in S /\ \A y \in S : Min(S) =< y
  BY <1>2 DEF Min
<1> QED
  BY <1>3, <1>4

(* Data are fresh exactly when some time is no older than the tolerance.   *)
LEMMA FreshnessIs ==
  ASSUME NEW check, NEW times \in SUBSET Int, IsFiniteSet(times),
         NEW now \in Int, NEW tolerance \in Int
  PROVE  Blocks(Freshness(check, times, now, tolerance)) <=>
            \A t \in times : now - t > tolerance
<1>1. CASE times = {}
  BY <1>1, WhatBlocks DEF Freshness
<1>2. CASE times # {}
  <2>1. PICK m \in times : m = Max(times) /\ \A t \in times : t =< m
    BY <1>2, LargestAndLeast
  <2>2. Freshness(check, times, now, tolerance) =
           IF now - m =< tolerance THEN Passed(check) ELSE Failed(check, "error")
    BY <1>2, <2>1 DEF Freshness, Verdict
  <2>3. now - m =< tolerance <=> ~(\A t \in times : now - t > tolerance)
    BY <2>1
  <2> QED
    BY <2>2, <2>3, WhatBlocks
<1> QED
  BY <1>1, <1>2

-----------------------------------------------------------------------------
(* Demand *)

(* The rows of a window: all that overlap it. *)
Overlapping(table, from, until) == {r \in table : r.end > from /\ r.start < until}

(* What is checked of them. *)
DemandChecks(rows, window, now) ==
    {UniqueDemandKeys(rows), DemandRange(rows), DemandTimestamps(rows),
     DemandFreshness(rows, now)}
    \cup {DemandContinuity(rows, window), SourceHours(rows, window),
          DstAlignment(rows, window)}

(* One row for each hour, and nothing else. *)
LEMMA TableRows ==
  ASSUME NEW S \in SUBSET Int
  PROVE  /\ \A r \in DemandTable(S) : r.start \in S /\ r.start \in Int
         /\ \A r \in DemandTable(S) : r.end = r.start + Hour /\ r.end \in Int
         /\ \A r \in DemandTable(S) : r.current = TRUE
         /\ \A s \in S : \E r \in DemandTable(S) : r.start = s
         /\ \A r, q \in DemandTable(S) : r.start = q.start => r = q
<1> DEFINE row == [s \in S |-> [start |-> s, end |-> s + Hour, date |-> SourceKey(s)[1],
                                hour |-> SourceKey(s)[2], mw |-> 15000, current |-> TRUE]]
<1>1. DemandTable(S) = {row[s] : s \in S}
  BY DEF DemandTable
<1>2. \A s \in S : row[s].start = s /\ row[s].end = s + Hour /\ row[s].current = TRUE
  OBVIOUS
<1> HIDE DEF row
<1>3. \A r \in DemandTable(S) : r.start \in S /\ r = row[r.start]
  BY <1>1, <1>2
<1>4. ASSUME NEW r \in DemandTable(S)
      PROVE  r.start \in Int /\ r.end = r.start + Hour /\ r.end \in Int /\ r.current = TRUE
  <2>1. PICK s \in Int : s \in S /\ s = r.start /\ r = row[s]
    BY <1>3
  <2>2. r.end = s + Hour /\ r.current = TRUE
    BY <1>2, <2>1
  <2>3. s + Hour \in Int
    BY <2>1, HourAssumption
  <2>4. r.start \in Int /\ r.end \in Int
    BY <2>1, <2>2, <2>3, Zenon
  <2>5. r.end = r.start + Hour
    BY <2>1, <2>2, Zenon
  <2> QED
    BY <2>2, <2>4, <2>5
<1>5. \A s \in S : \E r \in DemandTable(S) : r.start = s
  BY <1>1, <1>2
<1>6. \A r, q \in DemandTable(S) : r.start = q.start => r = q
  BY <1>3
<1> QED
  BY <1>3, <1>4, <1>5, <1>6

LEMMA TableLabels ==
  ASSUME NEW S, NEW r \in DemandTable(S)
  PROVE  r.mw = 15000 /\ r.date = SourceKey(r.start)[1] /\ r.hour = SourceKey(r.start)[2]
  BY DEF DemandTable

LEMMA TableIsFinite ==
  ASSUME NEW S, IsFiniteSet(S)
  PROVE  IsFiniteSet(DemandTable(S))
<1> DEFINE row == [s \in S |-> [start |-> s, end |-> s + Hour, date |-> SourceKey(s)[1],
                                hour |-> SourceKey(s)[2], mw |-> 15000, current |-> TRUE]]
<1>1. DemandTable(S) = {row[s] : s \in S}
  BY DEF DemandTable
<1> HIDE DEF row
<1> QED
  BY <1>1, FiniteImage

(* The checks of a window that holds a row. *)
LEMMA ChecksAre ==
  ASSUME NEW table, NEW from \in Int, NEW until \in Int, from < until, NEW now,
         \A r \in table : r.current = TRUE
  PROVE  LET rows == Overlapping(table, from, until)
             window == <<from, until>>
         IN  /\ rows = {} => Blocking(DemandResults(table, from, until, now))
             /\ rows # {} =>
                  DemandResults(table, from, until, now) = DemandChecks(rows, window, now)
<1> DEFINE rows == Overlapping(table, from, until)
           selected == {r \in table : /\ from = None \/ r.end > from
                                      /\ until = None \/ r.start < until}
           current == Current(selected)
<1>1. from # None /\ until # None
  BY NoneAssumption
<1>2. selected = rows
  BY <1>1 DEF Overlapping
<1>3. ResolvedWindow(from, until, {r.start : r \in current}, {r.end : r \in current})
         = <<from, until>>
  BY <1>1 DEF ResolvedWindow
<1>4. <<from, until>> # None
  BY NoneAssumption
<1>5. rows = {} => DemandResults(table, from, until, now) = {Failed("no_rows", "critical")}
  BY <1>2 DEF DemandResults
<1>6. rows # {} => DemandResults(table, from, until, now)
                       = DemandChecks(rows, <<from, until>>, now)
  BY <1>2, <1>3, <1>4 DEF DemandResults, DemandChecks
<1> HIDE DEF rows
<1>7. rows = {} => Blocking(DemandResults(table, from, until, now))
  BY <1>5, BlockingIs, WhatBlocks
<1> QED
  BY <1>6, <1>7 DEF rows

(* A window of whole rows is fresh exactly when one of them ended no more  *)
(* than thirty hours ago.                                                  *)
LEMMA DemandFreshnessIs ==
  ASSUME NEW rows, IsFiniteSet(rows), \A r \in rows : r.current = TRUE /\ r.end \in Int,
         NEW now \in Int
  PROVE  Blocks(DemandFreshness(rows, now)) <=> \A r \in rows : now - r.end > 30 * Hour
<1> DEFINE end == [r \in rows |-> r.end]
           times == {end[r] : r \in rows}
<1>1. Current(rows) = rows
  BY DEF Current
<1>2. {r.end : r \in Current(rows)} = times
  BY <1>1
<1>3. \A r \in rows : r.end \in times
  OBVIOUS
<1>4. \A t \in times : \E r \in rows : t = r.end
  OBVIOUS
<1>5. IsFiniteSet(times)
  <2> HIDE DEF end
  <2> QED
    BY FiniteImage
<1> HIDE DEF times
<1>6. times \in SUBSET Int
  BY <1>4
<1>7. 30 * Hour \in Int
  BY HourAssumption
<1>8. Blocks(DemandFreshness(rows, now)) <=> \A t \in times : now - t > 30 * Hour
  BY <1>2, <1>5, <1>6, <1>7, FreshnessIs DEF DemandFreshness
<1> QED
  BY <1>3, <1>4, <1>8

LEMMA PastWindowCloses ==
  ASSUME NEW S \in SUBSET Int, IsFiniteSet(S),
         NEW from \in Int, NEW until \in Int, from < until
  PROVE  Blocking(DemandResults(DemandTable(S), from, until, until + 31 * Hour))
<1> DEFINE table == DemandTable(S)
           rows == Overlapping(table, from, until)
           now == until + 31 * Hour
<1>1. now \in Int
  BY HourAssumption
<1>2. \A r \in table : r.current = TRUE /\ r.start \in Int /\ r.end = r.start + Hour
  BY TableRows
<1>3. IsFiniteSet(table)
  BY TableIsFinite
<1> HIDE DEF table
<1>4. rows = {} => Blocking(DemandResults(table, from, until, now))
  BY <1>2, ChecksAre
<1>5. rows # {} => DemandFreshness(rows, now) \in DemandResults(table, from, until, now)
  <2>1. rows # {} =>
           DemandResults(table, from, until, now) = DemandChecks(rows, <<from, until>>, now)
    BY <1>2, ChecksAre
  <2> HIDE DEF rows, now
  <2> QED
    BY <2>1 DEF DemandChecks
<1>6. IsFiniteSet(rows)
  BY <1>3, FS_Subset DEF Overlapping
<1>7. \A r \in rows : r.current = TRUE /\ r.end \in Int /\ now - r.end > 30 * Hour
  BY <1>2, HourAssumption DEF Overlapping
<1> HIDE DEF rows, now
<1>8. Blocks(DemandFreshness(rows, now))
  BY <1>1, <1>6, <1>7, DemandFreshnessIs
<1>9. Blocking(DemandResults(table, from, until, now))
  BY <1>4, <1>5, <1>8, BlockingIs
<1> QED
  BY <1>9 DEF table, now

(* The inputs of the demand checks: whole hours, and windows that are not  *)
(* empty.                                                                  *)
Windowed(w) == w.from \in Int /\ w.until \in Int /\ w.from < w.until

InputIsWindow == topic = "demand" => input \in DemandInputs

(* PastWindowsStayClosed, for any hours and windows. *)
THEOREM PastIsClosed ==
  ASSUME Starts \in SUBSET Int, IsFiniteSet(Starts), \A w \in DemandInputs : Windowed(w)
  PROVE  Spec => []PastWindowsStayClosed
<1>1. Init => InputIsWindow
  BY DEF Init, InputIsWindow
<1>2. InputIsWindow /\ [Next]_vars => InputIsWindow'
  BY DEF InputIsWindow, Next, Look, vars
<1>3. InputIsWindow => PastWindowsStayClosed
  <2> SUFFICES ASSUME InputIsWindow, topic = "demand" PROVE PastWindowsStayClosed
    BY DEF PastWindowsStayClosed
  <2>1. Windowed(input)
    BY DEF InputIsWindow
  <2>2. Storable \ input.missing \in SUBSET Int /\ IsFiniteSet(Storable \ input.missing)
    BY FS_Subset DEF Storable
  <2> QED
    BY <2>1, <2>2, PastWindowCloses DEF PastWindowsStayClosed, Windowed
<1> QED
  BY <1>1, <1>2, <1>3, PTL DEF Spec

(* Hours that can be stored: the clock reads their end once. *)
Storables(S) == S \in SUBSET Int /\ \A s \in S : Whole(s) /\ ~Ambiguous(ToToronto(s + Hour))

LEMMA SourceKeyIsPair ==
  ASSUME NEW start
  PROVE  SourceKey(start) = <<SourceKey(start)[1], SourceKey(start)[2]>>
  BY DEF SourceKey

(* The rows overlapping a window that begins on the hour begin in it.      *)
LEMMA RowsBeginWithin ==
  ASSUME NEW S, Storables(S), NEW from \in Int, NEW until \in Int, Whole(from),
         NEW r \in Overlapping(DemandTable(S), from, until)
  PROVE  Within(r.start, <<from, until>>)
<1>1. r \in DemandTable(S) /\ r.end > from /\ r.start < until
  BY DEF Overlapping
<1>2. r.start \in Int /\ Whole(r.start) /\ r.end = r.start + Hour
  BY <1>1, TableRows DEF Storables
<1>3. ~(r.start < from)
  <2> SUFFICES ASSUME r.start < from PROVE FALSE
    OBVIOUS
  <2>1. r.start + Hour =< from
    BY <1>2, WholeApart
  <2>2. r.start + Hour > from
    BY <1>1, <1>2
  <2>3. r.start + Hour \in Int
    BY <1>2, HourAssumption
  <2> QED
    BY <2>1, <2>2, <2>3
<1> QED
  BY <1>1, <1>2, <1>3 DEF Within

(* Rows of hours that can be stored have labels of their own, and labels   *)
(* that lead back to them.                                                 *)
LEMMA RowsAreLabelled ==
  ASSUME NEW S, Storables(S)
  PROVE  /\ \A r \in DemandTable(S) : IesoHourEndingToUtc(r.date, r.hour) = r.end
         /\ \A r, q \in DemandTable(S) : r.date = q.date /\ r.hour = q.hour => r = q
<1>1. ASSUME NEW r \in DemandTable(S)
      PROVE  IesoHourEndingToUtc(r.date, r.hour) = r.end
  <2>1. PICK s \in S : s = r.start
    BY TableRows DEF Storables
  <2>2. r.end = s + Hour
    BY <2>1, TableRows DEF Storables
  <2>3. r.date = SourceKey(s)[1] /\ r.hour = SourceKey(s)[2]
    BY <2>1, TableLabels
  <2>4. IesoHourEndingToUtc(SourceKey(s)[1], SourceKey(s)[2]) = s + Hour
    BY LabelReturns DEF Storables
  <2> QED
    BY <2>2, <2>3, <2>4
<1>2. ASSUME NEW r \in DemandTable(S), NEW q \in DemandTable(S),
             r.date = q.date, r.hour = q.hour
      PROVE  r = q
  <2>1. r.end = q.end
    BY <1>1, <1>2
  <2>2. PICK s \in Int : s = r.start /\ r.end = s + Hour
    BY TableRows DEF Storables
  <2>3. PICK t \in Int : t = q.start /\ q.end = t + Hour
    BY TableRows DEF Storables
  <2>4. s = t
    <3>1. s + Hour = t + Hour
      BY <2>1, <2>2, <2>3, Zenon
    <3> QED
      BY <3>1, HourAssumption
  <2>5. r.start = q.start
    BY <2>2, <2>3, <2>4
  <2> QED
    BY <2>5, TableRows DEF Storables
<1> QED
  BY <1>1, <1>2

(* The last hour that begins in a window reaches its end.                  *)
LEMMA LastStep ==
  ASSUME NEW from \in Int, NEW until \in Int, from < until
  PROVE  \E t \in HourlyStarts(from, until) : t + Hour >= until
<1> DEFINE n == (until - 1 - from) \div Hour
<1>1. n \in Int /\ n * Hour =< until - 1 - from /\ until - 1 - from < n * Hour + Hour
  <2>1. PICK a \in Nat : a = until - 1 - from
    OBVIOUS
  <2>2. a \div Hour \in Int /\ (a \div Hour) * Hour =< a /\ a < (a \div Hour) * Hour + Hour
    BY HourAssumption
  <2> QED
    BY <2>1, <2>2
<1>2. n >= 0
  BY HourAssumption
<1> HIDE DEF n
<1>3. PICK m \in Int : m = n * Hour
  BY <1>1, HourAssumption
<1>4. from + n * Hour < until /\ (from + n * Hour) + Hour >= until
  BY <1>1, <1>3, HourAssumption
<1>5. from + n * Hour \in HourlyStarts(from, until)
  BY <1>1, <1>2, <1>4, IsStep
<1> QED
  BY <1>4, <1>5

LEMMA WindowCloses ==
  ASSUME NEW S, Storables(S), NEW from \in Int, NEW until \in Int, from < until, NEW now,
         ~(HourlyStarts(from, until) \subseteq S)
  PROVE  Blocking(DemandResults(DemandTable(S), from, until, now))
<1> DEFINE table == DemandTable(S)
           rows == Overlapping(table, from, until)
           window == <<from, until>>
<1>1. \A r \in table : r.current = TRUE /\ r.start \in S
  BY TableRows DEF Storables
<1> HIDE DEF table
<1>2. rows = {} => Blocking(DemandResults(table, from, until, now))
  BY <1>1, ChecksAre
<1>3. rows # {} => DemandResults(table, from, until, now) = DemandChecks(rows, window, now)
  BY <1>1, ChecksAre
<1>4. CurrentStarts(rows, window) \subseteq S
  BY <1>1 DEF CurrentStarts, Overlapping
<1> HIDE DEF rows
<1>5. Blocks(DemandContinuity(rows, window))
  <2>1. ~(HourlyStarts(window[1], window[2]) \subseteq CurrentStarts(rows, window))
    BY <1>4
  <2> QED
    BY <2>1, WhatBlocks DEF DemandContinuity, Verdict
<1>6. DemandContinuity(rows, window) \in DemandChecks(rows, window, now)
  BY DEF DemandChecks
<1>7. Blocking(DemandResults(table, from, until, now))
  BY <1>2, <1>3, <1>5, <1>6, BlockingIs
<1> QED
  BY <1>7 DEF table

LEMMA WindowOpens ==
  ASSUME NEW S, Storables(S), IsFiniteSet(S),
         NEW from \in Int, NEW until \in Int, from < until,
         HourlyStarts(from, until) \subseteq S
  PROVE  ~Blocking(DemandResults(DemandTable(S), from, until, until))
<1> DEFINE table == DemandTable(S)
           rows == Overlapping(table, from, until)
           window == <<from, until>>
<1>1. \A r \in table : r.current = TRUE /\ r.start \in Int /\ r.end \in Int
  BY TableRows DEF Storables
<1>2. \A r \in table : r.end = r.start + Hour
  BY TableRows DEF Storables
<1>3. \A s \in S : \E r \in table : r.start = s
  BY TableRows DEF Storables
<1>4. \A r \in table : r.mw = 15000 /\ r.date = SourceKey(r.start)[1] /\ r.hour = SourceKey(r.start)[2]
  BY TableLabels
<1>5. IsFiniteSet(table)
  BY TableIsFinite
<1>6. /\ \A r \in table : IesoHourEndingToUtc(r.date, r.hour) = r.end
      /\ \A r, q \in table : r.date = q.date /\ r.hour = q.hour => r = q
  BY RowsAreLabelled
<1>7. Whole(from)
  <2>1. from + 0 * Hour = from
    BY HourAssumption
  <2>2. from + 0 * Hour \in HourlyStarts(from, until)
    BY <2>1, IsStep
  <2> QED
    BY <2>1, <2>2 DEF Storables
<1>8. \A r \in rows : Within(r.start, window)
  BY <1>7, RowsBeginWithin
<1> HIDE DEF table
<1>9. \A t \in HourlyStarts(from, until) : \E r \in rows : r.start = t
  <2> SUFFICES ASSUME NEW t \in HourlyStarts(from, until) PROVE \E r \in rows : r.start = t
    OBVIOUS
  <2>1. PICK r \in table : r.start = t
    BY <1>3
  <2>2. t \in Int /\ from =< t /\ t < until
    BY DEF HourlyStarts
  <2>3. r.end = t + Hour
    BY <1>2, <2>1
  <2>4. t + Hour > from
    BY <2>2, HourAssumption
  <2> QED
    BY <2>1, <2>2, <2>3, <2>4 DEF Overlapping
<1>10. rows \subseteq table /\ IsFiniteSet(rows)
  BY <1>5, FS_Subset DEF Overlapping
<1> HIDE DEF rows
<1>11. PICK last \in HourlyStarts(from, until) : last + Hour >= until
  BY LastStep
<1>12. PICK newest \in rows : newest.start = last
  BY <1>9
<1>13. DemandResults(table, from, until, until) = DemandChecks(rows, window, until)
  BY <1>1, <1>12, ChecksAre DEF rows
<1>14. ~Blocks(UniqueDemandKeys(rows))
  <2>1. \A r, q \in Current(rows) : <<r.date, r.hour>> = <<q.date, q.hour>> => r = q
    BY <1>6, <1>10 DEF Current
  <2>2. UniqueKeys([r \in Current(rows) |-> <<r.date, r.hour>>])
    BY <2>1 DEF UniqueKeys
  <2> QED
    BY <2>2, WhatBlocks DEF UniqueDemandKeys, Verdict
<1>15. ~Blocks(DemandRange(rows))
  <2>1. \A r \in rows : r.mw >= MinDemandMw /\ r.mw =< MaxDemandMw
    BY <1>4, <1>10, SMT DEF MinDemandMw, MaxDemandMw
  <2> QED
    BY <2>1, WhatBlocks DEF DemandRange, Verdict
<1>16. ~Blocks(DemandTimestamps(rows))
  <2>1. \A r \in rows : r.end - r.start = Hour
    <3> SUFFICES ASSUME NEW r \in rows PROVE r.end - r.start = Hour
      OBVIOUS
    <3>1. PICK s \in Int : s = r.start
      BY <1>1, <1>10
    <3>2. r.end = s + Hour
      BY <1>2, <1>10, <3>1
    <3>3. (s + Hour) - s = Hour
      BY HourAssumption
    <3> QED
      BY <3>1, <3>2, <3>3
  <2> QED
    BY <2>1, WhatBlocks DEF DemandTimestamps, Verdict
<1>17. ~Blocks(DemandFreshness(rows, until))
  <2>1. newest.end = last + Hour
    BY <1>2, <1>10, <1>12
  <2>2. last \in Int
    BY DEF HourlyStarts
  <2>3. ~(until - newest.end > 30 * Hour)
    BY <1>11, <2>1, <2>2, HourAssumption
  <2> QED
    BY <1>1, <1>10, <1>12, <2>3, DemandFreshnessIs
<1>18. ~Blocks(DemandContinuity(rows, window))
  <2>1. HourlyStarts(window[1], window[2]) \subseteq CurrentStarts(rows, window)
    BY <1>1, <1>8, <1>9, <1>10 DEF CurrentStarts
  <2> QED
    BY <2>1, WhatBlocks DEF DemandContinuity, Verdict
<1>19. ~Blocks(SourceHours(rows, window))
  <2> DEFINE observed == {<<r.date, r.hour>> :
                             r \in {row \in rows : row.current /\ Within(row.start, window)}}
  <2>1. ASSUME NEW t \in HourlyStarts(from, until) PROVE SourceKey(t) \in observed
    <3>1. PICK r \in rows : r.start = t
      BY <1>9
    <3>2. SourceKey(t) = <<r.date, r.hour>>
      <4>1. r.date = SourceKey(t)[1] /\ r.hour = SourceKey(t)[2]
        BY <1>4, <1>10, <3>1
      <4>2. SourceKey(t) = <<SourceKey(t)[1], SourceKey(t)[2]>>
        BY SourceKeyIsPair
      <4> QED
        BY <4>1, <4>2
    <3>3. r.current /\ Within(r.start, window)
      BY <1>1, <1>8, <1>10
    <3> QED
      BY <3>2, <3>3
  <2>2. {SourceKey(start) : start \in HourlyStarts(window[1], window[2])} \subseteq observed
    <3> HIDE DEF observed
    <3> QED
      BY <2>1
  <2> QED
    BY <2>2, WhatBlocks DEF SourceHours, Verdict
<1>20. ~Blocks(DstAlignment(rows, window))
  <2>1. \A r \in rows : r.current /\ Within(r.start, window) =>
                    IesoHourEndingToUtc(r.date, r.hour) = r.end
    BY <1>6, <1>10
  <2> QED
    BY <2>1, WhatBlocks DEF DstAlignment, Verdict
<1>21. ~Blocking(DemandResults(table, from, until, until))
  BY <1>13, <1>14, <1>15, <1>16, <1>17, <1>18, <1>19, <1>20, BlockingIs DEF DemandChecks
<1> QED
  BY <1>21 DEF table

(* WindowsOpenWhenWhole, for any finite set of whole hours, any of them    *)
(* missing and any window that is not empty.                               *)
THEOREM WholeWindowsOpen ==
  ASSUME Starts \in SUBSET Int, IsFiniteSet(Starts), \A start \in Starts : Whole(start),
         \A w \in DemandInputs : Windowed(w)
  PROVE  Spec => []WindowsOpenWhenWhole
<1>1. Init => InputIsWindow
  BY DEF Init, InputIsWindow
<1>2. InputIsWindow /\ [Next]_vars => InputIsWindow'
  BY DEF InputIsWindow, Next, Look, vars
<1>3. InputIsWindow => WindowsOpenWhenWhole
  <2> SUFFICES ASSUME InputIsWindow, topic = "demand" PROVE WindowsOpenWhenWhole
    BY DEF WindowsOpenWhenWhole
  <2> DEFINE S == Storable \ input.missing
  <2>1. Windowed(input)
    BY DEF InputIsWindow
  <2>2. Storables(S) /\ IsFiniteSet(S)
    BY FS_Subset DEF Storable, Storables
  <2> HIDE DEF S
  <2>3. Blocking(DemandResults(DemandTable(S), input.from, input.until, input.until)) <=>
           ~(HourlyStarts(input.from, input.until) \subseteq S)
    BY <2>1, <2>2, WindowCloses, WindowOpens DEF Windowed
  <2> QED
    BY <2>3 DEF WindowsOpenWhenWhole, S
<1> QED
  BY <1>1, <1>2, <1>3, PTL DEF Spec

-----------------------------------------------------------------------------
(* Weather observations *)

(* A table of readings: one of a station and a time, none out of range.    *)
Observed(o) ==
    /\ Windowed(o) /\ IsFiniteSet(o.table)
    /\ \A r \in o.table :
          /\ r.current = TRUE /\ r.at \in Int
          /\ r.value = None \/ (r.value \in Int /\ MinReading =< r.value /\ r.value =< MaxReading)
    /\ \A r, s \in o.table : r.station = s.station /\ r.at = s.at => r = s

Seen(o) == {r \in o.table : r.at >= o.from /\ r.at < o.until}

ObservationChecks(o) ==
    {UniqueObservationKeys(Seen(o)), ObservationRanges(Seen(o)),
     ObservationFreshness(Seen(o), o.until)}
    \cup {ObservationContinuity(Seen(o), station, <<o.from, o.until>>) :
             station \in {r.station : r \in Seen(o)}}

LEMMA ObservationChecksAre ==
  ASSUME NEW o, Observed(o)
  PROVE  IF Seen(o) = {} THEN Blocking(ObservationResults(o.table, o.from, o.until, o.until))
         ELSE ObservationResults(o.table, o.from, o.until, o.until) = ObservationChecks(o)
<1> DEFINE rows == {r \in o.table : /\ o.from = None \/ r.at >= o.from
                                    /\ o.until = None \/ r.at < o.until}
           stations == {r.station : r \in Current(rows)}
           continuity(station) == ObservationContinuity(rows, station, <<o.from, o.until>>)
<1>1. o.from # None /\ o.until # None /\ <<o.from, o.until>> # None
  BY NoneAssumption DEF Observed, Windowed
<1>2. rows = Seen(o) /\ Current(rows) = rows
  BY <1>1 DEF Seen, Current, Observed
<1>3. \A starts, ends : ResolvedWindow(o.from, o.until, starts, ends) = <<o.from, o.until>>
  BY <1>1 DEF ResolvedWindow, Observed, Windowed
<1>4. \A station : StationResult(rows, station, o.from, o.until) = continuity(station)
  BY <1>1, <1>3 DEF StationResult
<1>5. rows # {} => stations # {}
  BY <1>2
<1> HIDE DEF rows
<1>6. CASE rows = {}
  <2>1. ObservationResults(o.table, o.from, o.until, o.until) = {Failed("no_rows", "critical")}
    BY <1>6 DEF ObservationResults, rows
  <2> QED
    BY <1>2, <1>6, <2>1, BlockingIs, WhatBlocks
<1>7. CASE rows # {}
  <2>1. ObservationResults(o.table, o.from, o.until, o.until) =
           {UniqueObservationKeys(rows), ObservationRanges(rows),
            ObservationFreshness(rows, o.until)}
           \cup {StationResult(rows, station, o.from, o.until) : station \in stations}
    BY <1>5, <1>7 DEF ObservationResults, rows
  <2>2. {StationResult(rows, station, o.from, o.until) : station \in stations}
           = {continuity(station) : station \in stations}
    BY <1>4
  <2> QED
    BY <1>2, <1>7, <2>1, <2>2 DEF ObservationChecks
<1> QED
  BY <1>6, <1>7

(* What a station must report to pass. *)
Reports(o) == {<<r.station, r.at>> : r \in Seen(o)}

LEMMA ContinuityIs ==
  ASSUME NEW o, Observed(o), NEW station
  PROVE  Blocks(ObservationContinuity(Seen(o), station, <<o.from, o.until>>)) <=>
            \E t \in HourlyStarts(o.from, o.until) : <<station, t>> \notin Reports(o)
<1> DEFINE window == <<o.from, o.until>>
           reported == {r.at : r \in {row \in Seen(o) : /\ row.current /\ row.station = station
                                                        /\ Within(row.at, window)}}
<1>1. ASSUME NEW t PROVE t \in reported <=> <<station, t>> \in Reports(o)
  <2>1. \A r \in Seen(o) : r.current /\ Within(r.at, window)
    BY DEF Seen, Observed, Within
  <2>2. ASSUME t \in reported PROVE <<station, t>> \in Reports(o)
    BY <2>2 DEF Reports
  <2>3. ASSUME <<station, t>> \in Reports(o) PROVE t \in reported
    <3>1. PICK r \in Seen(o) : r.station = station /\ r.at = t
      BY <2>3 DEF Reports
    <3> QED
      BY <2>1, <3>1
  <2> QED
    BY <2>2, <2>3
<1>2. window[1] = o.from /\ window[2] = o.until
  OBVIOUS
<1>3. ObservationContinuity(Seen(o), station, window) =
         IF HourlyStarts(o.from, o.until) \subseteq reported
         THEN Passed("weather_observation_continuity")
         ELSE Failed("weather_observation_continuity", "error")
  BY <1>2 DEF ObservationContinuity, Verdict
<1> HIDE DEF reported
<1>4. HourlyStarts(o.from, o.until) \subseteq reported <=>
         ~(\E t \in HourlyStarts(o.from, o.until) : <<station, t>> \notin Reports(o))
  BY <1>1
<1> QED
  BY <1>3, <1>4, WhatBlocks

(* Readings too old for the end of a window leave hours of it unreported.  *)
LEMMA StaleHasGap ==
  ASSUME NEW o, Observed(o), NEW r \in Seen(o),
         \A q \in Seen(o) : o.until - q.at > 6 * Hour
  PROVE  \E t \in HourlyStarts(o.from, o.until) : <<r.station, t>> \notin Reports(o)
<1>1. o.from \in Int /\ o.until \in Int /\ o.from < o.until
  BY DEF Observed, Windowed
<1>2. PICK t \in HourlyStarts(o.from, o.until) : t + Hour >= o.until
  BY <1>1, LastStep
<1>3. t \in Int
  BY DEF HourlyStarts
<1>4. \A q \in Seen(o) : q.at # t
  <2> SUFFICES ASSUME NEW q \in Seen(o), q.at = t PROVE FALSE
    OBVIOUS
  <2>1. o.until - t > 6 * Hour
    BY Zenon
  <2> QED
    BY <1>1, <1>2, <1>3, <2>1, HourAssumption
<1>5. <<r.station, t>> \notin Reports(o)
  BY <1>4 DEF Reports
<1> QED
  BY <1>5

LEMMA StationsAnswer ==
  ASSUME NEW o, Observed(o)
  PROVE  Blocking(ObservationResults(o.table, o.from, o.until, o.until)) <=>
            \/ Seen(o) = {}
            \/ \E r \in Seen(o), t \in HourlyStarts(o.from, o.until) :
                  <<r.station, t>> \notin Reports(o)
<1>1. CASE Seen(o) = {}
  BY <1>1, ObservationChecksAre
<1>2. CASE Seen(o) # {}
  <2>1. ObservationResults(o.table, o.from, o.until, o.until) = ObservationChecks(o)
    BY <1>2, ObservationChecksAre
  <2>2. Current(Seen(o)) = Seen(o)
    BY DEF Seen, Current, Observed
  <2>3. ~Blocks(UniqueObservationKeys(Seen(o)))
    <3>1. \A r, s \in Current(Seen(o)) : <<r.station, r.at>> = <<s.station, s.at>> => r = s
      BY <2>2 DEF Seen, Observed
    <3>2. UniqueKeys([r \in Current(Seen(o)) |-> <<r.station, r.at>>])
      BY <3>1 DEF UniqueKeys
    <3> QED
      BY <3>2, WhatBlocks DEF UniqueObservationKeys, Verdict
  <2>4. ~Blocks(ObservationRanges(Seen(o)))
    <3>1. \A r \in Seen(o) : r.value = None \/ (r.value >= MinReading /\ r.value =< MaxReading)
      BY DEF Seen, Observed, MinReading, MaxReading
    <3> QED
      BY <3>1, WhatBlocks DEF ObservationRanges, Verdict
  <2>5. Blocks(ObservationFreshness(Seen(o), o.until)) <=>
           \A r \in Seen(o) : o.until - r.at > 6 * Hour
    <3> DEFINE at == [r \in Seen(o) |-> r.at]
               times == {at[r] : r \in Seen(o)}
    <3>1. {r.at : r \in Current(Seen(o))} = times
      BY <2>2
    <3>2. /\ \A r \in Seen(o) : r.at \in times /\ r.at \in Int
          /\ \A t \in times : \E r \in Seen(o) : t = r.at
      BY DEF Seen, Observed
    <3>3. IsFiniteSet(Seen(o))
      BY FS_Subset DEF Seen, Observed
    <3> HIDE DEF at
    <3>4. IsFiniteSet(times)
      BY <3>3, FiniteImage
    <3> HIDE DEF times
    <3>5. times \in SUBSET Int
      BY <3>2
    <3>6. o.until \in Int /\ 6 * Hour \in Int
      BY HourAssumption DEF Observed, Windowed
    <3>7. Blocks(ObservationFreshness(Seen(o), o.until)) <=>
             \A t \in times : o.until - t > 6 * Hour
      BY <3>1, <3>4, <3>5, <3>6, FreshnessIs DEF ObservationFreshness
    <3> QED
      BY <3>2, <3>7
  <2>6. \A r \in Seen(o) :
           /\ ObservationContinuity(Seen(o), r.station, <<o.from, o.until>>) \in ObservationChecks(o)
           /\ Blocks(ObservationContinuity(Seen(o), r.station, <<o.from, o.until>>)) <=>
                \E t \in HourlyStarts(o.from, o.until) : <<r.station, t>> \notin Reports(o)
    BY ContinuityIs DEF ObservationChecks
  <2>7. ASSUME NEW r \in Seen(o), NEW t \in HourlyStarts(o.from, o.until),
               <<r.station, t>> \notin Reports(o)
        PROVE  Blocking(ObservationChecks(o))
    BY <2>6, <2>7, BlockingIs
  <2>8. ASSUME NEW result \in ObservationChecks(o), Blocks(result)
        PROVE  \E r \in Seen(o), t \in HourlyStarts(o.from, o.until) :
                  <<r.station, t>> \notin Reports(o)
    <3>1. CASE result = ObservationFreshness(Seen(o), o.until)
      <4>1. PICK r \in Seen(o) : TRUE
        BY <1>2
      <4> QED
        BY <2>5, <2>8, <3>1, <4>1, StaleHasGap
    <3>2. CASE \E r \in Seen(o) :
                  result = ObservationContinuity(Seen(o), r.station, <<o.from, o.until>>)
      BY <2>6, <2>8, <3>2
    <3> QED
      BY <2>3, <2>4, <2>8, <3>1, <3>2 DEF ObservationChecks
  <2> QED
    BY <1>2, <2>1, <2>7, <2>8, BlockingIs
<1> QED
  BY <1>1, <1>2

InputIsObserved == topic = "observations" => input \in Observations

(* StationsAnswerForThemselves, for any stations, readings and windows. *)
THEOREM StationsAlwaysAnswer ==
  ASSUME \A o \in Observations : Observed(o)
  PROVE  Spec => []StationsAnswerForThemselves
<1>1. Init => InputIsObserved
  BY DEF Init, InputIsObserved
<1>2. InputIsObserved /\ [Next]_vars => InputIsObserved'
  BY DEF InputIsObserved, Next, Look, vars
<1>3. InputIsObserved => StationsAnswerForThemselves
  <2> SUFFICES ASSUME InputIsObserved, topic = "observations" PROVE StationsAnswerForThemselves
    BY DEF StationsAnswerForThemselves
  <2>1. Observed(input)
    BY DEF InputIsObserved
  <2> QED
    BY <2>1, StationsAnswer DEF StationsAnswerForThemselves, Seen, Reports
<1> QED
  BY <1>1, <1>2, <1>3, PTL DEF Spec

-----------------------------------------------------------------------------
(* Weather forecasts *)

(* A table of hourly forecasts: valid times are whole hours apart. *)
Issued(table) ==
    /\ IsFiniteSet(table)
    /\ \A r \in table : r.current = TRUE /\ r.issued \in Int /\ r.valid \in Int
    /\ \A r, s \in table : \E n \in Int : r.valid = s.valid + n * Hour

Groups(table) == {<<r.series, r.issued>> : r \in table}
Valids(table, group) == {r.valid : r \in {row \in table : <<row.series, row.issued>> = group}}

(* An issue without the hours from one on is still complete. *)
LEMMA CutIsComplete ==
  ASSUME NEW V \in SUBSET Int, IsFiniteSet(V), NEW base \in Int,
         \A v \in V : \E n \in Int : v = base + n * Hour,
         NEW cut \in Int, {v \in V : v < cut} # {},
         HourlyStarts(Min(V), Max(V) + Hour) \subseteq V
  PROVE  HourlyStarts(Min({v \in V : v < cut}), Max({v \in V : v < cut}) + Hour)
            \subseteq {v \in V : v < cut}
<1> DEFINE W == {v \in V : v < cut}
<1>1. /\ W \in SUBSET Int /\ IsFiniteSet(W) /\ W # {}
      /\ \A w \in V : w \in W <=> w < cut
      /\ \A w \in W : w \in V
  BY FS_Subset
<1> HIDE DEF W
<1>2. V # {}
  BY <1>1
<1>3. PICK top \in W : top = Max(W) /\ \A w \in W : w =< top
  BY <1>1, LargestAndLeast
<1>4. PICK low \in W : low = Min(W) /\ \A w \in W : low =< w
  BY <1>1, LargestAndLeast
<1>5. PICK high \in V : high = Max(V) /\ \A v \in V : v =< high
  BY <1>2, LargestAndLeast
<1>6. PICK least \in V : least = Min(V) /\ \A v \in V : least =< v
  BY <1>2, LargestAndLeast
<1>7. least = low
  <2>1. low \in V /\ low < cut
    BY <1>1
  <2>2. least =< low
    BY <1>6, <2>1
  <2>3. least \in W
    BY <1>1, <2>1, <2>2
  <2>4. low =< least
    BY <1>4, <2>3
  <2> QED
    BY <2>1, <2>2, <2>4
<1>8. ASSUME NEW t \in HourlyStarts(low, top + Hour) PROVE t \in W
  <2>1. t \in Int /\ low =< t /\ t < top + Hour /\ (t - low) % Hour = 0
    BY <1>1, HourAssumption DEF HourlyStarts
  <2>2. top \in V /\ top \in Int /\ top =< high /\ top < cut
    BY <1>1, <1>5
  <2>3. t < high + Hour
    BY <2>1, <2>2, HourAssumption
  <2>4. t \in HourlyStarts(least, high + Hour)
    BY <1>7, <2>1, <2>3, HourAssumption DEF HourlyStarts
  <2>5. t \in V
    BY <1>5, <1>6, <2>4
  <2>6. PICK i \in Int, j \in Int : t = base + i * Hour /\ top = base + j * Hour
    BY <2>2, <2>5
  <2>7. t =< top
    <3>1. PICK a \in Int, b \in Int : a = i * Hour /\ b = j * Hour
      BY HourAssumption
    <3>2. Whole(a) /\ Whole(b)
      BY <3>1 DEF Whole
    <3>3. ~(b < a)
      <4> SUFFICES ASSUME b < a PROVE FALSE
        OBVIOUS
      <4>1. b + Hour =< a
        BY <3>2, WholeApart
      <4> QED
        BY <2>1, <2>2, <2>6, <3>1, <4>1, HourAssumption
    <3> QED
      BY <2>6, <3>1, <3>3
  <2>8. t < cut
    BY <2>1, <2>2, <2>7
  <2> QED
    BY <1>1, <2>5, <2>8
<1>9. HourlyStarts(Min(W), Max(W) + Hour) \subseteq W
  BY <1>3, <1>4, <1>8
<1> QED
  BY <1>9 DEF W

LEMMA IssueChecksAre ==
  ASSUME NEW table, Issued(table), table # {}, NEW now
  PROVE  /\ ForecastResults(table, None, None, now) =
              {UniqueForecastKeys(table), ForecastRanges(table), ForecastTimestamps(table),
               ForecastFreshness(table, now)}
              \cup {IssueResult(table, group) : group \in Groups(table)}
         /\ Current(table) = table
         /\ \A group : IssueResult(table, group) =
              Verdict("weather_forecast_valid_time_completeness",
                      HourlyStarts(Min(Valids(table, group)), Max(Valids(table, group)) + Hour)
                          \subseteq Valids(table, group))
<1>1. Current(table) = table
  BY DEF Current, Issued
<1>2. \A group : {row \in table : row.current /\ <<row.series, row.issued>> = group}
                    = {row \in table : <<row.series, row.issued>> = group}
  BY DEF Issued
<1>3. \A group : IssueResult(table, group) =
              Verdict("weather_forecast_valid_time_completeness",
                      HourlyStarts(Min(Valids(table, group)), Max(Valids(table, group)) + Hour)
                          \subseteq Valids(table, group))
  BY <1>2 DEF IssueResult, Valids
<1>4. {<<r.series, r.issued>> : r \in Current(table)} = Groups(table) /\ Groups(table) # {}
  BY <1>1 DEF Groups
<1>5. {r \in table : /\ None = None \/ r.valid >= None
                     /\ None = None \/ r.valid < None} = table
  OBVIOUS
<1>6. ForecastResults(table, None, None, now) =
              {UniqueForecastKeys(table), ForecastRanges(table), ForecastTimestamps(table),
               ForecastFreshness(table, now)}
              \cup {IssueResult(table, group) : group \in Groups(table)}
  BY <1>4, <1>5 DEF ForecastResults
<1> QED
  BY <1>1, <1>3, <1>6

(* What it takes for a table to pass. *)
Passes(table, now) ==
    /\ \A r, s \in table : <<r.series, r.issued, r.valid>> = <<s.series, s.issued, s.valid>> => r = s
    /\ \A r \in table : r.value >= MinForecastValue /\ r.value =< MaxForecastValue
    /\ \A r \in table : /\ r.valid > r.issued
                        /\ r.lead # None => r.valid - r.issued = r.lead * Hour
    /\ \E r \in table : ~(now - r.issued > 24 * Hour)
    /\ \A group \in Groups(table) :
          HourlyStarts(Min(Valids(table, group)), Max(Valids(table, group)) + Hour)
              \subseteq Valids(table, group)

LEMMA PassingIs ==
  ASSUME NEW table, Issued(table), table # {}, NEW now \in Int
  PROVE  ~Blocking(ForecastResults(table, None, None, now)) <=> Passes(table, now)
<1>1. Current(table) = table
  BY IssueChecksAre
<1>2. Blocks(UniqueForecastKeys(table)) <=>
         ~(\A r, s \in table : <<r.series, r.issued, r.valid>> = <<s.series, s.issued, s.valid>> => r = s)
  <2>1. UniqueKeys([r \in Current(table) |-> <<r.series, r.issued, r.valid>>]) <=>
         (\A r, s \in table : <<r.series, r.issued, r.valid>> = <<s.series, s.issued, s.valid>> => r = s)
    BY <1>1 DEF UniqueKeys
  <2> QED
    BY <2>1, WhatBlocks DEF UniqueForecastKeys, Verdict
<1>3. Blocks(ForecastRanges(table)) <=>
         ~(\A r \in table : r.value >= MinForecastValue /\ r.value =< MaxForecastValue)
  BY WhatBlocks DEF ForecastRanges, Verdict
<1>4. Blocks(ForecastTimestamps(table)) <=>
         ~(\A r \in table : /\ r.valid > r.issued
                            /\ r.lead # None => r.valid - r.issued = r.lead * Hour)
  BY WhatBlocks DEF ForecastTimestamps, Verdict
<1>5. Blocks(ForecastFreshness(table, now)) <=> \A r \in table : now - r.issued > 24 * Hour
  <2> DEFINE issued == [r \in table |-> r.issued]
             times == {issued[r] : r \in table}
  <2>1. {r.issued : r \in Current(table)} = times
    BY <1>1
  <2>2. /\ \A r \in table : r.issued \in times /\ r.issued \in Int
        /\ \A t \in times : \E r \in table : t = r.issued
    BY DEF Issued
  <2> HIDE DEF issued
  <2>3. IsFiniteSet(times)
    BY FiniteImage DEF Issued
  <2> HIDE DEF times
  <2>4. times \in SUBSET Int
    BY <2>2
  <2>5. 24 * Hour \in Int
    BY HourAssumption
  <2>6. Blocks(ForecastFreshness(table, now)) <=> \A t \in times : now - t > 24 * Hour
    BY <2>1, <2>3, <2>4, <2>5, FreshnessIs DEF ForecastFreshness
  <2> QED
    BY <2>2, <2>6
<1>6. \A group : Blocks(IssueResult(table, group)) <=>
         ~(HourlyStarts(Min(Valids(table, group)), Max(Valids(table, group)) + Hour)
              \subseteq Valids(table, group))
  <2> SUFFICES ASSUME NEW group
               PROVE  Blocks(IssueResult(table, group)) <=>
                        ~(HourlyStarts(Min(Valids(table, group)), Max(Valids(table, group)) + Hour)
                             \subseteq Valids(table, group))
    OBVIOUS
  <2>1. IssueResult(table, group) =
              Verdict("weather_forecast_valid_time_completeness",
                      HourlyStarts(Min(Valids(table, group)), Max(Valids(table, group)) + Hour)
                          \subseteq Valids(table, group))
    BY IssueChecksAre
  <2> QED
    BY <2>1, WhatBlocks DEF Verdict
<1>7. Blocking(ForecastResults(table, None, None, now)) <=>
         \/ Blocks(UniqueForecastKeys(table)) \/ Blocks(ForecastRanges(table))
         \/ Blocks(ForecastTimestamps(table)) \/ Blocks(ForecastFreshness(table, now))
         \/ \E group \in Groups(table) : Blocks(IssueResult(table, group))
  <2>1. ForecastResults(table, None, None, now) =
              {UniqueForecastKeys(table), ForecastRanges(table), ForecastTimestamps(table),
               ForecastFreshness(table, now)}
              \cup {IssueResult(table, group) : group \in Groups(table)}
    BY IssueChecksAre
  <2> QED
    BY <2>1, BlockingIs
<1> QED
  BY <1>2, <1>3, <1>4, <1>5, <1>6, <1>7 DEF Passes

(* A table without the far end of one issue. *)
CutOff(table, cut) ==
    {r \in table : <<r.series, r.issued>> # <<cut.series, cut.issued>> \/ r.valid < cut.valid}

LEMMA CutPasses ==
  ASSUME NEW table, Issued(table), NEW now \in Int, NEW cut \in table,
         ~Blocking(ForecastResults(table, None, None, now)),
         NEW newest \in CutOff(table, cut), newest.issued = Max({q.issued : q \in table})
  PROVE  ~Blocking(ForecastResults(CutOff(table, cut), None, None, now))
<1> DEFINE rest == CutOff(table, cut)
           key == <<cut.series, cut.issued>>
<1>1. rest \subseteq table /\ rest # {} /\ table # {}
  BY DEF CutOff
<1>2. Issued(rest)
  BY <1>1, FS_Subset DEF Issued
<1>3. Passes(table, now)
  BY <1>1, PassingIs
<1>4. \E r \in rest : ~(now - r.issued > 24 * Hour)
  <2> DEFINE issued == [r \in table |-> r.issued]
             times == {issued[r] : r \in table}
  <2>1. times = {q.issued : q \in table} /\ \A q \in table : q.issued \in times /\ q.issued \in Int
    BY DEF Issued
  <2>2. \A t \in times : \E r \in table : t = r.issued
    OBVIOUS
  <2> HIDE DEF issued
  <2>3. IsFiniteSet(times)
    BY FiniteImage DEF Issued
  <2> HIDE DEF times
  <2>4. times \in SUBSET Int /\ times # {}
    BY <1>1, <2>1, <2>2
  <2>5. \A t \in times : t =< newest.issued
    BY <2>1, <2>3, <2>4, LargestAndLeast
  <2>6. PICK r \in table : ~(now - r.issued > 24 * Hour)
    BY <1>3 DEF Passes
  <2>7. r.issued =< newest.issued /\ r.issued \in Int /\ newest.issued \in Int
    BY <1>1, <2>1, <2>5
  <2>8. ~(now - newest.issued > 24 * Hour)
    BY <2>6, <2>7, HourAssumption
  <2> QED
    BY <2>8
<1>5. ASSUME NEW group \in Groups(rest)
      PROVE  HourlyStarts(Min(Valids(rest, group)), Max(Valids(rest, group)) + Hour)
                \subseteq Valids(rest, group)
  <2>1. group \in Groups(table)
    BY <1>1, <1>5 DEF Groups
  <2>2. HourlyStarts(Min(Valids(table, group)), Max(Valids(table, group)) + Hour)
                \subseteq Valids(table, group)
    BY <1>3, <2>1 DEF Passes
  <2>3. CASE group # key
    <3>1. \A r \in table : <<r.series, r.issued>> = group => r \in rest
      BY <2>3 DEF CutOff
    <3>2. Valids(rest, group) = Valids(table, group)
      BY <1>1, <3>1 DEF Valids
    <3> QED
      BY <2>2, <3>2
  <2>4. CASE group = key
    <3> DEFINE V == Valids(table, group)
    <3>1. Valids(rest, group) = {v \in V : v < cut.valid}
      BY <2>4 DEF Valids, CutOff
    <3>2. Valids(rest, group) # {}
      BY <1>5 DEF Valids, Groups
    <3>3. V \in SUBSET Int
      BY DEF Valids, Issued
    <3>4. IsFiniteSet(V)
      <4> DEFINE ofGroup == {row \in table : <<row.series, row.issued>> = group}
                 valid == [r \in ofGroup |-> r.valid]
      <4>1. IsFiniteSet(ofGroup)
        BY FS_Subset DEF Issued
      <4>2. V = {valid[r] : r \in ofGroup}
        BY DEF Valids
      <4> HIDE DEF ofGroup, valid
      <4> QED
        BY <4>1, <4>2, FiniteImage
    <3>5. ASSUME NEW v \in V PROVE \E n \in Int : v = cut.valid + n * Hour
      <4>1. PICK r \in table : r.valid = v /\ <<r.series, r.issued>> = group
        BY DEF Valids
      <4> QED
        BY <4>1 DEF Issued
    <3>6. cut.valid \in Int
      BY DEF Issued
    <3> HIDE DEF V
    <3>7. HourlyStarts(Min(V), Max(V) + Hour) \subseteq V
      BY <2>2 DEF V
    <3>8. HourlyStarts(Min({v \in V : v < cut.valid}), Max({v \in V : v < cut.valid}) + Hour)
            \subseteq {v \in V : v < cut.valid}
      BY <3>1, <3>2, <3>3, <3>4, <3>5, <3>6, <3>7, CutIsComplete
    <3> QED
      BY <3>1, <3>8
  <2> QED
    BY <2>3, <2>4
<1>6. Passes(rest, now)
  <2> HIDE DEF rest
  <2>1. /\ \A r, s \in rest : <<r.series, r.issued, r.valid>> = <<s.series, s.issued, s.valid>> => r = s
        /\ \A r \in rest : r.value >= MinForecastValue /\ r.value =< MaxForecastValue
        /\ \A r \in rest : /\ r.valid > r.issued
                           /\ r.lead # None => r.valid - r.issued = r.lead * Hour
    BY <1>1, <1>3 DEF Passes
  <2> QED
    BY <1>4, <1>5, <2>1 DEF Passes
<1> QED
  BY <1>1, <1>2, <1>6, PassingIs

InputIsIssued == topic = "issues" => input \in IssueTables

(* ShortIssuesPass, for any table of forecasts. *)
THEOREM ShortIssuesAlwaysPass ==
  ASSUME \A i \in IssueTables : Issued(i.table) /\ i.now \in Int
  PROVE  Spec => []ShortIssuesPass
<1>1. Init => InputIsIssued
  BY DEF Init, InputIsIssued
<1>2. InputIsIssued /\ [Next]_vars => InputIsIssued'
  BY DEF InputIsIssued, Next, Look, vars
<1>3. InputIsIssued => ShortIssuesPass
  <2> SUFFICES ASSUME InputIsIssued, topic = "issues" PROVE ShortIssuesPass
    BY DEF ShortIssuesPass
  <2>1. Issued(input.table) /\ input.now \in Int
    BY DEF InputIsIssued
  <2> QED
    BY <2>1, CutPasses DEF ShortIssuesPass, CutOff
<1> QED
  BY <1>1, <1>2, <1>3, PTL DEF Spec

-----------------------------------------------------------------------------
(* The days of the clock *)

(* What the offsets of the two halves of the year read. *)
Summer(local) == SpringForward =< local + 4 * Hour /\ local + 4 * Hour < FallBack
Winter(local) == local + 5 * Hour < SpringForward \/ FallBack =< local + 5 * Hour

LEMMA ReadAs ==
  ASSUME NEW local \in Int
  PROVE  /\ Nonexistent(local) <=> ~Summer(local) /\ ~Winter(local)
         /\ Ambiguous(local) <=> Summer(local) /\ Winter(local)
         /\ TorontoToUtc(local, None) =
              IF Summer(local) /\ ~Winter(local) THEN local + 4 * Hour
              ELSE IF Winter(local) /\ ~Summer(local) THEN local + 5 * Hour
              ELSE None
<1> DEFINE early == local + 4 * Hour
           late == local + 5 * Hour
<1>1. early \in Int /\ late \in Int /\ early # late /\ SpringForward \in Int /\ FallBack \in Int
  BY HourAssumption, DaylightAssumption
<1>2. Readings(local) \subseteq {early, late}
  BY DEF Readings
<1>3. early \in Readings(local) <=> Summer(local)
  <2>1. ToToronto(early) = local <=> Offset(early) = 4 * Hour
    BY <1>1, HourAssumption DEF ToToronto, Offset
  <2>2. Offset(early) = 4 * Hour <=> Summer(local)
    BY <1>1, HourAssumption DEF Offset, Summer
  <2> QED
    BY <2>1, <2>2 DEF Readings
<1>4. late \in Readings(local) <=> Winter(local)
  <2>1. ToToronto(late) = local <=> Offset(late) = 5 * Hour
    BY <1>1, HourAssumption DEF ToToronto, Offset
  <2>2. Offset(late) = 5 * Hour <=> Winter(local)
    BY <1>1, HourAssumption DEF Offset, Winter
  <2> QED
    BY <2>1, <2>2 DEF Readings
<1> HIDE DEF early, late
<1>5. Nonexistent(local) <=> ~Summer(local) /\ ~Winter(local)
  BY <1>2, <1>3, <1>4 DEF Nonexistent
<1>6. Ambiguous(local) <=> Summer(local) /\ Winter(local)
  BY <1>3, <1>4 DEF Ambiguous, early, late
<1>7. None \notin {0, 1}
  BY NoneAssumption
<1>8. TorontoToUtc(local, None) = IF Nonexistent(local) \/ Ambiguous(local) THEN None
                                  ELSE CHOOSE t \in Readings(local) : TRUE
  BY <1>7 DEF TorontoToUtc
<1>9. ASSUME Summer(local), ~Winter(local) PROVE TorontoToUtc(local, None) = early
  <2>1. Readings(local) = {early}
    BY <1>2, <1>3, <1>4, <1>9
  <2> QED
    BY <1>5, <1>6, <1>8, <1>9, <2>1
<1>10. ASSUME ~Summer(local), Winter(local) PROVE TorontoToUtc(local, None) = late
  <2>1. Readings(local) = {late}
    BY <1>2, <1>3, <1>4, <1>10
  <2> QED
    BY <1>5, <1>6, <1>8, <1>10, <2>1
<1> QED
  BY <1>5, <1>6, <1>8, <1>9, <1>10 DEF early, late

(* The readings of the clock, hour by hour from midnight. *)
LEMMA ByTheHour ==
  ASSUME NEW midnight \in Int
  PROVE  /\ \A h \in Int : midnight + h * Hour \in Int
         /\ \A h \in Int : midnight + (h + 1) * Hour = midnight + h * Hour + Hour
         /\ \A h, g \in Int : h =< g => midnight + h * Hour =< midnight + g * Hour
         /\ midnight + 0 * Hour = midnight
<1>1. \A h \in Int : h * Hour \in Int /\ (h + 1) * Hour = h * Hour + Hour
  BY HourAssumption
<1>2. ASSUME NEW h \in Int, NEW g \in Int, h =< g
      PROVE  midnight + h * Hour =< midnight + g * Hour
  <2>1. (g - h) * Hour >= 0
    BY <1>2, HourAssumption
  <2>2. (g - h) * Hour = g * Hour - h * Hour
    BY HourAssumption
  <2> QED
    BY <1>1, <2>1, <2>2
<1>3. 0 * Hour = 0
  BY HourAssumption
<1>4. \A h \in Int : midnight + (h + 1) * Hour = midnight + h * Hour + Hour
  <2> SUFFICES ASSUME NEW h \in Int
               PROVE  midnight + (h + 1) * Hour = midnight + h * Hour + Hour
    OBVIOUS
  <2>1. PICK p \in Int : p = h * Hour /\ (h + 1) * Hour = p + Hour
    BY <1>1
  <2> QED
    BY <2>1, HourAssumption
<1> QED
  BY <1>1, <1>2, <1>3, <1>4

(* Of the hours of a day that have a property, if the first has not, one   *)
(* is the first that has.                                                  *)
LEMMA FirstHour ==
  ASSUME NEW H \in SUBSET (0..24), H # {}, 0 \notin H
  PROVE  \E h \in H : h \in 1..24 /\ h - 1 \in 0..23 /\ h - 1 \notin H /\ \A g \in H : h =< g
<1>1. IsFiniteSet(H)
  <2>1. IsFiniteSet(0..24)
    <3>1. 0 \in Int /\ 24 \in Int
      OBVIOUS
    <3> QED
      BY <3>1, FS_Interval
  <2> QED
    BY <2>1, FS_Subset
<1>2. PICK h \in H : \A g \in H : h =< g
  BY <1>1, FiniteHasMin
<1>3. h \in 1..24
  <2>1. h # 0 /\ h \in 0..24
    OBVIOUS
  <2> QED
    BY <2>1
<1>4. h - 1 \notin H
  BY <1>2, <1>3
<1> QED
  BY <1>2, <1>3, <1>4

(* The hours of n hours. *)
LEMMA HoursFrom ==
  ASSUME NEW a \in Int, NEW n \in Nat
  PROVE  HourlyStarts(a, a + n * Hour) = {a + j * Hour : j \in 0..(n - 1)}
<1>0. n * Hour \in Int
  BY HourAssumption
<1>1. ASSUME NEW t \in HourlyStarts(a, a + n * Hour)
      PROVE  t \in {a + j * Hour : j \in 0..(n - 1)}
  <2>1. PICK j \in Nat : t = a + j * Hour
    BY <1>0, StepsAreWhole
  <2>2. t \in Int /\ t < a + n * Hour
    BY <1>0 DEF HourlyStarts
  <2>3. j < n
    <3> SUFFICES ASSUME ~(j < n) PROVE FALSE
      OBVIOUS
    <3>0. n \in Int /\ j \in Int /\ n =< j
      OBVIOUS
    <3>1. a + n * Hour =< a + j * Hour
      BY <3>0, ByTheHour
    <3> QED
      BY <1>0, <2>1, <2>2, <3>1
  <2> QED
    BY <2>1, <2>3
<1>2. ASSUME NEW j \in 0..(n - 1)
      PROVE  a + j * Hour \in HourlyStarts(a, a + n * Hour)
  <2>0. j + 1 \in Int /\ n \in Int /\ j + 1 =< n
    OBVIOUS
  <2>1. a + (j + 1) * Hour =< a + n * Hour
    BY <2>0, ByTheHour
  <2>2. a + (j + 1) * Hour = a + j * Hour + Hour
    BY ByTheHour
  <2>3. a + j * Hour \in Int
    BY ByTheHour
  <2>4. a + j * Hour < a + n * Hour
    BY <1>0, <2>1, <2>2, <2>3, HourAssumption
  <2> QED
    BY <1>0, <2>4, IsStep
<1> QED
  BY <1>1, <1>2

(* The hours of a day that is all of one season.                           *)
LEMMA SeasonHours ==
  ASSUME NEW midnight \in Int, NEW offset \in Int
  PROVE  {midnight + h * Hour + offset - Hour : h \in 1..24} =
            HourlyStarts(midnight + offset, midnight + Day + offset)
<1> DEFINE a == midnight + offset
<1>1. a \in Int /\ 24 \in Nat /\ 24 - 1 = 23 /\ Hour \in Int
  BY HourAssumption
<1>2. midnight + Day + offset = a + 24 * Hour
  BY HourAssumption DEF Day
<1>3. HourlyStarts(a, a + 24 * Hour) = {a + j * Hour : j \in 0..23}
  <2> HIDE DEF a
  <2> QED
    BY <1>1, HoursFrom
<1>4. \A h \in 1..24 : h - 1 \in 0..23 /\ midnight + h * Hour + offset - Hour = a + (h - 1) * Hour
  <2> SUFFICES ASSUME NEW h \in 1..24
               PROVE  h - 1 \in 0..23 /\ midnight + h * Hour + offset - Hour = a + (h - 1) * Hour
    OBVIOUS
  <2>1. PICK p \in Int : p = h * Hour /\ (h - 1) * Hour = p - Hour
    BY <1>1
  <2> QED
    BY <1>1, <2>1
<1>5. \A j \in 0..23 : j + 1 \in 1..24 /\ (j + 1) - 1 = j
  OBVIOUS
<1> HIDE DEF a
<1>6. {midnight + h * Hour + offset - Hour : h \in 1..24} = {a + j * Hour : j \in 0..23}
  <2>1. ASSUME NEW j \in 0..23
        PROVE  a + j * Hour \in {midnight + h * Hour + offset - Hour : h \in 1..24}
    <3>1. midnight + (j + 1) * Hour + offset - Hour = a + j * Hour
      BY <1>4, <1>5
    <3> QED
      BY <1>5, <3>1
  <2> QED
    BY <1>4, <2>1
<1> QED
  BY <1>2, <1>3, <1>6 DEF a

(* A day on which no hour repeats, and whose midnights are read once: it   *)
(* is all of one season, or turns from winter to summer at one hour, which *)
(* is skipped.                                                             *)
LEMMA DayIsPlain ==
  ASSUME NEW midnight \in Int,
         \A h \in 0..24 : ~Ambiguous(midnight + h * Hour),
         ~Nonexistent(midnight), ~Nonexistent(midnight + 24 * Hour)
  PROVE  LET Local(h) == midnight + h * Hour
         IN  \/ \A h \in 0..24 : Summer(Local(h)) /\ ~Winter(Local(h))
             \/ \A h \in 0..24 : Winter(Local(h)) /\ ~Summer(Local(h))
             \/ \E skipped \in 1..23 :
                   /\ \A h \in 0..(skipped - 1) : Winter(Local(h)) /\ ~Summer(Local(h))
                   /\ ~Winter(Local(skipped)) /\ ~Summer(Local(skipped))
                   /\ \A h \in (skipped + 1)..24 : Summer(Local(h)) /\ ~Winter(Local(h))
<1> DEFINE Local(h) == midnight + h * Hour
           S == SpringForward
           F == FallBack
<1>0. S \in Int /\ F \in Int /\ S + 2 * Hour =< F /\ Hour \in Int /\ Hour > 0
  BY DaylightAssumption, HourAssumption
<1>1. /\ \A h \in Int : Local(h) \in Int
      /\ \A h \in Int : Local(h + 1) = Local(h) + Hour
      /\ \A h, g \in Int : h =< g => Local(h) =< Local(g)
      /\ Local(0) = midnight
  BY ByTheHour
<1>2. \A h \in 0..24 : ~(Summer(Local(h)) /\ Winter(Local(h)))
  <2>1. \A h \in 0..24 : Local(h) \in Int
    BY <1>1
  <2> QED
    BY <2>1, ReadAs
<1>3. /\ Summer(Local(0)) \/ Winter(Local(0))
      /\ Summer(Local(24)) \/ Winter(Local(24))
  <2>1. ~Nonexistent(Local(0)) /\ ~Nonexistent(Local(24))
    BY <1>1
  <2>2. Local(0) \in Int /\ Local(24) \in Int
    BY <1>1
  <2> HIDE DEF Local
  <2> QED
    BY <2>1, <2>2, ReadAs
<1> HIDE DEF Local
<1>a. ASSUME NEW h \in 0..24
      PROVE  Local(h) \in Int /\ Local(0) \in Int /\ Local(0) =< Local(h)
  <2>1. h \in Int /\ 0 \in Int /\ 0 =< h
    OBVIOUS
  <2> QED
    BY <1>1, <2>1
<1>4. ASSUME Local(0) + 4 * Hour < F
      PROVE  \A h \in 0..24 : Local(h) + 5 * Hour < F
  <2> DEFINE H == {h \in 0..24 : Local(h) + 5 * Hour >= F}
  <2>1. \A h \in 0..24 : Local(h) + 4 * Hour < F
    <3> DEFINE G == {h \in 0..24 : Local(h) + 4 * Hour >= F}
    <3>1. 0 \notin G
      BY <1>0, <1>1, <1>4
    <3>2. ASSUME G # {} PROVE FALSE
      <4> HIDE DEF G
      <4>a. G \in SUBSET (0..24)
        BY DEF G
      <4>1. PICK h \in G : h \in 1..24 /\ h - 1 \in 0..23 /\ h - 1 \notin G
        BY <3>1, <3>2, <4>a, FirstHour
      <4>2. Local(h) = Local(h - 1) + Hour
        <5>1. h - 1 \in Int /\ (h - 1) + 1 = h
          BY <4>1
        <5> QED
          BY <1>1, <5>1
      <4>3. Local(h - 1) \in Int /\ Local(h) \in Int
        BY <1>1, <4>1
      <4>4. Local(h) + 4 * Hour >= F /\ ~(Local(h - 1) + 4 * Hour >= F)
        BY <4>1 DEF G
      <4>5. Summer(Local(h - 1)) /\ Winter(Local(h - 1))
        BY <1>0, <4>2, <4>3, <4>4 DEF Summer, Winter
      <4> QED
        BY <1>2, <4>1, <4>5
    <3>3. \A h \in 0..24 : Local(h) \in Int
      BY <1>a
    <3> QED
      BY <1>0, <3>2, <3>3
  <2>2. ASSUME NEW h \in 0..24 PROVE Local(h) + 5 * Hour < F
    <3>1. Local(h) \in Int /\ Local(h) + 4 * Hour < F
      BY <1>a, <2>1
    <3>2. Summer(Local(h)) => ~Winter(Local(h))
      BY <1>2
    <3> QED
      BY <1>0, <3>1, <3>2 DEF Summer, Winter
  <2> QED
    BY <2>2
<1>5. CASE Summer(Local(0))
  <2>1. Local(0) + 4 * Hour < F /\ S =< Local(0) + 4 * Hour
    BY <1>5 DEF Summer
  <2>2. \A h \in 0..24 : Local(h) + 5 * Hour < F
    BY <1>4, <2>1
  <2>3. ASSUME NEW h \in 0..24 PROVE Summer(Local(h)) /\ ~Winter(Local(h))
    <3>1. Local(0) =< Local(h) /\ Local(h) \in Int /\ Local(0) \in Int
      BY <1>a
    <3>2. Local(h) + 5 * Hour < F
      BY <2>2
    <3> QED
      BY <1>0, <2>1, <3>1, <3>2 DEF Summer, Winter
  <2> QED
    BY <2>3 DEF Local
<1>6. CASE ~Summer(Local(0)) /\ F =< Local(0) + 5 * Hour
  <2>0. Local(0) \in Int
    BY <1>1
  <2>1. F =< Local(0) + 4 * Hour
    BY <1>0, <1>6, <2>0 DEF Summer
  <2>2. ASSUME NEW h \in 0..24 PROVE Winter(Local(h)) /\ ~Summer(Local(h))
    <3>1. Local(0) =< Local(h) /\ Local(h) \in Int
      BY <1>a
    <3> QED
      BY <1>0, <1>6, <2>0, <2>1, <3>1 DEF Summer, Winter
  <2> QED
    BY <2>2 DEF Local
<1>7. CASE ~Summer(Local(0)) /\ ~(F =< Local(0) + 5 * Hour)
  <2>0. Local(0) \in Int
    BY <1>1
  <2>1. Local(0) + 5 * Hour < S
    BY <1>0, <1>3, <1>7, <2>0 DEF Winter
  <2>2. \A h \in 0..24 : Local(h) + 5 * Hour < F
    BY <1>0, <1>4, <2>0, <2>1
  <2> DEFINE H == {h \in 0..24 : Local(h) + 5 * Hour >= S}
  <2>3. 0 \notin H
    BY <1>0, <2>0, <2>1
  <2>4. CASE H = {}
    <3>1. ASSUME NEW h \in 0..24 PROVE Winter(Local(h)) /\ ~Summer(Local(h))
      <4>1. Local(h) \in Int /\ ~(Local(h) + 5 * Hour >= S)
        BY <1>a, <2>4
      <4> QED
        BY <1>0, <4>1 DEF Summer, Winter
    <3> QED
      BY <3>1 DEF Local
  <2>5. CASE H # {}
    <3>a. H \in SUBSET (0..24)
      OBVIOUS
    <3>b. \A h \in 0..24 : h \in H <=> Local(h) + 5 * Hour >= S
      OBVIOUS
    <3> HIDE DEF H
    <3>1. PICK k \in H : k \in 1..24 /\ k - 1 \in 0..23 /\ k - 1 \notin H /\ \A g \in H : k =< g
      BY <2>3, <2>5, <3>a, FirstHour
    <3>2. Local(k) = Local(k - 1) + Hour
      <4>1. k - 1 \in Int /\ (k - 1) + 1 = k
        BY <3>1
      <4> QED
        BY <1>1, <4>1
    <3>3. Local(k - 1) \in Int /\ Local(k) \in Int
      BY <1>1, <3>1
    <3>4. Local(k) + 5 * Hour >= S /\ ~(Local(k - 1) + 5 * Hour >= S)
      BY <3>1, <3>b
    <3>5. Local(k) + 4 * Hour < S
      BY <1>0, <3>2, <3>3, <3>4
    <3>6. ~Winter(Local(k)) /\ ~Summer(Local(k))
      <4>1. Local(k) + 5 * Hour < F
        BY <2>2, <3>1
      <4> QED
        BY <1>0, <3>3, <3>4, <3>5, <4>1 DEF Summer, Winter
    <3>7. k \in 1..23
      <4>1. k # 24
        BY <1>3, <3>6
      <4> QED
        BY <3>1, <4>1
    <3>8. ASSUME NEW h \in 0..(k - 1) PROVE Winter(Local(h)) /\ ~Summer(Local(h))
      <4>1. h \in 0..24 /\ h < k
        BY <3>7
      <4>2. h \notin H
        BY <3>1, <4>1
      <4>3. Local(h) \in Int /\ ~(Local(h) + 5 * Hour >= S)
        BY <1>a, <3>b, <4>1, <4>2
      <4> QED
        BY <1>0, <4>3 DEF Summer, Winter
    <3>9. ASSUME NEW h \in (k + 1)..24 PROVE Summer(Local(h)) /\ ~Winter(Local(h))
      <4>1. h \in 0..24 /\ k + 1 =< h /\ k + 1 \in Int /\ h \in Int
        BY <3>7
      <4>2. Local(k + 1) = Local(k) + Hour /\ Local(k + 1) =< Local(h)
        BY <1>1, <3>7, <4>1
      <4>3. Local(h) \in Int /\ Local(h) + 5 * Hour < F
        BY <1>1, <2>2, <4>1
      <4> QED
        BY <1>0, <3>3, <3>4, <4>2, <4>3 DEF Summer, Winter
    <3> QED
      BY <3>6, <3>7, <3>8, <3>9 DEF Local
  <2> QED
    BY <2>4, <2>5
<1> QED
  BY <1>5, <1>6, <1>7

(* A label of a day is placed exactly when the clock reads it once.        *)
LEMMA LabelIsPlaced ==
  ASSUME NEW date \in Int, NEW h \in 1..24
  PROVE  LET local == date * Day + h * Hour
         IN  /\ IesoHourEndingToUtc(date, h) = TorontoToUtc(local, None)
             /\ IesoHourEndingToUtc(date, h) = None <=> Nonexistent(local) \/ Ambiguous(local)
             /\ IesoHourEndingToUtc(date, h) # None => IesoHourEndingToUtc(date, h) \in Int
<1> DEFINE local == date * Day + h * Hour
<1>1. local \in Int /\ local + 4 * Hour \in Int /\ local + 5 * Hour \in Int
  BY HourAssumption DEF Day
<1>2. IesoHourEndingToUtc(date, h) = TorontoToUtc(local, None)
  BY DEF IesoHourEndingToUtc
<1> HIDE DEF local
<1>3. TorontoToUtc(local, None) = None <=> Nonexistent(local) \/ Ambiguous(local)
  BY <1>1, ReadAs, NoneAssumption
<1>4. TorontoToUtc(local, None) # None => TorontoToUtc(local, None) \in Int
  BY <1>1, ReadAs
<1> QED
  BY <1>2, <1>3, <1>4 DEF local

(* The rows a payload is parsed into are not the answer that it is refused.*)
RowsAreAnAnswer == None \notin SUBSET [date : Int, hour : Int, start : Int, end : Int, mw : Int]

(* What the parser makes of labels of one day.                             *)
LEMMA LabelsParse ==
  ASSUME RowsAreAnAnswer, NEW date \in Int, NEW hours \in SUBSET (1..24)
  PROVE  LET parsed == ParseDemand({<<date, hour>> : hour \in hours}, 0)
             placed(h) == IesoHourEndingToUtc(date, h)
         IN  /\ parsed = None <=> \E h \in hours : placed(h) = None
             /\ (\A h \in hours : placed(h) # None) =>
                   {r.start : r \in parsed} = {placed(h) - Hour : h \in hours}
<1> DEFINE labels == {<<date, hour>> : hour \in hours}
           parsed == ParseDemand(labels, 0)
           placed(h) == IesoHourEndingToUtc(date, h)
           rows == {ParsedDemand(label[1], label[2], 0) : label \in labels}
<1>1. \A h \in hours : <<date, h>>[1] = date /\ <<date, h>>[2] = h
  OBVIOUS
<1>2. (\E label \in labels : IesoHourEndingToUtc(label[1], label[2]) = None)
         <=> \E h \in hours : placed(h) = None
  BY <1>1
<1>3. parsed = IF \E h \in hours : placed(h) = None THEN None ELSE rows
  BY <1>2 DEF ParseDemand
<1>4. rows = {ParsedDemand(date, h, 0) : h \in hours}
  BY <1>1
<1>5. ASSUME \A h \in hours : placed(h) # None
      PROVE  parsed # None /\ {r.start : r \in parsed} = {placed(h) - Hour : h \in hours}
  <2>1. \A h \in hours : placed(h) \in Int /\ h \in Int
    BY <1>5, LabelIsPlaced
  <2>2. \A h \in hours : ParsedDemand(date, h, 0).start = placed(h) - Hour
    BY DEF ParsedDemand
  <2>3. \A h \in hours :
          ParsedDemand(date, h, 0) \in [date : Int, hour : Int, start : Int, end : Int, mw : Int]
    <3> SUFFICES ASSUME NEW h \in hours
                 PROVE  ParsedDemand(date, h, 0)
                          \in [date : Int, hour : Int, start : Int, end : Int, mw : Int]
      OBVIOUS
    <3>1. placed(h) \in Int /\ placed(h) - Hour \in Int /\ h \in Int /\ 0 \in Int
      BY <2>1, HourAssumption
    <3> QED
      BY <3>1 DEF ParsedDemand
  <2>4. rows \in SUBSET [date : Int, hour : Int, start : Int, end : Int, mw : Int]
    BY <1>4, <2>3
  <2>5. rows # None
    BY <2>4 DEF RowsAreAnAnswer
  <2>6. parsed = rows
    BY <1>3, <1>5
  <2> HIDE DEF parsed, rows, placed
  <2> QED
    BY <1>4, <2>2, <2>5, <2>6
<1> QED
  BY <1>3, <1>5

(* The midnights a day lies between.                                       *)
MidnightsOnce(date) ==
    \A midnight \in {date * Day, date * Day + Day} :
       ~Nonexistent(midnight) /\ ~Ambiguous(midnight)

(* DaysParse, of one day.                                                  *)
LEMMA DayParses ==
  ASSUME RowsAreAnAnswer, NEW date \in Int, MidnightsOnce(date)
  PROVE  LET midnight == date * Day
             skipped == {hour \in 1..24 : Nonexistent(midnight + hour * Hour)}
             repeated == {hour \in 1..24 : Ambiguous(midnight + hour * Hour)}
             parsed == ParseDemand({<<date, hour>> : hour \in (1..24) \ skipped}, 0)
         IN  repeated = {} =>
                {r.start : r \in parsed} =
                   HourlyStarts(TorontoToUtc(midnight, None), TorontoToUtc(midnight + Day, None))
<1> DEFINE midnight == date * Day
           Local(h) == midnight + h * Hour
           skipped == {hour \in 1..24 : Nonexistent(Local(hour))}
           repeated == {hour \in 1..24 : Ambiguous(Local(hour))}
           parsed == ParseDemand({<<date, hour>> : hour \in (1..24) \ skipped}, 0)
           placed(h) == IesoHourEndingToUtc(date, h)
           starts == {r.start : r \in parsed}
<1> SUFFICES ASSUME repeated = {}
             PROVE  starts = HourlyStarts(TorontoToUtc(midnight, None),
                                          TorontoToUtc(midnight + Day, None))
  OBVIOUS
<1>1. midnight \in Int /\ midnight + Day = Local(24) /\ Local(0) = midnight /\ Hour \in Int
  BY HourAssumption DEF Day
<1>2. \A h \in Int : Local(h) \in Int /\ Local(h) + 4 * Hour \in Int /\ Local(h) + 5 * Hour \in Int
  BY <1>1, HourAssumption
<1>3. starts = {placed(h) - Hour : h \in (1..24) \ skipped}
  <2>1. \A h \in (1..24) \ skipped : placed(h) # None
    BY LabelIsPlaced
  <2>2. (1..24) \ skipped \in SUBSET (1..24)
    OBVIOUS
  <2> HIDE DEF skipped
  <2> QED
    BY <2>1, <2>2, LabelsParse
<1>4. \A h \in 1..24 : placed(h) = TorontoToUtc(Local(h), None)
  BY LabelIsPlaced
<1>5. \A h \in 0..24 : ~Ambiguous(Local(h))
  <2>1. ~Ambiguous(Local(0))
    BY <1>1 DEF MidnightsOnce
  <2>2. \A h \in 0..24 : h = 0 \/ h \in 1..24
    OBVIOUS
  <2>3. \A h \in 1..24 : ~Ambiguous(Local(h))
    OBVIOUS
  <2> HIDE DEF Local
  <2> QED
    BY <2>1, <2>2, <2>3
<1>6. ~Nonexistent(midnight) /\ ~Nonexistent(midnight + 24 * Hour)
  BY <1>1 DEF MidnightsOnce
<1>7. \/ \A h \in 0..24 : Summer(Local(h)) /\ ~Winter(Local(h))
      \/ \A h \in 0..24 : Winter(Local(h)) /\ ~Summer(Local(h))
      \/ \E k \in 1..23 :
            /\ \A h \in 0..(k - 1) : Winter(Local(h)) /\ ~Summer(Local(h))
            /\ ~Winter(Local(k)) /\ ~Summer(Local(k))
            /\ \A h \in (k + 1)..24 : Summer(Local(h)) /\ ~Winter(Local(h))
  <2> HIDE DEF midnight
  <2> QED
    BY <1>1, <1>5, <1>6, DayIsPlain
<1>8. \A h \in 0..24 :
        /\ Summer(Local(h)) /\ ~Winter(Local(h)) =>
              /\ TorontoToUtc(Local(h), None) = Local(h) + 4 * Hour
              /\ ~Nonexistent(Local(h))
        /\ Winter(Local(h)) /\ ~Summer(Local(h)) =>
              /\ TorontoToUtc(Local(h), None) = Local(h) + 5 * Hour
              /\ ~Nonexistent(Local(h))
        /\ ~Winter(Local(h)) /\ ~Summer(Local(h)) => Nonexistent(Local(h))
  <2> SUFFICES ASSUME NEW h \in 0..24
      PROVE
        /\ Summer(Local(h)) /\ ~Winter(Local(h)) =>
              /\ TorontoToUtc(Local(h), None) = Local(h) + 4 * Hour
              /\ ~Nonexistent(Local(h))
        /\ Winter(Local(h)) /\ ~Summer(Local(h)) =>
              /\ TorontoToUtc(Local(h), None) = Local(h) + 5 * Hour
              /\ ~Nonexistent(Local(h))
        /\ ~Winter(Local(h)) /\ ~Summer(Local(h)) => Nonexistent(Local(h))
    OBVIOUS
  <2>1. Local(h) \in Int
    BY <1>2
  <2> HIDE DEF Local
  <2> QED
    BY <2>1, ReadAs
<1>9. 0 \in 0..24 /\ 24 \in 0..24 /\ \A h \in 1..24 : h \in 0..24
  OBVIOUS
<1>10. \A h \in skipped : h \in 1..24 /\ Nonexistent(Local(h))
  OBVIOUS
<1>11. \A h \in 1..24 : Nonexistent(Local(h)) => h \in skipped
  OBVIOUS
<1>12. skipped \in SUBSET (1..24)
  OBVIOUS
<1>13. \A h \in Int : Local(h) = midnight + h * Hour /\ h * Hour \in Int
  BY HourAssumption
<1>14. \A h \in Int : h * Hour - Hour = (h - 1) * Hour /\ (h + 1) * Hour = h * Hour + Hour
  BY HourAssumption
<1>15. 24 * Hour \in Int /\ 23 * Hour \in Int /\ 24 * Hour = 23 * Hour + Hour
  BY HourAssumption
<1> HIDE DEF midnight, Local, skipped, placed, starts, parsed
<1>16. CASE \A h \in 0..24 : Summer(Local(h)) /\ ~Winter(Local(h))
  <2>1. skipped = {}
    BY <1>8, <1>9, <1>10, <1>16
  <2>2. \A h \in 1..24 : placed(h) = Local(h) + 4 * Hour
    BY <1>4, <1>8, <1>9, <1>16
  <2>3. /\ TorontoToUtc(midnight, None) = midnight + 4 * Hour
        /\ TorontoToUtc(midnight + Day, None) = midnight + Day + 4 * Hour
    BY <1>1, <1>8, <1>9, <1>16
  <2>4. starts = {midnight + h * Hour + 4 * Hour - Hour : h \in 1..24}
    <3>1. starts = {placed(h) - Hour : h \in 1..24}
      BY <1>3, <2>1
    <3>2. \A h \in 1..24 : h \in Int
      OBVIOUS
    <3>3. ASSUME NEW h \in 1..24
          PROVE  placed(h) - Hour = midnight + h * Hour + 4 * Hour - Hour
      <4>1. placed(h) = Local(h) + 4 * Hour /\ Local(h) = midnight + h * Hour
        BY <1>13, <2>2, <3>2
      <4>2. PICK p \in Int : p = h * Hour
        BY <1>13, <3>2
      <4>3. PICK q \in Int, d \in Int : q = Local(h) /\ d = placed(h)
        BY <1>1, <4>1, <4>2
      <4>4. d = q + 4 * Hour /\ q = midnight + p
        BY <4>1, <4>2, <4>3
      <4>5. d - Hour = midnight + p + 4 * Hour - Hour
        BY <1>1, <4>4
      <4> QED
        BY <4>2, <4>3, <4>5
    <3> QED
      BY <3>1, <3>3
  <2>5. 4 * Hour \in Int
    BY <1>1
  <2> QED
    BY <1>1, <2>3, <2>4, <2>5, SeasonHours
<1>17. CASE \A h \in 0..24 : Winter(Local(h)) /\ ~Summer(Local(h))
  <2>1. skipped = {}
    BY <1>8, <1>9, <1>10, <1>17
  <2>2. \A h \in 1..24 : placed(h) = Local(h) + 5 * Hour
    BY <1>4, <1>8, <1>9, <1>17
  <2>3. /\ TorontoToUtc(midnight, None) = midnight + 5 * Hour
        /\ TorontoToUtc(midnight + Day, None) = midnight + Day + 5 * Hour
    BY <1>1, <1>8, <1>9, <1>17
  <2>4. starts = {midnight + h * Hour + 5 * Hour - Hour : h \in 1..24}
    <3>1. starts = {placed(h) - Hour : h \in 1..24}
      BY <1>3, <2>1
    <3>2. \A h \in 1..24 : h \in Int
      OBVIOUS
    <3>3. ASSUME NEW h \in 1..24
          PROVE  placed(h) - Hour = midnight + h * Hour + 5 * Hour - Hour
      <4>1. placed(h) = Local(h) + 5 * Hour /\ Local(h) = midnight + h * Hour
        BY <1>13, <2>2, <3>2
      <4>2. PICK p \in Int : p = h * Hour
        BY <1>13, <3>2
      <4>3. PICK q \in Int, d \in Int : q = Local(h) /\ d = placed(h)
        BY <1>1, <4>1, <4>2
      <4>4. d = q + 5 * Hour /\ q = midnight + p
        BY <4>1, <4>2, <4>3
      <4>5. d - Hour = midnight + p + 5 * Hour - Hour
        BY <1>1, <4>4
      <4> QED
        BY <4>2, <4>3, <4>5
    <3> QED
      BY <3>1, <3>3
  <2>5. 5 * Hour \in Int
    BY <1>1
  <2> QED
    BY <1>1, <2>3, <2>4, <2>5, SeasonHours
<1>18. ASSUME NEW k \in 1..23,
              \A h \in 0..(k - 1) : Winter(Local(h)) /\ ~Summer(Local(h)),
              ~Winter(Local(k)) /\ ~Summer(Local(k)),
              \A h \in (k + 1)..24 : Summer(Local(h)) /\ ~Winter(Local(h))
       PROVE  starts = HourlyStarts(TorontoToUtc(midnight, None),
                                    TorontoToUtc(midnight + Day, None))
  <2>1. \A h \in 1..24 : h \in 0..(k - 1) \/ h = k \/ h \in (k + 1)..24
    OBVIOUS
  <2>2. skipped = {k}
    <3>1. ASSUME NEW h \in skipped PROVE h = k
      BY <1>8, <1>9, <1>10, <1>18, <2>1
    <3>2. k \in skipped
      BY <1>8, <1>9, <1>11, <1>18
    <3> QED
      BY <3>1, <3>2
  <2>3. \A h \in 1..(k - 1) : placed(h) = Local(h) + 5 * Hour
    <3>1. \A h \in 1..(k - 1) : h \in 1..24 /\ h \in 0..(k - 1)
      OBVIOUS
    <3> QED
      BY <1>4, <1>8, <1>9, <1>18, <3>1
  <2>4. \A h \in (k + 1)..24 : placed(h) = Local(h) + 4 * Hour
    <3>1. \A h \in (k + 1)..24 : h \in 1..24
      OBVIOUS
    <3> QED
      BY <1>4, <1>8, <1>9, <1>18, <3>1
  <2>5. TorontoToUtc(midnight, None) = midnight + 5 * Hour
    <3>1. 0 \in 0..(k - 1)
      OBVIOUS
    <3> QED
      BY <1>1, <1>8, <1>9, <1>18, <3>1
  <2>6. TorontoToUtc(midnight + Day, None) = midnight + 5 * Hour + 23 * Hour
    <3>1. 24 \in (k + 1)..24
      OBVIOUS
    <3>2. TorontoToUtc(Local(24), None) = Local(24) + 4 * Hour
      BY <1>8, <1>9, <1>18, <3>1
    <3>3. Local(24) = midnight + 24 * Hour
      BY <1>13
    <3> QED
      BY <1>1, <1>15, <3>2, <3>3
  <2> DEFINE a == midnight + 5 * Hour
  <2>7. a \in Int /\ 23 \in Nat /\ 23 - 1 = 22
    BY <1>1
  <2>8. HourlyStarts(a, a + 23 * Hour) = {a + j * Hour : j \in 0..22}
    <3> HIDE DEF a
    <3> QED
      BY <2>7, HoursFrom
  <2>9. \A h \in 1..(k - 1) : h - 1 \in 0..22 /\ placed(h) - Hour = a + (h - 1) * Hour
    <3> SUFFICES ASSUME NEW h \in 1..(k - 1)
                 PROVE  h - 1 \in 0..22 /\ placed(h) - Hour = a + (h - 1) * Hour
      OBVIOUS
    <3>1. PICK p \in Int : p = h * Hour /\ Local(h) = midnight + p /\ (h - 1) * Hour = p - Hour
      BY <1>13, <1>14
    <3>2. placed(h) = midnight + p + 5 * Hour
      BY <2>3, <3>1
    <3> QED
      BY <1>1, <3>1, <3>2
  <2>10. \A h \in (k + 1)..24 : h - 2 \in 0..22 /\ placed(h) - Hour = a + (h - 2) * Hour
    <3> SUFFICES ASSUME NEW h \in (k + 1)..24
                 PROVE  h - 2 \in 0..22 /\ placed(h) - Hour = a + (h - 2) * Hour
      OBVIOUS
    <3>1. h \in Int /\ h - 1 \in Int /\ (h - 1) - 1 = h - 2
      OBVIOUS
    <3>2. PICK p \in Int : p = h * Hour /\ Local(h) = midnight + p
      BY <1>13, <3>1
    <3>3. (h - 1) * Hour = p - Hour /\ (h - 2) * Hour = (h - 1) * Hour - Hour
      BY <1>14, <3>1, <3>2
    <3>4. placed(h) = midnight + p + 4 * Hour
      BY <2>4, <3>2
    <3>5. (h - 2) * Hour = p - Hour - Hour
      BY <3>3
    <3> QED
      BY <1>1, <3>2, <3>4, <3>5
  <2>11. starts = {a + j * Hour : j \in 0..22}
    <3> HIDE DEF a
    <3>1. ASSUME NEW s \in starts PROVE s \in {a + j * Hour : j \in 0..22}
      <4>1. PICK h \in (1..24) \ {k} : s = placed(h) - Hour
        BY <1>3, <2>2
      <4>2. h \in 1..(k - 1) \/ h \in (k + 1)..24
        OBVIOUS
      <4> QED
        BY <2>9, <2>10, <4>1, <4>2
    <3>2. ASSUME NEW j \in 0..22 PROVE a + j * Hour \in starts
      <4>1. CASE j + 1 < k
        <5>1. j + 1 \in 1..(k - 1) /\ (j + 1) - 1 = j /\ j + 1 \in (1..24) \ {k}
          BY <4>1
        <5>2. placed(j + 1) - Hour = a + j * Hour
          BY <2>9, <5>1
        <5> QED
          BY <1>3, <2>2, <5>1, <5>2
      <4>2. CASE ~(j + 1 < k)
        <5>1. j + 2 \in (k + 1)..24 /\ (j + 2) - 2 = j /\ j + 2 \in (1..24) \ {k}
          BY <4>2
        <5>2. placed(j + 2) - Hour = a + j * Hour
          BY <2>10, <5>1
        <5> QED
          BY <1>3, <2>2, <5>1, <5>2
      <4> QED
        BY <4>1, <4>2
    <3> QED
      BY <3>1, <3>2
  <2> QED
    BY <2>5, <2>6, <2>8, <2>11
<1> QED
  BY <1>7, <1>16, <1>17, <1>18

InputIsDate == topic = "day" => input \in Dates

(* DaysParse, for any days between midnights the clock reads once: it      *)
(* changes at two in the morning.                                          *)
THEOREM DaysAlwaysParse ==
  ASSUME RowsAreAnAnswer, Dates \subseteq Int, \A date \in Dates : MidnightsOnce(date)
  PROVE  Spec => []DaysParse
<1>1. Init => InputIsDate
  BY DEF Init, InputIsDate
<1>2. InputIsDate /\ [Next]_vars => InputIsDate'
  BY DEF InputIsDate, Next, Look, vars
<1>3. InputIsDate => DaysParse
  <2> SUFFICES ASSUME topic = "day", input \in Dates
               PROVE  DaysParse
    BY DEF InputIsDate, DaysParse
  <2> DEFINE skipped == {hour \in 1..24 : Nonexistent(input * Day + hour * Hour)}
             repeated == {hour \in 1..24 : Ambiguous(input * Day + hour * Hour)}
  <2>1. input \in Int /\ MidnightsOnce(input)
    OBVIOUS
  <2>2. (ParseDemand({<<input, hour>> : hour \in 1..24}, 0) = None)
           <=> (skipped \cup repeated # {})
    <3>1. (ParseDemand({<<input, hour>> : hour \in 1..24}, 0) = None)
             <=> \E h \in 1..24 : IesoHourEndingToUtc(input, h) = None
      <4>1. 1..24 \in SUBSET (1..24)
        OBVIOUS
      <4> QED
        BY <2>1, <4>1, LabelsParse
    <3>2. (\E h \in 1..24 : IesoHourEndingToUtc(input, h) = None)
             <=> \E h \in 1..24 : h \in skipped \cup repeated
      BY <2>1, LabelIsPlaced
    <3> QED
      BY <3>1, <3>2
  <2>3. repeated = {} =>
          {r.start : r \in ParseDemand({<<input, hour>> : hour \in (1..24) \ skipped}, 0)} =
             HourlyStarts(TorontoToUtc(input * Day, None), TorontoToUtc(input * Day + Day, None))
    BY <2>1, DayParses
  <2> QED
    BY <2>2, <2>3 DEF DaysParse
<1> QED
  BY <1>1, <1>2, <1>3, PTL DEF Spec

-----------------------------------------------------------------------------
(* Alert rules *)

(* The element of S that has i - 1 smaller ones. *)
Below(S, t) == {u \in S : u < t}
Nth(S, i) == CHOOSE t \in S : Cardinality(Below(S, t)) = i - 1

(* The elements of a finite set of numbers have an order. *)
LEMMA NthExists ==
  ASSUME NEW S \in SUBSET Int, IsFiniteSet(S)
  PROVE  \A i \in 1..Cardinality(S) : \E t \in S : Cardinality(Below(S, t)) = i - 1
<1> DEFINE Ordered(T) == \A i \in 1..Cardinality(T) : \E t \in T : Cardinality(Below(T, t)) = i - 1
           G == {T \in SUBSET S : Ordered(T)}
<1>1. ASSUME NEW T \in SUBSET S, \A x \in T : T \ {x} \in G
      PROVE  T \in G
  <2>0. IsFiniteSet(T) /\ Cardinality(T) \in Nat
    BY FS_Subset, FS_CardinalityType
  <2>1. CASE T = {}
    <3>1. Cardinality(T) = 0
      BY <2>1, FS_EmptySet
    <3> QED
      BY <3>1
  <2>2. CASE T # {}
    <3>1. PICK m \in T : \A t \in T : t =< m
      BY <2>0, <2>2, FiniteHasMax
    <3>2. Cardinality(T \ {m}) = Cardinality(T) - 1
      BY <2>0, <3>1, FS_RemoveElement
    <3>a. \A t \in T : t \in Int /\ ((t < m) <=> t # m) /\ ~(m < t)
      BY <3>1
    <3>3. Below(T, m) = T \ {m}
      BY <3>a DEF Below
    <3>4. \A t \in T \ {m} : Below(T, t) = Below(T \ {m}, t)
      BY <3>a DEF Below
    <3>5. Ordered(T \ {m})
      BY <1>1, <3>1
    <3>6. ASSUME NEW i \in 1..Cardinality(T)
          PROVE  \E t \in T : Cardinality(Below(T, t)) = i - 1
      <4>1. CASE i = Cardinality(T)
        BY <3>1, <3>2, <3>3, <4>1
      <4>2. CASE i # Cardinality(T)
        <5>1. i \in 1..Cardinality(T \ {m})
          BY <2>0, <3>2, <4>2
        <5>2. PICK t \in T \ {m} : Cardinality(Below(T \ {m}, t)) = i - 1
          BY <3>5, <5>1
        <5> QED
          BY <3>4, <5>2
      <4> QED
        BY <4>1, <4>2
    <3> QED
      BY <3>6
  <2> QED
    BY <2>1, <2>2
<1> HIDE DEF G
<1>2. S \in G
  BY <1>1, FiniteSetInduction
<1> QED
  BY <1>2 DEF G

(* ... and no two have the same place. *)
LEMMA NthIsOne ==
  ASSUME NEW S \in SUBSET Int, IsFiniteSet(S)
  PROVE  /\ \A i \in 1..Cardinality(S) : Nth(S, i) \in S /\ Cardinality(Below(S, Nth(S, i))) = i - 1
         /\ \A i, j \in 1..Cardinality(S) : Nth(S, i) = Nth(S, j) => i = j
         /\ \A t \in S : \E i \in 1..Cardinality(S) : Nth(S, i) = t
<1>0. Cardinality(S) \in Nat
  BY FS_CardinalityType
<1>1. \A i \in 1..Cardinality(S) : Nth(S, i) \in S /\ Cardinality(Below(S, Nth(S, i))) = i - 1
  <2> SUFFICES ASSUME NEW i \in 1..Cardinality(S)
               PROVE  Nth(S, i) \in S /\ Cardinality(Below(S, Nth(S, i))) = i - 1
    OBVIOUS
  <2>1. \E t \in S : Cardinality(Below(S, t)) = i - 1
    BY NthExists
  <2> QED
    BY <2>1 DEF Nth
<1>2. \A i, j \in 1..Cardinality(S) : Nth(S, i) = Nth(S, j) => i = j
  <2> SUFFICES ASSUME NEW i \in 1..Cardinality(S), NEW j \in 1..Cardinality(S), Nth(S, i) = Nth(S, j)
               PROVE  i = j
    OBVIOUS
  <2>1. i - 1 = j - 1
    BY <1>1
  <2> QED
    BY <2>1
<1>3. ASSUME NEW t \in S, NEW u \in S, t < u
      PROVE  Cardinality(Below(S, t)) < Cardinality(Below(S, u))
  <2>0. t \in Int /\ u \in Int /\ ~(t < t) /\ \A x \in S : x < t => x < u
    <3>1. \A x \in S : x \in Int
      OBVIOUS
    <3> QED
      BY <1>3, <3>1
  <2>1. Below(S, t) \in SUBSET Below(S, u) /\ t \in Below(S, u) /\ t \notin Below(S, t)
    BY <1>3, <2>0 DEF Below
  <2>2. IsFiniteSet(Below(S, u))
    BY FS_Subset DEF Below
  <2>3. IsFiniteSet(Below(S, t))
    BY FS_Subset DEF Below
  <2>4. Cardinality(Below(S, t)) \in Nat /\ Cardinality(Below(S, u)) \in Nat
    BY <2>2, <2>3, FS_CardinalityType
  <2>5. Cardinality(Below(S, t)) =< Cardinality(Below(S, u))
    BY <2>1, <2>2, FS_Subset
  <2>6. Cardinality(Below(S, t)) # Cardinality(Below(S, u))
    BY <2>1, <2>2, FS_Subset
  <2> QED
    BY <2>4, <2>5, <2>6
<1>4. ASSUME NEW t \in S PROVE \E i \in 1..Cardinality(S) : Nth(S, i) = t
  <2>1. Below(S, t) \in SUBSET (S \ {t})
    BY DEF Below
  <2>2. IsFiniteSet(S \ {t}) /\ Cardinality(S \ {t}) = Cardinality(S) - 1
    BY FS_RemoveElement
  <2>3. IsFiniteSet(Below(S, t)) /\ Cardinality(Below(S, t)) =< Cardinality(S \ {t})
    BY <2>1, <2>2, FS_Subset
  <2>4. PICK n \in Nat : n = Cardinality(Below(S, t))
    BY <2>3, FS_CardinalityType
  <2>5. n + 1 \in 1..Cardinality(S) /\ (n + 1) - 1 = n
    BY <1>0, <2>2, <2>3, <2>4
  <2>6. Nth(S, n + 1) \in S /\ Cardinality(Below(S, Nth(S, n + 1))) = n
    BY <1>1, <2>5
  <2>7. PICK u \in S : u = Nth(S, n + 1) /\ Cardinality(Below(S, u)) = n
    BY <2>6
  <2>8. ~(t < u) /\ ~(u < t)
    <3>1. t < u => n < n
      BY <1>3, <2>4, <2>7
    <3>2. u < t => n < n
      BY <1>3, <2>4, <2>7
    <3> QED
      BY <2>4, <3>1, <3>2
  <2>9. Nth(S, n + 1) = t
    BY <2>7, <2>8
  <2> QED
    BY <2>5, <2>9
<1> QED
  BY <1>1, <1>2, <1>4

-----------------------------------------------------------------------------
(* Lists of candidates *)

(* A list whose fingerprints are distinct and of certain rules, which are  *)
(* named first in a fingerprint.                                           *)
Distinct(s) ==
    /\ \E U : s \in Seq(U)
    /\ \A i, j \in 1..Len(s) : s[i].fingerprint = s[j].fingerprint => i = j
OfRules(s, rules) == \A i \in 1..Len(s) : s[i].fingerprint[1] \in rules

(* Lists of different rules stay distinct when they are joined, as         *)
(* evaluate_alert_candidates joins them.                                   *)
LEMMA DistinctTogether ==
  ASSUME NEW s, NEW t, NEW rules, NEW others, rules \cap others = {},
         Distinct(s), OfRules(s, rules), Distinct(t), OfRules(t, others)
  PROVE  Distinct(s \o t) /\ OfRules(s \o t, rules \cup others)
<1>1. PICK U, V : s \in Seq(U) /\ t \in Seq(V)
  BY DEF Distinct
<1>2. s \in Seq(U \cup V) /\ t \in Seq(U \cup V)
  BY <1>1
<1>3. s \o t \in Seq(U \cup V) /\ Len(s \o t) = Len(s) + Len(t) /\ Len(s) \in Nat /\ Len(t) \in Nat
  BY <1>2
<1>4. \A k \in 1..Len(s \o t) :
         \/ k \in 1..Len(s) /\ (s \o t)[k] = s[k]
         \/ k - Len(s) \in 1..Len(t) /\ (s \o t)[k] = t[k - Len(s)]
  BY <1>2, <1>3
<1>5. OfRules(s \o t, rules \cup others)
  BY <1>4 DEF OfRules
<1>6. ASSUME NEW i \in 1..Len(s \o t), NEW j \in 1..Len(s \o t),
             (s \o t)[i].fingerprint = (s \o t)[j].fingerprint
      PROVE  i = j
  <2>1. CASE i \in 1..Len(s) /\ (s \o t)[i] = s[i] /\ j \in 1..Len(s) /\ (s \o t)[j] = s[j]
    BY <1>6, <2>1 DEF Distinct
  <2>2. CASE /\ i - Len(s) \in 1..Len(t) /\ (s \o t)[i] = t[i - Len(s)]
             /\ j - Len(s) \in 1..Len(t) /\ (s \o t)[j] = t[j - Len(s)]
    <3>1. i - Len(s) = j - Len(s)
      BY <1>6, <2>2 DEF Distinct
    <3> QED
      BY <1>3, <3>1
  <2>3. CASE /\ i \in 1..Len(s) /\ (s \o t)[i] = s[i]
             /\ j - Len(s) \in 1..Len(t) /\ (s \o t)[j] = t[j - Len(s)]
    BY <1>6, <2>3 DEF OfRules
  <2>4. CASE /\ j \in 1..Len(s) /\ (s \o t)[j] = s[j]
             /\ i - Len(s) \in 1..Len(t) /\ (s \o t)[i] = t[i - Len(s)]
    BY <1>6, <2>4 DEF OfRules
  <2> QED
    BY <1>4, <2>1, <2>2, <2>3, <2>4
<1> QED
  BY <1>3, <1>5, <1>6 DEF Distinct

(* s lists the candidates f of some hours, whose fingerprints differ. *)
Lists(s, S, f, rule) ==
    /\ S \in SUBSET Int /\ IsFiniteSet(S)
    /\ \A t, u \in S : f[t].fingerprint = f[u].fingerprint => t = u
    /\ \A t \in S : f[t].fingerprint[1] = rule
    /\ s = [i \in 1..Cardinality(S) |-> f[Nth(S, i)]]

(* What is listed hour by hour is listed once.                             *)
LEMMA HoursListed ==
  ASSUME NEW s, NEW S, NEW f, NEW rule, Lists(s, S, f, rule)
  PROVE  Distinct(s) /\ OfRules(s, {rule})
<1> DEFINE U == {f[t] : t \in S}
<1>0. S \in SUBSET Int /\ IsFiniteSet(S)
  BY DEF Lists
<1>a. /\ \A t, u \in S : f[t].fingerprint = f[u].fingerprint => t = u
      /\ \A t \in S : f[t].fingerprint[1] = rule
      /\ s = [i \in 1..Cardinality(S) |-> f[Nth(S, i)]]
  BY DEF Lists
<1>1. Cardinality(S) \in Nat
  BY <1>0, FS_CardinalityType
<1>2. \A i \in 1..Cardinality(S) : Nth(S, i) \in S
  BY <1>0, NthIsOne
<1>3. s \in Seq(U) /\ Len(s) = Cardinality(S)
  BY <1>a, <1>1, <1>2
<1>4. \A i \in 1..Cardinality(S) : s[i] = f[Nth(S, i)]
  BY <1>a
<1>5. DOMAIN s = 1..Cardinality(S)
  BY <1>a
<1>6. ASSUME NEW i \in 1..Cardinality(S), NEW j \in 1..Cardinality(S),
             s[i].fingerprint = s[j].fingerprint
      PROVE  i = j
  <2>1. PICK t \in S, u \in S : t = Nth(S, i) /\ u = Nth(S, j)
    BY <1>2
  <2>2. s[i] = f[t] /\ s[j] = f[u]
    BY <1>4, <2>1
  <2>3. f[t].fingerprint = f[u].fingerprint
    BY <1>6, <2>2, Zenon
  <2>4. t = u
    BY <1>a, <2>3
  <2>5. \A k, l \in 1..Cardinality(S) : Nth(S, k) = Nth(S, l) => k = l
    BY <1>0, NthIsOne
  <2> QED
    BY <2>1, <2>4, <2>5
<1>7. ASSUME NEW i \in 1..Cardinality(S) PROVE s[i].fingerprint[1] = rule
  <2>1. PICK t \in S : t = Nth(S, i)
    BY <1>2
  <2>2. s[i] = f[t]
    BY <1>4, <2>1
  <2>3. f[t].fingerprint[1] = rule
    BY <1>a
  <2> QED
    BY <2>2, <2>3, Zenon
<1>9. Distinct(s)
  BY <1>3, <1>6 DEF Distinct
<1>10. OfRules(s, {rule})
  BY <1>3, <1>7 DEF OfRules
<1> QED
  BY <1>9, <1>10

(* A list holds the candidates of its hours, and no others.                *)
LEMMA HoursFound ==
  ASSUME NEW s, NEW S, NEW f, NEW rule, Lists(s, S, f, rule)
  PROVE  /\ \A t \in S : \E i \in DOMAIN s : s[i] = f[t]
         /\ \A i \in DOMAIN s : \E t \in S : s[i] = f[t]
<1>1. S \in SUBSET Int /\ IsFiniteSet(S) /\ s = [i \in 1..Cardinality(S) |-> f[Nth(S, i)]]
  BY DEF Lists
<1>2. /\ \A i \in 1..Cardinality(S) : Nth(S, i) \in S /\ s[i] = f[Nth(S, i)]
      /\ DOMAIN s = 1..Cardinality(S)
  BY <1>1, NthIsOne
<1>3. ASSUME NEW t \in S PROVE \E i \in DOMAIN s : s[i] = f[t]
  <2>1. PICK i \in 1..Cardinality(S) : Nth(S, i) = t
    BY <1>1, NthIsOne
  <2>2. s[i] = f[t]
    BY <1>2, <2>1
  <2> QED
    BY <1>2, <2>1, <2>2
<1>4. ASSUME NEW i \in DOMAIN s PROVE \E t \in S : s[i] = f[t]
  BY <1>2
<1> QED
  BY <1>3, <1>4

(* The forecasts and quality runs alerts are raised from. *)
HourlyForecast(f) ==
    \E D \in SUBSET Int : IsFiniteSet(D) /\ f.p50 \in [D -> Int]

Timed(run) == run.started \in Int /\ run.id \in Int /\ run.completed \in Int \cup {None}

Dated(quality) ==
    /\ IsFiniteSet(quality)
    /\ \A run \in quality : Timed(run)
    /\ \A run, other \in quality : run.id = other.id => run = other

(* What a fingerprint of each rule begins with. *)
DemandRule == "high_demand_fixed_threshold"
RampRule == "large_adjacent_forecast_ramp"
DeviationRule == "previous_forecast_deviation"
HealthRule == "source_health_context"
CombinedRule == "combined_forecast_and_source_health_context"

(* high_demand_alert_candidates names the hour in each fingerprint.        *)
LEMMA DemandListed ==
  ASSUME NEW forecast, HourlyForecast(forecast)
  PROVE  Distinct(HighDemandCandidates(forecast)) /\ OfRules(HighDemandCandidates(forecast), {DemandRule})
<1> DEFINE hours == {t \in DOMAIN forecast.p50 : /\ ForecastValue(forecast.p50[t]) # None
                                                 /\ forecast.p50[t] >= HighDemandWarning}
           Of(t) == Candidate("high_demand", Severity(forecast.p50[t], HighDemandCritical),
                       <<"high_demand_fixed_threshold", forecast.id, t,
                         Threshold(forecast.p50[t], HighDemandWarning, HighDemandCritical)>>)
           f == [t \in hours |-> Of(t)]
<1>1. hours \in SUBSET Int /\ IsFiniteSet(hours)
  BY FS_Subset DEF HourlyForecast
<1>2. HighDemandCandidates(forecast) = [i \in 1..Cardinality(hours) |-> Of(Nth(hours, i))]
  BY DEF HighDemandCandidates, InOrder, Nth, Below
<1>3. \A t \in hours : f[t].fingerprint[3] = t /\ f[t].fingerprint[1] = DemandRule
  BY DEF Candidate, DemandRule
<1>4. \A t \in hours : f[t] = Of(t)
  OBVIOUS
<1> HIDE DEF hours, Of, f
<1>5. HighDemandCandidates(forecast) = [i \in 1..Cardinality(hours) |-> f[Nth(hours, i)]]
  BY <1>1, <1>2, <1>4, NthIsOne
<1>6. \A t, u \in hours : f[t].fingerprint = f[u].fingerprint => t = u
  BY <1>3
<1>7. Lists(HighDemandCandidates(forecast), hours, f, DemandRule)
  BY <1>1, <1>3, <1>5, <1>6 DEF Lists
<1> QED
  BY <1>7, HoursListed

(* ramp_alert_candidates names the hour a ramp leads to.                   *)
LEMMA RampsListed ==
  ASSUME NEW forecast, HourlyForecast(forecast)
  PROVE  Distinct(RampCandidates(forecast)) /\ OfRules(RampCandidates(forecast), {RampRule})
<1> DEFINE ramp == Ramps(forecast.p50)
           hours == {t \in DOMAIN ramp : Magnitude(ramp[t]) >= RampWarning}
           Of(t) == Candidate("ramp", Severity(Magnitude(ramp[t]), RampCritical),
                       RampFingerprint(forecast, t,
                          Threshold(Magnitude(ramp[t]), RampWarning, RampCritical)))
           f == [t \in hours |-> Of(t)]
<1>1. hours \in SUBSET Int /\ IsFiniteSet(hours)
  BY FS_Subset DEF HourlyForecast, Ramps
<1>2. RampCandidates(forecast) = [i \in 1..Cardinality(hours) |-> Of(Nth(hours, i))]
  BY DEF RampCandidates, InOrder, Nth, Below
<1>3. \A t \in hours : f[t].fingerprint[3] = t /\ f[t].fingerprint[1] = RampRule
  BY DEF Candidate, RampFingerprint, RampRule
<1>4. \A t \in hours : f[t] = Of(t)
  OBVIOUS
<1> HIDE DEF hours, Of, f
<1>5. RampCandidates(forecast) = [i \in 1..Cardinality(hours) |-> f[Nth(hours, i)]]
  BY <1>1, <1>2, <1>4, NthIsOne
<1>6. \A t, u \in hours : f[t].fingerprint = f[u].fingerprint => t = u
  BY <1>3
<1>7. Lists(RampCandidates(forecast), hours, f, RampRule)
  BY <1>1, <1>3, <1>5, <1>6 DEF Lists
<1> QED
  BY <1>7, HoursListed

(* forecast_deviation_alert_candidates names the hour, whichever earlier   *)
(* forecast it is compared with.                                           *)
LEMMA DeviationsListed ==
  ASSUME NEW forecasts, NEW forecast, HourlyForecast(forecast)
  PROVE  /\ Distinct(DeviationCandidates(forecasts, forecast))
         /\ OfRules(DeviationCandidates(forecasts, forecast), {DeviationRule})
<1> DEFINE Before(t) == PreviousForecast(forecasts, forecast, t)
           compared == {t \in DOMAIN forecast.p50 :
                          /\ PreviousForecasts(forecasts, forecast, t) # {}
                          /\ ForecastValue(forecast.p50[t]) # None
                          /\ ForecastValue(Before(t).p50[t]) # None}
           deviation == [t \in compared |-> Magnitude(forecast.p50[t] - Before(t).p50[t])]
           hours == {t \in compared : deviation[t] >= DeviationWarning}
           Of(t) == Candidate("forecast_deviation", Severity(deviation[t], DeviationCritical),
                       <<"previous_forecast_deviation", forecast.id, Before(t).id, t,
                         Threshold(deviation[t], DeviationWarning, DeviationCritical)>>)
           f == [t \in hours |-> Of(t)]
<1>1. hours \in SUBSET Int /\ IsFiniteSet(hours)
  BY FS_Subset DEF HourlyForecast
<1>2. DeviationCandidates(forecasts, forecast) = [i \in 1..Cardinality(hours) |-> Of(Nth(hours, i))]
  BY DEF DeviationCandidates, InOrder, Nth, Below
<1>3. \A t \in hours : f[t].fingerprint[4] = t /\ f[t].fingerprint[1] = DeviationRule
  BY DEF Candidate, DeviationRule
<1>4. \A t \in hours : f[t] = Of(t)
  OBVIOUS
<1> HIDE DEF hours, Of, f
<1>5. DeviationCandidates(forecasts, forecast) = [i \in 1..Cardinality(hours) |-> f[Nth(hours, i)]]
  BY <1>1, <1>2, <1>4, NthIsOne
<1>6. \A t, u \in hours : f[t].fingerprint = f[u].fingerprint => t = u
  BY <1>3
<1>7. Lists(DeviationCandidates(forecasts, forecast), hours, f, DeviationRule)
  BY <1>1, <1>3, <1>5, <1>6 DEF Lists
<1> QED
  BY <1>7, HoursListed

-----------------------------------------------------------------------------
(* The latest check of a dataset *)

(* Runs are ordered: by completion, then by start, then by identity.       *)
LEMMA FirstIsOrder ==
  ASSUME NEW a, NEW b, NEW c, Timed(a), Timed(b), Timed(c)
  PROVE  /\ ~ComesFirst(a, a)
         /\ ComesFirst(a, b) /\ ComesFirst(b, c) => ComesFirst(a, c)
         /\ a.id # b.id => ComesFirst(a, b) \/ ComesFirst(b, a)
         /\ ComesFirst(a, b) => ~ComesFirst(b, a)
  BY NoneAssumption DEF Timed, ComesFirst

(* The latest run of a dataset comes before its other runs.                *)
LEMMA LatestIs ==
  ASSUME NEW quality, Dated(quality), NEW dataset, Checked(quality, dataset)
  PROVE  LET run == LatestRun(quality, dataset)
         IN  /\ run \in quality /\ run.dataset = dataset
             /\ \A other \in quality : other # run /\ other.dataset = dataset => ComesFirst(run, other)
<1> DEFINE S == {r \in quality : r.dataset = dataset}
           Before == {p \in S \X S : ComesFirst(p[2], p[1])}
           Leads(run) == \A other \in quality \ {run} : other.dataset = dataset => ComesFirst(run, other)
<1>1. IsFiniteSet(S) /\ S # {}
  BY FS_Subset DEF Dated, Checked
<1>2. \A x, y \in S : <<x, y>> \in Before <=> ComesFirst(y, x)
  OBVIOUS
<1>3. \A x \in S : Timed(x)
  BY DEF Dated
<1>4. \A r \in S : r \in quality /\ r.dataset = dataset
  OBVIOUS
<1>5. \A r \in quality : r.dataset = dataset => r \in S
  OBVIOUS
<1> HIDE DEF S, Before
<1>6. PICK x \in S : \A y \in S : <<x, y>> \notin Before
  <2>1. \A z \in S : <<z, z>> \notin Before
    BY <1>2, <1>3, FirstIsOrder
  <2>2. \A z, y, w \in S : <<z, y>> \in Before /\ <<y, w>> \in Before => <<z, w>> \in Before
    BY <1>2, <1>3, FirstIsOrder
  <2> QED
    BY <1>1, <2>1, <2>2, FiniteHasLast
<1>7. Leads(x)
  <2> SUFFICES ASSUME NEW other \in quality \ {x}, other.dataset = dataset
               PROVE  ComesFirst(x, other)
    OBVIOUS
  <2>1. other \in S /\ x \in quality /\ x.id # other.id
    BY <1>4, <1>5 DEF Dated
  <2>2. ~ComesFirst(other, x)
    BY <1>2, <1>6, <2>1
  <2> QED
    BY <1>3, <2>1, <2>2, FirstIsOrder
<1>8. LatestRun(quality, dataset) = CHOOSE run \in S : Leads(run)
  BY DEF LatestRun, S
<1> HIDE DEF Leads
<1>9. LatestRun(quality, dataset) \in S /\ Leads(LatestRun(quality, dataset))
  BY <1>7, <1>8
<1> QED
  BY <1>4, <1>9 DEF Leads

(* source_health_alert_candidates has one candidate for each dataset whose *)
(* latest run raises one.                                                  *)
LEMMA HealthListed ==
  ASSUME NEW quality, Dated(quality), NEW forecast
  PROVE  LET raising == {i \in DOMAIN Datasets :
                           /\ Checked(quality, Datasets[i])
                           /\ HealthSeverity(LatestRun(quality, Datasets[i])) # None}
             list == HealthCandidates(quality, forecast)
         IN  /\ Distinct(list) /\ OfRules(list, {HealthRule})
             /\ Fingerprints(list) =
                  {HealthFingerprint(forecast, LatestRun(quality, Datasets[i])) : i \in raising}
<1> DEFINE Newest(i) == LatestRun(quality, Datasets[i])
           raising == {i \in DOMAIN Datasets : /\ Checked(quality, Datasets[i])
                                               /\ HealthSeverity(Newest(i)) # None}
           list == HealthCandidates(quality, forecast)
           Of(i) == Candidate("source_health", HealthSeverity(Newest(i)),
                              HealthFingerprint(forecast, Newest(i)))
           f == [i \in raising |-> Of(i)]
<1>0. DOMAIN Datasets = 1..5 /\ \A i, j \in 1..5 : Datasets[i] = Datasets[j] => i = j
  BY DEF Datasets
<1>1. raising \in SUBSET Int /\ IsFiniteSet(raising)
  <2>1. 1 \in Int /\ 5 \in Int
    OBVIOUS
  <2>2. IsFiniteSet(1..5)
    BY <2>1, FS_Interval
  <2>3. raising \in SUBSET (1..5)
    BY <1>0
  <2> HIDE DEF raising
  <2>4. IsFiniteSet(raising)
    BY <2>2, <2>3, FS_Subset
  <2> QED
    BY <2>3, <2>4
<1>2. list = [i \in 1..Cardinality(raising) |-> Of(Nth(raising, i))]
  BY DEF HealthCandidates, InOrder, Nth, Below
<1>3. \A i \in raising : i \in 1..5 /\ Newest(i).dataset = Datasets[i]
  BY <1>0, LatestIs
<1>4. \A i \in raising : f[i] = Of(i)
  OBVIOUS
<1>5. \A i : /\ Of(i).fingerprint = HealthFingerprint(forecast, Newest(i))
             /\ Of(i).fingerprint[1] = HealthRule /\ Of(i).fingerprint[3] = Newest(i).dataset
  BY DEF Candidate, HealthFingerprint, HealthRule
<1> HIDE DEF raising, Of, f, list, Newest
<1>6. list = [i \in 1..Cardinality(raising) |-> f[Nth(raising, i)]]
  BY <1>1, <1>2, <1>4, NthIsOne
<1>7. ASSUME NEW i \in raising, NEW j \in raising, f[i].fingerprint = f[j].fingerprint
      PROVE  i = j
  <2>1. Of(i).fingerprint = Of(j).fingerprint
    BY <1>4, <1>7, Zenon
  <2>2. Of(i).fingerprint[3] = Of(j).fingerprint[3]
    BY <2>1, Zenon
  <2>3. Datasets[i] = Datasets[j]
    BY <1>3, <1>5, <2>2
  <2> QED
    BY <1>0, <1>3, <2>3
<1>8. \A i \in raising : f[i].fingerprint[1] = HealthRule
  BY <1>4, <1>5
<1>9. Lists(list, raising, f, HealthRule)
  <2>1. \A i, j \in raising : f[i].fingerprint = f[j].fingerprint => i = j
    BY <1>7
  <2> QED
    BY <1>1, <1>6, <1>8, <2>1 DEF Lists
<1>10. Distinct(list) /\ OfRules(list, {HealthRule})
  BY <1>9, HoursListed
<1>a. /\ \A i \in raising : \E k \in DOMAIN list : list[k] = f[i]
      /\ \A k \in DOMAIN list : \E i \in raising : list[k] = f[i]
  BY <1>9, HoursFound
<1>11. \A i \in raising : f[i].fingerprint = HealthFingerprint(forecast, Newest(i))
  BY <1>4, <1>5
<1>12. Fingerprints(list) = {HealthFingerprint(forecast, Newest(i)) : i \in raising}
  <2>1. ASSUME NEW x \in Fingerprints(list)
        PROVE  x \in {HealthFingerprint(forecast, Newest(i)) : i \in raising}
    <3>1. PICK k \in DOMAIN list : x = list[k].fingerprint
      BY DEF Fingerprints
    <3>2. PICK i \in raising : list[k] = f[i]
      BY <1>a
    <3> QED
      BY <1>11, <3>1, <3>2
  <2>2. ASSUME NEW i \in raising
        PROVE  HealthFingerprint(forecast, Newest(i)) \in Fingerprints(list)
    <3>1. PICK k \in DOMAIN list : list[k] = f[i]
      BY <1>a
    <3>2. list[k].fingerprint = HealthFingerprint(forecast, Newest(i))
      BY <1>11, <3>1
    <3> QED
      BY <3>2 DEF Fingerprints
  <2> QED
    BY <2>1, <2>2
<1> QED
  BY <1>10, <1>12 DEF list, raising, Newest

(* combined_context_alert_candidates names its component in each           *)
(* fingerprint.                                                            *)
LEMMA CombinedListed ==
  ASSUME NEW forecast, NEW components, NEW health, Distinct(components)
  PROVE  /\ Distinct(CombinedCandidates(forecast, components, health))
         /\ OfRules(CombinedCandidates(forecast, components, health), {CombinedRule})
<1> DEFINE list == CombinedCandidates(forecast, components, health)
<1>1. CASE health = <<>>
  <2>1. list = <<>>
    BY <1>1 DEF CombinedCandidates
  <2> HIDE DEF list
  <2>2. list \in Seq({}) /\ Len(list) = 0
    BY <2>1
  <2>3. Distinct(list)
    BY <2>2 DEF Distinct
  <2>4. OfRules(list, {CombinedRule})
    BY <2>2 DEF OfRules
  <2> QED
    BY <2>3, <2>4 DEF list
<1>2. CASE health # <<>>
  <2> DEFINE source == LinkedSource(health)
             Of(component) == Candidate("combined_context",
                          IF Rank(component.severity) >= Rank(source.severity)
                          THEN component.severity ELSE source.severity,
                          <<"combined_forecast_and_source_health_context", forecast.id,
                            component.fingerprint, source.fingerprint>>)
             U == {Of(components[i]) : i \in DOMAIN components}
  <2>1. list = [i \in DOMAIN components |-> Of(components[i])]
    BY <1>2 DEF CombinedCandidates
  <2>2. Len(components) \in Nat /\ DOMAIN components = 1..Len(components)
    BY DEF Distinct
  <2>3. \A i \in 1..Len(components) : /\ Of(components[i]).fingerprint[1] = CombinedRule
                                      /\ Of(components[i]).fingerprint[3] = components[i].fingerprint
    BY DEF Candidate, CombinedRule
  <2> HIDE DEF Of, list
  <2>4. list \in Seq(U) /\ Len(list) = Len(components)
    BY <2>1, <2>2
  <2>5. \A i \in 1..Len(components) : list[i] = Of(components[i])
    BY <2>1, <2>2
  <2>6. ASSUME NEW i \in 1..Len(list), NEW j \in 1..Len(list), list[i].fingerprint = list[j].fingerprint
        PROVE  i = j
    <3>1. list[i] = Of(components[i]) /\ list[j] = Of(components[j])
      BY <2>4, <2>5
    <3>2. Of(components[i]).fingerprint[3] = Of(components[j]).fingerprint[3]
      BY <2>6, <3>1, Zenon
    <3>3. components[i].fingerprint = components[j].fingerprint
      BY <2>3, <2>4, <3>2
    <3> QED
      BY <2>4, <3>3 DEF Distinct
  <2>7. Distinct(list)
    BY <2>4, <2>6 DEF Distinct
  <2>8. OfRules(list, {CombinedRule})
    BY <2>3, <2>4, <2>5 DEF OfRules
  <2> QED
    BY <2>7, <2>8 DEF list
<1> QED
  BY <1>1, <1>2

(* The candidates of a forecast, of all five rules, are distinct.          *)
LEMMA CandidatesListed ==
  ASSUME NEW forecasts, NEW quality, Dated(quality), NEW forecast, HourlyForecast(forecast)
  PROVE  Distinct(AlertCandidates(forecasts, quality, forecast))
<1> DEFINE demand == HighDemandCandidates(forecast)
           ramp == RampCandidates(forecast)
           deviation == DeviationCandidates(forecasts, forecast)
           health == HealthCandidates(quality, forecast)
           combined == CombinedCandidates(forecast, demand \o ramp, health)
<1>1. Distinct(demand) /\ OfRules(demand, {DemandRule})
  BY DemandListed
<1>2. Distinct(ramp) /\ OfRules(ramp, {RampRule})
  BY RampsListed
<1>3. Distinct(deviation) /\ OfRules(deviation, {DeviationRule})
  BY DeviationsListed
<1>4. Distinct(health) /\ OfRules(health, {HealthRule})
  BY HealthListed
<1>5. /\ {DemandRule} \cap {RampRule} = {}
      /\ ({DemandRule} \cup {RampRule}) \cap {DeviationRule} = {}
      /\ ({DemandRule} \cup {RampRule} \cup {DeviationRule}) \cap {HealthRule} = {}
      /\ ({DemandRule} \cup {RampRule} \cup {DeviationRule} \cup {HealthRule}) \cap {CombinedRule} = {}
  BY DEF DemandRule, RampRule, DeviationRule, HealthRule, CombinedRule
<1> HIDE DEF demand, ramp, deviation, health, combined
<1>6. Distinct(demand \o ramp) /\ OfRules(demand \o ramp, {DemandRule} \cup {RampRule})
  BY <1>1, <1>2, <1>5, DistinctTogether
<1>7. Distinct(combined) /\ OfRules(combined, {CombinedRule})
  BY <1>6, CombinedListed DEF combined
<1>8. /\ Distinct(demand \o ramp \o deviation)
      /\ OfRules(demand \o ramp \o deviation, {DemandRule} \cup {RampRule} \cup {DeviationRule})
  BY <1>3, <1>5, <1>6, DistinctTogether
<1>9. /\ Distinct(demand \o ramp \o deviation \o health)
      /\ OfRules(demand \o ramp \o deviation \o health,
                 {DemandRule} \cup {RampRule} \cup {DeviationRule} \cup {HealthRule})
  BY <1>4, <1>5, <1>8, DistinctTogether
<1>10. Distinct(demand \o ramp \o deviation \o health \o combined)
  BY <1>5, <1>7, <1>9, DistinctTogether
<1> QED
  BY <1>10 DEF AlertCandidates, demand, ramp, deviation, health, combined

(* A list of distinct fingerprints has as many as it is long. *)
LEMMA DistinctCount ==
  ASSUME NEW s, Distinct(s)
  PROVE  Cardinality(Fingerprints(s)) = Len(s)
<1> DEFINE T == Fingerprints(s)
           f == [i \in 1..Len(s) |-> s[i].fingerprint]
<1>1. Len(s) \in Nat /\ DOMAIN s = 1..Len(s)
  BY DEF Distinct
<1>2. IsFiniteSet(1..Len(s)) /\ Cardinality(1..Len(s)) = Len(s)
  <2>1. PICK n \in Nat : n = Len(s)
    BY <1>1
  <2>2. 1 \in Int /\ n \in Int
    OBVIOUS
  <2>3. IsFiniteSet(1..n)
    BY <2>2, FS_Interval
  <2>4. Cardinality(1..n) = IF 1 > n THEN 0 ELSE n - 1 + 1
    BY <2>2, FS_Interval
  <2>5. Cardinality(1..n) = n
    BY <2>4
  <2> QED
    BY <2>1, <2>3, <2>5
<1>3. T = {s[i].fingerprint : i \in 1..Len(s)}
  BY <1>1 DEF Fingerprints
<1>4. f \in [1..Len(s) -> T] /\ \A i \in 1..Len(s) : f[i] = s[i].fingerprint
  BY <1>3
<1> HIDE DEF f
<1>5. f \in Injection(1..Len(s), T)
  BY <1>4 DEF Injection, IsInjective, Distinct
<1>6. f \in Surjection(1..Len(s), T)
  <2>1. \A x \in T : \E i \in 1..Len(s) : f[i] = x
    BY <1>3, <1>4
  <2> QED
    BY <1>4, <2>1 DEF Surjection
<1>7. ExistsBijection(1..Len(s), T)
  BY <1>5, <1>6 DEF ExistsBijection, Bijection
<1> QED
  BY <1>2, <1>7, FS_Bijection

(* The inputs of the alert rules: forecasts of hours, and quality runs of  *)
(* which no two have one identity.                                         *)
Alertable(a) ==
    /\ \A f \in a.forecasts : HourlyForecast(f)
    /\ Dated(a.quality) /\ Dated(a.quality \cup {a.next})
    /\ \E i \in DOMAIN Datasets : a.next.dataset = Datasets[i]

InputIsAlertable == topic = "alerts" => input \in AlertInputs

(* FingerprintsDistinct, for any forecasts of hours, thresholds and        *)
(* quality runs: evaluate_alert_candidates lists no fingerprint twice.     *)
THEOREM AlertsListOnce ==
  ASSUME \A a \in AlertInputs : Alertable(a)
  PROVE  Spec => []FingerprintsDistinct
<1>1. Init => InputIsAlertable
  BY DEF Init, InputIsAlertable
<1>2. InputIsAlertable /\ [Next]_vars => InputIsAlertable'
  BY DEF InputIsAlertable, Next, Look, vars
<1>3. InputIsAlertable => FingerprintsDistinct
  <2> SUFFICES ASSUME topic = "alerts", input \in AlertInputs, NEW forecast \in input.forecasts
               PROVE  LET candidates == AlertCandidates(input.forecasts, input.quality, forecast)
                      IN  Cardinality(Fingerprints(candidates)) = Len(candidates)
    BY DEF InputIsAlertable, FingerprintsDistinct
  <2>1. HourlyForecast(forecast) /\ Dated(input.quality)
    BY DEF Alertable
  <2>2. Distinct(AlertCandidates(input.forecasts, input.quality, forecast))
    BY <2>1, CandidatesListed
  <2> QED
    BY <2>2, DistinctCount
<1> QED
  BY <1>1, <1>2, <1>3, PTL DEF Spec

(* The latest check of each dataset once another run has checked one. *)
LEMMA LatestAfter ==
  ASSUME NEW quality, Dated(quality), NEW next, Timed(next),
         LaterCheck(quality, next),
         NEW dataset
  PROVE  LET more == quality \cup {next}
         IN  /\ dataset = next.dataset => Checked(more, dataset) /\ LatestRun(more, dataset) = next
             /\ dataset # next.dataset =>
                   /\ Checked(more, dataset) <=> Checked(quality, dataset)
                   /\ Checked(quality, dataset) => LatestRun(more, dataset) = LatestRun(quality, dataset)
<1> DEFINE more == quality \cup {next}
           S == {r \in more : r.dataset = dataset}
           Leads(run) == \A other \in more \ {run} : other.dataset = dataset => ComesFirst(run, other)
<1>1. LatestRun(more, dataset) = CHOOSE run \in S : Leads(run)
  BY DEF LatestRun
<1>2. \A run \in more : Timed(run)
  BY DEF Dated
<1>3. \A r \in S : r \in more /\ r.dataset = dataset
  OBVIOUS
<1>4. \A r \in more : r.dataset = dataset => r \in S
  OBVIOUS
<1>5. \A x, y \in S : Leads(x) /\ Leads(y) => x = y
  <2> SUFFICES ASSUME NEW x \in S, NEW y \in S, Leads(x), Leads(y), x # y PROVE FALSE
    OBVIOUS
  <2>1. ComesFirst(x, y) /\ ComesFirst(y, x) /\ Timed(x) /\ Timed(y)
    BY <1>2
  <2> QED
    BY <2>1, FirstIsOrder
<1> HIDE DEF S
<1>6. CASE dataset = next.dataset
  <2>1. \A other \in more \ {next} : other.dataset = dataset => ComesFirst(next, other)
    <3> SUFFICES ASSUME NEW other \in quality, other.dataset = dataset
                 PROVE  ComesFirst(next, other)
      OBVIOUS
    <3>1. other.completed # None /\ CheckedAt(other) < CheckedAt(next) /\ Timed(other)
      BY <1>2, <1>6 DEF LaterCheck
    <3> QED
      BY <3>1, NoneAssumption DEF Timed, CheckedAt, ComesFirst
  <2>2. next \in S /\ Leads(next)
    BY <1>4, <1>6, <2>1
  <2>3. Checked(more, dataset)
    BY <1>6 DEF Checked
  <2> HIDE DEF Leads
  <2>4. LatestRun(more, dataset) = next
    BY <1>1, <1>5, <2>2
  <2> QED
    BY <1>6, <2>3, <2>4
<1>7. CASE dataset # next.dataset
  <2>1. Checked(more, dataset) <=> Checked(quality, dataset)
    BY <1>7 DEF Checked
  <2>2. ASSUME Checked(quality, dataset) PROVE LatestRun(more, dataset) = LatestRun(quality, dataset)
    <3> DEFINE run == LatestRun(quality, dataset)
    <3>1. /\ run \in quality /\ run.dataset = dataset
          /\ \A other \in quality : other # run /\ other.dataset = dataset => ComesFirst(run, other)
      BY <2>2, LatestIs
    <3> HIDE DEF run
    <3>2. run \in S /\ Leads(run)
      BY <1>4, <1>7, <3>1
    <3> HIDE DEF Leads
    <3>3. LatestRun(more, dataset) = run
      BY <1>1, <1>5, <3>2
    <3> QED
      BY <3>3 DEF run
  <2> QED
    BY <1>7, <2>1, <2>2
<1> QED
  BY <1>6, <1>7

(* What is raised of the datasets that were not checked again is what was  *)
(* raised before.                                                          *)
LEMMA RaisedAnew ==
  ASSUME NEW quality, Dated(quality), NEW next, Dated(quality \cup {next}), NEW forecast,
         \E i \in DOMAIN Datasets : next.dataset = Datasets[i],
         LaterCheck(quality, next),
         HealthSeverity(next) # None
  PROVE  LET before == HealthCandidates(quality, forecast)
             after == HealthCandidates(quality \cup {next}, forecast)
         IN  Fingerprints(after) \ Fingerprints(before) = {HealthFingerprint(forecast, next)}
<1> DEFINE more == quality \cup {next}
           Old(i) == LatestRun(quality, Datasets[i])
           New(i) == LatestRun(more, Datasets[i])
           raised == {i \in DOMAIN Datasets : /\ Checked(quality, Datasets[i])
                                              /\ HealthSeverity(Old(i)) # None}
           raising == {i \in DOMAIN Datasets : /\ Checked(more, Datasets[i])
                                               /\ HealthSeverity(New(i)) # None}
           before == Fingerprints(HealthCandidates(quality, forecast))
           after == Fingerprints(HealthCandidates(more, forecast))
           anew == HealthFingerprint(forecast, next)
<1>1. before = {HealthFingerprint(forecast, Old(i)) : i \in raised}
  BY HealthListed
<1>2. after = {HealthFingerprint(forecast, New(i)) : i \in raising}
  BY HealthListed
<1>3. PICK d \in DOMAIN Datasets : next.dataset = Datasets[d]
  OBVIOUS
<1>4. DOMAIN Datasets = 1..5 /\ \A i, j \in 1..5 : Datasets[i] = Datasets[j] => i = j
  BY DEF Datasets
<1>t. Timed(next)
  BY DEF Dated
<1>5. Checked(more, Datasets[d]) /\ New(d) = next
  BY <1>t, <1>3, LatestAfter
<1>6. \A i \in DOMAIN Datasets : i # d =>
         /\ Checked(more, Datasets[i]) <=> Checked(quality, Datasets[i])
         /\ Checked(quality, Datasets[i]) => New(i) = Old(i)
  <2> SUFFICES ASSUME NEW i \in DOMAIN Datasets, i # d
               PROVE  /\ Checked(more, Datasets[i]) <=> Checked(quality, Datasets[i])
                      /\ Checked(quality, Datasets[i]) => New(i) = Old(i)
    OBVIOUS
  <2>1. Datasets[i] # next.dataset
    BY <1>3, <1>4
  <2> QED
    BY <1>t, <2>1, LatestAfter
<1>7. \A i \in raised : /\ Old(i) \in quality /\ Old(i).dataset = Datasets[i]
                        /\ i \in DOMAIN Datasets
  BY LatestIs
<1>8. d \in raising
  BY <1>5
<1>9. \A i \in DOMAIN Datasets : i # d => (i \in raising <=> i \in raised)
  BY <1>6
<1>10. \A i \in raising : i \in DOMAIN Datasets
  OBVIOUS
<1>11. \A run : /\ HealthFingerprint(forecast, run)[3] = run.dataset
                /\ HealthFingerprint(forecast, run)[4] = CheckedAt(run)
  BY DEF HealthFingerprint
<1>12. CheckedAt(next) \in Int /\ \A q \in quality : CheckedAt(q) \in Int
  BY <1>t DEF Dated, Timed, CheckedAt
<1>a. \A i \in raised : Checked(quality, Datasets[i])
  OBVIOUS
<1> HIDE DEF more, Old, New, raised, raising, before, after, anew
<1>13. anew \in after
  BY <1>2, <1>5, <1>8 DEF anew
<1>14. anew \notin before
  <2> SUFFICES ASSUME NEW i \in raised, anew = HealthFingerprint(forecast, Old(i)) PROVE FALSE
    BY <1>1
  <2>1. next.dataset = Old(i).dataset /\ CheckedAt(next) = CheckedAt(Old(i))
    BY <1>11 DEF anew
  <2>2. Old(i) \in quality /\ CheckedAt(Old(i)) < CheckedAt(next)
    BY <1>7, <2>1 DEF LaterCheck
  <2> QED
    BY <1>12, <2>1, <2>2
<1>15. ASSUME NEW x \in after, x # anew PROVE x \in before
  <2>1. PICK i \in raising : x = HealthFingerprint(forecast, New(i))
    BY <1>2
  <2>2. i # d
    BY <1>5, <1>15, <2>1 DEF anew
  <2>3. i \in raised /\ New(i) = Old(i)
    BY <1>6, <1>9, <1>10, <1>a, <2>2
  <2> QED
    BY <1>1, <2>1, <2>3
<1>16. after \ before = {anew}
  BY <1>13, <1>14, <1>15
<1> QED
  BY <1>16 DEF after, before, anew, more

(* Of any quality runs and any forecast, a later check of a dataset that   *)
(* finds it unhealthy adds exactly one source-health fingerprint, its own, *)
(* whatever the checks before it found (source_health_alert_candidates).   *)
(* So the same finding is a new condition each time it is made.            *)
THEOREM ChecksRaiseAnew ==
  ASSUME \A a \in AlertInputs : Alertable(a)
  PROVE  Spec => [](topic = "alerts" =>
            \A forecast \in input.forecasts :
               LaterCheck(input.quality, input.next) /\ HealthSeverity(input.next) # None =>
                  Fingerprints(HealthCandidates(input.quality \cup {input.next}, forecast))
                     \ Fingerprints(HealthCandidates(input.quality, forecast))
                  = {HealthFingerprint(forecast, input.next)})
<1> DEFINE Anew ==
        topic = "alerts" =>
            \A forecast \in input.forecasts :
               LaterCheck(input.quality, input.next) /\ HealthSeverity(input.next) # None =>
                  Fingerprints(HealthCandidates(input.quality \cup {input.next}, forecast))
                     \ Fingerprints(HealthCandidates(input.quality, forecast))
                  = {HealthFingerprint(forecast, input.next)}
<1>1. Init => InputIsAlertable
  BY DEF Init, InputIsAlertable
<1>2. InputIsAlertable /\ [Next]_vars => InputIsAlertable'
  BY DEF InputIsAlertable, Next, Look, vars
<1>3. InputIsAlertable => Anew
  <2> SUFFICES ASSUME topic = "alerts", input \in AlertInputs, NEW forecast \in input.forecasts,
                      LaterCheck(input.quality, input.next),
                      HealthSeverity(input.next) # None
               PROVE  Fingerprints(HealthCandidates(input.quality \cup {input.next}, forecast))
                        \ Fingerprints(HealthCandidates(input.quality, forecast))
                      = {HealthFingerprint(forecast, input.next)}
    BY DEF InputIsAlertable
  <2>1. /\ Dated(input.quality) /\ Dated(input.quality \cup {input.next})
        /\ \E i \in DOMAIN Datasets : input.next.dataset = Datasets[i]
    BY DEF Alertable
  <2> QED
    BY <2>1, RaisedAnew
<1> HIDE DEF Anew
<1>4. Spec => []Anew
  BY <1>1, <1>2, <1>3, PTL DEF Spec
<1> QED
  BY <1>4 DEF Anew
=============================================================================
