-------------------------- MODULE EvaluationProofs --------------------------
(***************************************************************************)
(* Theorems about the calculations behind forecasts and their evaluation,  *)
(* for every input the program computes them from: what a snapshot and a   *)
(* baseline know of the future (point in time), which hours a backtest     *)
(* trains on and evaluates (backtests), what metrics and monitoring        *)
(* summaries say of their slices (sums, metrics), when a model is selected *)
(* (selection), and what forecast outputs and scenarios add up to          *)
(* (outputs, scenarios).                                                   *)
(*                                                                         *)
(* A sum over a set is a fold, which takes the elements in some order.     *)
(* The section on sums shows by induction over finite sets that a sum is   *)
(* the one function that adds up (TotalByFold, TotalOfFirst), hence that   *)
(* the order does not matter (TotalOfOne) and that it can be regrouped     *)
(* (TotalOfParts, TotalOfGroups).                                          *)
(***************************************************************************)
EXTENDS Algorithms, FiniteInduction, TLAPS

(* Point in time *)

(* What the demand loader stores: intervals of one hour. *)
HourlyRows(demand) ==
    \A r \in demand : r.start \in Int /\ r.end = r.start + Hour /\ r.mw \in Int

-----------------------------------------------------------------------------
(* The horizon *)

(* The next whole hour lies after t, and no more than an hour after it.    *)
LEMMA NextHour ==
  ASSUME NEW t \in Int
  PROVE  /\ NextHourAfter(t) \in Int
         /\ t < NextHourAfter(t)
         /\ NextHourAfter(t) =< t + Hour
BY HourAssumption DEF NextHourAfter

(* A product of naturals is a natural. *)
LEMMA HoursAreNatural ==
  ASSUME NEW n \in Nat
  PROVE  n * Hour \in Nat
BY HourAssumption

(* The target of a lead starts after the issue time. *)
LEMMA TargetsLieAhead ==
  ASSUME NEW issue \in Int, NEW hours \in Nat, NEW target \in Horizon(issue, hours)
  PROVE  target.start \in Int /\ issue < target.start
<1>1. PICK lead \in 1..hours : target = Target(issue, lead)
  BY DEF Horizon
<1>2. (lead - 1) * Hour \in Nat
  BY HoursAreNatural
<1>3. target.start = NextHourAfter(issue) + (lead - 1) * Hour
  BY <1>1 DEF Target
<1> QED
  BY <1>2, <1>3, NextHour

-----------------------------------------------------------------------------
(* No leakage *)

(* What is known does not change when later rows are taken away. *)
LEMMA HistoryIsPast ==
  ASSUME NEW demand, NEW issue
  PROVE  DemandHistory({r \in demand : r.end =< issue}, issue) = DemandHistory(demand, issue)
BY DEF DemandHistory

(* So are the demand features, ... *)
LEMMA FeaturesArePast ==
  ASSUME NEW demand, NEW issue, NEW start
  PROVE  DemandFeatures({r \in demand : r.end =< issue}, issue, start)
            = DemandFeatures(demand, issue, start)
BY HistoryIsPast DEF DemandFeatures, SafeLag, RollingRows

(* ... the weather observations ... *)
LEMMA ObservationsArePast ==
  ASSUME NEW observations, NEW issue
  PROVE  ObservationsAsOf({r \in observations : r.at =< issue}, issue)
            = ObservationsAsOf(observations, issue)
<1> DEFINE past == {r \in observations : r.at =< issue}
<1>1. {r \in past : r.current /\ r.at =< issue} = {r \in observations : r.current /\ r.at =< issue}
  OBVIOUS
<1> HIDE DEF past
<1> QED
  BY <1>1 DEF ObservationsAsOf, past

(* ... and the weather forecasts. *)
LEMMA ForecastsArePast ==
  ASSUME NEW forecasts, NEW issue, NEW times
  PROVE  ForecastsAsOf({r \in forecasts : r.issued =< issue}, issue, times)
            = ForecastsAsOf(forecasts, issue, times)
<1> DEFINE past == {r \in forecasts : r.issued =< issue}
<1>1. {r \in past : r.current /\ r.issued =< issue /\ r.valid \in times}
        = {r \in forecasts : r.current /\ r.issued =< issue /\ r.valid \in times}
  OBVIOUS
<1> HIDE DEF past
<1> QED
  BY <1>1 DEF ForecastsAsOf, past

(* A snapshot is a function of what was known at its issue time: the       *)
(* demand that had ended, the observations made and the forecasts issued   *)
(* by then (feature_snapshots.py, asof.py).                                *)
THEOREM NoLeakage ==
  ASSUME NEW demand, NEW observations, NEW forecasts, NEW issue, NEW hours
  PROVE  Snapshot(demand, observations, forecasts, issue, hours) =
           Snapshot({r \in demand : r.end =< issue},
                    {r \in observations : r.at =< issue},
                    {r \in forecasts : r.issued =< issue}, issue, hours)
<1> DEFINE pastDemand == {r \in demand : r.end =< issue}
           pastObservations == {r \in observations : r.at =< issue}
           pastForecasts == {r \in forecasts : r.issued =< issue}
           starts == {target.start : target \in Horizon(issue, hours)}
<1>1. \A start : DemandFeatures(pastDemand, issue, start) = DemandFeatures(demand, issue, start)
  BY FeaturesArePast
<1>2. ObservationsAsOf(pastObservations, issue) = ObservationsAsOf(observations, issue)
  BY ObservationsArePast
<1>3. ForecastsAsOf(pastForecasts, issue, starts) = ForecastsAsOf(forecasts, issue, starts)
  BY ForecastsArePast
<1> HIDE DEF pastDemand, pastObservations, pastForecasts
<1> DEFINE payload(d, o, f, target) ==
             [target |-> target,
              demand |-> DemandFeatures(d, issue, target.start),
              observations |-> ObservationsAsOf(o, issue),
              forecasts |-> {r \in ForecastsAsOf(f, issue, starts) : r.valid = target.start}]
<1>4. \A target : payload(demand, observations, forecasts, target)
                    = payload(pastDemand, pastObservations, pastForecasts, target)
  BY <1>1, <1>2, <1>3
<1>5. /\ Snapshot(demand, observations, forecasts, issue, hours)
            = {payload(demand, observations, forecasts, target) : target \in Horizon(issue, hours)}
      /\ Snapshot(pastDemand, pastObservations, pastForecasts, issue, hours)
            = {payload(pastDemand, pastObservations, pastForecasts, target) :
                  target \in Horizon(issue, hours)}
  BY DEF Snapshot
<1> HIDE DEF payload
<1>6. Snapshot(demand, observations, forecasts, issue, hours)
        = Snapshot(pastDemand, pastObservations, pastForecasts, issue, hours)
  BY <1>4, <1>5
<1> QED
  BY <1>6 DEF pastDemand, pastObservations, pastForecasts

(* NothingLaterIsSeen holds in every behaviour, whatever inputs are given. *)
THEOREM NothingLaterIsEverSeen == Spec => []NothingLaterIsSeen
<1>1. NothingLaterIsSeen
  BY NoLeakage DEF NothingLaterIsSeen
<1> QED
  BY <1>1, PTL

-----------------------------------------------------------------------------
(* Rows that are built *)

(* No demand row of the hour before a target has ended at the issue time.  *)
LEMMA HourBeforeUnknown ==
  ASSUME NEW demand, HourlyRows(demand),
         NEW issue \in Int, NEW hours \in Nat, NEW target \in Horizon(issue, hours)
  PROVE  SafeLag(demand, issue, target.start, 1) = None
<1>1. target.start \in Int /\ issue < target.start
  BY TargetsLieAhead
<1>2. ASSUME NEW r \in DemandHistory(demand, issue), r.start = target.start - 1 * Hour
      PROVE  FALSE
  <2>1. r \in demand /\ r.end =< issue
    BY DEF DemandHistory
  <2>2. r.end = target.start
    BY <1>1, <1>2, <2>1, HourAssumption DEF HourlyRows
  <2> QED
    BY <1>1, <2>1, <2>2
<1>3. {r \in DemandHistory(demand, issue) : r.start = target.start - 1 * Hour} = {}
  BY <1>2
<1> QED
  BY <1>3 DEF SafeLag, DemandAt

(* No row that build-features stores can be trained on or forecast from:   *)
(* the first hour of a horizon starts after the issue time, so the hour    *)
(* before any target has not ended by then, and a vector needs it          *)
(* (horizons.py:50, feature_snapshots.py, candidate_models.py).            *)
THEOREM NoBuiltRowIsTrainable ==
  ASSUME NEW demand, HourlyRows(demand), NEW observations, NEW forecasts,
         NEW issue \in Int, NEW hours \in Nat, NEW from, NEW until
  PROVE  CandidateRows(Snapshot(demand, observations, forecasts, issue, hours),
                       demand, from, until) = {}
<1> DEFINE rows == Snapshot(demand, observations, forecasts, issue, hours)
<1>1. ASSUME NEW row \in rows
      PROVE  ~HasVector(row.demand)
  <2>1. PICK target \in Horizon(issue, hours) :
           row.demand = DemandFeatures(demand, issue, target.start)
    BY DEF Snapshot
  <2>2. row.demand.lags[1] = SafeLag(demand, issue, target.start, 1)
    BY <2>1 DEF DemandFeatures, Lags
  <2> QED
    BY <2>2, HourBeforeUnknown DEF HasVector, Lags
<1> HIDE DEF rows
<1> QED
  BY <1>1 DEF CandidateRows, rows

-----------------------------------------------------------------------------
(* Baselines *)

(* A table in which every row is current, one for each hour it has.        *)
CurrentRows(demand) ==
    /\ HourlyRows(demand)
    /\ \A r \in demand : r.current /\ r.id \in Nat
    /\ \A r, s \in demand : r.start = s.start => r = s

(* The lag baseline of a target answers exactly when the source hour is    *)
(* stored and the lead is less than the lag: whether the hour has ended at *)
(* the issue time does not depend on where in its hour that lies.          *)
LEMMA LagAnswers ==
  ASSUME NEW demand, CurrentRows(demand),
         NEW issue \in Int, NEW lead \in Nat, NEW lag \in Nat
  PROVE  LagBaseline(demand, issue, Target(issue, lead), lag) # None <=>
            /\ Target(issue, lead).start - lag * Hour \in {r.start : r \in demand}
            /\ lead < lag
<1> DEFINE start == Target(issue, lead).start - lag * Hour
           rows == {r \in DemandHistory(demand, issue) : r.start = start}
<1>1. start = NextHourAfter(issue) + (lead - 1 - lag) * Hour
  <2>1. Target(issue, lead).start = NextHourAfter(issue) + (lead - 1) * Hour
    BY DEF Target
  <2>2. (lead - 1) * Hour - lag * Hour = (lead - 1 - lag) * Hour
    BY HourAssumption
  <2>3. (lead - 1) * Hour \in Int /\ lag * Hour \in Int
    BY HourAssumption
  <2> QED
    BY <2>1, <2>2, <2>3, NextHour
<1>2. start \in Int /\ (start + Hour =< issue <=> lead < lag)
  <2>1. NextHourAfter(issue) \in Int /\ issue < NextHourAfter(issue)
            /\ NextHourAfter(issue) =< issue + Hour
    BY NextHour
  <2>2. CASE lead < lag
    <3>1. (lag - lead - 1) * Hour \in Nat
      BY <2>2, HoursAreNatural
    <3>2. (lead - 1 - lag) * Hour = 0 - (lag - lead - 1) * Hour - 2 * Hour
      BY HourAssumption
    <3> QED
      BY <1>1, <2>1, <2>2, <3>1, <3>2, HourAssumption
  <2>3. CASE ~(lead < lag)
    <3>1. (lead - lag) * Hour \in Nat
      BY <2>3, HoursAreNatural
    <3>2. (lead - 1 - lag) * Hour = (lead - lag) * Hour - Hour
      BY HourAssumption
    <3> QED
      BY <1>1, <2>1, <2>3, <3>1, <3>2, HourAssumption
  <2> QED
    BY <2>2, <2>3
<1>3. LagBaseline(demand, issue, Target(issue, lead), lag) = DemandAt(DemandHistory(demand, issue), start)
  BY DEF LagBaseline
<1> HIDE DEF start
<1>4. \A r \in demand : r.start = start => (r \in rows <=> lead < lag)
  BY <1>2, HourAssumption DEF DemandHistory, HourlyRows, CurrentRows
<1>5. ASSUME NEW r \in rows
      PROVE  DemandAt(DemandHistory(demand, issue), start) \in Int
  <2>1. r \in demand /\ r.start = start /\ r.end \in Int /\ r.id \in Nat /\ r.mw \in Int
    BY HourAssumption DEF CurrentRows, HourlyRows, DemandHistory
  <2>2. rows = {r}
    BY <2>1 DEF CurrentRows, DemandHistory
  <2>3. Latest(rows, ByEnd(rows)) = r
    BY <2>1, <2>2 DEF Latest, ByEnd
  <2> QED
    BY <2>1, <2>2, <2>3 DEF DemandAt
<1>6. rows = {} => DemandAt(DemandHistory(demand, issue), start) = None
  BY DEF DemandAt
<1>7. CASE start \in {r.start : r \in demand} /\ lead < lag
  <2>1. PICK r \in demand : r.start = start
    BY <1>7
  <2>2. r \in rows
    BY <1>4, <1>7, <2>1
  <2> QED
    BY <1>3, <1>5, <1>7, <2>2, NoneAssumption DEF start
<1>8. CASE ~(start \in {r.start : r \in demand} /\ lead < lag)
  <2>1. rows = {}
    BY <1>4, <1>8 DEF DemandHistory
  <2> QED
    BY <1>3, <1>6, <1>8, <2>1 DEF start
<1> QED
  BY <1>7, <1>8

(* The inputs of Algorithms are ones its operators are meant for. *)
InputIsSnapshot == topic = "snapshot" => input \in Snapshots

(* BaselinesUseThePast, for any tables and issue times: the baselines see  *)
(* no hour that has not ended, and the targets they answer for are those   *)
(* whose lead is less than the lag.                                        *)
THEOREM BaselinesNeverPeek ==
  ASSUME \A s \in Snapshots :
            CurrentRows(s.demand) /\ s.issue \in Int /\ s.hours \in Nat
  PROVE  Spec => []BaselinesUseThePast
<1>1. Init => InputIsSnapshot
  BY DEF Init, InputIsSnapshot
<1>2. InputIsSnapshot /\ [Next]_vars => InputIsSnapshot'
  BY DEF InputIsSnapshot, Next, Look, vars
<1>3. InputIsSnapshot => BaselinesUseThePast
  <2> SUFFICES ASSUME topic = "snapshot", input \in Snapshots,
                      NEW target \in Horizon(input.issue, input.hours)
               PROVE  /\ (SameHourYesterday(input.demand, input.issue, target) # None) <=>
                            /\ target.start - 24 * Hour \in {r.start : r \in input.demand}
                            /\ target.lead < 24
                      /\ (SameHourLastWeek(input.demand, input.issue, target) # None) <=>
                            /\ target.start - 168 * Hour \in {r.start : r \in input.demand}
                            /\ target.lead < 168
                      /\ \A r \in SeasonalRows(input.demand, input.issue, target, 0, target.end) :
                            r.end =< input.issue
    BY DEF InputIsSnapshot, BaselinesUseThePast
  <2>1. PICK lead \in 1..input.hours : target = Target(input.issue, lead)
    BY DEF Horizon
  <2>2. lead \in Nat /\ input.issue \in Int /\ CurrentRows(input.demand)
    OBVIOUS
  <2>3. target.lead = lead
    BY <2>1 DEF Target
  <2>4. \A r \in SeasonalRows(input.demand, input.issue, target, 0, target.end) :
            r.end =< input.issue
    BY DEF SeasonalRows, DemandHistory
  <2>5. LagBaseline(input.demand, input.issue, target, 24) # None <=>
            target.start - 24 * Hour \in {r.start : r \in input.demand} /\ target.lead < 24
    BY <2>1, <2>2, <2>3, LagAnswers
  <2>6. LagBaseline(input.demand, input.issue, target, 168) # None <=>
            target.start - 168 * Hour \in {r.start : r \in input.demand} /\ target.lead < 168
    BY <2>1, <2>2, <2>3, LagAnswers
  <2> QED
    BY <2>4, <2>5, <2>6 DEF SameHourYesterday, SameHourLastWeek
<1> QED
  BY <1>1, <1>2, <1>3, PTL DEF Spec

-----------------------------------------------------------------------------
(* Backtests *)

(* The configurations of the program: whole hours, and optional limits. *)
Config == [trainingStart : Int, evaluationStart : Int, evaluationEnd : Int,
           horizon : Int, step : Int, minimum : Int,
           rolling : Int \cup {None}, final : Int \cup {None}]

-----------------------------------------------------------------------------
(* Arithmetic *)

(* Two multiples of a step are equal or at least a step apart. *)
LEMMA StepsApart ==
  ASSUME NEW a \in Int, NEW b \in Int, NEW step \in Nat \ {0},
         a % step = 0, b % step = 0, a < b
  PROVE  a + step =< b
<1>1. PICK i \in Int : a = i * step
  <2>1. a = (a \div step) * step /\ a \div step \in Int
    OBVIOUS
  <2> QED
    BY <2>1
<1>2. PICK j \in Int : b = j * step
  <2>1. b = (b \div step) * step /\ b \div step \in Int
    OBVIOUS
  <2> QED
    BY <2>1
<1>3. i < j
  <2> SUFFICES ASSUME ~(i < j) PROVE FALSE
    OBVIOUS
  <2>1. (i - j) * step >= 0
    OBVIOUS
  <2> QED
    BY <1>1, <1>2, <2>1
<1>4. (j - i - 1) * step >= 0
  BY <1>3
<1> QED
  BY <1>1, <1>2, <1>4

(* The last multiple of a step up to x. *)
LEMMA StepBelow ==
  ASSUME NEW x \in Int, NEW step \in Nat \ {0}
  PROVE  /\ x - (x % step) \in Int /\ (x - (x % step)) % step = 0
         /\ x - (x % step) =< x /\ x < x - (x % step) + step
<1>1. x % step \in 0..(step - 1)
  OBVIOUS
<1>2. x = ((x \div step) * step) + (x % step) /\ x \div step \in Int
  OBVIOUS
<1>3. ((x \div step) * step) % step = 0
  BY <1>2
<1>4. x - (x % step) = (x \div step) * step
  BY <1>1, <1>2
<1> QED
  BY <1>1, <1>3, <1>4

-----------------------------------------------------------------------------
(* Windows *)

(* The parts of a configuration that is accepted. *)
LEMMA ConfigParts ==
  ASSUME NEW config \in Config, ValidConfig(config)
  PROVE  /\ config.trainingStart \in Int /\ config.evaluationStart \in Int
         /\ config.trainingStart < config.evaluationStart
         /\ config.step \in Nat \ {0} /\ config.horizon \in Nat \ {0}
         /\ config.minimum \in Nat
         /\ EvaluationLimit(config) \in Int
         /\ config.final # None =>
              config.final \in Int /\ EvaluationLimit(config) =< config.final
<1>1. /\ config.evaluationEnd \in Int
      /\ config.final = None \/ config.final \in Int
  BY DEF Config
<1>2. EvaluationLimit(config) \in Int
  BY <1>1 DEF EvaluationLimit, Lesser
<1>3. config.final # None => config.final \in Int /\ EvaluationLimit(config) =< config.final
  BY <1>1, NoneAssumption DEF EvaluationLimit, Lesser
<1> QED
  BY <1>2, <1>3 DEF Config, ValidConfig

(* The issue times that get a window. *)
Issued(config) == {t \in IssueTimes(config) : t - config.trainingStart >= config.minimum}

(* They lie on the grid of steps, late enough for a whole training window. *)
LEMMA IssuedParts ==
  ASSUME NEW config \in Config, ValidConfig(config), NEW t
  PROVE  t \in Issued(config) <=>
            /\ t \in Int
            /\ config.evaluationStart =< t /\ t < EvaluationLimit(config)
            /\ (t - config.evaluationStart) % config.step = 0
            /\ config.trainingStart + config.minimum =< t
BY ConfigParts DEF Issued, IssueTimes

(* A window, by its issue time. *)
LEMMA WindowParts ==
  ASSUME NEW config, NEW w \in Windows(config)
  PROVE  /\ w.issue \in Issued(config)
         /\ w.trainingStart = TrainingStart(config, w.issue)
         /\ w.evaluationEnd = Lesser(w.issue + config.horizon, EvaluationLimit(config))
BY DEF Windows, Issued

(* Each issue time that qualifies gets its window. *)
LEMMA WindowOf ==
  ASSUME NEW config, NEW t \in Issued(config)
  PROVE  \E w \in Windows(config) : w.issue = t
<1> DEFINE w == [trainingStart |-> TrainingStart(config, t),
                 issue |-> t,
                 evaluationEnd |-> Lesser(t + config.horizon, EvaluationLimit(config))]
<1>1. w \in Windows(config)
  BY DEF Windows, Issued
<1>2. w.issue = t
  OBVIOUS
<1> QED
  BY <1>1, <1>2

(* Two windows of one issue time are one window. *)
LEMMA WindowsByIssue ==
  ASSUME NEW config, NEW v \in Windows(config), NEW w \in Windows(config), v.issue = w.issue
  PROVE  v = w
BY DEF Windows

(* A window evaluates at least an hour, after it began to train, and none  *)
(* of the final test period.                                               *)
LEMMA WindowsSound ==
  ASSUME NEW config \in Config, ValidConfig(config), NEW w \in Windows(config)
  PROVE  /\ w.issue \in Int /\ w.evaluationEnd \in Int
         /\ w.issue < w.evaluationEnd /\ w.evaluationEnd =< EvaluationLimit(config)
         /\ w.evaluationEnd =< w.issue + config.horizon
         /\ w.trainingStart < w.issue
<1>1. /\ w.issue \in Int /\ config.evaluationStart =< w.issue
      /\ w.issue < EvaluationLimit(config)
  BY WindowParts, IssuedParts
<1>2. /\ w.evaluationEnd \in Int /\ w.issue < w.evaluationEnd
      /\ w.evaluationEnd =< EvaluationLimit(config)
      /\ w.evaluationEnd =< w.issue + config.horizon
  BY <1>1, WindowParts, ConfigParts DEF Lesser
<1>3. config.rolling = None \/ (config.rolling \in Int /\ config.rolling > 0)
  BY DEF Config, ValidConfig
<1>4. w.trainingStart < w.issue
  BY <1>1, <1>3, WindowParts, ConfigParts DEF TrainingStart, Greater
<1> QED
  BY <1>1, <1>2, <1>4

(* Windows a horizon apart evaluate no hour twice. *)
LEMMA WindowsDisjoint ==
  ASSUME NEW config \in Config, ValidConfig(config), config.step = config.horizon,
         NEW v \in Windows(config), NEW w \in Windows(config), v.issue < w.issue
  PROVE  v.evaluationEnd =< w.issue
<1>1. /\ v.issue \in Int /\ w.issue \in Int
      /\ (v.issue - config.evaluationStart) % config.step = 0
      /\ (w.issue - config.evaluationStart) % config.step = 0
  BY WindowParts, IssuedParts
<1>2. config.evaluationStart \in Int /\ config.step \in Nat \ {0}
  BY ConfigParts
<1>3. v.issue - config.evaluationStart + config.step =< w.issue - config.evaluationStart
  BY <1>1, <1>2, StepsApart
<1> QED
  BY <1>1, <1>2, <1>3, WindowsSound

(* The first issue time that has enough to train on. *)
Reach(config) ==
    Greater(0, config.trainingStart + config.minimum - config.evaluationStart) + config.step - 1
Earliest(config) == config.evaluationStart + (Reach(config) - (Reach(config) % config.step))

(* The first point of the grid that is late enough qualifies, if any does. *)
LEMMA EarliestIsLeast ==
  ASSUME NEW config \in Config, ValidConfig(config), NEW t \in Issued(config)
  PROVE  Earliest(config) \in Issued(config) /\ Earliest(config) =< t
<1> DEFINE need == Greater(0, config.trainingStart + config.minimum - config.evaluationStart)
           below == Reach(config) - (Reach(config) % config.step)
           from == config.evaluationStart
<1>1. /\ config.trainingStart \in Int /\ from \in Int /\ config.step \in Nat \ {0}
      /\ config.minimum \in Nat /\ EvaluationLimit(config) \in Int
  BY ConfigParts
<1>2. need \in Nat /\ config.trainingStart + config.minimum - from =< need
      /\ (need = 0 \/ need = config.trainingStart + config.minimum - from)
  BY <1>1 DEF Greater
<1>3. Reach(config) = need + config.step - 1 /\ Reach(config) \in Int
  BY <1>1, <1>2 DEF Reach
<1>4. /\ t \in Int /\ from =< t /\ t < EvaluationLimit(config)
      /\ (t - from) % config.step = 0 /\ config.trainingStart + config.minimum =< t
  BY IssuedParts
<1>5. /\ below \in Int /\ below % config.step = 0 /\ below =< Reach(config)
      /\ Reach(config) < below + config.step
  BY <1>1, <1>3, StepBelow
<1> HIDE DEF need, below, from
<1>6. need =< below /\ below < need + config.step
  BY <1>1, <1>2, <1>3, <1>5
<1>7. need =< t - from
  BY <1>1, <1>2, <1>4
<1>8. below =< t - from
  <2> SUFFICES ASSUME t - from < below PROVE FALSE
    BY <1>1, <1>4, <1>5
  <2>1. (t - from) + config.step =< below
    BY <1>1, <1>4, <1>5, StepsApart
  <2>2. t \in Int /\ from \in Int /\ below \in Int /\ need \in Int /\ config.step \in Int
    BY <1>1, <1>2, <1>4, <1>5
  <2> QED
    BY <1>6, <1>7, <2>1, <2>2
<1>9. Earliest(config) = from + below
  BY DEF Earliest, below, from
<1>10. Earliest(config) - from = below
  BY <1>1, <1>5, <1>9
<1>11. /\ Earliest(config) \in Int /\ from =< Earliest(config)
       /\ Earliest(config) =< t /\ config.trainingStart + config.minimum =< Earliest(config)
  BY <1>1, <1>2, <1>4, <1>5, <1>6, <1>8, <1>9
<1> QED
  BY <1>1, <1>4, <1>5, <1>10, <1>11, IssuedParts DEF from

-----------------------------------------------------------------------------
(* EvaluationNeverTrained *)

(* The hours a window evaluates, as EvaluationNeverTrained counts them. *)
Evaluated(w) == w.issue..(w.evaluationEnd - 1)

(* With a step as long as the horizon, every hour from the first issue     *)
(* time up to the limit is evaluated.                                      *)
LEMMA WindowsCover ==
  ASSUME NEW config \in Config, ValidConfig(config), config.step = config.horizon,
         Windows(config) # {}
  PROVE  UNION {Evaluated(w) : w \in Windows(config)}
            = Min({w.issue : w \in Windows(config)})..(EvaluationLimit(config) - 1)
<1> DEFINE first == Earliest(config)
           from == config.evaluationStart
<1>1. /\ config.trainingStart \in Int /\ from \in Int /\ config.step \in Nat \ {0}
      /\ EvaluationLimit(config) \in Int /\ config.minimum \in Nat
  BY ConfigParts
<1>2. first \in Issued(config) /\ \A t \in Issued(config) : first =< t
  BY EarliestIsLeast, WindowParts
<1>3. {w.issue : w \in Windows(config)} = Issued(config)
  BY WindowParts, WindowOf
<1>4. /\ first \in Int /\ from =< first /\ first < EvaluationLimit(config)
      /\ (first - from) % config.step = 0
      /\ config.trainingStart + config.minimum =< first
  BY <1>2, IssuedParts
<1> HIDE DEF first, from
<1>5. Min({w.issue : w \in Windows(config)}) = first
  <2>1. \A t \in Issued(config) : t \in Int
    BY IssuedParts
  <2>2. \A x \in Issued(config) : (\A t \in Issued(config) : x =< t) <=> x = first
    BY <1>2, <1>4, <2>1
  <2>3. Min(Issued(config)) = first
    BY <1>2, <2>2 DEF Min
  <2> QED
    BY <1>3, <2>3
<1>6. ASSUME NEW w \in Windows(config), NEW h \in Evaluated(w)
      PROVE  h \in first..(EvaluationLimit(config) - 1)
  BY <1>1, <1>2, <1>4, <1>6, WindowParts, WindowsSound DEF Evaluated
<1>7. ASSUME NEW h \in first..(EvaluationLimit(config) - 1)
      PROVE  \E w \in Windows(config) : h \in Evaluated(w)
  <2> DEFINE ahead == (h - from) - ((h - from) % config.step)
  <2> h - from \in Int
    BY <1>1, <1>4
  <2>1. /\ ahead \in Int /\ ahead % config.step = 0
        /\ ahead =< h - from /\ h - from < ahead + config.step
    BY <1>1, StepBelow
  <2> HIDE DEF ahead
  <2>2. h \in Int /\ first =< h /\ h < EvaluationLimit(config)
    BY <1>1, <1>4, <1>7
  <2>3. first - from =< ahead
    <3> SUFFICES ASSUME ahead < first - from PROVE FALSE
      BY <1>1, <1>4, <2>1
    <3>1. ahead + config.step =< first - from
      BY <1>1, <1>4, <2>1, StepsApart
    <3>2. config.step \in Int /\ from \in Int /\ first \in Int
      BY <1>1, <1>4
    <3> QED
      BY <2>1, <2>2, <3>1, <3>2
  <2>4. from + ahead - from = ahead
    BY <1>1, <2>1
  <2>5. /\ from + ahead \in Int /\ first =< from + ahead
        /\ from + ahead =< h /\ h < from + ahead + config.horizon
    BY <1>1, <1>4, <2>1, <2>2, <2>3
  <2>6. from + ahead \in Issued(config)
    BY <1>1, <1>4, <2>1, <2>2, <2>4, <2>5, IssuedParts DEF from
  <2>7. PICK w \in Windows(config) : w.issue = from + ahead
    BY <2>6, WindowOf
  <2>8. h < w.evaluationEnd
    BY <1>1, <2>2, <2>5, <2>7, WindowParts, ConfigParts DEF Lesser
  <2>9. w.evaluationEnd \in Int
    BY WindowsSound
  <2> QED
    BY <2>2, <2>5, <2>7, <2>8, <2>9 DEF Evaluated
<1> QED
  BY <1>5, <1>6, <1>7

(* The inputs of Algorithms are ones its operators are meant for. *)
InputIsBacktest == topic = "backtest" => input \in Backtests

(* EvaluationNeverTrained, for any configurations of whole hours: no       *)
(* window is empty, trains on what it evaluates or reaches into the final  *)
(* test period, and with a step as long as the horizon the windows         *)
(* evaluate each hour from the first issue time to the limit exactly once  *)
(* (backtesting.py).                                                       *)
THEOREM BacktestsNeverTrained ==
  ASSUME \A config \in Backtests : config \in Config /\ ValidConfig(config)
  PROVE  Spec => []EvaluationNeverTrained
<1>1. Init => InputIsBacktest
  BY DEF Init, InputIsBacktest
<1>2. InputIsBacktest /\ [Next]_vars => InputIsBacktest'
  BY DEF InputIsBacktest, Next, Look, vars
<1>3. InputIsBacktest => EvaluationNeverTrained
  <2> SUFFICES ASSUME topic = "backtest", input \in Config, ValidConfig(input)
               PROVE  EvaluationNeverTrained
    BY DEF InputIsBacktest, EvaluationNeverTrained
  <2>1. ASSUME NEW w \in Windows(input)
        PROVE  /\ Evaluated(w) # {} /\ w.trainingStart < w.issue
               /\ input.final # None => \A t \in Evaluated(w) : t < input.final
    <3>1. w.issue \in Evaluated(w)
      BY WindowsSound DEF Evaluated
    <3>2. ASSUME input.final # None, NEW t \in Evaluated(w)
          PROVE  t < input.final
      BY <3>2, WindowsSound, ConfigParts DEF Evaluated
    <3> QED
      BY <3>1, <3>2, WindowsSound
  <2>2. ASSUME input.step = input.horizon, Windows(input) # {}
        PROVE  /\ UNION {Evaluated(w) : w \in Windows(input)}
                     = Min({w.issue : w \in Windows(input)})..(EvaluationLimit(input) - 1)
               /\ \A v, w \in Windows(input) : v # w => Evaluated(v) \cap Evaluated(w) = {}
    <3>1. ASSUME NEW v \in Windows(input), NEW w \in Windows(input), v.issue < w.issue
          PROVE  Evaluated(v) \cap Evaluated(w) = {}
      <4>1. v.evaluationEnd =< w.issue
        BY <2>2, <3>1, WindowsDisjoint
      <4> QED
        BY <4>1, WindowsSound DEF Evaluated
    <3>2. ASSUME NEW v \in Windows(input), NEW w \in Windows(input), v # w
          PROVE  v.issue < w.issue \/ w.issue < v.issue
      BY <3>2, WindowsByIssue, WindowsSound
    <3>3. \A v, w \in Windows(input) : v # w => Evaluated(v) \cap Evaluated(w) = {}
      BY <3>1, <3>2
    <3> QED
      BY <2>2, <3>3, WindowsCover
  <2> QED
    BY <2>1, <2>2 DEF EvaluationNeverTrained, Evaluated
<1> QED
  BY <1>1, <1>2, <1>3, PTL DEF Spec

-----------------------------------------------------------------------------
(* Sums *)

(* g adds the values up over each set of the family F, in the order        *)
(* MapThenFoldSet takes the elements.                                      *)
First(s) == CHOOSE x \in s : TRUE
AddsUp(g, F, value) ==
    \A s \in F : g[s] = IF s = {} THEN 0 ELSE value[First(s)] + g[s \ {First(s)}]

(* The sets of a family of subsets of a finite one add up in one way.      *)
LEMMA SumExists ==
  ASSUME NEW S, IsFiniteSet(S), NEW value, \A x \in S : value[x] \in Int
  PROVE  \E g \in [SUBSET S -> Int] : AddsUp(g, SUBSET S, value)
<1> DEFINE Upto(n) == {s \in SUBSET S : Cardinality(s) <= n}
           G == {n \in Nat : \E g \in [SUBSET S -> Int] : AddsUp(g, Upto(n), value)}
<1>0. \A s \in SUBSET S : IsFiniteSet(s) /\ Cardinality(s) \in Nat /\ Cardinality(s) <= Cardinality(S)
  BY FS_Subset, FS_CardinalityType
<1>a. \A s \in SUBSET S : Cardinality(s) = 0 <=> s = {}
  BY <1>0, FS_EmptySet
<1>b. \A s \in SUBSET S : s # {} =>
           /\ First(s) \in s /\ s \ {First(s)} \in SUBSET S
           /\ Cardinality(s \ {First(s)}) = Cardinality(s) - 1
  <2> SUFFICES ASSUME NEW s \in SUBSET S, s # {}
               PROVE  /\ First(s) \in s /\ s \ {First(s)} \in SUBSET S
                      /\ Cardinality(s \ {First(s)}) = Cardinality(s) - 1
    OBVIOUS
  <2>1. First(s) \in s
    BY DEF First
  <2> QED
    BY <1>0, <2>1, FS_RemoveElement
<1>1. 0 \in G
  <2>1. [s \in SUBSET S |-> 0] \in [SUBSET S -> Int]
    OBVIOUS
  <2>2. AddsUp([s \in SUBSET S |-> 0], Upto(0), value)
    BY <1>0, <1>a DEF AddsUp
  <2> QED
    BY <2>1, <2>2
<1>2. ASSUME NEW n \in Nat, n \in G PROVE n + 1 \in G
  <2>1. PICK g \in [SUBSET S -> Int] : AddsUp(g, Upto(n), value)
    BY <1>2
  <2> DEFINE h == [s \in SUBSET S |-> IF Cardinality(s) <= n THEN g[s]
                                      ELSE value[First(s)] + g[s \ {First(s)}]]
  <2>2. \A s \in SUBSET S : ~(Cardinality(s) <= n) => s # {}
    BY <1>0, <1>a
  <2>3. h \in [SUBSET S -> Int]
    BY <1>b, <2>2
  <2>4. \A s \in SUBSET S : Cardinality(s) <= n => h[s] = g[s]
    OBVIOUS
  <2>5. \A s \in SUBSET S : ~(Cardinality(s) <= n) =>
            h[s] = value[First(s)] + g[s \ {First(s)}]
    OBVIOUS
  <2> HIDE DEF h
  <2>6. AddsUp(h, Upto(n + 1), value)
    <3> SUFFICES ASSUME NEW s \in SUBSET S, Cardinality(s) <= n + 1
                 PROVE  h[s] = IF s = {} THEN 0 ELSE value[First(s)] + h[s \ {First(s)}]
      BY DEF AddsUp
    <3>1. s # {} => h[s \ {First(s)}] = g[s \ {First(s)}]
      <4> SUFFICES ASSUME s # {} PROVE h[s \ {First(s)}] = g[s \ {First(s)}]
        OBVIOUS
      <4>1. Cardinality(s \ {First(s)}) <= n /\ s \ {First(s)} \in SUBSET S
        BY <1>0, <1>b
      <4> QED
        BY <2>4, <4>1
    <3>2. CASE Cardinality(s) <= n
      <4>1. g[s] = IF s = {} THEN 0 ELSE value[First(s)] + g[s \ {First(s)}]
        BY <2>1, <3>2 DEF AddsUp
      <4> QED
        BY <2>4, <3>1, <3>2, <4>1
    <3>3. CASE ~(Cardinality(s) <= n)
      BY <2>2, <2>5, <3>1, <3>3
    <3> QED
      BY <3>2, <3>3
  <2> HIDE DEF Upto
  <2> QED
    BY <2>3, <2>6
<1>c. \A i \in 0..(Cardinality(S) - 1) : i \in G => i + 1 \in G
  <2> HIDE DEF G
  <2> QED
    BY <1>0, <1>2
<1>3. Cardinality(S) \in G
  <2> HIDE DEF G
  <2> QED
    BY <1>0, <1>1, <1>c, CountingInduction
<1> QED
  BY <1>0, <1>3 DEF AddsUp

LEMMA SumIsUnique ==
  ASSUME NEW T, IsFiniteSet(T), NEW value, NEW g, NEW h,
         AddsUp(g, SUBSET T, value), AddsUp(h, SUBSET T, value)
  PROVE  g[T] = h[T]
<1> DEFINE G == {s \in SUBSET T : g[s] = h[s]}
<1>1. ASSUME NEW s \in SUBSET T, \A x \in s : s \ {x} \in G
      PROVE  s \in G
  <2>1. s # {} => First(s) \in s
    BY DEF First
  <2>2. s # {} => g[s \ {First(s)}] = h[s \ {First(s)}]
    BY <1>1, <2>1
  <2>3. g[s] = IF s = {} THEN 0 ELSE value[First(s)] + g[s \ {First(s)}]
    BY DEF AddsUp
  <2>4. h[s] = IF s = {} THEN 0 ELSE value[First(s)] + h[s \ {First(s)}]
    BY DEF AddsUp
  <2> QED
    BY <2>2, <2>3, <2>4
<1> HIDE DEF G
<1>2. T \in G
  BY <1>1, FiniteSetInduction
<1> QED
  BY <1>2 DEF G

LEMMA TotalByFold ==
  ASSUME NEW S, IsFiniteSet(S), NEW value, \A x \in S : value[x] \in Int
  PROVE  \E g \in [SUBSET S -> Int] : AddsUp(g, SUBSET S, value) /\ Total(S, value) = g[S]
<1> DEFINE sum == CHOOSE h : h = [s \in SUBSET S |->
                     IF s = {} THEN 0 ELSE value[First(s)] + h[s \ {First(s)}]]
<1>4. PICK g \in [SUBSET S -> Int] : AddsUp(g, SUBSET S, value)
  BY SumExists
<1>5. g = [s \in SUBSET S |-> IF s = {} THEN 0 ELSE value[First(s)] + g[s \ {First(s)}]]
  BY <1>4 DEF AddsUp
<1>6. sum = [s \in SUBSET S |-> IF s = {} THEN 0 ELSE value[First(s)] + sum[s \ {First(s)}]]
  BY <1>5
<1>7. Total(S, value) = sum[S]
  BY DEF Total, MapThenSumSet, MapThenFoldSet, First
<1> HIDE DEF sum
<1>8. AddsUp(sum, SUBSET S, value)
  BY <1>6 DEF AddsUp
<1>9. \A s \in SUBSET S : g[s] = sum[s]
  <2> SUFFICES ASSUME NEW s \in SUBSET S PROVE g[s] = sum[s]
    OBVIOUS
  <2>1. IsFiniteSet(s)
    BY FS_Subset
  <2>2. AddsUp(g, SUBSET s, value) /\ AddsUp(sum, SUBSET s, value)
    BY <1>4, <1>8 DEF AddsUp
  <2> QED
    BY <2>1, <2>2, SumIsUnique
<1> QED
  BY <1>4, <1>7, <1>9

LEMMA TotalOfFirst ==
  ASSUME NEW S, IsFiniteSet(S), NEW value, \A x \in S : value[x] \in Int
  PROVE  /\ Total(S, value) \in Int
         /\ Total({}, value) = 0
         /\ S # {} => /\ First(S) \in S
                      /\ Total(S, value) = value[First(S)] + Total(S \ {First(S)}, value)
<1>1. PICK g \in [SUBSET S -> Int] : AddsUp(g, SUBSET S, value) /\ Total(S, value) = g[S]
  BY TotalByFold
<1>2. \A T \in SUBSET S : Total(T, value) = g[T]
  <2> SUFFICES ASSUME NEW T \in SUBSET S PROVE Total(T, value) = g[T]
    OBVIOUS
  <2>1. IsFiniteSet(T)
    BY FS_Subset
  <2>2. PICK h \in [SUBSET T -> Int] : AddsUp(h, SUBSET T, value) /\ Total(T, value) = h[T]
    BY <2>1, TotalByFold
  <2>3. AddsUp(g, SUBSET T, value)
    BY <1>1 DEF AddsUp
  <2> QED
    BY <2>1, <2>2, <2>3, SumIsUnique
<1>3. S # {} => First(S) \in S
  BY DEF First
<1>4. g[{}] = 0
  BY <1>1 DEF AddsUp
<1>5. S # {} => g[S] = value[First(S)] + g[S \ {First(S)}]
  BY <1>1 DEF AddsUp
<1> QED
  BY <1>1, <1>2, <1>3, <1>4, <1>5

(* A sum is that of any element and of the rest.                           *)
LEMMA TotalOfOne ==
  ASSUME NEW S, IsFiniteSet(S), NEW value, \A x \in S : value[x] \in Int
  PROVE  /\ Total(S, value) \in Int
         /\ Total({}, value) = 0
         /\ \A x \in S : Total(S, value) = value[x] + Total(S \ {x}, value)
<1> DEFINE G == {T \in SUBSET S : \A x \in T : Total(T, value) = value[x] + Total(T \ {x}, value)}
<1>0. \A T \in SUBSET S : IsFiniteSet(T) /\ Total(T, value) \in Int
  <2> SUFFICES ASSUME NEW T \in SUBSET S PROVE IsFiniteSet(T) /\ Total(T, value) \in Int
    OBVIOUS
  <2>1. IsFiniteSet(T)
    BY FS_Subset
  <2> QED
    BY <2>1, TotalOfFirst
<1>1. ASSUME NEW T \in SUBSET S, \A x \in T : T \ {x} \in G
      PROVE  T \in G
  <2> SUFFICES ASSUME NEW x \in T
               PROVE  Total(T, value) = value[x] + Total(T \ {x}, value)
    OBVIOUS
  <2>1. PICK f \in T : Total(T, value) = value[f] + Total(T \ {f}, value)
    BY <1>0, TotalOfFirst
  <2>2. CASE x = f
    BY <2>1, <2>2
  <2>3. CASE x # f
    <3>1. Total(T \ {f}, value) = value[x] + Total((T \ {f}) \ {x}, value)
      BY <1>1, <2>1, <2>3
    <3>2. Total(T \ {x}, value) = value[f] + Total((T \ {x}) \ {f}, value)
      BY <1>1, <2>1, <2>3
    <3>3. (T \ {f}) \ {x} = (T \ {x}) \ {f}
      OBVIOUS
    <3>4. (T \ {f}) \ {x} \in SUBSET S
      OBVIOUS
    <3>5. PICK n \in Int : n = Total((T \ {f}) \ {x}, value)
      BY <1>0, <3>4
    <3>6. value[x] \in Int /\ value[f] \in Int
      BY <2>1
    <3>7. Total(T \ {f}, value) = value[x] + n /\ Total(T \ {x}, value) = value[f] + n
      BY <3>1, <3>2, <3>3, <3>5
    <3> QED
      BY <2>1, <3>6, <3>7
  <2> QED
    BY <2>2, <2>3
<1> HIDE DEF G
<1>2. S \in G
  BY <1>1, FiniteSetInduction
<1> QED
  BY <1>0, <1>2, TotalOfFirst DEF G

(* Only the values of the elements count, and they may be transformed one  *)
(* by one.                                                                 *)
LEMMA TotalsCompare ==
  ASSUME NEW S, IsFiniteSet(S), NEW v, NEW w, \A x \in S : v[x] \in Int /\ w[x] \in Int
  PROVE  /\ (\A x \in S : v[x] = w[x]) => Total(S, v) = Total(S, w)
         /\ (\A x \in S : v[x] =< w[x]) => Total(S, v) =< Total(S, w)
         /\ (\A x \in S : v[x] = 0 - w[x]) => Total(S, v) = 0 - Total(S, w)
<1> DEFINE Same(T) == (\A x \in T : v[x] = w[x]) => Total(T, v) = Total(T, w)
           Less(T) == (\A x \in T : v[x] =< w[x]) => Total(T, v) =< Total(T, w)
           Back(T) == (\A x \in T : v[x] = 0 - w[x]) => Total(T, v) = 0 - Total(T, w)
           G == {T \in SUBSET S : Same(T) /\ Less(T) /\ Back(T)}
<1>1. ASSUME NEW T \in SUBSET S, \A x \in T : T \ {x} \in G
      PROVE  T \in G
  <2>1. IsFiniteSet(T)
    BY FS_Subset
  <2>2. CASE T = {}
    <3>1. Total(T, v) = 0 /\ Total(T, w) = 0
      BY <2>1, <2>2, TotalOfOne
    <3> QED
      BY <3>1
  <2>3. CASE T # {}
    <3>1. PICK x \in T : TRUE
      BY <2>3
    <3>2. IsFiniteSet(T \ {x})
      BY <2>1, FS_RemoveElement
    <3>3. PICK a \in Int : a = Total(T \ {x}, v)
      BY <3>2, TotalOfOne
    <3>4. PICK b \in Int : b = Total(T \ {x}, w)
      BY <3>2, TotalOfOne
    <3>5. Total(T, v) = v[x] + a /\ Total(T, w) = w[x] + b
      BY <2>1, <3>1, <3>3, <3>4, TotalOfOne
    <3>6. v[x] \in Int /\ w[x] \in Int
      BY <3>1
    <3>7. Same(T \ {x}) /\ Less(T \ {x}) /\ Back(T \ {x})
      BY <1>1, <3>1
    <3>8. Same(T)
      BY <3>1, <3>3, <3>4, <3>5, <3>6, <3>7
    <3>9. Less(T)
      BY <3>1, <3>3, <3>4, <3>5, <3>6, <3>7
    <3>10. Back(T)
      BY <3>1, <3>3, <3>4, <3>5, <3>6, <3>7
    <3> QED
      BY <3>8, <3>9, <3>10
  <2> QED
    BY <2>2, <2>3
<1> HIDE DEF G
<1>2. S \in G
  BY <1>1, FiniteSetInduction
<1> QED
  BY <1>2 DEF G

(* When all are the same the sum is their number times that.               *)
LEMMA TotalOfSame ==
  ASSUME NEW S, IsFiniteSet(S), NEW v, NEW c \in Int, \A x \in S : v[x] = c
  PROVE  Total(S, v) = c * Cardinality(S)
<1> DEFINE G == {T \in SUBSET S : Total(T, v) = c * Cardinality(T)}
<1>1. ASSUME NEW T \in SUBSET S, \A x \in T : T \ {x} \in G
      PROVE  T \in G
  <2>1. IsFiniteSet(T) /\ \A x \in T : v[x] \in Int
    BY FS_Subset
  <2>2. CASE T = {}
    <3>1. Total(T, v) = 0 /\ Cardinality(T) = 0
      BY <2>1, <2>2, TotalOfOne, FS_EmptySet
    <3> QED
      BY <3>1
  <2>3. CASE T # {}
    <3>1. PICK x \in T : TRUE
      BY <2>3
    <3>2. PICK n \in Nat : n = Cardinality(T \ {x})
      BY <2>1, FS_RemoveElement, FS_CardinalityType
    <3>3. Cardinality(T) = n + 1
      <4>1. Cardinality(T) \in Nat
        BY <2>1, FS_CardinalityType
      <4>2. Cardinality(T \ {x}) = Cardinality(T) - 1
        BY <2>1, <3>1, FS_RemoveElement
      <4> QED
        BY <3>2, <4>1, <4>2
    <3>4. Total(T, v) = c + c * n
      <4>1. Total(T, v) = v[x] + Total(T \ {x}, v)
        BY <2>1, <3>1, TotalOfOne
      <4>2. Total(T \ {x}, v) = c * n
        BY <1>1, <3>1, <3>2
      <4> QED
        BY <4>1, <4>2
    <3>5. c * (n + 1) = c + c * n
      OBVIOUS
    <3> QED
      BY <3>3, <3>4, <3>5
  <2> QED
    BY <2>2, <2>3
<1> HIDE DEF G
<1>2. S \in G
  BY <1>1, FiniteSetInduction
<1> QED
  BY <1>2 DEF G

(* The sums of two parts add up to that of the whole.                      *)
LEMMA TotalOfParts ==
  ASSUME NEW S, IsFiniteSet(S), NEW v, \A x \in S : v[x] \in Int, NEW P \in SUBSET S
  PROVE  Total(S, v) = Total(P, v) + Total(S \ P, v)
<1> DEFINE G == {T \in SUBSET S : Total(T, v) = Total(T \cap P, v) + Total(T \ P, v)}
<1>1. ASSUME NEW T \in SUBSET S, \A x \in T : T \ {x} \in G
      PROVE  T \in G
  <2>1. \A U \in SUBSET S : IsFiniteSet(U)
    BY FS_Subset
  <2>2. CASE T = {}
    <3>1. T \cap P = {} /\ T \ P = {}
      BY <2>2
    <3>2. Total({}, v) = 0
      BY TotalOfOne
    <3> QED
      BY <2>2, <3>1, <3>2
  <2>3. CASE T # {}
    <3>1. PICK x \in T : TRUE
      BY <2>3
    <3>2. Total(T \ {x}, v) = Total((T \ {x}) \cap P, v) + Total((T \ {x}) \ P, v)
      BY <1>1, <3>1
    <3>3. Total(T, v) = v[x] + Total(T \ {x}, v)
      BY <2>1, <3>1, TotalOfOne
    <3>0. PICK a \in Int, b \in Int :
             a = Total((T \ {x}) \cap P, v) /\ b = Total((T \ {x}) \ P, v)
      <4>1. Total((T \ {x}) \cap P, v) \in Int
        <5>1. (T \ {x}) \cap P \in SUBSET S /\ IsFiniteSet((T \ {x}) \cap P)
          BY <2>1
        <5> QED
          BY <5>1, TotalOfOne
      <4>2. Total((T \ {x}) \ P, v) \in Int
        <5>1. (T \ {x}) \ P \in SUBSET S /\ IsFiniteSet((T \ {x}) \ P)
          BY <2>1
        <5> QED
          BY <5>1, TotalOfOne
      <4> QED
        BY <4>1, <4>2
    <3>4. v[x] \in Int
      BY <3>1
    <3>5. CASE x \in P
      <4>1. (T \ {x}) \cap P = (T \cap P) \ {x} /\ (T \ {x}) \ P = T \ P
        BY <3>5
      <4>2. Total(T \cap P, v) = v[x] + Total((T \cap P) \ {x}, v)
        <5>1. T \cap P \in SUBSET S /\ IsFiniteSet(T \cap P) /\ x \in T \cap P
          BY <2>1, <3>1, <3>5
        <5> QED
          BY <5>1, TotalOfOne
      <4>3. Total(T \cap P, v) = v[x] + a /\ Total(T \ P, v) = b
        BY <3>0, <4>1, <4>2
      <4> QED
        BY <3>0, <3>2, <3>3, <3>4, <4>3
    <3>6. CASE x \notin P
      <4>1. (T \ {x}) \cap P = T \cap P /\ (T \ {x}) \ P = (T \ P) \ {x}
        BY <3>6
      <4>2. Total(T \ P, v) = v[x] + Total((T \ P) \ {x}, v)
        <5>1. T \ P \in SUBSET S /\ IsFiniteSet(T \ P) /\ x \in T \ P
          BY <2>1, <3>1, <3>6
        <5> QED
          BY <5>1, TotalOfOne
      <4>3. Total(T \cap P, v) = a /\ Total(T \ P, v) = v[x] + b
        BY <3>0, <4>1, <4>2
      <4> QED
        BY <3>0, <3>2, <3>3, <3>4, <4>3
    <3> QED
      BY <3>5, <3>6
  <2> QED
    BY <2>2, <2>3
<1> HIDE DEF G
<1>2. S \in G
  BY <1>1, FiniteSetInduction
<1>3. S \cap P = P
  OBVIOUS
<1> QED
  BY <1>2, <1>3 DEF G

(* The sums of the groups of a slice add up to that of the whole.          *)
LEMMA TotalOfGroups ==
  ASSUME NEW S, IsFiniteSet(S), NEW v, \A x \in S : v[x] \in Int, NEW slice, NEW K,
         IsFiniteSet(K), \A x \in S : slice[x] \in K
  PROVE  Total(K, [k \in K |-> Total({x \in S : slice[x] = k}, v)]) = Total(S, v)
<1> DEFINE Part(L) == {x \in S : slice[x] \in L}
           sums == [k \in K |-> Total({x \in S : slice[x] = k}, v)]
           G == {L \in SUBSET K : Total(L, sums) = Total(Part(L), v)}
<1>0. \A k \in K : sums[k] \in Int
  <2> SUFFICES ASSUME NEW k \in K PROVE Total({x \in S : slice[x] = k}, v) \in Int
    OBVIOUS
  <2>1. IsFiniteSet({x \in S : slice[x] = k})
    BY FS_Subset
  <2> QED
    BY <2>1, TotalOfOne
<1>1. ASSUME NEW L \in SUBSET K, \A k \in L : L \ {k} \in G
      PROVE  L \in G
  <2>1. IsFiniteSet(L) /\ IsFiniteSet(Part(L))
    BY FS_Subset
  <2>2. CASE L = {}
    <3>1. Part(L) = {}
      BY <2>2
    <3>2. Total({}, sums) = 0 /\ Total({}, v) = 0
      <4> HIDE DEF sums
      <4> QED
        BY <1>0, TotalOfOne
    <3> HIDE DEF sums
    <3> QED
      BY <2>2, <3>1, <3>2
  <2>3. CASE L # {}
    <3>1. PICK k \in L : TRUE
      BY <2>3
    <3> DEFINE P == {x \in S : slice[x] = k}
    <3>2. P \in SUBSET Part(L) /\ Part(L) \ P = Part(L \ {k})
      BY <3>1
    <3>3. Total(Part(L), v) = Total(P, v) + Total(Part(L) \ P, v)
      <4> HIDE DEF P
      <4>1. \A x \in Part(L) : v[x] \in Int
        OBVIOUS
      <4> HIDE DEF Part
      <4> QED
        BY <2>1, <3>2, <4>1, TotalOfParts
    <3>4. sums[k] = Total(P, v)
      BY <3>1
    <3> HIDE DEF sums, P
    <3>5. Total(L, sums) = sums[k] + Total(L \ {k}, sums)
      BY <1>0, <2>1, <3>1, TotalOfOne
    <3>6. Total(L \ {k}, sums) = Total(Part(L \ {k}), v)
      BY <1>1, <3>1
    <3> HIDE DEF Part
    <3>7. Total(L, sums) = Total(Part(L), v)
      BY <3>2, <3>3, <3>4, <3>5, <3>6
    <3> QED
      BY <3>7
  <2> QED
    BY <2>2, <2>3
<1> HIDE DEF G
<1>2. K \in G
  BY <1>1, FiniteSetInduction
<1>3. Part(K) = S
  OBVIOUS
<1> QED
  BY <1>2, <1>3 DEF G

(* The square of a sum is no larger than the number of its values times    *)
(* the sum of their squares.                                               *)
LEMMA SquareOfMean ==
  ASSUME NEW m \in Nat, NEW a \in Int, NEW b \in Nat, NEW e \in Int, a * a =< m * b
  PROVE  (e + a) * (e + a) =< (m + 1) * (e * e + b)
<1>1. (e + a) * (e + a) = e * e + 2 * (a * e) + a * a
  OBVIOUS
<1>2. (m + 1) * (e * e + b) = m * (e * e) + m * b + e * e + b
  OBVIOUS
<1>3. 2 * (a * e) =< m * (e * e) + b
  <2>1. CASE m = 0
    <3>1. a * a =< 0
      BY <2>1
    <3>2. a = 0
      BY <3>1
    <3> QED
      BY <2>1, <3>2
  <2>2. CASE m > 0
    <3>1. (a - m * e) * (a - m * e) >= 0
      <4>1. PICK z \in Int : z = a - m * e
        OBVIOUS
      <4>2. z * z >= 0
        OBVIOUS
      <4> QED
        BY <4>1, <4>2
    <3>2. (a - m * e) * (a - m * e) = a * a - 2 * (m * (a * e)) + m * (m * (e * e))
      OBVIOUS
    <3>3. 2 * (m * (a * e)) =< m * b + m * (m * (e * e))
      BY <3>1, <3>2
    <3>4. m * (2 * (a * e)) =< m * (m * (e * e) + b)
      BY <3>3
    <3>5. \A y, z \in Int : m * y =< m * z => y =< z
      BY <2>2
    <3>6. 2 * (a * e) \in Int /\ m * (e * e) + b \in Int
      OBVIOUS
    <3> QED
      BY <3>4, <3>5, <3>6
  <2> QED
    BY <2>1, <2>2
<1>4. PICK ee \in Int, ae \in Int, aa \in Int, mee \in Int, mb \in Int :
        ee = e * e /\ ae = a * e /\ aa = a * a /\ mee = m * (e * e) /\ mb = m * b
  OBVIOUS
<1> QED
  BY <1>1, <1>2, <1>3, <1>4

LEMMA SquareOfTotal ==
  ASSUME NEW S, IsFiniteSet(S), NEW v, NEW w, \A x \in S : v[x] \in Int /\ w[x] = v[x] * v[x]
  PROVE  /\ Total(S, w) \in Nat
         /\ Total(S, v) * Total(S, v) =< Cardinality(S) * Total(S, w)
<1> DEFINE G == {T \in SUBSET S : /\ Total(T, w) \in Nat
                                  /\ Total(T, v) * Total(T, v) =< Cardinality(T) * Total(T, w)}
<1>0. \A x \in S : w[x] \in Nat
  <2> SUFFICES ASSUME NEW x \in S PROVE w[x] \in Nat
    OBVIOUS
  <2>1. PICK z \in Int : z = v[x]
    OBVIOUS
  <2>2. z * z \in Nat
    OBVIOUS
  <2> QED
    BY <2>1, <2>2
<1>1. ASSUME NEW T \in SUBSET S, \A x \in T : T \ {x} \in G
      PROVE  T \in G
  <2>1. IsFiniteSet(T)
    BY FS_Subset
  <2>2. CASE T = {}
    <3>1. Total(T, v) = 0 /\ Total(T, w) = 0 /\ Cardinality(T) = 0
      BY <1>0, <2>1, <2>2, TotalOfOne, FS_EmptySet
    <3> QED
      BY <3>1
  <2>3. CASE T # {}
    <3>1. PICK x \in T : TRUE
      BY <2>3
    <3>2. PICK n \in Nat : n = Cardinality(T \ {x})
      BY <2>1, FS_RemoveElement, FS_CardinalityType
    <3>3. Cardinality(T) = n + 1
      <4>1. Cardinality(T) \in Nat
        BY <2>1, FS_CardinalityType
      <4>2. Cardinality(T \ {x}) = Cardinality(T) - 1
        BY <2>1, <3>1, FS_RemoveElement
      <4> QED
        BY <3>2, <4>1, <4>2
    <3>4. PICK a \in Int : a = Total(T \ {x}, v)
      BY <2>1, FS_RemoveElement, TotalOfOne
    <3>5. PICK b \in Nat : b = Total(T \ {x}, w)
      BY <1>1, <3>1
    <3>6. PICK e \in Int : e = v[x]
      BY <3>1
    <3>7. a * a =< n * b
      BY <1>1, <3>1, <3>2, <3>4, <3>5
    <3>8. Total(T, v) = e + a /\ Total(T, w) = e * e + b
      <4>1. \A y \in T : v[y] \in Int /\ w[y] \in Int
        BY <1>0
      <4>2. Total(T, v) = v[x] + Total(T \ {x}, v)
        BY <2>1, <3>1, <4>1, TotalOfOne
      <4>3. Total(T, w) = w[x] + Total(T \ {x}, w)
        BY <2>1, <3>1, <4>1, TotalOfOne
      <4> QED
        BY <3>1, <3>4, <3>5, <3>6, <4>2, <4>3
    <3>9. (e + a) * (e + a) =< (n + 1) * (e * e + b)
      BY <3>7, SquareOfMean
    <3>10. e * e + b \in Nat
      BY <1>0, <3>1, <3>6
    <3> QED
      BY <3>3, <3>8, <3>9, <3>10
  <2> QED
    BY <2>2, <2>3
<1> HIDE DEF G
<1>2. S \in G
  BY <1>1, FiniteSetInduction
<1> QED
  BY <1>2 DEF G

-----------------------------------------------------------------------------
(* Metrics *)

(* A set of predictions that can be compared with what was consumed. *)
Comparable(S) ==
    /\ IsFiniteSet(S)
    /\ \A p \in S : p.predicted \in Int /\ p.actual \in Int

Miss(S) == [p \in S |-> p.predicted - p.actual]
AbsoluteMiss(S) == [p \in S |-> Magnitude(Miss(S)[p])]
SquaredMiss(S) == [p \in S |-> Miss(S)[p] * Miss(S)[p]]
Consumed(S) == [p \in S |-> Magnitude(p.actual)]

(* The values that are added up are numbers, and as large as they look.    *)
LEMMA MissesAreNumbers ==
  ASSUME NEW S, Comparable(S)
  PROVE  /\ \A p \in S : /\ Miss(S)[p] \in Int
                         /\ AbsoluteMiss(S)[p] \in Nat
                         /\ Miss(S)[p] =< AbsoluteMiss(S)[p]
                         /\ 0 - AbsoluteMiss(S)[p] =< Miss(S)[p]
                         /\ SquaredMiss(S)[p] \in Int
                         /\ SquaredMiss(S)[p] = Miss(S)[p] * Miss(S)[p]
                         /\ SquaredMiss(S)[p] = AbsoluteMiss(S)[p] * AbsoluteMiss(S)[p]
                         /\ Consumed(S)[p] \in Nat
                         /\ (Consumed(S)[p] = 0 <=> p.actual = 0)
<1> SUFFICES ASSUME NEW p \in S
             PROVE  /\ Miss(S)[p] \in Int
                    /\ AbsoluteMiss(S)[p] \in Nat
                    /\ Miss(S)[p] =< AbsoluteMiss(S)[p]
                    /\ 0 - AbsoluteMiss(S)[p] =< Miss(S)[p]
                    /\ SquaredMiss(S)[p] \in Int
                    /\ SquaredMiss(S)[p] = Miss(S)[p] * Miss(S)[p]
                    /\ SquaredMiss(S)[p] = AbsoluteMiss(S)[p] * AbsoluteMiss(S)[p]
                    /\ Consumed(S)[p] \in Nat
                    /\ (Consumed(S)[p] = 0 <=> p.actual = 0)
  OBVIOUS
<1>1. PICK e \in Int : e = Miss(S)[p]
  BY DEF Comparable, Miss
<1>2. AbsoluteMiss(S)[p] = Magnitude(e) /\ SquaredMiss(S)[p] = e * e
  BY <1>1 DEF AbsoluteMiss, SquaredMiss
<1>3. PICK c \in Int : c = p.actual
  BY DEF Comparable
<1>4. Consumed(S)[p] = Magnitude(c)
  BY <1>3 DEF Consumed
<1>5. /\ Magnitude(e) \in Nat /\ e =< Magnitude(e) /\ 0 - Magnitude(e) =< e
      /\ Magnitude(c) \in Nat /\ (Magnitude(c) = 0 <=> c = 0)
  BY DEF Magnitude
<1>6. e * e = Magnitude(e) * Magnitude(e) /\ e * e \in Int
  BY DEF Magnitude
<1>7. Consumed(S)[p] \in Nat /\ (Consumed(S)[p] = 0 <=> p.actual = 0)
  BY <1>3, <1>4, <1>5
<1>8. /\ Miss(S)[p] \in Int /\ AbsoluteMiss(S)[p] \in Nat
      /\ Miss(S)[p] =< AbsoluteMiss(S)[p] /\ 0 - AbsoluteMiss(S)[p] =< Miss(S)[p]
  BY <1>1, <1>2, <1>5
<1>9. /\ SquaredMiss(S)[p] \in Int
      /\ SquaredMiss(S)[p] = Miss(S)[p] * Miss(S)[p]
      /\ SquaredMiss(S)[p] = AbsoluteMiss(S)[p] * AbsoluteMiss(S)[p]
  BY <1>1, <1>2, <1>6
<1> QED
  BY <1>7, <1>8, <1>9

(* The metrics of a set of predictions that is not empty.                  *)
LEMMA MetricsAre ==
  ASSUME NEW S, Comparable(S)
  PROVE  /\ S = {} => Metrics(S) = None
         /\ S # {} =>
              Metrics(S) =
                [mae |-> <<Total(S, AbsoluteMiss(S)), Cardinality(S)>>,
                 mse |-> <<Total(S, SquaredMiss(S)), Cardinality(S)>>,
                 bias |-> <<Total(S, Miss(S)), Cardinality(S)>>,
                 wape |-> IF Total(S, Consumed(S)) = 0 THEN None
                          ELSE <<Total(S, AbsoluteMiss(S)), Total(S, Consumed(S))>>]
<1>1. UsablePredictions(S) = S
  BY NoneAssumption DEF UsablePredictions, Comparable
<1>2. Cardinality(S) = 0 <=> S = {}
  BY FS_EmptySet DEF Comparable
<1> QED
  BY <1>1, <1>2 DEF Metrics, Miss, AbsoluteMiss, SquaredMiss, Consumed

(* The bias is no larger than the mean absolute error, and that no larger  *)
(* than the root of the mean squared error.                                *)
LEMMA MetricsOrdered ==
  ASSUME NEW S, Comparable(S)
  PROVE  LET n == Cardinality(S)
             bias == Total(S, Miss(S))
             mae == Total(S, AbsoluteMiss(S))
             mse == Total(S, SquaredMiss(S))
         IN  /\ n \in Nat /\ bias \in Int /\ mae \in Nat /\ mse \in Nat
             /\ Magnitude(bias) =< mae
             /\ mae * mae =< n * mse
<1> DEFINE n == Cardinality(S)
           bias == Total(S, Miss(S))
           mae == Total(S, AbsoluteMiss(S))
           mse == Total(S, SquaredMiss(S))
           zero == [p \in S |-> 0]
           under == [p \in S |-> 0 - AbsoluteMiss(S)[p]]
<1>0. IsFiniteSet(S) /\ n \in Nat
  BY FS_CardinalityType DEF Comparable
<1>1. \A p \in S : /\ zero[p] \in Int /\ under[p] \in Int
                   /\ Miss(S)[p] \in Int /\ AbsoluteMiss(S)[p] \in Int
                   /\ zero[p] = 0 /\ zero[p] =< AbsoluteMiss(S)[p]
                   /\ under[p] = 0 - AbsoluteMiss(S)[p] /\ under[p] =< Miss(S)[p]
                   /\ Miss(S)[p] =< AbsoluteMiss(S)[p]
                   /\ SquaredMiss(S)[p] = AbsoluteMiss(S)[p] * AbsoluteMiss(S)[p]
  BY MissesAreNumbers
<1> HIDE DEF zero, under
<1>2. bias \in Int /\ mae \in Int
  BY <1>0, <1>1, TotalOfOne
<1>3. Total(S, zero) = 0
  <2>1. Total(S, zero) = 0 * n
    BY <1>0, <1>1, TotalOfSame
  <2> QED
    BY <1>0, <2>1
<1>4. Total(S, zero) =< mae /\ bias =< mae /\ Total(S, under) =< bias
  BY <1>0, <1>1, TotalsCompare
<1>5. Total(S, under) = 0 - mae
  BY <1>0, <1>1, TotalsCompare
<1>6. mse \in Nat /\ mae * mae =< n * mse
  BY <1>0, <1>1, SquareOfTotal
<1>7. Magnitude(bias) =< mae /\ mae \in Nat
  <2> HIDE DEF bias, mae
  <2> QED
    BY <1>2, <1>3, <1>4, <1>5 DEF Magnitude
<1> QED
  BY <1>0, <1>2, <1>6, <1>7

(* When every forecast is off by as much, MAE and RMSE are that much.      *)
LEMMA MetricsOfSame ==
  ASSUME NEW S, Comparable(S), NEW e \in Int, \A p \in S : AbsoluteMiss(S)[p] = e
  PROVE  /\ Total(S, AbsoluteMiss(S)) = e * Cardinality(S)
         /\ Total(S, SquaredMiss(S)) = e * e * Cardinality(S)
<1>1. IsFiniteSet(S)
  BY DEF Comparable
<1>2. \A p \in S : SquaredMiss(S)[p] = e * e
  BY MissesAreNumbers
<1>3. e * e \in Int
  OBVIOUS
<1> QED
  BY <1>1, <1>2, <1>3, TotalOfSame

(* Nothing was consumed exactly when the sum of it is zero.                *)
LEMMA ConsumptionCounts ==
  ASSUME NEW S, Comparable(S)
  PROVE  Total(S, Consumed(S)) = 0 <=> \A p \in S : p.actual = 0
<1>0. IsFiniteSet(S) /\ \A p \in S : Consumed(S)[p] \in Nat /\ Consumed(S)[p] \in Int
  BY MissesAreNumbers DEF Comparable
<1>1. ASSUME \A p \in S : p.actual = 0
      PROVE  Total(S, Consumed(S)) = 0
  <2>1. \A p \in S : Consumed(S)[p] = 0
    BY <1>1, MissesAreNumbers
  <2>2. Total(S, Consumed(S)) = 0 * Cardinality(S)
    BY <1>0, <2>1, TotalOfSame
  <2> QED
    BY <1>0, <2>2, FS_CardinalityType
<1>2. ASSUME NEW p \in S, p.actual # 0
      PROVE  Total(S, Consumed(S)) # 0
  <2>1. Total(S, Consumed(S)) = Consumed(S)[p] + Total(S \ {p}, Consumed(S))
    BY <1>0, TotalOfOne
  <2>2. Consumed(S)[p] \in Nat /\ Consumed(S)[p] # 0
    BY <1>2, MissesAreNumbers
  <2> DEFINE zero == [q \in S |-> 0]
  <2>3. IsFiniteSet(S \ {p}) /\ \A q \in S \ {p} :
           zero[q] \in Int /\ zero[q] = 0 /\ zero[q] =< Consumed(S)[q] /\ Consumed(S)[q] \in Int
    BY <1>0, FS_RemoveElement
  <2> HIDE DEF zero
  <2>4. Total(S \ {p}, zero) = 0
    <3>1. Total(S \ {p}, zero) = 0 * Cardinality(S \ {p})
      BY <2>3, TotalOfSame
    <3> QED
      BY <2>3, <3>1, FS_CardinalityType
  <2>5. Total(S \ {p}, zero) =< Total(S \ {p}, Consumed(S))
    BY <2>3, TotalsCompare
  <2>6. Total(S \ {p}, Consumed(S)) \in Int
    BY <2>3, TotalOfOne
  <2> QED
    BY <2>1, <2>2, <2>4, <2>5, <2>6
<1> QED
  BY <1>1, <1>2

(* The metrics of the slices add up to those of the whole.                 *)
LEMMA SlicesAddUp ==
  ASSUME NEW S, Comparable(S), NEW slice
  PROVE  LET slices == SliceMetrics(S, slice)
             Part(of) == [value \in DOMAIN slices |-> slices[value][of][1]]
         IN  /\ Total(DOMAIN slices, Part("mae")) = Total(S, AbsoluteMiss(S))
             /\ Total(DOMAIN slices, Part("bias")) = Total(S, Miss(S))
<1> DEFINE slices == SliceMetrics(S, slice)
           Part(of) == [value \in DOMAIN slices |-> slices[value][of][1]]
           K == {slice[p] : p \in S}
           Group(k) == {p \in S : slice[p] = k}
           Sums(v) == [k \in K |-> Total(Group(k), v)]
<1>1. DOMAIN slices = K
  BY DEF SliceMetrics
<1>2. IsFiniteSet(S) /\ IsFiniteSet(K)
  BY FiniteImage DEF Comparable
<1>3. \A p \in S : Miss(S)[p] \in Int /\ AbsoluteMiss(S)[p] \in Int
  BY MissesAreNumbers
<1>4. ASSUME NEW k \in K
      PROVE  /\ slices[k].mae[1] = Total(Group(k), AbsoluteMiss(S))
             /\ slices[k].bias[1] = Total(Group(k), Miss(S))
  <2> DEFINE g == Group(k)
  <2>1. g # {} /\ g \subseteq S /\ slices[k] = Metrics(g)
    BY DEF SliceMetrics
  <2> HIDE DEF g
  <2>2. Comparable(g)
    BY <2>1, FS_Subset DEF Comparable
  <2>3. slices[k].mae[1] = Total(g, AbsoluteMiss(g)) /\ slices[k].bias[1] = Total(g, Miss(g))
    BY <2>1, <2>2, MetricsAre
  <2>4. \A p \in g : /\ Miss(g)[p] = Miss(S)[p] /\ Miss(g)[p] \in Int
                     /\ AbsoluteMiss(g)[p] = AbsoluteMiss(S)[p] /\ AbsoluteMiss(g)[p] \in Int
    <3>1. \A p \in g : Miss(g)[p] = Miss(S)[p] /\ AbsoluteMiss(g)[p] = AbsoluteMiss(S)[p]
      BY <2>1 DEF Miss, AbsoluteMiss
    <3> QED
      BY <1>3, <2>1, <3>1
  <2>5. Total(g, AbsoluteMiss(g)) = Total(g, AbsoluteMiss(S)) /\ Total(g, Miss(g)) = Total(g, Miss(S))
    BY <2>2, <2>4, TotalsCompare DEF Comparable
  <2> QED
    BY <2>3, <2>5 DEF g
<1>5. Part("mae") = Sums(AbsoluteMiss(S)) /\ Part("bias") = Sums(Miss(S))
  BY <1>1, <1>4
<1>6. /\ Total(K, Sums(AbsoluteMiss(S))) = Total(S, AbsoluteMiss(S))
      /\ Total(K, Sums(Miss(S))) = Total(S, Miss(S))
  <2>1. \A p \in S : slice[p] \in K
    OBVIOUS
  <2> HIDE DEF K
  <2> QED
    BY <1>2, <1>3, <2>1, TotalOfGroups
<1> QED
  BY <1>1, <1>5, <1>6

(* MetricsAgree, of predictions that can be compared.                      *)
LEMMA MetricsHold ==
  ASSUME NEW S, Comparable(S)
  PROVE  LET m == Metrics(S)
             off == {Magnitude(p.predicted - p.actual) : p \in S}
             slices == SliceMetrics(S, [p \in S |-> p.actual])
             Part(of) == [value \in DOMAIN slices |-> slices[value][of][1]]
         IN  IF S = {} THEN m = None
             ELSE /\ Magnitude(m.bias[1]) * m.mae[2] =< m.mae[1] * m.bias[2]
                  /\ m.mae[1] * m.mae[1] * m.mse[2] =< m.mse[1] * m.mae[2] * m.mae[2]
                  /\ \A e \in off : off = {e} =>
                        m.mae[1] = e * m.mae[2] /\ m.mse[1] = e * e * m.mse[2]
                  /\ (m.wape = None) <=> (\A p \in S : p.actual = 0)
                  /\ Total(DOMAIN slices, Part("mae")) = m.mae[1]
                  /\ Total(DOMAIN slices, Part("bias")) = m.bias[1]
<1> SUFFICES ASSUME S # {}
             PROVE  LET m == Metrics(S)
                        off == {Magnitude(p.predicted - p.actual) : p \in S}
                        slices == SliceMetrics(S, [p \in S |-> p.actual])
                        Part(of) == [value \in DOMAIN slices |-> slices[value][of][1]]
                    IN  /\ Magnitude(m.bias[1]) * m.mae[2] =< m.mae[1] * m.bias[2]
                        /\ m.mae[1] * m.mae[1] * m.mse[2] =< m.mse[1] * m.mae[2] * m.mae[2]
                        /\ \A e \in off : off = {e} =>
                              m.mae[1] = e * m.mae[2] /\ m.mse[1] = e * e * m.mse[2]
                        /\ (m.wape = None) <=> (\A p \in S : p.actual = 0)
                        /\ Total(DOMAIN slices, Part("mae")) = m.mae[1]
                        /\ Total(DOMAIN slices, Part("bias")) = m.bias[1]
  BY MetricsAre
<1> DEFINE m == Metrics(S)
           off == {Magnitude(p.predicted - p.actual) : p \in S}
           slices == SliceMetrics(S, [p \in S |-> p.actual])
           Part(of) == [value \in DOMAIN slices |-> slices[value][of][1]]
<1>1. PICK n \in Nat, bias \in Int, mae \in Nat, mse \in Nat :
         /\ n = Cardinality(S) /\ bias = Total(S, Miss(S))
         /\ mae = Total(S, AbsoluteMiss(S)) /\ mse = Total(S, SquaredMiss(S))
         /\ Magnitude(bias) =< mae /\ mae * mae =< n * mse
  BY MetricsOrdered
<1>2. /\ m.mae = <<mae, n>> /\ m.mse = <<mse, n>> /\ m.bias = <<bias, n>>
      /\ m.wape = IF Total(S, Consumed(S)) = 0 THEN None ELSE <<mae, Total(S, Consumed(S))>>
  BY <1>1, MetricsAre
<1>3. Magnitude(m.bias[1]) * m.mae[2] =< m.mae[1] * m.bias[2]
  <2>1. PICK k \in Int : k = Magnitude(bias)
    BY DEF Magnitude
  <2>2. k * n =< mae * n
    BY <1>1, <2>1
  <2> QED
    BY <1>2, <2>1, <2>2
<1>4. m.mae[1] * m.mae[1] * m.mse[2] =< m.mse[1] * m.mae[2] * m.mae[2]
  <2>1. PICK a \in Int, b \in Int : a = mae * mae /\ b = n * mse
    OBVIOUS
  <2>2. a * n =< b * n
    BY <1>1, <2>1
  <2>3. mae * mae * n =< mse * n * n
    BY <2>1, <2>2
  <2> QED
    BY <1>2, <2>3
<1>5. ASSUME NEW e \in off, off = {e}
      PROVE  m.mae[1] = e * m.mae[2] /\ m.mse[1] = e * e * m.mse[2]
  <2>1. \A p \in S : AbsoluteMiss(S)[p] \in off
    BY DEF AbsoluteMiss, Miss
  <2>2. \A p \in S : AbsoluteMiss(S)[p] = e
    BY <1>5, <2>1
  <2>3. e \in Int
    BY <2>2, MissesAreNumbers
  <2>4. mae = e * n /\ mse = e * e * n
    BY <1>1, <2>2, <2>3, MetricsOfSame
  <2> QED
    BY <1>2, <2>4
<1>6. (m.wape = None) <=> (\A p \in S : p.actual = 0)
  <2>1. None # <<mae, Total(S, Consumed(S))>>
    <3>1. Total(S, Consumed(S)) \in Int
      BY MissesAreNumbers, TotalOfOne DEF Comparable
    <3> QED
      BY <3>1, NoneAssumption
  <2> QED
    BY <1>2, <2>1, ConsumptionCounts
<1>7. /\ Total(DOMAIN slices, Part("mae")) = m.mae[1]
      /\ Total(DOMAIN slices, Part("bias")) = m.bias[1]
  <2>1. \A slice :
          LET all == SliceMetrics(S, slice)
              PartOf(of) == [value \in DOMAIN all |-> all[value][of][1]]
          IN  /\ Total(DOMAIN all, PartOf("mae")) = mae
              /\ Total(DOMAIN all, PartOf("bias")) = bias
    BY <1>1, SlicesAddUp
  <2> HIDE DEF m
  <2>2. Total(DOMAIN slices, Part("mae")) = mae /\ Total(DOMAIN slices, Part("bias")) = bias
    BY <2>1
  <2> QED
    BY <1>2, <2>2
<1> QED
  BY <1>3, <1>4, <1>5, <1>6, <1>7

(* What monitoring joins: rows with a number forecast, demand a number.    *)
Joinable(e) ==
    /\ IsFiniteSet(e.predictions)
    /\ \A p \in e.predictions : p.p50 \in Int
    /\ \A start \in DOMAIN e.actual : e.actual[start] \in Int

Measured(rows) == IsFiniteSet(rows) /\ \A r \in rows : r.value \in Int

LEMMA JoinedComparable ==
  ASSUME NEW e, Joinable(e)
  PROVE  Comparable(PerformancePredictions(e.predictions, e.actual, e.from, e.until))
<1> DEFINE in == {q \in e.predictions : /\ q.start >= e.from /\ q.end =< e.until
                                        /\ q.p50 # 0
                                        /\ q.start \in DOMAIN e.actual}
           f == [p \in in |-> [id |-> p.id, predicted |-> p.p50, actual |-> e.actual[p.start]]]
           joined == PerformancePredictions(e.predictions, e.actual, e.from, e.until)
<1>1. joined = {f[p] : p \in in}
  BY DEF PerformancePredictions
<1>2. IsFiniteSet(in)
  BY FS_Subset DEF Joinable
<1>3. \A p \in in : f[p].predicted \in Int /\ f[p].actual \in Int
  BY DEF Joinable
<1> HIDE DEF in, f, joined
<1>4. IsFiniteSet(joined)
  BY <1>1, <1>2, FiniteImage
<1> QED
  BY <1>1, <1>3, <1>4 DEF Comparable, joined

LEMMA DriftHolds ==
  ASSUME NEW baseline, NEW comparison, Measured(baseline), Measured(comparison)
  PROVE  LET there == DriftScore(baseline, comparison)
             back == DriftScore(comparison, baseline)
         IN  /\ (there = None) <=> (baseline = {} \/ comparison = {})
             /\ there # None => there[1] * back[2] = back[1] * there[2]
<1> DEFINE there == DriftScore(baseline, comparison)
           back == DriftScore(comparison, baseline)
           Sum(rows) == Total(rows, [r \in rows |-> r.value])
<1>1. PICK n \in Nat, m \in Nat : n = Cardinality(baseline) /\ m = Cardinality(comparison)
  BY FS_CardinalityType DEF Measured
<1>2. (n = 0 <=> baseline = {}) /\ (m = 0 <=> comparison = {})
  BY <1>1, FS_EmptySet DEF Measured
<1>3. \A rows : Measured(rows) => Sum(rows) \in Int
  <2> SUFFICES ASSUME NEW rows, Measured(rows) PROVE Sum(rows) \in Int
    OBVIOUS
  <2> DEFINE v == [r \in rows |-> r.value]
  <2>1. IsFiniteSet(rows) /\ \A r \in rows : v[r] \in Int
    BY DEF Measured
  <2> HIDE DEF v
  <2>2. Total(rows, v) \in Int
    BY <2>1, TotalOfOne
  <2> QED
    BY <2>2 DEF v
<1>4. PICK a \in Int, b \in Int : a = Sum(baseline) /\ b = Sum(comparison)
  BY <1>3
<1>5. /\ there = IF n = 0 \/ m = 0 THEN None ELSE <<Magnitude(b * n - a * m), n * m>>
      /\ back = IF m = 0 \/ n = 0 THEN None ELSE <<Magnitude(a * m - b * n), m * n>>
  BY <1>1, <1>4 DEF DriftScore
<1>6. PICK x \in Int, y \in Int, z \in Int : x = b * n /\ y = a * m /\ z = n * m /\ z = m * n
  OBVIOUS
<1>7. Magnitude(x - y) = Magnitude(y - x) /\ Magnitude(x - y) \in Int
  BY DEF Magnitude
<1>8. None # <<Magnitude(x - y), z>>
  BY <1>7, NoneAssumption
<1> HIDE DEF there, back
<1>9. (there = None) <=> (n = 0 \/ m = 0)
  BY <1>5, <1>6, <1>8
<1>10. there # None => there[1] * back[2] = back[1] * there[2]
  BY <1>5, <1>6, <1>7, <1>9
<1> QED
  BY <1>2, <1>9, <1>10 DEF there, back

InputIsMeasured ==
    /\ topic = "errors" => input \in Errors
    /\ topic = "drift" => input \in Drifts

(* SummariesAgree, for any forecasts and demand that are numbers. *)
THEOREM SummariesConsistent ==
  ASSUME \A e \in Errors : Joinable(e),
         \A d \in Drifts : Measured(d.baseline) /\ Measured(d.comparison)
  PROVE  Spec => []SummariesAgree
<1>1. Init => InputIsMeasured
  BY DEF Init, InputIsMeasured
<1>2. InputIsMeasured /\ [Next]_vars => InputIsMeasured'
  BY DEF InputIsMeasured, Next, Look, vars
<1>3. InputIsMeasured => SummariesAgree
  <2> SUFFICES ASSUME InputIsMeasured PROVE SummariesAgree
    OBVIOUS
  <2>1. MetricsAgree
    <3> SUFFICES ASSUME topic = "errors" PROVE MetricsAgree
      BY DEF MetricsAgree
    <3> DEFINE joined == PerformancePredictions(input.predictions, input.actual,
                                                input.from, input.until)
    <3>1. Comparable(joined)
      BY JoinedComparable DEF InputIsMeasured
    <3> HIDE DEF joined
    <3>2. LET m == Metrics(joined)
              off == {Magnitude(p.predicted - p.actual) : p \in joined}
              slices == SliceMetrics(joined, [p \in joined |-> p.actual])
              Part(of) == [value \in DOMAIN slices |-> slices[value][of][1]]
          IN  IF joined = {} THEN m = None
              ELSE /\ Magnitude(m.bias[1]) * m.mae[2] =< m.mae[1] * m.bias[2]
                   /\ m.mae[1] * m.mae[1] * m.mse[2] =< m.mse[1] * m.mae[2] * m.mae[2]
                   /\ \A e \in off : off = {e} =>
                         m.mae[1] = e * m.mae[2] /\ m.mse[1] = e * e * m.mse[2]
                   /\ (m.wape = None) <=> (\A p \in joined : p.actual = 0)
                   /\ Total(DOMAIN slices, Part("mae")) = m.mae[1]
                   /\ Total(DOMAIN slices, Part("bias")) = m.bias[1]
      BY <3>1, MetricsHold
    <3> QED
      BY <3>2 DEF MetricsAgree, joined
  <2>2. DriftIsADistance
    <3> SUFFICES ASSUME topic = "drift" PROVE DriftIsADistance
      BY DEF DriftIsADistance
    <3>1. Measured(input.baseline) /\ Measured(input.comparison)
      BY DEF InputIsMeasured
    <3> QED
      BY <3>1, DriftHolds DEF DriftIsADistance
  <2> QED
    BY <2>1, <2>2 DEF SummariesAgree
<1> QED
  BY <1>1, <1>2, <1>3, PTL DEF Spec

-----------------------------------------------------------------------------
(* Selection *)

Quotient == Int \X (Nat \ {0})

(* What the gate compares: a candidate with its metrics, and the rows      *)
(* stored for the baselines.                                               *)
IsCandidate(c) == c # None /\ c.mae \in Quotient /\ c.wape \in Quotient \cup {None}

Gateable(g) ==
    /\ IsFiniteSet(g.rows)
    /\ \A r \in g.rows : r.id \in Int /\ r.created \in Int /\ r.value \in Quotient
    /\ g.candidate # None => IsCandidate(g.candidate)
    /\ IsCandidate(g.better)

(* To be no larger is transitive.                                          *)
LEMMA NoLargerTwice ==
  ASSUME NEW x \in Quotient, NEW y \in Quotient, NEW z \in Quotient,
         ~Exceeds(x, y), ~Exceeds(y, z)
  PROVE  ~Exceeds(x, z)
<1>1. PICK a \in Int, b \in Nat \ {0}, c \in Int, d \in Nat \ {0}, e \in Int, f \in Nat \ {0} :
         x = <<a, b>> /\ y = <<c, d>> /\ z = <<e, f>>
  BY DEF Quotient
<1>2. a * d =< c * b /\ c * f =< e * d
  BY <1>1 DEF Exceeds
<1>3. (a * d) * f =< (c * b) * f
  BY <1>2
<1>4. (c * f) * b =< (e * d) * b
  BY <1>2
<1>5. d * (a * f) =< d * (e * b)
  BY <1>3, <1>4
<1>6. \A u, v \in Int : d * u =< d * v => u =< v
  OBVIOUS
<1>7. a * f =< e * b
  BY <1>5, <1>6
<1> QED
  BY <1>1, <1>7 DEF Exceeds

(* The value of a metric is the one stored last, if one is stored.         *)
LEMMA StoredLast ==
  ASSUME NEW rows, IsFiniteSet(rows),
         \A r \in rows : r.id \in Int /\ r.created \in Int /\ r.value \in Quotient,
         NEW baseline, NEW names, NEW name \in names
  PROVE  LET value == BaselineMetrics(rows, baseline, names)[name]
             of == {r \in rows : r.baseline = baseline /\ r.metric = name}
         IN  IF of = {} THEN value = None
             ELSE \E r \in of : value = r.value /\ \A s \in of : s.created =< r.created
<1> DEFINE value == BaselineMetrics(rows, baseline, names)[name]
           of == {r \in rows : r.baseline = baseline /\ r.metric = name}
           Newest(r) == \A s \in of : s.created < r.created \/ (s.created = r.created /\ s.id =< r.id)
<1>1. value = IF of = {} THEN None ELSE (CHOOSE r \in of : Newest(r)).value
  BY DEF BaselineMetrics
<1>2. ASSUME of # {} PROVE \E r \in of : Newest(r)
  <2> DEFINE time == [r \in of |-> r.created]
             id == [r \in of |-> r.id]
  <2>1. IsFiniteSet(of) /\ \A r \in of : time[r] \in Int /\ id[r] \in Int
    BY FS_Subset
  <2>2. \A r \in of : time[r] = r.created /\ id[r] = r.id
    OBVIOUS
  <2> HIDE DEF of, time, id
  <2>3. PICK r \in of : \A s \in of : time[s] < time[r] \/ (time[s] = time[r] /\ id[s] =< id[r])
    BY <1>2, <2>1, FiniteHasLatest
  <2> QED
    BY <2>2, <2>3
<1>3. ASSUME of # {}
      PROVE  \E r \in of : value = r.value /\ \A s \in of : s.created =< r.created
  <2> DEFINE last == CHOOSE r \in of : Newest(r)
  <2>1. last \in of /\ Newest(last)
    BY <1>2, <1>3
  <2>2. value = last.value
    BY <1>1, <1>3
  <2> HIDE DEF last
  <2>3. \A s \in of : s.created =< last.created
    BY <2>1
  <2> QED
    BY <2>1, <2>2, <2>3
<1> QED
  BY <1>1, <1>3

InputIsGateable == topic = "gate" => input \in Gates

(* SelectionIsMonotone, for any metrics and candidates whose metrics are   *)
(* quotients: what is stored last for the baseline decides, and a          *)
(* candidate no worse than a selected one is selected                      *)
(* (model_selection.py).                                                   *)
THEOREM SelectionMonotone ==
  ASSUME \A g \in Gates : Gateable(g)
  PROVE  Spec => []SelectionIsMonotone
<1>1. Init => InputIsGateable
  BY DEF Init, InputIsGateable
<1>2. InputIsGateable /\ [Next]_vars => InputIsGateable'
  BY DEF InputIsGateable, Next, Look, vars
<1>3. InputIsGateable => SelectionIsMonotone
  <2> DEFINE baseline == BaselineMetrics(input.rows, "ridge", {"mae", "wape"})
             Of(name) == {r \in input.rows : r.baseline = "ridge" /\ r.metric = name}
  <2> SUFFICES ASSUME InputIsGateable, topic = "gate", Selected(input.candidate, baseline, TRUE)
               PROVE  /\ \E r \in input.rows :
                            /\ r.baseline = "ridge" /\ r.metric = "mae"
                            /\ ~Exceeds(input.candidate.mae, r.value)
                            /\ \A s \in input.rows :
                                  s.baseline = "ridge" /\ s.metric = "mae" => s.created =< r.created
                      /\ /\ ~Exceeds(input.better.mae, input.candidate.mae)
                         /\ \/ input.better.wape = None
                            \/ /\ input.candidate.wape # None
                               /\ ~Exceeds(input.better.wape, input.candidate.wape)
                         => Selected(input.better, baseline, TRUE)
    BY DEF SelectionIsMonotone
  <2>1. Gateable(input)
    BY DEF InputIsGateable
  <2>2. /\ input.candidate # None /\ baseline.mae # None
        /\ ~Exceeds(input.candidate.mae, baseline.mae)
        /\ \/ input.candidate.wape = None \/ baseline.wape = None
           \/ ~Exceeds(input.candidate.wape, baseline.wape)
    BY DEF Selected
  <2>3. IsCandidate(input.candidate) /\ IsCandidate(input.better)
    BY <2>1, <2>2 DEF Gateable
  <2>4. \A name \in {"mae", "wape"} :
           IF Of(name) = {} THEN baseline[name] = None
           ELSE \E r \in Of(name) : baseline[name] = r.value /\ \A s \in Of(name) : s.created =< r.created
    BY <2>1, StoredLast DEF Gateable
  <2>5. IF Of("mae") = {} THEN baseline.mae = None
        ELSE \E r \in Of("mae") : baseline.mae = r.value /\ \A s \in Of("mae") : s.created =< r.created
    BY <2>4
  <2>6. IF Of("wape") = {} THEN baseline.wape = None
        ELSE \E r \in Of("wape") : baseline.wape = r.value /\ \A s \in Of("wape") : s.created =< r.created
    BY <2>4
  <2> HIDE DEF baseline
  <2>7. PICK r \in Of("mae") : baseline.mae = r.value /\ \A s \in Of("mae") : s.created =< r.created
    BY <2>2, <2>5
  <2>8. baseline.mae \in Quotient
    BY <2>1, <2>7 DEF Gateable
  <2>9. baseline.wape = None \/ baseline.wape \in Quotient
    BY <2>1, <2>6 DEF Gateable
  <2>10. ASSUME ~Exceeds(input.better.mae, input.candidate.mae),
                \/ input.better.wape = None
                \/ /\ input.candidate.wape # None
                   /\ ~Exceeds(input.better.wape, input.candidate.wape)
         PROVE  Selected(input.better, baseline, TRUE)
    <3>1. ~Exceeds(input.better.mae, baseline.mae)
      BY <2>2, <2>3, <2>8, <2>10, NoLargerTwice DEF IsCandidate
    <3>2. \/ input.better.wape = None \/ baseline.wape = None
          \/ ~Exceeds(input.better.wape, baseline.wape)
      <4> SUFFICES ASSUME input.better.wape # None, baseline.wape # None
                   PROVE  ~Exceeds(input.better.wape, baseline.wape)
        OBVIOUS
      <4>1. /\ input.better.wape \in Quotient /\ input.candidate.wape \in Quotient
            /\ baseline.wape \in Quotient
        BY <2>3, <2>9, <2>10 DEF IsCandidate
      <4> QED
        BY <2>2, <2>10, <4>1, NoLargerTwice
    <3> QED
      BY <2>2, <2>3, <3>1, <3>2 DEF Selected, IsCandidate
  <2> QED
    BY <2>2, <2>7, <2>10
<1> QED
  BY <1>1, <1>2, <1>3, PTL DEF Spec

-----------------------------------------------------------------------------
(* Forecast outputs *)

(* The p50 of a forecast, over consecutive hours. *)
Forecast(p50) ==
    \E first, last \in Int : first =< last /\ p50 \in [first..last -> Int]

(* The largest and the least of finitely many numbers.                     *)
LEMMA Extremes ==
  ASSUME NEW S \in SUBSET Int, IsFiniteSet(S), S # {}
  PROVE  /\ Max(S) \in S /\ \A x \in S : x =< Max(S)
         /\ Min(S) \in S /\ \A x \in S : Min(S) =< x
<1>1. \E x \in S : \A y \in S : x >= y
  BY FiniteHasMax
<1>2. \E x \in S : \A y \in S : x =< y
  BY FiniteHasMin
<1>3. Max(S) \in S /\ \A y \in S : Max(S) >= y
  BY <1>1 DEF Max
<1>4. Min(S) \in S /\ \A y \in S : Min(S) =< y
  BY <1>2 DEF Min
<1> QED
  BY <1>3, <1>4

(* The peak is the first hour of the largest value.                        *)
LEMMA PeakIsFirst ==
  ASSUME NEW D \in SUBSET Int, IsFiniteSet(D), D # {}, NEW f \in [D -> Int]
  PROVE  /\ Peak(f) \in D
         /\ \A u \in D : f[u] < f[Peak(f)] \/ (f[u] = f[Peak(f)] /\ Peak(f) =< u)
<1> DEFINE id == [t \in D |-> 0 - t]
<1>1. \A t \in D : f[t] \in Int /\ id[t] \in Int /\ id[t] = 0 - t /\ t \in Int
  OBVIOUS
<1> HIDE DEF id
<1>2. PICK r \in D : \A s \in D : f[s] < f[r] \/ (f[s] = f[r] /\ id[s] =< id[r])
  BY <1>1, FiniteHasLatest
<1>3. \A s \in D : f[s] < f[r] \/ (f[s] = f[r] /\ r =< s)
  BY <1>1, <1>2
<1> QED
  BY <1>3 DEF Peak

(* The ramps between two hours add up to the difference of their demand.   *)
LEMMA RampsAddUp ==
  ASSUME NEW first \in Int, NEW last \in Int, NEW p50 \in [first..last -> Int],
         NEW t \in first..last, NEW u \in first..last, t < u
  PROVE  Total((t + 1)..u, Ramps(p50)) = p50[u] - p50[t]
<1> DEFINE ramps == Ramps(p50)
           G == {k \in Nat : t + k =< last =>
                                Total((t + 1)..(t + k), ramps) = p50[t + k] - p50[t]}
<1>1. \A h \in (first + 1)..last : ramps[h] = p50[h] - p50[h - 1] /\ ramps[h] \in Int
  BY DEF Ramps
<1> HIDE DEF ramps
<1>2. 0 \in G
  <2>1. (t + 1)..(t + 0) = {}
    OBVIOUS
  <2>2. Total({}, ramps) = 0
    BY FS_EmptySet, TotalOfOne
  <2> QED
    BY <2>1, <2>2
<1>3. ASSUME NEW k \in Nat, k \in G
      PROVE  k + 1 \in G
  <2> SUFFICES ASSUME t + (k + 1) =< last
               PROVE  Total((t + 1)..(t + (k + 1)), ramps) = p50[t + (k + 1)] - p50[t]
    OBVIOUS
  <2> DEFINE h == t + (k + 1)
             S == (t + 1)..h
  <2>1. IsFiniteSet(S) /\ h \in S /\ h - 1 = t + k /\ h \in (first + 1)..last
    BY FS_Interval
  <2>2. S \ {h} = (t + 1)..(t + k)
    OBVIOUS
  <2>3. \A x \in S : ramps[x] \in Int
    BY <1>1
  <2> HIDE DEF S
  <2>4. Total(S, ramps) = ramps[h] + Total(S \ {h}, ramps)
    BY <2>1, <2>3, TotalOfOne
  <2>5. Total(S \ {h}, ramps) = p50[t + k] - p50[t]
    <3>1. t + k =< last
      OBVIOUS
    <3>2. Total((t + 1)..(t + k), ramps) = p50[t + k] - p50[t]
      BY <1>3, <3>1
    <3> QED
      BY <2>2, <3>2
  <2>6. ramps[h] = p50[h] - p50[t + k]
    BY <1>1, <2>1
  <2>7. p50[h] \in Int /\ p50[t + k] \in Int /\ p50[t] \in Int
    OBVIOUS
  <2> QED
    BY <2>4, <2>5, <2>6, <2>7 DEF S
<1> HIDE DEF G
<1>4. u - t \in G
  BY <1>2, <1>3, CountingInduction
<1>5. t + (u - t) = u
  OBVIOUS
<1> QED
  BY <1>4, <1>5 DEF G, ramps

LEMMA RampsHold ==
  ASSUME NEW p50, Forecast(p50)
  PROVE  /\ \A t, u \in DOMAIN p50 :
               t < u => Total((t + 1)..u, Ramps(p50)) = p50[u] - p50[t]
         /\ Peak(p50) \in DOMAIN Ramps(p50) => Ramps(p50)[Peak(p50)] > 0
         /\ Peak(p50) + 1 \in DOMAIN Ramps(p50) => Ramps(p50)[Peak(p50) + 1] =< 0
<1>1. PICK first \in Int, last \in Int : first =< last /\ p50 \in [first..last -> Int]
  BY DEF Forecast
<1>2. DOMAIN p50 = first..last
  BY <1>1
<1>3. PICK peak \in first..last :
         /\ peak = Peak(p50)
         /\ \A u \in first..last : p50[u] < p50[peak] \/ (p50[u] = p50[peak] /\ peak =< u)
  <2> DEFINE D == first..last
  <2>1. D \in SUBSET Int /\ IsFiniteSet(D) /\ D # {} /\ p50 \in [D -> Int]
    <3>1. IsFiniteSet(D)
      BY FS_Interval
    <3>2. first \in D
      BY <1>1
    <3>3. D \in SUBSET Int
      OBVIOUS
    <3>4. p50 \in [D -> Int]
      BY <1>1
    <3> HIDE DEF D
    <3> QED
      BY <3>1, <3>2, <3>3, <3>4
  <2> HIDE DEF D
  <2>2. /\ Peak(p50) \in D
        /\ \A u \in D : p50[u] < p50[Peak(p50)] \/ (p50[u] = p50[Peak(p50)] /\ Peak(p50) =< u)
    BY <2>1, PeakIsFirst
  <2> QED
    BY <2>2 DEF D
<1>4. \A t \in first..last : p50[t] \in Int
  BY <1>1
<1>5. ASSUME peak \in DOMAIN Ramps(p50) PROVE Ramps(p50)[peak] > 0
  <2>1. peak - 1 \in first..last /\ Ramps(p50)[peak] = p50[peak] - p50[peak - 1]
    BY <1>2, <1>5 DEF Ramps
  <2>2. p50[peak - 1] < p50[peak]
    BY <1>3, <2>1
  <2> QED
    BY <1>4, <2>1, <2>2
<1>6. ASSUME peak + 1 \in DOMAIN Ramps(p50) PROVE Ramps(p50)[peak + 1] =< 0
  <2>1. peak + 1 \in first..last /\ Ramps(p50)[peak + 1] = p50[peak + 1] - p50[peak]
    BY <1>2, <1>6 DEF Ramps
  <2> QED
    BY <1>3, <1>4, <2>1
<1>7. ASSUME NEW t \in first..last, NEW u \in first..last, t < u
      PROVE  Total((t + 1)..u, Ramps(p50)) = p50[u] - p50[t]
  BY <1>1, <1>7, RampsAddUp
<1> QED
  BY <1>2, <1>3, <1>5, <1>6, <1>7

-----------------------------------------------------------------------------
(* Scenarios *)

Request == [percent : Int, added : Int, degrees : Int]

(* Rounding forgets the sign, and nothing is rounded to nothing.           *)
LEMMA RoundedBothWays ==
  ASSUME NEW n \in Int
  PROVE  /\ Rounded(n, 100) \in Int
         /\ Rounded(0 - n, 100) = 0 - Rounded(n, 100)
         /\ Rounded(0, 100) = 0
<1>1. Magnitude(0 - n) = Magnitude(n) /\ Magnitude(n) \in Int /\ Magnitude(0) = 0
  BY DEF Magnitude
<1>2. PICK steps \in Int : steps = (2 * Magnitude(n) + 100) \div (2 * 100)
  BY <1>1
<1>3. (2 * Magnitude(0) + 100) \div (2 * 100) = 0
  BY <1>1
<1>4. n = 0 => steps = 0
  BY <1>2, <1>3
<1> QED
  BY <1>1, <1>2, <1>3, <1>4 DEF Rounded

(* What a scenario adds to an hour, and its reverse takes away.            *)
LEMMA DeltasReverse ==
  ASSUME NEW D \in SUBSET Int, NEW p50 \in [D -> Int], NEW request \in Request
  PROVE  LET deltas == ScenarioDeltas(p50, request)
             reverse == [part \in DOMAIN request |-> 0 - request[part]]
         IN  /\ DOMAIN deltas = {t \in D : p50[t] # 0}
             /\ \A t \in DOMAIN deltas :
                   /\ deltas[t] \in Int
                   /\ ScenarioDeltas(p50, reverse)[t] = 0 - deltas[t]
                   /\ request.percent = 0 =>
                         deltas[t] = request.added + request.degrees * WeatherDeltaPerDegree
<1> DEFINE deltas == ScenarioDeltas(p50, request)
           reverse == [part \in DOMAIN request |-> 0 - request[part]]
<1>1. DOMAIN deltas = {t \in D : p50[t] # 0}
  BY DEF ScenarioDeltas
<1>2. PICK p \in Int, a \in Int, d \in Int :
         /\ p = request.percent /\ a = request.added /\ d = request.degrees
  BY DEF Request
<1>3. reverse.percent = 0 - p /\ reverse.added = 0 - a /\ reverse.degrees = 0 - d
  <2>1. DOMAIN request = {"percent", "added", "degrees"}
    BY DEF Request
  <2> QED
    BY <1>2, <2>1
<1> HIDE DEF reverse
<1>4. ASSUME NEW t \in DOMAIN deltas
      PROVE  /\ deltas[t] \in Int
             /\ ScenarioDeltas(p50, reverse)[t] = 0 - deltas[t]
             /\ request.percent = 0 =>
                   deltas[t] = request.added + request.degrees * WeatherDeltaPerDegree
  <2>1. PICK base \in Int : base = p50[t]
    BY <1>1
  <2>2. PICK n \in Int, m \in Int :
           n = base * p /\ m = d * WeatherDeltaPerDegree
    BY DEF WeatherDeltaPerDegree
  <2>3. base * (0 - p) = 0 - n /\ (0 - d) * WeatherDeltaPerDegree = 0 - m
    BY <2>2 DEF WeatherDeltaPerDegree
  <2>4. deltas[t] = Rounded(n, 100) + a + m
    BY <1>1, <1>2, <2>1, <2>2 DEF ScenarioDeltas, DemandDelta
  <2>5. ScenarioDeltas(p50, reverse)[t] = Rounded(0 - n, 100) + (0 - a) + (0 - m)
    BY <1>1, <1>3, <2>1, <2>3 DEF ScenarioDeltas, DemandDelta
  <2>6. /\ Rounded(n, 100) \in Int /\ Rounded(0 - n, 100) = 0 - Rounded(n, 100)
        /\ Rounded(0, 100) = 0
    BY RoundedBothWays
  <2>7. p = 0 => n = 0
    BY <2>2
  <2> HIDE DEF deltas
  <2>8. deltas[t] \in Int /\ ScenarioDeltas(p50, reverse)[t] = 0 - deltas[t]
    BY <2>4, <2>5, <2>6
  <2>9. p = 0 => deltas[t] = a + m
    BY <2>4, <2>6, <2>7
  <2> QED
    BY <1>2, <2>2, <2>8, <2>9
<1> QED
  BY <1>1, <1>4 DEF reverse

LEMMA ScenariosHold ==
  ASSUME NEW D \in SUBSET Int, IsFiniteSet(D), NEW p50 \in [D -> Int],
         NEW request \in Request
  PROVE  LET deltas == ScenarioDeltas(p50, request)
             summary == ScenarioSummary(p50, deltas)
             moves == {deltas[t] : t \in DOMAIN deltas}
         IN  moves # {} =>
               /\ summary.peakDelta \in Min(moves)..Max(moves)
               /\ request.percent = 0 =>
                     /\ summary.peakDelta = Max(moves)
                     /\ summary.totalDelta = summary.rows * summary.peakDelta
<1> DEFINE deltas == ScenarioDeltas(p50, request)
           H == DOMAIN deltas
           moves == {deltas[t] : t \in H}
           base == [t \in H |-> p50[t]]
           moved == [t \in H |-> p50[t] + deltas[t]]
           summary == ScenarioSummary(p50, deltas)
<1> SUFFICES ASSUME moves # {}
             PROVE  /\ summary.peakDelta \in Min(moves)..Max(moves)
                    /\ request.percent = 0 =>
                          /\ summary.peakDelta = Max(moves)
                          /\ summary.totalDelta = summary.rows * summary.peakDelta
  OBVIOUS
<1>1. /\ H \in SUBSET D /\ H # {}
      /\ \A t \in H : deltas[t] \in Int /\ p50[t] \in Int
  <2>1. H = {t \in D : p50[t] # 0} /\ \A t \in H : deltas[t] \in Int
    <3>1. H = {t \in D : p50[t] # 0}
      BY DeltasReverse
    <3>2. \A t \in H : deltas[t] \in Int
      BY DeltasReverse
    <3> QED
      BY <3>1, <3>2
  <2>2. H # {}
    OBVIOUS
  <2> HIDE DEF deltas, H
  <2>3. \A t \in H : p50[t] \in Int
    BY <2>1
  <2> QED
    BY <2>1, <2>2, <2>3
<1>2. /\ summary.peakDelta = moved[Peak(moved)] - base[Peak(base)]
      /\ summary.rows = Cardinality(H) /\ summary.totalDelta = Total(H, deltas)
  BY DEF ScenarioSummary
<1>3. base \in [H -> Int] /\ moved \in [H -> Int]
  BY <1>1
<1>4. \A t \in H : base[t] = p50[t] /\ moved[t] = p50[t] + deltas[t]
  OBVIOUS
<1>5. IsFiniteSet(H) /\ IsFiniteSet(moves) /\ moves \in SUBSET Int
  <2>1. IsFiniteSet(H)
    BY <1>1, FS_Subset
  <2> HIDE DEF deltas, H
  <2> QED
    BY <1>1, <2>1, FiniteImage
<1>c. request.percent = 0 =>
         \A t \in H : deltas[t] = request.added + request.degrees * WeatherDeltaPerDegree
  BY DeltasReverse
<1>d. \A t \in H : deltas[t] \in moves
  OBVIOUS
<1>e. \A x \in moves : \E t \in H : x = deltas[t]
  OBVIOUS
<1> HIDE DEF deltas, H, base, moved, summary, moves
<1>6. PICK b \in H : b = Peak(base) /\ \A u \in H : base[u] =< base[b]
  <2>1. H \in SUBSET Int
    BY <1>1
  <2>2. /\ Peak(base) \in H
        /\ \A u \in H : base[u] < base[Peak(base)] \/ (base[u] = base[Peak(base)] /\ Peak(base) =< u)
    BY <1>1, <1>3, <1>5, <2>1, PeakIsFirst
  <2>3. \A u \in H : base[u] \in Int
    BY <1>3
  <2> QED
    BY <2>2, <2>3
<1>7. PICK m \in H : m = Peak(moved) /\ \A u \in H : moved[u] =< moved[m]
  <2>1. H \in SUBSET Int
    BY <1>1
  <2>2. /\ Peak(moved) \in H
        /\ \A u \in H : \/ moved[u] < moved[Peak(moved)]
                        \/ moved[u] = moved[Peak(moved)] /\ Peak(moved) =< u
    BY <1>1, <1>3, <1>5, <2>1, PeakIsFirst
  <2>3. \A u \in H : moved[u] \in Int
    BY <1>3
  <2> QED
    BY <2>2, <2>3
<1>8. /\ Max(moves) \in moves /\ \A x \in moves : x =< Max(moves)
      /\ Min(moves) \in moves /\ \A x \in moves : Min(moves) =< x
  BY <1>5, Extremes
<1>9. Max(moves) \in Int /\ Min(moves) \in Int
  BY <1>5, <1>8
<1>10. summary.peakDelta = (p50[m] + deltas[m]) - p50[b]
  BY <1>2, <1>4, <1>6, <1>7
<1>11. p50[m] =< p50[b] /\ p50[b] + deltas[b] =< p50[m] + deltas[m]
  BY <1>4, <1>6, <1>7
<1>12. /\ deltas[m] =< Max(moves) /\ Min(moves) =< deltas[b]
       /\ deltas[m] \in Int /\ deltas[b] \in Int /\ p50[m] \in Int /\ p50[b] \in Int
  BY <1>1, <1>8, <1>d
<1>13. summary.peakDelta \in Min(moves)..Max(moves)
  BY <1>9, <1>10, <1>11, <1>12
<1>14. ASSUME request.percent = 0
       PROVE  /\ summary.peakDelta = Max(moves)
              /\ summary.totalDelta = summary.rows * summary.peakDelta
  <2>1. PICK c \in Int : \A t \in H : deltas[t] = c
    BY <1>1, <1>14, <1>c
  <2>2. Max(moves) = c
    BY <1>8, <1>e, <2>1
  <2>3. Min(moves) = c
    BY <1>8, <1>e, <2>1
  <2>4. summary.peakDelta = c
    BY <1>13, <2>2, <2>3
  <2>5. summary.totalDelta = c * summary.rows
    BY <1>2, <1>5, <2>1, TotalOfSame
  <2>6. summary.rows \in Nat
    BY <1>2, <1>5, FS_CardinalityType
  <2> QED
    BY <2>2, <2>4, <2>5, <2>6
<1> QED
  BY <1>13, <1>14

InputIsOutput ==
    /\ topic = "outputs" => input \in Outputs
    /\ topic = "scenario" => input \in Scenarios

(* OutputsAgree, for any forecast of consecutive hours and any request     *)
(* over finitely many hours.                                               *)
THEOREM OutputsConsistent ==
  ASSUME \A p50 \in Outputs : Forecast(p50),
         \A s \in Scenarios :
            /\ s.request \in Request
            /\ \E D \in SUBSET Int : IsFiniteSet(D) /\ s.p50 \in [D -> Int]
  PROVE  Spec => []OutputsAgree
<1>1. Init => InputIsOutput
  BY DEF Init, InputIsOutput
<1>2. InputIsOutput /\ [Next]_vars => InputIsOutput'
  BY DEF InputIsOutput, Next, Look, vars
<1>3. InputIsOutput => OutputsAgree
  <2> SUFFICES ASSUME InputIsOutput PROVE OutputsAgree
    OBVIOUS
  <2>1. RampsAgree
    <3> SUFFICES ASSUME topic = "outputs" PROVE RampsAgree
      BY DEF RampsAgree
    <3>1. Forecast(input)
      BY DEF InputIsOutput
    <3> QED
      BY <3>1, RampsHold DEF RampsAgree
  <2>2. ScenariosAgree
    <3> SUFFICES ASSUME topic = "scenario" PROVE ScenariosAgree
      BY DEF ScenariosAgree
    <3>1. input.request \in Request /\ \E D \in SUBSET Int : IsFiniteSet(D) /\ input.p50 \in [D -> Int]
      BY DEF InputIsOutput
    <3>2. PICK D \in SUBSET Int : IsFiniteSet(D) /\ input.p50 \in [D -> Int]
      BY <3>1
    <3>3. LET deltas == ScenarioDeltas(input.p50, input.request)
              reverse == [part \in DOMAIN input.request |-> 0 - input.request[part]]
          IN  \A t \in DOMAIN deltas : ScenarioDeltas(input.p50, reverse)[t] = 0 - deltas[t]
      BY <3>1, <3>2, DeltasReverse
    <3>4. LET deltas == ScenarioDeltas(input.p50, input.request)
              summary == ScenarioSummary(input.p50, deltas)
              moves == {deltas[t] : t \in DOMAIN deltas}
          IN  moves # {} =>
                /\ summary.peakDelta \in Min(moves)..Max(moves)
                /\ input.request.percent = 0 =>
                      /\ summary.peakDelta = Max(moves)
                      /\ summary.totalDelta = summary.rows * summary.peakDelta
      BY <3>1, <3>2, ScenariosHold
    <3> QED
      BY <3>3, <3>4 DEF ScenariosAgree
  <2> QED
    BY <2>1, <2>2 DEF OutputsAgree
<1> QED
  BY <1>1, <1>2, <1>3, PTL DEF Spec
=============================================================================
