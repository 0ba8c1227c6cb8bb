---------------------------- MODULE MCAlgorithms ----------------------------
(* Inputs of Algorithms for TLC.  Hour is 2: instants are half hours.      *)
EXTENDS Algorithms

(* The time line: the clock changes on day 2 and on day 5. *)
MCStarts == {h * Hour : h \in 24..150}
MCDates == 1..5

InputsAround(change) ==
    {[missing |-> missing, from |-> change + offset, until |-> change + offset + length] :
        offset \in -4..1,
        length \in {1, 2, 4, 5, 8},
        missing \in {{}} \cup {{change + h * Hour} : h \in -2..3}}

MCDemandInputs == InputsAround(SpringForward) \cup InputsAround(FallBack)

MCObservations ==
    {[table |-> {[station |-> key[1], at |-> key[2], value |-> 20, current |-> TRUE] :
                    key \in keys},
      from |-> from, until |-> until] :
        keys \in SUBSET ({"a", "b"} \X {2, 4, 6}), from \in {1, 2}, until \in {6, 7}}

MCIssueTables ==
    {[table |-> {[series |-> "temperature", issued |-> key[1], valid |-> key[2],
                  lead |-> (key[2] - key[1]) \div Hour, value |-> 20, current |-> TRUE] :
                    key \in keys},
      now |-> now] :
        keys \in SUBSET ({0, 2} \X {4, 6, 8}), now \in {10, 51}}

(* Nine days of demand and what the weather sources say around the issue   *)
(* times, ten days long.                                                   *)
DemandWithout(gaps) ==
    {[id |-> h, start |-> h * Hour, end |-> (h + 1) * Hour,
      mw |-> 14000 + ((7 * h) % 24), current |-> TRUE] : h \in (0..241) \ gaps}

Weather(issue) ==
    {[id |-> 1, station |-> "a", at |-> issue - 3, current |-> TRUE],
     [id |-> 2, station |-> "a", at |-> issue, current |-> TRUE],
     [id |-> 3, station |-> "a", at |-> issue + 1, current |-> TRUE],
     [id |-> 4, station |-> "b", at |-> issue - 1, current |-> FALSE],
     [id |-> 5, station |-> "b", at |-> issue + 1, current |-> TRUE]}

Archive(issue) ==
    {[id |-> 10 * lead + age, series |-> "temperature", issued |-> issue + 1 - age,
      valid |-> NextHourAfter(issue) + lead * Hour, current |-> TRUE] :
        lead \in 0..2, age \in 0..3}

MCSnapshots ==
    {[demand |-> DemandWithout(gaps), observations |-> Weather(issue),
      forecasts |-> Archive(issue), issue |-> issue, hours |-> 26] :
        issue \in {192 * Hour, 192 * Hour + 1},
        gaps \in {{}, {191}, {190, 191}, {169, 170}, {26, 193}, 168..192}}

MCBacktests ==
    {c \in [trainingStart : {0}, evaluationStart : 2..3, evaluationEnd : 4..9,
            horizon : 1..3, step : 1..3, minimum : {0, 4}, rolling : {None, 2},
            final : {None} \cup 2..8] : ValidConfig(c)}

MCErrors ==
    {[predictions |-> {[id |-> h, start |-> h, end |-> h + 1, p50 |-> p50[h]] : h \in 0..2},
      actual |-> actual, from |-> 0, until |-> until] :
        p50 \in [0..2 -> {0, 1, 3}],
        actual \in [0..2 -> {0, 2, 4}] \cup [0..1 -> {0, 2}],
        until \in {2, 3}}

Columns == {{[id |-> i, value |-> v[i]] : i \in DOMAIN v} :
               v \in UNION {[1..n -> {1, 2, 4}] : n \in 0..2}}
MCDrifts == [baseline : Columns, comparison : Columns]

Quotients == {<<1, 2>>, <<1, 1>>, <<3, 1>>}
Candidates == [mae : Quotients, wape : {None} \cup Quotients]
Stored == {[id |-> key[1], created |-> key[1], baseline |-> "ridge",
            metric |-> IF key[1] = 3 THEN "wape" ELSE "mae", value |-> key[2]] :
              key \in (1..3) \X {<<1, 2>>, <<1, 1>>}}
MCGates ==
    [rows : {rows \in SUBSET Stored : \A r, s \in rows : r.id = s.id => r = s},
     candidate : Candidates, better : {c \in Candidates : c.mae = <<1, 2>>}]

MCOutputs == UNION {[1..n -> 0..2] : n \in 1..4}

MCScenarios ==
    [p50 : UNION {[1..n -> {0, 149, 150, 151000}] : n \in 0..3},
     request : [percent : {-50, 0, 1, 33}, added : {-100, 0, 100}, degrees : {-1, 0, 2}]]

Levels == {0, 23900, 25000, 26000}
CheckOf(id, dataset, status, completed, results) ==
    [id |-> id, dataset |-> dataset, status |-> status, started |-> id,
     completed |-> completed, results |-> results]
Histories ==
    {{},
     {CheckOf(1, "ieso_hourly_demand", "succeeded", 2, {Skipped("dst")})},
     {CheckOf(1, "ieso_hourly_demand", "succeeded", 2, {Failed("range", "error")}),
      CheckOf(2, "weather_observations", "failed", 3, {})},
     {CheckOf(1, "ieso_hourly_demand", "running", None, {}),
      CheckOf(2, "weather_forecasts", "succeeded", 3, {Skipped("dst")})}}
MCAlertInputs ==
    {[forecasts |-> {[id |-> 1, issue |-> 1, status |-> "succeeded", p50 |-> [t \in 2..4 |-> 25000]],
                     [id |-> 2, issue |-> 2, status |-> "succeeded", p50 |-> p50]},
      quality |-> quality,
      next |-> CheckOf(9, "ieso_hourly_demand", "succeeded", 10, results)] :
        p50 \in [3..5 -> Levels], quality \in Histories,
        results \in {{Passed("range")}, {Skipped("dst")}, {Failed("range", "error")}}}
=============================================================================
