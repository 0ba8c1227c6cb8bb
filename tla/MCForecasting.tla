--------------------------- MODULE MCForecasting ---------------------------
(***************************************************************************)
(* Instances of Forecasting for TLC.                                       *)
(***************************************************************************)
EXTENDS Forecasting, TLC

CONSTANTS demand, weather, i1, i2, m1, m2

TwoDatasets == <<demand, weather>>

SeedOf(i) == <<"seed", i>>
BuildOf(i) == <<"build", i>>
ForecastOf(i) == <<"forecast", i>>
Train == <<"train", Null>>
Summarize == <<"summarize", Null>>

(* Builds of one issue overlap, or meet seeded rows of it; a training is   *)
(* repeated while another or a forecast runs; a forecast uses the seeded   *)
(* rows; two forecasts build the snapshot of one issue; and a summary is   *)
(* repeated.                                                               *)
MixedPlan ==
    <<{SeedOf(i1), BuildOf(i1)},
      {Train, BuildOf(i1)},
      {Train, BuildOf(i1), ForecastOf(i1), ForecastOf(i2)},
      {ForecastOf(i1), ForecastOf(i2), Summarize},
      {Summarize}>>

RetrainPlan == <<{SeedOf(i1)}, {Train}, {Train}, {ForecastOf(i1)}>>

FitSymmetry == Permutations({m1, m2})
=============================================================================
