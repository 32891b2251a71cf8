-------------------------- MODULE MCIndicatorWindow --------------------------
(* Instances of IndicatorWindow for TLC. *)
EXTENDS IndicatorWindow

\* The days the New York exchange was closed from Tuesday 2 January 2024,
\* which is day 0, to May 2025.
MCHolidays == {13, 48, 87, 146, 169, 184, 244, 331, 358, 365, 373, 384, 412, 472}

MCOpenDays == {d \in Day \ MCHolidays : (d + 1) % 7 < 5}

\* On the exchange's calendar the code's 350 warmup days hold the 200 rows of
\* the second longest average.
ASSUME MCWarmupHolds200 ==
  \A d \in 350..MaxDay : Cardinality(Rows(d - 350, d - 1)) >= 200
=============================================================================
