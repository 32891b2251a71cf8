--------------------------- MODULE MCSyncPipeline ---------------------------
(* Small instances of SyncPipeline for TLC. *)
EXTENDS SyncPipeline, TLC

\* A week in which day 2 is a closed exchange.
MCTradingDays == Day \ {2}

\* Tickers are interchangeable: no action or property names one.
MCSymmetry == Permutations(Tickers)
=============================================================================
