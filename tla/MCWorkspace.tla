----------------------------- MODULE MCWorkspace -----------------------------
(* A small instance of Workspace for TLC. *)
EXTENDS Workspace

MCText == {"SPY", "QQQ", "NVDA", "nvda"}
MCUpper == [x \in MCText |-> IF x = "nvda" THEN "NVDA" ELSE x]

MCCore == <<"SPY", "QQQ">>
MCMacro == <<"QQQ">>
MCCompare == <<"SPY", "QQQ">>
MCRecents == <<"SPY">>

MCBatches == {<<"NVDA", "SPY">>, <<"NVDA", "nvda">>, <<"SPY", "QQQ">>}
=============================================================================
