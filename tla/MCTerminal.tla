------------------------------ MODULE MCTerminal ------------------------------
(***************************************************************************)
(* Small instances of the command bar and of the research pages for TLC.   *)
(* Neither reads what the other writes: a behaviour moves the one in focus *)
(* and leaves the other where it starts.                                   *)
(***************************************************************************)
EXTENDS CommandBar, Research

CONSTANT NaN

VARIABLE focus

MCInit == focus \in {"command bar", "research"} /\ BarInit /\ ResearchInit

MCNext ==
  /\ UNCHANGED focus
  /\ \/ focus = "command bar" /\ BarNext /\ UNCHANGED researchVars
     \/ focus = "research" /\ ResearchNext /\ UNCHANGED barVars

MCSpec == MCInit /\ [][MCNext]_<<focus, barVars, researchVars>>

MCTokens ==
  ("" :> <<>>) @@ ("WL A" :> <<"WL", "A">>) @@ ("wl add nvda" :> <<"WL", "ADD", "NVDA">>)
  @@ ("SPY" :> <<"SPY">>) @@ ("LAST" :> <<"LAST">>) @@ ("SYNC" :> <<"SYNC">>)
  @@ ("COMP 1 QQQ" :> <<"COMP", "1", "QQQ">>) @@ ("HPE DES" :> <<"HPE", "DES">>)
  @@ ("SPY DES" :> <<"SPY", "DES">>)
  @@ ("MON" :> <<"MON">>) @@ ("QQQ" :> <<"QQQ">>) @@ ("NVDA" :> <<"NVDA">>)
  @@ ("nvda" :> <<"NVDA">>) @@ ("HPE" :> <<"HPE">>) @@ ("/" :> <<"/">>)
  @@ ("WL ADD NVDA" :> <<"WL", "ADD", "NVDA">>)
  @@ [x \in {"WL", "A", "ADD", "DES"} |-> <<x>>]

MCText == DOMAIN MCTokens

MCUpper == [x \in MCText |->
  IF x = "nvda" THEN "NVDA" ELSE IF x = "wl add nvda" THEN "WL ADD NVDA" ELSE x]

MCTyped == {"WL A", "wl add nvda", "LAST", "COMP 1 QQQ", "SYNC"}

MCTickerTokens == {"WL", "A", "ADD", "NVDA", "SPY", "QQQ", "HPE", "LAST", "DES"}

MCHits == [x \in {"WL"} |-> <<"HPE">>]

MCCore == <<"SPY", "QQQ">>
MCRecents == <<"SPY">>

MCSymbols == {"SPY", "nvda"}
MCCapital == [x \in {"", "SPY", "nvda", "NVDA"} |-> IF x = "nvda" THEN "NVDA" ELSE x]

MCNumber ==
  ("100000" :> 100000) @@ ("8" :> 8) @@ ("55" :> 55) @@ ("45" :> 45) @@ ("0" :> 0)
  @@ ("7" :> 7) @@ ("x" :> NaN)

MCUniverses == {<<"nvda", "">>}
=============================================================================
