------------------------------ MODULE PriceStore ------------------------------
(***************************************************************************)
(* What the readers of the market data may rely on, whoever syncs and      *)
(* whatever fails: one history per ticker, with one row per day, whose     *)
(* days are those the provider has published and only get more; and one    *)
(* row served per ticker, which is either missing or was the newest row of *)
(* that history when it was put there.                                     *)
(***************************************************************************)
EXTENDS Integers

CONSTANTS
  Tickers,
  Days,       \* the days there can be a row for
  Marks,      \* what a row may hold
  Nothing     \* no row to serve

VARIABLES
  published,  \* the last day the provider serves rows for
  rows,       \* ticker: its history, a function from days to marks
  served      \* ticker: the row served, as a pair, or Nothing

storeVars == <<published, rows, served>>

Histories == UNION {[D -> Marks] : D \in SUBSET {d \in Days : d <= published}}

Newest(history) ==
  LET d == CHOOSE d \in DOMAIN history : \A e \in DOMAIN history : e <= d
  IN IF DOMAIN history = {} THEN Nothing ELSE <<d, history[d]>>

StoreInit ==
  /\ published \in Int
  /\ rows = [t \in Tickers |-> [d \in {} |-> Nothing]]
  /\ served = [t \in Tickers |-> Nothing]

Publishes == published' > published /\ UNCHANGED <<rows, served>>

\* One ticker at a time; its history may be written anew, with no day left out.
Extends(t) ==
  /\ \E history \in Histories :
       /\ DOMAIN rows[t] \subseteq DOMAIN history
       /\ rows' = [rows EXCEPT ![t] = history]
  /\ UNCHANGED <<published, served>>

Hides(hidden) ==
  /\ served' = [t \in Tickers |-> IF t \in hidden THEN Nothing ELSE served[t]]
  /\ UNCHANGED <<published, rows>>

Serves(fresh) ==
  /\ served' = [t \in Tickers |-> IF t \in fresh THEN Newest(rows[t]) ELSE served[t]]
  /\ UNCHANGED <<published, rows>>

StoreNext ==
  \/ Publishes
  \/ \E t \in Tickers : Extends(t)
  \/ \E some \in SUBSET Tickers : Hides(some) \/ Serves(some)

StoreSpec == StoreInit /\ [][StoreNext]_storeVars
-----------------------------------------------------------------------------
\* A row is served only of a day that the ticker's history has a row for.
ServedIsStored ==
  \A t \in Tickers : served[t] # Nothing => served[t][1] \in DOMAIN rows[t]
=============================================================================
