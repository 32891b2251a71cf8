------------------------------ MODULE QuoteCache ------------------------------
(***************************************************************************)
(* Live prices (backend/services/quote_cache.py): a cache of prices, a     *)
(* cache of misses, and threads that consult the second, then the first,   *)
(* then the provider.  Each lookup reads the clock before it takes the     *)
(* cache's lock, and each store fixes its deadline before it does; the     *)
(* provider is asked outside the locks.                                    *)
(*                                                                         *)
(* What the caller answers for a ticker is the live price, or the last     *)
(* stored close when there is none (main.py).  A price is its deadline:    *)
(* nothing a property says depends on the amount.                          *)
(***************************************************************************)
EXTENDS Integers, FiniteSets

CONSTANTS
  Tickers,
  Workers,      \* executor threads of all requests
  PriceTTL,     \* _LIVE_PRICE_TTL_SECONDS
  MissTTL,      \* _LIVE_PRICE_MISS_TTL_SECONDS
  LockWait,     \* bound: ticks a thread waits for a cache's lock
  MaxQuoteTime  \* bound: the last tick of a behaviour

ASSUME QuoteAssumption ==
  /\ PriceTTL \in Nat /\ MissTTL \in Nat
  /\ LockWait \in Nat /\ MaxQuoteTime \in Nat

VARIABLES
  quoteTime,  \* time.monotonic()
  prices,     \* _live_price_cache: deadline or Unset
  misses,     \* _live_price_miss_cache: deadline or Unset
  quote,      \* each thread's call of _fetch_one_live_price
  together    \* history: tickers two threads have been at once at

quoteVars == <<quoteTime, prices, misses, quote, together>>

Unset == -1

NoQuote == [step |-> "idle"]

QuoteType ==
  {NoQuote} \cup [step : {"miss?", "price?", "mark", "keep"}, ticker : Tickers, at : Nat]
            \cup [step : {"ask"}, ticker : Tickers]

Busy(k) == {t \in Workers : quote[t] # NoQuote /\ quote[t].ticker = k}

\* _TTLCache.get of an entry, by a clock read at time at.
Valid(deadline, at) == deadline # Unset /\ deadline >= at

\* What get leaves of an entry: an expired one is popped.
Popped(deadline, at) == IF Valid(deadline, at) THEN deadline ELSE Unset

QuoteInit ==
  /\ quoteTime = 0
  /\ prices = [k \in Tickers |-> Unset]
  /\ misses = [k \in Tickers |-> Unset]
  /\ quote = [t \in Workers |-> NoQuote]
  /\ together = {}

\* fetch_live_prices hands a ticker to a thread, which reads the clock; a
\* request that names a ticker twice is two threads at it.
AskPrice(t, k) ==
  /\ quote[t] = NoQuote
  /\ quote' = [quote EXCEPT ![t] = [step |-> "miss?", ticker |-> k, at |-> quoteTime]]
  /\ together' = IF Busy(k) = {} THEN together ELSE together \cup {k}
  /\ UNCHANGED <<quoteTime, prices, misses>>

\* The call is over, with a live price or with none.
Returns(t) == quote' = [quote EXCEPT ![t] = NoQuote]

\* A mark that has not expired: no price, and the provider is left alone.
LookUpMiss(t) ==
  LET k == quote[t].ticker  at == quote[t].at
  IN /\ quote[t].step = "miss?"
     /\ misses' = [misses EXCEPT ![k] = Popped(@, at)]
     /\ IF Valid(misses[k], at)
        THEN Returns(t)
        ELSE quote' = [quote EXCEPT ![t].step = "price?", ![t].at = quoteTime]
     /\ UNCHANGED <<quoteTime, prices, together>>

\* Mutation: the price is not consulted.
LookUpNothing(t) ==
  /\ quote[t].step = "price?"
  /\ quote' = [quote EXCEPT ![t] = [step |-> "ask", ticker |-> quote[t].ticker]]
  /\ UNCHANGED <<quoteTime, prices, misses, together>>

LookUpPrice(t) ==
  LET k == quote[t].ticker  at == quote[t].at
  IN /\ quote[t].step = "price?"
     /\ prices' = [prices EXCEPT ![k] = Popped(@, at)]
     /\ IF Valid(prices[k], at)
        THEN Returns(t)
        ELSE quote' = [quote EXCEPT ![t] = [step |-> "ask", ticker |-> k]]
     /\ UNCHANGED <<quoteTime, misses, together>>

\* The provider has no price, or fails; or it has one.  The deadline is
\* reckoned from now, whenever the store gets the lock.
ProviderAnswers(t) ==
  /\ quote[t].step = "ask"
  /\ \E s \in {"mark", "keep"} :
       quote' = [quote EXCEPT
                   ![t] = [step |-> s, ticker |-> quote[t].ticker, at |-> quoteTime]]
  /\ UNCHANGED <<quoteTime, prices, misses, together>>

MarkMiss(t) ==
  LET k == quote[t].ticker
  IN /\ quote[t].step = "mark"
     /\ misses' = [misses EXCEPT ![k] = quote[t].at + MissTTL]
     /\ Returns(t)
     /\ UNCHANGED <<quoteTime, prices, together>>

KeepPrice(t) ==
  LET k == quote[t].ticker
  IN /\ quote[t].step = "keep"
     /\ prices' = [prices EXCEPT ![k] = quote[t].at + PriceTTL]
     /\ Returns(t)
     /\ UNCHANGED <<quoteTime, misses, together>>

\* Whether a thread may still wait for a lock at time n; asking the provider
\* takes any time.
LockInTime(q, n) ==
  q.step \in {"miss?", "price?", "mark", "keep"} => n <= q.at + LockWait

QuoteTick ==
  /\ quoteTime < MaxQuoteTime
  /\ \A t \in Workers : LockInTime(quote[t], quoteTime + 1)
  /\ quoteTime' = quoteTime + 1
  /\ UNCHANGED <<prices, misses, quote, together>>

QuoteNext ==
  \/ \E t \in Workers :
       \/ \E k \in Tickers : AskPrice(t, k)
       \/ LookUpMiss(t) \/ LookUpPrice(t) \/ ProviderAnswers(t)
       \/ MarkMiss(t) \/ KeepPrice(t)
  \/ QuoteTick

QuoteSpec == QuoteInit /\ [][QuoteNext]_quoteVars

-----------------------------------------------------------------------------
(* Properties                                                              *)

QuoteTypeOK ==
  /\ quoteTime \in Nat
  /\ prices \in [Tickers -> Int] /\ misses \in [Tickers -> Int]
  /\ quote \in [Workers -> QuoteType]
  /\ together \subseteq Tickers

\* A mark stands in front of a price that is still good, so that callers get
\* yesterday's close for up to MissTTL, only when two threads have been at
\* the ticker at once: one alone neither asks while it has a price, nor
\* stores a price while it has a mark.
HiddenOnlyByOverlap ==
  \A k \in Tickers :
    Valid(prices[k], quoteTime) /\ Valid(misses[k], quoteTime) => k \in together

-----------------------------------------------------------------------------
(* Why HiddenOnlyByOverlap holds                                           *)

\* What the thread at a ticker knows of its entries: they are gone once it
\* has found them expired, and nobody else is there to store any.
Alone(k) ==
  /\ \A t, u \in Busy(k) : t = u
  /\ prices[k] = Unset \/ misses[k] = Unset
  /\ \A t \in Busy(k) :
       /\ quote[t].step # "miss?" => misses[k] = Unset
       /\ quote[t].step \in {"ask", "mark", "keep"} => prices[k] = Unset

\* The inductive invariant.
QuoteInv ==
  /\ QuoteTypeOK
  /\ \A k \in Tickers \ together : Alone(k)
=============================================================================
