---------------------------- MODULE RequestLimiter ----------------------------
(***************************************************************************)
(* What a client may ask of the server: the body limit and the fixed-      *)
(* window limiter (backend/core/security.py) as the outermost middleware   *)
(* of main.py applies them.  The middleware runs on the event loop, so one *)
(* request is judged at a time.                                            *)
(*                                                                         *)
(* Time is in ticks, Second of them in a second.  A window is the count    *)
(* and the start the limiter keeps under a client and a bucket; the        *)
(* OrderedDict is a map and the order of its keys, the least recently      *)
(* used first.                                                             *)
(***************************************************************************)
EXTENDS Integers, Lists, FiniteSets, SequencesExt

CONSTANTS
  Clients,      \* client addresses
  Asked,        \* bound: the routes that are asked for
  Limit,        \* RATE_LIMIT_*_PER_MINUTE, by bucket
  Second,       \* ticks in a second
  RoundUp,      \* the 0.999 s that are added before truncation, in ticks
  WindowTicks,  \* window_seconds
  MaxWindows,   \* max_keys
  MaxTicks      \* bound: the last tick of a behaviour

\* The routes by what rate_limit_policy looks at; provider data are live
\* prices, news, earnings, intraday bars and fundamentals.
Routes == [area : {"probe", "system", "ai", "strategies", "provider data", "other api",
                   "page"},
           post : BOOLEAN]

Buckets == {"system", "ai", "strategy", "provider", "api"}

ASSUME LimiterAssumption ==
  /\ Asked \subseteq Routes
  /\ Limit \in [Buckets -> Nat \ {0}]
  /\ Second \in Nat \ {0} /\ RoundUp \in 0..(Second - 1)
  /\ WindowTicks \in Nat \ {0}
  /\ MaxWindows \in Nat \ {0}
  /\ MaxTicks \in Nat

VARIABLES
  ticks,    \* monotonic()
  windows,  \* _windows: client and bucket to window or NoWindow
  used,     \* _windows: its keys, least recently used first
  granted,  \* history: when each that is not forgotten was let in, within the
            \* last WindowTicks
  told,     \* history: what a refusal told each, until it has had a limit since
  forgotten \* history: the windows that were dropped before they ended

limiterVars == <<ticks, windows, used, granted, told, forgotten>>

WindowKeys == Clients \X Buckets

NoWindow == [count |-> 0, start |-> -1]

\* Nothing has been refused; or when to come back, and how often the client
\* has been let in since.
NotRefused == [until |-> -1, since |-> 0]

\* rate_limit_policy: the bucket of a route, or none.
Bucket(r) ==
  CASE r.area = "system"                            -> {"system"}
    [] r.area = "ai"                                -> {"ai"}
    [] r.area = "strategies" /\ r.post              -> {"strategy"}
    [] r.area = "provider data"                     -> {"provider"}
    [] r.area = "strategies" /\ ~r.post             -> {"api"}
    [] r.area = "other api"                         -> {"api"}
    [] r.area \in {"probe", "page"}                 -> {}

\* Mutation: one request more than the limit.
AllowedOneMore(count, limit) == count <= limit

Allowed(count, limit) == count < limit

\* Mutation: every request starts the window over.
CurrentSliding(w) ==
  IF w = NoWindow \/ ticks - w.start >= WindowTicks
  THEN [count |-> 0, start |-> ticks]
  ELSE [w EXCEPT !.start = ticks]

\* The window a request falls into: the kept one, or a new one when there is
\* none or it is over.
Current(w) ==
  IF w = NoWindow \/ ticks - w.start >= WindowTicks
  THEN [count |-> 0, start |-> ticks]
  ELSE w

\* retry_after, in seconds.
RetryAfter(w) ==
  LET left == (WindowTicks - (ticks - w.start) + RoundUp) \div Second
  IN IF left < 1 THEN 1 ELSE left

LimiterInit ==
  /\ ticks = 0
  /\ windows = [k \in WindowKeys |-> NoWindow]
  /\ used = <<>>
  /\ granted = [k \in WindowKeys |-> <<>>]
  /\ told = [k \in WindowKeys |-> NotRefused]
  /\ forgotten = {}

\* check stores the window w under k as the latest, and drops the least
\* recently used ones beyond MaxWindows.
Keep(k, w) ==
  LET all  == Append(Minus(used, k), k)
      gone == {all[i] : i \in 1..(Len(all) - MaxWindows)}
  IN /\ used' = SubSeq(all, Cardinality(gone) + 1, Len(all))
     /\ windows' = [x \in WindowKeys |->
                      IF x \in gone THEN NoWindow ELSE IF x = k THEN w ELSE windows[x]]
     /\ forgotten' = forgotten \cup
          {x \in gone : ticks - windows[x].start < WindowTicks}

Waiting(k) == told[k] # NotRefused

\* check lets the request in.
Grant(k) ==
  LET w == Current(windows[k])
  IN /\ Allowed(w.count, Limit[k[2]])
     /\ Keep(k, [w EXCEPT !.count = @ + 1])
     /\ granted' = [x \in WindowKeys |->
                      IF x \in forgotten' THEN <<>>
                      ELSE IF x = k THEN Append(granted[k], ticks) ELSE granted[x]]
     /\ told' = [told EXCEPT ![k] =
                   IF ~Waiting(k) \/ told[k].since + 1 = Limit[k[2]]
                   THEN NotRefused
                   ELSE [told[k] EXCEPT !.since = @ + 1]]
     /\ UNCHANGED ticks

\* check refuses it: 429 with Retry-After.
Refuse(k) ==
  LET w == Current(windows[k])
  IN /\ ~Allowed(w.count, Limit[k[2]])
     /\ Keep(k, w)
     /\ told' = IF Waiting(k)
                THEN told
                ELSE [told EXCEPT
                        ![k] = [until |-> ticks + Second * RetryAfter(w), since |-> 0]]
     /\ UNCHANGED <<ticks, granted>>

\* The middleware: a body that is declared too large is refused before the
\* limiter is asked, one that turns out too large after it has counted.
Request(c, r, declaredTooLarge) ==
  /\ ~(r.post /\ declaredTooLarge)
  /\ \E b \in Bucket(r) : Grant(<<c, b>>) \/ Refuse(<<c, b>>)

LimiterTick ==
  /\ ticks < MaxTicks
  /\ ticks' = ticks + 1
  /\ granted' = [k \in WindowKeys |->
                   Where(granted[k], LAMBDA t : ticks' - t < WindowTicks)]
  /\ UNCHANGED <<windows, used, told, forgotten>>

LimiterNext ==
  \/ \E c \in Clients, r \in Asked, large \in BOOLEAN : Request(c, r, large)
  \/ LimiterTick

LimiterSpec == LimiterInit /\ [][LimiterNext]_limiterVars

-----------------------------------------------------------------------------
(* Properties                                                              *)

LimiterTypeOK ==
  /\ ticks \in Nat
  /\ windows \in [WindowKeys -> [count : Nat, start : Int]]
  /\ granted \in [WindowKeys -> Seq(Nat)]
  /\ told \in [WindowKeys -> [until : Int, since : Nat]]
  /\ forgotten \subseteq WindowKeys

\* Windows are fixed, and a window starts with the request that opens it: so a
\* client may spend what that leaves of one limit at the end of a window, and a
\* whole one at the start of the next; but in no stretch of a window's length
\* is it let in more often than that, unless the limiter forgot it.
UnderTwoLimits ==
  \A k \in WindowKeys \ forgotten : Len(granted[k]) < 2 * Limit[k[2]]

\* The part of a second that the rounding of Retry-After may give away.
Shortfall == Second - 1 - RoundUp

\* Whoever was refused and comes back when Retry-After said (or the Shortfall
\* later, as 0.999 s are added where a whole one would be needed) is let in,
\* unless it has been for a whole limit since: neither its own refusals nor
\* the requests of others push the end of its window away.
WaitingHelps ==
  \A k \in WindowKeys :
    Waiting(k) /\ ticks >= told[k].until + Shortfall
      => Allowed(Current(windows[k]).count, Limit[k[2]])

-----------------------------------------------------------------------------
(* Why WaitingHelps holds                                                  *)

\* The window of a client that was refused is gone, or over by the time it was
\* told, or counts nothing but what it has been let in for since.
ToldInv ==
  \A k \in WindowKeys :
    Waiting(k) =>
      /\ told[k].since < Limit[k[2]]
      /\ \/ windows[k] = NoWindow
         \/ windows[k].start + WindowTicks <= told[k].until + Shortfall
         \/ windows[k].count <= told[k].since

\* The inductive invariant; neither the order of the keys nor the histories of
\* UnderTwoLimits play a part in it.
LimiterInv ==
  /\ ticks \in Nat
  /\ windows \in [WindowKeys -> [count : Nat, start : Int]]
  /\ told \in [WindowKeys -> [until : Int, since : Nat]]
  /\ ToldInv

-----------------------------------------------------------------------------
(* Why UnderTwoLimits holds                                                *)

\* Of the times in s no more than a limit are from before the window w or from
\* the request that opened it, and the others are counted in it besides that
\* request.
SpentIn(s, w, limit) ==
  \E c \in 0..Len(s) :
    /\ c <= limit /\ Len(s) - c < w.count
    /\ \A i \in 1..c : s[i] <= w.start

\* What still counts of a client that is not forgotten and has no window is
\* less than a limit: its last window is over, and so is the request that
\* opened it.
GrantedInv ==
  /\ used \in Seq(WindowKeys) /\ IsInjective(used)
  /\ granted \in [WindowKeys -> Seq(Nat)]
  /\ \A k \in WindowKeys \ forgotten :
       /\ \A i \in DOMAIN granted[k] :
            granted[k][i] <= ticks /\ ticks - granted[k][i] < WindowTicks
       /\ windows[k].count <= Limit[k[2]]
       /\ IF windows[k] = NoWindow
          THEN Len(granted[k]) < Limit[k[2]]
          ELSE SpentIn(granted[k], windows[k], Limit[k[2]])
=============================================================================
