---------------------------- MODULE ServiceProofs ----------------------------
(***************************************************************************)
(* What five services that share no state promise, for every number of     *)
(* threads, keys, tickers, clients and kept entries, and whatever the TTLs *)
(* and limits are: that the scheduler wastes no slot, how many answers are *)
(* cached, how old one can be and which one goes first, when a live price  *)
(* is hidden, whether following Retry-After helps, how often a client is   *)
(* let in, and which indicators have their full window.                    *)
(***************************************************************************)
EXTENDS SyncScheduler, ResponseCache, QuoteCache, RequestLimiter, IndicatorWindow,
        ListLemmas

(***************************************************************************)
(* The scheduler                                                           *)
(***************************************************************************)

(* The product in SlotStart is opened nowhere else. *)
LEMMA SlotStartInt == \A d \in Slots : SlotStart(d) \in Int /\ SlotEnd(d) = SlotStart(d) + SlotWindow
BY SlotAssumption DEF Slots, SlotStart, SlotEnd

(* What a poll that finds nothing to call has seen. *)
LEMMA NothingDue ==
  ASSUME NEW t, NEW done, Due(t) \subseteq done
  PROVE  \A d \in Slots \ done : ~InWindow(d, t)
BY DEF Due

(* Types. *)
LEMMA TypeStep == TypeOK /\ [Next]_vars => TypeOK'
<1> SUFFICES ASSUME TypeOK, [Next]_vars PROVE TypeOK'
  OBVIOUS
<1> USE DEF TypeOK
<1>1. CASE Start
  BY <1>1 DEF Start
<1>2. CASE PollNothingDue
  BY <1>2, PollAssumption DEF PollNothingDue, Sleep
<1>3. CASE Call
  BY <1>3 DEF Call, Due
<1>4. CASE CallReturns
  <2>1. calling \in Slots
    BY <1>4 DEF CallReturns
  <2>2. completed' \subseteq Slots /\ succeeded' \subseteq Slots
    BY <1>4, <2>1 DEF CallReturns
  <2> QED
    BY <1>4, <2>2, PollAssumption DEF CallReturns, Sleep
<1>5. CASE CallRaises
  BY <1>5, PollAssumption DEF CallRaises, Sleep
<1>6. CASE Stop
  BY <1>6 DEF Stop
<1>7. CASE Tick
  BY <1>7 DEF Tick
<1>8. CASE UNCHANGED vars
  BY <1>8 DEF vars
<1> QED
  BY <1>1, <1>2, <1>3, <1>4, <1>5, <1>6, <1>7, <1>8 DEF Next

(* Skipped slots are synced, and the clock has not run past the wake. *)
LEMMA WakeStep == TypeOK /\ WakeInv /\ [Next]_vars => WakeInv'
<1> SUFFICES ASSUME TypeOK, WakeInv, [Next]_vars PROVE WakeInv'
  OBVIOUS
<1> USE PollAssumption DEF TypeOK, WakeInv
<1>1. CASE Start
  BY <1>1 DEF Start
<1>2. CASE PollNothingDue
  BY <1>2 DEF PollNothingDue, Sleep
<1>3. CASE Call
  BY <1>3 DEF Call
<1>4. CASE CallReturns
  <2>1. completed' \subseteq succeeded'
    BY <1>4 DEF CallReturns
  <2> QED
    BY <1>4, <2>1 DEF CallReturns, Sleep
<1>5. CASE CallRaises
  BY <1>5 DEF CallRaises, Sleep
<1>6. CASE Stop
  BY <1>6 DEF Stop
<1>7. CASE Tick
  BY <1>7 DEF Tick
<1>8. CASE UNCHANGED vars
  BY <1>8 DEF vars
<1> QED
  BY <1>1, <1>2, <1>3, <1>4, <1>5, <1>6, <1>7, <1>8 DEF Next

(* What the last poll saw stays true until the next. *)
LEMMA PollStep == TypeOK /\ WakeInv /\ PollInv /\ [Next]_vars => PollInv'
<1> SUFFICES ASSUME TypeOK, WakeInv, PollInv, [Next]_vars PROVE PollInv'
  OBVIOUS
<1>1. CASE Start
  BY <1>1 DEF Start, PollInv
<1>2. CASE PollNothingDue
  <2>1. \A d \in Slots \ succeeded : ~InWindow(d, now)
    BY <1>2, NothingDue DEF PollNothingDue, WakeInv
  <2>2. wake' - Poll = now
    BY <1>2, PollAssumption DEF PollNothingDue, Sleep, TypeOK
  <2>3. \A d \in Slots \ succeeded' : ~InWindow(d, wake' - Poll)
    BY <1>2, <2>1, <2>2 DEF PollNothingDue
  <2> QED
    BY <2>3 DEF PollInv, InWindow, SlotStart, SlotEnd
<1>3. CASE Call
  BY <1>3 DEF Call, PollInv
<1>4. CASE CallReturns
  BY <1>4 DEF CallReturns, Sleep, PollInv
<1>5. CASE CallRaises
  BY <1>5 DEF CallRaises, Sleep, PollInv
<1>6. CASE Stop
  BY <1>6 DEF Stop, PollInv
<1>7. CASE Tick
  BY <1>7 DEF Tick, PollInv
<1>8. CASE UNCHANGED vars
  BY <1>8 DEF vars, PollInv
<1> QED
  BY <1>1, <1>2, <1>3, <1>4, <1>5, <1>6, <1>7, <1>8 DEF Next

(* The clock reaching the end of a window is the step that could waste it. *)
LEMMA WindowStep ==
  TypeOK /\ WakeInv /\ PollInv /\ WindowUsed /\ [Next]_vars => WindowUsed'
<1> SUFFICES ASSUME TypeOK, WakeInv, PollInv, WindowUsed, [Next]_vars,
                    NEW d \in Slots,
                    pc' = "asleep", now' = SlotEnd(d), d \notin succeeded'
             PROVE  SlotEnd(d) <= freeSince' + Poll + Lag
  BY DEF WindowUsed
<1>0. now \in Nat /\ wake \in Nat /\ freeSince \in Nat
  BY DEF TypeOK
<1>1. CASE Start
  BY <1>0, <1>1, PollAssumption DEF Start
<1>2. CASE PollNothingDue
  BY <1>2 DEF PollNothingDue, WindowUsed
<1>3. CASE Call
  BY <1>3 DEF Call
<1>4. CASE CallReturns
  BY <1>0, <1>4, PollAssumption DEF CallReturns
<1>5. CASE CallRaises
  BY <1>0, <1>5, PollAssumption DEF CallRaises
<1>6. CASE Stop
  BY <1>6 DEF Stop
<1>7. CASE Tick
  <2>1. /\ pc = "asleep" /\ d \notin succeeded /\ freeSince' = freeSince
        /\ now + 1 = SlotEnd(d) /\ now < wake + Lag
    BY <1>7 DEF Tick
  <2>2. CASE wake \in {freeSince, freeSince + Poll}
    BY <1>0, <2>1, <2>2, PollAssumption
  <2>3. CASE ~InWindow(d, wake - Poll)
    <3>1. /\ SlotStart(d) \in Int /\ SlotEnd(d) = SlotStart(d) + SlotWindow
          /\ ~(SlotStart(d) <= wake - Poll /\ wake - Poll < SlotEnd(d))
      BY <2>3, SlotStartInt DEF InWindow
    <3>2. wake <= now + Poll
      BY <2>1 DEF WakeInv
    <3> QED
      BY <1>0, <2>1, <3>1, <3>2, SlotAssumption, PollAssumption
  <2> QED
    BY <2>1, <2>2, <2>3 DEF PollInv
<1>8. CASE UNCHANGED vars
  BY <1>8 DEF vars, WindowUsed
<1> QED
  BY <1>1, <1>2, <1>3, <1>4, <1>5, <1>6, <1>7, <1>8 DEF Next

(***************************************************************************)
(* The loop of MarketSyncScheduler keeps the inductive invariant           *)
(* (sync_scheduler.py:48-58).                                              *)
(***************************************************************************)
THEOREM SlotInvariant == Spec => []SlotInv
<1>1. Init => SlotInv
  BY SlotAssumption, PollAssumption
     DEF Init, SlotInv, TypeOK, WakeInv, PollInv, WindowUsed
<1>2. SlotInv /\ [Next]_vars => SlotInv'
  BY TypeStep, WakeStep, PollStep, WindowStep DEF SlotInv
<1> QED
  BY <1>1, <1>2, PTL DEF Spec

(***************************************************************************)
(* A loop that was free through a slot's window has synced the slot, with  *)
(* as many retries as polls fit in (get_due_sync_slot and _run,            *)
(* sync_scheduler.py:23-58).                                               *)
(***************************************************************************)
THEOREM NoSlotWasted == Spec => []WindowUsed
<1>1. SlotInv => WindowUsed
  BY DEF SlotInv
<1> QED
  BY <1>1, SlotInvariant, PTL

-----------------------------------------------------------------------------
(***************************************************************************)
(* The response cache                                                      *)
(***************************************************************************)

(* The fields a request has in each phase. *)
LEMMA RequestFields ==
  ASSUME NEW r \in RequestType
  PROVE  /\ r.phase = "lookup" => r.key \in Keys /\ r.at \in Nat
         /\ r.phase = "compute" => r.key \in Keys
         /\ r.phase = "store" => r.key \in Keys /\ r.at \in Nat
BY DEF RequestType, Idle

(* The records a thread's request moves through. *)
LEMMA NewRequests ==
  ASSUME NEW k \in Keys, NEW n \in Nat
  PROVE  /\ Idle \in RequestType
         /\ [phase |-> "lookup", key |-> k, at |-> n] \in RequestType
         /\ [phase |-> "compute", key |-> k] \in RequestType
         /\ [phase |-> "store", key |-> k, at |-> n] \in RequestType
BY DEF RequestType

(* A thread that has just moved on is in time. *)
LEMMA JustInTime ==
  ASSUME NEW n \in Nat, NEW k
  PROVE  /\ InTime(Idle, n)
         /\ InTime([phase |-> "lookup", key |-> k, at |-> n], n)
         /\ InTime([phase |-> "compute", key |-> k], n)
         /\ InTime([phase |-> "store", key |-> k, at |-> n], n)
BY CacheAssumption DEF InTime, Idle

(* One thread moves on, the clock stands still. *)
LEMMA OneMoves ==
  ASSUME NEW t \in Threads, NEW r \in RequestType,
         request \in [Threads -> RequestType],
         \A s \in Threads : InTime(request[s], monotonic),
         InTime(r, monotonic),
         request' = [request EXCEPT ![t] = r]
  PROVE  /\ request' \in [Threads -> RequestType]
         /\ \A s \in Threads : InTime(request'[s], monotonic)
OBVIOUS

(* Every step keeps what a thread read in time, and what is stored no      *)
(* newer than the clock.                                                   *)
LEMMA FreshStep == FreshInv /\ [CacheNext]_cacheVars => FreshInv'
<1> SUFFICES ASSUME FreshInv, [CacheNext]_cacheVars PROVE FreshInv'
  OBVIOUS
<1>0. /\ monotonic \in Nat /\ age \in Int
      /\ entries \in [Keys -> [expires : Int, readAt : Int]]
      /\ request \in [Threads -> RequestType]
      /\ \A k \in Keys : entries[k].expires <= entries[k].readAt + Effort + TTL
      /\ \A t \in Threads : InTime(request[t], monotonic)
  BY DEF FreshInv, AgeInv
<1>1. ASSUME NEW t \in Threads, Ask(t) PROVE FreshInv'
  <2>1. PICK k \in Keys :
          request' = [request EXCEPT ![t] = [phase |-> "lookup", key |-> k, at |-> monotonic]]
    BY <1>1 DEF Ask
  <2>2. /\ request' \in [Threads -> RequestType]
        /\ \A s \in Threads : InTime(request'[s], monotonic)
    BY <1>0, <2>1, NewRequests, JustInTime, OneMoves
  <2> QED
    BY <1>1, <2>2 DEF Ask, FreshInv, AgeInv, AnswerIsFresh
<1>2. ASSUME NEW t \in Threads, Hit(t) PROVE FreshInv'
  <2> DEFINE k == request[t].key
  <2>1. /\ k \in Keys /\ request[t].at \in Nat
        /\ monotonic <= request[t].at + Patience
    BY <1>0, <1>2, RequestFields DEF Hit, InTime
  <2>2. /\ request' \in [Threads -> RequestType]
        /\ \A s \in Threads : InTime(request'[s], monotonic)
    BY <1>0, <1>2, <2>1, NewRequests, JustInTime, OneMoves DEF Hit
  <2>3. /\ entries[k].expires \in Int /\ entries[k].readAt \in Int
        /\ entries[k].expires > request[t].at
        /\ age' = monotonic - entries[k].readAt
    BY <1>0, <1>2, <2>1 DEF Hit
  <2>4. age' \in Int /\ age' < TTL + Effort + Patience
    BY <1>0, <2>1, <2>3, CacheAssumption
  <2> QED
    BY <1>2, <2>2, <2>4 DEF Hit, FreshInv, AgeInv, AnswerIsFresh
<1>3. ASSUME NEW t \in Threads, Miss(t) PROVE FreshInv'
  <2>1. request[t].key \in Keys
    BY <1>0, <1>3, RequestFields DEF Miss
  <2>2. /\ request' \in [Threads -> RequestType]
        /\ \A s \in Threads : InTime(request'[s], monotonic)
    BY <1>0, <1>3, <2>1, NewRequests, JustInTime, OneMoves DEF Miss
  <2>3. /\ entries' \in [Keys -> [expires : Int, readAt : Int]]
        /\ \A k \in Keys : entries'[k].expires <= entries'[k].readAt + Effort + TTL
    <3>1. entries' = [entries EXCEPT ![request[t].key] = NoEntry]
      BY <1>3 DEF Miss
    <3>2. /\ NoEntry \in [expires : Int, readAt : Int]
          /\ NoEntry.expires <= NoEntry.readAt + Effort + TTL
      BY CacheAssumption DEF NoEntry
    <3> HIDE DEF NoEntry
    <3> QED
      BY <1>0, <2>1, <3>1, <3>2
  <2> QED
    BY <1>3, <2>2, <2>3 DEF Miss, FreshInv, AgeInv, AnswerIsFresh
<1>4. ASSUME NEW t \in Threads, Compute(t) PROVE FreshInv'
  <2>1. request[t].key \in Keys
    BY <1>0, <1>4, RequestFields DEF Compute
  <2>2. /\ request' \in [Threads -> RequestType]
        /\ \A s \in Threads : InTime(request'[s], monotonic)
    BY <1>0, <1>4, <2>1, NewRequests, JustInTime, OneMoves DEF Compute
  <2> QED
    BY <1>4, <2>2 DEF Compute, FreshInv, AgeInv, AnswerIsFresh
<1>5. ASSUME NEW t \in Threads, ComputeRaises(t) PROVE FreshInv'
  <2>1. request[t].key \in Keys
    BY <1>0, <1>5, RequestFields DEF ComputeRaises
  <2>2. /\ request' \in [Threads -> RequestType]
        /\ \A s \in Threads : InTime(request'[s], monotonic)
    BY <1>0, <1>5, <2>1, NewRequests, JustInTime, OneMoves DEF ComputeRaises
  <2> QED
    BY <1>5, <2>2 DEF ComputeRaises, FreshInv, AgeInv, AnswerIsFresh
<1>6. ASSUME NEW t \in Threads, Store(t) PROVE FreshInv'
  <2>1. /\ request[t].key \in Keys /\ request[t].at \in Nat
        /\ monotonic <= request[t].at + Effort
    BY <1>0, <1>6, RequestFields DEF Store, InTime
  <2>2. /\ request' \in [Threads -> RequestType]
        /\ \A s \in Threads : InTime(request'[s], monotonic)
    BY <1>0, <1>6, <2>1, NewRequests, JustInTime, OneMoves DEF Store
  <2>3. PICK keep : entries' = [x \in Keys |->
          IF x = request[t].key
          THEN [expires |-> monotonic + TTL, readAt |-> request[t].at]
          ELSE IF x \in keep THEN entries[x] ELSE NoEntry]
    BY <1>6 DEF Store
  <2>4. /\ entries' \in [Keys -> [expires : Int, readAt : Int]]
        /\ \A k \in Keys : entries'[k].expires <= entries'[k].readAt + Effort + TTL
    BY <1>0, <2>1, <2>3, CacheAssumption DEF NoEntry
  <2> QED
    BY <1>6, <2>2, <2>4 DEF Store, FreshInv, AgeInv, AnswerIsFresh
<1>7. CASE Clear
  <2>1. /\ entries' \in [Keys -> [expires : Int, readAt : Int]]
        /\ \A k \in Keys : entries'[k].expires <= entries'[k].readAt + Effort + TTL
    BY <1>7, CacheAssumption DEF Clear, NoEntry
  <2> QED
    BY <1>7, <2>1 DEF Clear, FreshInv, AgeInv, AnswerIsFresh
<1>8. CASE CacheTick
  BY <1>8 DEF CacheTick, FreshInv, AgeInv, AnswerIsFresh
<1>9. CASE UNCHANGED cacheVars
  BY <1>9 DEF cacheVars, FreshInv, AgeInv, AnswerIsFresh
<1> QED
  BY <1>1, <1>2, <1>3, <1>4, <1>5, <1>6, <1>7, <1>8, <1>9 DEF CacheNext

(***************************************************************************)
(* An answer from the cache is never older than its TTL, the time its fill *)
(* took and the wait for the lock (get_or_compute, response_cache.py:27).  *)
(***************************************************************************)
THEOREM CachedAnswersAreFresh == CacheSpec => []AnswerIsFresh
<1>1. CacheInit => FreshInv
  BY CacheAssumption
     DEF CacheInit, FreshInv, AgeInv, AnswerIsFresh, NoAnswer, NoEntry, RequestType,
         InTime, Idle
<1>2. FreshInv => AnswerIsFresh
  BY DEF FreshInv
<1> QED
  BY <1>1, <1>2, FreshStep, PTL DEF CacheSpec

(***************************************************************************)
(* What of the order of the keys has to do with their uses                 *)
(***************************************************************************)

(* What has not expired is an entry.                                        *)
LEMMA Unexpired ==
  ASSUME FreshInv, NEW k \in Keys, NEW n \in Nat, entries[k].expires > n
  PROVE  k \in Cached
BY DEF Cached, NoEntry

(* No thread has read the clock in the future.                              *)
LEMMA LookupsStep ==
  ASSUME FreshInv, OrderInv, [CacheNext]_cacheVars
  PROVE  \A t \in Threads : request'[t].phase = "lookup" => request'[t].at <= monotonic'
<1>0. /\ monotonic \in Nat /\ request \in [Threads -> RequestType]
      /\ \A t \in Threads : request[t].phase = "lookup" => request[t].at <= monotonic
  BY DEF FreshInv, OrderInv
<1>1. ASSUME NEW s \in Threads, NEW r, r.phase = "lookup" => r.at <= monotonic,
             request' = [request EXCEPT ![s] = r], monotonic' = monotonic
      PROVE  \A t \in Threads : request'[t].phase = "lookup" => request'[t].at <= monotonic'
  BY <1>0, <1>1
<1>2. ASSUME NEW s \in Threads, Ask(s)
      PROVE  \A t \in Threads : request'[t].phase = "lookup" => request'[t].at <= monotonic'
  <2>1. PICK k \in Keys :
          request' = [request EXCEPT ![s] = [phase |-> "lookup", key |-> k, at |-> monotonic]]
    BY <1>2 DEF Ask
  <2> QED
    BY <1>0, <1>1, <1>2, <2>1 DEF Ask
<1>3. ASSUME NEW s \in Threads, Hit(s) \/ ComputeRaises(s) \/ Store(s)
      PROVE  \A t \in Threads : request'[t].phase = "lookup" => request'[t].at <= monotonic'
  <2>1. request' = [request EXCEPT ![s] = Idle] /\ monotonic' = monotonic
    BY <1>3 DEF Hit, ComputeRaises, Store
  <2>2. Idle.phase # "lookup"
    BY DEF Idle
  <2> QED
    BY <1>1, <2>1, <2>2
<1>4. ASSUME NEW s \in Threads, Miss(s) \/ Compute(s)
      PROVE  \A t \in Threads : request'[t].phase = "lookup" => request'[t].at <= monotonic'
  <2> DEFINE q == [phase |-> "compute", key |-> request[s].key]
             r == [phase |-> "store", key |-> request[s].key, at |-> monotonic]
  <2>1. /\ request' = [request EXCEPT ![s] = q] \/ request' = [request EXCEPT ![s] = r]
        /\ monotonic' = monotonic
    BY <1>4 DEF Miss, Compute
  <2>2. q.phase # "lookup" /\ r.phase # "lookup"
    OBVIOUS
  <2> HIDE DEF q, r
  <2> QED
    BY <1>1, <2>1, <2>2
<1>5. CASE CacheTick
  <2>1. ASSUME NEW t \in Threads, request[t].phase = "lookup"
        PROVE  request[t].at <= monotonic + 1
    BY <1>0, <2>1, RequestFields
  <2> QED
    BY <1>5, <2>1 DEF CacheTick
<1>6. CASE Clear \/ UNCHANGED cacheVars
  BY <1>0, <1>6 DEF Clear, cacheVars
<1> QED
  BY <1>2, <1>3, <1>4, <1>5, <1>6 DEF CacheNext

(* A key that is used goes to the end of both lists.                        *)
LEMMA UsedNow ==
  ASSUME NEW o \in Seq(Keys), NEW r \in Seq(Keys), NEW k \in Keys,
         ToSet(o) \subseteq ToSet(r),
         \A x, y \in Keys : Before(o, x, y) => Before(r, x, y)
  PROVE  /\ ToEnd(o, k) \in Seq(Keys) /\ ToEnd(r, k) \in Seq(Keys)
         /\ ToSet(ToEnd(o, k)) = ToSet(o) \cup {k}
         /\ ToSet(ToEnd(o, k)) \subseteq ToSet(ToEnd(r, k))
         /\ IsInjective(o) => IsInjective(ToEnd(o, k))
         /\ \A x, y \in Keys : Before(ToEnd(o, k), x, y) => Before(ToEnd(r, k), x, y)
<1>1. /\ ToEnd(o, k) \in Seq(Keys) /\ ToSet(ToEnd(o, k)) = ToSet(o) \cup {k}
      /\ IsInjective(o) => IsInjective(ToEnd(o, k))
      /\ \A y, z : Before(ToEnd(o, k), y, z) <=>
           \/ y # k /\ z # k /\ Before(o, y, z)
           \/ y \in ToSet(o) \ {k} /\ z = k
  BY MovedToEnd DEF ToEnd
<1>2. /\ ToEnd(r, k) \in Seq(Keys) /\ ToSet(ToEnd(r, k)) = ToSet(r) \cup {k}
      /\ \A y, z : Before(ToEnd(r, k), y, z) <=>
           \/ y # k /\ z # k /\ Before(r, y, z)
           \/ y \in ToSet(r) \ {k} /\ z = k
  BY MovedToEnd DEF ToEnd
<1> QED
  BY <1>1, <1>2

(* _prune leaves room for one more, and what it drops of the live keys comes *)
(* before what it keeps.                                                     *)
LEMMA KeptFacts ==
  ASSUME NEW live \in Seq(Keys)
  PROVE  /\ Kept(live) \in Seq(Keys) /\ Len(Kept(live)) < MaxEntries
         /\ ToSet(Kept(live)) \subseteq ToSet(live)
         /\ IsInjective(live) => IsInjective(Kept(live))
         /\ \A x, y : Before(Kept(live), x, y) => Before(live, x, y)
         /\ \A x \in ToSet(live) \ ToSet(Kept(live)) :
              /\ Len(Kept(live)) = MaxEntries - 1
              /\ \A y \in ToSet(Kept(live)) : Before(live, x, y)
<1> DEFINE n == IF Len(live) >= MaxEntries THEN Len(live) - MaxEntries + 1 ELSE 0
           r == SubSeq(live, n + 1, Len(live))
<1>1. n \in Nat /\ n <= Len(live) /\ Len(live) \in Nat /\ MaxEntries \in Nat \ {0}
  BY CacheAssumption
<1>2. Kept(live) = r
  BY <1>1 DEF Kept
<1>3. Len(live) - n < MaxEntries /\ (n > 0 => Len(live) - n = MaxEntries - 1)
  BY <1>1
<1> HIDE DEF n
<1>4. /\ r \in Seq(Keys) /\ Len(r) = Len(live) - n
      /\ ToSet(r) = {live[i] : i \in (n + 1)..Len(live)}
      /\ IsInjective(live) => IsInjective(r)
      /\ \A x, y : Before(r, x, y) => Before(live, x, y)
  <2>1. \A m \in Nat : m <= Len(live) =>
          LET t == SubSeq(live, m + 1, Len(live))
          IN /\ t \in Seq(Keys) /\ Len(t) = Len(live) - m
             /\ ToSet(t) = {live[i] : i \in (m + 1)..Len(live)}
             /\ IsInjective(live) => IsInjective(t)
             /\ \A x, y : Before(t, x, y) => Before(live, x, y)
    BY DroppedFacts
  <2> QED
    BY <1>1, <2>1, Zenon
<1> HIDE DEF r
<1>5. ToSet(r) \subseteq ToSet(live)
  <2>1. \A i \in (n + 1)..Len(live) : i \in DOMAIN live
    BY <1>1
  <2> QED
    BY <1>4, <2>1 DEF ToSet
<1>6. ASSUME NEW x \in ToSet(live) \ ToSet(r)
      PROVE  /\ Len(r) = MaxEntries - 1
             /\ \A y \in ToSet(r) : Before(live, x, y)
  <2>1. PICK i \in 1..Len(live) : live[i] = x
    BY <1>6 DEF ToSet
  <2>2. ~ (i \in (n + 1)..Len(live))
    BY <1>4, <1>6, <2>1
  <2>3. i <= n
    BY <1>1, <2>2
  <2>4. ASSUME NEW y \in ToSet(r) PROVE Before(live, x, y)
    <3>1. PICK j \in (n + 1)..Len(live) : live[j] = y
      BY <1>4, <2>4
    <3>2. j \in 1..Len(live) /\ i < j
      BY <1>1, <2>3, <3>1
    <3> QED
      BY <2>1, <3>1, <3>2 DEF Before
  <2> QED
    BY <1>1, <1>3, <1>4, <2>3, <2>4
<1> QED
  BY <1>2, <1>3, <1>4, <1>5, <1>6

(* What a store leaves in the cache.                                        *)
LEMMA StoreKeeps ==
  ASSUME FreshInv, OrderInv, NEW t \in Threads, Store(t)
  PROVE  LET live == Where(order, LAMBDA x : entries[x].expires > monotonic)
             k == request[t].key
         IN /\ k \in Keys
            /\ live \in Seq(Keys) /\ ToSet(live) \subseteq Cached /\ IsInjective(live)
            /\ \A x \in Cached : entries[x].expires > monotonic => x \in ToSet(live)
            /\ \A x, y : Before(live, x, y) => Before(order, x, y)
            /\ order' = ToEnd(Kept(live), k) /\ recency' = ToEnd(recency, k)
            /\ Cached' = ToSet(Kept(live)) \cup {k}
<1> DEFINE I == {i \in DOMAIN order : entries[order[i]].expires > monotonic}
           live == AtPlaces(order, I)
           k == request[t].key
<1>0. /\ request \in [Threads -> RequestType]
      /\ entries \in [Keys -> [expires : Int, readAt : Int]] /\ monotonic \in Nat
      /\ order \in Seq(Keys) /\ IsInjective(order) /\ ToSet(order) = Cached
  BY DEF FreshInv, OrderInv
<1>1. Where(order, LAMBDA x : entries[x].expires > monotonic) = live
  BY DEF Where
<1>2. k \in Keys /\ request[t].at \in Nat
  BY <1>0, RequestFields DEF Store
<1>3. /\ live \in Seq(Keys) /\ IsInjective(live)
      /\ ToSet(live) = {order[i] : i \in I \cap (1..Len(order))}
      /\ \A x, y : Before(live, x, y) => Before(order, x, y)
  BY <1>0, AtPlacesSelects, FilteredElements, FilteredOrder
<1>4. order' = ToEnd(Kept(live), k) /\ recency' = ToEnd(recency, k)
  BY <1>1 DEF Store
<1>5. entries' = [x \in Keys |->
          IF x = k THEN [expires |-> monotonic + TTL, readAt |-> request[t].at]
          ELSE IF x \in ToSet(Kept(live)) THEN entries[x] ELSE NoEntry]
  BY <1>1 DEF Store
<1> HIDE DEF live
<1>6. DOMAIN order = 1..Len(order)
  BY <1>0
<1>7. ToSet(live) = {x \in Cached : entries[x].expires > monotonic}
  BY <1>0, <1>3, <1>6 DEF ToSet
<1> HIDE DEF I, k
<1>8. [expires |-> monotonic + TTL, readAt |-> request[t].at] # NoEntry
  BY <1>2 DEF NoEntry
<1>9. ToSet(Kept(live)) \subseteq Cached
  BY <1>3, <1>7, KeptFacts
<1>10. Cached' = ToSet(Kept(live)) \cup {k}
  <2>1. ASSUME NEW x \in Keys
        PROVE  entries'[x] # NoEntry <=> x = k \/ x \in ToSet(Kept(live))
    <3>1. CASE x = k
      BY <1>5, <1>8, <3>1
    <3>2. CASE x # k /\ x \in ToSet(Kept(live))
      BY <1>5, <1>9, <3>2 DEF Cached
    <3>3. CASE x # k /\ x \notin ToSet(Kept(live))
      BY <1>5, <3>3
    <3> QED
      BY <3>1, <3>2, <3>3
  <2>2. ToSet(Kept(live)) \subseteq Keys
    BY <1>9 DEF Cached
  <2> QED
    BY <1>2, <2>1, <2>2 DEF Cached, k
<1> QED
  BY <1>1, <1>2, <1>3, <1>4, <1>7, <1>10 DEF k

(* Every step keeps the order in which entries were stored: the front of   *)
(* the order is the oldest, and an entry is in it once.                    *)
LEMMA OrderStep ==
  ASSUME FreshInv, OrderInv, [CacheNext]_cacheVars
  PROVE  OrderInv'
<1>0. /\ order \in Seq(Keys) /\ IsInjective(order) /\ ToSet(order) = Cached
      /\ recency \in Seq(Keys) /\ ToSet(order) \subseteq ToSet(recency)
      /\ \A x, y \in Keys : Before(order, x, y) => Before(recency, x, y)
      /\ Cardinality(Cached) <= MaxEntries
      /\ request \in [Threads -> RequestType]
      /\ entries \in [Keys -> [expires : Int, readAt : Int]] /\ monotonic \in Nat
      /\ MaxEntries \in Nat \ {0}
  BY CacheAssumption DEF FreshInv, OrderInv, SizeBounded
<1>1. \A t \in Threads : request'[t].phase = "lookup" => request'[t].at <= monotonic'
  BY LookupsStep
<1>2. IsFiniteSet(Cached) /\ Cardinality(Cached) = Len(order)
  BY <1>0, CountDistinct
<1>3. ASSUME UNCHANGED <<entries, order, recency>> PROVE OrderInv'
  <2>1. Cached' = Cached
    BY <1>3 DEF Cached
  <2> QED
    BY <1>0, <1>1, <1>3, <2>1 DEF OrderInv, SizeBounded
<1>4. ASSUME NEW t \in Threads, Hit(t) PROVE OrderInv'
  <2> DEFINE k == request[t].key
  <2>1. k \in Cached /\ k \in Keys
    <3>1. k \in Keys /\ request[t].at \in Nat
      BY <1>0, <1>4, RequestFields DEF Hit
    <3> QED
      BY <1>4, <3>1, Unexpired DEF Hit
  <2>2. Cached' = Cached
    BY <1>4 DEF Hit, Cached
  <2>3. order' = ToEnd(order, k) /\ recency' = ToEnd(recency, k)
    BY <1>4 DEF Hit
  <2> HIDE DEF k
  <2>4. /\ order' \in Seq(Keys) /\ recency' \in Seq(Keys)
        /\ ToSet(order') = Cached'
        /\ ToSet(order') \subseteq ToSet(recency')
        /\ IsInjective(order')
        /\ \A x, y \in Keys : Before(order', x, y) => Before(recency', x, y)
    <3>1. /\ ToEnd(order, k) \in Seq(Keys) /\ ToEnd(recency, k) \in Seq(Keys)
          /\ ToSet(ToEnd(order, k)) = ToSet(order) \cup {k}
          /\ ToSet(ToEnd(order, k)) \subseteq ToSet(ToEnd(recency, k))
          /\ IsInjective(ToEnd(order, k))
          /\ \A x, y \in Keys :
               Before(ToEnd(order, k), x, y) => Before(ToEnd(recency, k), x, y)
      BY <1>0, <2>1, UsedNow
    <3> QED
      BY <1>0, <2>1, <2>2, <2>3, <3>1
  <2> QED
    BY <1>0, <1>1, <2>2, <2>4 DEF OrderInv, SizeBounded
<1>5. ASSUME NEW t \in Threads, Miss(t) PROVE OrderInv'
  <2> DEFINE k == request[t].key
  <2>1. k \in Keys
    BY <1>0, <1>5, RequestFields DEF Miss
  <2>2. /\ entries' = [entries EXCEPT ![k] = NoEntry]
        /\ order' = Minus(order, k) /\ recency' = recency
    BY <1>5 DEF Miss
  <2> HIDE DEF k
  <2>3. Cached' = Cached \ {k}
    BY <1>0, <2>1, <2>2 DEF Cached
  <2>4. /\ order' \in Seq(Keys) /\ IsInjective(order')
        /\ ToSet(order') = Cached'
        /\ \A x, y : Before(order', x, y) => Before(order, x, y)
    BY <1>0, <2>2, <2>3, MinusFacts
  <2>5. Cardinality(Cached') <= MaxEntries
    <3>1. Cached' \in SUBSET Cached
      BY <2>3
    <3>2. IsFiniteSet(Cached') /\ Cardinality(Cached') <= Cardinality(Cached)
      BY <1>2, <3>1, FS_Subset
    <3>3. Cardinality(Cached') \in Nat /\ Cardinality(Cached) \in Nat
      BY <1>2, <3>2, FS_CardinalityType
    <3> QED
      BY <1>0, <3>2, <3>3
  <2> QED
    BY <1>0, <1>1, <2>2, <2>3, <2>4, <2>5 DEF OrderInv, SizeBounded
<1>6. ASSUME NEW t \in Threads, Store(t) PROVE OrderInv'
  <2> DEFINE live == Where(order, LAMBDA x : entries[x].expires > monotonic)
             kept == Kept(live)
             k == request[t].key
  <2>1. /\ k \in Keys /\ live \in Seq(Keys) /\ ToSet(live) \subseteq Cached
        /\ IsInjective(live)
        /\ \A x, y : Before(live, x, y) => Before(order, x, y)
        /\ order' = ToEnd(kept, k) /\ recency' = ToEnd(recency, k)
        /\ Cached' = ToSet(kept) \cup {k}
    BY <1>6, StoreKeeps
  <2> HIDE DEF live, k
  <2>2. /\ kept \in Seq(Keys) /\ Len(kept) < MaxEntries /\ ToSet(kept) \subseteq ToSet(live)
        /\ IsInjective(kept)
        /\ \A x, y : Before(kept, x, y) => Before(live, x, y)
    BY <2>1, KeptFacts
  <2> HIDE DEF kept
  <2>3. /\ order' \in Seq(Keys) /\ recency' \in Seq(Keys)
        /\ ToSet(order') = Cached'
        /\ ToSet(order') \subseteq ToSet(recency')
        /\ IsInjective(order')
        /\ \A x, y \in Keys : Before(order', x, y) => Before(recency', x, y)
    <3>1. /\ ToSet(kept) \subseteq ToSet(recency)
          /\ \A x, y \in Keys : Before(kept, x, y) => Before(recency, x, y)
      BY <1>0, <2>1, <2>2
    <3> QED
      BY <1>0, <2>1, <2>2, <3>1, UsedNow
  <2>4. Cardinality(Cached') <= MaxEntries
    <3>1. IsFiniteSet(ToSet(kept)) /\ Cardinality(ToSet(kept)) = Len(kept)
      BY <2>2, CountDistinct
    <3>2. Cardinality(Cached') = IF k \in ToSet(kept) THEN Len(kept) ELSE Len(kept) + 1
      BY <2>1, <3>1, FS_AddElement
    <3> QED
      BY <1>0, <2>2, <3>2
  <2> QED
    BY <1>1, <2>3, <2>4 DEF OrderInv, SizeBounded
<1>7. CASE Clear
  <2>1. Cached' = {} /\ order' = <<>> /\ recency' = recency
    BY <1>7 DEF Clear, Cached
  <2>2. /\ <<>> \in Seq(Keys) /\ IsInjective(<<>>) /\ ToSet(<<>>) = {}
        /\ \A x, y : ~ Before(<<>>, x, y)
    BY DEF IsInjective, ToSet, Before
  <2>3. Cardinality({}) <= MaxEntries
    BY <1>0, FS_EmptySet
  <2> QED
    BY <1>0, <1>1, <2>1, <2>2, <2>3 DEF OrderInv, SizeBounded
<1> QED
  BY <1>3, <1>4, <1>5, <1>6, <1>7
     DEF CacheNext, cacheVars, Ask, Compute, ComputeRaises, CacheTick

(* The cache always satisfies both invariants (ResponseCache,              *)
(* response_cache.py).                                                     *)
LEMMA OrderInvariant == CacheSpec => [](FreshInv /\ OrderInv)
<1>1. CacheInit => FreshInv /\ OrderInv
  <2> SUFFICES ASSUME CacheInit PROVE FreshInv /\ OrderInv
    OBVIOUS
  <2>1. FreshInv
    BY CacheAssumption
       DEF CacheInit, FreshInv, AgeInv, AnswerIsFresh, NoAnswer, NoEntry, RequestType,
           InTime, Idle
  <2>2. /\ order = <<>> /\ recency = <<>> /\ Cached = {}
        /\ \A t \in Threads : request[t].phase # "lookup"
    BY DEF CacheInit, Cached, Idle
  <2>3. /\ <<>> \in Seq(Keys) /\ IsInjective(<<>>) /\ ToSet(<<>>) = {}
        /\ \A x, y : ~ Before(<<>>, x, y)
    BY DEF IsInjective, ToSet, Before
  <2>4. Cardinality({}) <= MaxEntries
    BY CacheAssumption, FS_EmptySet
  <2> QED
    BY <2>1, <2>2, <2>3, <2>4 DEF OrderInv, SizeBounded
<1> QED
  BY <1>1, FreshStep, OrderStep, PTL DEF CacheSpec

(***************************************************************************)
(* However many threads miss and store at once, the cache never holds more *)
(* than MaxEntries responses (_prune, response_cache.py:19).               *)
(***************************************************************************)
THEOREM CacheStaysBounded == CacheSpec => []SizeBounded
<1>1. OrderInv => SizeBounded
  BY DEF OrderInv
<1> QED
  BY <1>1, OrderInvariant, PTL

(***************************************************************************)
(* A response within its TTL leaves the cache only when all do, or for     *)
(* responses that were used later, and only when there are enough of them. *)
(***************************************************************************)
THEOREM OldestAlwaysGoesFirst == CacheSpec => OldestGoesFirst
<1> DEFINE Goes(k) ==
      LET usedLater == {x \in Cached : Before(recency, k, x)}
      IN Cardinality(usedLater) >= MaxEntries - 1
<1>1. ASSUME FreshInv, OrderInv, CacheNext, NEW k \in Cached,
             entries[k].expires > monotonic, k \notin Cached', Cached' # {}
      PROVE  Goes(k)
  <2>0. k \in Keys /\ monotonic \in Nat /\ request \in [Threads -> RequestType]
        /\ entries \in [Keys -> [expires : Int, readAt : Int]]
    BY <1>1 DEF Cached, FreshInv
  <2>1. PICK t \in Threads : Miss(t) \/ Store(t)
    BY <1>1 DEF CacheNext, Ask, Hit, Compute, ComputeRaises, Clear, CacheTick, Cached
  <2>2. ~ Miss(t)
    <3> SUFFICES ASSUME Miss(t) PROVE FALSE
      OBVIOUS
    <3>1. /\ request[t].key \in Keys /\ request[t].at \in Nat
          /\ request[t].at <= monotonic
      BY <1>1, <2>0, RequestFields DEF Miss, OrderInv
    <3>2. /\ entries' = [entries EXCEPT ![request[t].key] = NoEntry]
          /\ entries[request[t].key].expires <= request[t].at
      BY DEF Miss
    <3>3. k = request[t].key
      BY <1>1, <2>0, <3>2 DEF Cached
    <3> QED
      BY <1>1, <2>0, <3>1, <3>2, <3>3
  <2> DEFINE live == Where(order, LAMBDA x : entries[x].expires > monotonic)
             kept == Kept(live)
  <2>3. /\ live \in Seq(Keys) /\ ToSet(live) \subseteq Cached /\ IsInjective(live)
        /\ k \in ToSet(live)
        /\ \A x, y : Before(live, x, y) => Before(order, x, y)
        /\ ToSet(kept) \subseteq Cached'
    BY <1>1, <2>1, <2>2, StoreKeeps
  <2> HIDE DEF live
  <2>4. /\ kept \in Seq(Keys) /\ IsInjective(kept) /\ ToSet(kept) \subseteq ToSet(live)
        /\ Len(kept) = MaxEntries - 1
        /\ \A y \in ToSet(kept) : Before(live, k, y)
    BY <1>1, <2>3, KeptFacts
  <2> HIDE DEF kept
  <2> DEFINE usedLater == {x \in Cached : Before(recency, k, x)}
  <2>5. ToSet(kept) \in SUBSET usedLater
    BY <1>1, <2>0, <2>3, <2>4 DEF OrderInv, Cached
  <2>6. IsFiniteSet(usedLater)
    <3>1. IsFiniteSet(Cached)
      BY <1>1, CountDistinct DEF OrderInv
    <3> QED
      BY <3>1, FS_Subset
  <2>7. Cardinality(ToSet(kept)) <= Cardinality(usedLater)
    BY <2>5, <2>6, FS_Subset
  <2>8. Cardinality(ToSet(kept)) = MaxEntries - 1
    BY <2>4, CountDistinct
  <2> QED
    BY <2>7, <2>8
<1>2. FreshInv /\ OrderInv /\ [CacheNext]_cacheVars =>
        [\A k \in Cached : entries[k].expires > monotonic /\ k \notin Cached' /\ Cached' # {}
            => Goes(k)]_cacheVars
  BY <1>1
<1>3. [SizeBounded'
         /\ \A k \in Cached : entries[k].expires > monotonic /\ k \notin Cached' /\ Cached' # {}
            => Goes(k)]_cacheVars
      <=> /\ [SizeBounded']_cacheVars
          /\ [\A k \in Cached : entries[k].expires > monotonic /\ k \notin Cached' /\ Cached' # {}
               => Goes(k)]_cacheVars
  OBVIOUS
<1> QED
  BY <1>2, <1>3, OrderInvariant, CacheStaysBounded, PTL DEF CacheSpec, OldestGoesFirst

-----------------------------------------------------------------------------
(***************************************************************************)
(* The live prices                                                         *)
(***************************************************************************)

(* The fields a thread's call has at each step.                             *)
LEMMA QuoteFields ==
  ASSUME NEW q \in QuoteType
  PROVE  /\ q = NoQuote <=> q.step = "idle"
         /\ q.step \in {"idle", "miss?", "price?", "ask", "mark", "keep"}
         /\ q.step # "idle" => q.ticker \in Tickers
         /\ q.step \in {"miss?", "price?", "mark", "keep"} => q.at \in Nat
BY DEF QuoteType, NoQuote

(* Every step of the quote cache keeps the types. *)
LEMMA QuoteTypeStep == QuoteTypeOK /\ [QuoteNext]_quoteVars => QuoteTypeOK'
<1> SUFFICES ASSUME QuoteTypeOK, [QuoteNext]_quoteVars
             PROVE  QuoteTypeOK'
  OBVIOUS
<1> USE QuoteAssumption DEF QuoteTypeOK
<1>1. ASSUME NEW t \in Workers, NEW k \in Tickers, AskPrice(t, k)
      PROVE  QuoteTypeOK'
  BY <1>1 DEF AskPrice, QuoteType
<1>2. ASSUME NEW t \in Workers, LookUpMiss(t)
      PROVE  QuoteTypeOK'
  <2>1. quote[t].ticker \in Tickers /\ quote[t].at \in Nat
    BY <1>2, QuoteFields DEF LookUpMiss
  <2>2. quote' \in [Workers -> QuoteType]
    <3>1. [quote[t] EXCEPT !.step = "price?", !.at = quoteTime] \in QuoteType
      BY <1>2, QuoteFields DEF LookUpMiss, QuoteType, NoQuote
    <3> QED
      BY <1>2, <2>1, <3>1 DEF LookUpMiss, Returns, QuoteType
  <2> QED
    BY <1>2, <2>1, <2>2 DEF LookUpMiss, Popped, Unset
<1>3. ASSUME NEW t \in Workers, LookUpPrice(t)
      PROVE  QuoteTypeOK'
  <2>1. quote[t].ticker \in Tickers
    BY <1>3, QuoteFields DEF LookUpPrice
  <2>2. /\ [step |-> "ask", ticker |-> quote[t].ticker] \in QuoteType
        /\ NoQuote \in QuoteType
    BY <2>1 DEF QuoteType
  <2>3. quote' \in [Workers -> QuoteType]
    BY <1>3, <2>2 DEF LookUpPrice, Returns
  <2> QED
    BY <1>3, <2>1, <2>3 DEF LookUpPrice, Popped, Unset
<1>4. ASSUME NEW t \in Workers, ProviderAnswers(t)
      PROVE  QuoteTypeOK'
  <2>1. quote[t].ticker \in Tickers
    BY <1>4, QuoteFields DEF ProviderAnswers
  <2>2. PICK s \in {"mark", "keep"} :
          quote' = [quote EXCEPT
                      ![t] = [step |-> s, ticker |-> quote[t].ticker, at |-> quoteTime]]
    BY <1>4 DEF ProviderAnswers
  <2>3. [step |-> s, ticker |-> quote[t].ticker, at |-> quoteTime] \in QuoteType
    BY <2>1 DEF QuoteType
  <2> QED
    BY <1>4, <2>2, <2>3 DEF ProviderAnswers
<1>5. ASSUME NEW t \in Workers, MarkMiss(t) \/ KeepPrice(t)
      PROVE  QuoteTypeOK'
  <2>1. quote[t].ticker \in Tickers /\ quote[t].at \in Nat
    BY <1>5, QuoteFields DEF MarkMiss, KeepPrice
  <2>2. NoQuote \in QuoteType
    BY DEF QuoteType
  <2> QED
    BY <1>5, <2>1, <2>2 DEF MarkMiss, KeepPrice, Returns
<1>6. CASE QuoteTick
  BY <1>6 DEF QuoteTick
<1>7. CASE UNCHANGED quoteVars
  BY <1>7 DEF quoteVars
<1> QED
  BY <1>1, <1>2, <1>3, <1>4, <1>5, <1>6, <1>7 DEF QuoteNext

(* A step of a thread that stays at its ticker, or leaves it.               *)
LEMMA AloneStep ==
  ASSUME QuoteTypeOK, QuoteTypeOK', NEW k \in Tickers, Alone(k), NEW t \in Workers,
         LookUpMiss(t) \/ LookUpPrice(t) \/ ProviderAnswers(t) \/ MarkMiss(t) \/ KeepPrice(t)
  PROVE  Alone(k)'
<1>1. quote[t] # NoQuote /\ quote[t].ticker \in Tickers
  BY QuoteFields DEF QuoteTypeOK, LookUpMiss, LookUpPrice, ProviderAnswers, MarkMiss, KeepPrice
<1>2. /\ \A u \in Workers \ {t} : quote'[u] = quote[u]
      /\ quote'[t] = NoQuote \/ quote'[t].ticker = quote[t].ticker
  BY DEF QuoteTypeOK, QuoteType, LookUpMiss, LookUpPrice, ProviderAnswers, MarkMiss, KeepPrice,
         Returns
<1>3. Busy(k)' \subseteq Busy(k) /\ \A u, v \in Busy(k)' : u = v
  BY <1>1, <1>2 DEF Busy, Alone
<1>4. CASE quote[t].ticker # k
  <2>1. t \notin Busy(k)'
    BY <1>2, <1>4 DEF Busy
  <2>2. prices'[k] = prices[k] /\ misses'[k] = misses[k]
    BY <1>1, <1>4 DEF QuoteTypeOK, LookUpMiss, LookUpPrice, ProviderAnswers, MarkMiss, KeepPrice
  <2> QED
    BY <1>2, <1>3, <2>1, <2>2 DEF Busy, Alone
<1>5. CASE quote[t].ticker = k
  <2>1. t \in Busy(k) /\ Busy(k)' \subseteq {t}
    BY <1>1, <1>3, <1>5 DEF Busy, Alone
  <2>2. /\ quote[t].step # "miss?" => misses[k] = Unset
        /\ quote[t].step \in {"ask", "mark", "keep"} => prices[k] = Unset
    BY <2>1 DEF Alone
  <2>3. SUFFICES /\ prices'[k] = Unset \/ misses'[k] = Unset
                 /\ quote'[t] # NoQuote =>
                      /\ quote'[t].step # "miss?" => misses'[k] = Unset
                      /\ quote'[t].step \in {"ask", "mark", "keep"} => prices'[k] = Unset
    BY <1>3, <2>1 DEF Alone, Busy
  <2>4. prices \in [Tickers -> Int] /\ misses \in [Tickers -> Int]
        /\ quote \in [Workers -> QuoteType]
    BY DEF QuoteTypeOK
  <2>5. CASE LookUpMiss(t)
    <3>1. misses'[k] = Popped(misses[k], quote[t].at) /\ prices'[k] = prices[k]
      BY <1>5, <2>4, <2>5 DEF LookUpMiss
    <3>2. CASE Valid(misses[k], quote[t].at)
      BY <1>5, <2>4, <2>5, <3>1, <3>2 DEF LookUpMiss, Returns, Popped, Alone
    <3>3. CASE ~Valid(misses[k], quote[t].at)
      <4>1. quote'[t] = [quote[t] EXCEPT !.step = "price?", !.at = quoteTime]
        BY <1>5, <2>4, <2>5, <3>3 DEF LookUpMiss
      <4>2. quote'[t].step = "price?"
        BY <4>1, <2>4, <2>5 DEF LookUpMiss, QuoteType, NoQuote
      <4> QED
        BY <3>1, <3>3, <4>2 DEF Popped
    <3> QED
      BY <3>2, <3>3
  <2>6. CASE LookUpPrice(t)
    BY <1>5, <2>2, <2>4, <2>6 DEF LookUpPrice, Returns, Popped
  <2>7. CASE ProviderAnswers(t)
    BY <1>5, <2>2, <2>4, <2>7 DEF ProviderAnswers
  <2>8. CASE MarkMiss(t)
    BY <1>5, <2>2, <2>4, <2>8 DEF MarkMiss, Returns
  <2>9. CASE KeepPrice(t)
    BY <1>5, <2>2, <2>4, <2>9 DEF KeepPrice, Returns
  <2> QED
    BY <2>5, <2>6, <2>7, <2>8, <2>9
<1> QED
  BY <1>4, <1>5

(* The inductive invariant of the quote cache (live_data_service.py). *)
LEMMA QuoteInvariant == QuoteSpec => []QuoteInv
<1>1. QuoteInit => QuoteInv
  BY DEF QuoteInit, QuoteInv, QuoteTypeOK, QuoteType, Alone, Busy, Unset, NoQuote
<1>2. QuoteInv /\ [QuoteNext]_quoteVars => QuoteInv'
  <2> SUFFICES ASSUME QuoteInv, [QuoteNext]_quoteVars
               PROVE  QuoteInv'
    OBVIOUS
  <2>1. QuoteTypeOK /\ QuoteTypeOK'
    BY QuoteTypeStep DEF QuoteInv
  <2> SUFFICES ASSUME NEW k \in Tickers, k \notin together'
               PROVE  Alone(k)'
    BY <2>1 DEF QuoteInv
  <2>2. together \subseteq together'
    BY DEF QuoteNext, quoteVars, AskPrice, LookUpMiss, LookUpPrice, ProviderAnswers, MarkMiss,
           KeepPrice, QuoteTick
  <2>3. Alone(k)
    BY <2>2 DEF QuoteInv
  <2>4. ASSUME NEW t \in Workers, NEW j \in Tickers, AskPrice(t, j)
        PROVE  Alone(k)'
    <3>1. /\ quote' = [quote EXCEPT ![t] = [step |-> "miss?", ticker |-> j, at |-> quoteTime]]
          /\ quote[t] = NoQuote /\ UNCHANGED <<prices, misses>>
          /\ j = k => Busy(k) = {}
      BY <2>4 DEF AskPrice
    <3>2. quote'[t].step = "miss?" /\ quote'[t].ticker = j
          /\ \A u \in Workers \ {t} : quote'[u] = quote[u]
      BY <2>1, <3>1 DEF QuoteTypeOK
    <3>3. CASE j = k
      <4>1. Busy(k)' \subseteq {t}
        BY <3>1, <3>2, <3>3 DEF Busy
      <4> QED
        BY <2>3, <3>1, <3>2, <4>1 DEF Alone
    <3>4. CASE j # k
      <4>1. Busy(k)' \subseteq Busy(k) /\ t \notin Busy(k)'
        BY <3>2, <3>4 DEF Busy
      <4> QED
        BY <2>3, <3>1, <3>2, <4>1 DEF Alone, Busy
    <3> QED
      BY <3>3, <3>4
  <2>5. CASE \E t \in Workers : LookUpMiss(t) \/ LookUpPrice(t) \/ ProviderAnswers(t)
                                \/ MarkMiss(t) \/ KeepPrice(t)
    BY <2>1, <2>3, <2>5, AloneStep
  <2>6. CASE QuoteTick
    BY <2>3, <2>6 DEF QuoteTick, Alone, Busy
  <2>7. CASE UNCHANGED quoteVars
    BY <2>3, <2>7 DEF quoteVars, Alone, Busy
  <2> QED
    BY <2>4, <2>5, <2>6, <2>7 DEF QuoteNext
<1> QED
  BY <1>1, <1>2, PTL DEF QuoteSpec

(* A miss hides a price that is still good only where two threads have been *)
(* at the ticker at once, for every number of tickers and threads and       *)
(* whatever the two TTLs are.                                               *)
THEOREM HiddenByOverlap == QuoteSpec => []HiddenOnlyByOverlap
<1>1. QuoteInv => HiddenOnlyByOverlap
  BY DEF QuoteInv, HiddenOnlyByOverlap, Alone, Valid
<1> QED
  BY <1>1, QuoteInvariant, PTL

-----------------------------------------------------------------------------
(***************************************************************************)
(* The request limiter                                                     *)
(***************************************************************************)

(* Every window's limit is positive. *)
LEMMA LimitOf ==
  ASSUME NEW k \in WindowKeys
  PROVE  Limit[k[2]] \in Nat \ {0}
BY LimiterAssumption DEF WindowKeys

(* The window a request falls into, and what becomes of a window that is    *)
(* over.                                                                    *)
LEMMA CurrentWindow ==
  ASSUME ticks \in Nat, NEW w \in [count : Nat, start : Int]
  PROVE  /\ Current(w) \in [count : Nat, start : Int]
         /\ Current(w) = w \/ Current(w).count = 0
         /\ w = NoWindow \/ w.start + WindowTicks <= ticks => Current(w).count = 0
BY LimiterAssumption DEF Current

(* Rounding gives away less than the Shortfall.                             *)
LEMMA RetryCovers ==
  ASSUME ticks \in Nat, NEW w \in [count : Nat, start : Int]
  PROVE  /\ RetryAfter(w) \in Nat
         /\ w.start + WindowTicks <= ticks + Second * RetryAfter(w) + Shortfall
<1> DEFINE left == (WindowTicks - (ticks - w.start) + RoundUp) \div Second
<1>1. left \in Int /\ Second * left + Second > WindowTicks - (ticks - w.start) + RoundUp
  BY LimiterAssumption
<1>2. left < 1 => Second * left <= 0
  BY <1>1, LimiterAssumption
<1>3. CASE left < 1
  <2>1. RetryAfter(w) = 1
    BY <1>3 DEF RetryAfter
  <2> QED
    BY <1>1, <1>2, <1>3, <2>1, LimiterAssumption DEF Shortfall
<1>4. CASE ~(left < 1)
  <2>1. RetryAfter(w) = left
    BY <1>4 DEF RetryAfter
  <2>2. Second * left \in Int
    BY <1>1, LimiterAssumption
  <2> HIDE DEF left
  <2> QED
    BY <1>1, <1>4, <2>1, <2>2, LimiterAssumption DEF Shortfall
<1> QED
  BY <1>3, <1>4

(* What check keeps: its own window, of the others what was there, or none. *)
LEMMA KeptWindows ==
  ASSUME NEW k \in WindowKeys, NEW w \in [count : Nat, start : Int], Keep(k, w),
         windows \in [WindowKeys -> [count : Nat, start : Int]]
  PROVE  /\ windows' \in [WindowKeys -> [count : Nat, start : Int]]
         /\ windows'[k] \in {w, NoWindow}
         /\ \A x \in WindowKeys \ {k} : windows'[x] \in {windows[x], NoWindow}
<1> DEFINE all  == Append(Minus(used, k), k)
           gone == {all[i] : i \in 1..(Len(all) - MaxWindows)}
<1>1. windows' = [x \in WindowKeys |->
                    IF x \in gone THEN NoWindow ELSE IF x = k THEN w ELSE windows[x]]
  BY DEF Keep
<1>2. NoWindow \in [count : Nat, start : Int]
  BY DEF NoWindow
<1> HIDE DEF gone
<1> QED
  BY <1>1, <1>2

(* Every step keeps the windows of the limiter in order and within their   *)
(* limits.                                                                 *)
LEMMA LimiterStep == LimiterInv /\ [LimiterNext]_limiterVars => LimiterInv'
<1> SUFFICES ASSUME LimiterInv, [LimiterNext]_limiterVars PROVE LimiterInv'
  OBVIOUS
<1>0. /\ ticks \in Nat
      /\ windows \in [WindowKeys -> [count : Nat, start : Int]]
      /\ told \in [WindowKeys -> [until : Int, since : Nat]]
      /\ ToldInv
  BY DEF LimiterInv
<1>1. ASSUME NEW k \in WindowKeys, Grant(k) PROVE LimiterInv'
  <2> DEFINE w == Current(windows[k])
             v == [w EXCEPT !.count = @ + 1]
             next == [told[k] EXCEPT !.since = @ + 1]
             spent == ~Waiting(k) \/ told[k].since + 1 = Limit[k[2]]
  <2>1. /\ w \in [count : Nat, start : Int]
        /\ w = windows[k] \/ w.count = 0
    BY <1>0, CurrentWindow
  <2>2. /\ v \in [count : Nat, start : Int]
        /\ v.count = w.count + 1 /\ v.start = w.start
    BY <2>1
  <2>3. Keep(k, v) /\ ticks' = ticks
    BY <1>1 DEF Grant
  <2>4. told' = [told EXCEPT ![k] = IF spent THEN NotRefused ELSE next]
    BY <1>1 DEF Grant
  <2>5. /\ NotRefused \in [until : Int, since : Nat]
        /\ next \in [until : Int, since : Nat]
        /\ next.until = told[k].until /\ next.since = told[k].since + 1
    BY <1>0 DEF NotRefused
  <2> HIDE DEF w, v, next, spent
  <2>6. /\ windows' \in [WindowKeys -> [count : Nat, start : Int]]
        /\ windows'[k] \in {v, NoWindow}
        /\ \A x \in WindowKeys \ {k} : windows'[x] \in {windows[x], NoWindow}
    BY <1>0, <2>2, <2>3, KeptWindows
  <2>7. told' \in [WindowKeys -> [until : Int, since : Nat]]
    BY <1>0, <2>4, <2>5
  <2>8. ToldInv'
    <3> SUFFICES ASSUME NEW x \in WindowKeys, Waiting(x)'
                 PROVE  /\ told'[x].since < Limit[x[2]]
                        /\ \/ windows'[x] = NoWindow
                           \/ windows'[x].start + WindowTicks <= told'[x].until + Shortfall
                           \/ windows'[x].count <= told'[x].since
      BY DEF ToldInv, NoWindow, Shortfall
    <3>1. CASE x # k
      <4>1. told'[x] = told[x] /\ Waiting(x)
        BY <1>0, <2>4, <3>1 DEF Waiting, NotRefused
      <4> QED
        BY <1>0, <2>6, <3>1, <4>1 DEF ToldInv
    <3>2. CASE x = k
      <4>1. told'[k] = IF spent THEN NotRefused ELSE next
        BY <1>0, <2>4
      <4>2. ~spent /\ told'[k] = next
        BY <3>2, <4>1 DEF Waiting
      <4>3. Waiting(k) /\ told[k].since + 1 # Limit[k[2]]
        BY <4>2 DEF spent
      <4>4. /\ told'[k].until = told[k].until
            /\ told'[k].since = told[k].since + 1
            /\ told[k].since \in Nat /\ told[k].until \in Int
        BY <1>0, <2>5, <4>2
      <4>5. told[k].since < Limit[k[2]] /\ Limit[k[2]] \in Nat
        BY <1>0, <4>3, LimitOf DEF ToldInv
      <4>6. \/ windows[k] = NoWindow
            \/ windows[k].start + WindowTicks <= told[k].until + Shortfall
            \/ windows[k].count <= told[k].since
        BY <1>0, <4>3 DEF ToldInv
      <4>7. windows[k] = NoWindow => w.count = 0
        BY <1>0, CurrentWindow DEF w
      <4>8. \/ v.start + WindowTicks <= told[k].until + Shortfall
            \/ v.count <= told[k].since + 1
        BY <2>1, <2>2, <4>4, <4>6, <4>7
      <4> QED
        BY <2>6, <3>2, <4>3, <4>4, <4>5, <4>8
    <3> QED
      BY <3>1, <3>2
  <2> QED
    BY <1>0, <2>3, <2>6, <2>7, <2>8 DEF LimiterInv
<1>2. ASSUME NEW k \in WindowKeys, Refuse(k) PROVE LimiterInv'
  <2> DEFINE w == Current(windows[k])
             said == [until |-> ticks + Second * RetryAfter(w), since |-> 0]
  <2>1. w \in [count : Nat, start : Int]
    BY <1>0, CurrentWindow
  <2>2. w = windows[k] /\ windows[k] # NoWindow
    BY <1>0, <1>2, <2>1, CurrentWindow, LimitOf DEF Refuse, Allowed
  <2>3. Keep(k, w) /\ ticks' = ticks
    BY <1>2 DEF Refuse
  <2>4. told' = IF Waiting(k) THEN told ELSE [told EXCEPT ![k] = said]
    BY <1>2 DEF Refuse
  <2>5. /\ RetryAfter(w) \in Nat
        /\ w.start + WindowTicks <= ticks + Second * RetryAfter(w) + Shortfall
    BY <1>0, <2>1, RetryCovers
  <2>6. /\ said \in [until : Int, since : Nat]
        /\ said.since = 0
        /\ w.start + WindowTicks <= said.until + Shortfall
    BY <1>0, <2>5, LimiterAssumption
  <2> HIDE DEF w, said
  <2>7. /\ windows' \in [WindowKeys -> [count : Nat, start : Int]]
        /\ windows'[k] \in {w, NoWindow}
        /\ \A x \in WindowKeys \ {k} : windows'[x] \in {windows[x], NoWindow}
    BY <1>0, <2>1, <2>3, KeptWindows
  <2>8. told' \in [WindowKeys -> [until : Int, since : Nat]]
    BY <1>0, <2>4, <2>6
  <2>9. ToldInv'
    <3> SUFFICES ASSUME NEW x \in WindowKeys, Waiting(x)'
                 PROVE  /\ told'[x].since < Limit[x[2]]
                        /\ \/ windows'[x] = NoWindow
                           \/ windows'[x].start + WindowTicks <= told'[x].until + Shortfall
                           \/ windows'[x].count <= told'[x].since
      BY DEF ToldInv, NoWindow, Shortfall
    <3>1. CASE x # k \/ Waiting(k)
      <4>1. told'[x] = told[x] /\ Waiting(x)
        BY <1>0, <2>4, <3>1 DEF Waiting, NotRefused
      <4>2. windows'[x] \in {windows[x], NoWindow}
        BY <2>2, <2>7
      <4> QED
        BY <1>0, <4>1, <4>2 DEF ToldInv
    <3>2. CASE x = k /\ ~Waiting(k)
      <4>1. told'[k] = said
        BY <1>0, <2>4, <3>2
      <4> QED
        BY <2>6, <2>7, <3>2, <4>1, LimitOf
    <3> QED
      BY <3>1, <3>2
  <2> QED
    BY <1>0, <2>3, <2>7, <2>8, <2>9 DEF LimiterInv
<1>3. ASSUME LimiterTick PROVE LimiterInv'
  BY <1>0, <1>3 DEF LimiterTick, LimiterInv, ToldInv, Waiting, NotRefused, NoWindow, Shortfall
<1>4. ASSUME UNCHANGED limiterVars PROVE LimiterInv'
  BY <1>0, <1>4 DEF limiterVars, LimiterInv, ToldInv, Waiting, NotRefused, NoWindow, Shortfall
<1>5. ASSUME NEW c \in Clients, NEW r \in Asked, NEW large \in BOOLEAN,
             Request(c, r, large)
      PROVE  LimiterInv'
  <2>1. Bucket(r) \subseteq Buckets
    BY LimiterAssumption DEF Bucket, Buckets, Routes
  <2>2. PICK b \in Bucket(r) : Grant(<<c, b>>) \/ Refuse(<<c, b>>)
    BY <1>5 DEF Request
  <2>3. <<c, b>> \in WindowKeys
    BY <2>1, <2>2 DEF WindowKeys
  <2> QED
    BY <1>1, <1>2, <2>2, <2>3
<1> QED
  BY <1>3, <1>4, <1>5 DEF LimiterNext

(* A client that comes back when Retry-After said is let in, unless it has  *)
(* been for a whole limit since; the Shortfall is what truncating after     *)
(* 0.999 s may lack.                                                        *)
THEOREM RetryAfterHolds == LimiterSpec => []WaitingHelps
<1>1. LimiterInit => LimiterInv
  BY DEF LimiterInit, LimiterInv, ToldInv, Waiting, NoWindow, NotRefused
<1>2. LimiterInv => WaitingHelps
  <2> SUFFICES ASSUME LimiterInv, NEW k \in WindowKeys, Waiting(k),
                      ticks >= told[k].until + Shortfall
               PROVE  Allowed(Current(windows[k]).count, Limit[k[2]])
    BY DEF WaitingHelps
  <2>1. /\ ticks \in Nat
        /\ windows[k] \in [count : Nat, start : Int]
        /\ told[k] \in [until : Int, since : Nat]
    BY DEF LimiterInv
  <2>2. /\ told[k].since < Limit[k[2]]
        /\ \/ windows[k] = NoWindow
           \/ windows[k].start + WindowTicks <= told[k].until + Shortfall
           \/ windows[k].count <= told[k].since
    BY DEF LimiterInv, ToldInv
  <2>3. /\ Shortfall \in Nat /\ WindowTicks \in Nat
    BY LimiterAssumption DEF Shortfall
  <2>4. \/ Current(windows[k]).count = 0
        \/ Current(windows[k]).count <= told[k].since
    BY <2>1, <2>2, <2>3, CurrentWindow
  <2> QED
    BY <2>1, <2>2, <2>4, LimitOf, CurrentWindow DEF Allowed
<1> QED
  BY <1>1, <1>2, LimiterStep, PTL DEF LimiterSpec

(***************************************************************************)
(* How much a client is let in for                                         *)
(***************************************************************************)

(* What check keeps, and what it drops before its time: never the window of *)
(* the client it lets in or refuses.                                        *)
LEMMA KeptOrForgotten ==
  ASSUME NEW k \in WindowKeys, NEW w \in [count : Nat, start : Int], Keep(k, w),
         windows \in [WindowKeys -> [count : Nat, start : Int]],
         used \in Seq(WindowKeys), IsInjective(used), ticks \in Nat
  PROVE  /\ used' \in Seq(WindowKeys) /\ IsInjective(used')
         /\ windows'[k] = w
         /\ forgotten \subseteq forgotten'
         /\ \A x \in (WindowKeys \ forgotten') \ {k} :
              \/ windows'[x] = windows[x]
              \/ windows'[x] = NoWindow /\ ticks - windows[x].start >= WindowTicks
<1> DEFINE all  == Append(Minus(used, k), k)
           m    == Len(all) - MaxWindows
           gone == {all[i] : i \in 1..m}
<1>1. /\ used' = SubSeq(all, Cardinality(gone) + 1, Len(all))
      /\ windows' = [x \in WindowKeys |->
                      IF x \in gone THEN NoWindow ELSE IF x = k THEN w ELSE windows[x]]
      /\ forgotten' = forgotten \cup {x \in gone : ticks - windows[x].start < WindowTicks}
  BY DEF Keep
<1>2. /\ all \in Seq(WindowKeys) /\ IsInjective(all) /\ Len(all) > 0
      /\ \A i \in 1..Len(all) : all[i] = k => i = Len(all)
  BY MovedToEnd
<1> HIDE DEF all
<1>3. /\ Len(all) \in Nat /\ MaxWindows \in Nat \ {0} /\ m \in Int /\ m < Len(all)
      /\ DOMAIN all = 1..Len(all)
  BY <1>2, LimiterAssumption
<1>9. gone = {all[i] : i \in 1..m}
  OBVIOUS
<1> HIDE DEF gone, m
<1>4. k \notin gone
  <2> SUFFICES ASSUME NEW i \in 1..m, all[i] = k PROVE FALSE
    BY <1>9
  <2> DEFINE n == Len(all)
  <2>2. n \in Nat /\ m \in Int /\ m < n
    BY <1>3
  <2> HIDE DEF n
  <2>3. i \in 1..n /\ i # n
    BY <2>2
  <2>1. i \in 1..Len(all) /\ i # Len(all)
    BY <2>3 DEF n
  <2> QED
    BY <1>2, <2>1
<1>5. Cardinality(gone) \in 0..Len(all)
  <2>1. CASE m < 1
    <3>1. gone = {}
      BY <1>3, <1>9, <2>1
    <3> QED
      BY <1>3, <3>1, FS_EmptySet
  <2>2. CASE m >= 1
    <3> DEFINE p == Take(all, m)
    <3>0. m \in Nat
      BY <1>3, <2>2
    <3>1. /\ p \in Seq(WindowKeys) /\ IsInjective(p) /\ Len(p) = m
          /\ \A i \in 1..Len(p) : p[i] = all[i]
      <4> HIDE DEF p
      <4>1. /\ p \in Seq(WindowKeys) /\ IsInjective(p)
            /\ Len(p) <= m /\ (Len(p) = Len(all) \/ Len(p) = m)
            /\ \A i \in 1..Len(p) : p[i] = all[i]
        BY <1>2, <3>0, TakeFacts DEF p
      <4> QED
        BY <1>3, <3>0, <4>1
    <3> HIDE DEF p
    <3>2. DOMAIN p = 1..m
      BY <3>1
    <3>3. ToSet(p) = gone
      BY <1>9, <3>1, <3>2 DEF ToSet
    <3> QED
      BY <1>3, <3>0, <3>1, <3>3, CountDistinct
  <2> QED
    BY <1>3, <2>1, <2>2
<1>6. used' \in Seq(WindowKeys) /\ IsInjective(used')
  <2>1. \A n \in Nat : n <= Len(all) =>
          LET t == SubSeq(all, n + 1, Len(all))
          IN t \in Seq(WindowKeys) /\ (IsInjective(all) => IsInjective(t))
    BY <1>2, DroppedFacts
  <2>2. Cardinality(gone) \in Nat /\ Cardinality(gone) <= Len(all)
    BY <1>3, <1>5
  <2> QED
    BY <1>1, <1>2, <2>1, <2>2
<1>7. windows'[k] = w
  BY <1>1, <1>4
<1>8. ASSUME NEW x \in (WindowKeys \ forgotten') \ {k}
      PROVE  \/ windows'[x] = windows[x]
             \/ windows'[x] = NoWindow /\ ticks - windows[x].start >= WindowTicks
  <2>1. CASE x \notin gone
    BY <1>1, <1>8, <2>1
  <2>2. CASE x \in gone
    <3>1. windows'[x] = NoWindow /\ ~ (ticks - windows[x].start < WindowTicks)
      BY <1>1, <1>8, <2>2
    <3> QED
      BY <3>1, LimiterAssumption
  <2> QED
    BY <2>1, <2>2
<1> QED
  BY <1>1, <1>6, <1>7, <1>8

(* A window that is over leaves less than one limit of the times that still *)
(* count: the request that opened it counts no more.                        *)
LEMMA RolledOver ==
  ASSUME LimiterInv, GrantedInv, NEW k \in WindowKeys \ forgotten
  PROVE  /\ Current(windows[k]).count <= Limit[k[2]]
         /\ \/ /\ Current(windows[k]) = [count |-> 0, start |-> ticks]
               /\ Len(granted[k]) < Limit[k[2]]
            \/ SpentIn(granted[k], Current(windows[k]), Limit[k[2]])
         /\ windows[k] # NoWindow /\ ticks - windows[k].start >= WindowTicks
              => Len(granted[k]) < Limit[k[2]]
<1> DEFINE s == granted[k]
           l == Limit[k[2]]
           v == windows[k]
<1>1. /\ s \in Seq(Nat) /\ l \in Nat \ {0} /\ ticks \in Nat /\ WindowTicks \in Nat \ {0}
      /\ v \in [count : Nat, start : Int] /\ v.count <= l
      /\ \A i \in DOMAIN s : s[i] <= ticks /\ ticks - s[i] < WindowTicks
      /\ IF v = NoWindow THEN Len(s) < l ELSE SpentIn(s, v, l)
  BY LimitOf, LimiterAssumption DEF LimiterInv, GrantedInv
<1> HIDE DEF s, l, v
<1>2. v # NoWindow /\ ticks - v.start >= WindowTicks => Len(s) < l
  <2> SUFFICES ASSUME v # NoWindow, ticks - v.start >= WindowTicks PROVE Len(s) < l
    OBVIOUS
  <2>1. PICK c \in 0..Len(s) :
          /\ c <= l /\ Len(s) - c < v.count
          /\ \A i \in 1..c : s[i] <= v.start
    BY <1>1 DEF SpentIn
  <2>2. c = 0
    <3> SUFFICES ASSUME c # 0 PROVE FALSE
      OBVIOUS
    <3>1. 1 \in 1..c /\ 1 \in DOMAIN s
      BY <1>1
    <3>2. s[1] <= v.start /\ ticks - s[1] < WindowTicks /\ s[1] \in Nat
      BY <1>1, <2>1, <3>1
    <3> QED
      BY <1>1, <3>2
  <2> QED
    BY <1>1, <2>1, <2>2
<1>3. CASE v = NoWindow \/ ticks - v.start >= WindowTicks
  <2>1. Current(v) = [count |-> 0, start |-> ticks] /\ Len(s) < l
    BY <1>1, <1>2, <1>3 DEF Current
  <2> QED
    BY <1>1, <1>2, <2>1 DEF s, l, v
<1>4. CASE ~ (v = NoWindow \/ ticks - v.start >= WindowTicks)
  <2>1. Current(v) = v
    BY <1>4 DEF Current
  <2> QED
    BY <1>1, <1>2, <1>4, <2>1 DEF s, l, v
<1> QED
  BY <1>3, <1>4

(* Once more, in the window there is.                                       *)
LEMMA SpentOnceMore ==
  ASSUME NEW s \in Seq(Nat), NEW w \in [count : Nat, start : Int], NEW l \in Nat,
         NEW t \in Nat, SpentIn(s, w, l)
  PROVE  SpentIn(Append(s, t), [w EXCEPT !.count = @ + 1], l)
<1>1. PICK c \in 0..Len(s) :
        /\ c <= l /\ Len(s) - c < w.count
        /\ \A i \in 1..c : s[i] <= w.start
  BY DEF SpentIn
<1> DEFINE q == Append(s, t)
           v == [w EXCEPT !.count = @ + 1]
<1>2. /\ Len(q) = Len(s) + 1 /\ Len(s) \in Nat
      /\ \A i \in 1..Len(s) : q[i] = s[i]
      /\ v.count = w.count + 1 /\ v.start = w.start /\ w.count \in Nat
  OBVIOUS
<1> HIDE DEF q, v
<1>3. c \in Nat /\ c <= Len(s) /\ w.start \in Int
  BY <1>1, <1>2
<1>4. c \in 0..Len(q) /\ Len(q) - c < v.count
  <2>1. Len(s) - c < w.count
    BY <1>1
  <2>2. Len(q) = Len(s) + 1 /\ v.count = w.count + 1 /\ Len(s) \in Nat /\ w.count \in Nat
    BY <1>2
  <2> QED
    BY <1>3, <2>1, <2>2
<1>5. ASSUME NEW i \in 1..c PROVE q[i] <= v.start
  <2>1. i \in 1..Len(s)
    BY <1>3
  <2>2. q[i] = s[i] /\ v.start = w.start
    BY <1>2, <2>1
  <2> QED
    BY <1>1, <2>2
<1> QED
  BY <1>1, <1>4, <1>5 DEF SpentIn, q, v

(* The request that opens a window.                                         *)
LEMMA SpentFirst ==
  ASSUME NEW s \in Seq(Nat), NEW l \in Nat, NEW t \in Nat,
         Len(s) < l, \A i \in DOMAIN s : s[i] <= t
  PROVE  SpentIn(Append(s, t), [count |-> 1, start |-> t], l)
<1> DEFINE q == Append(s, t)
<1>1. /\ Len(q) = Len(s) + 1 /\ Len(s) \in Nat /\ q[Len(s) + 1] = t
      /\ \A i \in 1..Len(s) : q[i] = s[i] /\ s[i] <= t
  OBVIOUS
<1> HIDE DEF q
<1>2. /\ Len(q) \in 0..Len(q) /\ Len(q) <= l /\ Len(q) - Len(q) < 1
      /\ \A i \in 1..Len(q) : q[i] <= t
  BY <1>1
<1> QED
  BY <1>2 DEF SpentIn, q

(* As time goes by, times are dropped.                                      *)
LEMMA SpentLess ==
  ASSUME NEW s \in Seq(Nat), NEW I, NEW w \in [count : Nat, start : Int], NEW l \in Nat,
         SpentIn(s, w, l)
  PROVE  SpentIn(AtPlaces(s, I), w, l)
<1>1. PICK c \in 0..Len(s) :
        /\ c <= l /\ Len(s) - c < w.count
        /\ \A i \in 1..c : s[i] <= w.start
  BY DEF SpentIn
<1> DEFINE r == AtPlaces(s, I)
<1>2. r \in Seq(Nat) /\ Cut(s, r, c)
  BY AtPlacesSelects, FilteredCut
<1> HIDE DEF r
<1>3. PICK d \in 0..Len(r) :
        /\ d <= c /\ Len(r) - d <= Len(s) - c
        /\ \A k \in 1..d : \E i \in 1..c : r[k] = s[i]
  BY <1>2 DEF Cut
<1>4. d <= l /\ Len(r) - d < w.count
  BY <1>1, <1>2, <1>3
<1>5. \A k \in 1..d : r[k] <= w.start
  BY <1>1, <1>3
<1> QED
  BY <1>3, <1>4, <1>5 DEF SpentIn, r

(* Every step keeps what was granted apart from what is still in its       *)
(* window: at most a limit up to the request that opened the window, and    *)
(* less than a limit after it.                                              *)
LEMMA GrantedStep ==
  ASSUME LimiterInv, GrantedInv, [LimiterNext]_limiterVars
  PROVE  GrantedInv'
<1> DEFINE Spent(k, s, w, tick) ==
      /\ \A i \in DOMAIN s : s[i] <= tick /\ tick - s[i] < WindowTicks
      /\ w.count <= Limit[k[2]]
      /\ IF w = NoWindow THEN Len(s) < Limit[k[2]] ELSE SpentIn(s, w, Limit[k[2]])
<1>0. /\ ticks \in Nat
      /\ windows \in [WindowKeys -> [count : Nat, start : Int]]
      /\ used \in Seq(WindowKeys) /\ IsInjective(used)
      /\ granted \in [WindowKeys -> Seq(Nat)]
      /\ \A k \in WindowKeys \ forgotten : Spent(k, granted[k], windows[k], ticks)
      /\ WindowTicks \in Nat \ {0}
  BY LimiterAssumption DEF LimiterInv, GrantedInv
<1>1. ASSUME used' \in Seq(WindowKeys), IsInjective(used'),
             granted' \in [WindowKeys -> Seq(Nat)],
             \A k \in WindowKeys \ forgotten' : Spent(k, granted'[k], windows'[k], ticks')
      PROVE  GrantedInv'
  BY <1>1 DEF GrantedInv, NoWindow, SpentIn
<1>2. ASSUME NEW x \in WindowKeys \ forgotten, ticks' = ticks,
             granted'[x] = granted[x],
             \/ windows'[x] = windows[x]
             \/ windows'[x] = NoWindow /\ ticks - windows[x].start >= WindowTicks
      PROVE  Spent(x, granted'[x], windows'[x], ticks')
  <2>1. Spent(x, granted[x], windows[x], ticks)
    BY <1>0
  <2>2. CASE windows'[x] = windows[x]
    BY <1>2, <2>1, <2>2
  <2>3. CASE windows'[x] # windows[x]
    <3>1. /\ windows'[x] = NoWindow /\ ticks - windows[x].start >= WindowTicks
          /\ windows[x] # NoWindow
      BY <1>2, <2>3
    <3>2. Len(granted[x]) < Limit[x[2]]
      BY <3>1, RolledOver
    <3>3. NoWindow.count <= Limit[x[2]]
      BY LimitOf DEF NoWindow
    <3> QED
      BY <1>2, <2>1, <3>1, <3>2, <3>3
  <2> QED
    BY <2>2, <2>3
<1>3. ASSUME NEW k \in WindowKeys, Grant(k) PROVE GrantedInv'
  <2> DEFINE w == Current(windows[k])
             v == [w EXCEPT !.count = @ + 1]
             s == Append(granted[k], ticks)
  <2>1. w \in [count : Nat, start : Int]
    BY <1>0, CurrentWindow
  <2>2. /\ v \in [count : Nat, start : Int]
        /\ v.count = w.count + 1 /\ w.count \in Nat
    BY <2>1
  <2>3. /\ Keep(k, v) /\ ticks' = ticks /\ w.count < Limit[k[2]]
        /\ granted' = [x \in WindowKeys |->
                         IF x \in forgotten' THEN <<>> ELSE IF x = k THEN s ELSE granted[x]]
    BY <1>3 DEF Grant, Allowed
  <2>4. /\ used' \in Seq(WindowKeys) /\ IsInjective(used')
        /\ windows'[k] = v /\ forgotten \subseteq forgotten'
        /\ \A x \in (WindowKeys \ forgotten') \ {k} :
             \/ windows'[x] = windows[x]
             \/ windows'[x] = NoWindow /\ ticks - windows[x].start >= WindowTicks
    <3> HIDE DEF v
    <3> QED
      BY <1>0, <2>2, <2>3, KeptOrForgotten
  <2>5. s \in Seq(Nat)
    BY <1>0
  <2>6. granted' \in [WindowKeys -> Seq(Nat)]
    <3>1. <<>> \in Seq(Nat)
      OBVIOUS
    <3> HIDE DEF s
    <3> QED
      BY <1>0, <2>3, <2>5, <3>1
  <2>7. ASSUME k \notin forgotten' PROVE Spent(k, s, v, ticks)
    <3>1. k \in WindowKeys \ forgotten /\ Limit[k[2]] \in Nat
      BY <2>4, <2>7, LimitOf
    <3>2. \/ w = [count |-> 0, start |-> ticks] /\ Len(granted[k]) < Limit[k[2]]
          \/ SpentIn(granted[k], w, Limit[k[2]])
      BY <3>1, RolledOver
    <3>3. SpentIn(s, v, Limit[k[2]])
      <4>1. CASE SpentIn(granted[k], w, Limit[k[2]])
        BY <1>0, <2>1, <3>1, <4>1, SpentOnceMore
      <4>2. CASE w = [count |-> 0, start |-> ticks] /\ Len(granted[k]) < Limit[k[2]]
        <5>1. \A i \in DOMAIN granted[k] : granted[k][i] <= ticks
          BY <1>0, <3>1
        <5>2. SpentIn(s, [count |-> 1, start |-> ticks], Limit[k[2]])
          BY <1>0, <3>1, <4>2, <5>1, SpentFirst
        <5>3. v = [count |-> 1, start |-> ticks]
          BY <4>2
        <5> QED
          BY <5>2, <5>3
      <4> QED
        BY <3>2, <4>1, <4>2
    <3>4. v # NoWindow /\ v.count <= Limit[k[2]]
      BY <2>2, <2>3, <3>1 DEF NoWindow
    <3>5. \A i \in DOMAIN s : s[i] <= ticks /\ ticks - s[i] < WindowTicks
      <4>1. \A i \in DOMAIN granted[k] :
              granted[k][i] <= ticks /\ ticks - granted[k][i] < WindowTicks
        BY <1>0, <3>1
      <4>2. /\ granted[k] \in Seq(Nat) /\ Len(s) = Len(granted[k]) + 1
            /\ \A i \in 1..Len(granted[k]) : s[i] = granted[k][i]
            /\ s[Len(granted[k]) + 1] = ticks
            /\ DOMAIN s = 1..Len(s) /\ DOMAIN granted[k] = 1..Len(granted[k])
            /\ Len(granted[k]) \in Nat
        BY <1>0
      <4> HIDE DEF s
      <4>3. ASSUME NEW i \in DOMAIN s PROVE s[i] <= ticks /\ ticks - s[i] < WindowTicks
        <5>1. CASE i \in 1..Len(granted[k])
          BY <4>1, <4>2, <5>1
        <5>2. CASE i = Len(granted[k]) + 1
          BY <1>0, <4>2, <5>2
        <5> QED
          BY <4>2, <5>1, <5>2
      <4> QED
        BY <4>3
    <3> HIDE DEF s, v
    <3> QED
      BY <3>3, <3>4, <3>5
  <2>8. ASSUME NEW x \in WindowKeys \ forgotten'
        PROVE  Spent(x, granted'[x], windows'[x], ticks')
    <3> HIDE DEF v, s, Spent
    <3>1. CASE x = k
      <4>1. granted'[k] = s /\ windows'[k] = v
        BY <2>3, <2>4, <2>8, <3>1
      <4> QED
        BY <2>3, <2>7, <2>8, <3>1, <4>1
    <3>2. CASE x # k
      <4>1. x \in WindowKeys \ forgotten /\ granted'[x] = granted[x]
        BY <2>3, <2>4, <2>8, <3>2
      <4> QED
        BY <1>2, <2>3, <2>4, <2>8, <3>2, <4>1
    <3> QED
      BY <3>1, <3>2
  <2> HIDE DEF Spent
  <2> QED
    BY <1>1, <2>4, <2>6, <2>8
<1>4. ASSUME NEW k \in WindowKeys, Refuse(k) PROVE GrantedInv'
  <2> DEFINE w == Current(windows[k])
  <2>1. w \in [count : Nat, start : Int]
    BY <1>0, CurrentWindow
  <2>2. w = windows[k]
    <3>1. ~ (w.count < Limit[k[2]]) /\ Limit[k[2]] \in Nat \ {0} /\ w.count \in Nat
      BY <1>4, <2>1, LimitOf DEF Refuse, Allowed
    <3>2. w = windows[k] \/ w.count = 0
      BY <1>0, CurrentWindow
    <3> QED
      BY <3>1, <3>2
  <2>3. Keep(k, w) /\ ticks' = ticks /\ granted' = granted
    BY <1>4 DEF Refuse
  <2> HIDE DEF w
  <2>4. /\ used' \in Seq(WindowKeys) /\ IsInjective(used')
        /\ windows'[k] = w /\ forgotten \subseteq forgotten'
        /\ \A x \in (WindowKeys \ forgotten') \ {k} :
             \/ windows'[x] = windows[x]
             \/ windows'[x] = NoWindow /\ ticks - windows[x].start >= WindowTicks
    BY <1>0, <2>1, <2>3, KeptOrForgotten
  <2>5. ASSUME NEW x \in WindowKeys \ forgotten'
        PROVE  Spent(x, granted'[x], windows'[x], ticks')
    <3> HIDE DEF Spent
    <3> QED
      BY <1>2, <2>2, <2>3, <2>4, <2>5
  <2> HIDE DEF Spent
  <2> QED
    BY <1>0, <1>1, <2>3, <2>4, <2>5
<1>5. CASE LimiterTick
  <2>1. /\ ticks' = ticks + 1 /\ windows' = windows /\ used' = used
        /\ forgotten' = forgotten
        /\ granted' = [k \in WindowKeys |->
             AtPlaces(granted[k],
               {i \in DOMAIN granted[k] : ticks' - granted[k][i] < WindowTicks})]
    BY <1>5 DEF LimiterTick, Where
  <2>2. granted' \in [WindowKeys -> Seq(Nat)]
    BY <1>0, <2>1, AtPlacesSelects
  <2>3. ASSUME NEW k \in WindowKeys \ forgotten'
        PROVE  Spent(k, granted'[k], windows'[k], ticks')
    <3> DEFINE s == granted[k]
               I == {i \in DOMAIN s : ticks' - s[i] < WindowTicks}
               r == AtPlaces(s, I)
               l == Limit[k[2]]
    <3>1. s \in Seq(Nat) /\ l \in Nat /\ Spent(k, s, windows[k], ticks)
      BY <1>0, <2>1, <2>3, LimitOf
    <3>2. granted'[k] = r
      BY <2>1
    <3>3. r \in Seq(Nat) /\ Len(r) <= Len(s) /\ ToSet(r) = {s[i] : i \in I \cap (1..Len(s))}
      BY <3>1, AtPlacesSelects, FilteredElements
    <3>4. SpentIn(s, windows[k], l) => SpentIn(r, windows[k], l)
      BY <1>0, <3>1, SpentLess
    <3> HIDE DEF r
    <3>5. \A i \in DOMAIN r : r[i] <= ticks' /\ ticks' - r[i] < WindowTicks
      <4> SUFFICES ASSUME NEW i \in DOMAIN r
                   PROVE  r[i] <= ticks' /\ ticks' - r[i] < WindowTicks
        OBVIOUS
      <4>1. r[i] \in ToSet(r)
        BY DEF ToSet
      <4>2. PICK j \in I : r[i] = s[j]
        BY <3>3, <4>1
      <4>3. s[j] <= ticks /\ s[j] \in Nat /\ ticks' - s[j] < WindowTicks
        BY <3>1, <4>2
      <4> QED
        BY <1>0, <2>1, <4>2, <4>3
    <3> HIDE DEF s, I
    <3>6. Len(s) < l => Len(r) < l
      BY <3>1, <3>3
    <3> QED
      BY <2>1, <3>1, <3>2, <3>4, <3>5, <3>6
  <2> HIDE DEF Spent
  <2> QED
    BY <1>0, <1>1, <2>1, <2>2, <2>3
<1>6. CASE UNCHANGED limiterVars
  BY <1>0, <1>1, <1>6 DEF limiterVars
<1>7. ASSUME NEW c \in Clients, NEW r \in Asked, NEW large \in BOOLEAN,
             Request(c, r, large)
      PROVE  GrantedInv'
  <2>1. Bucket(r) \subseteq Buckets
    BY LimiterAssumption DEF Bucket, Buckets, Routes
  <2>2. PICK b \in Bucket(r) : Grant(<<c, b>>) \/ Refuse(<<c, b>>)
    BY <1>7 DEF Request
  <2>3. <<c, b>> \in WindowKeys
    BY <2>1, <2>2 DEF WindowKeys
  <2> QED
    BY <1>3, <1>4, <2>2, <2>3
<1> QED
  BY <1>5, <1>6, <1>7 DEF LimiterNext

(* A fixed window lets a client spend one limit less one at the end of a     *)
(* window and another at the start of the next, and never more within the   *)
(* length of a window, unless the limiter had to forget it (check,           *)
(* security.py:115).                                                         *)
THEOREM AlwaysUnderTwoLimits == LimiterSpec => []UnderTwoLimits
<1>1. LimiterInit => GrantedInv
  <2> SUFFICES ASSUME LimiterInit PROVE GrantedInv
    OBVIOUS
  <2>1. /\ used = <<>> /\ granted = [k \in WindowKeys |-> <<>>]
        /\ windows = [k \in WindowKeys |-> NoWindow]
    BY DEF LimiterInit
  <2>2. \A X : <<>> \in Seq(X)
    OBVIOUS
  <2>3. IsInjective(<<>>) /\ Len(<<>>) = 0 /\ DOMAIN <<>> = {} /\ NoWindow.count = 0
    BY DEF IsInjective, NoWindow
  <2>4. granted \in [WindowKeys -> Seq(Nat)]
    BY <2>1, <2>2
  <2>5. ASSUME NEW k \in WindowKeys
        PROVE  /\ granted[k] = <<>> /\ windows[k] = NoWindow
               /\ Limit[k[2]] \in Nat \ {0}
    BY <2>1, <2>5, LimitOf
  <2> HIDE DEF LimiterInit
  <2> QED
    BY <2>1, <2>2, <2>3, <2>4, <2>5 DEF GrantedInv
<1>2. LimiterInv /\ GrantedInv => UnderTwoLimits
  <2> SUFFICES ASSUME LimiterInv, GrantedInv, NEW k \in WindowKeys \ forgotten
               PROVE  Len(granted[k]) < 2 * Limit[k[2]]
    BY DEF UnderTwoLimits
  <2>1. /\ Limit[k[2]] \in Nat /\ granted[k] \in Seq(Nat) /\ windows[k].count \in Nat
        /\ windows[k].count <= Limit[k[2]]
        /\ IF windows[k] = NoWindow
           THEN Len(granted[k]) < Limit[k[2]]
           ELSE SpentIn(granted[k], windows[k], Limit[k[2]])
    BY LimitOf DEF LimiterInv, GrantedInv
  <2>2. CASE windows[k] = NoWindow
    BY <2>1, <2>2
  <2>3. CASE windows[k] # NoWindow
    <3>1. PICK c \in 0..Len(granted[k]) :
            c <= Limit[k[2]] /\ Len(granted[k]) - c < windows[k].count
      BY <2>1, <2>3 DEF SpentIn
    <3> QED
      BY <2>1, <3>1
  <2> QED
    BY <2>2, <2>3
<1>3. LimiterInit => LimiterInv
  BY DEF LimiterInit, LimiterInv, ToldInv, Waiting, NoWindow, NotRefused
<1>4. LimiterInv /\ [LimiterNext]_limiterVars => LimiterInv'
  BY LimiterStep
<1>5. LimiterInv /\ GrantedInv /\ [LimiterNext]_limiterVars => GrantedInv'
  BY GrantedStep
<1> QED
  BY <1>1, <1>2, <1>3, <1>4, <1>5, PTL DEF LimiterSpec

(***************************************************************************)
(* The indicator windows                                                   *)
(***************************************************************************)

(* A row is of an open day, within the bounds. *)
LEMMA RowBounds ==
  \A a, b \in Int : \A e \in Rows(a, b) :
    e \in OpenDays /\ e \in Nat /\ e <= MaxDay /\ a <= e /\ e <= b
BY CalendarAssumption DEF Rows, Day

(* Of fewer days there are no more. *)
LEMMA FewerDays ==
  ASSUME NEW B \in SUBSET OpenDays, NEW A \in SUBSET B
  PROVE  /\ Cardinality(A) \in Nat /\ Cardinality(B) \in Nat
         /\ Cardinality(A) <= Cardinality(B)
<1>1. IsFiniteSet(Day)
  BY CalendarAssumption, FS_Interval DEF Day
<1>2. IsFiniteSet(B)
  BY <1>1, CalendarAssumption, FS_Subset
<1> QED
  BY <1>2, FS_Subset, FS_CardinalityType

(* From an earlier day on there are no fewer rows. *)
LEMMA RowsGrow ==
  ASSUME NEW a \in Int, NEW b \in Int, NEW c \in Int, NEW d \in Int,
         a <= b, c <= d
  PROVE  /\ Cardinality(Rows(b, c)) \in Nat /\ Cardinality(Rows(a, d)) \in Nat
         /\ Cardinality(Rows(b, c)) <= Cardinality(Rows(a, d))
<1>1. Rows(a, d) \in SUBSET OpenDays
  BY DEF Rows
<1>2. Rows(b, c) \in SUBSET Rows(a, d)
  <2> SUFFICES ASSUME NEW e \in Rows(b, c) PROVE e \in Rows(a, d)
    OBVIOUS
  <2>1. e \in OpenDays /\ e \in Nat /\ b <= e /\ e <= c
    BY RowBounds
  <2> QED
    BY <2>1 DEF Rows
<1> QED
  BY <1>1, <1>2, FewerDays

\* The days whose rows up to d are all in the table with their prices: the last
\* ones, without a gap.
Unbroken(rows, blank, d) == {e \in OpenDays : e <= d /\ Rows(e, d) \subseteq rows \ blank}

(* A frame that holds the table's rows from day lo on has the average of    *)
(* every day whose window is complete, if from lo to that day there are     *)
(* enough rows or all there are.                                            *)
LEMMA CompleteIsAveraged ==
  ASSUME NEW rows \in SUBSET OpenDays, NEW blank \in SUBSET rows,
         NEW lo \in Int, NEW d \in OpenDays, NEW frame,
         frame = {e \in rows : lo <= e},
         lo <= 0 \/ Cardinality(Rows(lo, d)) >= Window,
         Cardinality(Unbroken(rows, blank, d)) >= Window
  PROVE  Averaged(frame, blank, d)
<1> DEFINE S == Unbroken(rows, blank, d)
           F == {e \in frame : e <= d /\ \A p \in blank : ~(e <= p /\ p <= d)}
<1>1. d \in Nat /\ OpenDays \subseteq Nat /\ Window \in Nat
  BY CalendarAssumption, WindowAssumption DEF Day
<1>2. S \in SUBSET OpenDays /\ F \in SUBSET OpenDays
  BY DEF Unbroken
<1>3. ASSUME NEW e \in S, lo <= e PROVE e \in F
  <2>1. e \in OpenDays /\ e <= d /\ Rows(e, d) \subseteq rows \ blank
    BY DEF Unbroken
  <2>2. e \in Rows(e, d)
    BY <1>1, <2>1 DEF Rows
  <2>3. ASSUME NEW p \in blank, e <= p, p <= d PROVE FALSE
    <3>1. p \in Rows(e, d)
      BY <2>3 DEF Rows
    <3> QED
      BY <2>1, <2>3, <3>1
  <2> QED
    BY <1>3, <2>1, <2>2, <2>3
<1>4. CASE \A e \in S : lo <= e
  <2>1. S \in SUBSET F
    BY <1>3, <1>4
  <2>2. /\ Cardinality(S) \in Nat /\ Cardinality(F) \in Nat
        /\ Cardinality(S) <= Cardinality(F)
    BY <1>2, <2>1, FewerDays
  <2>3. Cardinality(S) >= Window
    OBVIOUS
  <2> HIDE DEF S
  <2>4. Cardinality(F) >= Window
    BY <1>1, <2>2, <2>3
  <2> QED
    BY <2>4 DEF Averaged
<1>5. CASE \E e \in S : ~(lo <= e)
  <2>1. PICK first \in S : ~(lo <= first)
    BY <1>5
  <2>2. first \in OpenDays /\ first \in Nat /\ Rows(first, d) \subseteq rows \ blank
    BY <1>1 DEF Unbroken
  <2>3. Cardinality(Rows(lo, d)) >= Window
    BY <2>1, <2>2
  <2>4. ASSUME NEW e \in Rows(lo, d) PROVE e \in F
    <3>1. e \in OpenDays /\ e \in Nat /\ lo <= e /\ e <= d
      BY <1>1, <2>4, RowBounds
    <3>2. ASSUME NEW x \in Rows(e, d) PROVE x \in Rows(first, d)
      BY <1>1, <2>1, <2>2, <3>1 DEF Rows
    <3>3. e \in S
      BY <2>2, <3>1, <3>2 DEF Unbroken
    <3> QED
      BY <1>3, <3>1, <3>3
  <2>5. Rows(lo, d) \in SUBSET F
    BY <2>4
  <2>6. /\ Cardinality(Rows(lo, d)) \in Nat /\ Cardinality(F) \in Nat
        /\ Cardinality(Rows(lo, d)) <= Cardinality(F)
    BY <1>2, <2>5, FewerDays
  <2> HIDE DEF F
  <2>7. Cardinality(F) >= Window
    BY <1>1, <2>3, <2>6
  <2> QED
    BY <2>7 DEF Averaged, F
<1> QED
  BY <1>4, <1>5

(* What replacing the rows from a day on does: it loses no row, and gives   *)
(* the average to every row it rewrites whose window is complete, if its    *)
(* frame reaches back far enough for that row.                              *)
LEMMA Replaced ==
  ASSUME IndicatorTypeOK, NEW first \in Int, NEW lo \in Int, lo <= first,
         Replace(first, lo)
  PROVE  /\ today' = today
         /\ stored' \subseteq OpenDays /\ pads' \subseteq stored' /\ full' \subseteq stored'
         /\ stored \subseteq stored'
         /\ \A d \in stored' : d < first => /\ d \in stored
                                            /\ d \in full => d \in full'
         /\ \A d \in stored' :
              /\ first <= d /\ Supported(d)'
              /\ lo <= 0 \/ Cardinality(Rows(lo, d)) >= Window
              => d \in full'
         /\ \/ \E newest \in Newest(today - 1) \cup Newest(today) :
                 newest \in LastOf(stored') /\ first <= newest
            \/ stored' = stored /\ pads' = pads /\ full' = full
<1>0. /\ stored \subseteq OpenDays /\ pads \subseteq stored /\ full \subseteq stored
      /\ OpenDays \subseteq Nat /\ today \in Nat
  BY CalendarAssumption DEF IndicatorTypeOK, Day
<1>1. PICK newest \in Newest(today - 1) \cup Newest(today), missing \in SUBSET Patchy :
        LET download == Rows(first, newest)
            kept     == {e \in stored : e < first}
            frame    == {e \in kept : lo <= e} \cup download
            blank    == (pads \cap kept) \cup (download \cap missing)
        IN /\ \A e \in stored : e <= newest
           /\ stored' = kept \cup download
           /\ pads' = blank
           /\ full' = (full \cap kept) \cup {d \in download : Averaged(frame, blank, d)}
           /\ UNCHANGED today
  BY DEF Replace
<1> DEFINE download == Rows(first, newest)
           kept == {e \in stored : e < first}
           frame == {e \in kept : lo <= e} \cup download
<1>2. /\ \A e \in stored : e <= newest
      /\ stored' = kept \cup download
      /\ pads' = (pads \cap kept) \cup (download \cap missing)
      /\ full' = (full \cap kept) \cup {d \in download : Averaged(frame, pads', d)}
      /\ today' = today
  BY <1>1
<1>3. newest \in OpenDays /\ newest \in Nat
  BY <1>0 DEF Newest, LastOf, Rows
<1>4. \A e \in download : e \in OpenDays /\ e \in Nat /\ first <= e /\ e <= newest
  BY <1>3, RowBounds
<1>5. \A e \in stored : e \in Nat /\ (~(e < first) => e \in download)
  BY <1>0, <1>2 DEF Rows
<1>6. stored \subseteq stored'
  BY <1>2, <1>5
<1>7. frame = {e \in stored' : lo <= e}
  BY <1>2, <1>4
<1>8. stored' \in SUBSET OpenDays /\ pads' \in SUBSET stored' /\ full' \subseteq stored'
  BY <1>0, <1>2, <1>4
<1>9. ASSUME NEW d \in stored', first <= d, Supported(d)',
             lo <= 0 \/ Cardinality(Rows(lo, d)) >= Window
      PROVE  d \in full'
  <2>1. d \in download /\ d \in OpenDays
    BY <1>0, <1>2, <1>4, <1>9
  <2>2. Cardinality(Unbroken(stored', pads', d)) >= Window
    BY <1>9 DEF Supported, Unbroken
  <2> HIDE DEF frame
  <2>3. Averaged(frame, pads', d)
    BY <1>7, <1>8, <1>9, <2>1, <2>2, CompleteIsAveraged
  <2> QED
    BY <1>2, <2>1, <2>3
<1>10. \A d \in stored' : d < first => d \in stored /\ (d \in full => d \in full')
  BY <1>2, <1>4
<1>11. CASE first <= newest
  <2>1. newest \in stored' /\ \A e \in stored' : e <= newest
    BY <1>2, <1>3, <1>4, <1>11 DEF Rows
  <2>2. newest \in LastOf(stored')
    BY <2>1 DEF LastOf
  <2> QED
    BY <1>2, <1>6, <1>8, <1>9, <1>10, <1>11, <2>2
<1>12. CASE ~(first <= newest)
  <2>1. download = {}
    BY <1>3, <1>4, <1>12
  <2>2. kept = stored
    BY <1>5, <2>1
  <2>3. stored' = stored /\ pads' = pads /\ full' = full
    BY <1>0, <1>2, <2>1, <2>2
  <2> QED
    BY <1>2, <1>6, <1>8, <1>9, <1>10, <2>3
<1> QED
  BY <1>11, <1>12

(* What an incremental sync replaces, and from where its frame sees.        *)
LEMMA IncrementalReplaces ==
  ASSUME IndicatorTypeOK, IncrementalSync
  PROVE  \E start \in Int : Replace(start, start - WarmupDays)
<1>1. PICK last \in Latest, behind \in Behind :
        Replace(last - behind - BufferDays, last - behind - BufferDays - WarmupDays)
  BY DEF IncrementalSync
<1>2. last \in Int
  BY CalendarAssumption, WindowAssumption DEF Latest, LastOf, IndicatorTypeOK, Day
<1>3. last - behind - BufferDays \in Int
  BY <1>2, WindowAssumption
<1> QED
  BY <1>1, <1>3

(* From the warmup days before the start of a sync to any row that it       *)
(* rewrites there are enough rows, or all there are.                        *)
LEMMA WarmupReaches ==
  ASSUME WarmupCovers, NEW start \in Int, NEW d \in OpenDays, start <= d
  PROVE  \/ start - WarmupDays <= 0
         \/ Cardinality(Rows(start - WarmupDays, d)) >= Window
<1> USE CalendarAssumption, WindowAssumption DEF Day
<1> SUFFICES ASSUME ~(start - WarmupDays <= 0)
             PROVE  Cardinality(Rows(start - WarmupDays, d)) >= Window
  OBVIOUS
<1>1. start \in WarmupDays..MaxDay
  OBVIOUS
<1>2. Cardinality(Rows(start - WarmupDays, start - 1)) >= Window
  BY <1>1 DEF WarmupCovers, Cover
<1>3. /\ Cardinality(Rows(start - WarmupDays, start - 1)) \in Nat
      /\ Cardinality(Rows(start - WarmupDays, d)) \in Nat
      /\ Cardinality(Rows(start - WarmupDays, start - 1))
           <= Cardinality(Rows(start - WarmupDays, d))
  <2> DEFINE lo == start - WarmupDays
             b  == start - 1
  <2>1. lo \in Int /\ b \in Int /\ d \in Int /\ lo <= lo /\ b <= d
    BY <1>1
  <2> HIDE DEF lo, b
  <2>2. /\ Cardinality(Rows(lo, b)) \in Nat /\ Cardinality(Rows(lo, d)) \in Nat
        /\ Cardinality(Rows(lo, b)) <= Cardinality(Rows(lo, d))
    BY <2>1, RowsGrow
  <2> QED
    BY <2>2 DEF lo, b
<1> QED
  BY <1>2, <1>3

(* The types. *)
LEMMA WindowInvariant == IndicatorSpec => []IndicatorTypeOK
<1>1. IndicatorInit => IndicatorTypeOK
  BY CalendarAssumption DEF IndicatorInit, IndicatorTypeOK
<1>2. ASSUME IndicatorTypeOK, [IndicatorNext]_indicatorVars PROVE IndicatorTypeOK'
  <2>1. CASE FullSync
    <3>1. today - FullDays \in Int
      BY <1>2, CalendarAssumption, WindowAssumption DEF IndicatorTypeOK, Day
    <3>2. Replace(today - FullDays, today - FullDays)
      BY <2>1 DEF FullSync
    <3> QED
      BY <1>2, <3>1, <3>2, Replaced DEF IndicatorTypeOK
  <2>2. CASE IncrementalSync
    <3>1. PICK start \in Int : Replace(start, start - WarmupDays)
      BY <1>2, <2>2, IncrementalReplaces
    <3>2. start - WarmupDays \in Int /\ start - WarmupDays <= start
      BY WindowAssumption
    <3> QED
      BY <1>2, <3>1, <3>2, Replaced DEF IndicatorTypeOK
  <2>3. CASE DayPasses
    BY <1>2, <2>3, CalendarAssumption DEF DayPasses, IndicatorTypeOK, Day
  <2>4. CASE UNCHANGED indicatorVars
    BY <1>2, <2>4 DEF indicatorVars, IndicatorTypeOK
  <2> QED
    BY <1>2, <2>1, <2>2, <2>3, <2>4 DEF IndicatorNext
<1> QED
  BY <1>1, <1>2, PTL DEF IndicatorSpec

\* What NoRowLosesItsWindow says of a step.
KeepsWindows ==
  \A d \in full : Supported(d)' => d \in full' \/ (FullSync /\ BeginsReach(d))

(* No sync turns the average of a row whose window stays complete into NaN, *)
(* whatever the calendar is, which prices a download lacks and how far the  *)
(* other tickers are behind, if the warmup days cover the window; but a     *)
(* full download does at the beginning of its reach.                        *)
THEOREM WindowsAreKept ==
  ASSUME WarmupCovers
  PROVE  IndicatorSpec => NoRowLosesItsWindow
<1>1. ASSUME IndicatorTypeOK, [IndicatorNext]_indicatorVars
      PROVE  [KeepsWindows]_indicatorVars
  <2>0. OpenDays \subseteq Nat /\ stored \subseteq OpenDays /\ full \subseteq stored
        /\ today \in Nat
    BY <1>1, CalendarAssumption DEF IndicatorTypeOK, Day
  <2> SUFFICES ASSUME IndicatorNext, NEW d \in full, Supported(d)'
               PROVE  d \in full' \/ (FullSync /\ BeginsReach(d))
    BY <1>1 DEF KeepsWindows, indicatorVars
  <2>1. CASE FullSync
    <3> DEFINE reach == today - FullDays
    <3>1. reach \in Int /\ Replace(reach, reach)
      BY <2>0, <2>1, WindowAssumption DEF FullSync
    <3>2. d \in stored' /\ d \in Nat
      BY <1>1, <2>0, <3>1, Replaced
    <3>3. CASE d < reach
      BY <1>1, <3>1, <3>2, <3>3, Replaced
    <3>4. CASE reach <= d /\ Cardinality(Rows(reach, d)) >= Window
      BY <1>1, <3>1, <3>2, <3>4, Replaced
    <3>5. CASE reach <= d /\ ~(Cardinality(Rows(reach, d)) >= Window)
      <4>1. Cardinality(Rows(reach, d)) \in Nat /\ Window \in Nat
        BY <3>1, <3>2, RowsGrow, WindowAssumption
      <4>2. BeginsReach(d)
        BY <3>5, <4>1 DEF BeginsReach
      <4> QED
        BY <2>1, <4>2
    <3> QED
      BY <3>1, <3>2, <3>3, <3>4, <3>5
  <2>2. CASE IncrementalSync
    <3>1. PICK start \in Int : Replace(start, start - WarmupDays)
      BY <1>1, <2>2, IncrementalReplaces
    <3>2. start - WarmupDays \in Int /\ start - WarmupDays <= start
      BY WindowAssumption
    <3>3. d \in stored' /\ d \in Nat /\ d \in OpenDays
      BY <1>1, <2>0, <3>1, <3>2, Replaced
    <3>4. CASE d < start
      BY <1>1, <3>1, <3>2, <3>3, <3>4, Replaced
    <3>5. CASE start <= d
      BY <1>1, <3>1, <3>2, <3>3, <3>5, Replaced, WarmupReaches
    <3> QED
      BY <3>3, <3>4, <3>5
  <2>3. CASE DayPasses
    BY <2>3 DEF DayPasses
  <2> QED
    BY <2>1, <2>2, <2>3 DEF IndicatorNext
<1>2. IndicatorTypeOK /\ [IndicatorNext]_indicatorVars => [KeepsWindows]_indicatorVars
  BY <1>1
<1>3. IndicatorSpec => [][KeepsWindows]_indicatorVars
  BY <1>2, WindowInvariant, PTL DEF IndicatorSpec
<1> QED
  BY <1>3 DEF NoRowLosesItsWindow, KeepsWindows

(* From the reach of a full download to its newest row there are enough     *)
(* rows, or all there are.                                                  *)
LEMMA FullReaches ==
  ASSUME FullCovers, IndicatorTypeOK,
         NEW newest \in Newest(today - 1) \cup Newest(today)
  PROVE  \/ today - FullDays <= 0
         \/ Cardinality(Rows(today - FullDays, newest)) >= Window
<1> USE CalendarAssumption, WindowAssumption DEF Day
<1> SUFFICES ASSUME ~(today - FullDays <= 0)
             PROVE  Cardinality(Rows(today - FullDays, newest)) >= Window
  OBVIOUS
<1>1. today \in FullDays..MaxDay
  BY DEF IndicatorTypeOK
<1>2. Cardinality(Rows(today - FullDays, today - 1)) >= Window
  BY <1>1 DEF FullCovers, Cover
<1>3. newest \in OpenDays /\ newest \in Nat
  BY DEF Newest, LastOf, Rows
<1>4. ASSUME NEW e \in Rows(today - FullDays, today - 1)
      PROVE  e \in Rows(today - FullDays, newest)
  <2>1. e \in OpenDays /\ e \in Nat /\ e <= today - 1
    BY <1>1, RowBounds
  <2>2. e \in Rows(0, today - 1) /\ e \in Rows(0, today)
    BY <1>1, <2>1 DEF Rows
  <2>3. e <= newest
    BY <2>2 DEF Newest, LastOf
  <2> QED
    BY <2>3, <1>4 DEF Rows
<1>5. /\ Rows(today - FullDays, newest) \in SUBSET OpenDays
      /\ Rows(today - FullDays, today - 1) \in SUBSET Rows(today - FullDays, newest)
  BY <1>4 DEF Rows
<1>6. /\ Cardinality(Rows(today - FullDays, today - 1)) \in Nat
      /\ Cardinality(Rows(today - FullDays, newest)) \in Nat
      /\ Cardinality(Rows(today - FullDays, today - 1))
           <= Cardinality(Rows(today - FullDays, newest))
  BY <1>5, FewerDays
<1> QED
  BY <1>2, <1>6

(* The newest row, the one the screens and dashboards read, has its long    *)
(* average as soon as its window is complete, if both the warmup days and   *)
(* the days of a full download cover the window.                            *)
THEOREM NewestRowIsServed ==
  ASSUME WarmupCovers, FullCovers
  PROVE  IndicatorSpec => []NewestRowHasFullWindow
<1>1. IndicatorInit => NewestRowHasFullWindow
  BY DEF IndicatorInit, NewestRowHasFullWindow, LastOf
<1>2. ASSUME IndicatorTypeOK, NewestRowHasFullWindow,
             NEW first \in Int, NEW lo \in Int, lo <= first, Replace(first, lo),
             \A newest \in Newest(today - 1) \cup Newest(today) :
               first <= newest => lo <= 0 \/ Cardinality(Rows(lo, newest)) >= Window
      PROVE  NewestRowHasFullWindow'
  <2>1. CASE stored' = stored /\ pads' = pads /\ full' = full
    BY <1>2, <2>1 DEF NewestRowHasFullWindow, LastOf, Supported
  <2>2. CASE \E newest \in Newest(today - 1) \cup Newest(today) :
               newest \in LastOf(stored') /\ first <= newest
    <3>1. PICK newest \in Newest(today - 1) \cup Newest(today) :
                 newest \in LastOf(stored') /\ first <= newest
      BY <2>2
    <3>2. stored' \subseteq OpenDays /\ OpenDays \subseteq Nat
      BY <1>2, Replaced, CalendarAssumption DEF Day
    <3>3. \A d \in LastOf(stored') : d = newest
      BY <3>1, <3>2 DEF LastOf
    <3>4. newest \in stored' /\ (lo <= 0 \/ Cardinality(Rows(lo, newest)) >= Window)
      BY <1>2, <3>1 DEF LastOf
    <3>5. Supported(newest)' => newest \in full'
      BY <1>2, <3>1, <3>4, Replaced
    <3> QED
      BY <3>3, <3>5 DEF NewestRowHasFullWindow
  <2> QED
    BY <1>2, <2>1, <2>2, Replaced
<1>3. ASSUME IndicatorTypeOK, NewestRowHasFullWindow, [IndicatorNext]_indicatorVars
      PROVE  NewestRowHasFullWindow'
  <2>1. CASE FullSync
    <3>1. today - FullDays \in Int
      BY <1>3, CalendarAssumption, WindowAssumption DEF IndicatorTypeOK, Day
    <3>2. Replace(today - FullDays, today - FullDays)
      BY <2>1 DEF FullSync
    <3> QED
      BY <1>2, <1>3, <3>1, <3>2, FullReaches
  <2>2. CASE IncrementalSync
    <3>1. PICK start \in Int : Replace(start, start - WarmupDays)
      BY <1>3, <2>2, IncrementalReplaces
    <3>2. start - WarmupDays \in Int /\ start - WarmupDays <= start
      BY WindowAssumption
    <3>3. \A newest \in Newest(today - 1) \cup Newest(today) : newest \in OpenDays
      BY DEF Newest, LastOf, Rows
    <3> QED
      BY <1>2, <1>3, <3>1, <3>2, <3>3, WarmupReaches
  <2>3. CASE DayPasses \/ UNCHANGED indicatorVars
    BY <1>3, <2>3
       DEF DayPasses, indicatorVars, NewestRowHasFullWindow, LastOf, Supported
  <2> QED
    BY <1>3, <2>1, <2>2, <2>3 DEF IndicatorNext
<1> QED
  BY <1>1, <1>3, WindowInvariant, PTL DEF IndicatorSpec
=============================================================================
