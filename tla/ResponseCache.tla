---------------------------- MODULE ResponseCache ----------------------------
(***************************************************************************)
(* The in-process cache of hot read responses                              *)
(* (backend/services/response_cache.py), used by request threads that      *)
(* overlap: the clock is read before the lock is taken, the response is    *)
(* computed outside it, and a sync clears the cache in between.            *)
(*                                                                         *)
(* A cached response is the moment its data was read: that is all a        *)
(* property can tell about it.  The OrderedDict is a map and the order of  *)
(* its keys, the least recently used first.                                *)
(***************************************************************************)
EXTENDS Integers, Lists, FiniteSets, SequencesExt

CONSTANTS
  Keys,         \* cache keys
  Threads,      \* request threads
  MaxEntries,   \* _MAX_ENTRIES
  TTL,          \* ttl_seconds
  Patience,     \* bound: ticks a thread waits for the lock
  Effort,       \* bound: ticks from the data read to the store
  MaxTime       \* bound: the last tick of a behaviour

ASSUME CacheAssumption ==
  /\ MaxEntries \in Nat \ {0}     \* max(1, ...)
  /\ TTL \in Nat /\ Patience \in Nat /\ Effort \in Nat
  /\ MaxTime \in Nat

VARIABLES
  monotonic, \* the clock of monotonic()
  entries,  \* _CACHE: key to entry or NoEntry
  order,    \* _CACHE: its keys, least recently used first
  request,  \* each thread's call of get_or_compute
  recency,  \* history: keys by their last use, the latest last
  age       \* history: how old the data of the last cached answer was

cacheVars == <<monotonic, entries, order, request, recency, age>>

NoAnswer == -1

NoEntry == [expires |-> -1, readAt |-> -1]

Idle == [phase |-> "idle"]

\* The lookup waits for the lock with the time it read before; the store
\* waits for it with the response it has computed.
RequestType ==
  {Idle} \cup [phase : {"lookup"}, key : Keys, at : Nat]
         \cup [phase : {"compute"}, key : Keys]
         \cup [phase : {"store"}, key : Keys, at : Nat]

Cached == {k \in Keys : entries[k] # NoEntry}

\* move_to_end, for a key that may be new.
ToEnd(s, k) == Append(Minus(s, k), k)

\* _prune keeps, of the unexpired keys, the most recently used that leave
\* room for one more.
Kept(live) ==
  SubSeq(live, 1 + (IF Len(live) >= MaxEntries THEN Len(live) - MaxEntries + 1 ELSE 0),
         Len(live))

CacheInit ==
  /\ monotonic = 0
  /\ entries = [k \in Keys |-> NoEntry]
  /\ order = <<>>
  /\ request = [t \in Threads |-> Idle]
  /\ recency = <<>>
  /\ age = NoAnswer

Ask(t) ==
  /\ request[t] = Idle
  /\ \E k \in Keys :
       request' = [request EXCEPT ![t] = [phase |-> "lookup", key |-> k, at |-> monotonic]]
  /\ UNCHANGED <<monotonic, entries, order, recency, age>>

\* Mutation: a hit starts the entry's TTL over.
HitExtending(t) ==
  LET k == request[t].key
  IN /\ request[t].phase = "lookup"
     /\ entries[k].expires > request[t].at
     /\ entries' = [entries EXCEPT ![k].expires = request[t].at + TTL]
     /\ order' = ToEnd(order, k)
     /\ recency' = ToEnd(recency, k)
     /\ age' = monotonic - entries[k].readAt
     /\ request' = [request EXCEPT ![t] = Idle]
     /\ UNCHANGED monotonic

\* Mutation: a hit leaves the order alone.
HitInPlace(t) ==
  LET k == request[t].key
  IN /\ request[t].phase = "lookup"
     /\ entries[k].expires > request[t].at
     /\ recency' = ToEnd(recency, k)
     /\ age' = monotonic - entries[k].readAt
     /\ request' = [request EXCEPT ![t] = Idle]
     /\ UNCHANGED <<monotonic, entries, order>>

Hit(t) ==
  LET k == request[t].key
  IN /\ request[t].phase = "lookup"
     /\ entries[k].expires > request[t].at
     /\ order' = ToEnd(order, k)
     /\ recency' = ToEnd(recency, k)
     /\ age' = monotonic - entries[k].readAt
     /\ request' = [request EXCEPT ![t] = Idle]
     /\ UNCHANGED <<monotonic, entries>>

\* No entry, or one that had expired when the clock was read; it is dropped.
Miss(t) ==
  LET k == request[t].key
  IN /\ request[t].phase = "lookup"
     /\ entries[k].expires <= request[t].at
     /\ entries' = [entries EXCEPT ![k] = NoEntry]
     /\ order' = Minus(order, k)
     /\ request' = [request EXCEPT ![t] = [phase |-> "compute", key |-> k]]
     /\ UNCHANGED <<monotonic, recency, age>>

\* compute() reads the database at some moment before it returns.
Compute(t) ==
  /\ request[t].phase = "compute"
  /\ request' = [request EXCEPT
                   ![t] = [phase |-> "store", key |-> request[t].key, at |-> monotonic]]
  /\ UNCHANGED <<monotonic, entries, order, recency, age>>

\* compute() raises: nothing is stored.
ComputeRaises(t) ==
  /\ request[t].phase = "compute"
  /\ request' = [request EXCEPT ![t] = Idle]
  /\ UNCHANGED <<monotonic, entries, order, recency, age>>

Store(t) ==
  LET k == request[t].key
      live == Where(order, LAMBDA x : entries[x].expires > monotonic)
      kept == Kept(live)
  IN /\ request[t].phase = "store"
     /\ entries' = [x \in Keys |->
          IF x = k THEN [expires |-> monotonic + TTL, readAt |-> request[t].at]
          ELSE IF x \in ToSet(kept) THEN entries[x] ELSE NoEntry]
     /\ order' = ToEnd(kept, k)
     /\ recency' = ToEnd(recency, k)
     /\ request' = [request EXCEPT ![t] = Idle]
     /\ UNCHANGED <<monotonic, age>>

\* clear_response_cache, after a manual sync or a rebuild.
Clear ==
  /\ entries' = [k \in Keys |-> NoEntry]
  /\ order' = <<>>
  /\ UNCHANGED <<monotonic, request, recency, age>>

\* Whether a thread may still be where it is at time t.
InTime(r, t) ==
  /\ r.phase = "lookup" => t <= r.at + Patience
  /\ r.phase = "store" => t <= r.at + Effort

CacheTick ==
  /\ monotonic < MaxTime
  /\ \A t \in Threads : InTime(request[t], monotonic + 1)
  /\ monotonic' = monotonic + 1
  /\ UNCHANGED <<entries, order, request, recency, age>>

CacheNext ==
  \/ \E t \in Threads :
       \/ Ask(t) \/ Hit(t) \/ Miss(t)
       \/ Compute(t) \/ ComputeRaises(t) \/ Store(t)
  \/ Clear
  \/ CacheTick

CacheSpec == CacheInit /\ [][CacheNext]_cacheVars

-----------------------------------------------------------------------------
(* Properties                                                              *)

CacheTypeOK ==
  /\ monotonic \in Nat
  /\ entries \in [Keys -> [expires : Int, readAt : Int]]
  /\ request \in [Threads -> RequestType]
  /\ order \in Seq(Keys) /\ IsInjective(order) /\ ToSet(order) = Cached
  /\ age \in Int

\* The cache holds no more than MaxEntries responses.
SizeBounded == Cardinality(Cached) <= MaxEntries

\* An answer from the cache shows data read less than a TTL ago, plus the
\* time the thread that filled it took to store it and the time this one
\* waited for the lock: neither a hit, nor a second store, nor a fill that
\* outlives a clear extends it.
AnswerIsFresh == age < TTL + Effort + Patience

\* However many threads miss and store at once, the cache keeps to its bound,
\* and a response within its TTL leaves it only when it is cleared, or when the
\* cache is full but for one entry with responses that were used later. The
\* one: a store makes room even for a key that another thread has stored
\* meanwhile.
OldestGoesFirst ==
  [][/\ SizeBounded'
     /\ \A k \in Cached :
          entries[k].expires > monotonic /\ k \notin Cached' /\ Cached' # {} =>
            LET usedLater == {x \in Cached : Before(recency, k, x)}
            IN Cardinality(usedLater) >= MaxEntries - 1]_cacheVars

-----------------------------------------------------------------------------
(* Why AnswerIsFresh holds                                                 *)

\* What the clock has done to the entries and to the threads under way.
AgeInv ==
  /\ \A k \in Keys : entries[k].expires <= entries[k].readAt + Effort + TTL
  /\ \A t \in Threads : InTime(request[t], monotonic)

\* The inductive invariant; the order of the keys plays no part in it.
FreshInv ==
  /\ monotonic \in Nat /\ age \in Int
  /\ entries \in [Keys -> [expires : Int, readAt : Int]]
  /\ request \in [Threads -> RequestType]
  /\ AgeInv
  /\ AnswerIsFresh

-----------------------------------------------------------------------------
(* Why OldestGoesFirst holds                                               *)

\* The order of the keys is that of their last uses, and it has a key for
\* each entry; no thread has read the clock in the future.
OrderInv ==
  /\ order \in Seq(Keys) /\ IsInjective(order) /\ ToSet(order) = Cached
  /\ recency \in Seq(Keys) /\ ToSet(order) \subseteq ToSet(recency)
  /\ \A x, y \in Keys : Before(order, x, y) => Before(recency, x, y)
  /\ \A t \in Threads : request[t].phase = "lookup" => request[t].at <= monotonic
  /\ SizeBounded
=============================================================================
