----------------------------- MODULE ViewsProofs -----------------------------
(***************************************************************************)
(* The cache of answers and the pages that show them, for every set of     *)
(* questions and routes: the cache implements ServedView, a sync is seen,  *)
(* a security's page keeps its bars, and demo data are announced.          *)
(***************************************************************************)
EXTENDS MarketViews, ListLemmas

\* An answer that question k may have been given by now.
Given(k, answer) ==
  /\ answer.about <= answer.at /\ answer.at <= world
  /\ k \in Direct => answer.about = answer.at

\* What has been read for a fetch was handed out after what is shown.
ReadInOrder ==
  \A k \in Keys :
    /\ data[k] # None => Given(k, data[k])
    /\ phase[k] = "read" =>
         /\ Given(k, reading[k])
         /\ data[k] # None => data[k].at <= reading[k].at

\* The keys that the last sync told of has invalidated so far.
Reached ==
  UNION {Renewed[i] : i \in IF sync = "done" THEN 1..told ELSE DOMAIN Renewed}

\* For these, both what is shown and what has been read is known not to be
\* from before the sync, or is marked.
RenewedInv ==
  /\ sync = "done" => told > 0
  /\ \A k \in Reached :
       /\ data[k] # None /\ data[k].at < renewed => stale[k] \/ k \in joined
       /\ phase[k] = "read" /\ reading[k].at < renewed => k \in joined

(* A page asks for keys of the cache. *)
LEMMA AsksKeys == ASSUME NEW p \in Pages PROVE Asks[p] \subseteq Keys
  BY QueryAssumption

(* A sync renews keys of the cache. *)
LEMMA RenewedKeys == ASSUME NEW i \in DOMAIN Renewed PROVE Renewed[i] \subseteq Keys
  BY QueryAssumption

-----------------------------------------------------------------------------
(* Types                                                                   *)

(* What is handed out is about the world at hand, or an earlier one. *)
LEMMA HandedOut ==
  ASSUME QueryTypeOK, NEW k \in Keys, Read(k)
  PROVE  \E answer \in Answers :
           /\ answer # None /\ answer.at = world /\ Given(k, answer)
           /\ reading' = [reading EXCEPT ![k] = answer]
<1>1. world \in Nat /\ oldest \in 0..world
  BY QueryAssumption DEF QueryTypeOK
<1>2. PICK v \in (IF k \in Direct THEN {world} ELSE oldest..world) :
        reading' = [reading EXCEPT ![k] = [about |-> v, at |-> world]]
  BY DEF Read
<1>3. v \in 0..world /\ (k \in Direct => v = world)
  BY <1>1, <1>2
<1> DEFINE answer == [about |-> v, at |-> world]
<1>4. answer \in Answers /\ answer # None
  BY <1>1, <1>3, QueryAssumption DEF Answers
<1>5. answer.at = world /\ Given(k, answer)
  BY <1>1, <1>3 DEF Given
<1>. QED BY <1>2, <1>4, <1>5

(* The types at the start. *)
LEMMA InitType == QueryInit => QueryTypeOK
  BY QueryAssumption DEF QueryInit, QueryTypeOK, Mounted

(* The types after a page is opened. *)
LEMMA NavigateType ==
  ASSUME QueryTypeOK, NEW p \in Pages, Navigate(p) PROVE QueryTypeOK'
  BY AsksKeys, QueryAssumption
  DEF QueryTypeOK, Navigate, Fetch, Rearmed, Mounted, syncing, Due

(* The types after a step of one query. *)
LEMMA KeyType ==
  ASSUME QueryTypeOK, NEW k \in Keys,
         \/ Age(k) \/ Evict(k) \/ Tick(k) \/ Render(k)
         \/ Read(k) \/ Answer(k) \/ Fail(k) \/ Retry(k)
  PROVE  QueryTypeOK'
<1>1. CASE Age(k)
  BY <1>1 DEF QueryTypeOK, Age, Mounted, syncing
<1>2. CASE Evict(k)
  BY <1>2 DEF QueryTypeOK, Evict, Mounted, syncing
<1>3. CASE Tick(k)
  BY <1>3, AsksKeys DEF QueryTypeOK, Tick, Fetch, Rearmed, Mounted, syncing
<1>4. CASE Render(k)
  BY <1>4, AsksKeys DEF QueryTypeOK, Render, Rearmed, Mounted, syncing
<1>5. CASE Read(k)
  <2>1. PICK answer \in Answers :
          answer # None /\ reading' = [reading EXCEPT ![k] = answer]
    BY <1>5, HandedOut
  <2>. QED BY <1>5, <2>1 DEF QueryTypeOK, Read, Mounted, syncing
<1>6. CASE Answer(k)
  BY <1>6, AsksKeys DEF QueryTypeOK, Answer, Rearmed, Mounted, syncing
<1>7. CASE Fail(k)
  <2>1. timer' \subseteq Mounted' \cap Polled
    BY <1>7, AsksKeys DEF QueryTypeOK, Fail, Rearmed, Mounted
  <2>2. lost' \in 0..MaxLost
    BY <1>7, QueryAssumption DEF QueryTypeOK, Fail
  <2>3. /\ phase' \in [Keys -> {"idle", "sent", "read", "waiting"}]
        /\ phase'[k] # "read" /\ \A x \in Keys \ {k} : phase'[x] = phase[x]
        /\ failed' \in [Keys -> BOOLEAN]
    BY <1>7 DEF QueryTypeOK, Fail
  <2>4. /\ reading' \in [Keys -> Answers \cup {None}]
        /\ \A x \in Keys : phase'[x] = "read" <=> reading'[x] # None
    BY <1>7, <2>3 DEF QueryTypeOK, Fail
  <2>. QED BY <1>7, <2>1, <2>2, <2>3, <2>4 DEF QueryTypeOK, Fail, syncing
<1>8. CASE Retry(k)
  BY <1>8 DEF QueryTypeOK, Retry, Mounted, syncing
<1>. QED BY <1>1, <1>2, <1>3, <1>4, <1>5, <1>6, <1>7, <1>8

\* An invalidation of some keys, with the rest of the step.
LEMMA InvalidateType ==
  ASSUME QueryTypeOK, NEW ks \in SUBSET Keys, Invalidate(ks),
         UNCHANGED <<page, visible, lost>>,
         world' \in 0..MaxWorld, oldest' \in 0..world', sync' \in {"idle", "posted", "done"},
         told' \in 0..Len(Renewed), renewed' \in 0..world'
  PROVE  QueryTypeOK'
<1>1. late' \subseteq Keys \X Answers
  BY QueryAssumption DEF QueryTypeOK, Invalidate, Cancelled
<1>2. timer' \subseteq Mounted' \cap Polled
  BY AsksKeys DEF QueryTypeOK, Invalidate, Rearmed, Mounted
<1>3. /\ phase' \in [Keys -> {"idle", "sent", "read", "waiting"}]
      /\ reading' \in [Keys -> Answers \cup {None}]
      /\ \A k \in Keys : phase'[k] = "read" <=> reading'[k] # None
  BY DEF QueryTypeOK, Invalidate
<1>4. /\ data' \in [Keys -> Answers \cup {None}]
      /\ stale' \in [Keys -> BOOLEAN] /\ failed' \in [Keys -> BOOLEAN]
      /\ retried' \in [Keys -> BOOLEAN]
      /\ awaited' \subseteq Keys /\ joined' \subseteq Keys
  BY DEF QueryTypeOK, Invalidate
<1>. QED BY <1>1, <1>2, <1>3, <1>4 DEF QueryTypeOK

(* The types after every step. *)
LEMMA NextType == QueryTypeOK /\ [QueryNext]_queryVars => QueryTypeOK'
<1>. SUFFICES ASSUME QueryTypeOK, [QueryNext]_queryVars PROVE QueryTypeOK'
  OBVIOUS
<1>1. CASE \E p \in Pages : Navigate(p)
  BY <1>1, NavigateType
<1>2. CASE \E k \in Keys : \/ Age(k) \/ Evict(k) \/ Tick(k) \/ Render(k)
                         \/ Read(k) \/ Answer(k) \/ Fail(k) \/ Retry(k)
  BY <1>2, KeyType
<1>3. CASE Hide
  BY <1>3 DEF Hide, QueryTypeOK, Mounted, asked, syncing
<1>4. CASE Show
  BY <1>4, AsksKeys DEF Show, QueryTypeOK, Fetch, Rearmed, Mounted, syncing
<1>5. CASE Publish \/ Expire
  BY <1>5, QueryAssumption DEF Publish, Expire, QueryTypeOK, Mounted, asked, syncing
<1>6. CASE LateAnswer
  BY <1>6 DEF LateAnswer, LateHeard, QueryTypeOK, Mounted, syncing
<1>7. CASE PostSync \/ SyncFails
  BY <1>7 DEF PostSync, SyncFails, QueryTypeOK, Mounted, asked
<1>8. CASE SyncDone
  <2>1. Renewed[1] \subseteq Keys
    BY QueryAssumption
  <2>2. /\ world' \in 0..MaxWorld /\ oldest' \in 0..world' /\ renewed' \in 0..world'
        /\ sync' = "done" /\ told' \in 0..Len(Renewed)
    BY <1>8, QueryAssumption DEF SyncDone, QueryTypeOK
  <2>. QED BY <1>8, <2>1, <2>2, InvalidateType DEF SyncDone
<1>9. CASE SyncGoesOn
  <2>1. CASE told < Len(Renewed)
    <3>1. Renewed[told + 1] \subseteq Keys
      BY <2>1, QueryAssumption DEF QueryTypeOK
    <3>2. /\ Invalidate(Renewed[told + 1]) /\ told' \in 0..Len(Renewed)
          /\ UNCHANGED <<world, oldest, page, visible, sync, renewed, lost>>
      BY <1>9, <2>1, QueryAssumption DEF SyncGoesOn, QueryTypeOK
    <3>. QED BY <3>1, <3>2, InvalidateType DEF QueryTypeOK
  <2>2. CASE ~(told < Len(Renewed))
    BY <1>9, <2>2, QueryAssumption DEF SyncGoesOn, QueryTypeOK, Mounted, asked
  <2>. QED BY <2>1, <2>2
<1>10. CASE UNCHANGED queryVars
  BY <1>10 DEF queryVars, asked, syncing, QueryTypeOK, Mounted
<1>. QED
  BY <1>1, <1>2, <1>3, <1>4, <1>5, <1>6, <1>7, <1>8, <1>9, <1>10 DEF QueryNext

\* In every reachable state the variables have their types, and an answer is
\* at hand exactly for the fetches the server has read.
THEOREM QueryTypeCorrect == QuerySpec => []QueryTypeOK
<1>. QED BY InitType, NextType, PTL DEF QuerySpec

-----------------------------------------------------------------------------
(* ServedView                                                              *)

\* What happens to what is shown, and to what has been read, in a step.
ReadStep ==
  /\ world <= world'
  /\ \A k \in Keys :
       /\ \/ data'[k] = data[k]
          \/ data'[k] = None /\ phase'[k] # "read"
          \/ phase[k] = "read" /\ data'[k] = reading[k] /\ phase'[k] # "read"
       /\ phase'[k] = "read" =>
            \/ phase[k] = "read" /\ reading'[k] = reading[k]
            \/ reading'[k].at = world /\ Given(k, reading'[k])

(* A step of one query answers it with what was read after its last        *)
(* answer, or not at all.                                                  *)
LEMMA KeyReadStep ==
  ASSUME QueryTypeOK, NEW k \in Keys,
         \/ Age(k) \/ Evict(k) \/ Tick(k) \/ Render(k)
         \/ Read(k) \/ Answer(k) \/ Fail(k) \/ Retry(k)
  PROVE  ReadStep
<1>1. CASE Age(k)
  BY <1>1 DEF QueryTypeOK, Age, ReadStep
<1>2. CASE Evict(k)
  BY <1>2 DEF QueryTypeOK, Evict, ReadStep
<1>3. CASE Tick(k)
  BY <1>3 DEF QueryTypeOK, Tick, Fetch, ReadStep
<1>4. CASE Render(k)
  BY <1>4 DEF QueryTypeOK, Render, ReadStep
<1>5. CASE Read(k)
  <2>1. PICK answer \in Answers :
          /\ answer.at = world /\ Given(k, answer)
          /\ reading' = [reading EXCEPT ![k] = answer]
    BY <1>5, HandedOut
  <2>. QED BY <1>5, <2>1, QueryAssumption DEF QueryTypeOK, Read, ReadStep
<1>6. CASE Answer(k)
  BY <1>6 DEF QueryTypeOK, Answer, ReadStep
<1>7. CASE Fail(k)
  BY <1>7 DEF QueryTypeOK, Fail, ReadStep
<1>8. CASE Retry(k)
  BY <1>8 DEF QueryTypeOK, Retry, ReadStep
<1>. QED BY <1>1, <1>2, <1>3, <1>4, <1>5, <1>6, <1>7, <1>8

(* So does every step. *)
LEMMA NextReadStep ==
  ASSUME QueryTypeOK, [QueryNext]_queryVars PROVE ReadStep
<1>1. CASE \E p \in Pages : Navigate(p)
  BY <1>1 DEF Navigate, Fetch, QueryTypeOK, ReadStep
<1>2. CASE \E k \in Keys : \/ Age(k) \/ Evict(k) \/ Tick(k) \/ Render(k)
                         \/ Read(k) \/ Answer(k) \/ Fail(k) \/ Retry(k)
  BY <1>2, KeyReadStep
<1>3. CASE Hide \/ Publish \/ Expire \/ PostSync \/ SyncFails
  BY <1>3, QueryAssumption DEF Hide, Publish, Expire, PostSync, SyncFails, asked, QueryTypeOK, ReadStep
<1>4. CASE Show
  BY <1>4 DEF Show, Fetch, QueryTypeOK, ReadStep
<1>5. CASE LateAnswer
  BY <1>5 DEF LateAnswer, LateHeard, QueryTypeOK, ReadStep
<1>6. CASE SyncDone
  BY <1>6 DEF SyncDone, Invalidate, QueryTypeOK, ReadStep
<1>7. CASE SyncGoesOn
  <2>1. CASE told < Len(Renewed)
    BY <1>7, <2>1 DEF SyncGoesOn, Invalidate, QueryTypeOK, ReadStep
  <2>2. CASE ~(told < Len(Renewed))
    BY <1>7, <2>2 DEF SyncGoesOn, asked, QueryTypeOK, ReadStep
  <2>. QED BY <2>1, <2>2
<1>8. CASE UNCHANGED queryVars
  BY <1>8 DEF queryVars, asked, QueryTypeOK, ReadStep
<1>. QED
  BY <1>1, <1>2, <1>3, <1>4, <1>5, <1>6, <1>7, <1>8 DEF QueryNext

(* Which keeps the answers in the order of their reads. *)
LEMMA ReadOrderKept ==
  ASSUME QueryTypeOK, QueryTypeOK', ReadInOrder, ReadStep PROVE ReadInOrder'
<1>. SUFFICES ASSUME NEW k \in Keys
     PROVE /\ data'[k] # None => Given(k, data[k])'
           /\ phase'[k] = "read" =>
                /\ Given(k, reading[k])'
                /\ data'[k] # None => data'[k].at <= reading'[k].at
  BY DEF ReadInOrder
<1>1. /\ world \in Nat /\ world' \in Nat /\ world <= world'
      /\ data[k] # None => data[k] \in Answers
      /\ data'[k] # None => data'[k] \in Answers
      /\ phase[k] = "read" => reading[k] \in Answers
      /\ phase'[k] = "read" => reading'[k] \in Answers
  BY QueryAssumption DEF QueryTypeOK, ReadStep
<1>2. ASSUME NEW answer \in Answers, Given(k, answer)
      PROVE  answer.at <= world' /\ answer.about <= answer.at
             /\ (k \in Direct => answer.about = answer.at)
  BY <1>1, <1>2 DEF Given, Answers
<1>3. /\ data[k] # None => Given(k, data[k])
      /\ phase[k] = "read" =>
           /\ Given(k, reading[k])
           /\ data[k] # None => data[k].at <= reading[k].at
  BY DEF ReadInOrder
<1>4. data'[k] # None => Given(k, data[k])'
  BY <1>1, <1>2, <1>3 DEF ReadStep, Given
<1>5. ASSUME phase'[k] = "read"
      PROVE  Given(k, reading[k])' /\ (data'[k] # None => data'[k].at <= reading'[k].at)
  <2>1. data'[k] = data[k] \/ data'[k] = None
    BY <1>5 DEF ReadStep
  <2>2. CASE phase[k] = "read" /\ reading'[k] = reading[k]
    BY <1>1, <1>2, <1>3, <2>1, <2>2 DEF Given
  <2>3. CASE reading'[k].at = world /\ Given(k, reading'[k])
    <3>1. Given(k, reading[k])'
      BY <1>1, <1>2, <1>5, <2>3 DEF Given
    <3>2. data[k] # None => data[k].at <= world
      BY <1>3 DEF Given
    <3>. QED BY <2>1, <2>3, <3>1, <3>2
  <2>. QED BY <1>5, <2>2, <2>3 DEF ReadStep
<1>. QED BY <1>4, <1>5

QueryInv == QueryTypeOK /\ ReadInOrder

(* The inductive invariant of the query cache (main.tsx, query.ts). *)
LEMMA QueryInvariant == QuerySpec => []QueryInv
<1>1. QueryInit => QueryInv
  BY InitType DEF QueryInv, QueryInit, ReadInOrder
<1>2. QueryInv /\ [QueryNext]_queryVars => QueryInv'
  BY NextType, NextReadStep, ReadOrderKept DEF QueryInv
<1>. QED BY <1>1, <1>2, PTL DEF QuerySpec

\* One step of the cache is one step of what is shown, or none.
LEMMA StepShown ==
  ASSUME QueryInv, QueryInv', [QueryNext]_queryVars
  PROVE  [Served!ViewNext]_<<world, data>>
<1>. USE DEF Served!ViewNext
<1>1. ASSUME NEW k \in Keys, Evict(k) PROVE Served!ViewNext
  BY <1>1 DEF Evict, Served!Forgets
<1>2. ASSUME NEW k \in Keys, Answer(k) PROVE Served!ViewNext
  <2>1. /\ reading[k] \in [about : 0..world, at : 0..world]
        /\ Given(k, reading[k])
        /\ data[k] # None => data[k].at <= reading[k].at
    <3>1. /\ reading[k] \in Answers /\ Given(k, reading[k]) /\ world \in Nat
          /\ data[k] # None => data[k].at <= reading[k].at
      BY <1>2, QueryAssumption DEF Answer, QueryInv, QueryTypeOK, ReadInOrder
    <3>2. reading[k].about \in 0..world /\ reading[k].at \in 0..world
      BY <3>1 DEF Answers, Given
    <3>. QED BY <3>1, <3>2 DEF Answers
  <2>2. data' = [data EXCEPT ![k] = reading[k]] /\ UNCHANGED world
    BY <1>2 DEF Answer
  <2>. QED BY <2>1, <2>2 DEF Served!Learns, Given
<1>3. CASE Publish
  BY <1>3 DEF Publish, asked, Served!Changes
<1>4. CASE SyncDone
  BY <1>4 DEF SyncDone, Invalidate, Served!Changes
<1>5. CASE \E k \in Keys : \/ Age(k) \/ Tick(k) \/ Render(k)
                         \/ Read(k) \/ Fail(k) \/ Retry(k)
  BY <1>5 DEF Age, Tick, Fetch, Render, Read, Fail, Retry
<1>6. CASE \E p \in Pages : Navigate(p)
  BY <1>6 DEF Navigate, Fetch
<1>7. CASE Hide \/ Show \/ Expire \/ LateAnswer \/ PostSync \/ SyncFails
  BY <1>7 DEF Hide, Show, Expire, Fetch, LateAnswer, LateHeard, PostSync, SyncFails, asked
<1>8. CASE SyncGoesOn
  <2>1. CASE told < Len(Renewed)
    BY <1>8, <2>1 DEF SyncGoesOn, Invalidate
  <2>2. CASE ~(told < Len(Renewed))
    BY <1>8, <2>2 DEF SyncGoesOn, asked
  <2>. QED BY <2>1, <2>2
<1>9. CASE UNCHANGED queryVars
  BY <1>9 DEF queryVars, asked
<1>. QED
  BY <1>1, <1>2, <1>3, <1>4, <1>5, <1>6, <1>7, <1>8, <1>9 DEF QueryNext

\* For every question, a page shows nothing or an answer handed out to it, and
\* never goes back to one handed out before: cancelled, late, lost and
\* repeated requests included. Where no other cache answers, it never goes back
\* to older data.
THEOREM ServedImplemented == QuerySpec => ServedSpec
<1>1. QueryInit => Served!ViewInit
  BY DEF QueryInit, Served!ViewInit
<1>2. QueryInv /\ QueryInv' /\ [QueryNext]_queryVars => [Served!ViewNext]_<<world, data>>
  BY StepShown
<1>. QED BY <1>1, <1>2, QueryInvariant, PTL DEF QuerySpec, ServedSpec, Served!ViewSpec

-----------------------------------------------------------------------------
(* The sync                                                                *)

\* What a step that is not an invalidation does to key k.
Careful(k) ==
  /\ \/ data'[k] = data[k] /\ (stale[k] => stale'[k]) /\ (k \in joined => k \in joined')
     \/ data'[k] = None
     \/ /\ phase[k] = "read" /\ data'[k] = reading[k]
        /\ k \in joined /\ reading[k].at < renewed => k \in joined'
  /\ phase'[k] = "read" =>
       \/ /\ phase[k] = "read" /\ reading'[k] = reading[k]
          /\ k \in joined => k \in joined'
       \/ reading'[k].at = world

(* A step that is careful with every query keeps what a finished sync has  *)
(* renewed.                                                                *)
LEMMA RenewedFrom ==
  ASSUME QueryTypeOK, RenewedInv,
         UNCHANGED <<sync, told, renewed>>, \A k \in Keys : Careful(k)
  PROVE  RenewedInv'
<1>1. Reached' = Reached
  BY DEF Reached
<1>2. Reached \subseteq Keys
  BY RenewedKeys DEF Reached, QueryTypeOK
<1>3. world \in Nat /\ renewed \in Nat /\ renewed <= world
  BY QueryAssumption DEF QueryTypeOK
<1>. QED BY <1>1, <1>2, <1>3 DEF RenewedInv, Careful

(* The steps of one query are careful. *)
LEMMA KeyCareful ==
  ASSUME QueryTypeOK, NEW k \in Keys,
         \/ Age(k) \/ Evict(k) \/ Tick(k) \/ Render(k)
         \/ Read(k) \/ Answer(k) \/ Fail(k) \/ Retry(k)
  PROVE  UNCHANGED <<sync, told, renewed>> /\ \A x \in Keys : Careful(x)
<1>1. CASE Age(k)
  BY <1>1 DEF QueryTypeOK, Age, Careful, syncing
<1>2. CASE Evict(k)
  BY <1>2 DEF QueryTypeOK, Evict, Careful, syncing
<1>3. CASE Tick(k)
  BY <1>3 DEF QueryTypeOK, Tick, Fetch, Careful, syncing
<1>4. CASE Render(k)
  BY <1>4 DEF QueryTypeOK, Render, Careful, syncing
<1>5. CASE Read(k)
  BY <1>5 DEF QueryTypeOK, Read, Careful, syncing
<1>6. CASE Answer(k)
  BY <1>6 DEF QueryTypeOK, Answer, Careful, syncing
<1>7. CASE Fail(k)
  BY <1>7 DEF QueryTypeOK, Fail, Careful, syncing
<1>8. CASE Retry(k)
  BY <1>8 DEF QueryTypeOK, Retry, Careful, syncing
<1>. QED BY <1>1, <1>2, <1>3, <1>4, <1>5, <1>6, <1>7, <1>8

\* An invalidation looks after its own keys and disturbs no other.
LEMMA InvalidateCareful ==
  ASSUME QueryTypeOK, NEW ks \in SUBSET Keys, Invalidate(ks), NEW k \in Keys
  PROVE  /\ k \in ks =>
              /\ data'[k] # None => stale'[k]
              /\ phase'[k] = "read" => k \in joined'
         /\ k \notin ks => Careful(k)
<1>1. CASE k \in ks
  <2>1. data'[k] # None => stale'[k]
    BY <1>1 DEF QueryTypeOK, Invalidate
  <2>2. phase'[k] = "read" => k \in joined'
    BY <1>1 DEF QueryTypeOK, Invalidate, Cancelled
  <2>. QED BY <1>1, <2>1, <2>2
<1>2. CASE k \notin ks
  BY <1>2 DEF QueryTypeOK, Invalidate, Careful
<1>. QED BY <1>1, <1>2

(* Every step keeps what a finished sync has renewed. *)
LEMMA RenewedNext ==
  ASSUME QueryTypeOK, QueryTypeOK', RenewedInv, [QueryNext]_queryVars
  PROVE  RenewedInv'
<1>1. CASE \E k \in Keys : \/ Age(k) \/ Evict(k) \/ Tick(k) \/ Render(k)
                         \/ Read(k) \/ Answer(k) \/ Fail(k) \/ Retry(k)
  BY <1>1, KeyCareful, RenewedFrom
<1>2. CASE \E p \in Pages : Navigate(p)
  <2>1. UNCHANGED <<sync, told, renewed>> /\ \A k \in Keys : Careful(k)
    BY <1>2 DEF Navigate, Fetch, QueryTypeOK, Careful, syncing
  <2>. QED BY <2>1, RenewedFrom
<1>3. CASE Hide \/ Show \/ Publish \/ Expire \/ LateAnswer \/ UNCHANGED queryVars
  <2>1. CASE Hide
    <3>1. UNCHANGED <<sync, told, renewed>> /\ \A k \in Keys : Careful(k)
      BY <2>1 DEF Hide, QueryTypeOK, Careful, asked, syncing
    <3>. QED BY <3>1, RenewedFrom
  <2>2. CASE Show
    <3>1. UNCHANGED <<sync, told, renewed>> /\ \A k \in Keys : Careful(k)
      BY <2>2 DEF Show, Fetch, QueryTypeOK, Careful, syncing
    <3>. QED BY <3>1, RenewedFrom
  <2>3. CASE Publish \/ Expire
    <3>1. UNCHANGED <<sync, told, renewed>> /\ \A k \in Keys : Careful(k)
      BY <2>3 DEF Publish, Expire, QueryTypeOK, Careful, asked, syncing
    <3>. QED BY <3>1, RenewedFrom
  <2>4. CASE LateAnswer
    <3>1. UNCHANGED <<sync, told, renewed>> /\ \A k \in Keys : Careful(k)
      BY <2>4 DEF LateAnswer, LateHeard, QueryTypeOK, Careful, asked, syncing
    <3>. QED BY <3>1, RenewedFrom
  <2>5. CASE UNCHANGED queryVars
    <3>1. UNCHANGED <<sync, told, renewed>> /\ \A k \in Keys : Careful(k)
      BY <2>5 DEF queryVars, QueryTypeOK, Careful, asked, syncing
    <3>. QED BY <3>1, RenewedFrom
  <2>. QED BY <1>3, <2>1, <2>2, <2>3, <2>4, <2>5
<1>4. CASE PostSync \/ SyncFails
  <2>1. Reached' = Reached /\ sync' # "done"
    BY <1>4 DEF PostSync, SyncFails, Reached
  <2>. QED BY <1>4, <2>1 DEF PostSync, SyncFails, RenewedInv, asked
<1>5. CASE SyncDone
  <2>1. Renewed[1] \in SUBSET Keys /\ Invalidate(Renewed[1])
    BY <1>5, QueryAssumption DEF SyncDone
  <2>2. sync' = "done" /\ told' = 1 /\ Reached' = Renewed[1]
    <3>1. 1..1 = {1}
      OBVIOUS
    <3>. QED BY <1>5, <3>1 DEF SyncDone, Reached
  <2>. QED BY <2>1, <2>2, InvalidateCareful DEF RenewedInv
<1>6. CASE SyncGoesOn
  <2>1. CASE told < Len(Renewed)
    <3>1. /\ Renewed[told + 1] \in SUBSET Keys /\ Invalidate(Renewed[told + 1])
          /\ told \in Nat
      BY <1>6, <2>1, QueryAssumption DEF SyncGoesOn, QueryTypeOK
    <3>2. /\ sync = "done" /\ sync' = "done" /\ told' = told + 1
          /\ UNCHANGED <<world, renewed>>
      BY <1>6, <2>1 DEF SyncGoesOn
    <3>3. Reached' = Reached \cup Renewed[told + 1]
      <4>1. 1..(told + 1) = (1..told) \cup {told + 1}
        BY <3>1
      <4>. QED BY <3>2, <4>1 DEF Reached
    <3>4. Reached \subseteq Keys
      BY <2>1, <3>1, RenewedKeys, QueryAssumption DEF Reached
    <3>5. world \in Nat /\ renewed \in Nat /\ renewed <= world
      BY QueryAssumption DEF QueryTypeOK
    <3>6. ASSUME NEW k \in Reached \ Renewed[told + 1]
          PROVE  /\ data'[k] # None /\ data'[k].at < renewed' => stale'[k] \/ k \in joined'
                 /\ phase'[k] = "read" /\ reading'[k].at < renewed' => k \in joined'
      <4>1. Careful(k)
        BY <3>1, <3>4, <3>6, InvalidateCareful
      <4>. QED BY <3>2, <3>5, <3>6, <4>1 DEF RenewedInv, Careful
    <3>7. ASSUME NEW k \in Renewed[told + 1]
          PROVE  /\ data'[k] # None => stale'[k]
                 /\ phase'[k] = "read" => k \in joined'
      BY <3>1, <3>7, InvalidateCareful
    <3>. QED BY <3>1, <3>2, <3>3, <3>6, <3>7 DEF RenewedInv
  <2>2. CASE ~(told < Len(Renewed))
    <3>1. told = Len(Renewed) /\ sync = "done" /\ sync' = "idle"
      BY <1>6, <2>2, QueryAssumption DEF SyncGoesOn, QueryTypeOK
    <3>2. Reached' = Reached
      BY <3>1, QueryAssumption DEF Reached
    <3>. QED BY <1>6, <2>2, <3>1, <3>2 DEF SyncGoesOn, RenewedInv, asked
  <2>. QED BY <2>1, <2>2
<1>. QED
  BY <1>1, <1>2, <1>3, <1>4, <1>5, <1>6 DEF QueryNext

\* When a sync has been told of, no data from before it pass for fresh in the
\* questions it names, but for those of requests its invalidations could not
\* cancel and those that another cache handed out after it.
THEOREM SyncIsSeen == QuerySpec => []SyncSeen
<1>1. QueryInit => RenewedInv
  <2>1. ASSUME QueryInit PROVE Reached \subseteq Keys /\ sync # "done"
    BY <2>1, RenewedKeys DEF QueryInit, Reached
  <2>. QED BY <2>1 DEF QueryInit, RenewedInv
<1>2. ASSUME QueryInv, RenewedInv PROVE SyncSeen
  <2>1. ASSUME sync = "idle", NEW i \in DOMAIN Renewed, NEW k \in Renewed[i],
               data[k] # None, data[k].about < renewed
        PROVE  stale[k] \/ k \in joined \/ (k \notin Direct /\ data[k].at >= renewed)
    <3>1. k \in Keys /\ k \in Reached
      BY <2>1, RenewedKeys DEF Reached
    <3>2. /\ data[k] \in Answers /\ renewed \in Nat
          /\ k \in Direct => data[k].about = data[k].at
          /\ data[k].at < renewed => stale[k] \/ k \in joined
      BY <1>2, <2>1, <3>1, QueryAssumption
      DEF QueryInv, QueryTypeOK, ReadInOrder, Given, RenewedInv
    <3>3. data[k].at \in Nat
      BY <3>2 DEF Answers
    <3>. QED BY <2>1, <3>2, <3>3
  <2>. QED BY <2>1 DEF SyncSeen
<1>. QED BY <1>1, <1>2, RenewedNext, QueryInvariant, QueryTypeCorrect, PTL DEF QuerySpec

-----------------------------------------------------------------------------
(* The pages                                                               *)

(* The pages look at the cache and leave it alone. *)
LEMMA ViewsAreQueries == ViewsSpec => QuerySpec
<1>1. ViewsInit => QueryInit
  BY DEF ViewsInit
<1>2. [ViewsNext]_viewsVars => [QueryNext]_queryVars
  BY DEF ViewsNext, viewsVars
<1> QED
  BY <1>1, <1>2, PTL DEF ViewsSpec, QuerySpec

(* The bars of a page are of one range. *)
LEMMA OneRange ==
  ASSUME QueryTypeOK
  PROVE  /\ BarsOf(page) \subseteq Keys
         /\ \A j, k \in BarsOf(page) : j = k
BY AsksKeys, ViewsAssumption DEF QueryTypeOK, BarsOf

(* Every step keeps the last answer a page has shown to the query it came  *)
(* from.                                                                   *)
LEMMA LastKept ==
  ASSUME QueryTypeOK, QueryTypeOK', LastInv, [ViewsNext]_viewsVars
  PROVE  LastInv'
<1>1. CASE UNCHANGED viewsVars
  BY <1>1 DEF viewsVars, queryVars, asked, LastInv, BarsOf, Answered
<1>2. CASE ViewsNext
  <2>1. /\ BarsOf(page') \subseteq Keys /\ \A j, k \in BarsOf(page') : j = k
        /\ data' \in [Keys -> Answers \cup {None}]
    BY AsksKeys, ViewsAssumption DEF QueryTypeOK, BarsOf
  <2>2. CASE BarsOf(page') = {}
    <3>1. last' = None
      BY <1>2, <2>2 DEF ViewsNext, Observes
    <3> QED
      BY <2>2, <3>1 DEF LastInv, BarsOf
  <2>3. CASE BarsOf(page') # {}
    <3>1. PICK k \in BarsOf(page') : k = CHOOSE x \in BarsOf(page') : TRUE
      BY <2>3
    <3>2. last' = IF data'[k] # None
                  THEN [of |-> TickerOf[k], world |-> data'[k].about] ELSE last
      BY <1>2, <2>3, <3>1 DEF ViewsNext, Observes
    <3>3. \A j \in BarsOf(page') : j = k
      BY <2>1
    <3>4. last' = None \/ last'.world \in Nat
      BY <2>1, <3>2 DEF LastInv, Answers
    <3>5. data'[k] # None => last' = Answered(k)'
      BY <3>2 DEF Answered
    <3> QED
      BY <3>3, <3>4, <3>5 DEF LastInv, BarsOf
  <2> QED
    BY <2>2, <2>3
<1> QED
  BY <1>1, <1>2

(***************************************************************************)
(* The inductive invariant of the market pages: typed queries, and for     *)
(* every chart the last bars it was given (SecurityPage.tsx).              *)
(***************************************************************************)
THEOREM ViewsInvariant == ViewsSpec => [](QueryTypeOK /\ LastInv)
<1>1. ViewsInit => LastInv
  BY AsksKeys DEF ViewsInit, QueryInit, LastInv, BarsOf
<1>2. QueryTypeOK /\ QueryTypeOK' /\ LastInv /\ [ViewsNext]_viewsVars => LastInv'
  BY LastKept
<1> QED
  BY <1>1, <1>2, ViewsAreQueries, QueryTypeCorrect, PTL DEF ViewsSpec

(* What a security's page shows is of its security, and demo only if it has *)
(* no bars and none to fall back on.                                        *)
LEMMA ShownFacts ==
  ASSUME QueryTypeOK, LastInv, NEW k \in BarsOf(page)
  PROVE  /\ SecurityShown(k).of = TickerOf[k]
         /\ SecurityShown(k).world = Demo <=> data[k] = None /\ ~ Placeholder(k)
<1>1. k \in Keys /\ data[k] \in Answers \cup {None}
  BY OneRange DEF QueryTypeOK
<1>2. CASE data[k] # None
  BY <1>1, <1>2, ViewsAssumption DEF SecurityShown, Answered, Answers
<1>3. CASE data[k] = None /\ Placeholder(k)
  BY <1>3, ViewsAssumption DEF SecurityShown, Placeholder, LastInv
<1>4. CASE data[k] = None /\ ~ Placeholder(k)
  BY <1>4 DEF SecurityShown
<1> QED
  BY <1>2, <1>3, <1>4

(* The compare page draws demo data only while none of its answers is there. *)
LEMMA ChartedFacts ==
  ASSUME QueryTypeOK, NEW i \in DOMAIN Compared, Charted(i).world = Demo
  PROVE  \A k \in ToSet(Compared) : data[k] = None
<1> DEFINE I == {j \in DOMAIN Compared : data[Compared[j]] # None}
<1>1. Compared \in Seq(Keys) /\ DOMAIN Compared = 1..Len(Compared)
  BY ViewsAssumption
<1>2. Ready = AtPlaces(Compared, I)
  BY DEF Ready, Where
<1>3. /\ Ready \in Seq(Keys)
      /\ ToSet(Ready) = {Compared[j] : j \in I \cap (1..Len(Compared))}
      /\ Ready = <<>> <=> I \cap (1..Len(Compared)) = {}
  BY <1>1, <1>2, AtPlacesSelects, FilteredElements, FilteredNone
<1>4. CASE Ready = <<>>
  BY <1>1, <1>3, <1>4 DEF ToSet
<1>5. CASE Ready # <<>> /\ i \in DOMAIN Ready
  <2>1. Ready[i] \in ToSet(Ready)
    BY <1>5 DEF ToSet
  <2>2. Ready[i] \in Keys /\ data[Ready[i]] # None
    BY <1>1, <1>3, <2>1
  <2>3. data[Ready[i]].about \in Nat
    BY <2>2 DEF QueryTypeOK, Answers
  <2>4. Charted(i).world = data[Ready[i]].about
    BY <1>5 DEF Charted, Answered
  <2> QED
    BY <2>3, <2>4, ViewsAssumption
<1>6. CASE Ready # <<>> /\ i \notin DOMAIN Ready
  BY <1>6, ViewsAssumption DEF Charted
<1> QED
  BY <1>4, <1>5, <1>6

(* Demo data never pass for the market's: where a page shows them its ribbon *)
(* says so, and only there or where a request has failed.                    *)
THEOREM DemoAlwaysAnnounced == ViewsSpec => []DemoIsAnnounced
<1>1. ASSUME QueryTypeOK, LastInv PROVE DemoIsAnnounced
  <2>1. ASSUME NEW k \in BarsOf(page)
        PROVE  /\ SecurityShown(k).world = Demo => SecurityDegraded(k)
               /\ SecurityDegraded(k) => SecurityShown(k).world = Demo \/ failed[k]
    BY <1>1, ShownFacts DEF SecurityDegraded
  <2>2. ASSUME NEW k \in {Monitor, Bootstrap} \cap Mounted
        PROVE  /\ OrDemo(k) = Demo => Degraded(k)
               /\ Degraded(k) => OrDemo(k) = Demo \/ failed[k]
    <3>1. data[k] \in Answers \cup {None}
      BY <1>1, <2>2, AsksKeys DEF Mounted, QueryTypeOK
    <3> QED
      BY <3>1, ViewsAssumption DEF OrDemo, Degraded, Answers
  <2>3. ASSUME NEW i \in DOMAIN Compared, Charted(i).world = Demo
        PROVE  CompareDegraded(ToSet(Compared))
    BY <1>1, <2>3, ChartedFacts DEF CompareDegraded
  <2> QED
    BY <2>1, <2>2, <2>3 DEF DemoIsAnnounced
<1> QED
  BY <1>1, ViewsInvariant, PTL

(* A security's page shows its own security, and once it has had bars it *)
(* goes on showing bars until an answer fails.                           *)
THEOREM BarsAlwaysStay == ViewsSpec => BarsStay
<1> DEFINE Stays ==
      /\ \A next \in Shown' : next.of \in {TickerOf[k] : k \in BarsOf(page')}
      /\ \A shown \in Shown, next \in Shown' :
           /\ shown.of = next.of /\ shown.world # Demo
           /\ ~\E k \in BarsOf(page') : failed'[k]
           => next.world # Demo
<1>1. ASSUME QueryTypeOK, LastInv, QueryTypeOK', LastInv', [ViewsNext]_viewsVars
      PROVE  [Stays]_viewsVars
  <2>1. SUFFICES ASSUME ViewsNext PROVE Stays
    BY <1>1
  <2>2. ASSUME NEW k \in BarsOf(page')
        PROVE  /\ SecurityShown(k)'.of = TickerOf[k]
               /\ SecurityShown(k)'.world = Demo <=> data'[k] = None /\ ~ Placeholder(k)'
    <3>1. k \in Keys /\ data'[k] \in Answers \cup {None}
      BY <1>1, <2>2, AsksKeys, ViewsAssumption DEF QueryTypeOK, BarsOf
    <3>2. CASE data'[k] # None
      BY <3>1, <3>2, ViewsAssumption DEF SecurityShown, Answered, Answers
    <3>3. CASE data'[k] = None /\ Placeholder(k)'
      BY <1>1, <3>3, ViewsAssumption DEF SecurityShown, Placeholder, LastInv
    <3>4. CASE data'[k] = None /\ ~ Placeholder(k)'
      BY <3>4 DEF SecurityShown
    <3> QED
      BY <3>2, <3>3, <3>4
  <2>3. ASSUME NEW k \in BarsOf(page), NEW j \in BarsOf(page'),
               SecurityShown(k).of = SecurityShown(j)'.of, SecurityShown(k).world # Demo,
               ~ failed'[j]
        PROVE  SecurityShown(j)'.world # Demo
    <3>1. TickerOf[k] = TickerOf[j]
      BY <1>1, <2>2, <2>3, ShownFacts
    <3>2. last # None /\ last.of = TickerOf[k]
      <4>1. data[k] # None \/ Placeholder(k)
        BY <1>1, <2>3, ShownFacts
      <4>2. data[k] # None => last = Answered(k)
        BY <1>1 DEF LastInv
      <4>3. CASE data[k] # None
        <5>1. k \in Bars /\ data[k].about \in Nat
          BY <1>1, <2>3, <4>3, OneRange DEF QueryTypeOK, BarsOf, Answers
        <5>2. Answered(k) \in [of : {TickerOf[x] : x \in Bars}, world : Nat]
          BY <5>1 DEF Answered
        <5> QED
          BY <4>2, <4>3, <5>2, ViewsAssumption DEF Answered
      <4> QED
        BY <4>1, <4>3 DEF Placeholder
    <3>3. data'[j] = None => last' = last
      <4>1. \A x \in BarsOf(page') : x = j
        BY <1>1, <2>3, AsksKeys, ViewsAssumption DEF QueryTypeOK, BarsOf
      <4>2. PICK c \in BarsOf(page') : c = CHOOSE x \in BarsOf(page') : TRUE
        BY <2>3
      <4>3. last' = IF data'[c] # None THEN [of |-> TickerOf[c], world |-> data'[c].about] ELSE last
        BY <2>1, <2>3, <4>2 DEF ViewsNext, Observes
      <4> QED
        BY <4>1, <4>2, <4>3
    <3> QED
      BY <2>2, <2>3, <3>1, <3>2, <3>3 DEF Placeholder
  <2>4. \A next \in Shown' : next.of \in {TickerOf[k] : k \in BarsOf(page')}
    BY <2>2 DEF Shown
  <2>5. ASSUME NEW shown \in Shown, NEW next \in Shown',
               shown.of = next.of, shown.world # Demo,
               ~\E k \in BarsOf(page') : failed'[k]
        PROVE  next.world # Demo
    <3>1. PICK k \in BarsOf(page) : shown = SecurityShown(k)
      BY <2>5 DEF Shown
    <3>2. PICK j \in BarsOf(page') : next = SecurityShown(j)'
      BY <2>5 DEF Shown
    <3> QED
      BY <2>3, <2>5, <3>1, <3>2
  <2> QED
    BY <2>4, <2>5
<1> QED
  BY <1>1, ViewsInvariant, PTL DEF ViewsSpec, BarsStay

-----------------------------------------------------------------------------
(* The questions of the pages                                              *)

\* What a page asks of headlines: the scope says how many.
Headlines(q) ==
  \E tickers, scope, limit :
    /\ q = [hook |-> "news", tickers |-> tickers, scope |-> scope, limit |-> limit]
    /\ \/ scope \in {"dashboard", "security", "compare"} /\ limit = 10
       \/ scope = "monitor" /\ limit = 12
       \/ scope \in {"screener", "backtest"} /\ limit = 8
       \/ scope \in SectorScopes /\ limit = 14
       \/ scope \in ListScopes /\ limit = 10
       \/ scope \in NewsPageScopes /\ limit = 24

\* A question that is its own key, or whose key says what it leaves out.
Keyed(q) == \/ q.hook # "news" /\ KeyOf(q) = q
            \/ Headlines(q)

(* The hooks that send nothing but what is in the key. *)
LEMMA PlainKeyed ==
  \A hook \in {"health-live", "health-ready", "sync-status", "freshness", "monitor"} :
    Keyed(Plain(hook))
BY DEF Keyed, KeyOf, TerminalKeys, Plain

LEMMA TickersKeyed ==
  ASSUME NEW hook \in {"snapshots", "earnings", "live-prices"}, NEW tickers
  PROVE  \A q \in OfTickers(hook, tickers) : Keyed(q)
<1> SUFFICES ASSUME NEW q, q = [hook |-> hook, tickers |-> Clean(tickers)] PROVE Keyed(q)
  BY DEF OfTickers
<1>1. q.hook = hook /\ TerminalKeys(hook) = {"tickers"}
  BY DEF TerminalKeys
<1>2. KeyOf(q) = [f \in {"hook", "tickers"} |-> q[f]]
  BY <1>1 DEF KeyOf
<1>3. KeyOf(q) = q
  BY <1>2
<1> QED
  BY <1>1, <1>3 DEF Keyed

LEMMA BootstrapKeyed ==
  \A ticker, tickers : \A q \in UseBootstrapQuery(ticker, tickers) : Keyed(q)
BY DEF UseBootstrapQuery, Keyed, KeyOf, TerminalKeys

LEMMA SectorKeyed ==
  \A sector : \A q \in UseSectorQuery(sector) : Keyed(q)
<1> SUFFICES ASSUME NEW sector, NEW q, q = [hook |-> "sector", sector |-> sector]
             PROVE  Keyed(q)
  BY DEF UseSectorQuery
<1>1. KeyOf(q) = [f \in {"hook", "sector"} |-> q[f]]
  BY DEF KeyOf, TerminalKeys
<1> QED
  BY <1>1 DEF Keyed

LEMMA SecurityKeyed ==
  \A ticker, limit : \A q \in UseSecurityQuery(ticker, limit) : Keyed(q)
BY DEF UseSecurityQuery, Keyed, KeyOf, TerminalKeys

LEMMA IntradayKeyed ==
  \A ticker, interval, period : \A q \in UseIntradayQuery(ticker, interval, period) : Keyed(q)
BY DEF UseIntradayQuery, Keyed, KeyOf, TerminalKeys

LEMMA FundamentalsKeyed ==
  \A ticker : \A q \in UseFundamentalsQuery(ticker) : Keyed(q)
BY DEF UseFundamentalsQuery, Keyed, KeyOf, TerminalKeys

(* The hook that does not have the number of headlines in its key. *)
LEMMA NewsAsked ==
  ASSUME NEW tickers, NEW scope, NEW limit, NEW q \in UseNewsQuery(tickers, scope, limit)
  PROVE  \E some : q = [hook |-> "news", tickers |-> some, scope |-> scope, limit |-> limit]
BY DEF UseNewsQuery

(* Headlines under a scope with a suffix. *)
LEMMA SuffixedKeyed ==
  \A tickers, scope :
    /\ scope \in SectorScopes => \A q \in UseNewsQuery(tickers, scope, 14) : Keyed(q)
    /\ scope \in ListScopes => \A q \in UseNewsQuery(tickers, scope, 10) : Keyed(q)
    /\ scope \in NewsPageScopes => \A q \in UseNewsQuery(tickers, scope, 24) : Keyed(q)
BY NewsAsked DEF Keyed, Headlines

(* What the shell asks under every page. *)
LEMMA ShellKeyed == \A q \in ShellAsks : Keyed(q)
BY PlainKeyed, TickersKeyed DEF ShellAsks, UseHealthQuery, UseLivePricesQuery

(* The pages, one by one. *)
LEMMA DashboardKeyed ==
  ASSUME NEW w, NEW movers
  PROVE  \A q \in DashboardAsks(w, movers) : Keyed(q)
<1> SUFFICES ASSUME NEW q \in DashboardAsks(w, movers) PROVE Keyed(q)
  OBVIOUS
<1> DEFINE first == Clean(<<w.activeTicker>> \o Take(Listed(w), 5) \o Take(w.recentTickers, 4))
           priced == Take(Listed(w), 6) \o Take(w.recentTickers, 6)
                     \o <<w.activeTicker>> \o Take(movers, 6)
<1>1. CASE q \in UseBootstrapQuery(w.activeTicker, BoardUniverse(w))
  BY <1>1, BootstrapKeyed
<1>2. CASE q \in UseNewsQuery(Take(first, 6), "dashboard", 10)
  BY <1>2, NewsAsked DEF Keyed, Headlines
<1>3. CASE q \in OfTickers("live-prices", priced)
  BY <1>3, TickersKeyed
<1> QED
  BY <1>1, <1>2, <1>3 DEF DashboardAsks, UseLivePricesQuery

LEMMA MonitorKeyed == \A q \in MonitorAsks : Keyed(q)
<1> SUFFICES ASSUME NEW q \in MonitorAsks PROVE Keyed(q)
  OBVIOUS
<1>1. CASE q = Plain("monitor")
  BY <1>1, PlainKeyed
<1>2. CASE q \in UseNewsQuery(NewsProxies, "monitor", 12)
  BY <1>2, NewsAsked DEF Keyed, Headlines
<1> QED
  BY <1>1, <1>2 DEF MonitorAsks

LEMMA SectorPageKeyed ==
  ASSUME NEW sector \in Sectors, NEW members
  PROVE  \A q \in SectorAsks(sector, members) : Keyed(q)
<1> SUFFICES ASSUME NEW q \in SectorAsks(sector, members) PROVE Keyed(q)
  OBVIOUS
<1>1. CASE q \in UseSectorQuery(sector)
  BY <1>1, SectorKeyed
<1>2. CASE q \in UseNewsQuery(Take(members, 8), "sector-" \o sector, 14)
  <2>1. "sector-" \o sector \in SectorScopes
    BY DEF SectorScopes
  <2> QED
    BY <1>2, <2>1, SuffixedKeyed, Zenon
<1> QED
  BY <1>1, <1>2 DEF SectorAsks

LEMMA SecurityPageKeyed ==
  ASSUME NEW w, NEW ticker, NEW frame
  PROVE  \A q \in SecurityAsks(w, ticker, frame) : Keyed(q)
<1> SUFFICES ASSUME NEW q \in SecurityAsks(w, ticker, frame) PROVE Keyed(q)
  OBVIOUS
<1> DEFINE related == <<ticker>> \o RelatedTickers(w.compareTickers, ticker)
           priced == Take(Clean(<<ticker>> \o w.compareTickers), 6)
<1>1. CASE q \in UseSecurityQuery(ticker, RequestedDailyBars(frame))
  BY <1>1, SecurityKeyed
<1>2. CASE q \in OfTickers("earnings", <<ticker>>) \/ q \in OfTickers("live-prices", priced)
  BY <1>2, TickersKeyed
<1>3. CASE q \in UseNewsQuery(related, "security", 10)
  BY <1>3, NewsAsked DEF Keyed, Headlines
<1>4. CASE q \in UseFundamentalsQuery(ticker)
  BY <1>4, FundamentalsKeyed
<1>5. CASE q \in UseIntradayQuery(ticker, frame.interval, frame.period)
  BY <1>5, IntradayKeyed
<1> QED
  BY <1>1, <1>2, <1>3, <1>4, <1>5 DEF SecurityAsks, UseEarningsQuery, UseLivePricesQuery

LEMMA ComparePageKeyed ==
  ASSUME NEW w
  PROVE  \A q \in CompareAsks(w) : Keyed(q)
<1> SUFFICES ASSUME NEW q \in CompareAsks(w) PROVE Keyed(q)
  OBVIOUS
<1>1. CASE q \in OfTickers("snapshots", w.compareTickers)
  BY <1>1, TickersKeyed
<1>2. CASE q \in UseNewsQuery(w.compareTickers, "compare", 10)
  BY <1>2, NewsAsked DEF Keyed, Headlines
<1>3. CASE \E ticker \in ToSet(w.compareTickers) : q \in UseSecurityQuery(ticker, 260)
  BY <1>3, SecurityKeyed
<1> QED
  BY <1>1, <1>2, <1>3 DEF CompareAsks, UseSnapshotsQuery

LEMMA WatchlistsKeyed ==
  ASSUME NEW w \in Stores
  PROVE  \A q \in WatchlistsAsks(w) : Keyed(q)
<1> SUFFICES ASSUME NEW q \in WatchlistsAsks(w) PROVE Keyed(q)
  OBVIOUS
<1>1. CASE q \in OfTickers("snapshots", Listed(w))
  BY <1>1, TickersKeyed
<1>2. CASE q \in UseNewsQuery(Take(Listed(w), 10), "watchlist-" \o w.activeWatchlistId, 10)
  <2>1. "watchlist-" \o w.activeWatchlistId \in ListScopes
    BY DEF ListScopes
  <2> QED
    BY <1>2, <2>1, SuffixedKeyed, Zenon
<1> QED
  BY <1>1, <1>2 DEF WatchlistsAsks, UseSnapshotsQuery

LEMMA NewsPageKeyed ==
  ASSUME NEW w
  PROVE  \A q \in NewsMonitorAsks(w) : Keyed(q)
<1> SUFFICES ASSUME NEW q \in NewsMonitorAsks(w) PROVE Keyed(q)
  OBVIOUS
<1>1. PICK s \in DOMAIN NewsScopes(w) :
        \/ q \in UseNewsQuery(NewsScopes(w)[s], "news-" \o s, 24)
        \/ q \in OfTickers("snapshots", NewsScopes(w)[s])
  BY DEF NewsMonitorAsks, UseSnapshotsQuery
<1>2. s \in {"focus", "watchlist", "recent", "market"}
  BY DEF NewsScopes
<1>3. CASE q \in UseNewsQuery(NewsScopes(w)[s], "news-" \o s, 24)
  <2>1. "news-" \o s \in NewsPageScopes
    BY <1>2 DEF NewsPageScopes
  <2> QED
    BY <1>3, <2>1, SuffixedKeyed, Zenon
<1>4. CASE q \in OfTickers("snapshots", NewsScopes(w)[s])
  BY <1>4, TickersKeyed
<1> QED
  BY <1>1, <1>3, <1>4

LEMMA ScreenerKeyed ==
  ASSUME NEW matches
  PROVE  \A q \in ScreenerAsks(matches) : Keyed(q)
BY NewsAsked DEF ScreenerAsks, Keyed, Headlines

LEMMA BacktestKeyed ==
  ASSUME NEW ticker, NEW matches
  PROVE  \A q \in BacktestAsks(ticker, matches) : Keyed(q)
BY NewsAsked DEF BacktestAsks, Keyed, Headlines

(* Every page there is a path to. *)
LEMMA PagesKeyed ==
  ASSUME NEW path \in Paths, NEW w \in Stores
  PROVE  \A q \in PageAsks(path, w) : Keyed(q)
<1> SUFFICES ASSUME NEW q \in PageAsks(path, w), q \notin ShellAsks PROVE Keyed(q)
  BY ShellKeyed
<1>1. path \in {"/", "/monitor", "/sector", "/security", "/compare", "/watchlists", "/news",
                "/screener", "/backtest"}
  BY PathAssumption DEF Paths, Range
<1>2. CASE path = "/"
  BY <1>2, DashboardKeyed DEF PageAsks
<1>3. CASE path = "/monitor"
  BY <1>3, MonitorKeyed DEF PageAsks
<1>4. CASE path = "/sector"
  BY <1>4, SectorPageKeyed DEF PageAsks
<1>5. CASE path = "/security"
  BY <1>5, SecurityPageKeyed DEF PageAsks
<1>6. CASE path = "/compare"
  BY <1>6, ComparePageKeyed DEF PageAsks
<1>7. CASE path = "/watchlists"
  BY <1>7, WatchlistsKeyed DEF PageAsks
<1>8. CASE path = "/news"
  BY <1>8, NewsPageKeyed DEF PageAsks
<1>9. CASE path = "/screener"
  BY <1>9, ScreenerKeyed DEF PageAsks
<1>10. CASE path = "/backtest"
  BY <1>10, BacktestKeyed DEF PageAsks
<1> QED
  BY <1>1, <1>2, <1>3, <1>4, <1>5, <1>6, <1>7, <1>8, <1>9, <1>10

(* A scope is one page's, so it says how many headlines are asked for. *)
LEMMA ScopeSaysHowMany ==
  ASSUME NEW q, NEW r, Headlines(q), Headlines(r), q.scope = r.scope
  PROVE  q.limit = r.limit
<1> DEFINE Wanted(scope, limit) ==
      \/ scope \in {"dashboard", "security", "compare"} /\ limit = 10
      \/ scope = "monitor" /\ limit = 12
      \/ scope \in {"screener", "backtest"} /\ limit = 8
      \/ scope \in SectorScopes /\ limit = 14
      \/ scope \in ListScopes /\ limit = 10
      \/ scope \in NewsPageScopes /\ limit = 24
<1>1. Wanted(q.scope, q.limit) /\ Wanted(r.scope, r.limit)
  BY DEF Headlines
<1> QED
  BY <1>1, ScopeAssumption DEF PageScopes

(* Two questions with one key are the same question. *)
LEMMA KeySaysAll ==
  ASSUME NEW q, NEW r, Keyed(q), Keyed(r), KeyOf(q) = KeyOf(r)
  PROVE  q = r
<1>1. q.hook = r.hook
  <2>1. KeyOf(q).hook = q.hook /\ KeyOf(r).hook = r.hook
    BY DEF KeyOf
  <2> QED
    BY <2>1
<1>2. CASE q.hook # "news"
  <2>1. ~ Headlines(q) /\ ~ Headlines(r)
    BY <1>1, <1>2 DEF Headlines
  <2> QED
    BY <1>1, <1>2, <2>1 DEF Keyed
<1>3. CASE q.hook = "news"
  <2>1. Headlines(q) /\ Headlines(r)
    BY <1>1, <1>3 DEF Keyed
  <2>2. q.scope = r.scope /\ q.tickers = r.tickers
    <3>1. "scope" \in DOMAIN KeyOf(q) /\ "tickers" \in DOMAIN KeyOf(q)
          /\ KeyOf(q).scope = q.scope /\ KeyOf(r).scope = r.scope
          /\ KeyOf(q).tickers = q.tickers /\ KeyOf(r).tickers = r.tickers
      BY <1>1, <1>3 DEF KeyOf, TerminalKeys
    <3> QED
      BY <3>1
  <2>3. q.limit = r.limit
    BY <2>1, <2>2, ScopeSaysHowMany
  <2>4. /\ q = [hook |-> "news", tickers |-> q.tickers, scope |-> q.scope, limit |-> q.limit]
        /\ r = [hook |-> "news", tickers |-> r.tickers, scope |-> r.scope, limit |-> r.limit]
    BY <2>1 DEF Headlines
  <2> QED
    BY <2>2, <2>3, <2>4
<1> QED
  BY <1>2, <1>3

(* No two pages share an answer to different questions, whatever the       *)
(* workspaces, the sectors and the server's rows are: the keys of          *)
(* terminalKeys leave out how many headlines are wanted, and the scope     *)
(* that a page names says it.                                              *)
THEOREM SharedAnswersAlwaysFit == ViewsSpec => []SharedAnswersFit
<1>1. SharedAnswersFit
  <2> SUFFICES ASSUME NEW path \in Paths, NEW other \in Paths,
                      NEW v \in Stores, NEW w \in Stores,
                      NEW q \in PageAsks(path, v), NEW r \in PageAsks(other, w),
                      KeyOf(q) = KeyOf(r), q # r
               PROVE  FALSE
    <3> DEFINE asks == [path \in Paths |-> UNION {PageAsks(path, w) : w \in Stores}]
    <3>1. \A path \in Paths : \A q \in asks[path] :
            \E w \in Stores : q \in PageAsks(path, w)
      OBVIOUS
    <3>2. \A r \in UNION Range(asks) : \E path \in Paths : r \in asks[path]
      BY DEF Range
    <3>3. Clashing = {path \in Paths : \E q \in asks[path], r \in UNION Range(asks) :
                        KeyOf(q) = KeyOf(r) /\ q # r}
      BY DEF Clashing
    <3> HIDE DEF asks
    <3> SUFFICES ASSUME NEW path \in Paths,
                        \E q \in asks[path], r \in UNION Range(asks) :
                          KeyOf(q) = KeyOf(r) /\ q # r
                 PROVE  FALSE
      BY <3>3 DEF SharedAnswersFit
    <3> QED
      BY <3>1, <3>2
  <2>1. Keyed(q) /\ Keyed(r)
    BY PagesKeyed
  <2> QED
    BY <2>1, KeySaysAll
<1> QED
  BY <1>1, PTL
=============================================================================
