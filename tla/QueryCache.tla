----------------------------- MODULE QueryCache -----------------------------
(***************************************************************************)
(* The questions the terminal asks the server (frontend/src/api/query.ts)  *)
(* and their answers, as the pages of one browser tab come and go, answers *)
(* fail or are late, the tab is hidden, and a sync changes the data.       *)
(*                                                                         *)
(* The cache is the query library's, which is not part of the repository:  *)
(* it is modelled by how query.ts and main.tsx set it up.  Between a       *)
(* question and the database there are other caches, of the browser and of *)
(* the server, so an answer is abstracted to the state of the world it is  *)
(* about and that in which it was handed out; times are abstracted to the  *)
(* events they lead to.                                                    *)
(***************************************************************************)
EXTENDS Naturals, Sequences

CONSTANTS
  Keys,      \* terminalKeys
  Pages,     \* routes, each with the questions it and the shell ask:
  Asks,
  Links,     \* bound: which routes a behaviour goes between
  Polled,    \* keys with a refetchInterval
  Focused,   \* keys with refetchOnWindowFocus left at its default
  Renewed,   \* useSyncMutation: what it invalidates, in this order
  Direct,    \* keys that no other cache answers
  MaxWorld,  \* bound: changes of the server's data
  MaxLost,   \* bound: requests that fail
  None

ASSUME QueryAssumption ==
  /\ Asks \in [Pages -> SUBSET Keys]
  /\ Links \subseteq Pages \X Pages
  /\ Polled \subseteq Keys /\ Focused \subseteq Keys
  /\ Renewed \in Seq(SUBSET Keys) /\ Len(Renewed) > 0
  /\ Direct \subseteq Keys
  /\ MaxWorld \in Nat /\ MaxLost \in Nat
  /\ None \notin [about : Nat, at : Nat]
  /\ Pages # {}

VARIABLES
  world,    \* how often the server's data have changed
  oldest,   \* the oldest state of the world that another cache, or a fill of
            \* it under way, still hands out
  page,     \* the route at hand
  visible,  \* document.visibilityState
  data,     \* key: its answer, or None
  stale,    \* key: older than its staleTime, or invalidated
  failed,   \* key: the last fetch failed (isError)
  phase,    \* key: its fetch: "idle", "sent", "read" by the server, or
            \* "waiting" to be sent again
  reading,  \* key: what has been handed out for it, or None
  retried,  \* key: the fetch has been sent again
  timer,    \* keys whose interval is running
  late,     \* answers to cancelled fetches, under way: <<key, answer>>
  sync,     \* the user's sync: "idle", "posted", "done"
  told,     \* how many of its invalidations have begun
  awaited,  \* the keys whose fetch the last of them awaits
  renewed,  \* history: the world after the last sync that was told of
  joined,   \* history: keys whose fetch was under way when they were
            \* invalidated, and went on
  lost

asked == <<data, stale, failed, phase, reading, retried, timer>>
syncing == <<sync, told, awaited, renewed>>
queryVars == <<world, oldest, page, visible, asked, late, syncing, joined, lost>>

Answers == [about : Nat, at : Nat]

Mounted == Asks[page]

QueryInit ==
  /\ world = 0 /\ oldest = 0 /\ visible = TRUE
  /\ page \in Pages
  /\ data = [k \in Keys |-> None]
  /\ stale = [k \in Keys |-> FALSE]
  /\ failed = [k \in Keys |-> FALSE]
  /\ phase = [k \in Keys |-> IF k \in Mounted THEN "sent" ELSE "idle"]
  /\ reading = [k \in Keys |-> None]
  /\ retried = [k \in Keys |-> FALSE]
  /\ timer = Mounted \cap Polled
  /\ late = {} /\ joined = {} /\ lost = 0
  /\ sync = "idle" /\ told = 0 /\ awaited = {} /\ renewed = 0

-----------------------------------------------------------------------------
(* Fetching                                                                *)

\* activeInterval: whether the tab is visible is looked at when something
\* happens to the query, and then again only when its page is rendered.
Rearmed(ks, p, seen) ==
  timer' = (timer \ ks) \cup (IF seen THEN ks \cap Polled \cap Asks[p] ELSE {})

\* The keys ks start a fetch, where none is under way.
Fetch(ks) ==
  LET started == {k \in ks : phase[k] = "idle"}
  IN /\ phase' = [k \in Keys |-> IF k \in started THEN "sent" ELSE phase[k]]
     /\ reading' = [k \in Keys |-> IF k \in started THEN None ELSE reading[k]]
     /\ retried' = [k \in Keys |-> IF k \in started THEN FALSE ELSE retried[k]]
     /\ failed' = [k \in Keys |-> failed[k] /\ ~(k \in started /\ data[k] = None)]
     /\ UNCHANGED data

\* A fetch of these is due when a page with them is mounted.
Due(k) == data[k] = None \/ stale[k]

\* A page mounts its questions and drops those of the page before it.
Navigate(p) ==
  /\ <<page, p>> \in Links /\ page' = p
  /\ LET new == Asks[p] \ Mounted
     IN Fetch({k \in new : Due(k)}) /\ Rearmed(new \cup (Mounted \ Asks[p]), p, visible)
  /\ UNCHANGED <<world, oldest, visible, stale, late, syncing, joined, lost>>

\* staleTime.
Age(k) ==
  /\ data[k] # None /\ ~stale[k]
  /\ stale' = [stale EXCEPT ![k] = TRUE]
  /\ UNCHANGED <<world, oldest, page, visible, data, failed, phase, reading,
                 retried, timer, late, syncing, joined, lost>>

\* gcTime.
Evict(k) ==
  /\ k \notin Mounted /\ phase[k] = "idle" /\ data[k] # None
  /\ data' = [data EXCEPT ![k] = None]
  /\ stale' = [stale EXCEPT ![k] = FALSE]
  /\ failed' = [failed EXCEPT ![k] = FALSE]
  /\ joined' = joined \ {k}
  /\ UNCHANGED <<world, oldest, page, visible, phase, reading, retried, timer,
                 late, syncing, lost>>

\* Mutation: the interval stops at the first answer.
TickFirst(k) ==
  /\ k \in timer /\ visible /\ phase[k] = "idle" /\ data[k] = None
  /\ Fetch({k}) /\ Rearmed({k}, page, visible)
  /\ UNCHANGED <<world, oldest, page, visible, stale, late, syncing, joined,
                 lost>>

\* refetchInterval.
Tick(k) ==
  /\ k \in timer /\ visible /\ phase[k] = "idle"
  /\ Fetch({k}) /\ Rearmed({k}, page, visible)
  /\ UNCHANGED <<world, oldest, page, visible, stale, late, syncing, joined,
                 lost>>

\* A page is rendered anew, for whatever reason, and its hooks with it.
Render(k) ==
  /\ k \in Mounted /\ Rearmed({k}, page, visible) /\ timer' # timer
  /\ UNCHANGED <<world, oldest, page, visible, data, stale, failed, phase,
                 reading, retried, late, syncing, joined, lost>>

Hide ==
  /\ visible /\ visible' = FALSE
  /\ UNCHANGED <<world, oldest, page, asked, late, syncing, joined, lost>>

Show ==
  /\ ~visible /\ visible' = TRUE
  /\ LET asking == {k \in Mounted \cap Focused : Due(k)}
     IN Fetch(asking) /\ Rearmed({k \in asking : phase[k] = "idle"}, page, TRUE)
  /\ UNCHANGED <<world, oldest, page, stale, late, syncing, joined, lost>>

-----------------------------------------------------------------------------
(* The server, and client.ts and the caches between                        *)

Publish ==
  /\ world < MaxWorld /\ world' = world + 1
  /\ UNCHANGED <<oldest, page, visible, asked, late, syncing, joined, lost>>

\* get_or_compute's seconds, the Cache-Control of a security.
Expire ==
  /\ oldest < world /\ oldest' \in (oldest + 1)..world
  /\ UNCHANGED <<world, page, visible, asked, late, syncing, joined, lost>>

\* A cache may hand out an answer from before one it has handed out already:
\* a fill that was late puts it there, and the caches hold copies of their own.
Read(k) ==
  /\ phase[k] = "sent"
  /\ phase' = [phase EXCEPT ![k] = "read"]
  /\ \E v \in (IF k \in Direct THEN {world} ELSE oldest..world) :
       reading' = [reading EXCEPT ![k] = [about |-> v, at |-> world]]
  /\ UNCHANGED <<world, oldest, page, visible, data, stale, failed, retried,
                 timer, late, syncing, joined, lost>>

Answer(k) ==
  /\ phase[k] = "read"
  /\ data' = [data EXCEPT ![k] = reading[k]]
  /\ stale' = [stale EXCEPT ![k] = FALSE]
  /\ failed' = [failed EXCEPT ![k] = FALSE]
  /\ phase' = [phase EXCEPT ![k] = "idle"]
  /\ reading' = [reading EXCEPT ![k] = None]
  /\ joined' = IF reading[k].at < renewed THEN joined ELSE joined \ {k}
  /\ Rearmed({k}, page, visible)
  /\ UNCHANGED <<world, oldest, page, visible, retried, late, syncing, lost>>

\* request throws: the network, a status that is not ok, a body that is not
\* JSON.  retry: 1, while a page is there to wait for it.
Fail(k) ==
  /\ phase[k] \in {"sent", "read"}
  /\ lost < MaxLost /\ lost' = lost + 1
  /\ IF k \in Mounted /\ ~retried[k]
     THEN /\ phase' = [phase EXCEPT ![k] = "waiting"]
          /\ UNCHANGED failed
     ELSE /\ phase' = [phase EXCEPT ![k] = "idle"]
          /\ failed' = [failed EXCEPT ![k] = TRUE]
  /\ reading' = [reading EXCEPT ![k] = None]
  /\ Rearmed({k}, page, visible)
  /\ UNCHANGED <<world, oldest, page, visible, data, stale, retried, late,
                 syncing, joined>>

\* A retry waits for the tab to be visible.
Retry(k) ==
  /\ phase[k] = "waiting" /\ visible
  /\ phase' = [phase EXCEPT ![k] = "sent"]
  /\ retried' = [retried EXCEPT ![k] = TRUE]
  /\ UNCHANGED <<world, oldest, page, visible, data, stale, failed, reading,
                 timer, late, syncing, joined, lost>>

\* Mutation: whatever comes is put in the cache.
LateApplied(k, answer) == data' = [data EXCEPT ![k] = answer]

\* The answer to a cancelled fetch changes nothing.
LateHeard(k, answer) == data' = data

LateAnswer ==
  /\ \E x \in late : late' = late \ {x} /\ LateHeard(x[1], x[2])
  /\ UNCHANGED <<world, oldest, page, visible, stale, failed, phase, reading,
                 retried, timer, syncing, joined, lost>>

-----------------------------------------------------------------------------
(* useSyncMutation                                                         *)

PostSync ==
  /\ sync = "idle" /\ sync' = "posted"
  /\ UNCHANGED <<world, oldest, page, visible, asked, late, told, awaited,
                 renewed, joined, lost>>

SyncFails ==
  /\ sync = "posted" /\ sync' = "idle"
  /\ UNCHANGED <<world, oldest, page, visible, asked, late, told, awaited,
                 renewed, joined, lost>>

\* Mutation: a fetch under way is good enough.
Rejoined(k) == FALSE

\* What is shown is fetched again, over a fetch that is under way; a first
\* fetch goes on, and so does one no page waits for.
Cancelled(k) == k \in Mounted /\ data[k] # None

\* invalidateQueries, for the keys ks.
Invalidate(ks) ==
  LET again == {k \in ks : Cancelled(k)}
      restarted == again \cup {k \in ks \cap Mounted : phase[k] = "idle"}
  IN /\ stale' = [k \in Keys |-> stale[k] \/ (k \in ks /\ data[k] # None)]
     /\ phase' = [k \in Keys |-> IF k \in restarted THEN "sent" ELSE phase[k]]
     /\ reading' = [k \in Keys |-> IF k \in restarted THEN None ELSE reading[k]]
     /\ retried' = [k \in Keys |-> IF k \in restarted THEN FALSE ELSE retried[k]]
     /\ late' = late \cup {<<k, reading[k]>> : k \in {x \in again : phase[x] = "read"}}
     /\ joined' = joined \cup
          {k \in ks : phase[k] # "idle" /\ (k \notin Mounted \/ data[k] = None)}
     /\ awaited' = ks \cap Mounted
     /\ Rearmed(ks \cap Mounted, page, visible)
     /\ failed' = [k \in Keys |-> failed[k] /\ ~(k \in restarted /\ data[k] = None)]
     /\ UNCHANGED data

\* The server has synced, and onSuccess begins.
SyncDone ==
  /\ sync = "posted" /\ world < MaxWorld
  /\ world' = world + 1 /\ renewed' = world + 1
  /\ sync' = "done" /\ told' = 1 /\ Invalidate(Renewed[1])
  /\ UNCHANGED <<oldest, page, visible, lost>>

\* Each invalidation is awaited before the next.
SyncGoesOn ==
  /\ sync = "done" /\ \A k \in awaited : phase[k] = "idle"
  /\ IF told < Len(Renewed)
     THEN told' = told + 1 /\ Invalidate(Renewed[told + 1]) /\ UNCHANGED sync
     ELSE /\ sync' = "idle" /\ told' = 0 /\ awaited' = {}
          /\ UNCHANGED <<asked, late, joined>>
  /\ UNCHANGED <<world, oldest, page, visible, renewed, lost>>

QueryNext ==
  \/ \E p \in Pages : Navigate(p)
  \/ \E k \in Keys : \/ Age(k) \/ Evict(k) \/ Tick(k) \/ Render(k)
                     \/ Read(k) \/ Answer(k) \/ Fail(k) \/ Retry(k)
  \/ Hide \/ Show \/ Publish \/ Expire \/ LateAnswer
  \/ PostSync \/ SyncFails \/ SyncDone \/ SyncGoesOn

\* Requests are answered or fail, intervals and retries come, caches expire.
QueryFairness ==
  /\ WF_queryVars(Expire)
  /\ \A k \in Keys : /\ WF_queryVars(Tick(k)) /\ WF_queryVars(Read(k))
                     /\ WF_queryVars(Answer(k)) /\ WF_queryVars(Retry(k))

QuerySpec == QueryInit /\ [][QueryNext]_queryVars

-----------------------------------------------------------------------------
(* Properties                                                              *)

QueryTypeOK ==
  /\ world \in 0..MaxWorld /\ oldest \in 0..world
  /\ page \in Pages /\ visible \in BOOLEAN
  /\ data \in [Keys -> Answers \cup {None}]
  /\ stale \in [Keys -> BOOLEAN] /\ failed \in [Keys -> BOOLEAN]
  /\ phase \in [Keys -> {"idle", "sent", "read", "waiting"}]
  /\ reading \in [Keys -> Answers \cup {None}]
  /\ \A k \in Keys : phase[k] = "read" <=> reading[k] # None
  /\ retried \in [Keys -> BOOLEAN] /\ timer \subseteq Mounted \cap Polled
  /\ late \subseteq Keys \X Answers
  /\ sync \in {"idle", "posted", "done"} /\ told \in 0..Len(Renewed)
  /\ awaited \subseteq Keys /\ renewed \in 0..world /\ joined \subseteq Keys
  /\ lost \in 0..MaxLost

\* Every question shows what ServedView promises, whatever is cancelled,
\* retried, late or lost.
Served == INSTANCE ServedView WITH view <- data

ServedSpec == Served!ViewSpec

\* Of the questions that useSyncMutation names (query.ts:217-222; the dashboard,
\* the monitor and the sectors are not among them, they wait for their
\* intervals): after the user's sync, data from before it are never taken for
\* fresh, they are fetched again now, or when a page asks for them.  There are
\* two exceptions. The request of a first answer, or of a page that was left,
\* was under way when the key was invalidated; or they were asked for again
\* after the sync, and another cache, as the browser's of a security
\* (terminal.py:120), had them still.
SyncSeen ==
  sync = "idle" =>
    \A i \in DOMAIN Renewed : \A k \in Renewed[i] :
      data[k] # None /\ data[k].about < renewed =>
        \/ stale[k] \/ k \in joined
        \/ k \notin Direct /\ data[k].at >= renewed

\* A question whose interval keeps running shows in the end what the server
\* has, however often its requests fail, cross a change of the data or meet
\* another cache.
PollingCatchesUp ==
  \A k \in Polled :
    <>[](k \in timer /\ k \in Mounted /\ visible) => <>[](data[k] # None /\ data[k].about = world)
=============================================================================
