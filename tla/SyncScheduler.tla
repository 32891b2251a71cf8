---------------------------- MODULE SyncScheduler ----------------------------
(***************************************************************************)
(* MarketSyncScheduler (backend/services/sync_scheduler.py) and the        *)
(* callback main.py gives it: a loop that polls the clock, calls the sync  *)
(* when a weekday's after-close slot is due and not yet completed, and     *)
(* sleeps.  Time is New York market time in ticks; slot d is the slot of   *)
(* day d.                                                                  *)
(***************************************************************************)
EXTENDS Integers

CONSTANTS
  Days,        \* bound: the days of a behaviour, numbered from 0
  Weekdays,    \* the days that are not Saturday or Sunday
  DayLength,   \* ticks per day
  SlotTime,    \* ticks from midnight to the slot (18:00)
  SlotWindow,  \* SLOT_WINDOW
  Poll,        \* poll_interval_seconds
  Lag          \* bound: how late the event loop may wake the task

ASSUME SlotAssumption ==
  /\ Days \in Nat /\ DayLength \in Nat \ {0}
  /\ SlotTime \in Nat /\ SlotWindow \in Nat /\ SlotTime + SlotWindow <= DayLength
  /\ Weekdays \subseteq Int

ASSUME PollAssumption ==
  Poll \in Nat \ {0} /\ Lag \in Nat /\ Poll + Lag <= SlotWindow

VARIABLES
  now,         \* the clock
  pc,          \* the task: "off", "asleep", "calling"
  wake,        \* when the sleep ends
  calling,     \* the slot the pending callback was begun for
  completed,   \* completed_slots
  succeeded,   \* history: slots whose callback returned in this process
  freeSince    \* history: when the loop last started or left a callback

vars == <<now, pc, wake, calling, completed, succeeded, freeSince>>

Slots == Weekdays \cap 0..Days

NoSlot == -1

SlotStart(d) == d * DayLength + SlotTime
SlotEnd(d) == SlotStart(d) + SlotWindow

InWindow(d, t) == SlotStart(d) <= t /\ t < SlotEnd(d)

\* get_due_sync_slot: the slot whose window holds t, if any.
Due(t) == {d \in Slots : InWindow(d, t)}

Init ==
  /\ now = 0 /\ pc = "off" /\ wake = 0 /\ calling = NoSlot
  /\ completed = {} /\ succeeded = {} /\ freeSince = 0

\* lifespan makes a scheduler with no completed slots and starts it; its
\* first poll is immediate.
Start ==
  /\ pc = "off"
  /\ pc' = "asleep" /\ wake' = now
  /\ completed' = {} /\ succeeded' = {} /\ freeSince' = now
  /\ UNCHANGED <<now, calling>>

\* Mutation: the poll sleeps as long as a slot lasts.
SleepForWindow == pc' = "asleep" /\ wake' = now + SlotWindow

Sleep == pc' = "asleep" /\ wake' = now + Poll

PollNothingDue ==
  /\ pc = "asleep" /\ wake <= now
  /\ Due(now) \subseteq completed
  /\ Sleep
  /\ UNCHANGED <<now, calling, completed, succeeded, freeSince>>

Call ==
  /\ pc = "asleep" /\ wake <= now
  /\ \E d \in Due(now) \ completed : calling' = d
  /\ pc' = "calling"
  /\ UNCHANGED <<now, wake, completed, succeeded, freeSince>>

CallReturns ==
  /\ pc = "calling"
  /\ completed' = completed \cup {calling}
  /\ succeeded' = succeeded \cup {calling}
  /\ calling' = NoSlot
  /\ freeSince' = now
  /\ Sleep
  /\ UNCHANGED now

\* The exception is logged; the slot stays open for the next poll.
CallRaises ==
  /\ pc = "calling"
  /\ calling' = NoSlot
  /\ freeSince' = now
  /\ Sleep
  /\ UNCHANGED <<now, completed, succeeded>>

\* stop() cancels the task wherever it waits; or the process dies.
Stop ==
  /\ pc # "off"
  /\ pc' = "off" /\ calling' = NoSlot
  /\ UNCHANGED <<now, wake, completed, succeeded, freeSince>>

\* asyncio wakes the task no later than Lag after its sleep ended.  A
\* callback takes as long as it takes.
Tick ==
  /\ now < Days * DayLength
  /\ pc = "asleep" => now < wake + Lag
  /\ now' = now + 1
  /\ UNCHANGED <<pc, wake, calling, completed, succeeded, freeSince>>

Next ==
  Start \/ PollNothingDue \/ Call \/ CallReturns \/ CallRaises \/ Stop \/ Tick

Spec == Init /\ [][Next]_vars

-----------------------------------------------------------------------------
(* Properties                                                              *)

TypeOK ==
  /\ now \in Nat /\ wake \in Nat /\ freeSince \in Nat
  /\ pc \in {"off", "asleep", "calling"}
  /\ calling \in IF pc = "calling" THEN Slots ELSE {NoSlot}
  /\ completed \subseteq Slots /\ succeeded \subseteq Slots

\* No slot is wasted: when a weekday's window closes on an idle loop and the
\* slot has not been synced, the loop has been free for no longer than one
\* poll interval and the lag.  In particular a loop that was free all through
\* the window has synced the slot, and a sync that failed is tried again
\* whenever a poll still fits into the window.
WindowUsed ==
  \A d \in Slots :
    pc = "asleep" /\ now = SlotEnd(d) /\ d \notin succeeded =>
      SlotEnd(d) <= freeSince + Poll + Lag

-----------------------------------------------------------------------------
(* Why WindowUsed holds                                                    *)

\* Only synced slots are skipped, and the task wakes on time.
WakeInv ==
  /\ completed \subseteq succeeded
  /\ pc = "asleep" => /\ freeSince <= now
                      /\ now <= wake + Lag
                      /\ wake <= now + Poll

\* An idle loop has just been freed, or no slot it still had to sync was due
\* at its last poll, one interval before it wakes.
PollInv ==
  pc = "asleep" =>
    \/ wake \in {freeSince, freeSince + Poll}
    \/ \A d \in Slots \ succeeded : ~InWindow(d, wake - Poll)

\* The inductive invariant.
SlotInv == TypeOK /\ WakeInv /\ PollInv /\ WindowUsed

=============================================================================
