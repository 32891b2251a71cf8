----------------------------- MODULE ServedView -----------------------------
(***************************************************************************)
(* What the pages of the terminal promise of the market data they show:    *)
(* for each question nothing, or an answer that was handed out to it and   *)
(* never one handed out before the one shown.  An answer may come from     *)
(* another cache, and then its data may be older than those shown before;  *)
(* where there is no such cache they are not.                              *)
(***************************************************************************)
EXTENDS Naturals

CONSTANTS
  Keys,    \* the questions, as the client tells them apart
  Direct,  \* those that no other cache answers
  None     \* nothing to show

VARIABLES
  world,  \* how often the server's data have changed
  view    \* key: the answer shown: the states of the world that it is about,
          \* and in which it was handed out

ViewInit ==
  /\ world = 0
  /\ view = [k \in Keys |-> None]

Changes == world' = world + 1 /\ UNCHANGED view

Learns(k) ==
  /\ \E answer \in [about : 0..world, at : 0..world] :
       /\ answer.about <= answer.at
       /\ k \in Direct => answer.about = answer.at
       /\ view[k] # None => view[k].at <= answer.at
       /\ view' = [view EXCEPT ![k] = answer]
  /\ UNCHANGED world

Forgets(k) ==
  /\ view' = [view EXCEPT ![k] = None]
  /\ UNCHANGED world

ViewNext == Changes \/ \E k \in Keys : Learns(k) \/ Forgets(k)

ViewSpec == ViewInit /\ [][ViewNext]_<<world, view>>
=============================================================================
