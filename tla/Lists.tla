-------------------------------- MODULE Lists --------------------------------
(***************************************************************************)
(* Lists as the code handles them: filter, map, slice and the distinct     *)
(* elements in their order.  What a filter keeps is said by the places of  *)
(* the list it keeps, a set, about which lemmas can be stated.             *)
(***************************************************************************)
EXTENDS Naturals, Sequences

\* The elements of s at the places in I, in their order.
AtPlaces(s, I) ==
  LET kept[i \in 0..Len(s)] ==
        IF i = 0 THEN <<>>
        ELSE IF i \in I THEN Append(kept[i - 1], s[i])
        ELSE kept[i - 1]
  IN kept[Len(s)]

\* filter.
Where(s, Test(_)) == AtPlaces(s, {i \in DOMAIN s : Test(s[i])})

\* All but x.
Minus(s, x) == Where(s, LAMBDA y : y # x)

\* x stands somewhere before y.
Before(s, x, y) == \E i, j \in 1..Len(s) : i < j /\ s[i] = x /\ s[j] = y

\* slice(0, n).
Take(s, n) == SubSeq(s, 1, IF Len(s) < n THEN Len(s) ELSE n)

\* map.
Mapped(s, Op(_)) == [i \in DOMAIN s |-> Op(s[i])]

\* Where s has what it has not had before.
Firsts(s) == {i \in DOMAIN s : ~\E j \in 1..(i - 1) : s[j] = s[i]}

\* new Set(...): of the elements that are the same As, the first stays.
Distinct(s, As(_)) == AtPlaces(s, Firsts(Mapped(s, As)))
=============================================================================
