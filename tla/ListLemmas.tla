------------------------------ MODULE ListLemmas ------------------------------
(***************************************************************************)
(* What filters, slices and the like return, preserve and bound, for lists *)
(* of any length.                                                          *)
(***************************************************************************)
EXTENDS Lists, Integers, SequencesExt, FiniteSetTheorems, NaturalsInduction,
        SequenceTheorems, WellFoundedInduction, TLAPS

\* Induction, for a set of numbers.
LEMMA Inductive ==
  ASSUME NEW S, 0 \in S, \A n \in Nat : n \in S => n + 1 \in S
  PROVE  Nat \subseteq S
<1> SUFFICES ASSUME Nat \ S # {} PROVE FALSE
  OBVIOUS
<1> DEFINE less == OpToRel(<, Nat)
<1>1. less = {p \in Nat \X Nat : p[1] < p[2]}
  BY DEF OpToRel
<1>2. IsWellFoundedOn(less, Nat)
  BY NatLessThanWellFounded
<1> HIDE DEF less
<1>3. PICK d \in Nat \ S : \A e \in Nat \ S : ~ (<<e, d>> \in less)
  BY <1>2, WFMin
<1>4. d # 0 /\ d - 1 \in Nat /\ <<d - 1, d>> \in less
  BY <1>1
<1> QED
  BY <1>3, <1>4

\* A run of the filter over s.
IsRun(kept, s, I, n) ==
  kept = [i \in 0..n |-> IF i = 0 THEN <<>>
                         ELSE IF i \in I THEN Append(kept[i - 1], s[i])
                         ELSE kept[i - 1]]

(* The filter's partial results exist: by induction over the places of the *)
(* list.                                                                   *)
LEMMA RunExists ==
  ASSUME NEW X, NEW s \in Seq(X), NEW I
  PROVE  \E kept : IsRun(kept, s, I, Len(s))
<1> DEFINE S == {n \in Nat : n <= Len(s) => \E kept : IsRun(kept, s, I, n)}
<1>1. 0 \in S
  <2> DEFINE first == [i \in 0..0 |-> <<>>]
  <2>1. IsRun(first, s, I, 0)
    BY DEF IsRun
  <2> QED
    BY <2>1
<1>2. ASSUME NEW n \in Nat, n \in S PROVE n + 1 \in S
  <2> SUFFICES ASSUME n + 1 <= Len(s) PROVE \E kept : IsRun(kept, s, I, n + 1)
    OBVIOUS
  <2>1. PICK kept : IsRun(kept, s, I, n)
    BY <1>2
  <2> DEFINE more == [i \in 0..(n + 1) |->
                        IF i <= n THEN kept[i]
                        ELSE IF n + 1 \in I THEN Append(kept[n], s[n + 1]) ELSE kept[n]]
  <2>2. \A i \in 0..n : more[i] = kept[i]
    OBVIOUS
  <2>3. more[n + 1] = IF n + 1 \in I THEN Append(more[n], s[n + 1]) ELSE more[n]
    BY <2>2
  <2>4. \A i \in 0..n : more[i] = IF i = 0 THEN <<>>
                                  ELSE IF i \in I THEN Append(more[i - 1], s[i])
                                  ELSE more[i - 1]
    <3> TAKE i \in 0..n
    <3>1. kept[i] = IF i = 0 THEN <<>>
                    ELSE IF i \in I THEN Append(kept[i - 1], s[i]) ELSE kept[i - 1]
      BY <2>1 DEF IsRun
    <3>2. i # 0 => i - 1 \in 0..n
      OBVIOUS
    <3> HIDE DEF more
    <3> QED
      BY <2>2, <3>1, <3>2
  <2>5. IsRun(more, s, I, n + 1)
    <3>1. more = [i \in 0..(n + 1) |-> more[i]]
      OBVIOUS
    <3> HIDE DEF more
    <3>2. \A i \in 0..(n + 1) : more[i] = IF i = 0 THEN <<>>
                                          ELSE IF i \in I THEN Append(more[i - 1], s[i])
                                          ELSE more[i - 1]
      <4> TAKE i \in 0..(n + 1)
      <4>1. CASE i \in 0..n
        BY <2>4, <4>1
      <4>2. CASE i = n + 1
        <5>1. i # 0 /\ i - 1 = n
          BY <4>2
        <5> QED
          BY <2>3, <4>2, <5>1
      <4> QED
        BY <4>1, <4>2
    <3> QED
      BY <3>1, <3>2 DEF IsRun
  <2> QED
    BY <2>5
<1>3. Nat \subseteq S
  <2> HIDE DEF S
  <2> QED
    BY <1>1, <1>2, Inductive
<1> QED
  BY <1>3

(* The function that the filter chooses is one of its runs, so its last    *)
(* value is the filtered list.                                             *)
LEMMA RunChosen ==
  ASSUME NEW X, NEW s \in Seq(X), NEW I
  PROVE  \E kept : IsRun(kept, s, I, Len(s)) /\ AtPlaces(s, I) = kept[Len(s)]
<1> DEFINE run == CHOOSE kept : IsRun(kept, s, I, Len(s))
<1>1. IsRun(run, s, I, Len(s))
  BY RunExists
<1>2. AtPlaces(s, I) = run[Len(s)]
  BY DEF AtPlaces, IsRun
<1> QED
  BY <1>1, <1>2

\* The list r is what s has at the places in I among the first n, and g says
\* from which place each element comes.
Selects(g, r, s, I, n) ==
  /\ Len(r) <= n
  /\ g \in [1..Len(r) -> 1..n]
  /\ \A k \in 1..Len(r) : g[k] \in I /\ r[k] = s[g[k]]
  /\ \A j, k \in 1..Len(r) : j < k => g[j] < g[k]
  /\ \A i \in 1..n : i \in I => \E k \in 1..Len(r) : g[k] = i

(* A place that is kept extends the partial result and its map of places   *)
(* by one.                                                                 *)
LEMMA SelectsAppended ==
  ASSUME NEW X, NEW s \in Seq(X), NEW I, NEW n \in Nat, n + 1 \in I, n + 1 <= Len(s),
         NEW r \in Seq(X), NEW g, Selects(g, r, s, I, n)
  PROVE  /\ Append(r, s[n + 1]) \in Seq(X)
         /\ \E h : Selects(h, Append(r, s[n + 1]), s, I, n + 1)
<1> DEFINE q == Append(r, s[n + 1])
           h == [k \in 1..(Len(r) + 1) |-> IF k <= Len(r) THEN g[k] ELSE n + 1]
<1>1. /\ q \in Seq(X) /\ Len(q) = Len(r) + 1 /\ Len(r) \in Nat
      /\ \A k \in 1..Len(r) : q[k] = r[k]
      /\ q[Len(r) + 1] = s[n + 1]
  BY s[n + 1] \in X
<1>2. /\ \A k \in 1..Len(r) : h[k] = g[k] /\ g[k] \in 1..n
      /\ h[Len(r) + 1] = n + 1
      /\ h \in [1..(Len(r) + 1) -> 1..(n + 1)]
  <2>1. Len(r) \in Nat /\ \A k \in 1..Len(r) : g[k] \in 1..n
    BY <1>1 DEF Selects
  <2>2. \A k \in 1..(Len(r) + 1) : h[k] = IF k <= Len(r) THEN g[k] ELSE n + 1
    BY Zenon
  <2>3. \A k \in 1..Len(r) : h[k] = g[k]
    BY <2>1, <2>2
  <2>4. h[Len(r) + 1] = n + 1
    BY <2>1, <2>2
  <2>5. \A k \in 1..(Len(r) + 1) : h[k] \in 1..(n + 1)
    BY <2>1, <2>2
  <2> QED
    BY <2>1, <2>3, <2>4, <2>5
<1> HIDE DEF q, h
<1>3. Len(q) <= n + 1
  BY <1>1 DEF Selects
<1>4. \A k \in 1..Len(q) : h[k] \in I /\ q[k] = s[h[k]]
  <2> TAKE k \in 1..Len(q)
  <2>1. CASE k <= Len(r)
    <3>1. k \in 1..Len(r)
      BY <1>1, <2>1
    <3>2. g[k] \in I /\ r[k] = s[g[k]]
      BY <3>1, Zenon DEF Selects
    <3> QED
      BY <1>1, <1>2, <3>1, <3>2, Zenon
  <2>2. CASE k = Len(r) + 1
    BY <1>1, <1>2, <2>2
  <2> QED
    BY <1>1, <2>1, <2>2
<1>5. \A j, k \in 1..Len(q) : j < k => h[j] < h[k]
  <2> SUFFICES ASSUME NEW j \in 1..Len(q), NEW k \in 1..Len(q), j < k PROVE h[j] < h[k]
    OBVIOUS
  <2>1. j \in 1..Len(r)
    BY <1>1
  <2>2. CASE k <= Len(r)
    BY <1>1, <1>2, <2>1, <2>2 DEF Selects
  <2>3. CASE k = Len(r) + 1
    BY <1>1, <1>2, <2>1, <2>3
  <2> QED
    BY <1>1, <2>2, <2>3
<1>6. \A i \in 1..(n + 1) : i \in I => \E k \in 1..Len(q) : h[k] = i
  <2> SUFFICES ASSUME NEW i \in 1..(n + 1), i \in I PROVE \E k \in 1..Len(q) : h[k] = i
    OBVIOUS
  <2>1. CASE i \in 1..n
    <3>1. PICK k \in 1..Len(r) : g[k] = i
      BY <2>1 DEF Selects
    <3> QED
      BY <1>1, <1>2, <3>1
  <2>2. CASE i = n + 1
    BY <1>1, <1>2, <2>2
  <2> QED
    BY <2>1, <2>2
<1>7. Selects(h, q, s, I, n + 1)
  BY <1>1, <1>2, <1>3, <1>4, <1>5, <1>6 DEF Selects
<1> QED
  BY <1>1, <1>7 DEF q

(* A place that is left out changes neither. *)
LEMMA SelectsSame ==
  ASSUME NEW X, NEW s \in Seq(X), NEW I, NEW n \in Nat, n + 1 \notin I,
         NEW r \in Seq(X), NEW g, Selects(g, r, s, I, n)
  PROVE  Selects(g, r, s, I, n + 1)
BY DEF Selects

(* A filter keeps the elements at its places, each once and in their order. *)
THEOREM AtPlacesSelects ==
  ASSUME NEW X, NEW s \in Seq(X), NEW I
  PROVE  /\ AtPlaces(s, I) \in Seq(X)
         /\ \E g : Selects(g, AtPlaces(s, I), s, I, Len(s))
<1>1. PICK kept : IsRun(kept, s, I, Len(s)) /\ AtPlaces(s, I) = kept[Len(s)]
  BY RunChosen
<1> DEFINE S == {n \in Nat : n <= Len(s) =>
                   kept[n] \in Seq(X) /\ \E g : Selects(g, kept[n], s, I, n)}
<1>2. \A i \in 0..Len(s) : kept[i] = IF i = 0 THEN <<>>
                                    ELSE IF i \in I THEN Append(kept[i - 1], s[i])
                                    ELSE kept[i - 1]
  BY <1>1 DEF IsRun
<1>3. 0 \in S
  <2> DEFINE none == [k \in 1..0 |-> 0]
  <2>1. kept[0] = <<>> /\ <<>> \in Seq(X) /\ Len(<<>>) = 0
    BY <1>2
  <2>2. none \in [1..0 -> 1..0]
    OBVIOUS
  <2>3. Selects(none, <<>>, s, I, 0)
    BY <2>1, <2>2 DEF Selects
  <2> QED
    BY <2>1, <2>3
<1>4. ASSUME NEW n \in Nat, n \in S PROVE n + 1 \in S
  <2> SUFFICES ASSUME n + 1 <= Len(s)
               PROVE  /\ kept[n + 1] \in Seq(X)
                      /\ \E g : Selects(g, kept[n + 1], s, I, n + 1)
    OBVIOUS
  <2>1. kept[n] \in Seq(X)
    BY <1>4
  <2>2. PICK g : Selects(g, kept[n], s, I, n)
    BY <1>4
  <2>3. n + 1 \in 0..Len(s) /\ n + 1 # 0 /\ (n + 1) - 1 = n
    OBVIOUS
  <2>4. kept[n + 1] = IF n + 1 \in I THEN Append(kept[n], s[n + 1]) ELSE kept[n]
    BY <1>2, <2>3
  <2>5. CASE n + 1 \in I
    BY <2>1, <2>2, <2>4, <2>5, SelectsAppended
  <2>6. CASE n + 1 \notin I
    BY <2>1, <2>2, <2>4, <2>6, SelectsSame
  <2> QED
    BY <2>5, <2>6
<1>5. Nat \subseteq S
  <2> HIDE DEF S
  <2> QED
    BY <1>3, <1>4, Inductive
<1> QED
  BY <1>1, <1>5

-----------------------------------------------------------------------------
(* What follows for the elements                                           *)

(* What a filtered list holds: the elements at the kept places, none twice *)
(* when the list had none twice.                                           *)
LEMMA FilteredElements ==
  ASSUME NEW X, NEW s \in Seq(X), NEW I
  PROVE  /\ ToSet(AtPlaces(s, I)) = {s[i] : i \in I \cap (1..Len(s))}
         /\ ToSet(AtPlaces(s, I)) \subseteq ToSet(s)
         /\ Len(AtPlaces(s, I)) <= Len(s)
         /\ IsInjective(s) => IsInjective(AtPlaces(s, I))
<1> DEFINE r == AtPlaces(s, I)
<1>1. PICK g : Selects(g, r, s, I, Len(s))
  BY AtPlacesSelects
<1>2. r \in Seq(X) /\ DOMAIN r = 1..Len(r) /\ DOMAIN s = 1..Len(s) /\ Len(r) \in Nat
  BY AtPlacesSelects
<1> HIDE DEF r
<1>3. \A k \in 1..Len(r) : g[k] \in I \cap (1..Len(s)) /\ r[k] = s[g[k]]
  BY <1>1 DEF Selects
<1>4. ASSUME NEW i \in I \cap (1..Len(s))
      PROVE  \E k \in 1..Len(r) : r[k] = s[i]
  <2>1. PICK k \in 1..Len(r) : g[k] = i
    BY <1>1 DEF Selects
  <2> QED
    BY <1>3, <2>1
<1>5. ToSet(r) = {s[i] : i \in I \cap (1..Len(s))}
  <2>1. ToSet(r) = {r[k] : k \in 1..Len(r)}
    BY <1>2, Zenon DEF ToSet
  <2>2. {r[k] : k \in 1..Len(r)} \subseteq {s[i] : i \in I \cap (1..Len(s))}
    BY <1>3, SMTT(20)
  <2>3. ASSUME NEW i \in I \cap (1..Len(s)) PROVE s[i] \in {r[k] : k \in 1..Len(r)}
    BY <1>4, Zenon
  <2>4. {s[i] : i \in I \cap (1..Len(s))} \subseteq {r[k] : k \in 1..Len(r)}
    BY <2>3, Zenon
  <2> QED
    BY <2>1, <2>2, <2>4, Zenon
<1>6. ToSet(r) \subseteq ToSet(s)
  BY <1>2, <1>5 DEF ToSet
<1>7. ASSUME IsInjective(s), NEW j \in 1..Len(r), NEW k \in 1..Len(r), r[j] = r[k]
      PROVE  j = k
  <2>1. g[j] = g[k]
    BY <1>2, <1>3, <1>7 DEF IsInjective
  <2>2. ~ (j < k) /\ ~ (k < j)
    BY <1>1, <1>3, <2>1 DEF Selects
  <2> QED
    BY <1>2, <2>2
<1>8. IsInjective(s) => IsInjective(r)
  BY <1>2, <1>7 DEF IsInjective
<1> QED
  BY <1>1, <1>5, <1>6, <1>8 DEF r, Selects

(* A filter leaves nothing exactly when no place is kept. *)
LEMMA FilteredNone ==
  ASSUME NEW X, NEW s \in Seq(X), NEW I
  PROVE  AtPlaces(s, I) = <<>> <=> I \cap (1..Len(s)) = {}
<1> DEFINE r == AtPlaces(s, I)
<1>1. r \in Seq(X) /\ ToSet(r) = {s[i] : i \in I \cap (1..Len(s))}
  BY FilteredElements, AtPlacesSelects
<1> HIDE DEF r
<1>2. r = <<>> <=> Len(r) = 0
  BY <1>1
<1>3. ToSet(r) = {} <=> Len(r) = 0
  <2>1. DOMAIN r = 1..Len(r) /\ Len(r) \in Nat
    BY <1>1
  <2>2. Len(r) > 0 => r[1] \in ToSet(r)
    BY <2>1 DEF ToSet
  <2>3. Len(r) = 0 => DOMAIN r = {}
    BY <2>1
  <2>4. DOMAIN r = {} => ToSet(r) = {}
    BY DEF ToSet
  <2> QED
    BY <2>1, <2>2, <2>3, <2>4
<1> QED
  BY <1>1, <1>2, <1>3 DEF r

\* The first element is the one at the first of the places.
LEMMA FilteredFirst ==
  ASSUME NEW X, NEW s \in Seq(X), NEW I, NEW i \in I \cap (1..Len(s)),
         \A j \in I \cap (1..Len(s)) : i <= j
  PROVE  Len(AtPlaces(s, I)) > 0 /\ AtPlaces(s, I)[1] = s[i]
<1> DEFINE r == AtPlaces(s, I)
<1>1. PICK g : Selects(g, r, s, I, Len(s))
  BY AtPlacesSelects
<1>2. r \in Seq(X) /\ Len(r) \in Nat
  BY AtPlacesSelects
<1> HIDE DEF r
<1>3. PICK k \in 1..Len(r) : g[k] = i
  BY <1>1 DEF Selects
<1>4. g[1] \in I \cap (1..Len(s)) /\ r[1] = s[g[1]]
  BY <1>2, <1>1, <1>3 DEF Selects
<1>5. k = 1
  BY <1>1, <1>2, <1>3, <1>4 DEF Selects
<1> QED
  BY <1>2, <1>3, <1>4, <1>5 DEF r

\* A filter that takes everything changes nothing.
LEMMA FilteredAll ==
  ASSUME NEW X, NEW s \in Seq(X), NEW I, 1..Len(s) \subseteq I
  PROVE  AtPlaces(s, I) = s
<1>1. PICK kept : IsRun(kept, s, I, Len(s)) /\ AtPlaces(s, I) = kept[Len(s)]
  BY RunChosen
<1> DEFINE S == {n \in Nat : n <= Len(s) =>
                   kept[n] \in Seq(X) /\ Len(kept[n]) = n /\ \A i \in 1..n : kept[n][i] = s[i]}
<1>2. \A i \in 0..Len(s) : kept[i] = IF i = 0 THEN <<>>
                                    ELSE IF i \in I THEN Append(kept[i - 1], s[i])
                                    ELSE kept[i - 1]
  BY <1>1 DEF IsRun
<1>3. 0 \in S
  <2>0. 0 \in 0..Len(s)
    OBVIOUS
  <2>1. kept[0] = <<>>
    BY <1>2, <2>0, Zenon
  <2>2. kept[0] \in Seq(X) /\ Len(kept[0]) = 0
    BY <2>1
  <2> QED
    BY <2>2
<1>4. ASSUME NEW n \in Nat, n \in S PROVE n + 1 \in S
  <2> SUFFICES ASSUME n + 1 <= Len(s)
               PROVE  /\ kept[n + 1] \in Seq(X) /\ Len(kept[n + 1]) = n + 1
                      /\ \A i \in 1..(n + 1) : kept[n + 1][i] = s[i]
    OBVIOUS
  <2>1. kept[n] \in Seq(X) /\ Len(kept[n]) = n /\ \A i \in 1..n : kept[n][i] = s[i]
    BY <1>4
  <2>2. n + 1 \in 0..Len(s) /\ n + 1 # 0 /\ (n + 1) - 1 = n /\ n + 1 \in I
    OBVIOUS
  <2>3. kept[n + 1] = Append(kept[n], s[n + 1])
    BY <1>2, <2>2
  <2>4. s[n + 1] \in X
    OBVIOUS
  <2> HIDE DEF S
  <2> QED
    BY <2>1, <2>3, <2>4
<1>5. Nat \subseteq S
  <2> HIDE DEF S
  <2> QED
    BY <1>3, <1>4, Inductive
<1>6. LET r == kept[Len(s)]
      IN r \in Seq(X) /\ Len(r) = Len(s) /\ \A i \in 1..Len(s) : r[i] = s[i]
  BY <1>5
<1> QED
  BY <1>1, <1>6, SeqEqual

-----------------------------------------------------------------------------
(* Slices and distinct elements                                            *)

(* What the first n of a list are (slice(0, n)). *)
LEMMA TakeFacts ==
  ASSUME NEW X, NEW s \in Seq(X), NEW n \in Nat
  PROVE  /\ Take(s, n) \in Seq(X)
         /\ Len(Take(s, n)) <= n /\ Len(Take(s, n)) <= Len(s)
         /\ Len(Take(s, n)) = Len(s) \/ Len(Take(s, n)) = n
         /\ \A i \in 1..Len(Take(s, n)) : Take(s, n)[i] = s[i]
         /\ ToSet(Take(s, n)) \subseteq ToSet(s)
         /\ IsInjective(s) => IsInjective(Take(s, n))
         /\ Len(s) <= n => Take(s, n) = s
<1> DEFINE r == Take(s, n)
<1>1. /\ r \in Seq(X) /\ Len(r) \in Nat
      /\ Len(r) = IF Len(s) < n THEN Len(s) ELSE n
      /\ \A i \in 1..Len(r) : r[i] = s[i]
  BY DEF Take
<1> HIDE DEF r
<1>2. DOMAIN r = 1..Len(r) /\ DOMAIN s = 1..Len(s)
  BY <1>1
<1>3. ToSet(r) \subseteq ToSet(s)
  BY <1>1, <1>2 DEF ToSet
<1>4. IsInjective(s) => IsInjective(r)
  BY <1>1, <1>2 DEF IsInjective
<1>5. Len(s) <= n => r = s
  BY <1>1, SeqEqual
<1> QED
  BY <1>1, <1>3, <1>4, <1>5 DEF r

\* Wherever t has something, it has had it for the first time at one of its
\* firsts.
LEMMA FirstBefore ==
  ASSUME NEW X, NEW t \in Seq(X), NEW i \in 1..Len(t)
  PROVE  \E j \in Firsts(t) : j <= i /\ t[j] = t[i]
<1> DEFINE S == {n \in Nat : \A k \in 1..Len(t) : k <= n =>
                              \E j \in Firsts(t) : j <= k /\ t[j] = t[k]}
<1>1. 0 \in S
  OBVIOUS
<1>2. ASSUME NEW n \in Nat, n \in S PROVE n + 1 \in S
  <2> SUFFICES ASSUME NEW k \in 1..Len(t), k = n + 1
               PROVE  \E j \in Firsts(t) : j <= k /\ t[j] = t[k]
    BY <1>2
  <2>1. CASE \E j \in 1..(k - 1) : t[j] = t[k]
    <3>1. PICK j \in 1..(k - 1) : t[j] = t[k]
      BY <2>1
    <3>2. j \in 1..Len(t) /\ j <= n
      OBVIOUS
    <3>3. PICK m \in Firsts(t) : m <= j /\ t[m] = t[j]
      BY <1>2, <3>2
    <3>4. m \in Nat
      BY DEF Firsts
    <3> QED
      BY <3>1, <3>3, <3>4
  <2>2. CASE ~ \E j \in 1..(k - 1) : t[j] = t[k]
    BY <2>2 DEF Firsts
  <2> QED
    BY <2>1, <2>2
<1>3. Nat \subseteq S
  <2> HIDE DEF S
  <2> QED
    BY <1>1, <1>2, Inductive
<1> QED
  BY <1>3

(* The distinct elements of a list are all there is in it, each once, and   *)
(* the first stays the first.                                               *)
THEOREM DistinctElements ==
  ASSUME NEW X, NEW s \in Seq(X)
  PROVE  /\ AtPlaces(s, Firsts(s)) \in Seq(X)
         /\ ToSet(AtPlaces(s, Firsts(s))) = ToSet(s)
         /\ IsInjective(AtPlaces(s, Firsts(s)))
         /\ Len(AtPlaces(s, Firsts(s))) <= Len(s)
         /\ s # <<>> => Len(AtPlaces(s, Firsts(s))) > 0 /\ AtPlaces(s, Firsts(s))[1] = s[1]
         /\ IsInjective(s) => AtPlaces(s, Firsts(s)) = s
<1> DEFINE r == AtPlaces(s, Firsts(s))
<1>1. PICK g : Selects(g, r, s, Firsts(s), Len(s))
  BY AtPlacesSelects
<1>2. r \in Seq(X) /\ DOMAIN r = 1..Len(r) /\ DOMAIN s = 1..Len(s) /\ Len(r) \in Nat
  BY AtPlacesSelects
<1>3. ToSet(r) = {s[i] : i \in Firsts(s) \cap (1..Len(s))} /\ Len(r) <= Len(s)
  BY FilteredElements
<1>4. Firsts(s) \subseteq 1..Len(s)
  BY <1>2 DEF Firsts
<1>5. s # <<>> => Len(r) > 0 /\ r[1] = s[1]
  <2> SUFFICES ASSUME s # <<>> PROVE Len(r) > 0 /\ r[1] = s[1]
    OBVIOUS
  <2>1. 1 \in Firsts(s) \cap (1..Len(s))
    BY <1>2 DEF Firsts
  <2>2. \A j \in Firsts(s) \cap (1..Len(s)) : 1 <= j
    OBVIOUS
  <2> QED
    BY <2>1, <2>2, FilteredFirst
<1>6. IsInjective(s) => r = s
  <2> SUFFICES ASSUME IsInjective(s) PROVE 1..Len(s) \subseteq Firsts(s)
    BY FilteredAll
  <2> QED
    BY <1>2 DEF Firsts, IsInjective
<1> HIDE DEF r
<1>7. ToSet(r) = ToSet(s)
  <2>1. \A i \in 1..Len(s) : \E j \in Firsts(s) : s[j] = s[i]
    BY FirstBefore
  <2> QED
    BY <1>2, <1>3, <1>4, <2>1 DEF ToSet
<1>8. ASSUME NEW j \in 1..Len(r), NEW k \in 1..Len(r), j < k PROVE r[j] # r[k]
  <2>1. /\ g[j] \in Firsts(s) /\ g[k] \in Firsts(s) /\ g[j] < g[k]
        /\ r[j] = s[g[j]] /\ r[k] = s[g[k]]
    BY <1>1, <1>8 DEF Selects
  <2>2. g[j] \in 1..(g[k] - 1)
    BY <1>4, <2>1
  <2> QED
    BY <2>1, <2>2 DEF Firsts
<1>9. IsInjective(r)
  BY <1>2, <1>8 DEF IsInjective
<1> QED
  BY <1>2, <1>3, <1>5, <1>6, <1>7, <1>9 DEF r

(* The two first elements of a filtered list, by their places. *)
LEMMA FilteredSecond ==
  ASSUME NEW X, NEW s \in Seq(X), NEW I,
         NEW i \in I \cap (1..Len(s)), NEW j \in I \cap (1..Len(s)), i < j,
         \A k \in I \cap (1..Len(s)) : k = i \/ j <= k
  PROVE  /\ Len(AtPlaces(s, I)) > 1
         /\ AtPlaces(s, I)[1] = s[i] /\ AtPlaces(s, I)[2] = s[j]
<1> DEFINE r == AtPlaces(s, I)
<1>1. PICK g : Selects(g, r, s, I, Len(s))
  BY AtPlacesSelects
<1>2. r \in Seq(X) /\ Len(r) \in Nat
  BY AtPlacesSelects
<1>3. r[1] = s[i]
  <2>1. \A k \in I \cap (1..Len(s)) : i <= k
    OBVIOUS
  <2> QED
    BY <2>1, FilteredFirst
<1> HIDE DEF r
<1>4. PICK k \in 1..Len(r) : g[k] = i
  BY <1>1 DEF Selects
<1>5. PICK m \in 1..Len(r) : g[m] = j
  BY <1>1 DEF Selects
<1>6. \A n \in 1..Len(r) : g[n] = i \/ j <= g[n]
  BY <1>1 DEF Selects
<1>7. k < m
  BY <1>1, <1>2, <1>4, <1>5 DEF Selects
<1>8. m = 2
  <2>1. 1 \in 1..Len(r) /\ 2 \in 1..Len(r)
    BY <1>2, <1>7
  <2>2. g[1] < g[2]
    BY <1>1, <2>1 DEF Selects
  <2>3. j <= g[2]
    <3>1. (g[1] = i \/ j <= g[1]) /\ (g[2] = i \/ j <= g[2])
      BY <1>6, <2>1
    <3>2. g[1] \in Nat /\ g[2] \in Nat /\ i \in Nat /\ j \in Nat
      BY <1>1, <2>1 DEF Selects
    <3> QED
      BY <2>2, <3>1, <3>2
  <2>4. ~ (2 < m)
    BY <1>1, <1>5, <2>1, <2>3 DEF Selects
  <2> QED
    BY <1>2, <1>7, <2>4
<1> QED
  BY <1>1, <1>2, <1>3, <1>5, <1>8 DEF r, Selects

(* One element before a list. *)
LEMMA PrependedFacts ==
  ASSUME NEW X, NEW x \in X, NEW s \in Seq(X)
  PROVE  /\ <<x>> \o s \in Seq(X)
         /\ Len(<<x>> \o s) = Len(s) + 1
         /\ (<<x>> \o s)[1] = x
         /\ \A i \in 1..Len(s) : (<<x>> \o s)[i + 1] = s[i]
         /\ ToSet(<<x>> \o s) = {x} \cup ToSet(s)
<1> DEFINE t == <<x>> \o s
<1>1. /\ t \in Seq(X) /\ Len(t) = Len(s) + 1 /\ t[1] = x
      /\ \A i \in 1..Len(s) : t[i + 1] = s[i]
  OBVIOUS
<1>2. DOMAIN t = 1..(Len(s) + 1) /\ DOMAIN s = 1..Len(s) /\ Len(s) \in Nat
  BY <1>1
<1> HIDE DEF t
<1>3. ASSUME NEW i \in 1..(Len(s) + 1) PROVE t[i] = x \/ (i - 1 \in 1..Len(s) /\ t[i] = s[i - 1])
  <2>1. i = 1 \/ i - 1 \in 1..Len(s)
    BY <1>2
  <2> QED
    BY <1>1, <2>1
<1>4. \A i \in 1..Len(s) : i + 1 \in 1..(Len(s) + 1)
  BY <1>2
<1>5. ToSet(t) = {x} \cup ToSet(s)
  BY <1>1, <1>2, <1>3, <1>4 DEF ToSet
<1> QED
  BY <1>1, <1>5 DEF t

(* A list without repetitions is as long as it has elements.                *)
LEMMA CountDistinct ==
  ASSUME NEW X, NEW s \in Seq(X), IsInjective(s)
  PROVE  IsFiniteSet(ToSet(s)) /\ Cardinality(ToSet(s)) = Len(s)
<1>1. ExistsBijection(1..Len(s), ToSet(s))
  <2>1. s \in Bijection(1..Len(s), ToSet(s))
    <3>1. DOMAIN s = 1..Len(s) /\ s \in [1..Len(s) -> ToSet(s)]
      BY DEF ToSet
    <3> QED
      BY <3>1 DEF ToSet, IsInjective, Bijection, Injection, Surjection
  <2> QED
    BY <2>1 DEF ExistsBijection
<1>2. IsFiniteSet(ToSet(s))
  BY <1>1, FS_Interval, FS_Bijection
<1> QED
  BY <1>1, <1>2, FS_CountingElements

(* The first n of the distinct elements of a list. *)
LEMMA HeadFacts ==
  ASSUME NEW X, NEW t \in Seq(X), NEW n \in Nat \ {0}
  PROVE  LET r == Take(AtPlaces(t, Firsts(t)), n)
         IN /\ r \in Seq(X) /\ Len(r) <= n /\ IsInjective(r)
            /\ ToSet(r) \subseteq ToSet(t)
            /\ t # <<>> => Len(r) > 0 /\ r[1] = t[1]
            /\ IsInjective(t) /\ Len(t) <= n => r = t
            /\ Cardinality(ToSet(t)) <= n => ToSet(r) = ToSet(t)
<1> DEFINE d == AtPlaces(t, Firsts(t))
           r == Take(d, n)
<1>1. /\ d \in Seq(X) /\ ToSet(d) = ToSet(t) /\ IsInjective(d)
      /\ t # <<>> => Len(d) > 0 /\ d[1] = t[1]
      /\ IsInjective(t) => d = t
  BY DistinctElements
<1> HIDE DEF d
<1>2. /\ r \in Seq(X) /\ Len(r) <= n /\ ToSet(r) \subseteq ToSet(d) /\ IsInjective(r)
      /\ Len(r) = Len(d) \/ Len(r) = n
      /\ \A i \in 1..Len(r) : r[i] = d[i]
      /\ Len(d) <= n => r = d
  BY <1>1, TakeFacts
<1> HIDE DEF r
<1>3. ASSUME t # <<>> PROVE Len(r) > 0 /\ r[1] = t[1]
  BY <1>1, <1>2, <1>3
<1>4. ASSUME IsInjective(t), Len(t) <= n PROVE r = t
  BY <1>1, <1>2, <1>4
<1>5. ASSUME Cardinality(ToSet(t)) <= n PROVE ToSet(r) = ToSet(t)
  <2>1. Cardinality(ToSet(d)) = Len(d)
    BY <1>1, CountDistinct
  <2> QED
    BY <1>1, <1>2, <1>5, <2>1
<1> QED
  BY <1>1, <1>2, <1>3, <1>4, <1>5 DEF r, d

-----------------------------------------------------------------------------
(* Dropping from a list, and moving an element to its end                  *)

(* A filter leaves what it keeps in its order. *)
LEMMA FilteredOrder ==
  ASSUME NEW X, NEW s \in Seq(X), NEW I, NEW x, NEW y
  PROVE  Before(AtPlaces(s, I), x, y) => Before(s, x, y)
<1> DEFINE r == AtPlaces(s, I)
<1>1. PICK g : Selects(g, r, s, I, Len(s))
  BY AtPlacesSelects
<1> HIDE DEF r
<1> SUFFICES ASSUME NEW i \in 1..Len(r), NEW j \in 1..Len(r), i < j, r[i] = x, r[j] = y
             PROVE  Before(s, x, y)
  BY DEF Before, r
<1>2. /\ g[i] \in 1..Len(s) /\ g[j] \in 1..Len(s) /\ g[i] < g[j]
      /\ s[g[i]] = x /\ s[g[j]] = y
  BY <1>1 DEF Selects
<1> QED
  BY <1>2 DEF Before

(* What has no x stays in its order when x is taken out. *)
LEMMA MinusFacts ==
  ASSUME NEW X, NEW s \in Seq(X), NEW x
  PROVE  /\ Minus(s, x) \in Seq(X)
         /\ ToSet(Minus(s, x)) = ToSet(s) \ {x}
         /\ IsInjective(s) => IsInjective(Minus(s, x))
         /\ \A y, z : Before(Minus(s, x), y, z) => Before(s, y, z)
         /\ \A y, z : y # x /\ z # x /\ Before(s, y, z) => Before(Minus(s, x), y, z)
<1> DEFINE I == {i \in DOMAIN s : s[i] # x}
           r == AtPlaces(s, I)
<1>1. Minus(s, x) = r
  BY DEF Minus, Where
<1>2. /\ r \in Seq(X) /\ ToSet(r) = {s[i] : i \in I \cap (1..Len(s))}
      /\ IsInjective(s) => IsInjective(r)
      /\ \A y, z : Before(r, y, z) => Before(s, y, z)
  BY AtPlacesSelects, FilteredElements, FilteredOrder
<1>3. PICK g : Selects(g, r, s, I, Len(s))
  BY AtPlacesSelects
<1> HIDE DEF r
<1>4. ToSet(r) = ToSet(s) \ {x}
  <2>1. I \cap (1..Len(s)) = I
    OBVIOUS
  <2>2. {s[i] : i \in I} = ToSet(s) \ {x}
    BY DEF ToSet
  <2> HIDE DEF I
  <2> QED
    BY <1>2, <2>1, <2>2
<1>5. ASSUME NEW y, NEW z, y # x, z # x, Before(s, y, z) PROVE Before(r, y, z)
  <2>1. PICK i \in 1..Len(s), j \in 1..Len(s) : i < j /\ s[i] = y /\ s[j] = z
    BY <1>5 DEF Before
  <2>2. i \in I /\ j \in I
    BY <1>5, <2>1
  <2>3. PICK a \in 1..Len(r), b \in 1..Len(r) : g[a] = i /\ g[b] = j
    BY <1>3, <2>2 DEF Selects
  <2>4. r[a] = y /\ r[b] = z
    BY <1>3, <2>1, <2>3 DEF Selects
  <2>5. a < b
    <3>1. a # b
      BY <2>1, <2>3
    <3>2. b < a => g[b] < g[a]
      BY <1>3 DEF Selects
    <3>3. ~ (b < a)
      BY <2>1, <2>3, <3>2
    <3> QED
      BY <1>2, <2>3, <3>1, <3>3
  <2> QED
    BY <2>4, <2>5 DEF Before
<1> QED
  BY <1>1, <1>2, <1>4, <1>5

(* Moving x to the end leaves the others in their order, before x. *)
LEMMA MovedToEnd ==
  ASSUME NEW X, NEW s \in Seq(X), NEW x \in X
  PROVE  LET t == Append(Minus(s, x), x)
         IN /\ t \in Seq(X) /\ ToSet(t) = ToSet(s) \cup {x}
            /\ t[Len(t)] = x /\ Len(t) > 0
            /\ \A i \in 1..Len(t) : t[i] = x => i = Len(t)
            /\ IsInjective(s) => IsInjective(t)
            /\ \A y, z : Before(t, y, z) <=>
                 \/ y # x /\ z # x /\ Before(s, y, z)
                 \/ y \in ToSet(s) \ {x} /\ z = x
<1> DEFINE r == Minus(s, x)
           t == Append(r, x)
<1>1. /\ r \in Seq(X) /\ ToSet(r) = ToSet(s) \ {x}
      /\ IsInjective(s) => IsInjective(r)
      /\ \A y, z : Before(r, y, z) => Before(s, y, z)
      /\ \A y, z : y # x /\ z # x /\ Before(s, y, z) => Before(r, y, z)
  BY MinusFacts
<1> HIDE DEF r
<1>2. /\ t \in Seq(X) /\ Len(t) = Len(r) + 1 /\ Len(r) \in Nat /\ t[Len(r) + 1] = x
      /\ \A i \in 1..Len(r) : t[i] = r[i]
  BY <1>1
<1> HIDE DEF t
<1>3. \A i \in 1..Len(t) : i \in 1..Len(r) \/ i = Len(r) + 1
  BY <1>2
<1>4. DOMAIN r = 1..Len(r) /\ DOMAIN t = 1..Len(t) /\ \A i \in 1..Len(r) : r[i] # x
  <2>1. DOMAIN r = 1..Len(r) /\ DOMAIN t = 1..Len(t)
    BY <1>1, <1>2
  <2>2. \A i \in 1..Len(r) : r[i] \in ToSet(r)
    BY <2>1, Zenon DEF ToSet
  <2> QED
    BY <1>1, <2>1, <2>2, Zenon
<1>5. ToSet(t) = ToSet(s) \cup {x}
  <2>1. ToSet(t) = ToSet(r) \cup {x}
    <3>1. ToSet(t) \subseteq ToSet(r) \cup {x}
      BY <1>2, <1>3, <1>4 DEF ToSet
    <3>2. ToSet(r) \subseteq ToSet(t)
      BY <1>2, <1>4 DEF ToSet
    <3>3. x \in ToSet(t)
      BY <1>2, <1>4 DEF ToSet
    <3> QED
      BY <3>1, <3>2, <3>3
  <2> QED
    BY <1>1, <2>1
<1>6. \A i \in 1..Len(t) : t[i] = x => i = Len(t)
  BY <1>2, <1>3, <1>4
<1>7. ASSUME IsInjective(s) PROVE IsInjective(t)
  <2>1. \A i, j \in 1..Len(r) : r[i] = r[j] => i = j
    BY <1>1, <1>4, <1>7 DEF IsInjective
  <2>2. \A i, j \in 1..Len(t) : t[i] = t[j] => i = j
    BY <1>2, <1>3, <1>4, <1>6, <2>1
  <2> QED
    BY <1>4, <2>2 DEF IsInjective
<1>8. ASSUME NEW y, NEW z, Before(t, y, z)
      PROVE  \/ y # x /\ z # x /\ Before(s, y, z)
             \/ y \in ToSet(s) \ {x} /\ z = x
  <2>1. PICK i \in 1..Len(t), j \in 1..Len(t) : i < j /\ t[i] = y /\ t[j] = z
    BY <1>8 DEF Before
  <2>2. i \in 1..Len(r) /\ y = r[i]
    BY <1>2, <1>3, <2>1
  <2>5. y # x /\ y \in ToSet(s) \ {x}
    BY <1>1, <1>4, <2>2 DEF ToSet
  <2>3. CASE j \in 1..Len(r)
    <3>1. z = r[j] /\ z # x
      BY <1>2, <1>4, <2>1, <2>3
    <3>2. Before(r, y, z)
      BY <2>1, <2>2, <2>3, <3>1 DEF Before
    <3> QED
      BY <1>1, <2>5, <3>1, <3>2
  <2>4. CASE j = Len(r) + 1
    BY <1>2, <2>1, <2>4, <2>5
  <2> QED
    BY <1>3, <2>1, <2>3, <2>4
<1>9. ASSUME NEW y, NEW z, y # x, z # x, Before(s, y, z) PROVE Before(t, y, z)
  <2>1. PICK i \in 1..Len(r), j \in 1..Len(r) : i < j /\ r[i] = y /\ r[j] = z
    BY <1>1, <1>9 DEF Before
  <2> QED
    BY <1>2, <2>1 DEF Before
<1>10. ASSUME NEW y \in ToSet(s) \ {x} PROVE Before(t, y, x)
  <2>1. PICK i \in 1..Len(r) : r[i] = y
    BY <1>1, <1>4 DEF ToSet
  <2> QED
    BY <1>2, <2>1 DEF Before
<1> QED
  BY <1>2, <1>5, <1>6, <1>7, <1>8, <1>9, <1>10 DEF t, r

(* The first n dropped. *)
LEMMA DroppedFacts ==
  ASSUME NEW X, NEW s \in Seq(X), NEW n \in Nat, n <= Len(s)
  PROVE  LET r == SubSeq(s, n + 1, Len(s))
         IN /\ r \in Seq(X) /\ Len(r) = Len(s) - n
            /\ \A i \in 1..Len(r) : r[i] = s[n + i]
            /\ ToSet(r) = {s[i] : i \in (n + 1)..Len(s)}
            /\ IsInjective(s) => IsInjective(r)
            /\ \A x, y : Before(r, x, y) => Before(s, x, y)
<1> DEFINE r == SubSeq(s, n + 1, Len(s))
<1>1. /\ r \in Seq(X) /\ Len(r) = Len(s) - n /\ Len(r) \in Nat /\ Len(s) \in Nat
      /\ \A i \in 1..Len(r) : r[i] = s[n + i]
      /\ DOMAIN r = 1..Len(r) /\ DOMAIN s = 1..Len(s)
  <2>1. /\ n + 1 \in 1..(Len(s) + 1) /\ Len(s) \in Nat
        /\ \A i \in (n + 1)..Len(s) : s[i] \in X
    OBVIOUS
  <2>2. r \in Seq(X)
    BY <2>1
  <2>3. Len(r) = Len(s) - n
    BY <2>1
  <2>4. \A i \in 1..Len(r) : r[i] = s[n + i]
    BY <2>1, <2>3
  <2> HIDE DEF r
  <2> QED
    BY <2>1, <2>2, <2>3, <2>4
<1> HIDE DEF r
<1>2. \A i \in (n + 1)..Len(s) : i - n \in 1..Len(r) /\ r[i - n] = s[i]
  BY <1>1
<1>3. \A i \in 1..Len(r) : n + i \in (n + 1)..Len(s) /\ n + i \in 1..Len(s)
  BY <1>1
<1>4. ToSet(r) = {s[i] : i \in (n + 1)..Len(s)}
  <2>1. ASSUME NEW x \in ToSet(r) PROVE x \in {s[i] : i \in (n + 1)..Len(s)}
    BY <1>1, <1>3, <2>1 DEF ToSet
  <2>2. ASSUME NEW i \in (n + 1)..Len(s) PROVE s[i] \in ToSet(r)
    BY <1>1, <1>2 DEF ToSet
  <2> QED
    BY <2>1, <2>2
<1>5. ASSUME IsInjective(s) PROVE IsInjective(r)
  <2> SUFFICES ASSUME NEW i \in 1..Len(r), NEW j \in 1..Len(r), r[i] = r[j] PROVE i = j
    BY <1>1 DEF IsInjective
  <2>1. n + i = n + j
    BY <1>1, <1>3, <1>5 DEF IsInjective
  <2> QED
    BY <1>1, <2>1
<1>6. ASSUME NEW x, NEW y, Before(r, x, y) PROVE Before(s, x, y)
  <2>1. PICK i \in 1..Len(r), j \in 1..Len(r) : i < j /\ r[i] = x /\ r[j] = y
    BY <1>6 DEF Before
  <2>2. n + i < n + j /\ s[n + i] = x /\ s[n + j] = y
    BY <1>1, <2>1
  <2> QED
    BY <1>3, <2>1, <2>2 DEF Before
<1> QED
  BY <1>1, <1>4, <1>5, <1>6 DEF r

\* The list r that a filter leaves of s, cut in two where s is cut at c.
Cut(s, r, c) ==
  \E d \in 0..Len(r) :
    /\ d <= c /\ Len(r) - d <= Len(s) - c
    /\ \A k \in 1..d : \E i \in 1..c : r[k] = s[i]

(* A filter keeps no more than there is on either side of a cut. *)
LEMMA FilteredCut ==
  ASSUME NEW X, NEW s \in Seq(X), NEW I, NEW c \in 0..Len(s)
  PROVE  Cut(s, AtPlaces(s, I), c)
<1>1. PICK kept : IsRun(kept, s, I, Len(s)) /\ AtPlaces(s, I) = kept[Len(s)]
  BY RunChosen
<1>2. \A i \in 0..Len(s) : kept[i] = IF i = 0 THEN <<>>
                                    ELSE IF i \in I THEN Append(kept[i - 1], s[i])
                                    ELSE kept[i - 1]
  BY <1>1 DEF IsRun
<1> DEFINE S == {n \in Nat : n <= Len(s) =>
                   /\ kept[n] \in Seq(X) /\ Len(kept[n]) <= n
                   /\ \A k \in 1..Len(kept[n]) : \E i \in 1..n : kept[n][k] = s[i]}
<1>3. 0 \in S
  <2>1. kept[0] = <<>> /\ <<>> \in Seq(X) /\ Len(<<>>) = 0
    BY <1>2
  <2>2. /\ kept[0] \in Seq(X) /\ Len(kept[0]) <= 0
        /\ \A k \in 1..Len(kept[0]) : \E i \in 1..0 : kept[0][k] = s[i]
    BY <2>1
  <2> QED
    BY <2>2
<1>4. ASSUME NEW n \in Nat, n \in S PROVE n + 1 \in S
  <2> SUFFICES ASSUME n + 1 <= Len(s)
               PROVE  /\ kept[n + 1] \in Seq(X) /\ Len(kept[n + 1]) <= n + 1
                      /\ \A k \in 1..Len(kept[n + 1]) :
                           \E i \in 1..(n + 1) : kept[n + 1][k] = s[i]
    OBVIOUS
  <2>1. /\ kept[n] \in Seq(X) /\ Len(kept[n]) <= n
        /\ \A k \in 1..Len(kept[n]) : \E i \in 1..n : kept[n][k] = s[i]
    BY <1>4
  <2>2. n + 1 \in 0..Len(s) /\ n + 1 # 0 /\ (n + 1) - 1 = n /\ s[n + 1] \in X
    OBVIOUS
  <2>3. kept[n + 1] = IF n + 1 \in I THEN Append(kept[n], s[n + 1]) ELSE kept[n]
    BY <1>2, <2>2
  <2>4. CASE n + 1 \in I
    <3> DEFINE q == Append(kept[n], s[n + 1])
    <3>1. /\ q \in Seq(X) /\ Len(q) = Len(kept[n]) + 1 /\ Len(kept[n]) \in Nat
          /\ \A k \in 1..Len(kept[n]) : q[k] = kept[n][k]
          /\ q[Len(kept[n]) + 1] = s[n + 1]
      BY <2>1, <2>2
    <3>2. kept[n + 1] = q
      BY <2>3, <2>4
    <3> HIDE DEF q
    <3>3. ASSUME NEW k \in 1..Len(q) PROVE \E i \in 1..(n + 1) : q[k] = s[i]
      <4>1. CASE k \in 1..Len(kept[n])
        BY <2>1, <3>1, <4>1
      <4>2. CASE k = Len(kept[n]) + 1
        BY <3>1, <4>2
      <4> QED
        BY <3>1, <4>1, <4>2
    <3> QED
      BY <2>1, <3>1, <3>2, <3>3
  <2>5. CASE n + 1 \notin I
    BY <2>1, <2>3, <2>5
  <2> QED
    BY <2>4, <2>5
<1>5. Nat \subseteq S
  <2> HIDE DEF S
  <2> QED
    BY <1>3, <1>4, Inductive
<1>6. /\ kept[c] \in Seq(X) /\ Len(kept[c]) <= c /\ Len(kept[c]) \in Nat
      /\ \A k \in 1..Len(kept[c]) : \E i \in 1..c : kept[c][k] = s[i]
  <2>1. c \in S /\ c <= Len(s)
    BY <1>5
  <2>2. /\ kept[c] \in Seq(X) /\ Len(kept[c]) <= c
        /\ \A k \in 1..Len(kept[c]) : \E i \in 1..c : kept[c][k] = s[i]
    BY <2>1
  <2> QED
    BY <2>2
<1> DEFINE d == Len(kept[c])
           T == {n \in Nat : c <= n /\ n <= Len(s) =>
                   /\ kept[n] \in Seq(X)
                   /\ Len(kept[n]) >= d /\ Len(kept[n]) - d <= n - c
                   /\ \A k \in 1..d : kept[n][k] = kept[c][k]}
<1>7. c \in T
  BY <1>6
<1>8. ASSUME NEW n \in Nat, n \in T PROVE n + 1 \in T
  <2>1. CASE n + 1 = c
    BY <1>7, <2>1
  <2>2. CASE n + 1 < c \/ n + 1 > Len(s)
    BY <2>2
  <2>3. CASE c <= n /\ n + 1 <= Len(s)
    <3>1. /\ kept[n] \in Seq(X) /\ Len(kept[n]) >= d /\ Len(kept[n]) - d <= n - c
          /\ \A k \in 1..d : kept[n][k] = kept[c][k]
      BY <1>8, <2>3
    <3>2. n + 1 \in 0..Len(s) /\ n + 1 # 0 /\ (n + 1) - 1 = n /\ s[n + 1] \in X
      BY <2>3
    <3>3. kept[n + 1] = IF n + 1 \in I THEN Append(kept[n], s[n + 1]) ELSE kept[n]
      BY <1>2, <3>2
    <3>4. d \in Nat
      BY <1>6
    <3>5. /\ kept[n + 1] \in Seq(X)
          /\ Len(kept[n + 1]) >= d /\ Len(kept[n + 1]) - d <= (n + 1) - c
          /\ \A k \in 1..d : kept[n + 1][k] = kept[c][k]
      <4> HIDE DEF d
      <4>1. CASE n + 1 \in I
        <5> DEFINE q == Append(kept[n], s[n + 1])
        <5>1. /\ q \in Seq(X) /\ Len(q) = Len(kept[n]) + 1 /\ Len(kept[n]) \in Nat
              /\ \A k \in 1..Len(kept[n]) : q[k] = kept[n][k]
          BY <3>1, <3>2
        <5>2. kept[n + 1] = q
          BY <3>3, <4>1
        <5> HIDE DEF q
        <5> QED
          BY <3>1, <3>4, <5>1, <5>2
      <4>2. CASE n + 1 \notin I
        BY <3>1, <3>3, <3>4, <4>2
      <4> QED
        BY <4>1, <4>2
    <3> HIDE DEF d
    <3> QED
      BY <3>5
  <2> QED
    BY <2>1, <2>2, <2>3
<1>9. Nat \subseteq T
  <2>1. 0 \in T
    <3>1. CASE c = 0
      BY <1>7, <3>1
    <3>2. CASE c # 0
      <4>1. ~ (c <= 0)
        BY <3>2
      <4> QED
        BY <4>1
    <3> QED
      BY <3>1, <3>2
  <2> HIDE DEF T
  <2> QED
    BY <1>8, <2>1, Inductive
<1>10. /\ Len(kept[Len(s)]) >= d /\ Len(kept[Len(s)]) - d <= Len(s) - c
       /\ Len(kept[Len(s)]) \in Nat
       /\ \A k \in 1..d : kept[Len(s)][k] = kept[c][k]
  <2> DEFINE m == Len(s)
  <2>1. m \in Nat /\ c <= m /\ m <= Len(s)
    OBVIOUS
  <2> HIDE DEF m
  <2>3. m \in T
    BY <1>9, <2>1
  <2>2. /\ kept[m] \in Seq(X)
        /\ Len(kept[m]) >= d /\ Len(kept[m]) - d <= m - c
        /\ \A k \in 1..d : kept[m][k] = kept[c][k]
    BY <2>1, <2>3
  <2> HIDE DEF d
  <2> QED
    BY <2>2 DEF m
<1>11. d \in 0..Len(kept[Len(s)]) /\ d <= c
  BY <1>6, <1>10
<1>12. \A k \in 1..d : \E i \in 1..c : kept[Len(s)][k] = s[i]
  BY <1>6, <1>10
<1> HIDE DEF d
<1>13. Cut(s, kept[Len(s)], c)
  BY <1>10, <1>11, <1>12 DEF Cut
<1> QED
  BY <1>1, <1>13
=============================================================================
