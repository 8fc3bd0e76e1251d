------------------------------- MODULE RgzSort -------------------------------
(* rgz_bsort and rgz_bunique (hwc/rgz_2d.c), loop by loop.  Arrays start at 1. *)
EXTENDS Integers, Sequences

Swapped(a, i, j) == [a EXCEPT ![i] = a[j], ![j] = a[i]]

\* The inner loop: element i is exchanged with the greater ones before it.
Sunk(a, i) ==
  LET sunk[j \in 0 .. i - 1] ==
        IF j = 0 THEN a
        ELSE LET b == sunk[j - 1] IN IF b[i] < b[j] THEN Swapped(b, i, j) ELSE b
  IN  sunk[i - 1]

BSort(a) ==
  LET sorted[i \in 0 .. Len(a)] == IF i = 0 THEN a ELSE Sunk(sorted[i - 1], i)
  IN  sorted[Len(a)]

MutUniqueTurn(s) ==   \* overwrites one duplicate only
  LET on == [s EXCEPT !.base = @ + 1, !.unique = @ + 1] IN
  CASE s.done \/ s.base + 1 > Len(s.a) -> [s EXCEPT !.done = TRUE]
    [] ~s.done /\ s.base + 1 = Len(s.a) /\ s.a[s.base] = s.a[s.base + 1] -> [s EXCEPT !.done = TRUE]
    [] ~s.done /\ s.base + 1 < Len(s.a) /\ s.a[s.base] = s.a[s.base + 1] ->
         [on EXCEPT !.a[s.base + 1] = s.a[s.base + 2]]
    [] OTHER -> on

\* The element at i and the same ones right after it.
Duplicates(a, i) == {k \in i .. Len(a) : \A m \in i .. k : a[m] = a[i]}
LastDuplicate(a, i) == CHOOSE k \in Duplicates(a, i) : k + 1 \notin Duplicates(a, i)

\* One turn of rgz_bunique's loop.  Duplicates of the element at base are
\* overwritten with the next other one; without one the loop ends.
UniqueTurn(s) ==
  LET skip == LastDuplicate(s.a, s.base)
      on   == [s EXCEPT !.base = @ + 1, !.unique = @ + 1]
  IN  CASE s.done \/ s.base + 1 > Len(s.a) -> [s EXCEPT !.done = TRUE]
        [] ~s.done /\ s.base + 1 <= Len(s.a) /\ skip = s.base -> on
        [] ~s.done /\ s.base + 1 <= Len(s.a) /\ skip = Len(s.a) -> [s EXCEPT !.done = TRUE]
        [] OTHER -> [on EXCEPT !.a = [k \in DOMAIN s.a |->
                       IF k \in s.base + 1 .. skip THEN s.a[skip + 1] ELSE s.a[k]]]

\* The array and how many of its elements are the unique ones.
BUnique(a) ==
  LET After[n \in 0 .. Len(a)] ==
        IF n = 0 THEN [a |-> a, base |-> 1, unique |-> 1, done |-> FALSE]
        ELSE UniqueTurn(After[n - 1])
  IN  SubSeq(After[Len(a)].a, 1, After[Len(a)].unique)

SortUnique(a) == BUnique(BSort(a))

=============================================================================
