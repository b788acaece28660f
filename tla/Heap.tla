-------------------------------- MODULE Heap -------------------------------
(***************************************************************************)
(* src/internal/heap.h and src/algo/heap.c: the heap laid out over a span,  *)
(* its sifts, and the calls made of them.  cmp is the key the caller's      *)
(* comparison sees of each elem.                                            *)
(***************************************************************************)
EXTENDS Integers, Sequences

Parent(idx) == (idx - 1) \div 2
LeftOf(idx) == 2 * idx + 1

\* whether the elem at 'upper' may sit above the one at 'lower', indices counted from 0
Above(s, upper, lower, cmp) == cmp[s[upper + 1]] >= cmp[s[lower + 1]]

Swapped(s, i, j) == [s EXCEPT ![i + 1] = s[j + 1], ![j + 1] = s[i + 1]]

\* broken: the right child is not looked at
DownStepLeft(t, len, cmp) ==
    LET left == LeftOf(t.at)
    IN  IF left >= len \/ Above(t.s, t.at, left, cmp) THEN t
        ELSE [s |-> Swapped(t.s, t.at, left), at |-> left]

\* one turn on the way to the leaves of the heap in the first len elems: t is the span and
\* the index of the elem that goes down; on a tie the left child wins
DownStep(t, len, cmp) ==
    LET left == LeftOf(t.at)
        best == IF left + 1 < len /\ ~Above(t.s, left, left + 1, cmp) THEN left + 1 ELSE left
    IN  IF left >= len \/ Above(t.s, t.at, best, cmp) THEN t
        ELSE [s |-> Swapped(t.s, t.at, best), at |-> best]

\* for as many turns as there are elems: once it stays, it stays
SiftDown(s, idx, len, cmp) ==
    LET walk[n \in 0 .. len] ==
            IF n = 0 THEN [s |-> s, at |-> idx] ELSE DownStep(walk[n - 1], len, cmp)
    IN  walk[len].s

\* one turn towards the root, while the elem may not sit below its parent
UpStep(t, cmp) ==
    IF t.at = 0 \/ Above(t.s, Parent(t.at), t.at, cmp) THEN t
    ELSE [s |-> Swapped(t.s, Parent(t.at), t.at), at |-> Parent(t.at)]

SiftUp(s, idx, cmp) ==
    LET walk[n \in 0 .. idx] ==
            IF n = 0 THEN [s |-> s, at |-> idx] ELSE UpStep(walk[n - 1], cmp)
    IN  walk[idx].s

\* from the last elem that has a child down to the root
MakeHeap(s, cmp) ==
    LET half == Len(s) \div 2
        walk[n \in 0 .. half] ==
            IF n = 0 THEN s ELSE SiftDown(walk[n - 1], half - n, Len(s), cmp)
    IN  walk[half]

\* over the first len elems of the span: the last of them is new
PushHeap(s, len, cmp) == SiftUp(s, len - 1, cmp)

\* over the first len elems of the span: the greatest goes to their end
PopHeap(s, len, cmp) ==
    IF len = 1 THEN s ELSE SiftDown(Swapped(s, 0, len - 1), 0, len - 1, cmp)

\* each turn pops from a heap of one elem less
SortHeap(s, cmp) ==
    LET walk[n \in 0 .. Len(s)] ==
            IF n = 0 THEN s ELSE PopHeap(walk[n - 1], Len(s) - n + 1, cmp)
    IN  walk[Len(s)]

IsHeapUntil(s, cmp) ==
    LET walk[child \in Nat] ==
            IF child >= Len(s) THEN Len(s)
            ELSE IF ~Above(s, Parent(child), child, cmp) THEN child ELSE walk[child + 1]
    IN  walk[1]

IsHeap(s, cmp) == IsHeapUntil(s, cmp) = Len(s)
=============================================================================
