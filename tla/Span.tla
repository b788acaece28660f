-------------------------------- MODULE Span -------------------------------
(***************************************************************************)
(* The views of core/span.h the algorithms work on.  A span is the sequence *)
(* of its elems; indices count from 0, as in the library.  What an          *)
(* algorithm writes into another span is the sequence of what it has        *)
(* emitted, its length the write cursor.                                    *)
(*                                                                         *)
(* And src/algo/search.c and src/algo/compare.c, the calls that read spans: *)
(* a loop is a recursive function of its indices; a predicate is the set of *)
(* the elems it accepts.                                                    *)
(***************************************************************************)
EXTENDS Order

CONSTANT Null  \* the answer of a search that finds nothing

\* the elem at idx
At(s, idx) == s[idx + 1]

\* count elems from idx on
Sub(s, idx, count) == SubSeq(s, idx + 1, idx + count)

\* the two sides of a cut
SplitAt(s, idx) == <<Sub(s, 0, idx), Sub(s, idx, Len(s) - idx)>>

\* the elem at idx set; a value that is the very elem is written onto itself
SetElem(s, idx, e) == [s EXCEPT ![idx + 1] = e]

SwapElems(s, i, j) == [s EXCEPT ![i + 1] = s[j + 1], ![j + 1] = s[i + 1]]

\* t written over s from idx on, through a view
WithSub(s, idx, t) == [i \in DOMAIN s |-> IF i - idx \in DOMAIN t THEN t[i - idx] ELSE s[i]]

\* whether the elems [p, p + n) and [q, q + m) of one block share one
Overlap(p, n, q, m) == n # 0 /\ m # 0 /\ p < q + m /\ q < p + n

\* the elems of src from 'from' on, appended to what has been emitted
EmitRest(out, src, from) == out \o Sub(src, from, Len(src) - from)

\* compaction in place: the elem at 'read' goes to 'write', at or before it
EmitOver(s, write, read) == IF write = read THEN s ELSE SetElem(s, write, At(s, read))

\* the indexed walk of the macros, whose body breaks off at 'stop': the inner loop only binds
\* the elem, and the flag it leaves set ends the loop over the indices too
Walked(s, stop) ==
    LET walk[idx \in Nat, brk \in BOOLEAN] ==
            IF brk \/ idx = Len(s) THEN <<>> ELSE <<At(s, idx)>> \o walk[idx + 1, idx = stop]
    IN  walk[0, FALSE]

\* the caller's equality sees the keys
Eq(a, b) == Key[a] = Key[b]

\* the elems that are equal to a key, as the key forms turn it into a predicate
Matching(key) == {e \in Elem : Eq(e, key)}

-----------------------------------------------------------------------------
(* search.c and compare.c.                                                  *)

FindIf(s, pred) ==
    LET walk[i \in 0 .. Len(s)] ==
            IF i = Len(s) THEN Null ELSE IF At(s, i) \in pred THEN i ELSE walk[i + 1]
    IN  walk[0]

\* counts down through 0: the loop variable is the index plus one
FindLastIf(s, pred) ==
    LET walk[i \in 0 .. Len(s)] ==
            IF i = 0 THEN Null ELSE IF At(s, i - 1) \in pred THEN i - 1 ELSE walk[i - 1]
    IN  walk[Len(s)]

Find(s, key) == FindIf(s, Matching(key))
FindLast(s, key) == FindLastIf(s, Matching(key))

MatchesAt(s, sub, idx) ==
    LET walk[j \in 0 .. Len(sub)] ==
            IF j = Len(sub) THEN TRUE
            ELSE IF ~Eq(At(s, idx + j), At(sub, j)) THEN FALSE ELSE walk[j + 1]
    IN  walk[0]

FindSub(s, sub) ==
    LET walk[i \in 0 .. Len(s) + 1] ==
            IF i + Len(sub) > Len(s) THEN Null ELSE IF MatchesAt(s, sub, i) THEN i ELSE walk[i + 1]
    IN  IF sub = <<>> THEN 0 ELSE walk[0]

FindLastSub(s, sub) ==
    LET walk[start \in 0 .. Len(s) + 1] ==
            IF start = 0 THEN Null
            ELSE IF MatchesAt(s, sub, start - 1) THEN start - 1 ELSE walk[start - 1]
    IN  IF sub = <<>> THEN Len(s)
        ELSE IF Len(sub) > Len(s) THEN Null ELSE walk[Len(s) - Len(sub) + 1]

\* broken: a run is not cut short by an elem that does not match
FindRunKeeps(s, key, count) ==
    LET walk[i \in 0 .. Len(s), run \in 0 .. Len(s)] ==
            IF i = Len(s) THEN Null
            ELSE LET r == IF Eq(At(s, i), key) THEN run + 1 ELSE run
                 IN  IF r = count THEN i + 1 - count ELSE walk[i + 1, r]
    IN  IF count = 0 THEN 0 ELSE walk[0, 0]

FindRun(s, key, count) ==
    LET walk[i \in 0 .. Len(s), run \in 0 .. Len(s)] ==
            IF i = Len(s) THEN Null
            ELSE LET r == IF Eq(At(s, i), key) THEN run + 1 ELSE 0
                 IN  IF r = count THEN i + 1 - count ELSE walk[i + 1, r]
    IN  IF count = 0 THEN 0 ELSE walk[0, 0]

FindAnyOf(s, set) ==
    LET walk[i \in 0 .. Len(s), j \in 0 .. Len(set)] ==
            IF i = Len(s) THEN Null
            ELSE IF j = Len(set) THEN walk[i + 1, 0]
            ELSE IF Eq(At(s, i), At(set, j)) THEN i ELSE walk[i, j + 1]
    IN  walk[0, 0]

FindAdjacent(s) ==
    LET walk[i \in 1 .. Len(s) + 1] ==
            IF i >= Len(s) THEN Null ELSE IF Eq(At(s, i - 1), At(s, i)) THEN i - 1 ELSE walk[i + 1]
    IN  walk[1]

CountIf(s, pred) ==
    LET walk[i \in 0 .. Len(s)] ==
            IF i = Len(s) THEN 0 ELSE walk[i + 1] + (IF At(s, i) \in pred THEN 1 ELSE 0)
    IN  walk[0]

\* the key form of the count
Count(s, key) == CountIf(s, Matching(key))

\* the halving loop: 'before' is whether an elem goes before the bound
Halve(s, before) ==
    LET walk[lo \in 0 .. Len(s), hi \in 0 .. Len(s)] ==
            IF lo >= hi THEN lo
            ELSE LET mid == lo + (hi - lo) \div 2
                 IN  IF At(s, mid) \in before THEN walk[mid + 1, hi] ELSE walk[lo, mid]
    IN  walk[0, Len(s)]

\* the lower bound passes every elem less than the key, the upper every one not greater
Bound(s, key, upper) ==
    Halve(s, {e \in Elem : IF upper THEN Key[e] <= Key[key] ELSE Key[e] < Key[key]})

LowerBound(s, key) == Bound(s, key, FALSE)
UpperBound(s, key) == Bound(s, key, TRUE)

BinarySearch(s, key) ==
    LET pos == LowerBound(s, key)
    IN  IF pos >= Len(s) THEN Null ELSE IF Eq(At(s, pos), key) THEN pos ELSE Null

EqualRange(s, key) ==
    LET lo == LowerBound(s, key)
    IN  <<lo, lo + UpperBound(Sub(s, lo, Len(s) - lo), key)>>

PartitionPoint(s, pred) == Halve(s, pred)

AllOf(s, pred) ==
    LET walk[i \in 0 .. Len(s)] ==
            IF i = Len(s) THEN TRUE ELSE IF At(s, i) \notin pred THEN FALSE ELSE walk[i + 1]
    IN  walk[0]

AnyOf(s, pred) == FindIf(s, pred) # Null
NoneOf(s, pred) == ~AnyOf(s, pred)
Contains(s, key) == Find(s, key) # Null

StartsWith(s, prefix) == Len(prefix) <= Len(s) /\ MatchesAt(s, prefix, 0)
EndsWith(s, suffix) == Len(suffix) <= Len(s) /\ MatchesAt(s, suffix, Len(s) - Len(suffix))

\* only a strictly better elem takes the place of the best so far
Beats(cur, best, max) == IF max THEN Less(best, cur) ELSE Less(cur, best)

Extreme(s, max) ==
    LET walk[i \in 1 .. Len(s), best \in 0 .. Len(s)] ==
            IF i = Len(s) THEN best
            ELSE walk[i + 1, IF Beats(At(s, i), At(s, best), max) THEN i ELSE best]
    IN  walk[1, 0]

MinMaxElem(s) ==
    LET walk[i \in 1 .. Len(s), min \in 0 .. Len(s), max \in 0 .. Len(s)] ==
            IF i = Len(s) THEN <<min, max>>
            ELSE walk[i + 1, IF Beats(At(s, i), At(s, min), FALSE) THEN i ELSE min,
                             IF Beats(At(s, i), At(s, max), TRUE) THEN i ELSE max]
    IN  walk[1, 0, 0]

-----------------------------------------------------------------------------
(* Two spans.  The caller's eq is reflexive, so that the shortcut for two   *)
(* views of the same elems answers as the walk does.                        *)

Common(a, b) == IF Len(a) < Len(b) THEN Len(a) ELSE Len(b)

\* byte by byte: the elems themselves
SpanEq(a, b) == Len(a) = Len(b) /\ \A i \in DOMAIN a : a[i] = b[i]

Mismatch(a, b) ==
    LET walk[i \in 0 .. Common(a, b)] ==
            IF i = Common(a, b) THEN Null ELSE IF ~Eq(At(a, i), At(b, i)) THEN i ELSE walk[i + 1]
    IN  walk[0]

SpanEqBy(a, b) == Len(a) = Len(b) /\ Mismatch(a, b) = Null

\* the common prefix aside, each elem new to the walk is counted on both sides
IsPermutation(a, b) ==
    LET from == Mismatch(a, b)
        ra == Sub(a, from, Len(a) - from)
        rb == Sub(b, from, Len(b) - from)
        walk[i \in 0 .. Len(a)] ==
            IF i = Len(ra) THEN TRUE
            ELSE LET e == At(ra, i)
                     in_b == Count(rb, e)
                 IN  IF Contains(Sub(ra, 0, i), e) THEN walk[i + 1]
                     ELSE IF in_b = 0 \/ in_b # Count(Sub(ra, i, Len(ra) - i), e) THEN FALSE
                     ELSE walk[i + 1]
    IN  IF Len(a) # Len(b) THEN FALSE ELSE IF from = Null THEN TRUE ELSE walk[0]

SpanCmp(a, b) ==
    LET i == Mismatch(a, b)
    IN  IF i # Null THEN IF Less(At(a, i), At(b, i)) THEN -1 ELSE 1
        ELSE IF Len(a) > Len(b) THEN 1 ELSE IF Len(a) < Len(b) THEN -1 ELSE 0
=============================================================================
