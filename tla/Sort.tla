-------------------------------- MODULE Sort --------------------------------
(***************************************************************************)
(* src/algo/sort.c, and before it merge.c and set.c: two runs in order made *)
(* into one.  The two limits of the sorts are scaled: the threshold below   *)
(* which the insertion sort is used, and the slack of the depth limit, an   *)
(* argument so that one run meets both good and bad pivots.                 *)
(***************************************************************************)
EXTENDS Modify

-----------------------------------------------------------------------------
(* merge.c and set.c.                                                       *)

\* into a span apart from both; a tie takes from a
Merge(a, b) ==
    LET walk[out \in Seq(Elem), i \in Nat, j \in Nat] ==
            IF i < Len(a) /\ j < Len(b)
            THEN IF ~RightGoesFirst(At(a, i), At(b, j)) THEN walk[Append(out, At(a, i)), i + 1, j]
                 ELSE walk[Append(out, At(b, j)), i, j + 1]
            ELSE EmitRest(EmitRest(out, a, i), b, j)
    IN  walk[<<>>, 0, 0]

\* no buffer: the longer run is cut at its middle, the other where that elem belongs, the
\* pieces between the cuts are rotated, and both sides are merged in turn
MergeInPlace(s, mid) ==
    LET go[t \in Seq(Elem), m \in Nat] ==
            LET n == Len(t)
                halved == m > n - m
                right_cut == IF halved THEN m + LowerBound(Sub(t, m, n - m), At(t, m \div 2))
                             ELSE m + (n - m) \div 2
                left_cut == IF halved THEN m \div 2 ELSE UpperBound(Sub(t, 0, m), At(t, right_cut))
                new_mid == left_cut + (right_cut - m)
                u == WithSub(t, left_cut, Rotate(Sub(t, left_cut, right_cut - left_cut), m - left_cut))
            IN  IF m = 0 \/ m = n THEN t
                ELSE IF n = 2 THEN IF RightGoesFirst(At(t, 0), At(t, 1)) THEN SwapElems(t, 0, 1) ELSE t
                ELSE go[Sub(u, 0, new_mid), left_cut]
                     \o go[Sub(u, new_mid, n - new_mid), right_cut - new_mid]
    IN  go[s, mid]

\* the left run is parked: the span is filled from the front, over what is read of it
MergeForward(s, mid, parked) ==
    LET walk[t \in Seq(Elem), write \in Nat, p \in Nat, r \in Nat] ==
            IF p < Len(parked) /\ r < Len(s)
            THEN IF RightGoesFirst(At(parked, p), At(t, r))
                 THEN walk[SetElem(t, write, At(t, r)), write + 1, p, r + 1]
                 ELSE walk[SetElem(t, write, At(parked, p)), write + 1, p + 1, r]
            ELSE WithSub(t, write, Sub(parked, p, Len(parked) - p))
    IN  walk[s, 0, 0, mid]

\* the right run is parked: the span is filled from the back
MergeBackward(s, mid, parked) ==
    LET walk[t \in Seq(Elem), write \in Nat, l \in Nat, p \in Nat] ==
            IF l > 0 /\ p > 0
            THEN IF RightGoesFirst(At(t, l - 1), At(parked, p - 1))
                 THEN walk[SetElem(t, write - 1, At(t, l - 1)), write - 1, l - 1, p]
                 ELSE walk[SetElem(t, write - 1, At(parked, p - 1)), write - 1, l, p - 1]
            ELSE WithSub(t, 0, Sub(parked, 0, p))
    IN  walk[s, Len(s), mid, Len(parked)]

\* the shorter run is parked, and the walk goes the way the writes cannot overtake the reads
MergeBuffered(s, mid) ==
    IF mid <= Len(s) - mid THEN MergeForward(s, mid, Sub(s, 0, mid))
    ELSE MergeBackward(s, mid, Sub(s, mid, Len(s) - mid))

\* 'served' is whether the allocator gives the buffer
InplaceMerge(s, mid, served) ==
    IF mid = 0 \/ mid = Len(s) THEN s
    ELSE IF served THEN MergeBuffered(s, mid) ELSE MergeInPlace(s, mid)

-----------------------------------------------------------------------------
(* The set operations are one walk that differs in what it takes: an elem   *)
(* that only the left or only the right has at this turn, one of a pair.    *)

SetMerge(a, b, takes) ==
    LET put(out, side, e) == IF side \in takes THEN Append(out, e) ELSE out
        rest(out, side, src, from) == IF side \in takes THEN EmitRest(out, src, from) ELSE out
        walk[out \in Seq(Elem), i \in Nat, j \in Nat] ==
            IF i < Len(a) /\ j < Len(b)
            THEN IF Less(At(a, i), At(b, j)) THEN walk[put(out, "left", At(a, i)), i + 1, j]
                 ELSE IF Less(At(b, j), At(a, i)) THEN walk[put(out, "right", At(b, j)), i, j + 1]
                 ELSE walk[put(out, "both", At(a, i)), i + 1, j + 1]
            ELSE rest(rest(out, "left", a, i), "right", b, j)
    IN  walk[<<>>, 0, 0]

\* the pair gives one copy, from a
SetUnion(a, b) == SetMerge(a, b, {"left", "right", "both"})
SetIntersection(a, b) == SetMerge(a, b, {"both"})
SetDifference(a, b) == SetMerge(a, b, {"left"})
SetSymmetricDifference(a, b) == SetMerge(a, b, {"left", "right"})

\* each copy matched is used up
Includes(sup, sub) ==
    LET skip[i \in Nat, e \in Elem] ==
            IF i < Len(sup) /\ Less(At(sup, i), e) THEN skip[i + 1, e] ELSE i
        walk[i \in Nat, j \in Nat] ==
            IF j = Len(sub) THEN TRUE
            ELSE LET k == skip[i, At(sub, j)]
                 IN  IF k = Len(sup) \/ Less(At(sub, j), At(sup, k)) THEN FALSE
                     ELSE walk[k + 1, j + 1]
    IN  walk[0, 0]

-----------------------------------------------------------------------------
(* sort.c.                                                                  *)

CONSTANT InsertionThreshold  \* INSERTION_THRESHOLD, 16 in the code

ASSUME ThresholdAssumption == InsertionThreshold \in Nat \ {0}

H == INSTANCE Heap

\* after every one before idx that is not greater
InsertionSlot(s, idx) ==
    LET walk[slot \in Nat] ==
            IF slot > 0 /\ RightGoesFirst(At(s, slot - 1), At(s, idx)) THEN walk[slot - 1] ELSE slot
    IN  walk[idx]

\* the elem at i set aside, the run above its slot moved up at once
Inserted(s, i, j) ==
    LET moved == WithSub(s, j + 1, Sub(s, j, i - j)) IN SetElem(moved, j, At(s, i))

\* an elem too big to set aside goes down by swaps
SwappedDown(s, i, j) ==
    LET walk[t \in Seq(Elem), k \in Nat] == IF k > j THEN walk[SwapElems(t, k - 1, k), k - 1] ELSE t
    IN  walk[s, i]

\* 'held' is whether an elem is small enough to be set aside
InsertionSort(s, held) ==
    LET walk[t \in Seq(Elem), i \in Nat] ==
            IF i >= Len(s) THEN t
            ELSE LET j == InsertionSlot(t, i)
                 IN  walk[IF ~held THEN SwappedDown(t, i, j) ELSE IF j = i THEN t ELSE Inserted(t, i, j),
                          i + 1]
    IN  walk[s, 1]

Median3(s, a, b, c) ==
    LET le(i, j) == ~Less(At(s, j), At(s, i))
    IN  IF (le(a, b) /\ le(c, a)) \/ (le(b, a) /\ le(a, c)) THEN a
        ELSE IF (le(a, b) /\ le(b, c)) \/ (le(b, a) /\ le(c, b)) THEN b ELSE c

\* on a range shorter than 8 the step is 0
Ninther(s, left, right) ==
    LET len == right - left + 1
        mid == left + len \div 2
        step == len \div 8
    IN  Median3(s, Median3(s, left, left + step, left + 2 * step),
                   Median3(s, mid - step, mid, mid + step),
                   Median3(s, right - 2 * step, right - step, right))

\* the elems of [left, right] less than, equal to and greater than the pivot; lt and gt
\* bound the equal ones
Partition3(s, left, right, pivot) ==
    LET walk[t \in Seq(Elem), lo \in Nat, i \in Nat, hi \in Nat] ==
            IF i > hi THEN [s |-> t, lt |-> lo, gt |-> hi]
            ELSE IF Less(At(t, i), At(t, lo)) THEN walk[SwapElems(t, i, lo), lo + 1, i + 1, hi]
            ELSE IF Less(At(t, lo), At(t, i)) THEN walk[SwapElems(t, i, hi), lo, i, hi - 1]
            ELSE walk[t, lo, i + 1, hi]
    IN  walk[SwapElems(s, left, pivot), left, left + 1, right]

\* internal/bits.h: the exponent of the largest power of two not above val
Log2Floor(val) == CHOOSE e \in 0 .. val : 2 ^ e <= val /\ val < 2 ^ (e + 1)

\* slack is 2 in the code
DepthLimit(len, slack) == slack * Log2Floor(len)

ClosedRange(s, left, right) == Sub(s, left, right - left + 1)

\* the shorter side is sorted by a call of its own, the longer by the next round
Quicksort(s, left0, right0, depth0, held) ==
    LET go[t \in Seq(Elem), left \in Nat, right \in Nat, depth \in Nat] ==
            LET range == ClosedRange(t, left, right)
                split == Partition3(t, left, right, Ninther(t, left, right))
                lt == split.lt
                gt == split.gt
                below == IF lt > left THEN go[split.s, left, lt - 1, depth - 1] ELSE split.s
                above == IF gt < right THEN go[split.s, gt + 1, right, depth - 1] ELSE split.s
            IN  IF left >= right THEN t
                ELSE IF Len(range) <= InsertionThreshold
                THEN WithSub(t, left, InsertionSort(range, held))
                ELSE IF depth = 0
                THEN WithSub(t, left, H!SortHeap(H!MakeHeap(range, Key), Key))
                ELSE IF lt - left < right - gt THEN go[below, gt + 1, right, depth - 1]
                ELSE IF lt = left THEN above ELSE go[above, left, lt - 1, depth - 1]
    IN  go[s, left0, right0, depth0]

Sort(s, slack, held) ==
    IF Len(s) < 2 THEN s ELSE Quicksort(s, 0, Len(s) - 1, DepthLimit(Len(s), slack), held)

\* one pass of the bottom-up merge sort: src's runs of 'width' merged pairwise
MergePass(src, width) ==
    LET n == Len(src)
        cut(i) == IF i < n THEN i ELSE n
        walk[dst \in Seq(Elem), i \in Nat] ==
            IF i >= n THEN dst
            ELSE LET mid == cut(i + width)
                     end == cut(i + 2 * width)
                 IN  walk[dst \o Merge(Sub(src, i, mid - i), Sub(src, mid, end - mid)), i + 2 * width]
    IN  walk[<<>>, 0]

\* broken: the result of an odd number of passes stays in the buffer
SortStableUncopied(s) ==
    LET walk[span \in Seq(Elem), buf \in Seq(Elem), in_span \in BOOLEAN, width \in Nat] ==
            IF width >= Len(s) THEN span
            ELSE IF in_span THEN walk[span, MergePass(span, width), FALSE, 2 * width]
            ELSE walk[MergePass(buf, width), buf, TRUE, 2 * width]
    IN  walk[s, s, TRUE, 1]

\* span and buffer take turns as source and destination
SortStable(s) ==
    LET walk[span \in Seq(Elem), buf \in Seq(Elem), in_span \in BOOLEAN, width \in Nat] ==
            IF width >= Len(s) THEN IF in_span THEN span ELSE buf
            ELSE IF in_span THEN walk[span, MergePass(span, width), FALSE, 2 * width]
            ELSE walk[MergePass(buf, width), buf, TRUE, 2 * width]
    IN  walk[s, s, TRUE, 1]

\* left <= nth <= right every round
NthElem(s, nth, slack, held) ==
    LET go[t \in Seq(Elem), left \in Nat, right \in Nat, depth \in Nat] ==
            LET split == Partition3(t, left, right, Ninther(t, left, right))
            IN  IF left >= right THEN t
                ELSE IF depth = 0 THEN WithSub(t, left, Sort(ClosedRange(t, left, right), slack, held))
                ELSE IF nth < split.lt THEN go[split.s, left, split.lt - 1, depth - 1]
                ELSE IF nth > split.gt THEN go[split.s, split.gt + 1, right, depth - 1]
                ELSE split.s
    IN  IF Len(s) < 2 THEN s ELSE go[s, 0, Len(s) - 1, DepthLimit(Len(s), slack)]

PartialSort(s, count, slack, held) ==
    IF count = 0 \/ Len(s) < 2 THEN s
    ELSE IF count >= Len(s) THEN Sort(s, slack, held)
    ELSE LET t == NthElem(s, count, slack, held)
         IN  WithSub(t, 0, Sort(Sub(t, 0, count), slack, held))

IsSortedUntil(s) ==
    LET walk[i \in Nat] ==
            IF i >= Len(s) THEN Len(s)
            ELSE IF RightGoesFirst(At(s, i - 1), At(s, i)) THEN i ELSE walk[i + 1]
    IN  walk[1]

IsSortedSpan(s) == IsSortedUntil(s) = Len(s)
=============================================================================
