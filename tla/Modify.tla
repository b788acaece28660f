------------------------------- MODULE Modify -------------------------------
(***************************************************************************)
(* src/algo/modify.c, copy.c, fill.c, fold.c, transform.c and permute.c:    *)
(* the passes over a span that write it, or write another one from it, and  *)
(* the calls that reorder it in place.  The elems the passes compute with   *)
(* are ints, and the caller's operation tells its two operands and their    *)
(* order apart.  A draw of the generator is an argument: draws[k] is its    *)
(* k-th answer.                                                             *)
(***************************************************************************)
EXTENDS Span

\* against the last elem kept
Unique(s) ==
    LET walk[t \in Seq(Elem), read \in Nat, write \in Nat] ==
            IF read = Len(s) THEN [s |-> t, out |-> write]
            ELSE IF ~Eq(At(t, write - 1), At(t, read)) THEN walk[EmitOver(t, write, read), read + 1, write + 1]
            ELSE walk[t, read + 1, write]
    IN  IF Len(s) < 2 THEN [s |-> s, out |-> Len(s)] ELSE walk[s, 1, 1]

RemoveIf(s, pred) ==
    LET walk[t \in Seq(Elem), read \in Nat, write \in Nat] ==
            IF read = Len(s) THEN [s |-> t, out |-> write]
            ELSE IF At(t, read) \notin pred THEN walk[EmitOver(t, write, read), read + 1, write + 1]
            ELSE walk[t, read + 1, write]
    IN  walk[s, 0, 0]

Remove(s, key) == RemoveIf(s, Matching(key))

\* a value at an index is one of the elems, read each time through its address
ReplaceIf(s, val_idx, val, pred) ==
    LET read(t) == IF val_idx = Null THEN val ELSE At(t, val_idx)
        walk[t \in Seq(Elem), i \in Nat] ==
            IF i = Len(s) THEN t
            ELSE walk[IF At(t, i) \in pred THEN SetElem(t, i, read(t)) ELSE t, i + 1]
    IN  walk[s, 0]

Replace(s, key, val_idx, val) == ReplaceIf(s, val_idx, val, Matching(key))

-----------------------------------------------------------------------------
(* Copies.  Two views of one block are the offsets of their first elems.    *)

\* memmove: what was read is what was there before
CopyWithin(s, dst, src, n) == IF n = 0 \/ dst = src THEN s ELSE WithSub(s, dst, Sub(s, src, n))
CopyOverlapping(s, dst, src, n) == CopyWithin(s, dst, src, n)

CopyIf(src, pred) ==
    LET walk[out \in Seq(Elem), read \in Nat] ==
            IF read = Len(src) THEN out
            ELSE walk[IF At(src, read) \in pred THEN Append(out, At(src, read)) ELSE out, read + 1]
    IN  walk[<<>>, 0]

\* the filled prefix doubles, copied onto the room after it
Fill(s, val_idx, val) ==
    LET walk[t \in Seq(Elem), done \in Nat] ==
            IF done >= Len(s) THEN t
            ELSE LET n == IF done < Len(s) - done THEN done ELSE Len(s) - done
                 IN  walk[WithSub(t, done, Sub(t, 0, n)), done + n]
    IN  IF s = <<>> THEN s
        ELSE walk[SetElem(s, 0, IF val_idx = Null THEN val ELSE At(s, val_idx)), 1]

\* every byte 0
FillZero(s, zero) == [i \in DOMAIN s |-> zero]

\* gen is what the caller's generator makes at each index
Generate(s, gen) ==
    LET walk[t \in Seq(Elem), i \in Nat] == IF i = Len(s) THEN t ELSE walk[SetElem(t, i, gen[i]), i + 1]
    IN  walk[s, 0]

-----------------------------------------------------------------------------
(* Folds and scans, with an operation that keeps its operands apart.  dst   *)
(* and src are the same elems in place, else dst is apart from src.         *)

Radix == 10
Op(a, b) == Radix * a + b

Fold(s, acc) ==
    LET walk[a \in Int, i \in Nat] == IF i = Len(s) THEN a ELSE walk[Op(a, At(s, i)), i + 1]
    IN  walk[acc, 0]

FoldBack(s, acc) ==
    LET walk[a \in Int, i \in Nat] == IF i = 0 THEN a ELSE walk[Op(a, At(s, i - 1)), i - 1]
    IN  walk[acc, Len(s)]

PartialSum(src, dst, in_place) ==
    LET from(d) == IF in_place THEN d ELSE src
        walk[d \in Seq(Int), i \in Nat] ==
            IF i = Len(src) THEN d
            ELSE walk[SetElem(d, i, Op(At(d, i - 1), At(from(d), i))), i + 1]
    IN  IF src = <<>> THEN dst ELSE walk[SetElem(dst, 0, At(src, 0)), 1]

\* broken: from the front, over elems that are still to be read
AdjacentDifferenceForward(src, dst, in_place) ==
    LET from(d) == IF in_place THEN d ELSE src
        walk[d \in Seq(Int), i \in Nat] ==
            IF i = Len(src) THEN d
            ELSE walk[SetElem(d, i, Op(At(from(d), i), At(from(d), i - 1))), i + 1]
    IN  IF src = <<>> THEN dst ELSE walk[SetElem(dst, 0, At(src, 0)), 1]

\* from the back
AdjacentDifference(src, dst, in_place) ==
    LET from(d) == IF in_place THEN d ELSE src
        walk[d \in Seq(Int), i \in Nat] ==
            IF i = 0 THEN SetElem(d, 0, At(from(d), 0))
            ELSE walk[SetElem(d, i, Op(At(from(d), i), At(from(d), i - 1))), i - 1]
    IN  IF src = <<>> THEN dst ELSE walk[dst, Len(src) - 1]

\* elem i of a view, in bytes
Cells(view, i) == view.at + i * view.size .. view.at + (i + 1) * view.size - 1

\* internal/overlap.h: apart, or the very same elems with the destination's no wider
MayWriteOver(dst, src, n) ==
    ~Overlap(dst.at, n * dst.size, src.at, n * src.size) \/ (dst.at = src.at /\ dst.size <= src.size)

\* the elems of src that are still whole when the pass comes to read them
ReadWhole(dst, src, n) ==
    LET walk[i \in Nat, written \in SUBSET Nat, whole \in SUBSET Nat] ==
            IF i = n THEN whole
            ELSE walk[i + 1, written \cup Cells(dst, i),
                      IF Cells(src, i) \cap written = {} THEN whole \cup {i} ELSE whole]
    IN  walk[0, {}, {}]

Transform(src, dst, in_place) ==
    LET walk[d \in Seq(Int), i \in Nat] ==
            IF i = Len(src) THEN d
            ELSE walk[SetElem(d, i, Op(At(IF in_place THEN d ELSE src, i), 0)), i + 1]
    IN  walk[dst, 0]

ZipWith(a, b, dst, in_place) ==
    LET walk[d \in Seq(Int), i \in Nat] ==
            IF i = Len(a) THEN d
            ELSE walk[SetElem(d, i, Op(At(IF in_place THEN d ELSE a, i), At(b, i))), i + 1]
    IN  walk[dst, 0]

-----------------------------------------------------------------------------
(* permute.c.                                                               *)

ReverseSpan(s) ==
    LET walk[t \in Seq(Elem), left \in Nat] ==
            LET right == Len(s) - 1 - left
            IN  IF left >= right THEN t ELSE walk[SwapElems(t, left, right), left + 1]
    IN  IF Len(s) < 2 THEN s ELSE walk[s, 0]

\* each side reversed, then the whole
Rotate(s, mid) ==
    IF mid = 0 \/ mid = Len(s) THEN s
    ELSE ReverseSpan(ReverseSpan(Sub(s, 0, mid)) \o ReverseSpan(Sub(s, mid, Len(s) - mid)))

\* elem by elem, between two runs of one block that are apart or the same
SwapRanges(s, p, q, n) ==
    LET walk[t \in Seq(Elem), i \in Nat] ==
            IF i = n THEN t ELSE walk[SwapElems(t, p + i, q + i), i + 1]
    IN  IF n = 0 \/ p = q THEN s ELSE walk[s, 0]

\* a descending walk swaps the operands
GoesBefore(s, asc, i, j) == IF asc THEN Less(At(s, i), At(s, j)) ELSE Less(At(s, j), At(s, i))

\* the arrangement after this one in the walk, and whether there was one: past the last
\* the first is left behind
PermuteStep(s, asc) ==
    LET n == Len(s)
        down[p \in 0 .. n] ==
            IF p = 0 THEN 0 ELSE IF GoesBefore(s, asc, p - 1, p) THEN p ELSE down[p - 1]
        pivot == down[n - 1] - 1
        mate[m \in 0 .. n] ==
            IF m > pivot + 1 /\ ~GoesBefore(s, asc, pivot, m) THEN mate[m - 1] ELSE m
        t == SwapElems(s, pivot, mate[n - 1])
    IN  IF n < 2 THEN [s |-> s, more |-> FALSE]
        ELSE IF down[n - 1] = 0 THEN [s |-> ReverseSpan(s), more |-> FALSE]
        ELSE [s |-> WithSub(t, pivot + 1, ReverseSpan(Sub(t, pivot + 1, n - pivot - 1))), more |-> TRUE]

NextPermutation(s) == PermuteStep(s, TRUE)
PrevPermutation(s) == PermuteStep(s, FALSE)

Partition(s, pred) ==
    LET walk[t \in Seq(Elem), i \in Nat, boundary \in Nat] ==
            IF i = Len(s) THEN [s |-> t, out |-> boundary]
            ELSE IF At(t, i) \notin pred THEN walk[t, i + 1, boundary]
            ELSE walk[IF i # boundary THEN SwapElems(t, i, boundary) ELSE t, i + 1, boundary + 1]
    IN  walk[s, 0, 0]

\* the rejected elems wait in a buffer and are copied behind the kept ones
PartitionStable(s, pred) ==
    LET walk[t \in Seq(Elem), i \in Nat, kept \in Nat, rejected \in Seq(Elem)] ==
            IF i = Len(s) THEN [s |-> WithSub(t, kept, rejected), out |-> kept]
            ELSE IF At(t, i) \in pred THEN walk[EmitOver(t, kept, i), i + 1, kept + 1, rejected]
            ELSE walk[t, i + 1, kept, Append(rejected, At(t, i))]
    IN  walk[s, 0, 0, <<>>]

IsPartitioned(s, pred) ==
    LET upto[i \in Nat] == IF i < Len(s) /\ At(s, i) \in pred THEN upto[i + 1] ELSE i
        past[i \in Nat] == IF i < Len(s) /\ At(s, i) \notin pred THEN past[i + 1] ELSE i
    IN  past[upto[0]] = Len(s)

\* what the step that settles position i - 1 draws from: the i elems not placed yet
DrawBound(i) == i

\* walking down, each step settles one position
Shuffle(s, draws) ==
    LET walk[t \in Seq(Elem), i \in Nat] ==
            IF i <= 1 THEN t ELSE walk[SwapElems(t, i - 1, draws[i]), i - 1]
    IN  walk[s, Len(s)]

\* the same walk from the front, stopped after 'count' steps
ShufflePrefix(s, count, draws) ==
    LET walk[t \in Seq(Elem), i \in Nat] ==
            IF i = count THEN t ELSE walk[SwapElems(t, i, i + draws[Len(s) - i]), i + 1]
    IN  walk[s, 0]

\* 'want' elems of src, each taken while the draw among those left is below those wanted
Sample(src, room, draws) ==
    LET want == IF room < Len(src) THEN room ELSE Len(src)
        walk[out \in Seq(Elem), read \in Nat] ==
            IF Len(out) = want THEN out
            ELSE walk[IF draws[Len(src) - read] < want - Len(out) THEN Append(out, At(src, read)) ELSE out,
                      read + 1]
    IN  walk[<<>>, 0]
=============================================================================
