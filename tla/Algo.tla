-------------------------------- MODULE Algo -------------------------------
(***************************************************************************)
(* A program that calls the algorithms on a span of its own: a call is      *)
(* made, its answer is there to be looked at, and what it left of the span  *)
(* is what the next call finds.  The calls that take no span (the draws,    *)
(* the ready-made comparators, hashes and printers) are made while the span *)
(* is empty, and those that take no generator before it is seeded: the      *)
(* instance stays small, and nothing is lost, since none of them reads what *)
(* the others write.                                                        *)
(***************************************************************************)
EXTENDS Sort, AlgoSpec, Scalar, TLC

CONSTANTS
    Spans,      \* the spans the program starts with
    Subs,       \* the spans it passes beside its own
    Preds,      \* the predicates, each the set of elems it accepts
    Slacks,     \* the slack of the sorts' depth limit, 2 in the code
    DrawBits,   \* the widths of the words a draw is looked at with
    Scalars,    \* the values compared, per type
    PrintMax,   \* the longest span printed
    NodeMax,    \* SIZE_MAX where nodes are laid out
    Links,      \* the layouts of a node's own fields
    Types       \* the layouts of the types carried

VARIABLES
    span,  \* the program's span
    call,  \* the call that has just returned
    gen,   \* its generator
    loop   \* the loop that is running

vars == <<span, call, gen, loop>>

NoCall == [op |-> "none"]
NoLoop == [kind |-> "none"]

Idle == call = NoCall /\ loop = NoLoop
Fresh == Idle /\ span = <<>> /\ gen = Zeroed

\* a call that only reads
Asked(c) == call' = c /\ UNCHANGED <<span, gen, loop>>

\* a call that writes the span
Wrote(c, after) == call' = c @@ [after |-> after] /\ UNCHANGED <<span, gen, loop>>

Init == span \in Spans /\ call = NoCall /\ gen = Zeroed /\ loop = NoLoop

\* the program goes on with what the call left
Return ==
    /\ call # NoCall
    /\ span' = IF "after" \in DOMAIN call THEN call.after ELSE span
    /\ call' = NoCall
    /\ UNCHANGED <<gen, loop>>

-----------------------------------------------------------------------------
(* search.c, compare.c and the queries of sort.c, heap.c and set.c.         *)

Short == Len(span) <= 4

AskKey(key) ==
    /\ Short
    /\ Asked([op |-> "key", key |-> key,
              out |-> [find |-> Find(span, key), find_last |-> FindLast(span, key),
                       count |-> Count(span, key), contains |-> Contains(span, key),
                       runs |-> [n \in 0 .. Len(span) + 1 |-> FindRun(span, key, n)]]])

AskSub(sub) ==
    /\ Short
    /\ Asked([op |-> "sub", sub |-> sub,
              out |-> [find |-> FindSub(span, sub), find_last |-> FindLastSub(span, sub),
                       starts |-> StartsWith(span, sub), ends |-> EndsWith(span, sub),
                       any_of |-> FindAnyOf(span, sub)]])

AskPred(pred) ==
    /\ Short
    /\ Asked([op |-> "pred", pred |-> pred,
              out |-> [all |-> AllOf(span, pred), any |-> AnyOf(span, pred), none |-> NoneOf(span, pred),
                       partitioned |-> IsPartitioned(span, pred), point |-> PartitionPoint(span, pred)]])

\* the halving searches ask for a span in order
AskBounds(key) ==
    /\ Short /\ InOrder(span)
    /\ Asked([op |-> "bounds", key |-> key,
              out |-> [lower |-> LowerBound(span, key), upper |-> UpperBound(span, key),
                       found |-> BinarySearch(span, key), range |-> EqualRange(span, key)]])

\* the extremes ask for a span that is not empty
AskSelf ==
    /\ Short
    /\ Asked([op |-> "self",
              out |-> [adjacent |-> FindAdjacent(span), sorted |-> IsSortedSpan(span),
                       sorted_until |-> IsSortedUntil(span),
                       min |-> IF span = <<>> THEN Null ELSE Extreme(span, FALSE),
                       max |-> IF span = <<>> THEN Null ELSE Extreme(span, TRUE),
                       minmax |-> IF span = <<>> THEN Null ELSE MinMaxElem(span),
                       walked |-> [stop \in 0 .. Len(span) |-> Walked(span, stop)],
                       halves |-> [idx \in 0 .. Len(span) |-> SplitAt(span, idx)]]])

AskCompare(other) ==
    /\ Short
    /\ Asked([op |-> "compare", other |-> other,
              out |-> [eq |-> SpanEq(span, other), eq_by |-> SpanEqBy(span, other),
                       mismatch |-> Mismatch(span, other), permutation |-> IsPermutation(span, other),
                       cmp |-> SpanCmp(span, other)]])

AskIncludes(sub) ==
    /\ Short /\ InOrder(span) /\ InOrder(sub)
    /\ Asked([op |-> "includes", sub |-> sub, out |-> Includes(span, sub)])

AskHeap ==
    /\ Short
    /\ Asked([op |-> "is_heap", out |-> [heap |-> H!IsHeap(span, Key), until |-> H!IsHeapUntil(span, Key)]])

-----------------------------------------------------------------------------
(* sort.c, heap.c, merge.c and set.c.                                       *)

tda_span_insertion_sort(held) ==
    Wrote([op |-> "insertion_sort", refused |-> FALSE], InsertionSort(span, held))

tda_span_sort(slack) ==
    Wrote([op |-> "sort", refused |-> FALSE], Sort(span, slack, TRUE))

\* the buffer may be refused, and the span is then as it was; a span of one needs none
tda_span_sort_stable(refused) ==
    /\ refused => Len(span) >= 2
    /\ Wrote([op |-> "sort_stable", refused |-> refused], IF refused THEN span ELSE SortStable(span))

tda_span_partial_sort(count, slack) ==
    /\ count <= Len(span)
    /\ Wrote([op |-> "partial_sort", count |-> count], PartialSort(span, count, slack, TRUE))

tda_span_nth_elem(nth, slack) ==
    /\ nth < Len(span)
    /\ Wrote([op |-> "nth_elem", nth |-> nth], NthElem(span, nth, slack, TRUE))

tda_span_make_heap == Wrote([op |-> "make_heap"], H!MakeHeap(span, Key))

\* all but the last elem are a heap
tda_span_push_heap ==
    /\ span # <<>> /\ Heaped(Sub(span, 0, Len(span) - 1))
    /\ Wrote([op |-> "push_heap"], H!PushHeap(span, Len(span), Key))

tda_span_pop_heap ==
    /\ span # <<>> /\ Heaped(span)
    /\ Wrote([op |-> "pop_heap"], H!PopHeap(span, Len(span), Key))

tda_span_sort_heap ==
    /\ Heaped(span)
    /\ Wrote([op |-> "sort_heap"], H!SortHeap(span, Key))

\* both runs are in order
tda_span_inplace_merge(mid, served) ==
    /\ mid <= Len(span)
    /\ InOrder(Sub(span, 0, mid)) /\ InOrder(Sub(span, mid, Len(span) - mid))
    /\ Wrote([op |-> "inplace_merge", refused |-> FALSE], InplaceMerge(span, mid, served))

MergeCalls(other) ==
    /\ Short /\ InOrder(span) /\ InOrder(other)
    /\ \/ Asked([op |-> "merge", other |-> other, out |-> Merge(span, other)])
       \/ Asked([op |-> "union", other |-> other, out |-> SetUnion(span, other)])
       \/ Asked([op |-> "intersection", other |-> other, out |-> SetIntersection(span, other)])
       \/ Asked([op |-> "difference", other |-> other, out |-> SetDifference(span, other)])
       \/ Asked([op |-> "symmetric_difference", other |-> other,
                 out |-> SetSymmetricDifference(span, other)])

-----------------------------------------------------------------------------
(* modify.c, copy.c, fill.c and permute.c.                                  *)

Answered(op, pred, r) == Wrote([op |-> op, pred |-> pred, out |-> r.out], r.s)

tda_span_unique == Short /\ Answered("unique", Elem, Unique(span))

tda_span_remove_if(pred) == Short /\ Answered("remove", pred, RemoveIf(span, pred))

tda_span_remove(key) == Short /\ Answered("remove", Matching(key), Remove(span, key))

\* the value is one of the elems, or stands elsewhere
tda_span_replace_if(pred, val_idx, val) ==
    /\ Short
    /\ val_idx # Null => val_idx < Len(span) /\ val = At(span, val_idx)
    /\ Wrote([op |-> "replace", pred |-> pred, val |-> val], ReplaceIf(span, val_idx, val, pred))

tda_span_replace(key, val) ==
    /\ Short
    /\ Wrote([op |-> "replace", pred |-> Matching(key), val |-> val], Replace(span, key, Null, val))

tda_span_fill(val_idx, val) ==
    /\ val_idx # Null => val_idx < Len(span) /\ val = At(span, val_idx)
    /\ Wrote([op |-> "fill", val |-> val], Fill(span, val_idx, val))

tda_span_fill_zero(zero) == Short /\ Wrote([op |-> "fill", val |-> zero], FillZero(span, zero))

tda_span_generate(other) ==
    /\ Short /\ Len(other) = Len(span)
    /\ LET made == [i \in 0 .. Len(span) - 1 |-> At(other, i)]
       IN  Wrote([op |-> "generate", gen |-> made], Generate(span, made))

tda_span_copy(dst, src, n) ==
    /\ Short /\ dst + n <= Len(span) /\ src + n <= Len(span)
    /\ Wrote([op |-> "copy", dst |-> dst, src |-> src, n |-> n], CopyWithin(span, dst, src, n))

tda_span_copy_if(pred) ==
    Short /\ Asked([op |-> "copy_if", pred |-> pred, out |-> CopyIf(span, pred)])

tda_span_reverse == Short /\ Wrote([op |-> "reverse"], ReverseSpan(span))

tda_span_rotate(mid) ==
    Short /\ mid <= Len(span) /\ Wrote([op |-> "rotate", mid |-> mid], Rotate(span, mid))

tda_span_swap_ranges(p, q, n) ==
    /\ Short /\ p + n <= Len(span) /\ q + n <= Len(span)
    /\ p = q \/ ~Overlap(p, n, q, n)
    /\ Wrote([op |-> "swap_ranges", p |-> p, q |-> q, n |-> n], SwapRanges(span, p, q, n))

tda_span_partition(pred) == Short /\ Answered("partition", pred, Partition(span, pred))

\* the buffer may be refused, and the span is then as it was; an empty span needs none
tda_span_partition_stable(pred, refused) ==
    /\ Short
    /\ refused => span # <<>>
    /\ LET r == PartitionStable(span, pred)
       IN  Wrote([op |-> "partition_stable", pred |-> pred, refused |-> refused,
                  out |-> IF refused THEN Null ELSE r.out],
                 IF refused THEN span ELSE r.s)

-----------------------------------------------------------------------------
(* fold.c and transform.c, over the keys of the span.                       *)

ComputeCalls(in_place, other) ==
    /\ Short /\ Len(other) = Len(span)
    /\ LET src == Keys(span)
           dst == IF in_place THEN src ELSE Keys(other)
       IN  \/ Asked([op |-> "fold", out |-> <<Fold(src, 0), FoldBack(src, 0)>>])
           \/ Asked([op |-> "partial_sum", out |-> PartialSum(src, dst, in_place)])
           \/ Asked([op |-> "adjacent_difference", out |-> AdjacentDifference(src, dst, in_place)])
           \/ Asked([op |-> "transform", out |-> Transform(src, dst, in_place)])
           \/ Asked([op |-> "zip_with", other |-> Keys(other),
                     out |-> ZipWith(src, Keys(other), dst, in_place)])

\* a pass into elems of another size, over the source itself or apart from it
WriteOver(dst, src, n) ==
    /\ MayWriteOver(dst, src, n)
    /\ Asked([op |-> "write_over", n |-> n, out |-> ReadWhole(dst, src, n)])

-----------------------------------------------------------------------------
(* The caller's walk through the arrangements, from the first one on, and   *)
(* the library's own loop over the words of a bounded draw.                 *)

ArrangeStart(asc) ==
    /\ Idle /\ Short /\ span # <<>> /\ InOrder(IF asc THEN span ELSE ReverseSpan(span))
    /\ loop' = [kind |-> "arrange", asc |-> asc, from |-> span, seen |-> {span}]
    /\ UNCHANGED <<span, call, gen>>

ArrangeStep ==
    /\ loop.kind = "arrange"
    /\ LET next == IF loop.asc THEN NextPermutation(span) ELSE PrevPermutation(span)
       IN  IF next.more
           THEN /\ span' = next.s
                /\ loop' = [loop EXCEPT !.seen = @ \cup {next.s}]
                /\ UNCHANGED <<call, gen>>
           ELSE /\ span' = loop.from
                /\ call' = [op |-> "arranged", seen |-> loop.seen, after |-> next.s]
                /\ loop' = NoLoop
                /\ UNCHANGED gen

tda_rng_from_seed(seed) ==
    /\ Idle /\ span = <<>>
    /\ gen' = FromSeed(seed)
    /\ UNCHANGED <<span, call, loop>>

\* bits is the whole word for the u64 forms, half of it for the u32 ones
DrawStart(max, bits) ==
    /\ Idle /\ span = <<>>
    /\ loop' = [kind |-> "draw", max |-> max, bits |-> bits]
    /\ UNCHANGED <<span, call, gen>>

DrawStep ==
    /\ loop.kind = "draw"
    /\ LET next == NextWord(gen)
           word == IF loop.bits = WordBits THEN next.word ELSE TopHalf(next.word)
       IN  /\ gen' = next.gen
           /\ IF Accepts(word, loop.max, loop.bits)
              THEN /\ call' = [op |-> "drawn", max |-> loop.max,
                               out |-> DrawIn(word, loop.max, loop.bits)]
                   /\ loop' = NoLoop
              ELSE UNCHANGED <<call, loop>>
           /\ UNCHANGED span

-----------------------------------------------------------------------------
(* What a draw makes of each word the generator may give.                   *)

\* the answers of a bounded draw, word by word; a word that is not accepted has none
Answers(bits, max) ==
    [word \in {w \in Words(bits) : Accepts(w, max, bits)} |-> DrawIn(word, max, bits)]

DrawBounded(bits, max) == Asked([op |-> "bounded", max |-> max, out |-> Answers(bits, max)])

DrawRange(bits, lo, hi) ==
    /\ lo <= hi
    /\ LET answers == Answers(bits, RangeWidth(lo, hi, bits))
       IN  Asked([op |-> "range", lo |-> lo, hi |-> hi,
                  out |-> [word \in DOMAIN answers |-> InRange(lo, answers[word], bits)]])

\* the draws that take one word as it comes
DrawPlain ==
    Asked([op |-> "plain", flip |-> [word \in Word |-> DrawBool(word)],
           half |-> [word \in Word |-> TopHalf(word)], fraction |-> [word \in Word |-> Fraction(word)]])

DrawFloat(lo, hi, word) ==
    /\ lo <= hi
    /\ \E val \in Rounded(lo, hi, Fraction(word)) :
           Asked([op |-> "float", lo |-> lo, hi |-> hi, out |-> FloatIn(lo, hi, val)])

\* the draws a walk over the span makes: the one that settles place i is below DrawBound(i)
Draws(n) == {f \in [1 .. n -> 0 .. n - 1] : \A i \in 1 .. n : f[i] <= IdxMax(DrawBound(i))}

tda_span_shuffle ==
    /\ Short /\ Cardinality({span[i] : i \in DOMAIN span}) = Len(span)
    /\ Asked([op |-> "shuffle",
              out |-> [d \in Draws(Len(span)) |-> Shuffle(span, d)],
              prefix |-> [k \in 0 .. Len(span) |-> [d \in Draws(Len(span)) |-> Sub(ShufflePrefix(span, k, d), 0, k)]],
              sample |-> [k \in 0 .. Len(span) |-> [d \in Draws(Len(span)) |-> Sample(span, k, d)]]])

-----------------------------------------------------------------------------
(* The ready-made comparators, hashes and printers.                         *)

AskScalars(type, a, b, c) ==
    Asked([op |-> "scalars", type |-> type,
              ab |-> Cmp(type, a, b), ba |-> Cmp(type, b, a), desc |-> CmpDesc(type, a, b),
              bc |-> Cmp(type, b, c), ac |-> Cmp(type, a, c),
              eq |-> EqBy(type, a, b), same_hash |-> Hash(type, a) = Hash(type, b),
              same_text |-> Fprint(type, a) = Fprint(type, b),
              zeros |-> type = "float" /\ FloatVal(a) = 0 /\ FloatVal(b) = 0])

\* each write of a print may fail; its code tells which it was
AskPrint(len, failing) ==
    LET rcs == [k \in Nat |-> IF k \in failing THEN -k ELSE 1]
    IN  \/ Asked([op |-> "fprint", len |-> len, failing |-> failing, out |-> SpanFprint(len, rcs)])
        \/ Asked([op |-> "print", len |-> len, failing |-> failing, out |-> SpanPrint(len, rcs)])

-----------------------------------------------------------------------------
(* The nodes of lists, maps and sets.                                       *)

Nodes == INSTANCE Layout WITH SizeMax <- NodeMax

NoValue == [size |-> 0, align |-> 1]

AskNode(links, key, val) ==
    Asked([op |-> "node", links |-> links, key |-> key, val |-> val,
           list |-> Nodes!ListNode(links, key), elem_offset |-> Nodes!ElemOffset(links, key),
           map |-> Nodes!MapNode(links, key, val)])

-----------------------------------------------------------------------------
Indexes == 0 .. 4

ReadCalls ==
    /\ Idle
    /\ \/ \E key \in Elem : AskKey(key) \/ AskBounds(key)
       \/ \E sub \in Subs : AskSub(sub) \/ AskCompare(sub) \/ AskIncludes(sub)
       \/ \E pred \in Preds : AskPred(pred) \/ tda_span_copy_if(pred)
       \/ AskSelf
       \/ AskHeap

OrderCalls ==
    /\ Idle
    /\ \/ \E held \in BOOLEAN : tda_span_insertion_sort(held)
       \/ \E slack \in Slacks : tda_span_sort(slack)
       \/ \E refused \in BOOLEAN : tda_span_sort_stable(refused)
       \/ \E n \in Indexes, slack \in Slacks : tda_span_partial_sort(n, slack) \/ tda_span_nth_elem(n, slack)
       \/ tda_span_make_heap \/ tda_span_push_heap \/ tda_span_pop_heap \/ tda_span_sort_heap
       \/ \E mid \in 0 .. Len(span), served \in BOOLEAN : tda_span_inplace_merge(mid, served)
       \/ \E other \in Subs : MergeCalls(other)

PassCalls ==
    /\ Idle
    /\ \/ tda_span_unique \/ tda_span_reverse
       \/ \E pred \in Preds : \/ tda_span_remove_if(pred) \/ tda_span_partition(pred)
                              \/ \E val \in Elem, idx \in Indexes \cup {Null} : tda_span_replace_if(pred, idx, val)
                              \/ \E refused \in BOOLEAN : tda_span_partition_stable(pred, refused)
       \/ \E key \in Elem : \/ tda_span_remove(key)
                             \/ \E val \in Elem : tda_span_replace(key, val)
       \/ \E val \in Elem : \/ tda_span_fill_zero(val)
                             \/ \E idx \in Indexes \cup {Null} : tda_span_fill(idx, val)
       \/ \E other \in Subs : \/ tda_span_generate(other)
                               \/ \E in_place \in BOOLEAN : ComputeCalls(in_place, other)
       \/ \E p, q, n \in Indexes : tda_span_copy(p, q, n) \/ tda_span_swap_ranges(p, q, n)
       \/ \E mid \in Indexes : tda_span_rotate(mid)
       \/ tda_span_shuffle

\* with the span empty and the generator not seeded yet
FreshCalls ==
    /\ Fresh
    /\ \/ \E bits \in DrawBits : \E max \in Words(bits) : DrawBounded(bits, max)
       \/ \E bits \in DrawBits : \E lo, hi \in {ToSigned(v, bits) : v \in Words(bits)} :
              DrawRange(bits, lo, hi)
       \/ DrawPlain
       \/ \E lo, hi \in -2 .. 2, word \in Word : DrawFloat(lo, hi, word)
       \/ \E type \in DOMAIN Scalars : \E a, b, c \in Scalars[type] : AskScalars(type, a, b, c)
       \/ \E len \in 0 .. PrintMax : \E failing \in SUBSET (1 .. 2 * len + 3) : AskPrint(len, failing)
       \/ \E links \in Links, key \in Types, val \in Types \cup {NoValue} : AskNode(links, key, val)
       \/ \E at, size, wide \in 1 .. 3, n \in 0 .. 3 :
              WriteOver([at |-> 1, size |-> size], [at |-> at, size |-> wide], n)

LoopCalls ==
    \/ \E asc \in BOOLEAN : ArrangeStart(asc)
    \/ ArrangeStep
    \/ \E seed \in Word : tda_rng_from_seed(seed)
    \/ \E max \in Word : DrawStart(max, WordBits)
    \/ \E max \in Words(WordBits \div 2) : DrawStart(max, WordBits \div 2)
    \/ DrawStep

Next == Return \/ ReadCalls \/ OrderCalls \/ PassCalls \/ FreshCalls \/ LoopCalls

\* a loop that has been entered is run on: nothing else in the program can run meanwhile
Spec == Init /\ [][Next]_vars /\ WF_vars(ArrangeStep) /\ WF_vars(DrawStep)

-----------------------------------------------------------------------------
\* Every question about a span has the answer its definition gives: the first or last place,
\* Null when there is none, the empty run at the start (search.c, compare.c).
SearchesAnswer == SearchPromise(span, call)

\* Every sort leaves the elems in order and is stable where it says so, with the buffer or
\* without, with pivots good or bad; merges, set operations and heaps keep their promises
\* (sort.c, merge.c, set.c, heap.c).
SortsInOrder == OrderPromise(span, call)

\* Every pass that writes while it reads, in place too, leaves what it would have written
\* into a span apart; a walk over the arrangements meets each one once and ends at the first
\* (modify.c, copy.c, fill.c, fold.c, transform.c, permute.c).
PassesWriteRight ==
    /\ PassPromise(span, call) /\ ComputePromise(Keys(span), call, Op)
    /\ call.op = "write_over" => call.out = 0 .. call.n - 1

\* f gives every member of S, each as often as any other, and nothing else
Uniform(f, S) ==
    LET times(y) == Cardinality({x \in DOMAIN f : f[x] = y})
    IN  {f[x] : x \in DOMAIN f} = S /\ \A y, z \in S : times(y) = times(z)

\* the ways to put n of the elems of the span in a row, each at most once
Rows(n) ==
    {row \in [1 .. n -> {span[i] : i \in DOMAIN span}] : Cardinality({row[i] : i \in 1 .. n}) = n}

\* A bounded draw gives every answer up to its bound and a draw from a range every answer from
\* lo to hi, each for as many words as any other, at the widest bounds and across zero too, and
\* both sides of a flip, both halves of a word and every fraction come as often; every
\* arrangement is as likely a shuffle as any other, every row of k elems as likely a prefix
\* and every k elems, in their order, as likely a sample.  A float drawn from a range is below
\* hi (rng.c, permute.c, copy.c).
DrawsUniform ==
    CASE call.op = "drawn" -> call.out \in 0 .. call.max
      [] call.op = "bounded" -> Uniform(call.out, 0 .. call.max)
      [] call.op = "range" -> Uniform(call.out, call.lo .. call.hi)
      [] call.op = "plain" ->
            /\ Uniform(call.flip, BOOLEAN)
            /\ Uniform(call.half, Words(WordBits \div 2)) /\ Uniform(call.fraction, Words(FracBits))
      [] call.op = "float" -> IF call.lo = call.hi THEN call.out = call.lo
                              ELSE call.lo <= call.out /\ call.out < call.hi
      [] call.op = "shuffle" ->
            /\ Uniform(call.out, Rows(Len(span)))
            /\ \A k \in 0 .. Len(span) :
                  /\ Uniform(call.prefix[k], Rows(k))
                  /\ Uniform(call.sample[k],
                             {row \in {Filter(span, T) : T \in SUBSET Elem} : Len(row) = k})
      [] OTHER -> TRUE

\* The ready-made comparators order every type totally, NaN and null included; the equality,
\* the descending form and the hash follow them, and so do the printers as far as they go: an
\* int, a char or a string is printed as no other is, and of a float's digits only the first
\* few, so that equal floats print alike but for the two zeros; a print reports its first failed write and
\* makes the others all the same; and a node's layout, as small as one can be, agrees with the
\* offsets at which its elem, its key and its value are looked for, up to an overflow (cmp.c,
\* hash.c, print.c, print.h, layout.h).
ScalarsAgree ==
    CASE call.op = "scalars" ->
            /\ call.ab = -call.ba /\ call.desc = call.ba
            /\ call.ab <= 0 /\ call.bc <= 0 => call.ac <= 0 /\ (call.ac = 0 => call.ab = 0 /\ call.bc = 0)
            /\ call.eq = (call.ab = 0)
            /\ call.eq => call.same_hash
            /\ call.type \in {"int", "char", "float"} => call.same_hash = call.eq
            /\ call.type # "float" => call.same_text = call.eq
            /\ call.eq => call.same_text \/ call.zeros
      [] call.op \in {"fprint", "print"} ->
            LET writes == (IF call.len = 0 THEN 2 ELSE 2 * call.len + 1) + (IF call.op = "print" THEN 1 ELSE 0)
                failed == call.failing \cap (1 .. writes)
            IN  /\ call.out.writes = writes
                /\ call.out.rc = IF failed = {} THEN 0 ELSE -First(failed)
      [] call.op = "node" ->
            Nodes!NodePromise(call.links, call.key, call.val, call.list, call.map, call.elem_offset)
      [] OTHER -> TRUE

\* A walk over the arrangements comes back to its start, and a bounded draw gets its word,
\* from a zeroed generator too.
LoopsEnd == (loop # NoLoop) ~> (loop = NoLoop)
=============================================================================
