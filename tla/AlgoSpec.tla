------------------------------ MODULE AlgoSpec -----------------------------
(***************************************************************************)
(* What the algorithms promise of a span s, said without their loops.  A    *)
(* call is a record: the operation, its arguments, its answer 'out', and    *)
(* what it leaves of the span, 'after'.                                     *)
(***************************************************************************)
EXTENDS Span

\* the least and the greatest of a set of indices, Null when there is none
First(S) == IF S = {} THEN Null ELSE CHOOSE i \in S : \A j \in S : i <= j
Last(S) == IF S = {} THEN Null ELSE CHOOSE i \in S : \A j \in S : i >= j

Indices(s) == 0 .. Len(s) - 1
Those(s, pred) == {i \in Indices(s) : At(s, i) \in pred}

\* where a run of s looks like sub
Occurrences(s, sub) ==
    {i \in 0 .. Len(s) - Len(sub) : \A j \in Indices(sub) : Eq(At(s, i + j), At(sub, j))}

Filter(s, pred) == SelectSeq(s, LAMBDA e : e \in pred)
Keys(s) == [i \in DOMAIN s |-> Key[s[i]]]
CountOf(s, k) == Cardinality({i \in DOMAIN s : Key[s[i]] = k})
KeysOf(s, t) == {Key[s[i]] : i \in DOMAIN s} \cup {Key[t[i]] : i \in DOMAIN t}

SearchPromise(s, c) ==
    CASE c.op = "key" ->
            LET at == Those(s, Matching(c.key))
            IN  /\ c.out.find = First(at) /\ c.out.find_last = Last(at)
                /\ c.out.count = Cardinality(at) /\ c.out.contains = (at # {})
                /\ \A n \in DOMAIN c.out.runs :
                       c.out.runs[n] = First(Occurrences(s, [i \in 1 .. n |-> c.key]))
      [] c.op = "sub" ->
            LET at == Occurrences(s, c.sub)
            IN  /\ c.out.find = First(at) /\ c.out.find_last = Last(at)
                /\ c.out.starts = (0 \in at) /\ c.out.ends = (Len(s) - Len(c.sub) \in at)
                /\ c.out.any_of = First(Those(s, UNION {Matching(c.sub[i]) : i \in DOMAIN c.sub}))
      [] c.op = "pred" ->
            LET at == Those(s, c.pred)
            IN  /\ c.out.all = (at = Indices(s)) /\ c.out.any = (at # {}) /\ c.out.none = (at = {})
                /\ c.out.partitioned = (at = 0 .. Cardinality(at) - 1)
                /\ c.out.partitioned => c.out.point = Cardinality(at)
      [] c.op = "bounds" ->
            LET below == Cardinality({i \in DOMAIN s : Key[s[i]] < Key[c.key]})
                upto == Cardinality({i \in DOMAIN s : Key[s[i]] <= Key[c.key]})
            IN  /\ c.out.lower = below /\ c.out.upper = upto /\ c.out.range = <<below, upto>>
                /\ c.out.found = IF below = upto THEN Null ELSE below
      [] c.op = "self" ->
            /\ c.out.adjacent = First({i \in 0 .. Len(s) - 2 : Eq(At(s, i), At(s, i + 1))})
            /\ c.out.sorted = InOrder(s)
            /\ c.out.sorted_until = Cardinality({n \in 1 .. Len(s) : InOrder(Sub(s, 0, n))})
            /\ \A i \in 0 .. Len(s) : /\ c.out.halves[i][1] \o c.out.halves[i][2] = s
                                     /\ Len(c.out.halves[i][1]) = i
                                     /\ c.out.walked[i] = Sub(s, 0, IF i < Len(s) THEN i + 1 ELSE i)
            /\ s # <<>> =>
                   LET least == First({i \in Indices(s) : \A j \in Indices(s) : ~Less(At(s, j), At(s, i))})
                       most == First({i \in Indices(s) : \A j \in Indices(s) : ~Less(At(s, i), At(s, j))})
                   IN  c.out.min = least /\ c.out.max = most /\ c.out.minmax = <<least, most>>
      [] c.op = "compare" ->
            LET t == c.other
                differ == {i \in Indices(s) \cap Indices(t) : ~Eq(At(s, i), At(t, i))}
                before(u, v) == \/ Len(u) < Len(v) /\ Keys(u) = Keys(Sub(v, 0, Len(u)))
                                \/ differ # {} /\ Less(At(u, First(differ)), At(v, First(differ)))
            IN  /\ c.out.eq = (s = t) /\ c.out.eq_by = (Keys(s) = Keys(t))
                /\ c.out.mismatch = First(differ)
                /\ c.out.permutation = (\A k \in KeysOf(s, t) : CountOf(s, k) = CountOf(t, k))
                /\ c.out.cmp = IF before(s, t) THEN -1 ELSE IF before(t, s) THEN 1 ELSE 0
      [] c.op = "includes" ->
            c.out = \A k \in KeysOf(s, c.sub) : CountOf(c.sub, k) <= CountOf(s, k)
      [] OTHER -> TRUE

\* the parent of every elem but the first is not less
Heaped(s) == \A i \in 2 .. Len(s) : ~Less(s[i \div 2], s[i])

\* how many of a value two counts give in each set operation
Kept(op, m, n) ==
    CASE op = "union" -> IF m > n THEN m ELSE n
      [] op = "intersection" -> IF m < n THEN m ELSE n
      [] op = "difference" -> IF m > n THEN m - n ELSE 0
      [] op = "symmetric_difference" -> IF m > n THEN m - n ELSE n - m

\* of the elems of a value k: those of s as they stand, or the ones t has beyond them
OfKey(s, k) == Filter(s, {e \in Elem : Key[e] = k})

OrderPromise(s, c) ==
    CASE c.op \in {"sort", "insertion_sort", "sort_stable", "inplace_merge"} ->
            IF c.refused THEN c.after = s
            ELSE IF c.op = "sort" THEN InOrder(c.after) /\ SameElems(c.after, s)
            ELSE c.after = StableSorted(s)
      [] c.op = "nth_elem" ->
            /\ SameElems(c.after, s)
            /\ \A i \in Indices(s) : /\ i < c.nth => ~Less(At(c.after, c.nth), At(c.after, i))
                                     /\ i > c.nth => ~Less(At(c.after, i), At(c.after, c.nth))
      [] c.op = "partial_sort" ->
            /\ SameElems(c.after, s) /\ InOrder(Sub(c.after, 0, c.count))
            /\ \A i \in 0 .. c.count - 1, j \in c.count .. Len(s) - 1 : ~Less(At(c.after, j), At(c.after, i))
      [] c.op = "merge" -> c.out = StableSorted(s \o c.other)
      [] c.op \in {"union", "intersection", "difference", "symmetric_difference"} ->
            /\ InOrder(c.out)
            /\ \A k \in KeysOf(s, c.other) :
                   LET m == CountOf(s, k)
                       n == CountOf(c.other, k)
                       kept == OfKey(c.out, k)
                       mine == OfKey(s, k)
                       theirs == OfKey(c.other, k)
                   IN  /\ Len(kept) = Kept(c.op, m, n)
                       /\ \A i \in DOMAIN kept :
                              kept[i] = CASE c.op = "union" -> IF i <= m THEN mine[i] ELSE theirs[i]
                                          [] c.op = "intersection" -> mine[i]
                                          [] OTHER -> IF m > n THEN mine[i + n] ELSE theirs[i + m]
      [] c.op = "make_heap" -> Heaped(c.after) /\ SameElems(c.after, s)
      [] c.op = "push_heap" -> Heaped(c.after) /\ SameElems(c.after, s)
      [] c.op = "pop_heap" ->
            /\ SameElems(c.after, s) /\ Heaped(Sub(c.after, 0, Len(s) - 1))
            /\ \A i \in DOMAIN s : ~Less(c.after[Len(s)], s[i])
      [] c.op = "sort_heap" -> InOrder(c.after) /\ SameElems(c.after, s)
      [] c.op = "is_heap" -> /\ c.out.heap = Heaped(s)
                             /\ c.out.until = Cardinality({n \in 1 .. Len(s) : Heaped(Sub(s, 0, n))})
      [] OTHER -> TRUE

\* the positions of a block that a write of n elems at 'at' leaves alone
Outside(s, at, n) == Indices(s) \ (at .. at + n - 1)

PassPromise(s, c) ==
    CASE c.op = "unique" ->
            LET heads == {i \in DOMAIN s : i = 1 \/ ~Eq(s[i - 1], s[i])}
            IN  /\ c.out = Cardinality(heads)
                /\ \A n \in 1 .. c.out :
                       c.after[n] = s[CHOOSE i \in heads : Cardinality({j \in heads : j <= i}) = n]
      [] c.op = "remove" ->
            LET left == Filter(s, Elem \ c.pred) IN c.out = Len(left) /\ Sub(c.after, 0, c.out) = left
      [] c.op = "replace" -> c.after = [i \in DOMAIN s |-> IF s[i] \in c.pred THEN c.val ELSE s[i]]
      [] c.op = "fill" -> c.after = [i \in DOMAIN s |-> c.val]
      [] c.op = "generate" -> c.after = [i \in DOMAIN s |-> c.gen[i - 1]]
      [] c.op = "copy" ->
            /\ \A i \in 0 .. c.n - 1 : At(c.after, c.dst + i) = At(s, c.src + i)
            /\ \A i \in Outside(s, c.dst, c.n) : At(c.after, i) = At(s, i)
      [] c.op = "copy_if" -> c.out = Filter(s, c.pred)
      [] c.op = "reverse" -> c.after = [i \in DOMAIN s |-> s[Len(s) + 1 - i]]
      [] c.op = "rotate" -> c.after = Sub(s, c.mid, Len(s) - c.mid) \o Sub(s, 0, c.mid)
      [] c.op = "swap_ranges" ->
            \A i \in Indices(s) :
                At(c.after, i) = At(s, IF i \in c.p .. c.p + c.n - 1 THEN c.q + i - c.p
                                       ELSE IF i \in c.q .. c.q + c.n - 1 THEN c.p + i - c.q ELSE i)
      [] c.op = "partition" ->
            /\ SameElems(c.after, s) /\ c.out = Cardinality(Those(s, c.pred))
            /\ \A i \in Indices(s) : (At(c.after, i) \in c.pred) = (i < c.out)
      [] c.op = "partition_stable" ->
            IF c.refused THEN c.after = s
            ELSE /\ c.after = Filter(s, c.pred) \o Filter(s, Elem \ c.pred)
                 /\ c.out = Len(Filter(s, c.pred))
      [] c.op = "arranged" ->
            \* every arrangement of the keys once, and the first one again
            /\ Keys(c.after) = Keys(s)
            /\ {Keys(t) : t \in c.seen} = {k \in {Keys([i \in DOMAIN s |-> s[p[i]]]) : p \in
                                                  {f \in [DOMAIN s -> DOMAIN s] : \A i, j \in DOMAIN s :
                                                       i # j => f[i] # f[j]}} : TRUE}
            /\ \A t, u \in c.seen : Keys(t) = Keys(u) => t = u
      [] OTHER -> TRUE

(* The passes that compute, over ints; op keeps its operands apart.         *)
ComputePromise(src, c, op(_, _)) ==
    CASE c.op = "fold" ->
            LET acc[i \in 0 .. Len(src)] == IF i = 0 THEN 0 ELSE op(acc[i - 1], src[i])
                rev == [i \in DOMAIN src |-> src[Len(src) + 1 - i]]
                back[i \in 0 .. Len(src)] == IF i = 0 THEN 0 ELSE op(back[i - 1], rev[i])
            IN  c.out = <<acc[Len(src)], back[Len(src)]>>
      [] c.op = "partial_sum" ->
            LET sum[i \in DOMAIN src] == IF i = 1 THEN src[1] ELSE op(sum[i - 1], src[i])
            IN  c.out = [i \in DOMAIN src |-> sum[i]]
      [] c.op = "adjacent_difference" ->
            c.out = [i \in DOMAIN src |-> IF i = 1 THEN src[1] ELSE op(src[i], src[i - 1])]
      [] c.op = "transform" -> c.out = [i \in DOMAIN src |-> op(src[i], 0)]
      [] c.op = "zip_with" -> c.out = [i \in DOMAIN src |-> op(src[i], c.other[i])]
      [] OTHER -> TRUE
=============================================================================
