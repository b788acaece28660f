------------------------------- MODULE Deque -------------------------------
(***************************************************************************)
(* The double-ended queue of src/ds/deque.c: a ring of cap slots, len elems *)
(* from slot head on, one lap back past the end; and the queue of           *)
(* src/ds/queue.c on it.                                                    *)
(*                                                                         *)
(* deques maps each handle to its tda_Deque, with the bytes of its block as *)
(* ring; a zeroed handle, as deinit leaves it, has no allocator.  A slot    *)
(* that holds no elem is Garbage: its bytes are nobody's.  heap is the set  *)
(* of blocks the allocators have out, call the last call a caller made.     *)
(* An allocator may refuse any request.                                     *)
(***************************************************************************)
EXTENDS Layout, SequencesExt

CONSTANTS
    Names,    \* the handles
    Als,      \* the allocators
    Elem,     \* the elems
    Zero,     \* the elem whose bytes are all zero
    ElemSize, \* sizeof an elem
    Garbage,  \* what is read from a slot that holds no elem
    MaxSpan,  \* bound on the length of a caller's span
    HeapMax   \* bound on the slots of all blocks held: the allocators refuse more

ASSUME DequeAssumption ==
    /\ IsFiniteSet(Names)
    /\ Zero \in Elem /\ Garbage \notin Elem
    /\ Null \notin Als /\ Null \notin Nat
    /\ SizeMax \in Nat \ {0} /\ ElemSize \in Nat \ {0}
    /\ MaxSpan \in Nat /\ HeapMax \in Nat

VARIABLES deques, heap, call

vars == <<deques, heap, call>>

Sizes == 0 .. SizeMax
Spans == UNION {[1 .. n -> Elem] : n \in 0 .. MaxSpan}
ElemLayout == [size |-> ElemSize, align |-> 1]

-----------------------------------------------------------------------------
(* The ring.  q is a tda_Deque.                                             *)

Blank(cap) == [s \in 0 .. cap - 1 |-> Garbage]

\* tda_deque_init: an empty deque that owns no block
Empty(al) == [al |-> al, data |-> Null, cap |-> 0, head |-> 0, len |-> 0, ring |-> Blank(0)]
Zeroed == Empty(Null)

\* the slot of the elem at idx
SlotOf(q, idx) == LET room == q.cap - q.head IN IF idx < room THEN q.head + idx ELSE idx - room

SlotFwd(q, slot, count) ==
    IF count < q.cap - slot THEN slot + count ELSE count - (q.cap - slot)

SlotBack(q, slot, count) == IF slot >= count THEN slot - count ELSE slot + q.cap - count

\* the index of the elem in a slot
AliasIdx(q, slot) == IF slot >= q.head THEN slot - q.head ELSE slot + q.cap - q.head

\* how many of count elems from slot on lie before the end of the buffer
RunFrom(q, slot, count) == LET to_end == q.cap - slot IN IF to_end < count THEN to_end ELSE count

FirstRun(q) == RunFrom(q, q.head, q.len)

ElemAt(q, idx) == q.ring[SlotOf(q, idx)]
Contents(q) == [i \in 1 .. q.len |-> ElemAt(q, i - 1)]

\* the free slots forgotten
Tidy(q) ==
    LET used == {SlotOf(q, i) : i \in 0 .. q.len - 1}
    IN  [q EXCEPT !.ring = [s \in DOMAIN q.ring |-> IF s \in used THEN q.ring[s] ELSE Garbage]]

\* a block of cap slots with the elems of q at its start: at most two runs copied
CopyOut(q, cap) ==
    LET run == FirstRun(q)
    IN  [s \in 0 .. cap - 1 |->
            IF s < run THEN q.ring[q.head + s]
            ELSE IF s < q.len THEN q.ring[s - run] ELSE Garbage]

\* q with src over the elems from idx on, in at most two runs
CopyRangeIn(q, idx, src) ==
    LET slot == SlotOf(q, idx)
        run == RunFrom(q, slot, Len(src))
    IN  IF src = <<>> THEN q
        ELSE [q EXCEPT !.ring =
                [s \in DOMAIN @ |->
                    IF s \in slot .. slot + run - 1 THEN src[s - slot + 1]
                    ELSE IF s < Len(src) - run THEN src[run + s + 1] ELSE @[s]]]

MoveElem(q, to, from) == [q EXCEPT !.ring[SlotOf(q, to)] = ElemAt(q, from)]

\* broken: walks up whichever way the elems go
MoveLoopUp(q, to, from, count) ==
    LET walk[n \in 0 .. count] == IF n = 0 THEN q ELSE MoveElem(walk[n - 1], to + n - 1, from + n - 1)
    IN  walk[count]

\* the two loops of move_elems: moving down walks up, moving up walks down
MoveLoop(q, to, from, count) ==
    LET i(n) == IF to < from THEN n - 1 ELSE count - n
        walk[n \in 0 .. count] == IF n = 0 THEN q ELSE MoveElem(walk[n - 1], to + i(n), from + i(n))
    IN  walk[count]

\* what they do: every elem moves at once
MoveElems(q, to, from, count) ==
    [q EXCEPT !.ring =
        [s \in DOMAIN @ |->
            LET idx == AliasIdx(q, s)
            IN  IF idx \in to .. to + count - 1 THEN ElemAt(q, from + (idx - to)) ELSE @[s]]]

-----------------------------------------------------------------------------
(* Blocks.  An outcome is [q, heap, ok]: the deque and the heap a helper    *)
(* leaves, and its status.                                                  *)

Outcome(q, h, ok) == [q |-> q, heap |-> h, ok |-> ok]

\* some block number not in use
FreshId(h) == CHOOSE id \in 1 .. Cardinality(h) + 1 : \A b \in h : b.id # id

BlockOf(q) == [id |-> q.data, al |-> q.al, cap |-> q.cap]

\* tda_dealloc: sized, and null is a no-op
FreeBlock(q, h) == h \ {BlockOf(q)}

\* the allocators have the memory for these blocks
Affords(h) == MapThenSumSet(LAMBDA b : b.cap, h) <= HeapMax

\* q with a new block of cap slots in place of its own, its elems from slot 0
Adopted(q, h, cap, ring) ==
    LET p == [q EXCEPT !.data = FreshId(h), !.cap = cap, !.head = 0, !.ring = ring]
    IN  Outcome(p, FreeBlock(q, h) \cup {BlockOf(p)}, TRUE)

\* a new block is asked for, and adopted if it comes
Replaced(q, h, cap, ring) ==
    {Outcome(q, h, FALSE)} \cup {r \in {Adopted(q, h, cap, ring)} : Affords(r.heap)}

Relocate(q, h, cap) == Replaced(q, h, cap, CopyOut(q, cap))

\* the block goes, the allocator stays
ReleaseData(q, h) == Outcome(Empty(q.al), FreeBlock(q, h), TRUE)

ReserveOutcomes(q, h, cap) ==
    IF cap <= q.cap THEN {Outcome(q, h, TRUE)}
    ELSE IF LayoutCkdArray(ElemLayout, cap) = Null THEN {Outcome(q, h, FALSE)}
    ELSE Relocate(q, h, cap)

NextCap(q) ==
    IF q.cap = 0 THEN 1 ELSE IF CkdMul(q.cap, 2) = Null THEN SizeMax ELSE CkdMul(q.cap, 2)

\* the doubled capacity first, the exact one if that is refused
ReserveFor(q, h, n) ==
    IF NextCap(q) > n
    THEN UNION {IF r.ok THEN {r} ELSE ReserveOutcomes(r.q, r.heap, n)
                  : r \in ReserveOutcomes(q, h, NextCap(q))}
    ELSE ReserveOutcomes(q, h, n)

ReserveOne(q, h) ==
    IF q.len < q.cap THEN {Outcome(q, h, TRUE)}
    ELSE IF q.cap = SizeMax THEN {Outcome(q, h, FALSE)}
    ELSE ReserveFor(q, h, q.cap + 1)

\* q, which has the room, with its shorter side moved off the count places from idx on
Gap(q, idx, count) ==
    IF idx < q.len - idx
    THEN MoveElems([q EXCEPT !.head = SlotBack(q, q.head, count), !.len = q.len + count],
                   0, count, idx)
    ELSE MoveElems([q EXCEPT !.len = q.len + count], idx + count, idx, q.len - idx)

OpenGap(q, h, idx, count) ==
    LET new_len == CkdAdd(q.len, count)
        room == IF new_len > q.cap THEN ReserveFor(q, h, new_len) ELSE {Outcome(q, h, TRUE)}
    IN  IF new_len = Null THEN {Outcome(q, h, FALSE)}
        ELSE {IF r.ok THEN [r EXCEPT !.q = Gap(r.q, idx, count)] ELSE r : r \in room}

\* the deque with ring as its block, len of whose slots hold elems
InitImpl(al, h, len, cap, ring) ==
    LET q == [Empty(al) EXCEPT !.len = len]
    IN  IF cap = 0 THEN {Outcome(q, h, TRUE)}
        ELSE IF LayoutCkdArray(ElemLayout, cap) = Null THEN {Outcome(q, h, FALSE)}
        ELSE Replaced(q, h, cap, ring)

-----------------------------------------------------------------------------
(* The calls.                                                               *)

Init == deques = [d \in Names |-> Zeroed] /\ heap = {} /\ call = [op |-> "none"]

Alive(d) == deques[d].al # Null

\* the call c, made on d, with its status
Made(c, d, ok) ==
    [f \in DOMAIN c \cup {"d", "ok"} |-> IF f = "d" THEN d ELSE IF f = "ok" THEN ok ELSE c[f]]

\* the call c, made on d, ends with d as q
Ends(c, d, q, h, ok) ==
    /\ deques' = [deques EXCEPT ![d] = Tidy(q)]
    /\ heap' = h
    /\ call' = Made(c, d, ok)

\* a call that has no need of memory
EndsOk(c, d, q) == Ends(c, d, q, heap, TRUE)

\* the values a caller may give: an elem of its own, or one of the deque's, by its index
Vals(q) == [alias : {FALSE}, at : Elem] \cup [alias : {TRUE}, at : 0 .. q.len - 1]

\* the bytes behind v, given to q, once growth has left it as p: an elem of the deque is
\* found again by index
Src(q, p, v) == IF v.alias THEN ElemAt(p, AliasIdx(q, SlotOf(q, v.at))) ELSE v.at

\* init, init_len, init_cap, from_data and from_span: 'out' takes the deque if all is well
tda_deque_make(d, al, src, cap) ==
    LET ring == [s \in 0 .. cap - 1 |-> IF s < Len(src) THEN src[s + 1] ELSE Garbage]
    IN  /\ ~Alive(d) /\ Len(src) <= cap
        /\ \E r \in InitImpl(al, heap, Len(src), cap, ring) :
              Ends([op |-> "make", src |-> src], d, IF r.ok THEN r.q ELSE deques[d], r.heap, r.ok)

\* broken: the handle is cleared and its block never given back
DeinitLeaks(d) == EndsOk([op |-> "deinit"], d, Zeroed)

tda_deque_deinit(d) ==
    Ends([op |-> "deinit"], d, Zeroed,
         IF Alive(d) THEN FreeBlock(deques[d], heap) ELSE heap, TRUE)

tda_deque_copy_with(d, al, e) ==
    LET len == deques[e].len
    IN  /\ ~Alive(d) /\ Alive(e)
        /\ \E r \in InitImpl(al, heap, len, len, CopyOut(deques[e], len)) :
              Ends([op |-> "copy", from |-> e], d, IF r.ok THEN r.q ELSE deques[d], r.heap, r.ok)

tda_deque_copy_assign(d, e) ==
    LET q == deques[d]
        p == deques[e]
        filled(r) == [r EXCEPT !.head = 0, !.len = p.len, !.ring = CopyOut(p, r.cap)]
        room == IF p.len <= q.cap THEN {Outcome(q, heap, TRUE)}
                ELSE Replaced(q, heap, p.len, Blank(p.len))
    IN  /\ Alive(d) /\ Alive(e)
        /\ \E r \in IF d = e THEN {Outcome(q, heap, TRUE)} ELSE room :
              Ends([op |-> "copy", from |-> e], d,
                   IF d = e \/ ~r.ok THEN q ELSE filled(r.q), r.heap, r.ok)

tda_deque_move_assign(d, e) ==
    /\ Alive(e)
    /\ deques' = IF d = e THEN deques
                 ELSE [deques EXCEPT ![d] = deques[e], ![e] = Empty(deques[e].al)]
    /\ heap' = IF d # e /\ Alive(d) THEN FreeBlock(deques[d], heap) ELSE heap
    /\ call' = [op |-> "move_assign", from |-> e, d |-> d, ok |-> TRUE]

tda_deque_swap(d, e) ==
    /\ Alive(d) /\ Alive(e)
    /\ deques' = [deques EXCEPT ![d] = deques[e], ![e] = deques[d]]
    /\ call' = [op |-> "swap", from |-> e, d |-> d, ok |-> TRUE]
    /\ UNCHANGED heap

tda_deque_copy_from_span(d, src) ==
    /\ Len(src) = deques[d].len
    /\ EndsOk([op |-> "copy_from_span", src |-> src], d, CopyRangeIn(deques[d], 0, src))

tda_deque_set(d, idx, v) ==
    LET q == deques[d]
    IN  /\ idx < q.len
        /\ EndsOk([op |-> "set", idx |-> idx, val |-> v], d,
                  [q EXCEPT !.ring[SlotOf(q, idx)] = Src(q, q, v)])

tda_deque_swap_elems(d, i, j) ==
    LET q == deques[d]
    IN  /\ i < q.len /\ j < q.len
        /\ EndsOk([op |-> "swap_elems", idx |-> i, idx2 |-> j], d,
                  [q EXCEPT !.ring[SlotOf(q, i)] = ElemAt(q, j), !.ring[SlotOf(q, j)] = ElemAt(q, i)])

\* the value is read before the head moves
tda_deque_push_front(d, v) ==
    \E r \in ReserveOne(deques[d], heap) :
        LET head == SlotBack(r.q, r.q.head, 1)
        IN  Ends([op |-> "push_front", val |-> v], d,
                 IF ~r.ok THEN r.q
                 ELSE [r.q EXCEPT !.head = head, !.len = @ + 1,
                                  !.ring[head] = Src(deques[d], r.q, v)], r.heap, r.ok)

tda_deque_push_back(d, v) ==
    \E r \in ReserveOne(deques[d], heap) :
        Ends([op |-> "push_back", val |-> v], d,
             IF ~r.ok THEN r.q
             ELSE [r.q EXCEPT !.len = @ + 1,
                              !.ring[SlotOf(r.q, r.q.len)] = Src(deques[d], r.q, v)],
             r.heap, r.ok)

\* q without its first elem
PopFront(q) == [q EXCEPT !.head = SlotFwd(q, q.head, 1), !.len = @ - 1]

tda_deque_pop_front(d) ==
    /\ deques[d].len > 0
    /\ EndsOk([op |-> "remove_range", idx |-> 0, n |-> 1], d, PopFront(deques[d]))

\* out is the elem handed over
tda_deque_pop_front_to(d) ==
    /\ deques[d].len > 0
    /\ EndsOk([op |-> "pop_front", out |-> ElemAt(deques[d], 0)], d, PopFront(deques[d]))

tda_deque_pop_back(d) ==
    LET q == [deques[d] EXCEPT !.len = @ - 1]
    IN  deques[d].len > 0 /\ EndsOk([op |-> "truncate", n |-> q.len], d, q)

tda_deque_pop_back_to(d) ==
    LET q == deques[d]
    IN  /\ q.len > 0
        /\ EndsOk([op |-> "pop_back", out |-> ElemAt(q, q.len - 1)], d, [q EXCEPT !.len = @ - 1])

\* p, the deque q with a gap of one at idx, with the value in it
Inserted(q, p, idx, v) ==
    LET from == AliasIdx(q, SlotOf(q, v.at))
    IN  IF v.alias THEN MoveElem(p, idx, IF from < idx THEN from ELSE from + 1)
        ELSE CopyRangeIn(p, idx, <<v.at>>)

tda_deque_insert(d, idx, v) ==
    /\ Alive(d) /\ idx <= deques[d].len
    /\ \E r \in OpenGap(deques[d], heap, idx, 1) :
          Ends([op |-> "insert", idx |-> idx, val |-> v], d,
               IF r.ok THEN Inserted(deques[d], r.q, idx, v) ELSE r.q, r.heap, r.ok)

InsertRaw(q, h, idx, src) ==
    IF src = <<>> THEN {Outcome(q, h, TRUE)}
    ELSE {IF r.ok THEN [r EXCEPT !.q = CopyRangeIn(r.q, idx, src)] ELSE r :
              r \in OpenGap(q, h, idx, Len(src))}

\* the span lies outside the block
tda_deque_insert_span(d, idx, src) ==
    /\ Alive(d) /\ idx <= deques[d].len
    /\ \E r \in InsertRaw(deques[d], heap, idx, src) :
          Ends([op |-> "insert_span", idx |-> idx, src |-> src], d, r.q, r.heap, r.ok)

tda_deque_extend(d, src) == tda_deque_insert_span(d, deques[d].len, src)

\* the elems of q, less the count from idx on: whichever side is shorter slides over them
Closed(q, idx, count) ==
    IF idx < q.len - idx - count
    THEN [MoveElems(q, count, 0, idx) EXCEPT !.head = SlotFwd(q, q.head, count), !.len = @ - count]
    ELSE [MoveElems(q, idx, idx + count, q.len - idx - count) EXCEPT !.len = @ - count]

tda_deque_remove_range(d, idx, count) ==
    LET q == deques[d]
    IN  /\ Alive(d) /\ idx + count <= q.len
        /\ EndsOk([op |-> "remove_range", idx |-> idx, n |-> count], d,
                  IF count = 0 THEN q ELSE Closed(q, idx, count))

tda_deque_remove(d, idx) == idx < deques[d].len /\ tda_deque_remove_range(d, idx, 1)

\* one turn of the loop of retain: p is the deque so far and how many elems it keeps.  Until
\* the first drop an elem is moved onto itself, which the code leaves out
RetainStep(p, i, keep) ==
    IF ElemAt(p.q, i) \notin keep THEN p
    ELSE [q |-> MoveElem(p.q, p.kept, i), kept |-> p.kept + 1]

\* the loop after as many turns as there are elems
RetainLoop(q, keep) ==
    LET walk[n \in 0 .. q.len] ==
            IF n = 0 THEN [q |-> q, kept |-> 0] ELSE RetainStep(walk[n - 1], n - 1, keep)
    IN  walk[q.len]

tda_deque_retain(d, keep) ==
    LET p == RetainLoop(deques[d], keep)
    IN  EndsOk([op |-> "retain", keep |-> keep], d, [p.q EXCEPT !.len = p.kept])

tda_deque_clear(d) == EndsOk([op |-> "clear"], d, [deques[d] EXCEPT !.len = 0, !.head = 0])

tda_deque_truncate(d, n) ==
    EndsOk([op |-> "truncate", n |-> n], d,
           IF n < deques[d].len THEN [deques[d] EXCEPT !.len = n] ELSE deques[d])

tda_deque_reserve(d, cap) ==
    \E r \in ReserveOutcomes(deques[d], heap, cap) : Ends([op |-> "reserve"], d, r.q, r.heap, r.ok)

tda_deque_shrink_to_fit(d) ==
    LET q == deques[d]
        outcomes == IF q.len = q.cap THEN {Outcome(q, heap, TRUE)}
                    ELSE IF q.len = 0 THEN {ReleaseData(q, heap)}
                    ELSE Relocate(q, heap, q.len)
    IN  \E r \in outcomes : Ends([op |-> "shrink_to_fit"], d, r.q, r.heap, r.ok)

\* q, which has the room, with its tail zeroed a slot at a time
Resized(q, n) ==
    [q EXCEPT !.len = n,
              !.ring = [s \in DOMAIN @ |-> IF AliasIdx(q, s) \in q.len .. n - 1 THEN Zero ELSE @[s]]]

tda_deque_resize(d, n) ==
    LET q == deques[d]
    IN  \E r \in IF n > q.cap THEN ReserveFor(q, heap, n) ELSE {Outcome(q, heap, TRUE)} :
            Ends([op |-> "resize", n |-> n], d, IF r.ok THEN Resized(r.q, n) ELSE r.q, r.heap, r.ok)

\* the elem is read where it lies
tda_deque_get(d, idx) ==
    /\ idx < deques[d].len
    /\ EndsOk([op |-> "get", idx |-> idx, out |-> ElemAt(deques[d], idx)], d, deques[d])
tda_deque_front(d) == deques[d].len > 0 /\ tda_deque_get(d, 0)
tda_deque_back(d) == deques[d].len > 0 /\ tda_deque_get(d, deques[d].len - 1)

\* the caller writes through the pointer it is given
tda_deque_get_mut(d, idx, v) ==
    LET q == deques[d]
    IN  /\ idx < q.len
        /\ EndsOk([op |-> "set", idx |-> idx, val |-> v], d, [q EXCEPT !.ring[SlotOf(q, idx)] = v.at])
tda_deque_front_mut(d, v) == deques[d].len > 0 /\ tda_deque_get_mut(d, 0, v)
tda_deque_back_mut(d, v) == deques[d].len > 0 /\ tda_deque_get_mut(d, deques[d].len - 1, v)

tda_deque_copy_to_span(d) ==
    LET q == deques[d]
        dst == CopyOut(q, q.len)
    IN  EndsOk([op |-> "copy_to_span", out |-> [i \in 1 .. q.len |-> dst[i - 1]]], d, q)

\* the run up to the end of the buffer, then the rest
tda_deque_to_spans(d) ==
    LET q == deques[d]
        front_len == FirstRun(q)
    IN  EndsOk([op |-> "copy_to_span",
                out |-> [i \in 1 .. front_len |-> q.ring[q.head + i - 1]]
                        \o [i \in 1 .. q.len - front_len |-> q.ring[i - 1]]], d, q)

\* one turn of a walk: the length is read anew, and brk is up while the body runs, so that a
\* body that breaks off, here at an elem in stop, leaves it up and ends the walk with it
WalkTurn(t, stop) ==
    IF t.brk \/ t.idx >= t.q.len THEN t
    ELSE LET elem == ElemAt(t.q, t.idx)
         IN  [t EXCEPT !.met = Append(@, elem), !.brk = elem \in stop, !.idx = @ + 1]

\* for as many turns as there are elems
Walk(q, stop) ==
    LET walk[n \in 0 .. q.len] ==
            IF n = 0 THEN [q |-> q, met |-> <<>>, brk |-> FALSE, idx |-> 0] ELSE WalkTurn(walk[n - 1], stop)
    IN  walk[q.len]

TDA_DEQUE_FOR_EACH_AS(d) ==
    EndsOk([op |-> "copy_to_span", out |-> Walk(deques[d], {}).met], d, deques[d])

\* a caller walks up to the first elem e, writes to it and breaks off
TDA_DEQUE_FOR_EACH_MUT_AS(d, e, v) ==
    LET t == Walk(deques[d], {e})
    IN  /\ t.brk
        /\ EndsOk([op |-> "set", idx |-> Len(t.met) - 1, val |-> v], d,
                  [t.q EXCEPT !.ring[SlotOf(t.q, t.idx - 1)] = v.at])

\* fprint and print: elem by elem, whatever the seam
tda_deque_fprint(d) == EndsOk([op |-> "copy_to_span", out |-> Contents(deques[d])], d, deques[d])

\* broken: the buffers are compared as they lie
EqBuffers(a, b) == a.len = b.len /\ \A s \in 0 .. a.len - 1 : a.ring[s] = b.ring[s]

EqImpl(a, b) == a.len = b.len /\ \A i \in 0 .. a.len - 1 : ElemAt(a, i) = ElemAt(b, i)

\* eq and eq_by
tda_deque_eq(d, e) ==
    /\ Alive(d) /\ Alive(e)
    /\ EndsOk([op |-> "eq", from |-> e, out |-> d = e \/ EqImpl(deques[d], deques[e])], d, deques[d])

Lifetime(d) ==
    \/ \E al \in Als, src \in Spans, cap \in Sizes : tda_deque_make(d, al, src, cap)
    \/ tda_deque_deinit(d)

Pairs(d, e) ==
    \/ \E al \in Als : tda_deque_copy_with(d, al, e)
    \/ tda_deque_copy_assign(d, e) \/ tda_deque_move_assign(d, e) \/ tda_deque_swap(d, e)
    \/ tda_deque_eq(d, e)

Mods(d) ==
    \/ \E v \in Vals(deques[d]) :
          \/ tda_deque_push_front(d, v) \/ tda_deque_push_back(d, v)
          \/ \E idx \in 0 .. deques[d].len : tda_deque_insert(d, idx, v) \/ tda_deque_set(d, idx, v)
          \/ ~v.alias /\ (tda_deque_front_mut(d, v) \/ tda_deque_back_mut(d, v))
          \/ ~v.alias /\ \E e \in Elem : TDA_DEQUE_FOR_EACH_MUT_AS(d, e, v)
    \/ \E src \in Spans :
          \/ tda_deque_copy_from_span(d, src) \/ tda_deque_extend(d, src)
          \/ \E idx \in 0 .. deques[d].len : tda_deque_insert_span(d, idx, src)
    \/ tda_deque_pop_front(d) \/ tda_deque_pop_back(d)
    \/ tda_deque_pop_front_to(d) \/ tda_deque_pop_back_to(d)
    \/ tda_deque_clear(d) \/ tda_deque_shrink_to_fit(d)
    \/ tda_deque_front(d) \/ tda_deque_back(d)
    \/ tda_deque_copy_to_span(d) \/ tda_deque_to_spans(d) \/ tda_deque_fprint(d)
    \/ TDA_DEQUE_FOR_EACH_AS(d)
    \/ \E i \in 0 .. deques[d].len : tda_deque_get(d, i) \/ tda_deque_remove(d, i)
    \/ \E i, j \in 0 .. deques[d].len : tda_deque_remove_range(d, i, j) \/ tda_deque_swap_elems(d, i, j)
    \/ \E n \in Sizes : tda_deque_truncate(d, n) \/ tda_deque_reserve(d, n) \/ tda_deque_resize(d, n)
    \/ \E keep \in SUBSET Elem : tda_deque_retain(d, keep)

Next ==
    \/ \E d \in Names : Lifetime(d)
    \/ \E d, e \in Names : Pairs(d, e)
    \/ \E d \in Names : Alive(d) /\ Mods(d)

Spec == Init /\ [][Next]_vars

-----------------------------------------------------------------------------
(* The queue of src/ds/queue.c: a tda_Queue is a tda_Deque that is pushed   *)
(* at the back and popped at the front, and every call is one of the        *)
(* deque's.  The handle of a queue is that of its deque; kinds is what each *)
(* handle is declared as, and tda_queue_into_deque is where the deque       *)
(* changes hands.                                                           *)

CONSTANT Kinds  \* the declarations looked at: functions from the handles to their kinds

VARIABLE kinds

\* init, init_cap, from_data and from_span
tda_queue_make(d, al, src, cap) == tda_deque_make(d, al, src, cap)

tda_queue_deinit(d) == tda_deque_deinit(d)

\* the queue is left inert; the deque lives on as e
tda_queue_into_deque(d, e) ==
    /\ Alive(d) /\ ~Alive(e)
    /\ deques' = [deques EXCEPT ![d] = Zeroed, ![e] = deques[d]]
    /\ call' = [op |-> "into", from |-> d, d |-> e, ok |-> TRUE]
    /\ UNCHANGED heap

\* copy and copy_with
tda_queue_copy_with(d, al, e) == tda_deque_copy_with(d, al, e)
tda_queue_copy_assign(d, e) == tda_deque_copy_assign(d, e)
tda_queue_move_assign(d, e) == tda_deque_move_assign(d, e)
tda_queue_swap(d, e) == tda_deque_swap(d, e)
\* eq and eq_by
tda_queue_eq(d, e) == tda_deque_eq(d, e)

tda_queue_push(d, v) == tda_deque_push_back(d, v)
tda_queue_extend(d, src) == tda_deque_extend(d, src)
tda_queue_pop(d) == tda_deque_pop_front(d)
tda_queue_pop_to(d) == tda_deque_pop_front_to(d)
tda_queue_clear(d) == tda_deque_clear(d)
tda_queue_reserve(d, cap) == tda_deque_reserve(d, cap)
tda_queue_shrink_to_fit(d) == tda_deque_shrink_to_fit(d)

tda_queue_front(d) == tda_deque_front(d)
tda_queue_back(d) == tda_deque_back(d)
\* front_mut and back_mut, and the caller's write
tda_queue_front_mut(d, v) == tda_deque_front_mut(d, v)
tda_queue_back_mut(d, v) == tda_deque_back_mut(d, v)
tda_queue_copy_to_span(d) == tda_deque_copy_to_span(d)
\* fprint and print
tda_queue_fprint(d) == tda_deque_fprint(d)

QueueLifetime(d) ==
    \/ \E al \in Als, src \in Spans, cap \in Sizes : tda_queue_make(d, al, src, cap)
    \/ tda_queue_deinit(d)

QueuePairs(d, e) ==
    \/ \E al \in Als : tda_queue_copy_with(d, al, e)
    \/ tda_queue_copy_assign(d, e) \/ tda_queue_move_assign(d, e) \/ tda_queue_swap(d, e)
    \/ tda_queue_eq(d, e)

QueueMods(d) ==
    \/ \E v \in Vals(deques[d]) :
          \/ tda_queue_push(d, v)
          \/ ~v.alias /\ (tda_queue_front_mut(d, v) \/ tda_queue_back_mut(d, v))
    \/ \E src \in Spans : tda_queue_extend(d, src)
    \/ tda_queue_pop(d) \/ tda_queue_pop_to(d) \/ tda_queue_clear(d) \/ tda_queue_shrink_to_fit(d)
    \/ \E cap \in Sizes : tda_queue_reserve(d, cap)
    \/ tda_queue_front(d) \/ tda_queue_back(d) \/ tda_queue_copy_to_span(d) \/ tda_queue_fprint(d)

-----------------------------------------------------------------------------
(* Deques and queues side by side on the same allocators.                   *)

QueueInit == Init /\ kinds \in Kinds

Calls(d, e) ==
    LET both(kind) == kinds[d] = kind /\ kinds[e] = kind
    IN  \/ both("deque") /\ Pairs(d, e)
        \/ both("queue") /\ QueuePairs(d, e)
        \/ kinds[d] = "queue" /\ kinds[e] = "deque" /\ tda_queue_into_deque(d, e)

OwnCalls(d) ==
    \/ kinds[d] = "deque" /\ (Lifetime(d) \/ (Alive(d) /\ Mods(d)))
    \/ kinds[d] = "queue" /\ (QueueLifetime(d) \/ (Alive(d) /\ QueueMods(d)))

QueueNext ==
    /\ UNCHANGED kinds
    /\ (\E d, e \in Names : Calls(d, e)) \/ \E d \in Names : OwnCalls(d)

QueueSpec == QueueInit /\ [][QueueNext]_<<vars, kinds>>

-----------------------------------------------------------------------------
(* Properties.                                                              *)

\* The fields keep what ASSERT_DEQUE checks on entry to and exit from every call, and no
\* slot of the contents was left unwritten.
TypeOK ==
    \A d \in Names :
        LET q == deques[d]
        IN  /\ q.al \in Als \cup {Null} /\ q.cap \in Sizes /\ q.len \in 0 .. q.cap
            /\ DOMAIN q.ring = 0 .. q.cap - 1
            /\ (q.data = Null) = (q.cap = 0)
            /\ q.head \in 0 .. Larger(q.cap, 1) - 1
            /\ \A i \in 0 .. q.len - 1 : ElemAt(q, i) \in Elem
            /\ ~Alive(d) => q = Zeroed

\* each block that is out has one holder
HeldOnce ==
    LET owners == {d \in Names : deques[d].data # Null}
    IN  /\ heap = {BlockOf(deques[d]) : d \in owners}
        /\ Cardinality(heap) = Cardinality(owners)

\* The fields are sound, and each block the allocators have out belongs to one deque,
\* which holds it with the size and the allocator it was asked with: whatever was grown,
\* refused, copied, moved or swapped, no block is leaked, shared, or given back twice or
\* with another layout.
BlocksOwned == TypeOK /\ HeldOnce

\* The loops of move_elems read every elem before they write over it: for all the moves
\* insert and remove may ask of a ring, wherever its seam, their result is that of moving all
\* at once.  The loops see places and no elems, so a ring is tried when it has run empty,
\* with each slot told apart by its number.
LoopsMoveAtOnce ==
    \A d \in Names : \A to, from, count \in 0 .. deques[d].cap :
        LET q == [deques[d] EXCEPT !.ring = [s \in DOMAIN @ |-> s]]
        IN  q.len = 0 /\ to + count <= q.cap /\ from + count <= q.cap
                => MoveLoop(q, to, from, count) = MoveElems(q, to, from, count)

Seqs == [d \in Names |-> Contents(deques[d])]

SeqsSpec == INSTANCE SeqSpec WITH seqs <- Seqs

\* A deque is a sequence: every call does to the elems, in order, what its name says, an
\* elem of the deque given as the value included, and a call that is refused memory at any
\* point leaves them as they were.
ImplementsSeq == SeqsSpec!Spec
=============================================================================
