-------------------------------- MODULE Vec --------------------------------
(***************************************************************************)
(* The growable array of src/ds/vec.c: a block of cap slots, the first len  *)
(* of which hold elems.                                                     *)
(*                                                                         *)
(* vecs maps each handle to its tda_Vec, with the contents of its block as  *)
(* slots; a zeroed handle has no allocator.  A slot past the length is      *)
(* Garbage.  raws are the blocks tda_vec_into_raw has handed to the callers,*)
(* each with what a caller must keep to make a vec of it again.  heap is    *)
(* the set of blocks the allocators have out, call the last call made.      *)
(* An allocator may refuse any request, and may resize a block in place.    *)
(***************************************************************************)
EXTENDS Layout, SequencesExt

CONSTANTS
    Names,    \* the handles
    Als,      \* the allocators
    Elem,     \* the elems
    Zero,     \* the elem whose bytes are all zero
    ElemSize, \* sizeof an elem
    Garbage,  \* what is read from a slot that holds no elem
    MaxSpan,  \* bound on the length of a caller's span
    MaxRaws,  \* bound on the blocks in the callers' hands
    HeapMax   \* bound on the slots of all blocks: the allocators refuse more

ASSUME VecAssumption ==
    /\ IsFiniteSet(Names)
    /\ Zero \in Elem /\ Garbage \notin Elem
    /\ Null \notin Als /\ Null \notin Nat
    /\ SizeMax \in Nat \ {0} /\ ElemSize \in Nat \ {0}
    /\ MaxSpan \in 0 .. SizeMax /\ MaxRaws \in Nat /\ HeapMax \in Nat

VARIABLES vecs, raws, heap, call

vars == <<vecs, raws, heap, call>>

Sizes == 0 .. SizeMax
Spans == UNION {[1 .. n -> Elem] : n \in 0 .. MaxSpan}
ElemLayout == [size |-> ElemSize, align |-> 1]

-----------------------------------------------------------------------------
(* The block.  q is a tda_Vec.                                              *)

\* a block of cap slots with the elems of src at its start
SlotsOf(src, cap) == [s \in 0 .. cap - 1 |-> IF s < Len(src) THEN src[s + 1] ELSE Garbage]

Empty(al) == [al |-> al, data |-> Null, cap |-> 0, len |-> 0, slots |-> SlotsOf(<<>>, 0)]
Zeroed == Empty(Null)

Contents(q) == [i \in 1 .. q.len |-> q.slots[i - 1]]

\* the slots past the length forgotten
Tidy(q) == [q EXCEPT !.slots = SlotsOf(Contents(q), q.cap)]

\* memmove within the block
Moved(q, to, from, count) ==
    [q EXCEPT !.slots =
        [s \in DOMAIN @ |-> IF s \in to .. to + count - 1 THEN @[from + (s - to)] ELSE @[s]]]

\* memcpy within the block, of one elem: onto itself it is undefined
Copied(q, to, from) == [q EXCEPT !.slots[to] = IF to = from THEN Garbage ELSE q.slots[from]]

\* memcpy of a caller's elems over the slots from idx on
Filled(q, idx, src) ==
    [q EXCEPT !.slots =
        [s \in DOMAIN @ |-> IF s \in idx .. idx + Len(src) - 1 THEN src[s - idx + 1] ELSE @[s]]]

-----------------------------------------------------------------------------
(* Growth.  An outcome is [q, heap, ok]: the vec and the heap a helper      *)
(* leaves, and its status.                                                  *)

Outcome(q, h, ok) == [q |-> q, heap |-> h, ok |-> ok]

FreshId(h) == CHOOSE id \in 1 .. Cardinality(h) + 1 : \A b \in h : b.id # id

BlockOf(q) == [id |-> q.data, al |-> q.al, cap |-> q.cap]

\* tda_dealloc: sized, and null is a no-op
FreeBlock(q, h) == h \ {BlockOf(q)}

\* an allocator has the memory for these blocks
Affords(h) == MapThenSumSet(LAMBDA b : b.cap, h) <= HeapMax

\* tda_realloc: resized in place, moved with what fits of its bytes, or refused
Realloc(q, h, cap) ==
    LET on(id) ==
            [q EXCEPT !.data = id, !.cap = cap,
                      !.slots = [s \in 0 .. cap - 1 |-> IF s < q.cap THEN @[s] ELSE Garbage]]
        served == {Outcome(on(id), FreeBlock(q, h) \cup {BlockOf(on(id))}, TRUE) :
                       id \in {FreshId(h)} \cup ({q.data} \ {Null})}
    IN  {Outcome(q, h, FALSE)} \cup {r \in served : Affords(r.heap)}

SetCap(q, h, cap) ==
    IF LayoutCkdArray(ElemLayout, cap) = Null THEN {Outcome(q, h, FALSE)} ELSE Realloc(q, h, cap)

NextCap(q) ==
    IF q.cap = 0 THEN 1 ELSE IF CkdMul(q.cap, 2) = Null THEN SizeMax ELSE CkdMul(q.cap, 2)

\* the doubled capacity first, the exact one if that is refused
ReserveFor(q, h, n) ==
    IF n <= q.cap THEN {Outcome(q, h, TRUE)}
    ELSE IF NextCap(q) > n
    THEN UNION {IF r.ok THEN {r} ELSE SetCap(r.q, r.heap, n) : r \in SetCap(q, h, NextCap(q))}
    ELSE SetCap(q, h, n)

\* broken: grows when the last slot is about to be taken
ReserveOneEarly(q, h) ==
    IF q.len + 1 < q.cap THEN {Outcome(q, h, TRUE)}
    ELSE IF q.cap = SizeMax THEN {Outcome(q, h, FALSE)}
    ELSE ReserveFor(q, h, q.cap + 1)

ReserveOne(q, h) ==
    IF q.len < q.cap THEN {Outcome(q, h, TRUE)}
    ELSE IF q.cap = SizeMax THEN {Outcome(q, h, FALSE)}
    ELSE ReserveFor(q, h, q.cap + 1)

OpenGap(q, h, idx, count) ==
    LET new_len == CkdAdd(q.len, count)
        gap(p) == [Moved(p, idx + count, idx, p.len - idx) EXCEPT !.len = new_len]
    IN  IF new_len = Null THEN {Outcome(q, h, FALSE)}
        ELSE {IF r.ok THEN [r EXCEPT !.q = gap(r.q)] ELSE r : r \in ReserveFor(q, h, new_len)}

\* the vec of the elems src in a block of cap slots
InitImpl(al, h, src, cap) ==
    LET q == [Empty(al) EXCEPT !.data = FreshId(h), !.cap = cap, !.len = Len(src),
                               !.slots = SlotsOf(src, cap)]
        served == Outcome(q, h \cup {BlockOf(q)}, TRUE)
    IN  IF cap = 0 THEN {Outcome(Empty(al), h, TRUE)}
        ELSE {Outcome(Zeroed, h, FALSE)}
             \cup IF LayoutCkdArray(ElemLayout, cap) # Null /\ Affords(served.heap) THEN {served}
                  ELSE {}

-----------------------------------------------------------------------------
(* The calls.                                                               *)

Init == vecs = [d \in Names |-> Zeroed] /\ raws = {} /\ heap = {} /\ call = [op |-> "none"]

Alive(d) == vecs[d].al # Null

\* the call c, made on d, with its status
Made(c, d, ok) ==
    [f \in DOMAIN c \cup {"d", "ok"} |-> IF f = "d" THEN d ELSE IF f = "ok" THEN ok ELSE c[f]]

\* the call c, made on d, ends with d as q
Ends(c, d, q, h, ok) ==
    /\ vecs' = [vecs EXCEPT ![d] = Tidy(q)]
    /\ heap' = h
    /\ call' = Made(c, d, ok)
    /\ UNCHANGED raws

\* a call that has no need of memory
EndsOk(c, d, q) == Ends(c, d, q, heap, TRUE)

\* the values a caller may give: an elem of its own, or one of the vec's, by its index
Vals(q) == [alias : {FALSE}, at : Elem] \cup [alias : {TRUE}, at : 0 .. q.len - 1]

\* init, init_len, init_cap, from_data and from_span: 'out' takes the vec if all is well
tda_vec_make(d, al, src, cap) ==
    /\ ~Alive(d) /\ Len(src) <= cap
    /\ \E r \in InitImpl(al, heap, src, cap) :
          Ends([op |-> "make", src |-> src], d, r.q, r.heap, r.ok)

\* a block handed out by into_raw, given with the allocator and the capacity it has
tda_vec_init_raw(d, q) ==
    /\ ~Alive(d)
    /\ vecs' = [vecs EXCEPT ![d] = q]
    /\ raws' = raws \ {q}
    /\ call' = [op |-> "init_raw", src |-> Contents(q), d |-> d, ok |-> TRUE]
    /\ UNCHANGED heap

tda_vec_into_raw(d) ==
    /\ Alive(d)
    /\ vecs' = [vecs EXCEPT ![d] = Zeroed]
    /\ raws' = raws \cup IF vecs[d].data = Null THEN {} ELSE {vecs[d]}
    /\ call' = [op |-> "into_raw", out |-> Contents(vecs[d]), d |-> d, ok |-> TRUE]
    /\ UNCHANGED heap

tda_vec_deinit(d) ==
    Ends([op |-> "deinit"], d, Zeroed, IF Alive(d) THEN FreeBlock(vecs[d], heap) ELSE heap, TRUE)

\* copy and copy_with: from_span over the elems
tda_vec_copy_with(d, al, e) ==
    /\ ~Alive(d) /\ Alive(e)
    /\ \E r \in InitImpl(al, heap, Contents(vecs[e]), vecs[e].len) :
          Ends([op |-> "copy", from |-> e], d, r.q, r.heap, r.ok)

ReserveOutcomes(q, h, cap) == IF cap <= q.cap THEN {Outcome(q, h, TRUE)} ELSE SetCap(q, h, cap)

CopyAssignOutcomes(q, h, src) ==
    {IF r.ok THEN [r EXCEPT !.q = [Filled(r.q, 0, src) EXCEPT !.len = Len(src)]] ELSE r :
         r \in ReserveOutcomes(q, h, Len(src))}

tda_vec_copy_assign(d, e) ==
    /\ Alive(d) /\ Alive(e)
    /\ \E r \in IF d = e THEN {Outcome(vecs[d], heap, TRUE)}
                ELSE CopyAssignOutcomes(vecs[d], heap, Contents(vecs[e])) :
          Ends([op |-> "copy", from |-> e], d, r.q, r.heap, r.ok)

\* broken: the block of the target is left behind
MoveAssignLeaks(d, e) ==
    /\ Alive(e)
    /\ vecs' = IF d = e THEN vecs
               ELSE [vecs EXCEPT ![d] = vecs[e], ![e] = Empty(vecs[e].al)]
    /\ call' = [op |-> "move_assign", from |-> e, d |-> d, ok |-> TRUE]
    /\ UNCHANGED <<raws, heap>>

tda_vec_move_assign(d, e) ==
    /\ Alive(e)
    /\ vecs' = IF d = e THEN vecs
               ELSE [vecs EXCEPT ![d] = vecs[e], ![e] = Empty(vecs[e].al)]
    /\ heap' = IF d # e /\ Alive(d) THEN FreeBlock(vecs[d], heap) ELSE heap
    /\ call' = [op |-> "move_assign", from |-> e, d |-> d, ok |-> TRUE]
    /\ UNCHANGED raws

tda_vec_swap(d, e) ==
    /\ Alive(d) /\ Alive(e)
    /\ vecs' = [vecs EXCEPT ![d] = vecs[e], ![e] = vecs[d]]
    /\ call' = [op |-> "swap", from |-> e, d |-> d, ok |-> TRUE]
    /\ UNCHANGED <<raws, heap>>

\* memmove: an elem may be set to itself
tda_vec_set(d, idx, v) ==
    LET q == vecs[d]
    IN  /\ idx < q.len
        /\ EndsOk([op |-> "set", idx |-> idx, val |-> v], d,
                  IF v.alias THEN Moved(q, idx, v.at, 1) ELSE Filled(q, idx, <<v.at>>))

tda_vec_swap_elems(d, i, j) ==
    LET q == vecs[d]
    IN  /\ i < q.len /\ j < q.len
        /\ EndsOk([op |-> "swap_elems", idx |-> i, idx2 |-> j], d,
                  [q EXCEPT !.slots[i] = q.slots[j], !.slots[j] = q.slots[i]])

PushOutcomes(q, h, v) ==
    LET put(p) == IF v.alias THEN Copied(p, p.len, v.at) ELSE Filled(p, p.len, <<v.at>>)
    IN  {IF r.ok THEN [r EXCEPT !.q = [put(r.q) EXCEPT !.len = @ + 1]] ELSE r : r \in ReserveOne(q, h)}

\* push, and add_one followed by the caller's write of the slot it was given
tda_vec_push(d, v) ==
    \E r \in PushOutcomes(vecs[d], heap, v) : Ends([op |-> "push_back", val |-> v], d, r.q, r.heap, r.ok)

\* out is the elem handed over
tda_vec_pop_to(d) ==
    LET q == vecs[d]
    IN  /\ q.len > 0
        /\ EndsOk([op |-> "pop_back", out |-> q.slots[q.len - 1]], d, [q EXCEPT !.len = @ - 1])

tda_vec_pop(d) ==
    LET q == [vecs[d] EXCEPT !.len = @ - 1]
    IN  vecs[d].len > 0 /\ EndsOk([op |-> "truncate", n |-> q.len], d, q)

\* broken: the gap is taken to move no elem
InsertedUnmoved(p, idx, v) == IF v.alias THEN Copied(p, idx, v.at) ELSE Filled(p, idx, <<v.at>>)

\* the vec p, with a gap of one at idx, with the value in it: the gap moved every elem from
\* idx on one place up
Inserted(p, idx, v) ==
    IF v.alias THEN Copied(p, idx, IF v.at < idx THEN v.at ELSE v.at + 1)
    ELSE Filled(p, idx, <<v.at>>)

tda_vec_insert(d, idx, v) ==
    /\ idx <= vecs[d].len
    /\ \E r \in OpenGap(vecs[d], heap, idx, 1) :
          Ends([op |-> "insert", idx |-> idx, val |-> v], d,
               IF r.ok THEN Inserted(r.q, idx, v) ELSE r.q, r.heap, r.ok)

InsertSpanOutcomes(q, h, idx, src) ==
    IF src = <<>> THEN {Outcome(q, h, TRUE)}
    ELSE {IF r.ok THEN [r EXCEPT !.q = Filled(r.q, idx, src)] ELSE r : r \in OpenGap(q, h, idx, Len(src))}

\* the span lies outside the block
tda_vec_insert_span(d, idx, src) ==
    /\ idx <= vecs[d].len
    /\ \E r \in InsertSpanOutcomes(vecs[d], heap, idx, src) :
          Ends([op |-> "insert_span", idx |-> idx, src |-> src], d, r.q, r.heap, r.ok)

tda_vec_extend(d, src) == tda_vec_insert_span(d, vecs[d].len, src)

tda_vec_remove_range(d, idx, count) ==
    LET q == vecs[d]
    IN  /\ idx + count <= q.len
        /\ EndsOk([op |-> "remove_range", idx |-> idx, n |-> count], d,
                  [Moved(q, idx, idx + count, q.len - idx - count) EXCEPT !.len = @ - count])

tda_vec_remove(d, idx) == idx < vecs[d].len /\ tda_vec_remove_range(d, idx, 1)

tda_vec_swap_remove(d, idx) ==
    LET q == [vecs[d] EXCEPT !.len = @ - 1]
    IN  /\ idx < vecs[d].len
        /\ EndsOk([op |-> "swap_remove", idx |-> idx], d,
                  IF idx # q.len THEN Copied(q, idx, q.len) ELSE q)

\* one turn of the loop of retain: p is the vec so far and how many elems it keeps
RetainStep(p, i, keep) ==
    IF p.q.slots[i] \notin keep THEN p
    ELSE [q |-> IF p.kept # i THEN Copied(p.q, p.kept, i) ELSE p.q, kept |-> p.kept + 1]

\* the loop after as many turns as there are elems
RetainLoop(q, keep) ==
    LET walk[i \in 0 .. q.len] ==
            IF i = 0 THEN [q |-> q, kept |-> 0] ELSE RetainStep(walk[i - 1], i - 1, keep)
    IN  walk[q.len]

tda_vec_retain(d, keep) ==
    LET p == RetainLoop(vecs[d], keep)
    IN  EndsOk([op |-> "retain", keep |-> keep], d, [p.q EXCEPT !.len = p.kept])

\* push_assume_cap, and add_one_assume_cap followed by the caller's write: nothing moves
tda_vec_push_assume_cap(d, v) ==
    LET q == vecs[d]
        p == IF v.alias THEN Copied(q, q.len, v.at) ELSE Filled(q, q.len, <<v.at>>)
    IN  /\ q.len < q.cap
        /\ EndsOk([op |-> "push_back", val |-> v], d, [p EXCEPT !.len = @ + 1])

tda_vec_truncate(d, n) ==
    EndsOk([op |-> "truncate", n |-> n], d,
           IF n < vecs[d].len THEN [vecs[d] EXCEPT !.len = n] ELSE vecs[d])

tda_vec_clear(d) == EndsOk([op |-> "clear"], d, [vecs[d] EXCEPT !.len = 0])

tda_vec_reserve(d, cap) ==
    \E r \in ReserveOutcomes(vecs[d], heap, cap) : Ends([op |-> "reserve"], d, r.q, r.heap, r.ok)

ShrinkOutcomes(q, h) ==
    IF q.len = q.cap THEN {Outcome(q, h, TRUE)}
    ELSE IF q.len = 0 THEN {Outcome(Empty(q.al), FreeBlock(q, h), TRUE)}
    ELSE SetCap(q, h, q.len)

tda_vec_shrink_to_fit(d) ==
    \E r \in ShrinkOutcomes(vecs[d], heap) : Ends([op |-> "shrink_to_fit"], d, r.q, r.heap, r.ok)

tda_vec_resize(d, n) ==
    LET q == vecs[d]
        zeros(p) == Filled(p, q.len, [i \in 1 .. n - q.len |-> Zero])
    IN  \E r \in IF n <= q.len THEN {Outcome(q, heap, TRUE)} ELSE ReserveFor(q, heap, n) :
            Ends([op |-> "resize", n |-> n], d,
                 IF ~r.ok THEN r.q ELSE [zeros(r.q) EXCEPT !.len = n], r.heap, r.ok)

\* the slot is read where it lies
tda_vec_get(d, idx) ==
    /\ idx < vecs[d].len
    /\ EndsOk([op |-> "get", idx |-> idx, out |-> vecs[d].slots[idx]], d, vecs[d])
tda_vec_front(d) == vecs[d].len > 0 /\ tda_vec_get(d, 0)
tda_vec_back(d) == vecs[d].len > 0 /\ tda_vec_get(d, vecs[d].len - 1)

\* the caller writes through the pointer it is given
tda_vec_get_mut(d, idx, v) ==
    LET q == vecs[d]
    IN  /\ idx < q.len
        /\ EndsOk([op |-> "set", idx |-> idx, val |-> v], d, Filled(q, idx, <<v.at>>))
tda_vec_front_mut(d, v) == vecs[d].len > 0 /\ tda_vec_get_mut(d, 0, v)
tda_vec_back_mut(d, v) == vecs[d].len > 0 /\ tda_vec_get_mut(d, vecs[d].len - 1, v)

\* to_span and to_span_mut, whose elems a caller then walks
tda_vec_to_span(d) == EndsOk([op |-> "copy_to_span", out |-> Contents(vecs[d])], d, vecs[d])
\* fprint and print, elem by elem over the span
tda_vec_fprint(d) == tda_vec_to_span(d)

\* eq and eq_by: the lengths first, then the elems one by one
tda_vec_eq(d, e) ==
    LET a == vecs[d]
        b == vecs[e]
    IN  EndsOk([op |-> "eq", from |-> e,
                out |-> a.len = b.len /\ \A i \in 0 .. a.len - 1 : a.slots[i] = b.slots[i]], d, a)

Lifetime(d) ==
    \/ \E al \in Als, src \in Spans, cap \in Sizes : tda_vec_make(d, al, src, cap)
    \/ \E q \in raws : tda_vec_init_raw(d, q)
    \/ Cardinality(raws) < MaxRaws /\ tda_vec_into_raw(d)
    \/ tda_vec_deinit(d)

Pairs(d, e) ==
    \/ \E al \in Als : tda_vec_copy_with(d, al, e)
    \/ tda_vec_copy_assign(d, e) \/ tda_vec_move_assign(d, e) \/ tda_vec_swap(d, e)
    \/ Alive(d) /\ Alive(e) /\ tda_vec_eq(d, e)

Mods(d) ==
    \/ \E v \in Vals(vecs[d]) :
          \/ tda_vec_push(d, v) \/ tda_vec_push_assume_cap(d, v)
          \/ ~v.alias /\ (tda_vec_front_mut(d, v) \/ tda_vec_back_mut(d, v))
          \/ \E idx \in 0 .. vecs[d].len : tda_vec_insert(d, idx, v) \/ tda_vec_set(d, idx, v)
    \/ \E src \in Spans :
          \/ tda_vec_extend(d, src)
          \/ \E idx \in 0 .. vecs[d].len : tda_vec_insert_span(d, idx, src)
    \/ tda_vec_pop_to(d) \/ tda_vec_pop(d) \/ tda_vec_shrink_to_fit(d) \/ tda_vec_clear(d)
    \/ tda_vec_to_span(d) \/ tda_vec_fprint(d) \/ tda_vec_front(d) \/ tda_vec_back(d)
    \/ \E i \in 0 .. vecs[d].len :
          \/ tda_vec_swap_remove(d, i) \/ tda_vec_remove(d, i) \/ tda_vec_get(d, i)
          \/ \E v \in Vals(vecs[d]) : ~v.alias /\ tda_vec_get_mut(d, i, v)
          \/ \E j \in 0 .. vecs[d].len : tda_vec_remove_range(d, i, j) \/ tda_vec_swap_elems(d, i, j)
    \/ \E n \in Sizes : tda_vec_truncate(d, n) \/ tda_vec_reserve(d, n) \/ tda_vec_resize(d, n)
    \/ \E keep \in SUBSET Elem : tda_vec_retain(d, keep)

Next ==
    \/ \E d \in Names : Lifetime(d)
    \/ \E d, e \in Names : Pairs(d, e)
    \/ \E d \in Names : Alive(d) /\ Mods(d)

Spec == Init /\ [][Next]_vars

-----------------------------------------------------------------------------
(* Properties.                                                              *)

\* a tda_Vec: its fields keep what ASSERT_VEC checks on entry to and exit from every call,
\* and every slot below the length holds an elem
IsVec(q) ==
    /\ q \in [al : Als \cup {Null}, data : Nat \cup {Null}, cap : Sizes, len : 0 .. q.cap,
             slots : [0 .. q.cap - 1 -> Elem \cup {Garbage}]]
    /\ (q.data = Null) = (q.cap = 0)
    /\ \A i \in 0 .. q.len - 1 : q.slots[i] \in Elem
    /\ q.al = Null => q = Zeroed

TypeOK == \A q \in Range(vecs) \cup raws : IsVec(q)

\* each block that is out has one holder, a vec or a caller
HeldOnce ==
    LET owners == {d \in Names : vecs[d].data # Null}
    IN  /\ heap = {BlockOf(vecs[d]) : d \in owners} \cup {BlockOf(q) : q \in raws}
        /\ Cardinality(heap) = Cardinality(owners) + Cardinality(raws)

\* The fields are sound, and each block the allocators have out is held once, by a vec or as
\* a raw block by its caller, with the size and the allocator it was asked with: through
\* growth in place or moved, refusals, copies, moves, swaps and raw hand-overs no block is
\* leaked, shared, or given back twice or with another layout.
BlocksOwned == TypeOK /\ HeldOnce

\* Room once reserved is there to be used: with a free slot, no push and no insert is
\* refused, resizes or moves the block.
RoomServes ==
    [][call'.op \in {"push_back", "insert"} /\ vecs[call'.d].len < vecs[call'.d].cap
       => call'.ok /\ heap' = heap]_vars

SeqsSpec == INSTANCE SeqSpec WITH seqs <- [d \in Names |-> Contents(vecs[d])]

\* A vec is a sequence: every call does to the elems, in order, what its name says, an elem
\* of the vec given as the value included, and a call that is refused memory at any point
\* leaves them as they were.
ImplementsSeq == SeqsSpec!Spec
=============================================================================
