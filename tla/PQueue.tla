------------------------------- MODULE PQueue ------------------------------
(***************************************************************************)
(* The priority queue of src/ds/pqueue.c: a vec kept a heap under the       *)
(* comparator the queue holds.  cmps maps each handle to its comparator,    *)
(* the key it sees of each elem; the vec is the one of the same handle.     *)
(* raws are the vecs tda_pqueue_into_vec has handed to the callers.         *)
(***************************************************************************)
EXTENDS Vec

CONSTANT Orders  \* the comparators

ASSUME PQueueAssumption == Orders \subseteq [Elem -> Nat] /\ Null \notin Orders

VARIABLE cmps

H == INSTANCE Heap

PQueueInit == Init /\ cmps = [d \in Names |-> Null]

\* the vec with its elems rearranged by the heap call
Arranged(q, s) == Filled(q, 0, s)

\* the call c, made on d, ends with d as q under cmp
PQueueEnds(c, d, q, h, ok, cmp) == Ends(c, d, q, h, ok) /\ cmps' = [cmps EXCEPT ![d] = cmp]

\* a new queue: 'out' is written if all is well
Makes(c, d, r, cmp) == PQueueEnds(c, d, r.q, r.heap, r.ok, IF r.ok THEN cmp ELSE Null)

\* the elem a value names when the call is made
ValOf(q, v) == IF v.alias THEN q.slots[v.at] ELSE v.at

\* init and init_cap with an empty span, from_data and from_span otherwise
tda_pqueue_make(d, al, src, cap, cmp) ==
    /\ ~Alive(d)
    /\ src # <<>> => cap = Len(src)
    /\ \E r \in InitImpl(al, heap, src, cap) :
          Makes([op |-> "make", src |-> src, order |-> cmp], d,
                IF r.ok THEN [r EXCEPT !.q = Arranged(r.q, H!MakeHeap(src, cmp))] ELSE r, cmp)

tda_pqueue_deinit(d) ==
    /\ tda_vec_deinit(d)
    /\ cmps' = [cmps EXCEPT ![d] = Null]

\* the vec, in heap order, is the caller's; the comparator is dropped
tda_pqueue_into_vec(d) ==
    /\ Alive(d)
    /\ vecs' = [vecs EXCEPT ![d] = Zeroed]
    /\ cmps' = [cmps EXCEPT ![d] = Null]
    /\ raws' = raws \cup (IF vecs[d].data = Null THEN {} ELSE {vecs[d]})
    /\ call' = [op |-> "into_vec", out |-> Contents(vecs[d]), d |-> d, ok |-> TRUE]
    /\ UNCHANGED heap

\* the caller is done with such a vec
CallerDeinit(q) ==
    /\ raws' = raws \ {q}
    /\ heap' = FreeBlock(q, heap)
    /\ call' = [op |-> "vec_deinit"]
    /\ UNCHANGED <<vecs, cmps>>

\* copy and copy_with: the copy is a heap already
tda_pqueue_copy_with(d, al, e) ==
    /\ ~Alive(d) /\ Alive(e)
    /\ \E r \in InitImpl(al, heap, Contents(vecs[e]), vecs[e].len) :
          Makes([op |-> "copy", from |-> e], d, r, cmps[e])

\* broken: the elems of the other are taken and the comparator is not
CopyAssignKeepsOrder(d, e) ==
    /\ Alive(d) /\ Alive(e) /\ d # e
    /\ \E r \in CopyAssignOutcomes(vecs[d], heap, Contents(vecs[e])) :
          PQueueEnds([op |-> "copy", from |-> e], d, r.q, r.heap, r.ok, cmps[d])

\* the elems are a heap under the comparator of the other, so it is taken too
tda_pqueue_copy_assign(d, e) ==
    /\ Alive(d) /\ Alive(e)
    /\ \E r \in IF d = e THEN {Outcome(vecs[d], heap, TRUE)}
                ELSE CopyAssignOutcomes(vecs[d], heap, Contents(vecs[e])) :
          PQueueEnds([op |-> "copy", from |-> e], d, r.q, r.heap, r.ok, IF r.ok THEN cmps[e] ELSE cmps[d])

tda_pqueue_move_assign(d, e) ==
    /\ tda_vec_move_assign(d, e)
    /\ cmps' = [cmps EXCEPT ![d] = cmps[e]]

tda_pqueue_swap(d, e) ==
    /\ tda_vec_swap(d, e)
    /\ cmps' = [cmps EXCEPT ![d] = cmps[e], ![e] = cmps[d]]

\* the new elem comes last and goes up from there
tda_pqueue_push(d, v) ==
    \E r \in PushOutcomes(vecs[d], heap, v) :
        PQueueEnds([op |-> "push", val |-> ValOf(vecs[d], v)], d,
                   IF r.ok THEN Arranged(r.q, H!PushHeap(Contents(r.q), r.q.len, cmps[d])) ELSE r.q,
                   r.heap, r.ok, cmps[d])

\* each elem of s past the first len goes up in turn
PushEach(s, len, cmp) ==
    LET new == Len(s) - len
        walk[n \in 0 .. new] == IF n = 0 THEN s ELSE H!PushHeap(walk[n - 1], len + n, cmp)
    IN  walk[new]

\* as many new elems as old ones, or more: one pass over all of them
tda_pqueue_extend(d, src) ==
    LET old_len == vecs[d].len
        heaped(s) == IF Len(s) - old_len >= old_len THEN H!MakeHeap(s, cmps[d])
                     ELSE PushEach(s, old_len, cmps[d])
    IN  \E r \in InsertSpanOutcomes(vecs[d], heap, old_len, src) :
            PQueueEnds([op |-> "extend", src |-> src], d,
                       IF r.ok THEN Arranged(r.q, heaped(Contents(r.q))) ELSE r.q, r.heap, r.ok, cmps[d])

\* pop and pop_to: the greatest goes last and is dropped
tda_pqueue_pop(d) ==
    LET q == vecs[d]
        s == H!PopHeap(Contents(q), q.len, cmps[d])
    IN  /\ q.len > 0
        /\ PQueueEnds([op |-> "pop", out |-> s[q.len]], d,
                      [Arranged(q, s) EXCEPT !.len = @ - 1], heap, TRUE, cmps[d])

\* the value takes the place of the root, itself perhaps, and goes down from there
tda_pqueue_replace_top(d, v) ==
    LET q == vecs[d]
        p == IF v.alias THEN Moved(q, 0, v.at, 1) ELSE Filled(q, 0, <<v.at>>)
    IN  /\ q.len > 0
        /\ PQueueEnds([op |-> "replace_top", val |-> ValOf(q, v), out |-> q.slots[0]], d,
                      Arranged(p, H!SiftDown(Contents(p), 0, p.len, cmps[d])), heap, TRUE, cmps[d])

tda_pqueue_clear(d) == tda_vec_clear(d) /\ UNCHANGED cmps

tda_pqueue_reserve(d, cap) ==
    \E r \in ReserveOutcomes(vecs[d], heap, cap) :
        PQueueEnds([op |-> "room"], d, r.q, r.heap, r.ok, cmps[d])

tda_pqueue_shrink_to_fit(d) ==
    \E r \in ShrinkOutcomes(vecs[d], heap) : PQueueEnds([op |-> "room"], d, r.q, r.heap, r.ok, cmps[d])

tda_pqueue_top(d) ==
    /\ vecs[d].len > 0
    /\ PQueueEnds([op |-> "top", out |-> vecs[d].slots[0]], d, vecs[d], heap, TRUE, cmps[d])

\* the elems in heap order
tda_pqueue_to_span(d) ==
    PQueueEnds([op |-> "to_span", out |-> Contents(vecs[d])], d, vecs[d], heap, TRUE, cmps[d])

\* fprint and print
tda_pqueue_fprint(d) == tda_pqueue_to_span(d)

PQueueLifetime(d) ==
    \/ \E al \in Als, src \in Spans, cap \in Sizes, cmp \in Orders : tda_pqueue_make(d, al, src, cap, cmp)
    \/ tda_pqueue_deinit(d)
    \/ Cardinality(raws) < MaxRaws /\ tda_pqueue_into_vec(d)

PQueuePairs(d, e) ==
    \/ \E al \in Als : tda_pqueue_copy_with(d, al, e)
    \/ tda_pqueue_copy_assign(d, e) \/ tda_pqueue_move_assign(d, e) \/ tda_pqueue_swap(d, e)

PQueueMods(d) ==
    \/ \E v \in Vals(vecs[d]) : tda_pqueue_push(d, v) \/ tda_pqueue_replace_top(d, v)
    \/ \E src \in Spans : tda_pqueue_extend(d, src)
    \/ tda_pqueue_pop(d) \/ tda_pqueue_clear(d) \/ tda_pqueue_shrink_to_fit(d)
    \/ \E cap \in Sizes : tda_pqueue_reserve(d, cap)
    \/ tda_pqueue_top(d) \/ tda_pqueue_to_span(d) \/ tda_pqueue_fprint(d)

PQueueNext ==
    \/ \E d \in Names : PQueueLifetime(d)
    \/ \E d, e \in Names : PQueuePairs(d, e)
    \/ \E d \in Names : Alive(d) /\ PQueueMods(d)
    \/ \E q \in raws : CallerDeinit(q)

PQueueSpec == PQueueInit /\ [][PQueueNext]_<<vars, cmps>>

-----------------------------------------------------------------------------
\* Whatever calls, refused ones included, brought a queue where it is, its vec is a heap under
\* the comparator it holds now, a copied or exchanged one too, and its block is its own.
HeapKept ==
    /\ BlocksOwned
    /\ \A d \in Names :
          LET s == Contents(vecs[d])
          IN  /\ Alive(d) <=> cmps[d] # Null
              /\ \A i, j \in DOMAIN s : j \in {2 * i, 2 * i + 1} => cmps[d][s[i]] >= cmps[d][s[j]]

Queues == INSTANCE PQueueSpec WITH
              bags <- [d \in Names |-> [x \in Elem |->
                          Cardinality({i \in 0 .. vecs[d].len - 1 : vecs[d].slots[i] = x})]],
              orders <- cmps

\* A queue is a bag under an order: no push, bulk or single, no pop and no replacement loses,
\* doubles or invents an elem, and what top shows and pop gives is never after another.
ImplementsPQueue == Queues!Spec
=============================================================================
