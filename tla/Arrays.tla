------------------------------- MODULE Arrays -------------------------------
(***************************************************************************)
(* The fixed-length array of src/ds/arr.c and the stack of src/ds/stack.c,  *)
(* beside the vecs they are made from, on the same allocators: a stack gives*)
(* its vec up, and a block leaves a vec or an arr for its caller and comes  *)
(* back as either.  kinds is what each handle is declared as.               *)
(*                                                                         *)
(* An arr is kept as a vec is, in the same table of handles, but has no     *)
(* capacity of its own: every block it asks for, resizes or gives back has  *)
(* the size of its length, and the cap of its record is what its block was  *)
(* really made with.  A tda_Stack is a tda_Vec and nothing more, and every  *)
(* call is one of the vec's; tda_stack_into_vec is where the vec changes    *)
(* hands.                                                                   *)
(***************************************************************************)
EXTENDS Vec

-----------------------------------------------------------------------------
(* arr.c.                                                                   *)

\* the block as the arr knows it: len elems
ArrReleased(q, h, len) == h \ {[id |-> q.data, al |-> q.al, cap |-> len]}

\* init_impl: a block of exactly the elems, and none for none
ArrInit(al, src) == InitImpl(al, heap, src, Len(src))

\* init_len, from_data and from_span
tda_arr_make(d, al, src) ==
    /\ ~Alive(d)
    /\ \E r \in ArrInit(al, src) :
          Ends([op |-> "make", src |-> src], d, r.q, r.heap, r.ok)

\* a block of exactly the elems it holds: an arr's, or a vec's with no room to spare
tda_arr_init_raw(d, q) == q.len = q.cap /\ tda_vec_init_raw(d, q)

tda_arr_into_raw(d) == tda_vec_into_raw(d)

tda_arr_deinit(d) ==
    LET q == vecs[d]
    IN  Ends([op |-> "deinit"], d, Zeroed, IF Alive(d) THEN ArrReleased(q, heap, q.len) ELSE heap, TRUE)

\* copy and copy_with: from_span over the elems
tda_arr_copy_with(d, al, e) ==
    /\ ~Alive(d) /\ Alive(e)
    /\ \E r \in ArrInit(al, Contents(vecs[e])) :
          Ends([op |-> "copy", from |-> e], d, r.q, r.heap, r.ok)

\* tda_realloc to the length of the other, where 0 gives the block back and is no failure
ArrResized(q, h, len) ==
    IF len = q.len THEN {Outcome(q, h, TRUE)}
    ELSE IF len = 0 THEN {Outcome(Empty(q.al), ArrReleased(q, h, q.len), TRUE)}
    ELSE {IF r.ok THEN [r EXCEPT !.q.len = len] ELSE r : r \in Realloc(q, h, len)}

tda_arr_copy_assign(d, e) ==
    LET src == Contents(vecs[e])
    IN  /\ Alive(d) /\ Alive(e)
        /\ \E r \in IF d = e THEN {Outcome(vecs[d], heap, TRUE)} ELSE ArrResized(vecs[d], heap, Len(src)) :
              Ends([op |-> "copy", from |-> e], d, IF r.ok THEN Filled(r.q, 0, src) ELSE r.q, r.heap, r.ok)

tda_arr_move_assign(d, e) ==
    LET q == vecs[d]
    IN  /\ Alive(e)
        /\ vecs' = IF d = e THEN vecs ELSE [vecs EXCEPT ![d] = vecs[e], ![e] = Empty(vecs[e].al)]
        /\ heap' = IF d # e /\ Alive(d) THEN ArrReleased(q, heap, q.len) ELSE heap
        /\ call' = [op |-> "move_assign", from |-> e, d |-> d, ok |-> TRUE]
        /\ UNCHANGED raws

tda_arr_swap(d, e) == tda_vec_swap(d, e)

\* eq and eq_by
tda_arr_eq(d, e) == tda_vec_eq(d, e)

tda_arr_set(d, idx, v) == tda_vec_set(d, idx, v)
tda_arr_swap_elems(d, i, j) == tda_vec_swap_elems(d, i, j)

tda_arr_get(d, idx) == tda_vec_get(d, idx)
tda_arr_front(d) == tda_vec_front(d)
tda_arr_back(d) == tda_vec_back(d)
\* get_mut, and the caller's write
tda_arr_get_mut(d, idx, v) == tda_vec_get_mut(d, idx, v)
\* to_span and to_span_mut
tda_arr_to_span(d) == tda_vec_to_span(d)
\* fprint and print
tda_arr_fprint(d) == tda_arr_to_span(d)

ArrLifetime(d) ==
    \/ \E al \in Als, src \in Spans : tda_arr_make(d, al, src)
    \/ \E q \in raws : tda_arr_init_raw(d, q)
    \/ Cardinality(raws) < MaxRaws /\ tda_arr_into_raw(d)
    \/ tda_arr_deinit(d)

ArrPairs(d, e) ==
    \/ \E al \in Als : tda_arr_copy_with(d, al, e)
    \/ tda_arr_copy_assign(d, e) \/ tda_arr_move_assign(d, e) \/ tda_arr_swap(d, e)
    \/ Alive(d) /\ Alive(e) /\ tda_arr_eq(d, e)

ArrMods(d) ==
    \/ tda_arr_to_span(d) \/ tda_arr_fprint(d) \/ tda_arr_front(d) \/ tda_arr_back(d)
    \/ \E i \in 0 .. vecs[d].len - 1 :
          \/ tda_arr_get(d, i)
          \/ \E v \in Vals(vecs[d]) : tda_arr_set(d, i, v) \/ (~v.alias /\ tda_arr_get_mut(d, i, v))
          \/ \E j \in 0 .. vecs[d].len - 1 : tda_arr_swap_elems(d, i, j)

-----------------------------------------------------------------------------
(* stack.c.                                                                 *)

\* init, init_cap, from_data and from_span
tda_stack_make(d, al, src, cap) == tda_vec_make(d, al, src, cap)

tda_stack_deinit(d) == tda_vec_deinit(d)

\* the stack is left inert; the vec lives on as e
tda_stack_into_vec(d, e) ==
    /\ Alive(d) /\ ~Alive(e)
    /\ vecs' = [vecs EXCEPT ![d] = Zeroed, ![e] = vecs[d]]
    /\ call' = [op |-> "into", from |-> d, d |-> e, ok |-> TRUE]
    /\ UNCHANGED <<raws, heap>>

tda_stack_copy_with(d, al, e) == tda_vec_copy_with(d, al, e)
tda_stack_copy_assign(d, e) == tda_vec_copy_assign(d, e)
tda_stack_move_assign(d, e) == tda_vec_move_assign(d, e)
tda_stack_swap(d, e) == tda_vec_swap(d, e)
tda_stack_eq(d, e) == tda_vec_eq(d, e)

tda_stack_push(d, v) == tda_vec_push(d, v)
tda_stack_extend(d, src) == tda_vec_extend(d, src)
tda_stack_pop(d) == tda_vec_pop(d)
tda_stack_pop_to(d) == tda_vec_pop_to(d)
tda_stack_clear(d) == tda_vec_clear(d)
tda_stack_reserve(d, cap) == tda_vec_reserve(d, cap)
tda_stack_shrink_to_fit(d) == tda_vec_shrink_to_fit(d)

tda_stack_top(d) == tda_vec_back(d)
tda_stack_top_mut(d, v) == tda_vec_back_mut(d, v)
tda_stack_to_span(d) == tda_vec_to_span(d)
\* fprint and print
tda_stack_fprint(d) == tda_vec_fprint(d)

StackLifetime(d) ==
    \/ \E al \in Als, src \in Spans, cap \in Sizes : tda_stack_make(d, al, src, cap)
    \/ tda_stack_deinit(d)

StackPairs(d, e) ==
    \/ \E al \in Als : tda_stack_copy_with(d, al, e)
    \/ tda_stack_copy_assign(d, e) \/ tda_stack_move_assign(d, e) \/ tda_stack_swap(d, e)
    \/ Alive(d) /\ Alive(e) /\ tda_stack_eq(d, e)

StackMods(d) ==
    \/ \E v \in Vals(vecs[d]) : tda_stack_push(d, v) \/ (~v.alias /\ tda_stack_top_mut(d, v))
    \/ \E src \in Spans : tda_stack_extend(d, src)
    \/ tda_stack_pop(d) \/ tda_stack_pop_to(d) \/ tda_stack_clear(d) \/ tda_stack_shrink_to_fit(d)
    \/ \E n \in Sizes : tda_stack_reserve(d, n)
    \/ tda_stack_top(d) \/ tda_stack_to_span(d) \/ tda_stack_fprint(d)

-----------------------------------------------------------------------------
(* Vecs, arrs and stacks side by side.                                      *)

CONSTANT Kinds  \* the declarations looked at: functions from the handles to their kinds

VARIABLE kinds

ArraysInit == Init /\ kinds \in Kinds

Calls(d, e) ==
    LET both(kind) == kinds[d] = kind /\ kinds[e] = kind
    IN  \/ both("vec") /\ Pairs(d, e)
        \/ both("arr") /\ ArrPairs(d, e)
        \/ both("stack") /\ StackPairs(d, e)
        \/ kinds[d] = "stack" /\ kinds[e] = "vec" /\ tda_stack_into_vec(d, e)

OwnCalls(d) ==
    \/ kinds[d] = "vec" /\ (Lifetime(d) \/ (Alive(d) /\ Mods(d)))
    \/ kinds[d] = "arr" /\ (ArrLifetime(d) \/ (Alive(d) /\ ArrMods(d)))
    \/ kinds[d] = "stack" /\ (StackLifetime(d) \/ (Alive(d) /\ StackMods(d)))

ArraysNext ==
    /\ UNCHANGED kinds
    /\ (\E d, e \in Names : Calls(d, e)) \/ \E d \in Names : OwnCalls(d)

ArraysSpec == ArraysInit /\ [][ArraysNext]_<<vars, kinds>>
=============================================================================
