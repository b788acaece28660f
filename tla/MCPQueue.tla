------------------------------ MODULE MCPQueue -----------------------------
(* Two queues, under a greatest-first or a least-first order, of up to five  *)
(* elems between them.                                                      *)
EXTENDS PQueue

MCOrders == {[x \in Elem |-> x], [x \in Elem |-> 3 - x]}

Unnumbered(q) == [q EXCEPT !.data = (@ = Null)]

\* states that differ only in the call that led to them, in the numbers of blocks each of
\* which has one owner, or in the elems of a vec that is its caller's, have the same future
StateView ==
    <<[d \in Names |-> Unnumbered(vecs[d])], cmps, {q.cap : q \in raws}, HeldOnce>>

Symmetry == Permutations(Names)
=============================================================================
