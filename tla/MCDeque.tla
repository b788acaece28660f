------------------------------ MODULE MCDeque ------------------------------
(* Two handles up to SIZE_MAX slots, so that doubling and counting overflow,*)
(* on two allocators.                                                       *)
EXTENDS Deque

MCKinds == [Names -> {"deque", "queue"}]

\* a deque but for the number of its block
Unnumbered(q) == [q EXCEPT !.data = (@ = Null)]

\* states that differ only in the call that led to them, or in the numbers of blocks each of
\* which has one owner, have the same future; the step properties are checked on every step
\* all the same
StateView == <<kinds, [d \in Names |-> Unnumbered(deques[d])], HeldOnce>>

\* the handles are alike, and so are the allocators
Alike == Permutations(Names) \cup Permutations(Als)

\* two rings that take all the memory there is are checked and not gone on from
SmallPairs == Cardinality(heap) > 1 => MapThenSumSet(LAMBDA b : b.cap, heap) < HeapMax
=============================================================================
