------------------------------- MODULE MCList ------------------------------
(* Two lists on two allocators, of elems two of which have the same key.    *)
EXTENDS List

\* elems 10 and 11 are equal in the order, and 20 comes after both
KeyOf == [e \in Elem |-> e \div 10]

\* the handles are alike, and so are the allocators
Symmetry == Permutations(Names) \cup Permutations(Als)

\* states that differ only in the call that led to them, or in which nodes their lists are
\* made of, have the same future; the step properties are checked on every step all the same
StateView ==
    IF NodesOwned THEN <<[d \in Names |-> lists[d].al], [d \in Names |-> Contents(d)]>>
    ELSE <<lists, mem>>
=============================================================================
