------------------------------- MODULE MCVec -------------------------------
(* Two handles up to SIZE_MAX slots, so that doubling and counting overflow,*)
(* and a raw block, on two allocators.                                      *)
EXTENDS Arrays

\* an arr and a stack have nothing to do with each other
MCKinds == {k \in [Names -> {"vec", "arr", "stack"}] : Range(k) # {"arr", "stack"}}

\* a vec but for the number of its block
Unnumbered(q) == [q EXCEPT !.data = (@ = Null)]

\* states that differ only in the call that led to them, or in the numbers of blocks each of
\* which has one owner, have the same future; the step properties are checked on every step
\* all the same
StateView ==
    <<kinds, [d \in Names |-> Unnumbered(vecs[d])], {Unnumbered(q) : q \in raws}, Cardinality(raws),
      HeldOnce>>

\* the handles are alike, and so are the allocators
Alike == Permutations(Names) \cup Permutations(Als)
=============================================================================
