------------------------------ MODULE MCBitSet -----------------------------
(* Two bitsets of up to SIZE_MAX bits, three words, on two allocators.      *)
EXTENDS BitSet

\* the handles are alike, and so are the allocators
Symmetry == Permutations(Names) \cup Permutations(Als)

\* a bitset but for the number of its block
Unnumbered(q) == [q EXCEPT !.data = (@ = Null)]

\* states that differ only in the call that led to them, or in the numbers of blocks each of
\* which has one owner, have the same future
StateView == <<[d \in Names |-> Unnumbered(bitsets[d])], BlocksOwned>>
=============================================================================
