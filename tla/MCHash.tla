------------------------------- MODULE MCHash -------------------------------
(* Two maps, or two sets, on two allocators and two hashers.  Hashes of     *)
(* three bits, two or four buckets of two bytes each in a SIZE_MAX of 11:   *)
(* the array of eight passes it, and so does the doubling from eight.       *)
(* Three keys, one of them in two spellings.                                *)
EXTENDS HMap

\* "b" and "B" are equal keys; all collide under "h1"
MCKeys == {"a", "b", "B", "c"}
MCClass == [k \in MCKeys |-> IF k = "B" THEN "b" ELSE k]
MCHash == [h1 |-> [k \in MCKeys |-> 1],
           h2 |-> [k \in MCKeys |-> CASE k = "a" -> 6 [] k = "c" -> 3 [] OTHER -> 0]]
MCKeeps == {{"a", "b"} \X {0, 1}}
\* one entry, or two: of two keys, or of two spellings of one
MCPairs == {<<>>} \cup {<<kv>> : kv \in MCKeys \X {0, 1}}
           \cup {<<<<"a", 0>>, <<"b", 1>>>>, <<<<"b", 0>>, <<"B", 1>>>>}
\* the values taken for the same however they differ
MCValEqs == {{0, 1} \X {0, 1}}

\* a map with its entries in place of the numbers of its nodes
Unnumbered(m) ==
    [m EXCEPT !.data = (@ = Null),
              !.buckets = [b \in DOMAIN @ |-> [i \in DOMAIN @[b] |-> heap.nodes[@[b][i]]]]]

\* states that differ only in the call that led to them, or in the numbers of nodes and
\* arrays each of which has one owner, have the same future; the step properties are
\* checked on every step all the same
StateView == <<kind, [d \in Names |-> Unnumbered(maps[d])], HeldOnce>>

\* handles are alike, and so are allocators
Alike == Permutations(Names) \cup Permutations(Als)

\* maps go on from three entries in all, from two on two allocators, and sets of three keys
\* from one allocator
Small ==
    LET als == {maps[d].al : d \in Names} \ {Null}
        len == MapThenSumSet(LAMBDA d : maps[d].len, Names)
    IN  /\ kind = "hmap" =>
              /\ len + Cardinality(als) <= 4
              /\ \A p \in DOMAIN heap.nodes : heap.nodes[p].key # "c"
        /\ kind = "hset" => Cardinality(als) <= 1
=============================================================================
