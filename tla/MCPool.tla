------------------------------- MODULE MCPool -------------------------------
(* Pools of up to four blocks of a two-word link, over a buffer off the     *)
(* blocks' alignment and on a log over a heap of fourteen bytes that one    *)
(* other caller shares, with SIZE_MAX close enough that the rounding of a   *)
(* block and the product of the array overflow.                             *)
EXTENDS PoolOnLog, TLC

MCLayouts == {[size |-> 1, align |-> 2], [size |-> 3, align |-> 1], [size |-> 3, align |-> 4]}
MCHeapAddrs == 16 .. 29

\* the pool's blocks and the log's meet in the pool's array alone: a pool over a buffer, or
\* with more than one block out, is looked at with nobody else on the log
Small ==
    /\ data # Null /\ ~parent => held = {}
    /\ Cardinality(blocks) > 1 => Others = {}
=============================================================================
