----------------------------- MODULE Allocator -----------------------------
(***************************************************************************)
(* What every allocator behind a tda_Al view promises its clients, whatever *)
(* it does inside (the hook contract of include/tda/alloc/alloc.h):        *)
(*   - alloc hands out a block on the alignment asked for, apart from every *)
(*     block still live, or refuses;                                        *)
(*   - resize changes the size of one block where it lies and touches no    *)
(*     other; on a refusal the block is untouched;                          *)
(*   - a move (tda_realloc's copy) ends with one block in place of another; *)
(*   - dealloc, and the reset, rewind or deinit of an allocator that has    *)
(*     them, take blocks back and leave the others alone.                   *)
(* Arena, Pool and Slab are shown to implement Spec.                        *)
(***************************************************************************)
EXTENDS Integers

VARIABLE live  \* the blocks the clients may use: [addr, size, align]

\* the bytes of two blocks do not meet
Apart(b, c) == b.addr + b.size <= c.addr \/ c.addr + c.size <= b.addr

\* a block may be handed out beside the blocks of S
Fits(b, S) ==
    /\ b.size > 0
    /\ b.addr % b.align = 0
    /\ \A c \in S : Apart(b, c)

Init == live = {}

\* tda_alloc, on success
Give ==
    \E b \in live' \ live :
        /\ Fits(b, live)
        /\ live' = live \cup {b}

\* tda_dealloc of one block; reset, rewind and deinit of several
TakeBack == live' \subseteq live

\* tda_resize, or tda_realloc that stays in place
Resize ==
    \E b \in live : \E c \in live' :
        /\ c.addr = b.addr /\ c.align = b.align
        /\ Fits(c, live \ {b})
        /\ live' = (live \ {b}) \cup {c}

\* tda_realloc that moves: the old block is live until the copy is done
Move ==
    \E b \in live : \E c \in live' \ live :
        /\ c.align = b.align
        /\ Fits(c, live)
        /\ live' = (live \ {b}) \cup {c}

Next == Give \/ TakeBack \/ Resize \/ Move

Spec == Init /\ [][Next]_live
=============================================================================
