----------------------------- MODULE PoolOnLog -----------------------------
(***************************************************************************)
(* A pool whose parent is a log on the default allocator, which other       *)
(* callers use beside it: what the pool asks of its parent and gives back   *)
(* are calls on the log, in the same step.                                  *)
(***************************************************************************)
EXTENDS Pool

CONSTANTS HeapAddrs, PlainAlign, MaxAlignSize, MaxHeld,
          Layouts  \* the layouts the other callers ask for

ASSUME PoolOnLogAssumption ==
    /\ HeapAddrs \subseteq Nat \ {0} /\ PlainAlign \in Nat \ {0}
    /\ MaxAlignSize \in Nat \ {0} /\ MaxAlignSize >= PlainAlign
    /\ Layouts \subseteq [size : Nat \ {0}, align : Nat \ {0}]
    /\ \A l \in Layouts : tda_layout_is_align(l.align)

VARIABLES on, libc, held, told

Logging == INSTANCE Log

logvars == <<on, libc, held, told>>
all == <<vars, logvars>>

\* the blocks of the log that other callers hold
Others == {b \in held : Logging!Line(b) \notin lent}

InitBoth == Init /\ Logging!Init

\* the pool's step, whose request to its parent is answered with 'base'
PoolInitCap(base, count, size, align) ==
    /\ tda_pool_init_cap(base, count, size, align)
    /\ \E b \in lent' \ lent : Logging!tda_alloc(Logging!Line(b), FALSE, base)

\* a caller's buffer is none of libc's memory
PoolInitBuf(base, c, size, align) ==
    base \notin HeapAddrs /\ tda_pool_init_buf(base, c, size, align) /\ UNCHANGED logvars

PoolDeinit ==
    /\ tda_pool_deinit
    /\ IF lent = lent' THEN UNCHANGED logvars
       ELSE \E b \in held : Logging!Line(b) \in lent \ lent' /\ Logging!tda_dealloc(b)

\* the pool's other calls reach no parent
PoolStep ==
    /\ \/ \E size \in Sizes, align \in Aligns : tda_alloc(size, align)
       \/ \E b \in blocks : tda_dealloc(b)
       \/ \E b \in blocks, size \in Sizes : tda_realloc(b, size)
       \/ tda_pool_reset
    /\ UNCHANGED logvars

LogStep ==
    /\ \/ Logging!tda_log_init
       \/ Logging!tda_log_deinit
       \/ \E l \in Layouts, zeroed \in BOOLEAN, a \in HeapAddrs : Logging!tda_alloc(l, zeroed, a)
       \/ \E b \in Others : Logging!tda_dealloc(b)
       \/ \E b \in Others, l \in Layouts :
             Logging!ReallocRemaps(b, l.size) \/ Logging!ReallocMoves(b, l.size)
    /\ UNCHANGED vars

NextBoth ==
    \/ \E base \in Bases, count \in Counts, size \in Sizes, align \in Aligns :
          PoolInitCap(base, count, size, align)
    \/ \E base \in Bases, c \in Caps, size \in Sizes, align \in Aligns :
          PoolInitBuf(base, c, size, align)
    \/ PoolDeinit
    \/ PoolStep
    \/ LogStep

SpecBoth == InitBoth /\ [][NextBoth]_all

-----------------------------------------------------------------------------
(* Properties.                                                              *)

\* The log of everything the pool and the others asked of it is true, and libc has out for
\* it just the blocks they hold, the pool's array among them: the pool gives back what it
\* took, with the layout it took it with.
LogAddsUp ==
    Logging!LogIsTrue /\ Logging!ChunksAreBlocks /\ lent \subseteq {Logging!Line(b) : b \in held}

\* Below the pool, the log keeps the hook contract with all its callers.
LogImplementsAllocator == Logging!ImplementsAllocator
=============================================================================
