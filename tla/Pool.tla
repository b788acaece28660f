-------------------------------- MODULE Pool --------------------------------
(***************************************************************************)
(* The pool of src/alloc/pool.c: equal blocks cut from one region, the free *)
(* ones threaded on a list whose links lie in the blocks themselves.        *)
(*                                                                         *)
(* data .. used and parent are the fields of tda_Pool.  link is the first   *)
(* word of every block, by address: what a free block's FreeBlock holds.    *)
(* The owner of a block may write over it, so from the hand-out on it is    *)
(* Garbage.  region is the memory the pool was built over, lent what the    *)
(* parent has out to the pool, blocks what the callers hold.                *)
(***************************************************************************)
EXTENDS Layout, FiniteSets

CONSTANTS
    Bases,   \* addresses a parent's block or a caller's buffer may have
    Caps,    \* sizes of a caller's buffer
    Counts,  \* block counts asked of init_cap
    Sizes,   \* sizes of a block, and of the requests
    Aligns,  \* alignments of a block, and of the requests
    PtrSize, PtrAlign,  \* sizeof and alignof a FreeBlock
    Garbage  \* what is read from memory its owner wrote

ASSUME PoolAssumption ==
    /\ Bases \subseteq Nat \ {0} /\ Caps \subseteq Nat \ {0}
    /\ Counts \subseteq Nat \ {0} /\ Sizes \subseteq Nat \ {0}
    /\ Aligns \subseteq Nat \ {0}
    /\ PtrSize \in Nat \ {0} /\ PtrAlign \in Nat \ {0}
    /\ \A a \in Aligns \cup {PtrAlign} : tda_layout_is_align(a)
    /\ SizeMax \in Nat
    /\ Null \notin Nat /\ Garbage \notin Nat /\ Garbage # Null

VARIABLES data, block_size, block_align, block_count, used, free_head, parent,
          link, region, lent, blocks

fields == <<data, block_size, block_align, block_count, parent>>
vars == <<fields, used, free_head, link, region, lent, blocks>>

\* the addresses of the blocks of a pool
ArrayOf(base, size, count) == {base + size * i : i \in 0 .. count - 1}
Array == ArrayOf(data, block_size, block_count)

Held == {b.addr : b \in blocks}

-----------------------------------------------------------------------------
(* Helpers.                                                                 *)

\* the block as the pool cuts it: room for a link, a size that tiles; Null on overflow
CkdBlock(size, align) ==
    LET a == Larger(align, PtrAlign)
    IN  [size |-> AlignCkdUp(Larger(size, PtrSize), a), align |-> a]

\* the links after build_free_list: each block to the one after it
FreeList(base, size, count) ==
    [a \in ArrayOf(base, size, count) |->
        IF a + size \in ArrayOf(base, size, count) THEN a + size ELSE Null]

\* how many blocks fit a caller's buffer, whose start may be off the blocks' alignment
BufCount(base, c, b) ==
    LET pad == AlignPad(base, b.align) IN IF pad > c THEN 0 ELSE (c - pad) \div b.size

ArrayLayout == [addr |-> data, size |-> block_size * block_count, align |-> block_align]

OwnsBlock(addr) ==
    /\ addr >= data /\ addr < data + block_size * block_count
    /\ (addr - data) % block_size = 0

-----------------------------------------------------------------------------
(* Lifetime.                                                                *)

Init ==
    /\ data = Null /\ block_size = 0 /\ block_align = 0 /\ block_count = 0
    /\ used = 0 /\ free_head = Null /\ parent = FALSE
    /\ link = <<>> /\ region = Null /\ lent = {} /\ blocks = {}

Fill(base, b, count, p) ==
    /\ data = Null
    /\ data' = base /\ block_size' = b.size /\ block_align' = b.align
    /\ block_count' = count /\ parent' = p
    /\ used' = 0
    /\ link' = FreeList(base, b.size, count) /\ free_head' = base
    /\ UNCHANGED blocks

tda_pool_init_cap(base, count, size, align) ==
    LET b == CkdBlock(size, align)
        l == LayoutCkdArray(b, count)
    IN  /\ b.size # Null /\ l # Null
        /\ base % l.align = 0  \* the parent keeps the hook contract
        /\ Fill(base, b, count, TRUE)
        /\ region' = [addr |-> base, size |-> l.size]
        /\ lent' = lent \cup {[addr |-> base, size |-> l.size, align |-> l.align]}

tda_pool_init_buf(base, c, size, align) ==
    LET b == CkdBlock(size, align)
    IN  /\ b.size # Null
        /\ BufCount(base, c, b) > 0
        /\ Fill(base + AlignPad(base, b.align), b, BufCount(base, c, b), FALSE)
        /\ region' = [addr |-> base, size |-> c]
        /\ UNCHANGED lent

\* what the parent has out after deinit
LentAfter == IF parent THEN lent \ {ArrayLayout} ELSE lent

tda_pool_deinit ==
    /\ data # Null
    /\ data' = Null /\ block_size' = 0 /\ block_align' = 0 /\ block_count' = 0
    /\ used' = 0 /\ free_head' = Null /\ parent' = FALSE
    /\ lent' = LentAfter
    /\ link' = <<>> /\ region' = Null /\ blocks' = {}

-----------------------------------------------------------------------------
(* The hooks, through the wrappers of alloc.c.                              *)

\* the owner of the new block writes over the link
tda_alloc(size, align) ==
    /\ data # Null /\ align <= block_align
    /\ size <= block_size /\ free_head # Null
    /\ free_head' = link[free_head]
    /\ used' = used + 1
    /\ link' = [link EXCEPT ![free_head] = Garbage]
    /\ blocks' = blocks \cup {[addr |-> free_head, size |-> size, align |-> align]}
    /\ UNCHANGED <<fields, region, lent>>

\* broken: the block is made the head without keeping the list behind it
PushFreeDropsList(addr) == link' = [link EXCEPT ![addr] = Null] /\ free_head' = addr

PushFree(addr) == link' = [link EXCEPT ![addr] = free_head] /\ free_head' = addr

tda_dealloc(b) ==
    /\ PushFree(b.addr)
    /\ used' = used - 1
    /\ blocks' = blocks \ {b}
    /\ UNCHANGED <<fields, region, lent>>

\* broken: any size stays in place
ResizesAny(size) == TRUE

\* pool_resize; a size past the block's is refused by pool_alloc as well
Resizes(size) == size <= block_size

tda_realloc(b, size) ==
    /\ Resizes(size)
    /\ blocks' = (blocks \ {b}) \cup {[b EXCEPT !.size = size]}
    /\ UNCHANGED <<fields, used, free_head, link, region, lent>>

tda_pool_reset ==
    /\ data # Null
    /\ used' = 0
    /\ link' = FreeList(data, block_size, block_count) /\ free_head' = data
    /\ blocks' = {}
    /\ UNCHANGED <<fields, region, lent>>

Next ==
    \/ \E base \in Bases, count \in Counts, size \in Sizes, align \in Aligns :
          tda_pool_init_cap(base, count, size, align)
    \/ \E base \in Bases, c \in Caps, size \in Sizes, align \in Aligns :
          tda_pool_init_buf(base, c, size, align)
    \/ tda_pool_deinit
    \/ \E size \in Sizes, align \in Aligns : tda_alloc(size, align)
    \/ \E b \in blocks : tda_dealloc(b)
    \/ \E b \in blocks, size \in Sizes : tda_realloc(b, size)
    \/ tda_pool_reset

Spec == Init /\ [][Next]_vars

-----------------------------------------------------------------------------
(* Properties.                                                              *)

\* The fields keep what ASSERT_POOL checks on every entry.
TypeOK ==
    /\ data \in Nat \cup {Null} /\ block_size \in Nat /\ block_align \in Nat
    /\ block_count \in Nat /\ used \in 0 .. block_count /\ parent \in BOOLEAN
    /\ free_head \in Array \cup {Null}
    /\ link \in [Array -> Array \cup {Null, Garbage}]
    /\ blocks \subseteq [addr : Array, size : Nat \ {0}, align : 1 .. block_align]
    /\ data # Null => block_count > 0

tda_pool_stats ==
    [block_size |-> block_size, block_align |-> block_align, blocks |-> block_count,
     used |-> used, free |-> block_count - used]

\* s lists the free blocks in the order in which the links reach them
IsFreeList(s, n) ==
    /\ \A i, j \in 1 .. n : s[i] = s[j] => i = j
    /\ Array \ Held \subseteq {s[i] : i \in 1 .. n}
    /\ free_head = IF n = 0 THEN Null ELSE s[1]
    /\ \A i \in 1 .. n : link[s[i]] = IF i = n THEN Null ELSE s[i + 1]

\* the list threaded through the blocks reaches every free block once, no held one, and
\* ends; every block held passes the checks of pool_dealloc
FreeListExact ==
    /\ \E s \in [1 .. tda_pool_stats.free -> Array \ Held] : IsFreeList(s, tda_pool_stats.free)
    /\ \A b \in blocks : OwnsBlock(b.addr) /\ used > 0 /\ b.addr # free_head

\* the parent has out exactly the array of a live pool made by init_cap
ParentIsOwed == lent = IF data # Null /\ parent THEN {ArrayLayout} ELSE {}

\* the blocks lie in the memory the pool was built over, aligned and with room for a link
BlocksInRegion ==
    \A a \in Array :
        /\ a % block_align = 0 /\ a % PtrAlign = 0 /\ block_size >= PtrSize
        /\ a >= region.addr
        /\ a + block_size <= region.addr + region.size

\* The list of free blocks is exact: no block is lost, none is handed out twice, and no link
\* is read from memory its owner has written, whatever the order of the frees.  The blocks
\* stay in their region and on their alignment, though init_buf pads an unaligned buffer and
\* init_cap works with a product that may overflow; and a parent's memory goes back to it,
\* once, with the layout deinit works out again from the fields.
PoolSound == TypeOK /\ FreeListExact /\ BlocksInRegion /\ ParentIsOwed

AllocatorSpec == INSTANCE Allocator WITH live <- blocks

\* The pool keeps the hook contract: blocks handed out are apart from the live ones and
\* on the alignment asked for, a resize stays in the block.
ImplementsAllocator == AllocatorSpec!Spec
=============================================================================
