-------------------------------- MODULE Log ---------------------------------
(***************************************************************************)
(* The default allocator of src/alloc/default.c, over the heap of libc, and *)
(* the logging allocator of src/alloc/log.c over it, reached through the    *)
(* wrappers of src/alloc/alloc.c, which also stand between the two.         *)
(*                                                                         *)
(* A heap is the set of chunks libc has out, [addr, size, zero]: size is    *)
(* what libc was asked for and zero how many of the chunk's first bytes     *)
(* were zeroed for the caller.  libc promises malloc(n) only the alignment  *)
(* of the types of size n or less, and may refuse.  The hooks of the default*)
(* allocator answer with outcomes [addr, heap], none when they refuse.      *)
(*                                                                         *)
(* on says whether the log has a parent, libc is the heap below it.         *)
(* held is what the callers hold, each block with whether it was asked for  *)
(* zeroed.  told is what a reader of the log takes to be out: the blocks    *)
(* its lines name as handed out, resized, moved and given back.             *)
(***************************************************************************)
EXTENDS Layout, FiniteSetsExt

CONSTANTS
    HeapAddrs,    \* the bytes of the heap
    PlainAlign,   \* PLAIN_ALIGN, alignof(max_align_t)
    MaxAlignSize  \* sizeof(max_align_t)

-----------------------------------------------------------------------------
(* libc.                                                                    *)

Room(h, n, align) ==
    {a \in HeapAddrs :
        /\ a % align = 0 /\ a .. a + n - 1 \subseteq HeapAddrs
        /\ \A c \in h : (c.addr .. c.addr + c.size - 1) \cap (a .. a + n - 1) = {}}

\* the alignment owed to n bytes
Owed(n) == Max({p \in 1 .. PlainAlign : p <= n /\ tda_layout_is_align(p)})

WithChunk(h, a, n, zero) ==
    [addr |-> a, heap |-> h \cup {[addr |-> a, size |-> n, zero |-> zero]}]

malloc(h, n) == {WithChunk(h, a, n, 0) : a \in Room(h, n, Owed(n))}

calloc(h, n) == {WithChunk(h, a, n, n) : a \in Room(h, n, Owed(n))}

\* a size that is no multiple of the alignment is refused
aligned_alloc(h, align, n) ==
    IF n % align # 0 THEN {} ELSE {WithChunk(h, a, n, 0) : a \in Room(h, n, align)}

ChunkAt(h, a) == CHOOSE c \in h : c.addr = a

free(h, a) == h \ {ChunkAt(h, a)}

\* where the chunk lies, or elsewhere while the old chunk is still out
realloc(h, a, n) ==
    {WithChunk(free(h, a), b, n, 0) :
        b \in Room(h, n, Owed(n)) \cup (Room(free(h, a), n, Owed(n)) \cap {a})}

-----------------------------------------------------------------------------
(* The hooks.                                                               *)

IsPlain(align) == align <= PlainAlign

\* broken: a block is asked for as long as it is, however it is aligned
PlainSizeAsIs(size, align) == size

\* a block shorter than its alignment asks for a whole max_align_t
PlainSize(size, align) == IF size >= align THEN size ELSE MaxAlignSize

DefaultAlloc(h, l) ==
    IF IsPlain(l.align) THEN malloc(h, PlainSize(l.size, l.align))
    ELSE IF AlignCkdUp(l.size, l.align) = Null THEN {}
    ELSE aligned_alloc(h, l.align, AlignCkdUp(l.size, l.align))

\* the memset of an aligned block zeroes as much as was asked for, not all libc gave
DefaultAllocZeroed(h, l) ==
    LET zeroed(r) == [addr |-> r.addr,
                      heap |-> {IF c.addr = r.addr THEN [c EXCEPT !.zero = l.size] ELSE c : c \in r.heap}]
    IN  IF IsPlain(l.align) THEN calloc(h, PlainSize(l.size, l.align))
        ELSE {zeroed(r) : r \in DefaultAlloc(h, l)}

\* realloc keeps malloc's alignment alone: any other block is left to the wrapper's copy
DefaultRemap(h, b, size) ==
    IF IsPlain(b.align) THEN realloc(h, b.addr, PlainSize(size, b.align)) ELSE {}

DefaultDealloc(h, b) == free(h, b.addr)

-----------------------------------------------------------------------------
(* log.c.                                                                   *)

CONSTANT MaxHeld  \* bound on the blocks held

VARIABLES on, libc, held, told

vars == <<on, libc, held, told>>

Blk(a, l, zeroed) == [addr |-> a, size |-> l.size, align |-> l.align, zeroed |-> zeroed]

\* a block as the lines print it
Line(b) == [addr |-> b.addr, size |-> b.size, align |-> b.align]

Init == on = FALSE /\ libc = {} /\ held = {} /\ told = {}

\* a log has one reader, who starts at its first line
tda_log_init == ~on /\ on' = TRUE /\ told' = {} /\ UNCHANGED <<libc, held>>

\* a view is good until the deinit: the blocks are given back before
tda_log_deinit == on /\ held = {} /\ on' = FALSE /\ UNCHANGED <<libc, held, told>>

\* log_alloc and log_alloc_zeroed; a refusal changes nothing and its line names no block
tda_alloc(l, zeroed, a) ==
    /\ on /\ Cardinality(held) < MaxHeld
    /\ \E r \in IF zeroed THEN DefaultAllocZeroed(libc, l) ELSE DefaultAlloc(libc, l) :
          /\ r.addr = a
          /\ libc' = r.heap
    /\ held' = held \cup {Blk(a, l, zeroed)}
    /\ told' = told \cup {Line(Blk(a, l, zeroed))}
    /\ UNCHANGED on

\* log_dealloc: the line first
tda_dealloc(b) ==
    /\ on
    /\ told' = told \ {Line(b)}
    /\ libc' = DefaultDealloc(libc, b)
    /\ held' = held \ {b}
    /\ UNCHANGED on

\* broken: the line is written from the pointer the block has after the move
RemapLineLate(b, c) == (told \ {Line([b EXCEPT !.addr = c.addr])}) \cup {Line(c)}

\* the line of a remap names the address from before the move
RemapLine(b, c) == (told \ {Line(b)}) \cup {Line(c)}

\* tda_realloc: the default allocator resizes nothing in place, so the first line says
\* "refused" and the block is moved by libc ...
ReallocRemaps(b, size) ==
    /\ on
    /\ \E r \in DefaultRemap(libc, b, size) :
          LET c == [b EXCEPT !.addr = r.addr, !.size = size, !.zeroed = FALSE]
          IN  libc' = r.heap /\ held' = (held \ {b}) \cup {c} /\ told' = RemapLine(b, c)
    /\ UNCHANGED on

\* ... or, when libc refuses, by a new block, a copy and a free, each with its line.  A
\* refusal of the new block leaves the old one
ReallocMoves(b, size) ==
    /\ on
    /\ \E r \in DefaultAlloc(libc, [size |-> size, align |-> b.align]) :
          LET c == [b EXCEPT !.addr = r.addr, !.size = size, !.zeroed = FALSE]
          IN  /\ libc' = DefaultDealloc(r.heap, b)
              /\ held' = (held \ {b}) \cup {c}
              /\ told' = (told \cup {Line(c)}) \ {Line(b)}
    /\ UNCHANGED on

-----------------------------------------------------------------------------
(* Properties.                                                              *)

\* The lines of a live log, read from its first, add up to the blocks out, whichever way
\* tda_realloc went.
LogIsTrue == on => told = {Line(b) : b \in held}

\* Each chunk of libc is one caller's block, is as long as that block says and, for a block
\* asked for zeroed, zero as far: nothing is leaked, freed twice or freed short.
ChunksAreBlocks ==
    /\ {c.addr : c \in libc} = {b.addr : b \in held}
    /\ Cardinality(libc) = Cardinality(held)
    /\ \A b \in held : LET c == ChunkAt(libc, b.addr)
                       IN  c.size >= b.size /\ (b.zeroed => c.zero >= b.size)

AllocatorSpec == INSTANCE Allocator WITH live <- {Line(b) : b \in held}

\* The default allocator, and the log on it, keep the hook contract, though libc's plain
\* calls owe a short block less than the alignment asked for.
ImplementsAllocator == AllocatorSpec!Spec
=============================================================================
