-------------------------------- MODULE Slab --------------------------------
(***************************************************************************)
(* The slab of src/alloc/slab.c: a free list and a carving ground per size  *)
(* class, chunks taken from a parent as they are needed, and requests no    *)
(* class serves passed to the parent.                                       *)
(*                                                                         *)
(* Memory is counted in words, a word holding one pointer: mem[a] is the    *)
(* word at a, where freed blocks keep the link of their class's list and    *)
(* the last word of a chunk the link of the chunk list.  An owner may write *)
(* over its whole block, so those words are Garbage from the hand-out on.   *)
(*                                                                         *)
(* slab holds the fields of tda_Slab, and with them what the slab reaches:  *)
(* mem, lent (what the parent has out to it) and, as history, carved (the   *)
(* blocks cut for each class so far).  blocks is what the callers hold.     *)
(***************************************************************************)
EXTENDS Layout, Sequences, FiniteSets, FiniteSetsExt

CONSTANTS
    ClassSizes,  \* CLASS_SIZES, in words
    ChunkBytes,  \* CHUNK_BYTES, in words
    ChunkAlign,  \* CHUNK_ALIGN, in words
    Words,       \* the addresses of the memory behind the parent
    ParentAddrs, \* the addresses the parent hands out
    Layouts,     \* the layouts asked for
    MaxBlocks,   \* bound on live blocks
    Garbage      \* what is read from memory its owner wrote

\* the largest power of two dividing 'size', which is what size & -size gives
LowestBit(size) == Max({p \in 1 .. size : tda_layout_is_align(p) /\ size % p = 0})

ASSUME SlabAssumption ==
    /\ ClassSizes \in Seq(Nat \ {0})
    /\ ChunkBytes \in Nat \ {0} /\ ChunkAlign \in Nat /\ tda_layout_is_align(ChunkAlign)
    \* a chunk has room for a block of any class, and CHUNK_ALIGN covers every class
    /\ \A i \in 1 .. Len(ClassSizes) :
          ClassSizes[i] < ChunkBytes /\ LowestBit(ClassSizes[i]) <= ChunkAlign
    /\ IsFiniteSet(Words) /\ Words \subseteq Nat \ {0} /\ ParentAddrs \subseteq Words
    /\ Layouts \subseteq [size : Nat \ {0}, align : Nat \ {0}]
    /\ \A l \in Layouts : tda_layout_is_align(l.align)
    /\ Null \notin Nat /\ Garbage \notin Nat /\ Garbage # Null

VARIABLES slab, blocks

vars == <<slab, blocks>>

Classes == 1 .. Len(ClassSizes)
ClassCount == Len(ClassSizes) + 1  \* no class: the parent
ChunkRoom == ChunkBytes - 1        \* the link of the chunk takes its last word

Extent(b) == b.addr .. b.addr + b.size - 1
LayoutOf(b) == [size |-> b.size, align |-> b.align]

-----------------------------------------------------------------------------
(* Helpers.                                                                 *)

\* broken: the alignment is not looked at
ClassServesSizeOnly(i, layout) == ClassSizes[i] >= layout.size

ClassServes(i, layout) ==
    ClassSizes[i] >= layout.size /\ LowestBit(ClassSizes[i]) >= layout.align

\* the first class that serves 'layout', or ClassCount
ClassOf(layout) ==
    CHOOSE i \in 1 .. ClassCount :
        /\ i = ClassCount \/ ClassServes(i, layout)
        /\ \A j \in 1 .. i - 1 : ~ClassServes(j, layout)

ResizedLayout(b, size) == [size |-> size, align |-> b.align]

StaysLarge(b, size) ==
    ClassOf(LayoutOf(b)) = ClassCount /\ ClassOf(ResizedLayout(b, size)) = ClassCount

\* broken: any smaller size stays in place
SameClassOrSmaller(b, size) == size <= b.size

SameClass(b, size) == ClassOf(LayoutOf(b)) = ClassOf(ResizedLayout(b, size))

CanCarve(cls, size) == cls.carve # Null /\ cls.carve_end - cls.carve >= size

\* the addresses the parent may answer a request with, beside what it has out
ParentRoom(lent, size, align) ==
    {a \in ParentAddrs :
        /\ a % align = 0 /\ a .. a + size - 1 \subseteq Words
        /\ \A b \in lent : Extent(b) \cap (a .. a + size - 1) = {}}

ChunkBlock(base) == [addr |-> base, size |-> ChunkBytes, align |-> ChunkAlign]

\* broken: the new chunk is not linked to the older ones
AddChunkUnlinked(s, i, base) ==
    LET link == base + ChunkRoom
    IN  [s EXCEPT !.mem[link] = Null, !.chunks = link, !.chunk_count = @ + 1,
                  !.classes[i].carve = base, !.classes[i].carve_end = link,
                  !.lent = @ \cup {ChunkBlock(base)}]

AddChunk(s, i, base) ==
    LET link == base + ChunkRoom
    IN  [s EXCEPT !.mem[link] = s.chunks, !.chunks = link, !.chunk_count = @ + 1,
                  !.classes[i].carve = base, !.classes[i].carve_end = link,
                  !.lent = @ \cup {ChunkBlock(base)}]

\* the slab with room to carve for class i; several when the parent has a choice, none
\* when it refuses
WithRoom(s, i) ==
    IF CanCarve(s.classes[i], ClassSizes[i]) THEN {s}
    ELSE {AddChunk(s, i, base) : base \in ParentRoom(s.lent, ChunkBytes, ChunkAlign)}

\* the next block of the class's chunk: the slab after it and the block's address.  The tail
\* of a chunk that is too short is left unused
Carve(s, i) ==
    {[addr |-> t.classes[i].carve,
      slab |-> [t EXCEPT !.classes[i].carve = @ + ClassSizes[i],
                         !.carved[i] = @ \cup {t.classes[i].carve}]] : t \in WithRoom(s, i)}

\* slab_alloc for a class: the last block freed, or a fresh one
AllocSmall(s, i) ==
    LET cls == s.classes[i]
    IN  IF cls.free_head # Null
        THEN {[addr |-> cls.free_head,
               slab |-> [s EXCEPT !.classes[i].free_head = s.mem[cls.free_head],
                                  !.small_blocks = @ + 1]]}
        ELSE {[r EXCEPT !.slab.small_blocks = @ + 1] : r \in Carve(s, i)}

AllocLarge(s, l) ==
    {[addr |-> a,
      slab |-> [s EXCEPT !.large_blocks = @ + 1,
                         !.lent = @ \cup {[addr |-> a, size |-> l.size, align |-> l.align]}]] :
        a \in ParentRoom(s.lent, l.size, l.align)}

SlabAlloc(s, l) ==
    IF ClassOf(l) = ClassCount THEN AllocLarge(s, l) ELSE AllocSmall(s, ClassOf(l))

SlabDealloc(s, b) ==
    LET i == ClassOf(LayoutOf(b))
    IN  IF i = ClassCount
        THEN [s EXCEPT !.large_blocks = @ - 1, !.lent = @ \ {b}]
        ELSE [s EXCEPT !.mem[b.addr] = s.classes[i].free_head,
                       !.classes[i].free_head = b.addr,
                       !.small_blocks = @ - 1]

\* the owner of b writes over it
WrittenBy(s, b) ==
    [s EXCEPT !.mem = [a \in Words |-> IF a \in Extent(b) THEN Garbage ELSE s.mem[a]]]

\* the addresses on the list that starts at 'head', whose links are in mem
Chain(mem, head) ==
    LET Nth[n \in 0 .. Cardinality(Words)] ==
            IF n = 0 THEN head
            ELSE LET a == Nth[n - 1] IN IF a \in Words THEN mem[a] ELSE a
    IN  {Nth[n] : n \in 0 .. Cardinality(Words)}

-----------------------------------------------------------------------------
(* The slab's operations.                                                   *)

Inert ==
    [parent |-> FALSE, chunks |-> Null, chunk_count |-> 0,
     small_blocks |-> 0, large_blocks |-> 0,
     classes |-> [i \in Classes |-> [free_head |-> Null, carve |-> Null, carve_end |-> Null]],
     mem |-> [a \in Words |-> Garbage], lent |-> {},
     carved |-> [i \in Classes |-> {}]]

Init == slab = Inert /\ blocks = {}

tda_slab_init ==
    /\ ~slab.parent
    /\ slab' = [Inert EXCEPT !.parent = TRUE]
    /\ UNCHANGED blocks

\* gives back each chunk the list reaches.  The large blocks go back before, one by one
tda_slab_deinit ==
    /\ slab.parent
    /\ \A b \in blocks : ClassOf(LayoutOf(b)) # ClassCount
    /\ slab' = [Inert EXCEPT !.lent =
                   slab.lent \ {ChunkBlock(a - ChunkRoom) :
                                   a \in Chain(slab.mem, slab.chunks) \cap Words}]
    /\ blocks' = {}

tda_alloc(l) ==
    /\ slab.parent /\ Cardinality(blocks) < MaxBlocks
    /\ \E r \in SlabAlloc(slab, l) :
          LET b == [addr |-> r.addr, size |-> l.size, align |-> l.align]
          IN  slab' = WrittenBy(r.slab, b) /\ blocks' = blocks \cup {b}

tda_dealloc(b) ==
    /\ slab' = SlabDealloc(slab, b)
    /\ blocks' = blocks \ {b}

\* tda_realloc, cheapest first: slab_resize in place, for a large block if the parent can
ReallocInPlace(b, size) ==
    LET c == [b EXCEPT !.size = size]
    IN  /\ IF StaysLarge(b, size)
           THEN /\ b.addr \in ParentRoom(slab.lent \ {b}, size, b.align)
                /\ slab' = WrittenBy([slab EXCEPT !.lent = (@ \ {b}) \cup {c}], c)
           ELSE SameClass(b, size) /\ slab' = WrittenBy(slab, c)
        /\ blocks' = (blocks \ {b}) \cup {c}

\* slab_remap: the parent moves the block, keeping the old one until it has the new
ReallocRemaps(b, size) ==
    /\ StaysLarge(b, size)
    /\ \E a \in ParentRoom(slab.lent, size, b.align) :
          LET c == [b EXCEPT !.addr = a, !.size = size]
          IN  /\ slab' = WrittenBy([slab EXCEPT !.lent = (@ \ {b}) \cup {c}], c)
              /\ blocks' = (blocks \ {b}) \cup {c}

\* a new block, a copy, and the old block given back.  A refusal leaves the old one
ReallocMoves(b, size) ==
    /\ StaysLarge(b, size) \/ ~SameClass(b, size)
    /\ \E r \in SlabAlloc(slab, ResizedLayout(b, size)) :
          LET c == [b EXCEPT !.addr = r.addr, !.size = size]
          IN  /\ slab' = SlabDealloc(WrittenBy(r.slab, c), b)
              /\ blocks' = (blocks \ {b}) \cup {c}

Next ==
    \/ tda_slab_init
    \/ tda_slab_deinit
    \/ \E l \in Layouts : tda_alloc(l)
    \/ \E b \in blocks : tda_dealloc(b)
    \/ \E b \in blocks, l \in Layouts :
          \/ ReallocInPlace(b, l.size)
          \/ ReallocRemaps(b, l.size)
          \/ ReallocMoves(b, l.size)

Spec == Init /\ [][Next]_vars

-----------------------------------------------------------------------------
(* Properties.                                                              *)

Pointer == Words \cup {Null}

\* The fields have their types; an uncarved rest lies before its chunk's link.
TypeOK ==
    /\ slab.parent \in BOOLEAN
    /\ slab.chunks \in Pointer
    /\ slab.chunk_count \in Nat /\ slab.small_blocks \in Nat /\ slab.large_blocks \in Nat
    /\ slab.classes \in [Classes -> [free_head : Pointer, carve : Pointer, carve_end : Pointer]]
    /\ \A i \in Classes : slab.classes[i].carve # Null =>
          slab.classes[i].carve <= slab.classes[i].carve_end
    /\ slab.mem \in [Words -> Pointer \cup {Garbage}]
    /\ blocks \subseteq [addr : Words, size : Nat \ {0}, align : Nat \ {0}]

Small(b) == ClassOf(LayoutOf(b)) # ClassCount

tda_slab_stats ==
    [chunks |-> slab.chunk_count, chunk_bytes |-> slab.chunk_count * ChunkBytes,
     small_blocks |-> slab.small_blocks, large_blocks |-> slab.large_blocks]

\* The class a free finds again from the layout alone is the one the block was cut for,
\* whatever the block was resized to since (no block carries a header); and the counts of
\* tda_slab_stats are those of the blocks held and of what the parent has out, so that no
\* free meets a count of zero.
DeallocFindsClass ==
    /\ \A b \in blocks : Small(b) => b.addr \in slab.carved[ClassOf(LayoutOf(b))]
    /\ tda_slab_stats.small_blocks = Cardinality({b \in blocks : Small(b)})
    /\ tda_slab_stats.large_blocks = Cardinality({b \in blocks : ~Small(b)})
    /\ tda_slab_stats.chunk_bytes + MapThenSumSet(LAMBDA b : b.size, {b \in blocks : ~Small(b)})
          = MapThenSumSet(LAMBDA b : b.size, slab.lent)

\* each class's list reaches the blocks cut for the class and held by nobody, and ends
FreeListsExact ==
    \A i \in Classes :
        Chain(slab.mem, slab.classes[i].free_head) =
            {Null} \cup (slab.carved[i] \ {b.addr : b \in blocks})

\* the chunk list reaches the chunks the parent has out, and only the large blocks are the
\* parent's besides
ChunksReached ==
    /\ slab.lent = {b \in blocks : ~Small(b)}
                   \cup {ChunkBlock(a - ChunkRoom) : a \in Chain(slab.mem, slab.chunks) \ {Null}}
    /\ Cardinality(Chain(slab.mem, slab.chunks)) = slab.chunk_count + 1

\* The fields are sound, and the lists threaded through the memory are exact: no free block
\* is lost or handed out twice, no link is read from memory its owner has written, and
\* deinit, which finds the chunks by links that lie behind their blocks, gives all of them
\* back.
ListsExact == TypeOK /\ FreeListsExact /\ ChunksReached

AllocatorSpec == INSTANCE Allocator WITH live <- blocks

\* The slab keeps the hook contract, on a parent that keeps it.
ImplementsAllocator == AllocatorSpec!Spec
=============================================================================
