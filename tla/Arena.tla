------------------------------- MODULE Arena -------------------------------
(***************************************************************************)
(* The arena of src/alloc/arena.c, reached through the wrappers of          *)
(* src/alloc/alloc.c: one block from a parent or a caller's buffer, handed  *)
(* out by bumping an offset, taken back all at once or to a mark.           *)
(*                                                                         *)
(* data, cap, offset, floor and parent are the fields of tda_Arena.  marks  *)
(* is the caller's stack of tda_ArenaMark values.  lent is what the parent  *)
(* has out to the arena.  blocks is the caller's view of the heap: the      *)
(* blocks handed out and not invalidated since, each with the number of     *)
(* marks that were outstanding when it was handed out.                      *)
(***************************************************************************)
EXTENDS Layout, Sequences, FiniteSets

CONSTANTS
    Bases,      \* addresses a parent's block or a caller's buffer may have
    Caps,       \* capacities asked for
    Sizes,      \* sizes asked of alloc and realloc
    Aligns,     \* alignments asked for
    MaxBlocks,  \* bound on live blocks
    MaxMarks,   \* bound on outstanding marks
    ReuseMarks  \* whether a caller may rewind to one mark more than once

ASSUME ArenaAssumption ==
    /\ Bases \subseteq Nat \ {0}
    /\ Sizes \subseteq Nat \ {0}
    /\ Aligns \subseteq Nat \ {0}
    /\ SizeMax \in Nat
    /\ Caps \subseteq 1 .. SizeMax
    /\ ReuseMarks \in BOOLEAN
    /\ Null \notin Nat

VARIABLES data, cap, offset, floor, parent, lent, marks, blocks

vars == <<data, cap, offset, floor, parent, lent, marks, blocks>>

Mark == [offset : Nat, floor : Nat]
Block == [addr : Nat, size : Nat \ {0}, align : Nat \ {0}, era : Nat]

-----------------------------------------------------------------------------
(* Helpers.  A refused request gives Null.                                   *)

BlockStart(b) == b.addr - data

\* broken: the capacity is not looked at
BlockEndUnbounded(start, size) == CkdAdd(start, size)

\* where a block of 'size' at 'start' would end; Null past the capacity
BlockEnd(start, size) ==
    LET end == CkdAdd(start, size) IN IF end # Null /\ end <= cap THEN end ELSE Null

IsLastBlock(b) == BlockStart(b) + b.size = offset

\* broken: pads the offset, not the address
AllocStartByOffset(align) == CkdAdd(offset, AlignPad(offset, align))

\* where arena_alloc would start a block
AllocStart(align) == CkdAdd(offset, AlignPad(data + offset, align))

\* where it would end; Null for a request that is refused
AllocEnd(size, align) ==
    IF AllocStart(align) = Null THEN Null ELSE BlockEnd(AllocStart(align), size)

\* broken: the floor is not looked at
GrowsInPlaceNoFloor(b) == IsLastBlock(b)

\* the block arena_resize may move the offset for
GrowsInPlace(b) == IsLastBlock(b) /\ BlockStart(b) >= floor

\* the offset after arena_resize; Null when it answers false
ResizedOffset(b, size) ==
    IF GrowsInPlace(b) THEN BlockEnd(BlockStart(b), size)
    ELSE IF size <= b.size THEN offset ELSE Null

NewBlock(size, align) ==
    [addr |-> data + AllocStart(align), size |-> size, align |-> align,
     era |-> Len(marks)]

-----------------------------------------------------------------------------
(* Lifetime.                                                                *)

Init ==
    /\ data = Null /\ cap = 0 /\ offset = 0 /\ floor = 0
    /\ parent = FALSE /\ lent = {} /\ marks = <<>> /\ blocks = {}

\* a fresh arena over 'base'; p says whether the block is the parent's
Fill(base, c, p) ==
    /\ data = Null
    /\ data' = base /\ cap' = c /\ parent' = p
    /\ offset' = 0 /\ floor' = 0
    /\ UNCHANGED <<marks, blocks>>

\* the block as it is asked of the parent and given back to it
ParentBlock(base, c) == [addr |-> base, size |-> c, align |-> 1]

\* a refusal by the parent leaves 'out' untouched
tda_arena_init_cap(base, c) ==
    Fill(base, c, TRUE) /\ lent' = lent \cup {ParentBlock(base, c)}

tda_arena_init_buf(base, c) == Fill(base, c, FALSE) /\ UNCHANGED lent

\* broken: what is given back is the part in use, not the capacity
LentAfterShort == lent \ {ParentBlock(data, offset)}

\* what the parent has out after deinit: a caller's buffer is not its to take back
LentAfter == IF parent THEN lent \ {ParentBlock(data, cap)} ELSE lent

tda_arena_deinit ==
    /\ data # Null
    /\ data' = Null /\ cap' = 0 /\ offset' = 0 /\ floor' = 0 /\ parent' = FALSE
    /\ lent' = LentAfter
    /\ marks' = <<>> /\ blocks' = {}

-----------------------------------------------------------------------------
(* The hooks, through the wrappers of alloc.c.                              *)

tda_alloc(size, align) ==
    /\ data # Null /\ Cardinality(blocks) < MaxBlocks
    /\ AllocEnd(size, align) # Null
    /\ offset' = AllocEnd(size, align)
    /\ blocks' = blocks \cup {NewBlock(size, align)}
    /\ UNCHANGED <<data, cap, floor, parent, lent, marks>>

\* the arena frees nothing per block; the caller gives up the block
tda_dealloc(b) ==
    /\ blocks' = blocks \ {b}
    /\ UNCHANGED <<data, cap, offset, floor, parent, lent, marks>>

\* tda_realloc: in place if the hook can, else alloc, copy and dealloc, else the block
\* stays as it was.  The arena has no remap
ReallocInPlace(b, size) ==
    /\ ResizedOffset(b, size) # Null
    /\ offset' = ResizedOffset(b, size)
    /\ blocks' = (blocks \ {b}) \cup {[b EXCEPT !.size = size]}
    /\ UNCHANGED <<data, cap, floor, parent, lent, marks>>

ReallocMoves(b, size) ==
    /\ ResizedOffset(b, size) = Null
    /\ AllocEnd(size, b.align) # Null
    /\ offset' = AllocEnd(size, b.align)
    /\ blocks' = (blocks \ {b}) \cup {NewBlock(size, b.align)}
    /\ UNCHANGED <<data, cap, floor, parent, lent, marks>>

tda_realloc(b, size) == ReallocInPlace(b, size) \/ ReallocMoves(b, size)

-----------------------------------------------------------------------------
(* Reset, mark and rewind.                                                  *)

tda_arena_reset ==
    /\ data # Null
    /\ offset' = 0 /\ floor' = 0
    /\ marks' = <<>> /\ blocks' = {}
    /\ UNCHANGED <<data, cap, parent, lent>>

\* broken: the floor is not raised
MarkNoFloor ==
    /\ data # Null /\ Len(marks) < MaxMarks
    /\ marks' = Append(marks, [offset |-> offset, floor |-> floor])
    /\ UNCHANGED <<data, cap, offset, floor, parent, lent, blocks>>

tda_arena_mark ==
    /\ data # Null /\ Len(marks) < MaxMarks
    /\ marks' = Append(marks, [offset |-> offset, floor |-> floor])
    /\ floor' = offset
    /\ UNCHANGED <<data, cap, offset, parent, lent, blocks>>

\* rewinding the i-th outstanding mark invalidates it, every later one, and every block
\* handed out since; ReuseMarks leaves the i-th itself with the caller
tda_arena_rewind(i) ==
    /\ marks[i].offset <= offset
    /\ offset' = marks[i].offset
    /\ floor' = marks[i].floor
    /\ marks' = SubSeq(marks, 1, IF ReuseMarks THEN i ELSE i - 1)
    /\ blocks' = {b \in blocks : b.era < i}
    /\ UNCHANGED <<data, cap, parent, lent>>

Next ==
    \/ \E base \in Bases, c \in Caps :
          tda_arena_init_cap(base, c) \/ tda_arena_init_buf(base, c)
    \/ tda_arena_deinit
    \/ \E size \in Sizes, align \in Aligns : tda_alloc(size, align)
    \/ \E b \in blocks : tda_dealloc(b)
    \/ \E b \in blocks, size \in Sizes : tda_realloc(b, size)
    \/ tda_arena_reset
    \/ tda_arena_mark
    \/ \E i \in 1 .. Len(marks) : tda_arena_rewind(i)

Spec == Init /\ [][Next]_vars

-----------------------------------------------------------------------------
(* Properties.                                                              *)

\* The fields keep what ASSERT_ARENA checks on every entry: an inert arena is all zero,
\* a live one has floor <= offset <= cap.
TypeOK ==
    /\ data \in Bases \cup {Null}
    /\ cap \in Nat /\ offset \in Nat /\ floor \in Nat /\ parent \in BOOLEAN
    /\ marks \in Seq(Mark)
    /\ blocks \subseteq Block
    /\ floor <= offset /\ offset <= cap /\ cap <= SizeMax
    /\ data = Null => cap = 0 /\ marks = <<>> /\ blocks = {}

\* The marks and the floor form one chain: the floor is the offset of the latest live
\* mark (the comment on floor_ in arena.h), and each mark saved the offset of the one
\* below it, so a rewind over several marks puts back the right floor, and none of them
\* trips the check that its mark was not already rewound past.
MarkOffset(i) == IF i = 0 THEN 0 ELSE marks[i].offset
FloorIsLatestMark ==
    /\ floor = MarkOffset(Len(marks))
    /\ \A i \in 1 .. Len(marks) :
          /\ marks[i].floor = MarkOffset(i - 1)
          /\ marks[i].offset <= offset
          /\ \A j \in 1 .. i : marks[j].offset <= marks[i].offset

\* A mark separates the blocks handed out before it, which end at or below it, from the
\* later ones, which start at or above it, however either has been resized since.
MarksSeparate ==
    \A b \in blocks :
        /\ b.era <= Len(marks)
        /\ \A i \in 1 .. Len(marks) :
              IF b.era < i THEN BlockStart(b) + b.size <= marks[i].offset
                           ELSE BlockStart(b) >= marks[i].offset

\* A rewind never cuts off the tail of a block that outlives the mark (arena.h, the
\* paragraph on marks): every live block lies under the offset, where alloc cannot reach.
RewindCutsNoBlock ==
    \A b \in blocks : BlockStart(b) >= 0 /\ BlockStart(b) + b.size <= offset

\* No two live blocks share a byte, whatever was resized, moved, rewound or reset between.
LiveBlocksApart ==
    \A b, c \in blocks :
        b # c => b.addr + b.size <= c.addr \/ c.addr + c.size <= b.addr

\* The parent has out exactly the block of a live arena made by init_cap: deinit gives it
\* back with the layout it was asked with, and never gives back a caller's buffer.
ParentIsOwed ==
    lent = IF data # Null /\ parent THEN {ParentBlock(data, cap)} ELSE {}

\* Every block handed out is on its own alignment, wherever the arena's block lies
\* (init_buf takes a buffer of any alignment).
LiveBlocksAligned == \A b \in blocks : b.addr % b.align = 0

\* The arena as a client of the tda_Al interface sees it.
Live == {[addr |-> b.addr, size |-> b.size, align |-> b.align] : b \in blocks}
AllocatorSpec == INSTANCE Allocator WITH live <- Live

\* The arena keeps the hook contract: every step of it is a give, a take-back, a resize
\* in place or a move of the abstract allocator.
ImplementsAllocator == AllocatorSpec!Spec
=============================================================================
