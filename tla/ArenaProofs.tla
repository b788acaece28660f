---------------------------- MODULE ArenaProofs ----------------------------
(***************************************************************************)
(* Proofs about the arena for every capacity, base address, set of sizes    *)
(* and alignments, and any number of blocks and marks, as long as a caller  *)
(* rewinds each mark at most once (~ReuseMarks).                            *)
(***************************************************************************)
EXTENDS Arena, LayoutProofs

\* The inductive invariant.  None of the three safety properties is inductive alone: a
\* resize in place stays inside only because the last block is the topmost one, that a
\* rewind leaves the older blocks whole needs the marks to separate old from new, and that
\* needs the floor to be the latest mark.
IInv ==
    /\ TypeOK
    /\ FloorIsLatestMark
    /\ MarksSeparate
    /\ RewindCutsNoBlock
    /\ LiveBlocksApart

\* The fields of an arena.
LEMMA ArenaFields ==
    ASSUME TypeOK
    PROVE  /\ cap \in Nat /\ offset \in Nat /\ floor \in Nat /\ Len(marks) \in Nat
           /\ floor <= offset /\ offset <= cap
  BY DEF TypeOK

\* The fields of a live block.
LEMMA BlockFields ==
    ASSUME TypeOK, NEW b \in blocks
    PROVE  b.addr \in Nat /\ b.size \in Nat /\ b.size > 0 /\ b.align \in Nat \ {0} /\ b.era \in Nat
  BY DEF TypeOK, Block

\* Every outstanding mark lies at or below the floor, which is the latest of them.
LEMMA MarksBelowFloor ==
    ASSUME TypeOK, FloorIsLatestMark, NEW i \in 1 .. Len(marks)
    PROVE  /\ marks[i].offset \in Nat /\ marks[i].floor \in Nat
           /\ marks[i].offset <= floor
           /\ marks[i].offset <= offset
  <1>1. Len(marks) \in Nat /\ marks[i] \in Mark
    BY DEF TypeOK
  <1>2. Len(marks) \in 1 .. Len(marks) /\ i \in 1 .. Len(marks)
    BY <1>1
  <1>3. marks[i].offset <= marks[Len(marks)].offset
    BY <1>2 DEF FloorIsLatestMark
  <1>4. floor = marks[Len(marks)].offset
    BY <1>1, <1>2 DEF FloorIsLatestMark, MarkOffset
  <1> QED
    BY <1>1, <1>3, <1>4 DEF FloorIsLatestMark, Mark

\* A block that arena_alloc places lies between the offset and the capacity.
LEMMA AllocPlaces ==
    ASSUME ArenaAssumption, TypeOK, data # Null,
           NEW size \in Nat \ {0}, NEW align \in Nat \ {0},
           AllocEnd(size, align) # Null
    PROVE  /\ AllocStart(align) \in Nat
           /\ AllocStart(align) >= offset
           /\ AllocEnd(size, align) \in Nat
           /\ AllocEnd(size, align) = AllocStart(align) + size
           /\ AllocEnd(size, align) <= cap
  <1>1. data \in Nat
    BY DEF ArenaAssumption, TypeOK
  <1>2. data + offset \in Nat
    BY <1>1 DEF TypeOK
  <1>3. AlignPad(data + offset, align) \in Nat
    BY <1>2, AlignPadNat
  <1>4. AllocStart(align) # Null
    BY DEF AllocEnd
  <1>5. AllocStart(align) = offset + AlignPad(data + offset, align)
    BY <1>4 DEF AllocStart, CkdAdd
  <1>6. BlockEnd(AllocStart(align), size) # Null
    BY <1>4 DEF AllocEnd
  <1>7. AllocEnd(size, align) = AllocStart(align) + size /\ AllocEnd(size, align) <= cap
    BY <1>4, <1>6 DEF AllocEnd, BlockEnd, CkdAdd
  <1> QED
    BY <1>3, <1>5, <1>7 DEF TypeOK

\* An arena_resize that answers true leaves the block inside the arena: a last block
\* above the floor takes the offset with it, any other block only shrinks.
LEMMA ResizePlaces ==
    ASSUME ArenaAssumption, IInv, NEW b \in blocks, NEW size \in Nat \ {0},
           ResizedOffset(b, size) # Null
    PROVE  \/ /\ GrowsInPlace(b)
              /\ ResizedOffset(b, size) = BlockStart(b) + size
              /\ ResizedOffset(b, size) <= cap
           \/ /\ ~GrowsInPlace(b)
              /\ size <= b.size
              /\ ResizedOffset(b, size) = offset
  BY DEF ResizedOffset, BlockEnd, CkdAdd

\* An inert arena has no marks and no blocks, so every part of IInv is about nothing.
LEMMA InitIInv == ASSUME ArenaAssumption PROVE Init => IInv
  <1> SUFFICES ASSUME Init PROVE IInv
    OBVIOUS
  <1>1. Len(marks) = 0 /\ marks \in Seq(Mark)
    BY DEF Init
  <1>2. parent \in BOOLEAN
    BY Zenon DEF Init
  <1>3. TypeOK
    BY <1>1, <1>2, SMT DEF Init, TypeOK, ArenaAssumption
  <1> QED
    BY <1>1, <1>3 DEF Init, IInv, FloorIsLatestMark, MarkOffset, MarksSeparate,
                      RewindCutsNoBlock, LiveBlocksApart

\* A block placed by arena_alloc keeps IInv, whichever of the older blocks stay: tda_alloc
\* keeps them all, tda_realloc drops the one it moved.
LEMMA PlaceKeeps ==
    ASSUME ArenaAssumption, IInv, data # Null,
           NEW size \in Nat \ {0}, NEW align \in Nat \ {0},
           NEW S, S \subseteq blocks,
           AllocEnd(size, align) # Null,
           offset' = AllocEnd(size, align),
           blocks' = S \cup {NewBlock(size, align)},
           UNCHANGED <<data, cap, floor, parent, lent, marks>>
    PROVE  IInv'
  <1> USE DEF IInv
  <1>1. /\ AllocStart(align) \in Nat
        /\ AllocStart(align) >= offset
        /\ offset' = AllocStart(align) + size
        /\ offset' \in Nat
        /\ offset' <= cap
    BY AllocPlaces
  <1>2. data \in Nat /\ Len(marks) \in Nat
    BY DEF ArenaAssumption, TypeOK
  <1> DEFINE n == NewBlock(size, align)
  <1>3. /\ n \in Block
        /\ n.addr = data + AllocStart(align)
        /\ n.size = size
        /\ n.era = Len(marks)
    BY <1>1, <1>2 DEF NewBlock, Block
  <1> HIDE DEF n
  <1>4. TypeOK'
    BY <1>1, <1>3 DEF TypeOK, n
  <1>5. ASSUME NEW i \in 1 .. Len(marks)
        PROVE  AllocStart(align) >= marks[i].offset /\ offset' >= marks[i].offset
    BY <1>1, MarksBelowFloor DEF TypeOK
  <1>6. FloorIsLatestMark'
    BY <1>5 DEF FloorIsLatestMark, MarkOffset
  <1>7. MarksSeparate'
    BY <1>1, <1>2, <1>3, <1>5 DEF MarksSeparate, BlockStart, TypeOK, n
  <1>a. ASSUME NEW b \in S
          PROVE  b.addr \in Nat /\ b.size \in Nat /\ b.addr - data >= 0 /\ b.addr - data + b.size <= offset
    <2>1. b \in blocks
      BY <1>a
    <2> QED
      BY <2>1, BlockFields DEF RewindCutsNoBlock, BlockStart
  <1>b. offset \in Nat
    BY DEF TypeOK
  <1>8. RewindCutsNoBlock'
    <2> SUFFICES ASSUME NEW b \in blocks'
                 PROVE  b.addr - data >= 0 /\ b.addr - data + b.size <= offset'
      BY DEF RewindCutsNoBlock, BlockStart
    <2>1. CASE b = n
      BY <2>1, <1>1, <1>2, <1>3, <1>b
    <2>2. CASE b \in S
      BY <2>2, <1>1, <1>2, <1>a, <1>b
    <2> QED
      BY <2>1, <2>2 DEF n
  <1>9. \A b \in S : b.addr + b.size <= n.addr
    BY <1>1, <1>2, <1>3, <1>a, <1>b
  <1>10. LiveBlocksApart'
    BY <1>9 DEF LiveBlocksApart, n
  <1> QED
    BY <1>4, <1>6, <1>7, <1>8, <1>10

\* A block resized in place keeps IInv: grown, it was the last and none lies above it, and
\* the floor keeps it above every mark; otherwise it only shrank.
LEMMA ResizeKeeps ==
    ASSUME ArenaAssumption, IInv, NEW b \in blocks, NEW size \in Nat \ {0},
           ReallocInPlace(b, size)
    PROVE  IInv'
  <1> USE DEF IInv
  <1> DEFINE c == [b EXCEPT !.size = size]
  <1>1. /\ data # Null /\ data \in Nat /\ b \in Block /\ Len(marks) \in Nat
    BY DEF ArenaAssumption, TypeOK
  <1>2. /\ c \in Block /\ c.addr = b.addr /\ c.size = size /\ c.era = b.era
    BY <1>1 DEF Block
  <1> HIDE DEF c
  <1>3. BlockStart(b) \in Nat /\ BlockStart(b) + b.size <= offset
    BY <1>1 DEF RewindCutsNoBlock, BlockStart, Block
  <1>4. /\ offset' \in Nat
        /\ BlockStart(b) + size <= offset'
        /\ offset' <= cap
        /\ floor <= offset'
        /\ offset' # offset => IsLastBlock(b) /\ BlockStart(b) >= floor
        /\ size > b.size => IsLastBlock(b) /\ BlockStart(b) >= floor
    <2>1. ResizedOffset(b, size) # Null /\ offset' = ResizedOffset(b, size)
      BY DEF ReallocInPlace
    <2>2. CASE GrowsInPlace(b)
      <3>1. offset' = BlockStart(b) + size /\ offset' <= cap
        BY <2>1, <2>2, ResizePlaces
      <3>2. IsLastBlock(b) /\ BlockStart(b) >= floor
        BY <2>2 DEF GrowsInPlace
      <3> QED
        BY <3>1, <3>2, <1>3, ArenaFields
    <2>3. CASE ~GrowsInPlace(b)
      <3>1. offset' = offset /\ size <= b.size
        BY <2>1, <2>3, ResizePlaces
      <3> QED
        BY <3>1, <1>3, ArenaFields, BlockFields
    <2> QED
      BY <2>2, <2>3
  <1>5. UNCHANGED <<data, cap, floor, parent, lent, marks>>
        /\ blocks' = (blocks \ {b}) \cup {c}
    BY DEF ReallocInPlace, c
  <1>6. TypeOK'
    BY <1>1, <1>2, <1>4, <1>5 DEF TypeOK
  \* below every other block, if it is the last
  <1>7. ASSUME NEW d \in blocks, d # b, IsLastBlock(b) PROVE d.addr + d.size <= b.addr
    <2>1. d.addr + d.size <= data + offset
      <3>1. d.addr - data + d.size <= offset
        BY <1>7 DEF RewindCutsNoBlock, BlockStart
      <3> QED
        BY <3>1, <1>1, <1>7, BlockFields, ArenaFields
    <2>2. b.addr + b.size = data + offset
      <3>1. b.addr - data + b.size = offset
        BY <1>7 DEF IsLastBlock, BlockStart
      <3> QED
        BY <3>1, <1>1, BlockFields, ArenaFields
    <2>3. d.addr + d.size <= b.addr \/ b.addr + b.size <= d.addr
      BY <1>7 DEF LiveBlocksApart
    <2> QED
      BY <2>1, <2>2, <2>3, <1>1, <1>7, BlockFields, ArenaFields
  \* a block that starts at the floor is younger than every mark
  <1>8. ASSUME NEW i \in 1 .. Len(marks) PROVE marks[i].offset \in Nat /\ marks[i].offset <= floor
    BY MarksBelowFloor
  <1>9. ASSUME NEW i \in 1 .. Len(marks), b.era < i, BlockStart(b) >= floor
        PROVE  FALSE
    <2>1. BlockStart(b) + b.size <= marks[i].offset
      BY <1>9 DEF MarksSeparate
    <2> QED
      BY <2>1, <1>3, <1>8, <1>9, BlockFields, ArenaFields
  <1>10. FloorIsLatestMark'
    <2>1. \A i \in 1 .. Len(marks) : marks[i].offset <= offset'
      BY <1>4, <1>8, ArenaFields
    <2> QED
      BY <2>1, <1>5 DEF FloorIsLatestMark, MarkOffset
  <1>11. MarksSeparate'
    <2> SUFFICES ASSUME NEW d \in blocks'
                 PROVE  /\ d.era <= Len(marks)
                        /\ \A i \in 1 .. Len(marks) :
                              IF d.era < i THEN d.addr - data + d.size <= marks[i].offset
                                           ELSE d.addr - data >= marks[i].offset
      BY <1>5 DEF MarksSeparate, BlockStart
    <2>1. CASE d # c
      BY <2>1, <1>5 DEF MarksSeparate, BlockStart
    <2>2. /\ b.era \in Nat /\ b.era <= Len(marks)
          /\ \A i \in 1 .. Len(marks) :
                IF b.era < i THEN BlockStart(b) + b.size <= marks[i].offset
                             ELSE BlockStart(b) >= marks[i].offset
      BY BlockFields DEF MarksSeparate
    <2>3. CASE d = c /\ size > b.size
      <3>1. BlockStart(b) >= floor
        BY <2>3, <1>4
      <3>2. \A i \in 1 .. Len(marks) : ~(b.era < i)
        BY <3>1, <1>9
      <3> QED
        BY <2>2, <2>3, <3>2, <1>2 DEF BlockStart
    <2>4. CASE d = c /\ size <= b.size
      <3>1. ASSUME NEW i \in 1 .. Len(marks), b.era < i
            PROVE  BlockStart(b) + size <= marks[i].offset
        BY <2>2, <2>4, <3>1, <1>3, <1>8, BlockFields
      <3> QED
        BY <2>2, <2>4, <3>1, <1>2 DEF BlockStart
    <2> QED
      BY <2>1, <2>3, <2>4, BlockFields
  <1>12. RewindCutsNoBlock'
    <2> SUFFICES ASSUME NEW d \in blocks'
                 PROVE  d.addr - data >= 0 /\ d.addr - data + d.size <= offset'
      BY <1>5 DEF RewindCutsNoBlock, BlockStart
    <2>1. CASE d = c
      BY <2>1, <1>2, <1>3, <1>4 DEF BlockStart
    <2>2. CASE d # c /\ offset' = offset
      BY <2>2, <1>5 DEF RewindCutsNoBlock, BlockStart
    <2>3. CASE d # c /\ offset' # offset
      <3>1. d \in blocks /\ d # b /\ IsLastBlock(b)
        BY <2>3, <1>4, <1>5
      <3>2. d.addr + d.size <= b.addr /\ d.addr - data >= 0
        BY <3>1, <1>7 DEF RewindCutsNoBlock, BlockStart
      <3>3. b.addr - data + size <= offset'
        BY <1>4 DEF BlockStart
      <3> QED
        BY <3>1, <3>2, <3>3, <1>1, <1>4, BlockFields
    <2> QED
      BY <2>1, <2>2, <2>3
  <1>13. ASSUME NEW d \in blocks, d # b
         PROVE  d.addr + d.size <= b.addr \/ b.addr + size <= d.addr
    <2>1. CASE size > b.size
      BY <2>1, <1>4, <1>7, <1>13
    <2>2. CASE size <= b.size
      <3>1. d.addr + d.size <= b.addr \/ b.addr + b.size <= d.addr
        BY <1>13 DEF LiveBlocksApart
      <3> QED
        BY <2>2, <3>1, <1>13, BlockFields
    <2> QED
      BY <2>1, <2>2, BlockFields
  <1>14. LiveBlocksApart'
    BY <1>2, <1>5, <1>13 DEF LiveBlocksApart
  <1> QED
    BY <1>6, <1>10, <1>11, <1>12, <1>14

\* Giving up one block, or all of them with the marks, takes nothing IInv speaks of.
LEMMA TakeBackKeeps ==
    ASSUME ArenaAssumption, IInv,
           \/ \E b \in blocks : tda_dealloc(b)
           \/ tda_arena_reset
           \/ tda_arena_deinit
    PROVE  IInv'
  <1> USE DEF IInv
  <1>1. CASE \E b \in blocks : tda_dealloc(b)
    BY <1>1 DEF tda_dealloc, TypeOK, FloorIsLatestMark, MarkOffset, MarksSeparate,
                RewindCutsNoBlock, LiveBlocksApart, BlockStart
  <1>2. ASSUME marks' = <<>>, blocks' = {}, floor' = 0, TypeOK'
        PROVE  IInv'
    BY <1>2 DEF FloorIsLatestMark, MarkOffset, MarksSeparate, RewindCutsNoBlock, LiveBlocksApart
  <1>3. CASE tda_arena_reset
    <2>1. TypeOK'
      BY <1>3 DEF tda_arena_reset, TypeOK
    <2> QED
      BY <1>2, <1>3, <2>1 DEF tda_arena_reset
  <1>4. CASE tda_arena_deinit
    <2>1. parent' \in BOOLEAN
      BY <1>4, Zenon DEF tda_arena_deinit
    <2>2. TypeOK'
      BY <1>4, <2>1, SMT DEF tda_arena_deinit, TypeOK
    <2> QED
      BY <1>2, <1>4, <2>2 DEF tda_arena_deinit
  <1> QED
    BY <1>1, <1>3, <1>4

\* A fresh arena has no marks and no blocks, like the inert one it replaces.
LEMMA FillKeeps ==
    ASSUME ArenaAssumption, IInv, NEW base \in Bases, NEW c \in Caps, NEW p \in BOOLEAN,
           Fill(base, c, p)
    PROVE  IInv'
  <1>1. marks' = <<>> /\ blocks' = {} /\ floor' = 0
    BY DEF Fill, IInv, TypeOK
  <1>2. parent' \in BOOLEAN
    BY Zenon DEF Fill
  <1>3. TypeOK'
    BY <1>1, <1>2, SMT DEF Fill, TypeOK, ArenaAssumption
  <1> QED
    BY <1>1, <1>3 DEF IInv, FloorIsLatestMark, MarkOffset, MarksSeparate, RewindCutsNoBlock,
                      LiveBlocksApart

\* A new mark lies at the offset, above every block and every older mark.
LEMMA MarkKeeps ==
    ASSUME ArenaAssumption, IInv, tda_arena_mark
    PROVE  IInv'
  <1> USE DEF IInv
  <1> DEFINE m == [offset |-> offset, floor |-> floor]
             n == Len(marks)
             At(k) == IF k = 0 THEN 0 ELSE marks'[k].offset
  <1>1. m \in Mark /\ n \in Nat /\ marks' = Append(marks, m)
    BY DEF tda_arena_mark, TypeOK, Mark
  <1>2. /\ marks' \in Seq(Mark) /\ Len(marks') = n + 1
        /\ marks'[n + 1] = m
        /\ \A i \in 1 .. n : marks'[i] = marks[i]
    BY <1>1 DEF TypeOK
  <1>3. TypeOK'
    BY <1>2 DEF tda_arena_mark, TypeOK
  <1>4. FloorIsLatestMark'
    <2>1. floor' = offset /\ offset' = offset /\ offset \in Nat
      BY DEF tda_arena_mark, TypeOK
    <2>2. ASSUME NEW i \in 1 .. n
          PROVE  /\ marks'[i].floor = At(i - 1)
                 /\ marks'[i].offset <= offset'
                 /\ \A j \in 1 .. i : marks'[j].offset <= marks'[i].offset
      BY <1>1, <1>2, <2>1 DEF FloorIsLatestMark, MarkOffset
    <2>3. marks'[n + 1].floor = At(n)
      BY <1>1, <1>2 DEF FloorIsLatestMark, MarkOffset
    <2>4. \A j \in 1 .. n + 1 : marks'[j].offset <= offset
      BY <1>1, <1>2, <2>1, MarksBelowFloor
    <2>5. marks'[n + 1].offset = offset
      BY <1>2
    <2>6. ASSUME NEW i \in 1 .. n + 1
          PROVE  /\ marks'[i].floor = At(i - 1)
                 /\ marks'[i].offset <= offset'
                 /\ \A j \in 1 .. i : marks'[j].offset <= marks'[i].offset
      <3>1. CASE i \in 1 .. n
        BY <3>1, <2>2
      <3>2. CASE i = n + 1
        BY <3>2, <2>1, <2>3, <2>4, <2>5, <1>1
      <3> QED
        BY <3>1, <3>2, <1>1
    <2>7. floor' = At(n + 1)
      BY <2>1, <2>5, <1>1
    <2> QED
      BY <1>2, <2>6, <2>7 DEF FloorIsLatestMark, MarkOffset
  <1>5. MarksSeparate'
    <2> SUFFICES ASSUME NEW b \in blocks
                 PROVE  /\ b.era <= n + 1
                        /\ \A i \in 1 .. n + 1 :
                              IF b.era < i THEN BlockStart(b) + b.size <= marks'[i].offset
                                           ELSE BlockStart(b) >= marks'[i].offset
      BY <1>2 DEF MarksSeparate, BlockStart, tda_arena_mark
    <2>1. b.era \in Nat /\ b.era <= n
      BY BlockFields DEF MarksSeparate
    <2>2. BlockStart(b) + b.size <= offset
      BY DEF RewindCutsNoBlock
    <2> QED
      BY <1>1, <1>2, <2>1, <2>2 DEF MarksSeparate
  <1> QED
    BY <1>3, <1>4, <1>5 DEF tda_arena_mark, RewindCutsNoBlock, LiveBlocksApart, BlockStart

\* Rewinding the i-th mark keeps the blocks older than it, which MarksSeparate puts under
\* it, and the floor it saved, which FloorIsLatestMark makes the mark before it.
LEMMA RewindKeeps ==
    ASSUME ArenaAssumption, ~ReuseMarks, IInv,
           NEW i \in 1 .. Len(marks), tda_arena_rewind(i)
    PROVE  IInv'
  <1> USE DEF IInv
  <1> DEFINE n == Len(marks)
  <1>1. n \in Nat /\ i \in Nat /\ i - 1 \in 0 .. n
    BY DEF TypeOK
  <1>2. marks' = SubSeq(marks, 1, i - 1)
    BY DEF tda_arena_rewind
  <1>3. /\ marks' \in Seq(Mark) /\ Len(marks') = i - 1
        /\ \A j \in 1 .. i - 1 : marks'[j] = marks[j] /\ j \in 1 .. n
    BY <1>1, <1>2 DEF TypeOK
  <1>4. /\ offset' = marks[i].offset /\ floor' = marks[i].floor
        /\ offset' \in Nat /\ floor' \in Nat
        /\ offset' <= offset
    BY MarksBelowFloor DEF tda_arena_rewind
  <1>5. \A j \in 1 .. i - 1 : marks[j].offset <= offset'
    BY <1>1, <1>4 DEF FloorIsLatestMark
  <1>6. floor' = IF i = 1 THEN 0 ELSE marks[i - 1].offset
    BY <1>1, <1>4 DEF FloorIsLatestMark, MarkOffset
  <1>7. floor' <= offset'
    BY <1>1, <1>4, <1>5, <1>6
  <1>8. data # Null
    BY <1>1 DEF TypeOK
  <1>9. TypeOK'
    BY <1>3, <1>4, <1>7, <1>8 DEF tda_arena_rewind, TypeOK
  <1>10. FloorIsLatestMark'
    <2>1. floor' = MarkOffset(i - 1)'
      BY <1>1, <1>3, <1>6 DEF MarkOffset
    <2>2. ASSUME NEW j \in 1 .. i - 1
          PROVE  /\ marks'[j].floor = MarkOffset(j - 1)'
                 /\ marks'[j].offset <= offset'
                 /\ \A k \in 1 .. j : marks'[k].offset <= marks'[j].offset
      <3>1. j \in 1 .. n /\ j - 1 \in 0 .. i - 1 /\ \A k \in 1 .. j : k \in 1 .. i - 1
        BY <1>1
      <3>2. marks[j].floor = IF j - 1 = 0 THEN 0 ELSE marks[j - 1].offset
        BY <3>1 DEF FloorIsLatestMark, MarkOffset
      <3>3. \A k \in 1 .. j : marks[k].offset <= marks[j].offset
        BY <3>1 DEF FloorIsLatestMark
      <3>4. j - 1 # 0 => j - 1 \in 1 .. i - 1
        BY <1>1
      <3> QED
        BY <1>3, <1>5, <3>1, <3>2, <3>3, <3>4 DEF MarkOffset
    <2> QED
      BY <1>3, <2>1, <2>2 DEF FloorIsLatestMark
  <1>11. \A b \in blocks' : b \in blocks /\ b.era \in Nat /\ b.era < i
    BY BlockFields DEF tda_arena_rewind
  <1>12. data' = data
    BY DEF tda_arena_rewind
  <1>13. MarksSeparate'
    BY <1>1, <1>3, <1>11, <1>12 DEF MarksSeparate, BlockStart
  <1>14. RewindCutsNoBlock'
    BY <1>4, <1>11, <1>12 DEF MarksSeparate, RewindCutsNoBlock, BlockStart
  <1>15. LiveBlocksApart'
    BY <1>11 DEF LiveBlocksApart
  <1> QED
    BY <1>9, <1>10, <1>13, <1>14, <1>15

\* Every step keeps IInv, as long as no mark is rewound twice.
LEMMA NextKeeps ==
    ASSUME ArenaAssumption, ~ReuseMarks, IInv, [Next]_vars
    PROVE  IInv'
  <1>1. CASE \E base \in Bases, c \in Caps : tda_arena_init_cap(base, c)
    BY <1>1, FillKeeps DEF tda_arena_init_cap
  <1>2. CASE \E base \in Bases, c \in Caps : tda_arena_init_buf(base, c)
    BY <1>2, FillKeeps DEF tda_arena_init_buf
  <1>3. CASE tda_arena_deinit \/ tda_arena_reset \/ \E b \in blocks : tda_dealloc(b)
    BY <1>3, TakeBackKeeps
  <1>4. ASSUME NEW size \in Sizes, NEW align \in Aligns, tda_alloc(size, align)
        PROVE  IInv'
    <2>1. size \in Nat \ {0} /\ align \in Nat \ {0}
      BY DEF ArenaAssumption
    <2> QED
      BY <1>4, <2>1, PlaceKeeps DEF tda_alloc
  <1>5. ASSUME NEW b \in blocks, NEW size \in Sizes, ReallocInPlace(b, size)
        PROVE  IInv'
    BY <1>5, ResizeKeeps DEF ArenaAssumption
  <1>6. ASSUME NEW b \in blocks, NEW size \in Sizes, ReallocMoves(b, size)
        PROVE  IInv'
    <2>1. size \in Nat \ {0} /\ b.align \in Nat \ {0} /\ data # Null
      BY BlockFields DEF ArenaAssumption, IInv, TypeOK
    <2>2. blocks \ {b} \subseteq blocks
      OBVIOUS
    <2> QED
      BY <1>6, <2>1, <2>2, PlaceKeeps DEF ReallocMoves
  <1>7. CASE tda_arena_mark
    BY <1>7, MarkKeeps
  <1>8. ASSUME NEW i \in 1 .. Len(marks), tda_arena_rewind(i)
        PROVE  IInv'
    BY <1>8, RewindKeeps
  <1>9. CASE UNCHANGED vars
    BY <1>9 DEF vars, IInv, TypeOK, FloorIsLatestMark, MarkOffset, MarksSeparate,
                RewindCutsNoBlock, LiveBlocksApart, BlockStart
  <1> QED
    BY <1>1, <1>2, <1>3, <1>4, <1>5, <1>6, <1>7, <1>8, <1>9 DEF Next, tda_realloc

\* The arena's inductive invariant holds in every reachable state.
THEOREM ArenaInvariant == ASSUME ~ReuseMarks PROVE Spec => []IInv
  <1>1. Init => IInv
    BY InitIInv, ArenaAssumption
  <1>2. IInv /\ [Next]_vars => IInv'
    BY NextKeeps, ArenaAssumption
  <1> QED
    BY <1>1, <1>2, PTL DEF Spec

\* What ASSERT_ARENA checks on every entry of arena.c holds whenever it is checked.
THEOREM ArenaTypeCorrect == ASSUME ~ReuseMarks PROVE Spec => []TypeOK
  <1>1. IInv => TypeOK
    BY DEF IInv
  <1> QED
    BY <1>1, ArenaInvariant, PTL

\* A rewind never hands out again the tail of a block that outlives the mark (arena_resize
\* and the floor), whatever the sizes, alignments and the nesting of the marks.
THEOREM ArenaRewindSafe == ASSUME ~ReuseMarks PROVE Spec => []RewindCutsNoBlock
  <1>1. IInv => RewindCutsNoBlock
    BY DEF IInv
  <1> QED
    BY <1>1, ArenaInvariant, PTL

\* No two live blocks of the arena share a byte.
THEOREM ArenaBlocksApart == ASSUME ~ReuseMarks PROVE Spec => []LiveBlocksApart
  <1>1. IInv => LiveBlocksApart
    BY DEF IInv
  <1> QED
    BY <1>1, ArenaInvariant, PTL

-----------------------------------------------------------------------------
(* What the parent has out.  Inductive as it stands, and whatever a caller  *)
(* does with its marks: only init_cap and deinit touch it.                  *)

\* A fresh arena holds just what it asked its parent for.
LEMMA FillOwes ==
    ASSUME ArenaAssumption, ParentIsOwed, NEW base \in Bases, NEW c \in Caps,
           tda_arena_init_cap(base, c) \/ tda_arena_init_buf(base, c)
    PROVE  ParentIsOwed'
  <1>1. lent = {} /\ data' = base /\ cap' = c /\ base # Null
    BY DEF ArenaAssumption, ParentIsOwed, tda_arena_init_cap, tda_arena_init_buf, Fill
  <1>2. CASE tda_arena_init_cap(base, c)
    BY <1>1, <1>2 DEF tda_arena_init_cap, Fill, ParentIsOwed, ParentBlock
  <1>3. CASE tda_arena_init_buf(base, c)
    BY <1>1, <1>3 DEF tda_arena_init_buf, Fill, ParentIsOwed
  <1> QED
    BY <1>2, <1>3

\* deinit leaves nothing out.
LEMMA DeinitOwes == ASSUME ParentIsOwed, tda_arena_deinit PROVE ParentIsOwed'
  BY DEF ParentIsOwed, tda_arena_deinit, LentAfter

\* The parent has out just the block of a live arena made by init_cap (tda_arena_deinit),
\* under any use of the marks.
THEOREM ArenaParentIsOwed == Spec => []ParentIsOwed
  <1>1. Init => ParentIsOwed
    BY DEF Init, ParentIsOwed
  <1>2. ASSUME ParentIsOwed, [Next]_vars PROVE ParentIsOwed'
    <2>1. CASE UNCHANGED <<data, cap, parent, lent>>
      BY <1>2, <2>1 DEF ParentIsOwed, ParentBlock
    <2> QED
      BY <1>2, <2>1, FillOwes, DeinitOwes, ArenaAssumption
         DEF Next, vars, tda_alloc, tda_dealloc, tda_realloc, ReallocInPlace, ReallocMoves,
             tda_arena_reset, tda_arena_mark, tda_arena_rewind
  <1> QED
    BY <1>1, <1>2, PTL DEF Spec

-----------------------------------------------------------------------------
(* The arena implements the abstract allocator.                             *)

\* A new block is on its alignment.
LEMMA NewBlockAligned ==
    ASSUME ArenaAssumption, TypeOK, data # Null,
           NEW size \in Nat \ {0}, NEW align \in Nat \ {0}, AllocEnd(size, align) # Null
    PROVE  NewBlock(size, align).addr % align = 0
  <1>1. data \in Nat /\ data + offset \in Nat
    BY DEF ArenaAssumption, TypeOK
  <1>2. AlignPad(data + offset, align) \in Nat
    BY <1>1, AlignPadNat
  <1>3. data + AllocStart(align) = (data + offset) + AlignPad(data + offset, align)
    BY <1>1, <1>2 DEF AllocEnd, AllocStart, CkdAdd, TypeOK
  <1> QED
    BY <1>1, <1>3, AlignPadLands DEF NewBlock

\* The blocks stay on their alignments: a new one by AlignPad, a resized one in its place.
LEMMA AlignedKeeps ==
    ASSUME ArenaAssumption, IInv, LiveBlocksAligned, [Next]_vars
    PROVE  LiveBlocksAligned'
  <1>1. ASSUME NEW size \in Sizes, NEW align \in Aligns, tda_alloc(size, align)
        PROVE  LiveBlocksAligned'
    <2>1. size \in Nat \ {0} /\ align \in Nat \ {0} /\ data # Null
      BY <1>1 DEF ArenaAssumption, tda_alloc
    <2>2. NewBlock(size, align).addr % align = 0 /\ NewBlock(size, align).align = align
      BY <1>1, <2>1, NewBlockAligned DEF tda_alloc, IInv, NewBlock
    <2> QED
      BY <1>1, <2>2 DEF tda_alloc, LiveBlocksAligned
  <1>2. ASSUME NEW b \in blocks, NEW size \in Sizes, ReallocInPlace(b, size)
        PROVE  LiveBlocksAligned'
    <2> DEFINE c == [b EXCEPT !.size = size]
    <2>1. c.addr = b.addr /\ c.align = b.align
      BY DEF IInv, TypeOK, Block
    <2> QED
      BY <1>2, <2>1 DEF ReallocInPlace, LiveBlocksAligned
  <1>3. ASSUME NEW b \in blocks, NEW size \in Sizes, ReallocMoves(b, size)
        PROVE  LiveBlocksAligned'
    <2>1. size \in Nat \ {0} /\ b.align \in Nat \ {0} /\ data # Null
      BY BlockFields DEF ArenaAssumption, IInv, TypeOK
    <2>2. NewBlock(size, b.align).addr % b.align = 0 /\ NewBlock(size, b.align).align = b.align
      BY <1>3, <2>1, NewBlockAligned DEF ReallocMoves, IInv, NewBlock
    <2> QED
      BY <1>3, <2>2 DEF ReallocMoves, LiveBlocksAligned
  <1>4. CASE blocks' \subseteq blocks
    BY <1>4 DEF LiveBlocksAligned
  <1> QED
    BY <1>1, <1>2, <1>3, <1>4 DEF Next, vars, tda_realloc, tda_arena_init_cap,
       tda_arena_init_buf, Fill, tda_arena_deinit, tda_dealloc, tda_arena_reset,
       tda_arena_mark, tda_arena_rewind

\* Every block of the arena is on the alignment it was asked with.
THEOREM ArenaBlocksAligned == ASSUME ~ReuseMarks PROVE Spec => []LiveBlocksAligned
  <1>1. Init => LiveBlocksAligned
    BY DEF Init, LiveBlocksAligned
  <1>2. IInv /\ LiveBlocksAligned /\ [Next]_vars => LiveBlocksAligned'
    BY AlignedKeeps, ArenaAssumption
  <1> QED
    BY <1>1, <1>2, ArenaInvariant, PTL DEF Spec

\* A block as the client of tda_Al sees it.
Seen(b) == [addr |-> b.addr, size |-> b.size, align |-> b.align]

\* Distinct live blocks look distinct: they have bytes and do not share them.
LEMMA SeenInjective ==
    ASSUME IInv, NEW b \in blocks, NEW c \in blocks, Seen(b) = Seen(c)
    PROVE  b = c
  <1>1. b.addr = c.addr /\ b.size = c.size
    BY DEF Seen
  <1> QED
    BY <1>1, BlockFields DEF IInv, LiveBlocksApart

\* A block the arena places fits beside every live block.
LEMMA PlacedFits ==
    ASSUME ArenaAssumption, IInv, data # Null,
           NEW size \in Nat \ {0}, NEW align \in Nat \ {0}, AllocEnd(size, align) # Null
    PROVE  /\ AllocatorSpec!Fits(Seen(NewBlock(size, align)), Live)
           /\ Seen(NewBlock(size, align)) \notin Live
  <1> DEFINE n == Seen(NewBlock(size, align))
  <1>1. n.addr = data + AllocStart(align) /\ n.size = size /\ n.align = align
    BY DEF Seen, NewBlock
  <1>2. n.addr % n.align = 0
    BY <1>1, NewBlockAligned DEF IInv, NewBlock
  <1>3. data \in Nat /\ AllocStart(align) \in Nat /\ AllocStart(align) >= offset
    BY AllocPlaces DEF ArenaAssumption, IInv, TypeOK
  <1>4. ASSUME NEW b \in blocks PROVE b.addr + b.size <= n.addr /\ Seen(b) # n
    <2>1. b.addr + b.size <= n.addr
      BY <1>1, <1>3, BlockFields DEF IInv, RewindCutsNoBlock, BlockStart, TypeOK
    <2>2. Seen(b).addr = b.addr
      BY DEF Seen
    <2> QED
      BY <1>1, <1>3, <2>1, <2>2, BlockFields DEF IInv
  <1>5. \A c \in Live : AllocatorSpec!Apart(n, c)
    BY <1>4 DEF Live, AllocatorSpec!Apart
  <1>6. n \notin Live
    BY <1>4 DEF Live, Seen
  <1> QED
    BY <1>1, <1>2, <1>5, <1>6 DEF AllocatorSpec!Fits

\* tda_alloc is a give.
LEMMA AllocGives ==
    ASSUME ArenaAssumption, IInv, NEW size \in Sizes, NEW align \in Aligns, tda_alloc(size, align)
    PROVE  AllocatorSpec!Give
  <1> DEFINE n == Seen(NewBlock(size, align))
  <1>1. AllocatorSpec!Fits(n, Live) /\ n \notin Live
    BY PlacedFits DEF ArenaAssumption, tda_alloc
  <1>2. Live' = Live \cup {n}
    BY DEF tda_alloc, Live, Seen
  <1> QED
    BY <1>1, <1>2 DEF AllocatorSpec!Give

\* tda_realloc that moves is a move.
LEMMA ReallocMoved ==
    ASSUME ArenaAssumption, IInv, NEW b \in blocks, NEW size \in Sizes, ReallocMoves(b, size)
    PROVE  AllocatorSpec!Move
  <1> DEFINE n == Seen(NewBlock(size, b.align))
  <1>1. size \in Nat \ {0} /\ b.align \in Nat \ {0} /\ data # Null
    BY BlockFields DEF ArenaAssumption, IInv, TypeOK
  <1>2. AllocatorSpec!Fits(n, Live) /\ n \notin Live
    BY <1>1, PlacedFits DEF ReallocMoves
  <1>3. Live' = (Live \ {Seen(b)}) \cup {n}
    <2>1. blocks' = (blocks \ {b}) \cup {NewBlock(size, b.align)}
      BY DEF ReallocMoves
    <2>2. \A c \in blocks : Seen(c) = Seen(b) <=> c = b
      BY SeenInjective
    <2> QED
      BY <2>1, <2>2 DEF Live, Seen
  <1>4. Seen(b) \in Live /\ n.align = Seen(b).align
    BY DEF Live, Seen, NewBlock
  <1> QED
    BY <1>2, <1>3, <1>4 DEF AllocatorSpec!Move

\* tda_realloc in place is a resize.
LEMMA ReallocResized ==
    ASSUME ArenaAssumption, IInv, LiveBlocksAligned, NEW b \in blocks, NEW size \in Sizes,
           ReallocInPlace(b, size)
    PROVE  AllocatorSpec!Resize
  <1> DEFINE d == [b EXCEPT !.size = size]
             n == Seen(d)
  <1>1. size \in Nat \ {0} /\ b \in Block
    BY DEF ArenaAssumption, IInv, TypeOK
  <1>2. n.addr = b.addr /\ n.align = b.align /\ n.size = size
    BY <1>1 DEF Seen, Block
  <1>3. \A c \in blocks : Seen(c) = Seen(b) <=> c = b
    BY SeenInjective
  <1>4. blocks' = (blocks \ {b}) \cup {d}
    BY DEF ReallocInPlace
  <1>5. Live' = (Live \ {Seen(b)}) \cup {n}
    BY <1>3, <1>4 DEF Live, Seen
  <1>6. IInv'
    BY <1>1, ResizeKeeps
  <1>7. ASSUME NEW c \in blocks, c # b
        PROVE  d.addr + d.size <= c.addr \/ c.addr + c.size <= d.addr
    <2>1. d \in blocks' /\ c \in blocks'
      BY <1>4, <1>7
    <2>2. CASE c # d
      BY <1>6, <2>1, <2>2 DEF IInv, LiveBlocksApart
    <2>3. CASE c = d
      <3>1. c.addr = b.addr
        BY <2>3, <1>1 DEF Block
      <3> QED
        BY <3>1, <1>7, BlockFields DEF IInv, LiveBlocksApart
    <2> QED
      BY <2>2, <2>3
  <1>8. \A c \in Live \ {Seen(b)} : AllocatorSpec!Apart(n, c)
    BY <1>7 DEF Live, Seen, AllocatorSpec!Apart
  <1>9. n.addr % n.align = 0 /\ n.size > 0
    BY <1>1, <1>2 DEF LiveBlocksAligned
  <1>10. Seen(b) \in Live /\ Seen(b).addr = b.addr /\ Seen(b).align = b.align
    BY DEF Live, Seen
  <1> QED
    BY <1>2, <1>5, <1>8, <1>9, <1>10 DEF AllocatorSpec!Resize, AllocatorSpec!Fits

\* Every arena keeps the hook contract of alloc.h: it is an abstract allocator.
THEOREM ArenaImplementsAllocator == ASSUME ~ReuseMarks PROVE Spec => ImplementsAllocator
  <1>1. Init => AllocatorSpec!Init
    BY DEF Init, AllocatorSpec!Init, Live
  <1>2. ASSUME IInv, LiveBlocksAligned, [Next]_vars
        PROVE  [AllocatorSpec!Next]_Live
    <2>1. CASE blocks' \subseteq blocks
      BY <2>1 DEF Live, AllocatorSpec!Next, AllocatorSpec!TakeBack
    <2> QED
      BY <1>2, <2>1, AllocGives, ReallocMoved, ReallocResized, ArenaAssumption
         DEF Next, vars, tda_realloc, tda_arena_init_cap, tda_arena_init_buf, Fill,
             tda_arena_deinit, tda_dealloc, tda_arena_reset, tda_arena_mark,
             tda_arena_rewind, AllocatorSpec!Next
  <1> QED
    BY <1>1, <1>2, ArenaInvariant, ArenaBlocksAligned, PTL
       DEF Spec, ImplementsAllocator, AllocatorSpec!Spec
=============================================================================
