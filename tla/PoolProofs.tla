----------------------------- MODULE PoolProofs -----------------------------
(***************************************************************************)
(* Proofs about the pool, for every size of a block, every number of        *)
(* blocks, every region and every order of frees; then about the pool that  *)
(* takes its array from the log over libc beside other callers, for every   *)
(* heap, every alignment of max_align_t and every set of requests.          *)
(***************************************************************************)
EXTENDS PoolOnLog, LayoutProofs

-----------------------------------------------------------------------------
(* The slots of a pool's array.                                             *)

\* Slots with different numbers are different.
LEMMA SlotInjective ==
    ASSUME NEW base \in Nat, NEW size \in Nat \ {0}, NEW i \in Nat, NEW j \in Nat,
           base + size * i = base + size * j
    PROVE  i = j
  <1>1. size * i \in Nat /\ size * j \in Nat
    OBVIOUS
  <1>2. CASE i < j
    BY <1>1, <1>2, SlotsApart
  <1>3. CASE j < i
    BY <1>1, <1>3, SlotsApart
  <1> QED
    BY <1>2, <1>3

\* The slots of an array: numbered, and a whole slot apart.
LEMMA ArraySlots ==
    ASSUME NEW base \in Nat, NEW size \in Nat \ {0}, NEW count \in Nat,
           NEW a \in ArrayOf(base, size, count)
    PROVE  /\ a \in Nat /\ a >= base /\ a + size <= base + size * count
           /\ (a - base) % size = 0
           /\ \A c \in ArrayOf(base, size, count) : a # c => a + size <= c \/ c + size <= a
  <1>1. PICK i \in 0 .. count - 1 : a = base + size * i
    BY DEF ArrayOf
  <1>2. i \in Nat /\ i < count /\ size * i \in Nat
    OBVIOUS
  <1>3. size * i + size <= size * count
    BY <1>2, SlotsApart
  <1>4. (size * i) % size = 0
    BY MultipleMod
  <1>5. ASSUME NEW c \in ArrayOf(base, size, count), a # c
        PROVE  a + size <= c \/ c + size <= a
    <2>1. PICK j \in 0 .. count - 1 : c = base + size * j
      BY DEF ArrayOf
    <2>2. j \in Nat /\ size * j \in Nat /\ i # j
      BY <1>1, <1>5, <2>1
    <2>3. CASE i < j
      BY <1>1, <1>2, <2>1, <2>2, <2>3, SlotsApart
    <2>4. CASE j < i
      BY <1>1, <1>2, <2>1, <2>2, <2>4, SlotsApart
    <2> QED
      BY <1>2, <2>2, <2>3, <2>4
  <1>6. size * count \in Nat
    OBVIOUS
  <1> QED
    BY <1>1, <1>2, <1>3, <1>4, <1>5, <1>6

\* Past a slot lies the next one, except past the last (build_free_list).
LEMMA SlotAfter ==
    ASSUME NEW base \in Nat, NEW size \in Nat \ {0}, NEW count \in Nat, NEW i \in 0 .. count - 1
    PROVE  /\ (base + size * i) + size = base + size * (i + 1)
           /\ (base + size * i) + size \in ArrayOf(base, size, count) <=> i + 1 < count
  <1>1. (base + size * i) + size = base + size * (i + 1)
    OBVIOUS
  <1>2. CASE i + 1 < count
    BY <1>1, <1>2 DEF ArrayOf
  <1>3. ASSUME base + size * (i + 1) \in ArrayOf(base, size, count)
        PROVE  i + 1 < count
    <2>1. PICK j \in 0 .. count - 1 : base + size * (i + 1) = base + size * j
      BY <1>3 DEF ArrayOf
    <2>2. i + 1 = j
      BY <2>1, SlotInjective
    <2> QED
      BY <2>2
  <1> QED
    BY <1>1, <1>2, <1>3

-----------------------------------------------------------------------------
(* The inductive invariant.                                                 *)

\* the fields of a live pool, and of an inert one
Cut ==
    IF data = Null THEN block_count = 0
    ELSE block_size > 0 /\ block_align \in Aligns \cup {PtrAlign}

\* the blocks held: as many as 'used', one to a slot, each within its slot
HeldExact ==
    /\ IsFiniteSet(blocks) /\ used = Cardinality(blocks)
    /\ \A b \in blocks : b.size <= block_size /\ b.align \in Aligns
    /\ \A b, c \in blocks : b.addr = c.addr => b = c

\* PoolSound alone is not inductive: that 'used' stays above zero while a block is held, and
\* that a block given back is not still held by another, needs HeldExact.
PoolInv == PoolSound /\ Cut /\ HeldExact

\* A block of the array.
LEMMA InArray ==
    ASSUME PoolAssumption, TypeOK, Cut, NEW a \in Array
    PROVE  /\ data \in Nat /\ block_size \in Nat \ {0} /\ block_count \in Nat
           /\ a \in Nat /\ a # Null
           /\ OwnsBlock(a)
           /\ \A c \in Array : a # c => a + block_size <= c \/ c + block_size <= a
  <1>1. data # Null
    BY DEF Array, ArrayOf, Cut
  <1>2. data \in Nat /\ block_size \in Nat \ {0} /\ block_count \in Nat
    BY <1>1 DEF TypeOK, Cut
  <1>3. block_size * block_count \in Nat
    BY <1>2
  <1> QED
    BY <1>2, <1>3, ArraySlots DEF Array, OwnsBlock, PoolAssumption

\* A freshly threaded list is exact (build_free_list, reached from both inits and reset).
LEMMA FreshListExact ==
    ASSUME PoolAssumption, NEW base \in Nat, NEW size \in Nat \ {0}, NEW n \in Nat \ {0},
           data' = base, block_size' = size, block_count' = n, used' = 0, blocks' = {},
           free_head' = base, link' = FreeList(base, size, n)
    PROVE  FreeListExact'
  <1> DEFINE s == [i \in 1 .. n |-> base + size * (i - 1)]
             A == ArrayOf(base, size, n)
  <1>1. A = Array' /\ Held' = {} /\ (tda_pool_stats.free)' = n
    BY DEF Array, Held, tda_pool_stats
  <1>2. s \in [1 .. n -> A]
    <2>1. \A i \in 1 .. n : i - 1 \in 0 .. n - 1
      OBVIOUS
    <2> QED
      BY <2>1 DEF ArrayOf
  <1>3. ASSUME NEW i \in 1 .. n, NEW j \in 1 .. n, s[i] = s[j] PROVE i = j
    <2>1. i - 1 \in Nat /\ j - 1 \in Nat
      OBVIOUS
    <2>2. base + size * (i - 1) = base + size * (j - 1)
      BY <1>3
    <2>3. i - 1 = j - 1
      BY <2>1, <2>2, SlotInjective, Zenon
    <2> QED
      BY <2>3
  <1>4. A \subseteq {s[i] : i \in 1 .. n}
    <2>1. ASSUME NEW a \in A PROVE \E i \in 1 .. n : a = s[i]
      <3>1. PICK k \in 0 .. n - 1 : a = base + size * k
        BY DEF ArrayOf
      <3>2. k + 1 \in 1 .. n /\ (k + 1) - 1 = k
        OBVIOUS
      <3> QED
        BY <3>1, <3>2
    <2> QED
      BY <2>1
  <1>5. n # 0 /\ 1 \in 1 .. n /\ s[1] = base
    OBVIOUS
  <1>6. ASSUME NEW i \in 1 .. n PROVE link'[s[i]] = IF i = n THEN Null ELSE s[i + 1]
    <2>1. i - 1 \in 0 .. n - 1 /\ (i - 1) + 1 = i
      OBVIOUS
    <2>2. s[i] \in A /\ s[i] = base + size * (i - 1)
      BY <1>2
    <2>3. link'[s[i]] = IF s[i] + size \in A THEN s[i] + size ELSE Null
      BY <2>2 DEF FreeList
    <2> HIDE DEF A, s
    <2>4. /\ (base + size * (i - 1)) + size = base + size * ((i - 1) + 1)
          /\ (base + size * (i - 1)) + size \in ArrayOf(base, size, n) <=> (i - 1) + 1 < n
      BY <2>1, SlotAfter, Zenon
    <2>5. i # n => i < n /\ i + 1 \in 1 .. n /\ s[i + 1] = base + size * i
      BY <2>1 DEF s
    <2> QED
      BY <2>1, <2>2, <2>3, <2>4, <2>5 DEF A
  <1>7. IsFreeList(s, n)'
    BY <1>1, <1>3, <1>4, <1>5, <1>6 DEF IsFreeList
  <1>8. Array' \ Held' = A
    BY <1>1
  <1> QED
    BY <1>1, <1>2, <1>7, <1>8 DEF FreeListExact

\* The block as the pool cuts it (ckd_block_layout): long enough for a link, on an alignment
\* that serves a link, and of a size that tiles.
LEMMA CkdBlockCuts ==
    ASSUME PoolAssumption, NEW size \in Nat \ {0}, NEW align \in Aligns,
           CkdBlock(size, align).size # Null
    PROVE  /\ CkdBlock(size, align).size \in Nat \ {0}
           /\ CkdBlock(size, align).size >= PtrSize
           /\ CkdBlock(size, align).size % CkdBlock(size, align).align = 0
           /\ CkdBlock(size, align).align \in Nat \ {0}
           /\ CkdBlock(size, align).align \in Aligns \cup {PtrAlign}
           /\ PtrAlign <= CkdBlock(size, align).align
  <1> DEFINE a == Larger(align, PtrAlign)
             v == Larger(size, PtrSize)
  <1>1. a \in Aligns \cup {PtrAlign} /\ a \in Nat \ {0} /\ PtrAlign <= a
    BY DEF PoolAssumption, Larger
  <1>2. v \in Nat /\ v >= PtrSize
    BY DEF PoolAssumption, Larger
  <1>3. CkdBlock(size, align).size = AlignCkdUp(v, a) /\ CkdBlock(size, align).align = a
    BY DEF CkdBlock
  <1> HIDE DEF a, v
  <1>4. /\ AlignCkdUp(v, a) \in Nat
        /\ AlignCkdUp(v, a) >= v
        /\ AlignCkdUp(v, a) % a = 0
    BY <1>1, <1>2, <1>3, AlignCkdUpCovers DEF PoolAssumption
  <1> QED
    BY <1>1, <1>2, <1>3, <1>4 DEF PoolAssumption

\* A pool filled over blocks that fit its region starts with the invariant.
LEMMA FillKeeps ==
    ASSUME PoolAssumption, PoolInv,
           NEW base \in Nat, NEW n \in Nat \ {0}, NEW p \in BOOLEAN, NEW b,
           b.size \in Nat \ {0}, b.size >= PtrSize, b.size % b.align = 0,
           b.align \in Nat \ {0}, b.align \in Aligns \cup {PtrAlign}, PtrAlign <= b.align,
           base % b.align = 0,
           Fill(base, b, n, p),
           NEW from \in Nat, NEW len \in Nat, region' = [addr |-> from, size |-> len],
           from <= base, base + b.size * n <= from + len,
           lent' = IF p THEN {[addr |-> base, size |-> b.size * n, align |-> b.align]} ELSE {}
    PROVE  PoolInv'
  <1>1. /\ data' = base /\ block_size' = b.size /\ block_align' = b.align
        /\ block_count' = n /\ parent' = p /\ used' = 0
        /\ link' = FreeList(base, b.size, n) /\ free_head' = base
    BY DEF Fill
  <1>2. blocks' = {}
    <2>1. data = Null /\ blocks' = blocks
      BY DEF Fill
    <2> QED
      BY <2>1 DEF PoolInv, PoolSound, TypeOK, Cut, Array, ArrayOf
  <1>3. Array' = ArrayOf(base, b.size, n)
    BY <1>1 DEF Array
  <1>4. TypeOK'
    <2>1. base \in ArrayOf(base, b.size, n)
      <3>1. 0 \in 0 .. n - 1 /\ base = base + b.size * 0
        OBVIOUS
      <3> QED
        BY <3>1 DEF ArrayOf
    <2>2. link' \in [Array' -> Array' \cup {Null, Garbage}]
      BY <1>1, <1>3 DEF FreeList
    <2>3. parent' \in BOOLEAN
      BY <1>1, Zenon
    <2>4. used' \in 0 .. block_count'
      BY <1>1
    <2> QED
      BY <1>1, <1>2, <1>3, <2>1, <2>2, <2>3, <2>4 DEF TypeOK
  <1>5. FreeListExact'
    BY <1>1, <1>2, FreshListExact
  <1>6. BlocksInRegion'
    <2>1. ASSUME NEW a \in Array'
          PROVE  /\ a % b.align = 0 /\ a % PtrAlign = 0
                 /\ a >= from /\ a + b.size <= from + len
      <3>1. PICK i \in 0 .. n - 1 : a = base + b.size * i
        BY <1>3 DEF ArrayOf
      <3>2. i \in Int /\ b.size \in Int /\ b.size * i \in Int /\ base \in Int
        OBVIOUS
      <3>3. (b.size * i) % b.align = 0
        BY <3>2, TimesMod, Zenon
      <3>4. a % b.align = 0
        BY <3>1, <3>2, <3>3, SumMod, Zenon
      <3>5. b.align % PtrAlign = 0 /\ PtrAlign \in Nat \ {0}
        BY AlignDivides DEF PoolAssumption
      <3>6. a \in Int
        BY <3>1
      <3>7. a % PtrAlign = 0
        BY <3>4, <3>5, <3>6, ModTrans, Zenon
      <3>8. a \in Nat /\ a >= base /\ a + b.size <= base + b.size * n
        BY <1>3, ArraySlots
      <3> QED
        BY <3>4, <3>7, <3>8
    <2>2. (region.addr)' = from /\ (region.size)' = len
      OBVIOUS
    <2> QED
      BY <1>1, <2>1, <2>2 DEF BlocksInRegion
  <1>7. ParentIsOwed'
    <2>1. base # Null
      BY DEF PoolAssumption
    <2> QED
      BY <1>1, <2>1 DEF ParentIsOwed, ArrayLayout
  <1>8. Cut'
    <2>1. base # Null
      BY DEF PoolAssumption
    <2> QED
      BY <1>1, <2>1 DEF Cut
  <1>9. HeldExact'
    BY <1>1, <1>2, FS_EmptySet DEF HeldExact
  <1> QED
    BY <1>4, <1>5, <1>6, <1>7, <1>8, <1>9 DEF PoolInv, PoolSound

\* tda_pool_init_cap: the product of the array is the one deinit works out again.
LEMMA InitCapKeeps ==
    ASSUME PoolAssumption, PoolInv, NEW base \in Bases, NEW count \in Counts,
           NEW size \in Sizes, NEW align \in Aligns, tda_pool_init_cap(base, count, size, align)
    PROVE  PoolInv'
  <1> DEFINE b == CkdBlock(size, align)
             l == LayoutCkdArray(b, count)
  <1>1. base \in Nat /\ count \in Nat \ {0} /\ size \in Nat \ {0}
    BY DEF PoolAssumption
  <1>2. b.size # Null /\ l # Null /\ base % l.align = 0 /\ Fill(base, b, count, TRUE)
        /\ region' = [addr |-> base, size |-> l.size]
        /\ lent' = lent \cup {[addr |-> base, size |-> l.size, align |-> l.align]}
    BY DEF tda_pool_init_cap
  <1>3. l.size = b.size * count /\ l.align = b.align
    BY <1>2 DEF LayoutCkdArray, CkdMul
  <1>4. /\ b.size \in Nat \ {0} /\ b.size >= PtrSize /\ b.size % b.align = 0
        /\ b.align \in Nat \ {0} /\ b.align \in Aligns \cup {PtrAlign} /\ PtrAlign <= b.align
    BY <1>1, <1>2, CkdBlockCuts
  <1> HIDE DEF b, l
  <1>5. lent = {}
    BY <1>2 DEF Fill, PoolInv, PoolSound, ParentIsOwed
  <1>6. l.size \in Nat
    BY <1>1, <1>3, <1>4
  <1>7. lent' = IF TRUE THEN {[addr |-> base, size |-> b.size * count, align |-> b.align]} ELSE {}
    BY <1>2, <1>3, <1>5
  <1>8. base <= base /\ base + b.size * count <= base + l.size /\ base % b.align = 0
    BY <1>1, <1>2, <1>3, <1>6
  <1> QED
    BY <1>1, <1>2, <1>4, <1>6, <1>7, <1>8, FillKeeps

\* tda_pool_init_buf: the blocks that fit past the padding stay within the buffer.
LEMMA InitBufKeeps ==
    ASSUME PoolAssumption, PoolInv, NEW base \in Bases, NEW c \in Caps,
           NEW size \in Sizes, NEW align \in Aligns, tda_pool_init_buf(base, c, size, align)
    PROVE  PoolInv'
  <1> DEFINE b == CkdBlock(size, align)
             pad == AlignPad(base, b.align)
             n == BufCount(base, c, b)
  <1>1. base \in Nat /\ c \in Nat \ {0} /\ size \in Nat \ {0}
    BY DEF PoolAssumption
  <1>2. b.size # Null /\ n > 0 /\ Fill(base + pad, b, n, FALSE)
        /\ region' = [addr |-> base, size |-> c] /\ lent' = lent
    BY DEF tda_pool_init_buf
  <1>3. /\ b.size \in Nat \ {0} /\ b.size >= PtrSize /\ b.size % b.align = 0
        /\ b.align \in Nat \ {0} /\ b.align \in Aligns \cup {PtrAlign} /\ PtrAlign <= b.align
    BY <1>1, <1>2, CkdBlockCuts
  <1>4. pad \in Nat /\ (base + pad) % b.align = 0
    BY <1>1, <1>3, AlignPadNat, AlignPadLands, Zenon
  <1>5. pad <= c /\ n = (c - pad) \div b.size
    BY <1>1, <1>2, <1>4 DEF BufCount
  <1> HIDE DEF b, pad, n
  <1>6. c - pad \in Nat
    BY <1>1, <1>4, <1>5
  <1>7. n \in Nat /\ b.size * n <= c - pad
    BY <1>3, <1>5, <1>6, DivFits, Zenon
  <1>8. n \in Nat \ {0} /\ base + pad \in Nat /\ base <= base + pad
        /\ (base + pad) + b.size * n <= base + c
    BY <1>1, <1>2, <1>3, <1>4, <1>7
  <1>9. lent' = IF FALSE THEN {[addr |-> base + pad, size |-> b.size * n, align |-> b.align]} ELSE {}
    BY <1>2 DEF Fill, PoolInv, PoolSound, ParentIsOwed
  <1> QED
    BY <1>1, <1>2, <1>3, <1>4, <1>8, <1>9, FillKeeps

\* tda_pool_deinit leaves an inert pool that owes nothing.
LEMMA DeinitKeeps == ASSUME PoolAssumption, PoolInv, tda_pool_deinit PROVE PoolInv'
  <1>1. /\ data' = Null /\ block_size' = 0 /\ block_align' = 0 /\ block_count' = 0
        /\ used' = 0 /\ free_head' = Null /\ parent' = FALSE
        /\ link' = <<>> /\ blocks' = {} /\ data # Null /\ lent' = LentAfter
    BY DEF tda_pool_deinit
  <1>2. Array' = {} /\ Held' = {} /\ (tda_pool_stats.free)' = 0
    BY <1>1 DEF Array, ArrayOf, Held, tda_pool_stats
  <1>3. TypeOK'
    <2>1. parent' \in BOOLEAN
      BY <1>1, Zenon
    <2>2. link' \in [Array' -> Array' \cup {Null, Garbage}]
      BY <1>1, <1>2
    <2> QED
      BY <1>1, <1>2, <2>1, <2>2 DEF TypeOK
  <1>4. FreeListExact'
    <2> DEFINE s == [i \in 1 .. 0 |-> Null]
    <2>1. s \in [1 .. 0 -> {}]
      OBVIOUS
    <2>2. IsFreeList(s, 0)'
      BY <1>1, <1>2 DEF IsFreeList
    <2>3. Array' \ Held' = {}
      BY <1>2
    <2> QED
      BY <1>1, <1>2, <2>1, <2>2, <2>3 DEF FreeListExact
  <1>5. BlocksInRegion'
    BY <1>2 DEF BlocksInRegion
  <1>6. ParentIsOwed'
    BY <1>1 DEF PoolInv, PoolSound, ParentIsOwed, LentAfter
  <1>7. Cut' /\ HeldExact'
    BY <1>1, FS_EmptySet DEF Cut, HeldExact
  <1> QED
    BY <1>3, <1>4, <1>5, <1>6, <1>7 DEF PoolInv, PoolSound

LEMMA InitKeeps == ASSUME PoolAssumption, Init PROVE PoolInv
  <1>1. Array = {} /\ Held = {} /\ tda_pool_stats.free = 0
    BY DEF Init, Array, ArrayOf, Held, tda_pool_stats
  <1>2. TypeOK
    <2>1. parent \in BOOLEAN
      BY Zenon DEF Init
    <2>2. link \in [Array -> Array \cup {Null, Garbage}]
      BY <1>1 DEF Init
    <2> QED
      BY <1>1, <2>1, <2>2 DEF TypeOK, Init
  <1>3. FreeListExact
    <2> DEFINE s == [i \in 1 .. 0 |-> Null]
    <2>1. s \in [1 .. 0 -> {}]
      OBVIOUS
    <2>2. IsFreeList(s, 0)
      BY <1>1 DEF IsFreeList, Init
    <2>3. Array \ Held = {}
      BY <1>1
    <2> QED
      BY <1>1, <2>1, <2>2, <2>3 DEF FreeListExact, Init
  <1>4. BlocksInRegion /\ ParentIsOwed /\ Cut /\ HeldExact
    BY <1>1, FS_EmptySet DEF Init, BlocksInRegion, ParentIsOwed, Cut, HeldExact
  <1> QED
    BY <1>2, <1>3, <1>4 DEF PoolInv, PoolSound

\* What leaves the fields, the region and the parent's blocks alone keeps the parts of the
\* invariant that are about them.
LEMMA FieldsKept ==
    ASSUME PoolInv, UNCHANGED <<fields, region, lent>>
    PROVE  /\ Array' = Array /\ Cut' /\ BlocksInRegion' /\ ParentIsOwed'
           /\ data' = data /\ block_size' = block_size /\ block_align' = block_align
           /\ block_count' = block_count /\ parent' = parent
  BY DEF PoolInv, PoolSound, fields, Array, ArrayOf, Cut, BlocksInRegion, ParentIsOwed, ArrayLayout

\* While the same slots are held and no link moves, the list stays exact.
LEMMA ListKept ==
    ASSUME PoolInv, UNCHANGED <<fields, used, free_head, link>>, Held' = Held
    PROVE  FreeListExact'
  <1>1. Array' = Array /\ (tda_pool_stats.free)' = tda_pool_stats.free
    BY DEF fields, Array, ArrayOf, tda_pool_stats
  <1>2. \A b \in blocks' : b.addr \in Held
    BY DEF Held
  <1>3. \A a \in Held : OwnsBlock(a)' /\ used' > 0 /\ a # free_head'
    BY DEF PoolInv, PoolSound, FreeListExact, Held, OwnsBlock, fields
  <1>4. ASSUME NEW s, NEW n, IsFreeList(s, n) PROVE IsFreeList(s, n)'
    BY <1>1, <1>4 DEF IsFreeList
  <1>5. Array' \ Held' = Array \ Held
    BY <1>1
  <1> QED
    BY <1>1, <1>2, <1>3, <1>4, <1>5 DEF PoolInv, PoolSound, FreeListExact

\* tda_pool_reset threads the whole array again.
LEMMA ResetKeeps == ASSUME PoolAssumption, PoolInv, tda_pool_reset PROVE PoolInv'
  <1>1. /\ data # Null /\ used' = 0 /\ link' = FreeList(data, block_size, block_count)
        /\ free_head' = data /\ blocks' = {}
    BY DEF tda_pool_reset
  <1>2. /\ Array' = Array /\ Cut' /\ BlocksInRegion' /\ ParentIsOwed'
        /\ data' = data /\ block_size' = block_size /\ block_align' = block_align
        /\ block_count' = block_count /\ parent' = parent
    BY FieldsKept DEF tda_pool_reset
  <1>3. data \in Nat /\ block_size \in Nat \ {0} /\ block_count \in Nat \ {0}
    BY <1>1 DEF PoolInv, PoolSound, TypeOK, Cut
  <1>4. TypeOK'
    <2>1. data \in Array
      <3>1. 0 \in 0 .. block_count - 1 /\ data = data + block_size * 0
        BY <1>3
      <3> QED
        BY <3>1 DEF Array, ArrayOf
    <2>2. link' \in [Array -> Array \cup {Null, Garbage}]
      BY <1>1 DEF FreeList, Array
    <2>3. parent' \in BOOLEAN
      BY <1>2, Zenon DEF PoolInv, PoolSound, TypeOK
    <2> QED
      BY <1>1, <1>2, <1>3, <2>1, <2>2, <2>3 DEF PoolInv, PoolSound, TypeOK
  <1>5. FreeListExact'
    BY <1>1, <1>2, <1>3, FreshListExact
  <1>6. HeldExact'
    BY <1>1, FS_EmptySet DEF HeldExact
  <1> QED
    BY <1>2, <1>4, <1>5, <1>6 DEF PoolInv, PoolSound

\* The free list of a pool, named.
LEMMA FreeListOf ==
    ASSUME PoolAssumption, PoolInv
    PROVE  \E n \in Nat : /\ n = block_count - used
                          /\ \E s \in [1 .. n -> Array \ Held] : IsFreeList(s, n)
  BY DEF PoolInv, PoolSound, TypeOK, FreeListExact, tda_pool_stats

\* pool_alloc takes the head off the list.
LEMMA AllocKeeps ==
    ASSUME PoolAssumption, PoolInv, NEW size \in Sizes, NEW align \in Aligns, tda_alloc(size, align)
    PROVE  PoolInv' /\ free_head \in Array \ Held
  <1> DEFINE blk == [addr |-> free_head, size |-> size, align |-> align]
  <1>1. PICK n \in Nat : /\ n = block_count - used
                         /\ \E s \in [1 .. n -> Array \ Held] : IsFreeList(s, n)
    BY FreeListOf
  <1>2. PICK s \in [1 .. n -> Array \ Held] : IsFreeList(s, n)
    BY <1>1
  <1>3. /\ Array' = Array /\ Cut' /\ BlocksInRegion' /\ ParentIsOwed'
        /\ data' = data /\ block_size' = block_size /\ block_align' = block_align
        /\ block_count' = block_count /\ parent' = parent
    BY FieldsKept DEF tda_alloc
  <1>4. /\ data # Null /\ align <= block_align /\ size <= block_size /\ free_head # Null
        /\ free_head' = link[free_head] /\ used' = used + 1
        /\ link' = [link EXCEPT ![free_head] = Garbage]
        /\ blocks' = blocks \cup {blk}
    BY DEF tda_alloc
  <1>5. n \in Nat /\ n > 0 /\ free_head = s[1] /\ used \in Nat /\ block_count \in Nat
    BY <1>1, <1>2, <1>4 DEF PoolInv, PoolSound, TypeOK, IsFreeList
  <1>6. free_head \in Array \ Held
    BY <1>2, <1>5
  <1>7. Held' = Held \cup {free_head} /\ blk \notin blocks
    BY <1>4, <1>6 DEF Held
  <1> DEFINE m == n - 1
             t == [i \in 1 .. m |-> s[i + 1]]
  <1>8. /\ \A i \in 1 .. m : i + 1 \in 1 .. n /\ i + 1 # 1
        /\ m \in Nat /\ m = block_count' - used'
    BY <1>1, <1>3, <1>4, <1>5
  <1>9. \A k \in 1 .. n : k # 1 => s[k] # free_head
    <2>1. 1 \in 1 .. n
      BY <1>5
    <2> QED
      BY <1>2, <1>5, <2>1 DEF IsFreeList
  <1>10. t \in [1 .. m -> Array' \ Held']
    <2>1. \A i \in 1 .. m : s[i + 1] \in Array' \ Held'
      BY <1>2, <1>3, <1>7, <1>8, <1>9
    <2> QED
      BY <2>1
  <1>11. IsFreeList(t, m)'
    <2>1. ASSUME NEW i \in 1 .. m, NEW j \in 1 .. m, t[i] = t[j] PROVE i = j
      BY <1>2, <1>8, <2>1 DEF IsFreeList
    <2>2. ASSUME NEW a \in Array \ (Held \cup {free_head}) PROVE \E i \in 1 .. m : a = t[i]
      <3>1. PICK k \in 1 .. n : a = s[k]
        BY <1>2 DEF IsFreeList
      <3>2. k # 1 /\ k - 1 \in 1 .. m /\ (k - 1) + 1 = k
        BY <1>5, <3>1
      <3> QED
        BY <3>1, <3>2
    <2>3. free_head' = IF m = 0 THEN Null ELSE t[1]
      <3>1. link[s[1]] = IF 1 = n THEN Null ELSE s[1 + 1]
        BY <1>2, <1>5 DEF IsFreeList
      <3>2. m # 0 => 1 \in 1 .. m
        BY <1>8
      <3> QED
        BY <1>4, <1>5, <3>1, <3>2
    <2>4. ASSUME NEW i \in 1 .. m PROVE link'[t[i]] = IF i = m THEN Null ELSE t[i + 1]
      <3>1. t[i] = s[i + 1] /\ i + 1 \in 1 .. n /\ s[i + 1] # free_head
        BY <1>8, <1>9
      <3>2. link[s[i + 1]] = IF i + 1 = n THEN Null ELSE s[(i + 1) + 1]
        BY <1>2, <3>1 DEF IsFreeList
      <3>3. link'[t[i]] = link[s[i + 1]]
        BY <1>2, <1>4, <3>1 DEF PoolInv, PoolSound, TypeOK
      <3>4. i # m => i + 1 \in 1 .. m
        BY <1>8
      <3> QED
        BY <1>5, <3>2, <3>3, <3>4
    <2> HIDE DEF t, m
    <2> QED
      BY <1>3, <1>7, <2>1, <2>2, <2>3, <2>4 DEF IsFreeList
  <1>12. HeldExact' /\ used' > 0
    <2>1. IsFiniteSet(blocks') /\ used' = Cardinality(blocks')
      BY <1>4, <1>7, FS_AddElement DEF PoolInv, HeldExact
    <2>2. \A b \in blocks : b.addr # free_head
      BY <1>6 DEF Held
    <2> QED
      BY <1>3, <1>4, <1>5, <2>1, <2>2 DEF PoolInv, HeldExact
  <1>13. TypeOK'
    <2>1. free_head' \in Array \cup {Null}
      BY <1>3, <1>8, <1>11, <1>10 DEF IsFreeList
    <2>2. link' \in [Array -> Array \cup {Null, Garbage}]
      BY <1>4, <1>6 DEF PoolInv, PoolSound, TypeOK
    <2>3. parent' \in BOOLEAN
      BY <1>3, Zenon DEF PoolInv, PoolSound, TypeOK
    <2>4. blk \in [addr : Array, size : Nat \ {0}, align : 1 .. block_align]
      BY <1>4, <1>6 DEF PoolAssumption, PoolInv, PoolSound, TypeOK
    <2>5. used' \in 0 .. block_count
      BY <1>1, <1>4, <1>5
    <2> QED
      BY <1>3, <1>4, <2>1, <2>2, <2>3, <2>4, <2>5 DEF PoolInv, PoolSound, TypeOK
  <1>14. FreeListExact'
    <2>1. (tda_pool_stats.free)' = m
      BY <1>8 DEF tda_pool_stats
    <2>2. ASSUME NEW b \in blocks' PROVE (OwnsBlock(b.addr) /\ used > 0 /\ b.addr # free_head)'
      <3>1. b.addr \in Array' /\ b.addr \in Held'
        BY <1>13 DEF TypeOK, Held
      <3>2. OwnsBlock(b.addr)' /\ b.addr # Null
        BY <1>3, <3>1, InArray DEF PoolInv, PoolSound, OwnsBlock
      <3>3. free_head' \notin Held' \/ free_head' = Null
        BY <1>8, <1>11, <1>10 DEF IsFreeList
      <3> QED
        BY <1>12, <3>1, <3>2, <3>3
    <2> HIDE DEF t, m
    <2> QED
      BY <1>11, <1>10, <2>1, <2>2 DEF FreeListExact
  <1> QED
    BY <1>3, <1>6, <1>12, <1>13, <1>14 DEF PoolInv, PoolSound

\* pool_dealloc puts the block at the head of the list.
LEMMA DeallocKeeps ==
    ASSUME PoolAssumption, PoolInv, NEW b \in blocks, tda_dealloc(b)
    PROVE  PoolInv'
  <1>1. PICK n \in Nat : /\ n = block_count - used
                         /\ \E s \in [1 .. n -> Array \ Held] : IsFreeList(s, n)
    BY FreeListOf
  <1>2. PICK s \in [1 .. n -> Array \ Held] : IsFreeList(s, n)
    BY <1>1
  <1>3. PICK addr : addr = b.addr
    OBVIOUS
  <1>4. /\ Array' = Array /\ Cut' /\ BlocksInRegion' /\ ParentIsOwed'
        /\ data' = data /\ block_size' = block_size /\ block_align' = block_align
        /\ block_count' = block_count /\ parent' = parent
    BY FieldsKept DEF tda_dealloc
  <1>5. /\ link' = [link EXCEPT ![addr] = free_head] /\ free_head' = addr
        /\ used' = used - 1 /\ blocks' = blocks \ {b}
    BY <1>3 DEF tda_dealloc, PushFree
  <1>6. addr \in Array /\ addr \in Held /\ addr # Null /\ used \in Nat /\ used > 0
        /\ block_count \in Nat /\ used <= block_count
    <2>1. addr \in Array /\ addr \in Held
      BY <1>3 DEF PoolInv, PoolSound, TypeOK, Held
    <2>2. addr # Null
      BY <2>1, InArray DEF PoolInv, PoolSound
    <2> QED
      BY <2>1, <2>2 DEF PoolInv, PoolSound, TypeOK, FreeListExact
  <1>7. Held' = Held \ {addr}
    BY <1>3, <1>5 DEF Held, PoolInv, HeldExact
  <1> DEFINE m == n + 1
             t == [i \in 1 .. m |-> IF i = 1 THEN addr ELSE s[i - 1]]
  <1>8. /\ \A i \in 1 .. m : i # 1 => i - 1 \in 1 .. n
        /\ m \in Nat /\ m = block_count' - used'
    BY <1>1, <1>4, <1>5, <1>6
  <1>9. \A i \in 1 .. n : s[i] # addr /\ s[i] \in Array \ Held
    BY <1>2, <1>6
  <1>10. t \in [1 .. m -> Array' \ Held']
    BY <1>4, <1>6, <1>7, <1>8, <1>9
  <1>11. IsFreeList(t, m)'
    <2>1. ASSUME NEW i \in 1 .. m, NEW j \in 1 .. m, t[i] = t[j] PROVE i = j
      <3>1. CASE i = 1 \/ j = 1
        BY <1>8, <1>9, <2>1, <3>1
      <3>2. CASE i # 1 /\ j # 1
        <4>1. s[i - 1] = s[j - 1] /\ i - 1 \in 1 .. n /\ j - 1 \in 1 .. n
          BY <1>8, <2>1, <3>2
        <4>2. i - 1 = j - 1
          BY <1>2, <4>1 DEF IsFreeList
        <4> QED
          BY <4>2
      <3> QED
        BY <3>1, <3>2
    <2>2. ASSUME NEW a \in Array \ (Held \ {addr}) PROVE \E i \in 1 .. m : a = t[i]
      <3>1. CASE a = addr
        <4>1. 1 \in 1 .. m
          OBVIOUS
        <4> QED
          BY <3>1, <4>1
      <3>2. CASE a # addr
        <4>1. PICK k \in 1 .. n : a = s[k]
          BY <1>2, <3>2 DEF IsFreeList
        <4>2. k + 1 \in 1 .. m /\ (k + 1) - 1 = k /\ k + 1 # 1
          OBVIOUS
        <4> QED
          BY <4>1, <4>2
      <3> QED
        BY <3>1, <3>2
    <2>3. free_head' = IF m = 0 THEN Null ELSE t[1]
      BY <1>5
    <2>4. ASSUME NEW i \in 1 .. m PROVE link'[t[i]] = IF i = m THEN Null ELSE t[i + 1]
      <3>1. CASE i = 1
        <4>1. link'[t[1]] = free_head
          BY <1>5, <1>6 DEF PoolInv, PoolSound, TypeOK
        <4>2. n # 0 => 2 \in 1 .. m /\ t[2] = s[1]
          OBVIOUS
        <4> QED
          BY <1>2, <3>1, <4>1, <4>2 DEF IsFreeList
      <3>2. CASE i # 1
        <4>1. t[i] = s[i - 1] /\ i - 1 \in 1 .. n
          BY <1>8, <3>2
        <4>2. link'[t[i]] = link[s[i - 1]]
          BY <1>5, <1>9, <4>1 DEF PoolInv, PoolSound, TypeOK
        <4>3. link[s[i - 1]] = IF i - 1 = n THEN Null ELSE s[(i - 1) + 1]
          BY <1>2, <4>1 DEF IsFreeList
        <4>4. i # m => i + 1 \in 1 .. m /\ t[i + 1] = s[i]
          BY <3>2
        <4> QED
          BY <4>2, <4>3, <4>4
      <3> QED
        BY <3>1, <3>2
    <2> HIDE DEF t, m
    <2> QED
      BY <1>4, <1>7, <2>1, <2>2, <2>3, <2>4 DEF IsFreeList
  <1>12. HeldExact'
    <2>1. IsFiniteSet(blocks') /\ used' = Cardinality(blocks')
      BY <1>5, FS_RemoveElement DEF PoolInv, HeldExact
    <2> QED
      BY <1>4, <1>5, <2>1 DEF PoolInv, HeldExact
  <1>13. TypeOK'
    <2>1. free_head' \in Array \cup {Null}
      BY <1>5, <1>6
    <2>2. link' \in [Array -> Array \cup {Null, Garbage}]
      BY <1>5, <1>6 DEF PoolInv, PoolSound, TypeOK
    <2>3. parent' \in BOOLEAN
      BY <1>4, Zenon DEF PoolInv, PoolSound, TypeOK
    <2>4. used' \in 0 .. block_count
      BY <1>5, <1>6
    <2> QED
      BY <1>4, <1>5, <2>1, <2>2, <2>3, <2>4 DEF PoolInv, PoolSound, TypeOK
  <1>14. FreeListExact'
    <2>1. (tda_pool_stats.free)' = m
      BY <1>8 DEF tda_pool_stats
    <2>2. ASSUME NEW c \in blocks' PROVE (OwnsBlock(c.addr) /\ used > 0 /\ c.addr # free_head)'
      <3>1. c \in blocks /\ c # b
        BY <1>5
      <3>2. c.addr \in Array /\ c.addr # addr
        BY <1>3, <3>1 DEF PoolInv, PoolSound, TypeOK, HeldExact
      <3>3. OwnsBlock(c.addr)'
        BY <1>4, <3>2, InArray DEF PoolInv, PoolSound, OwnsBlock
      <3>4. used' > 0
        <4>1. IsFiniteSet(blocks') /\ used' = Cardinality(blocks') /\ blocks' # {}
          BY <1>12 DEF HeldExact
        <4>2. used' # 0
          BY <4>1, FS_EmptySet
        <4> QED
          BY <1>5, <1>6, <4>2
      <3> QED
        BY <1>5, <3>2, <3>3, <3>4
    <2> HIDE DEF t, m
    <2> QED
      BY <1>10, <1>11, <2>1, <2>2 DEF FreeListExact
  <1> QED
    BY <1>4, <1>12, <1>13, <1>14 DEF PoolInv, PoolSound

\* pool_resize moves nothing: the same slots are held.
LEMMA ReallocKeeps ==
    ASSUME PoolAssumption, PoolInv, NEW b \in blocks, NEW size \in Sizes, tda_realloc(b, size)
    PROVE  PoolInv'
  <1> DEFINE c == [b EXCEPT !.size = size]
  <1>1. /\ Array' = Array /\ Cut' /\ BlocksInRegion' /\ ParentIsOwed'
        /\ data' = data /\ block_size' = block_size /\ block_align' = block_align
        /\ block_count' = block_count /\ parent' = parent
    BY FieldsKept DEF tda_realloc
  <1>2. /\ size <= block_size /\ blocks' = (blocks \ {b}) \cup {c}
        /\ used' = used /\ free_head' = free_head /\ link' = link
    BY DEF tda_realloc, Resizes
  <1>3. b \in [addr : Array, size : Nat \ {0}, align : 1 .. block_align] /\ size \in Nat \ {0}
    BY DEF PoolAssumption, PoolInv, PoolSound, TypeOK
  <1>4. /\ c \in [addr : Array, size : Nat \ {0}, align : 1 .. block_align]
        /\ c.addr = b.addr /\ c.align = b.align /\ c.size = size
    BY <1>3
  <1> HIDE DEF c
  <1>5. Held' = Held
    BY <1>2, <1>4 DEF Held
  <1>6. TypeOK'
    <2>1. parent' \in BOOLEAN
      BY <1>1, Zenon DEF PoolInv, PoolSound, TypeOK
    <2> QED
      BY <1>1, <1>2, <1>4, <2>1 DEF PoolInv, PoolSound, TypeOK
  <1>7. FreeListExact'
    BY <1>2, <1>5, ListKept DEF tda_realloc
  <1>8. HeldExact'
    <2>1. c \notin blocks \ {b}
      BY <1>4 DEF PoolInv, HeldExact
    <2>2. IsFiniteSet(blocks') /\ used' = Cardinality(blocks')
      <3>1. IsFiniteSet(blocks \ {b}) /\ Cardinality(blocks \ {b}) = used - 1
        BY FS_RemoveElement DEF PoolInv, HeldExact
      <3>2. used \in Nat
        BY DEF PoolInv, PoolSound, TypeOK
      <3>3. /\ IsFiniteSet((blocks \ {b}) \cup {c})
            /\ Cardinality((blocks \ {b}) \cup {c}) = Cardinality(blocks \ {b}) + 1
        BY <2>1, <3>1, FS_AddElement, Zenon
      <3> QED
        BY <1>2, <3>1, <3>2, <3>3
    <2> QED
      BY <1>1, <1>2, <1>4, <2>2 DEF PoolInv, HeldExact
  <1> QED
    BY <1>1, <1>6, <1>7, <1>8 DEF PoolInv, PoolSound

\* Every step of the pool keeps its invariant.
LEMMA PoolNextKeeps == ASSUME PoolAssumption, PoolInv, [Next]_vars PROVE PoolInv'
  <1>1. CASE UNCHANGED vars
    <2>1. /\ Array' = Array /\ Cut' /\ BlocksInRegion' /\ ParentIsOwed'
          /\ data' = data /\ block_size' = block_size /\ block_align' = block_align
          /\ block_count' = block_count /\ parent' = parent
      BY <1>1, FieldsKept DEF vars
    <2>2. used' = used /\ free_head' = free_head /\ link' = link /\ blocks' = blocks
      BY <1>1 DEF vars
    <2>3. TypeOK'
      <3>1. parent' \in BOOLEAN
        BY <2>1, Zenon DEF PoolInv, PoolSound, TypeOK
      <3> QED
        BY <2>1, <2>2, <3>1 DEF PoolInv, PoolSound, TypeOK
    <2>4. FreeListExact'
      BY <1>1, <2>2, ListKept DEF vars, Held
    <2>5. HeldExact'
      BY <2>1, <2>2 DEF PoolInv, HeldExact
    <2> QED
      BY <2>1, <2>3, <2>4, <2>5 DEF PoolInv, PoolSound
  <1> QED
    BY <1>1, InitCapKeeps, InitBufKeeps, DeinitKeeps, AllocKeeps, DeallocKeeps, ReallocKeeps,
       ResetKeeps DEF Next

THEOREM PoolInvariant == Spec => []PoolInv
  <1>1. Init => PoolInv
    BY InitKeeps, PoolAssumption
  <1>2. PoolInv /\ [Next]_vars => PoolInv'
    BY PoolNextKeeps, PoolAssumption
  <1> QED
    BY <1>1, <1>2, PTL DEF Spec

-----------------------------------------------------------------------------
(* The pool implements the abstract allocator.                              *)

\* A request whose alignment the blocks serve gets it: alignments are powers of two.
LEMMA SlotAligned ==
    ASSUME PoolAssumption, PoolInv, NEW a \in Array, NEW align \in Aligns, align <= block_align
    PROVE  a % align = 0
  <1>1. block_align \in Aligns \cup {PtrAlign} /\ a % block_align = 0 /\ a \in Nat
    BY InArray DEF PoolInv, PoolSound, BlocksInRegion, Cut, Array, ArrayOf
  <1>2. align \in Nat \ {0} /\ block_align \in Nat \ {0} /\ block_align % align = 0
    BY <1>1, AlignDivides DEF PoolAssumption
  <1>3. a \in Int
    BY <1>1
  <1> QED
    BY <1>1, <1>2, <1>3, ModTrans, Zenon

\* A block in a slot of its own is apart from those held in other slots.
LEMMA SlotsDoNotMeet ==
    ASSUME PoolAssumption, PoolInv, NEW b, b.addr \in Array, b.size \in Nat, b.size <= block_size,
           NEW c \in blocks, c.addr # b.addr
    PROVE  AllocatorSpec!Apart(b, c)
  <1>1. c.addr \in Array /\ c.size \in Nat /\ c.size <= block_size
    BY DEF PoolInv, PoolSound, TypeOK, HeldExact
  <1>2. b.addr \in Nat /\ c.addr \in Nat /\ block_size \in Nat
        /\ (b.addr + block_size <= c.addr \/ c.addr + block_size <= b.addr)
    BY <1>1, InArray DEF PoolInv, PoolSound
  <1> QED
    BY <1>1, <1>2 DEF AllocatorSpec!Apart

\* tda_alloc is a give.
LEMMA PoolGives ==
    ASSUME PoolAssumption, PoolInv, NEW size \in Sizes, NEW align \in Aligns, tda_alloc(size, align)
    PROVE  AllocatorSpec!Give
  <1> DEFINE b == [addr |-> free_head, size |-> size, align |-> align]
  <1>1. /\ free_head \in Array \ Held /\ size <= block_size /\ align <= block_align
        /\ blocks' = blocks \cup {b} /\ size \in Nat /\ size > 0
    BY AllocKeeps DEF tda_alloc, PoolAssumption
  <1>2. b.addr = free_head /\ b.size = size /\ b.align = align
    OBVIOUS
  <1> HIDE DEF b
  <1>3. \A c \in blocks : c.addr # b.addr
    BY <1>1, <1>2 DEF Held
  <1>4. \A c \in blocks : AllocatorSpec!Apart(b, c)
    BY <1>1, <1>2, <1>3, SlotsDoNotMeet
  <1>5. b.addr % b.align = 0
    BY <1>1, <1>2, SlotAligned
  <1> QED
    BY <1>1, <1>2, <1>3, <1>4, <1>5 DEF AllocatorSpec!Give, AllocatorSpec!Fits

\* tda_realloc is a resize.
LEMMA PoolResizes ==
    ASSUME PoolAssumption, PoolInv, NEW b \in blocks, NEW size \in Sizes, tda_realloc(b, size)
    PROVE  AllocatorSpec!Resize
  <1> DEFINE c == [b EXCEPT !.size = size]
  <1>1. b \in [addr : Array, size : Nat \ {0}, align : 1 .. block_align] /\ b.align \in Aligns
    BY DEF PoolInv, PoolSound, TypeOK, HeldExact
  <1>2. c.addr = b.addr /\ c.align = b.align /\ c.size = size
    BY <1>1
  <1>3. size \in Nat /\ size > 0 /\ size <= block_size /\ blocks' = (blocks \ {b}) \cup {c}
    BY DEF tda_realloc, Resizes, PoolAssumption
  <1> HIDE DEF c
  <1>4. \A d \in blocks \ {b} : d.addr # c.addr
    BY <1>2 DEF PoolInv, HeldExact
  <1>5. \A d \in blocks \ {b} : AllocatorSpec!Apart(c, d)
    BY <1>1, <1>2, <1>3, <1>4, SlotsDoNotMeet
  <1>6. b.addr \in Array /\ b.align <= block_align
    BY <1>1 DEF PoolInv, PoolSound, TypeOK
  <1>7. c.addr % c.align = 0
    BY <1>1, <1>2, <1>6, SlotAligned
  <1> QED
    BY <1>2, <1>3, <1>5, <1>7 DEF AllocatorSpec!Resize, AllocatorSpec!Fits

\* Every pool keeps the hook contract of alloc.h.
THEOREM PoolImplements == Spec => ImplementsAllocator
  <1>1. Init => AllocatorSpec!Init
    BY DEF Init, AllocatorSpec!Init
  <1>2. ASSUME PoolInv, [Next]_vars PROVE [AllocatorSpec!Next]_blocks
    <2>1. CASE blocks' \subseteq blocks
      BY <2>1 DEF AllocatorSpec!Next, AllocatorSpec!TakeBack
    <2> QED
      BY <1>2, <2>1, PoolGives, PoolResizes, PoolAssumption
         DEF Next, vars, tda_pool_init_cap, tda_pool_init_buf, Fill, tda_pool_deinit,
             tda_dealloc, tda_pool_reset, AllocatorSpec!Next
  <1> QED
    BY <1>1, <1>2, PoolInvariant, PTL DEF Spec, ImplementsAllocator, AllocatorSpec!Spec

-----------------------------------------------------------------------------
(* The heap of libc.                                                        *)

Chunk == [addr : HeapAddrs, size : Nat \ {0}, zero : Nat]

\* no two chunks share a byte
HeapOK(h) ==
    /\ h \subseteq Chunk /\ IsFiniteSet(h)
    /\ \A c, d \in h : c # d => c.addr + c.size <= d.addr \/ d.addr + d.size <= c.addr

\* n bytes at 'a' are in the heap and in no chunk of h
Vacant(h, a, n) ==
    /\ a \in HeapAddrs
    /\ \A c \in h : c.addr + c.size <= a \/ a + n <= c.addr

LEMMA HeapIsNat == ASSUME PoolOnLogAssumption PROVE HeapAddrs \subseteq Nat
  BY DEF PoolOnLogAssumption

LEMMA ChunkFields ==
    ASSUME PoolOnLogAssumption, NEW h, HeapOK(h), NEW c \in h
    PROVE  c.addr \in Nat /\ c.addr \in HeapAddrs /\ c.size \in Nat /\ c.size > 0 /\ c.zero \in Nat
  <1>1. c \in Chunk
    BY DEF HeapOK
  <1>2. c.addr \in HeapAddrs /\ c.size \in Nat \ {0} /\ c.zero \in Nat
    BY <1>1 DEF Chunk
  <1>3. c.addr \in Nat
    BY <1>2, HeapIsNat, Zenon
  <1> QED
    BY <1>2, <1>3

\* What libc finds room for is vacant and aligned.
LEMMA RoomIsVacant ==
    ASSUME PoolOnLogAssumption, NEW h, HeapOK(h), NEW n \in Nat \ {0}, NEW align,
           NEW a \in Logging!Room(h, n, align)
    PROVE  Vacant(h, a, n) /\ a % align = 0
  <1>1. a \in HeapAddrs /\ a \in Nat /\ a % align = 0
    BY HeapIsNat DEF Logging!Room
  <1>2. ASSUME NEW c \in h PROVE c.addr + c.size <= a \/ a + n <= c.addr
    <2>1. c.addr \in Nat /\ c.size \in Nat /\ c.size > 0
      BY ChunkFields
    <2>2. (c.addr .. c.addr + c.size - 1) \cap (a .. a + n - 1) = {}
      BY DEF Logging!Room
    <2>3. a \notin c.addr .. c.addr + c.size - 1
      <3>1. a \in a .. a + n - 1
        BY <1>1
      <3> QED
        BY <2>2, <3>1
    <2>4. c.addr \notin a .. a + n - 1
      <3>1. c.addr \in c.addr .. c.addr + c.size - 1
        BY <2>1
      <3> QED
        BY <2>2, <3>1
    <2> QED
      BY <1>1, <2>1, <2>3, <2>4
  <1> QED
    BY <1>1, <1>2 DEF Vacant

\* A chunk put where it is vacant leaves the heap sound, and is new at its address.
LEMMA HeapGrows ==
    ASSUME PoolOnLogAssumption, NEW h, HeapOK(h), NEW n \in Nat \ {0}, NEW z \in Nat, NEW a,
           Vacant(h, a, n)
    PROVE  /\ HeapOK(h \cup {[addr |-> a, size |-> n, zero |-> z]})
           /\ \A c \in h : c.addr # a
  <1> DEFINE k == [addr |-> a, size |-> n, zero |-> z]
  <1>1. k \in Chunk /\ k.addr = a /\ k.size = n /\ a \in Nat
    BY HeapIsNat DEF Chunk, Vacant
  <1>2. \A c \in h : c.addr + c.size <= a \/ a + n <= c.addr
    BY DEF Vacant
  <1>3. \A c \in h : c.addr \in Nat /\ c.size \in Nat /\ c.size > 0
    BY ChunkFields
  <1>4. IsFiniteSet(h \cup {k})
    BY FS_AddElement DEF HeapOK
  <1> HIDE DEF k
  <1>5. HeapOK(h \cup {k})
    BY <1>1, <1>2, <1>4 DEF HeapOK
  <1> QED
    BY <1>1, <1>2, <1>3, <1>5 DEF k

\* free takes out the one chunk at its address.
LEMMA ChunkAtIs ==
    ASSUME PoolOnLogAssumption, NEW h, HeapOK(h), NEW c \in h
    PROVE  Logging!ChunkAt(h, c.addr) = c
  <1>1. ASSUME NEW d \in h, d.addr = c.addr PROVE d = c
    BY <1>1, ChunkFields DEF HeapOK
  <1> QED
    BY <1>1 DEF Logging!ChunkAt

\* A plain request asks libc for as much as the alignment needs: what malloc owes to so many
\* bytes serves the alignment asked for.
LEMMA OwedServes ==
    ASSUME PoolOnLogAssumption, NEW n \in Nat, NEW align \in Nat, tda_layout_is_align(align),
           align <= PlainAlign, align <= n
    PROVE  Logging!Owed(n) \in Nat \ {0} /\ Logging!Owed(n) % align = 0
  <1> DEFINE S == {p \in 1 .. PlainAlign : p <= n /\ tda_layout_is_align(p)}
  <1>0. PlainAlign \in Nat
    BY DEF PoolOnLogAssumption
  <1>1. align \in S
    BY <1>0 DEF tda_layout_is_align
  <1>2. \E m \in S : \A y \in S : m >= y
    <2> DEFINE T == {PlainAlign - p : p \in S}
    <2>1. T \subseteq Nat /\ T # {}
      BY <1>0, <1>1
    <2>2. PICK t \in T : \A u \in T : t <= u
      BY <2>1, LeastNat
    <2>3. PICK m \in S : t = PlainAlign - m
      OBVIOUS
    <2>4. ASSUME NEW y \in S PROVE m >= y
      <3>1. PlainAlign - y \in T
        OBVIOUS
      <3>2. t <= PlainAlign - y /\ y \in Nat /\ m \in Nat
        BY <2>2, <3>1
      <3> QED
        BY <1>0, <2>3, <3>2
    <2> QED
      BY <2>4
  <1>3. Logging!Owed(n) \in S /\ \A y \in S : Logging!Owed(n) >= y
    <2>1. Logging!Owed(n) = CHOOSE x \in S : \A y \in S : x >= y
      BY DEF Logging!Owed, Logging!Max, Logging!tda_layout_is_align, tda_layout_is_align
    <2> QED
      BY <1>2, <2>1
  <1>4. Logging!Owed(n) \in Nat \ {0} /\ tda_layout_is_align(Logging!Owed(n)) /\ align <= Logging!Owed(n)
    BY <1>1, <1>3
  <1> QED
    BY <1>4, AlignDivides

-----------------------------------------------------------------------------
(* The hooks of the default allocator.                                      *)

\* what an outcome of alloc or alloc_zeroed is: one chunk more, vacant before, as long as
\* was asked and, if asked, zero as far, at an address on the alignment asked for
Serves(h, l, zeroed, r) ==
    \E n \in Nat \ {0}, z \in Nat :
        /\ n >= l.size /\ (zeroed => z >= l.size)
        /\ Vacant(h, r.addr, n) /\ r.addr % l.align = 0
        /\ r.heap = h \cup {[addr |-> r.addr, size |-> n, zero |-> z]}

\* The size asked of libc for a plain block holds the block and its alignment.
LEMMA PlainSizeCovers ==
    ASSUME PoolOnLogAssumption, NEW size \in Nat \ {0}, NEW align \in Nat, align <= PlainAlign
    PROVE  /\ Logging!PlainSize(size, align) \in Nat \ {0}
           /\ Logging!PlainSize(size, align) >= size /\ Logging!PlainSize(size, align) >= align
  <1>1. PlainAlign \in Nat /\ MaxAlignSize \in Nat \ {0} /\ MaxAlignSize >= PlainAlign
    BY DEF PoolOnLogAssumption
  <1> QED
    BY <1>1 DEF Logging!PlainSize

\* An address on what malloc owes the plain size is on the alignment asked for.
LEMMA PlainAligned ==
    ASSUME PoolOnLogAssumption, NEW size \in Nat \ {0}, NEW align \in Nat,
           tda_layout_is_align(align), align <= PlainAlign, NEW a \in Nat,
           a % Logging!Owed(Logging!PlainSize(size, align)) = 0
    PROVE  a % align = 0
  <1> DEFINE n == Logging!PlainSize(size, align)
             o == Logging!Owed(n)
  <1>1. n \in Nat /\ align <= n
    BY PlainSizeCovers
  <1>2. o \in Nat \ {0} /\ o % align = 0
    BY <1>1, OwedServes
  <1>3. align \in Nat \ {0} /\ a \in Int
    BY DEF tda_layout_is_align
  <1>4. a % o = 0
    OBVIOUS
  <1> HIDE DEF o, n
  <1> QED
    BY <1>2, <1>3, <1>4, ModTrans, Zenon

LEMMA DefaultAllocServes ==
    ASSUME PoolAssumption, PoolOnLogAssumption, NEW h, HeapOK(h), NEW l,
           l.size \in Nat \ {0}, l.align \in Nat, tda_layout_is_align(l.align),
           NEW r \in Logging!DefaultAlloc(h, l)
    PROVE  Serves(h, l, FALSE, r) /\ r.addr \in HeapAddrs
  <1>1. CASE Logging!IsPlain(l.align)
    <2> DEFINE n == Logging!PlainSize(l.size, l.align)
    <2>1. n \in Nat \ {0} /\ n >= l.size /\ l.align <= PlainAlign
      BY <1>1, PlainSizeCovers DEF Logging!IsPlain
    <2>2. r \in Logging!malloc(h, n)
      BY <1>1 DEF Logging!DefaultAlloc
    <2> HIDE DEF n
    <2>3. PICK a \in Logging!Room(h, n, Logging!Owed(n)) : r = Logging!WithChunk(h, a, n, 0)
      BY <2>2 DEF Logging!malloc
    <2>4. r.addr = a /\ r.heap = h \cup {[addr |-> a, size |-> n, zero |-> 0]}
      BY <2>3 DEF Logging!WithChunk
    <2>5. Vacant(h, a, n) /\ a % Logging!Owed(n) = 0
      BY <2>1, RoomIsVacant
    <2>6. a \in HeapAddrs /\ a \in Nat
      BY <2>5, HeapIsNat DEF Vacant
    <2>7. a % l.align = 0
      BY <2>1, <2>5, <2>6, PlainAligned DEF n
    <2> QED
      BY <2>1, <2>4, <2>5, <2>6, <2>7 DEF Serves
  <1>2. CASE ~Logging!IsPlain(l.align)
    <2> DEFINE n == AlignCkdUp(l.size, l.align)
    <2>1. r \in Logging!aligned_alloc(h, l.align, n) /\ n # Null
      BY <1>2 DEF Logging!DefaultAlloc, Logging!AlignCkdUp, AlignCkdUp
    <2>2. l.align \in Nat \ {0} /\ SizeMax \in Nat
      BY DEF tda_layout_is_align, PoolAssumption
    <2>3. n \in Nat \ {0} /\ n >= l.size
      <3>1. n \in Nat /\ n >= l.size
        BY <2>1, <2>2, AlignCkdUpCovers, Zenon
      <3> HIDE DEF n
      <3> QED
        BY <3>1
    <2> HIDE DEF n
    <2>4. PICK a \in Logging!Room(h, n, l.align) : r = Logging!WithChunk(h, a, n, 0)
      BY <2>1 DEF Logging!aligned_alloc
    <2>5. r.addr = a /\ r.heap = h \cup {[addr |-> a, size |-> n, zero |-> 0]}
      BY <2>4 DEF Logging!WithChunk
    <2>6. Vacant(h, a, n) /\ a % l.align = 0 /\ a \in HeapAddrs
      BY <2>3, RoomIsVacant DEF Vacant
    <2> QED
      BY <2>3, <2>5, <2>6 DEF Serves
  <1> QED
    BY <1>1, <1>2

\* calloc zeroes all it gives; the memset of an aligned block reaches just the new chunk, which
\* no other has the address of.
LEMMA DefaultAllocZeroedServes ==
    ASSUME PoolAssumption, PoolOnLogAssumption, NEW h, HeapOK(h), NEW l,
           l.size \in Nat \ {0}, l.align \in Nat, tda_layout_is_align(l.align),
           NEW r \in Logging!DefaultAllocZeroed(h, l)
    PROVE  Serves(h, l, TRUE, r) /\ r.addr \in HeapAddrs
  <1>1. CASE Logging!IsPlain(l.align)
    <2> DEFINE n == Logging!PlainSize(l.size, l.align)
    <2>1. n \in Nat \ {0} /\ n >= l.size /\ l.align <= PlainAlign
      BY <1>1, PlainSizeCovers DEF Logging!IsPlain
    <2>2. r \in Logging!calloc(h, n)
      BY <1>1 DEF Logging!DefaultAllocZeroed
    <2> HIDE DEF n
    <2>3. PICK a \in Logging!Room(h, n, Logging!Owed(n)) : r = Logging!WithChunk(h, a, n, n)
      BY <2>2 DEF Logging!calloc
    <2>4. r.addr = a /\ r.heap = h \cup {[addr |-> a, size |-> n, zero |-> n]}
      BY <2>3 DEF Logging!WithChunk
    <2>5. Vacant(h, a, n) /\ a % Logging!Owed(n) = 0
      BY <2>1, RoomIsVacant
    <2>6. a \in HeapAddrs /\ a \in Nat
      BY <2>5, HeapIsNat DEF Vacant
    <2>7. a % l.align = 0
      BY <2>1, <2>5, <2>6, PlainAligned DEF n
    <2> QED
      BY <2>1, <2>4, <2>5, <2>6, <2>7 DEF Serves
  <1>2. CASE ~Logging!IsPlain(l.align)
    <2> DEFINE Zero(q) == {IF c.addr = q.addr THEN [c EXCEPT !.zero = l.size] ELSE c : c \in q.heap}
    <2>1. PICK q \in Logging!DefaultAlloc(h, l) : r = [addr |-> q.addr, heap |-> Zero(q)]
      BY <1>2 DEF Logging!DefaultAllocZeroed
    <2>2. Serves(h, l, FALSE, q) /\ q.addr \in HeapAddrs
      BY DefaultAllocServes
    <2>3. PICK n \in Nat \ {0}, z \in Nat :
              /\ n >= l.size /\ Vacant(h, q.addr, n) /\ q.addr % l.align = 0
              /\ q.heap = h \cup {[addr |-> q.addr, size |-> n, zero |-> z]}
      BY <2>2 DEF Serves
    <2>4. \A c \in h : c.addr # q.addr
      BY <2>3, HeapGrows
    <2>5. Zero(q) = h \cup {[addr |-> q.addr, size |-> n, zero |-> l.size]}
      <3> DEFINE k == [addr |-> q.addr, size |-> n, zero |-> z]
                 F(c) == IF c.addr = q.addr THEN [c EXCEPT !.zero = l.size] ELSE c
      <3>1. F(k) = [addr |-> q.addr, size |-> n, zero |-> l.size]
        OBVIOUS
      <3>2. \A c \in h : F(c) = c
        BY <2>4
      <3>3. {F(c) : c \in h \cup {k}} = {F(c) : c \in h} \cup {F(k)}
        OBVIOUS
      <3>4. {F(c) : c \in h} = h
        BY <3>2
      <3> QED
        BY <2>3, <3>1, <3>3, <3>4
    <2>6. r.addr = q.addr /\ r.heap = Zero(q)
      BY <2>1
    <2> HIDE DEF Zero
    <2>7. l.size \in Nat /\ l.size >= l.size
      OBVIOUS
    <2> QED
      BY <2>2, <2>3, <2>5, <2>6, <2>7 DEF Serves
  <1> QED
    BY <1>1, <1>2

-----------------------------------------------------------------------------
(* What the callers hold, what libc has out, and what the log says.         *)

Holding == [addr : HeapAddrs, size : Nat \ {0}, align : Nat \ {0}, zeroed : BOOLEAN]

Line(b) == Logging!Line(b)

\* the chunk c is the memory of the block b
Backs(c, b) == c.addr = b.addr /\ c.size >= b.size /\ (b.zeroed => c.zero >= b.size)

\* the blocks of hd are at addresses of their own, and on their alignment
HeldOK(hd) ==
    /\ hd \subseteq Holding /\ IsFiniteSet(hd)
    /\ \A b \in hd : tda_layout_is_align(b.align) /\ b.addr % b.align = 0
    /\ \A b, c \in hd : b.addr = c.addr => b = c

\* the chunks of h are the memory of the blocks of hd, one to one
Matched(h, hd) ==
    /\ Cardinality(h) = Cardinality(hd)
    /\ \A b \in hd : \E c \in h : Backs(c, b)
    /\ \A c \in h : \E b \in hd : b.addr = c.addr

LogOK(h, hd, td) ==
    HeapOK(h) /\ HeldOK(hd) /\ Matched(h, hd) /\ td = {Line(b) : b \in hd}

\* LogAddsUp is not inductive: that a free, or a realloc, takes out the chunk of the block it
\* is given, and no other, needs the chunks apart and the blocks at addresses of their own.
LogInv == IF on THEN LogOK(libc, held, told) ELSE libc = {} /\ held = {}

\* A block and its chunk come together ...
LEMMA AddKeeps ==
    ASSUME PoolOnLogAssumption, NEW h, NEW hd, NEW td, LogOK(h, hd, td),
           NEW b \in Holding, tda_layout_is_align(b.align), b.addr % b.align = 0,
           NEW n \in Nat \ {0}, NEW z \in Nat, n >= b.size, b.zeroed => z >= b.size,
           Vacant(h, b.addr, n)
    PROVE  /\ LogOK(h \cup {[addr |-> b.addr, size |-> n, zero |-> z]}, hd \cup {b}, td \cup {Line(b)})
           /\ \A c \in hd : c.addr # b.addr
  <1> DEFINE k == [addr |-> b.addr, size |-> n, zero |-> z]
  <1>1. HeapOK(h \cup {k}) /\ \A c \in h : c.addr # b.addr
    BY HeapGrows DEF LogOK
  <1>2. k.addr = b.addr /\ k.size = n /\ k.zero = z
    OBVIOUS
  <1> HIDE DEF k
  <1>3. \A c \in hd : c.addr # b.addr
    BY <1>1 DEF LogOK, Matched, Backs
  <1>4. b \notin hd /\ k \notin h
    BY <1>1, <1>2, <1>3
  <1>5. IsFiniteSet(hd \cup {b})
    BY FS_AddElement DEF LogOK, HeldOK
  <1>6. HeldOK(hd \cup {b})
    BY <1>3, <1>5 DEF LogOK, HeldOK
  <1>7. Cardinality(h \cup {k}) = Cardinality(hd \cup {b})
    <2>1. IsFiniteSet(h) /\ IsFiniteSet(hd) /\ Cardinality(h) = Cardinality(hd)
      BY DEF LogOK, HeldOK, HeapOK, Matched
    <2>2. Cardinality(h \cup {k}) = Cardinality(h) + 1
      BY <1>4, <2>1, FS_AddElement
    <2>3. Cardinality(hd \cup {b}) = Cardinality(hd) + 1
      BY <1>4, <2>1, FS_AddElement
    <2> QED
      BY <2>1, <2>2, <2>3
  <1>8. Backs(k, b)
    BY <1>2 DEF Backs
  <1>9. Matched(h \cup {k}, hd \cup {b})
    BY <1>2, <1>7, <1>8 DEF LogOK, Matched
  <1>10. td \cup {Line(b)} = {Line(c) : c \in hd \cup {b}}
    BY DEF LogOK
  <1> QED
    BY <1>1, <1>3, <1>6, <1>9, <1>10 DEF LogOK, k

\* ... and go together.
LEMMA RemoveKeeps ==
    ASSUME PoolOnLogAssumption, NEW h, NEW hd, NEW td, LogOK(h, hd, td), NEW b \in hd
    PROVE  /\ LogOK(Logging!free(h, b.addr), hd \ {b}, td \ {Line(b)})
           /\ \E k \in h : Backs(k, b) /\ Logging!free(h, b.addr) = h \ {k}
  <1>1. PICK k \in h : Backs(k, b)
    BY DEF LogOK, Matched
  <1>2. k.addr = b.addr
    BY <1>1 DEF Backs
  <1>3. Logging!free(h, b.addr) = h \ {k}
    <2>1. Logging!ChunkAt(h, k.addr) = k
      BY ChunkAtIs DEF LogOK
    <2> QED
      BY <1>2, <2>1 DEF Logging!free
  <1>4. HeapOK(h \ {k}) /\ HeldOK(hd \ {b})
    BY FS_RemoveElement DEF LogOK, HeapOK, HeldOK
  <1>5. Cardinality(h \ {k}) = Cardinality(hd \ {b})
    <2>1. IsFiniteSet(h) /\ IsFiniteSet(hd) /\ Cardinality(h) = Cardinality(hd)
      BY DEF LogOK, HeldOK, HeapOK, Matched
    <2>2. Cardinality(h \ {k}) = Cardinality(h) - 1
      BY <2>1, FS_RemoveElement
    <2>3. Cardinality(hd \ {b}) = Cardinality(hd) - 1
      BY <2>1, FS_RemoveElement
    <2> QED
      BY <2>1, <2>2, <2>3
  <1>6. \A c \in h : c.addr = k.addr => c = k
    BY ChunkFields DEF LogOK, HeapOK
  <1>7. \A c \in hd : c.addr = b.addr => c = b
    BY DEF LogOK, HeldOK
  <1>8. Matched(h \ {k}, hd \ {b})
    <2>1. ASSUME NEW c \in hd \ {b} PROVE \E d \in h \ {k} : Backs(d, c)
      <3>1. PICK d \in h : Backs(d, c)
        BY DEF LogOK, Matched
      <3>2. d # k
        BY <1>2, <1>7, <3>1 DEF Backs
      <3> QED
        BY <3>1, <3>2
    <2>2. ASSUME NEW d \in h \ {k} PROVE \E c \in hd \ {b} : c.addr = d.addr
      <3>1. PICK c \in hd : c.addr = d.addr
        BY DEF LogOK, Matched
      <3>2. c # b
        BY <1>2, <1>6, <3>1
      <3> QED
        BY <3>1, <3>2
    <2> QED
      BY <1>5, <2>1, <2>2 DEF Matched
  <1>9. td \ {Line(b)} = {Line(c) : c \in hd \ {b}}
    <2>1. \A c \in hd : Line(c) = Line(b) => c = b
      BY <1>7 DEF Line, Logging!Line
    <2> QED
      BY <2>1 DEF LogOK
  <1> QED
    BY <1>1, <1>3, <1>4, <1>8, <1>9 DEF LogOK

-----------------------------------------------------------------------------
(* The operations of the log.                                               *)

\* tda_alloc through the log.
LEMMA LogAllocKeeps ==
    ASSUME PoolAssumption, PoolOnLogAssumption, LogInv,
           NEW l, l.size \in Nat \ {0}, l.align \in Nat \ {0}, tda_layout_is_align(l.align),
           NEW zeroed \in BOOLEAN, NEW a, Logging!tda_alloc(l, zeroed, a)
    PROVE  /\ LogInv' /\ on'
           /\ held' = held \cup {Logging!Blk(a, l, zeroed)}
           /\ a % l.align = 0
           /\ \E n \in Nat \ {0} : n >= l.size /\ Vacant(libc, a, n)
  <1>1. on /\ on' /\ LogOK(libc, held, told)
    BY DEF Logging!tda_alloc, LogInv
  <1>2. PICK r : /\ r \in IF zeroed THEN Logging!DefaultAllocZeroed(libc, l)
                                    ELSE Logging!DefaultAlloc(libc, l)
                 /\ r.addr = a /\ libc' = r.heap
    BY DEF Logging!tda_alloc
  <1>3. Serves(libc, l, zeroed, r) /\ a \in HeapAddrs
    <2>1. HeapOK(libc)
      BY <1>1 DEF LogOK
    <2>2. CASE zeroed
      <3>1. r \in Logging!DefaultAllocZeroed(libc, l)
        BY <1>2, <2>2
      <3>2. Serves(libc, l, TRUE, r) /\ r.addr \in HeapAddrs
        BY <2>1, <3>1, DefaultAllocZeroedServes
      <3> QED
        BY <1>2, <2>2, <3>2 DEF Serves
    <2>3. CASE ~zeroed
      <3>1. r \in Logging!DefaultAlloc(libc, l)
        BY <1>2, <2>3
      <3>2. Serves(libc, l, FALSE, r) /\ r.addr \in HeapAddrs
        BY <2>1, <3>1, DefaultAllocServes
      <3> QED
        BY <1>2, <2>3, <3>2 DEF Serves
    <2> QED
      BY <2>2, <2>3
  <1>4. PICK n \in Nat \ {0}, z \in Nat :
            /\ n >= l.size /\ (zeroed => z >= l.size)
            /\ Vacant(libc, a, n) /\ a % l.align = 0
            /\ libc' = libc \cup {[addr |-> a, size |-> n, zero |-> z]}
    BY <1>2, <1>3 DEF Serves
  <1> DEFINE b == Logging!Blk(a, l, zeroed)
  <1>5. /\ b \in Holding /\ b.addr = a /\ b.size = l.size /\ b.align = l.align
        /\ b.zeroed = zeroed
    BY <1>3 DEF Logging!Blk, Holding
  <1>6. held' = held \cup {b} /\ told' = told \cup {Line(b)}
    BY DEF Logging!tda_alloc, Line
  <1> HIDE DEF b
  <1>7. LogOK(libc', held', told')
    BY <1>1, <1>4, <1>5, <1>6, AddKeeps
  <1> QED
    BY <1>1, <1>4, <1>6, <1>7 DEF LogInv, b

\* tda_dealloc through the log.
LEMMA LogDeallocKeeps ==
    ASSUME PoolOnLogAssumption, LogInv, NEW b \in held, Logging!tda_dealloc(b)
    PROVE  LogInv' /\ held' = held \ {b}
  <1>1. on /\ on' /\ LogOK(libc, held, told)
    BY DEF Logging!tda_dealloc, LogInv
  <1>2. told' = told \ {Line(b)} /\ libc' = Logging!free(libc, b.addr) /\ held' = held \ {b}
    BY DEF Logging!tda_dealloc, Logging!DefaultDealloc, Line
  <1> QED
    BY <1>1, <1>2, RemoveKeeps DEF LogInv

\* The block a realloc leaves in place of b.
Moved(b, a, size) == [b EXCEPT !.addr = a, !.size = size, !.zeroed = FALSE]

LEMMA MovedFields ==
    ASSUME NEW b \in Holding, NEW a \in HeapAddrs, NEW size \in Nat \ {0}
    PROVE  /\ Moved(b, a, size) \in Holding
           /\ Moved(b, a, size).addr = a /\ Moved(b, a, size).size = size
           /\ Moved(b, a, size).align = b.align /\ ~Moved(b, a, size).zeroed
  BY DEF Moved, Holding

\* What is vacant stays so when a chunk goes.
LEMMA VacantAfterFree ==
    ASSUME NEW h, NEW g, g \subseteq h, NEW a, NEW n, Vacant(h, a, n)
    PROVE  Vacant(g, a, n)
  BY DEF Vacant

\* tda_realloc by libc's realloc: the chunk goes and one comes, where it lay or elsewhere.
LEMMA LogRemapKeeps ==
    ASSUME PoolAssumption, PoolOnLogAssumption, LogInv, NEW b \in held, NEW size \in Nat \ {0},
           Logging!ReallocRemaps(b, size)
    PROVE  \E a \in HeapAddrs, n \in Nat \ {0} :
              /\ LogInv' /\ held' = (held \ {b}) \cup {Moved(b, a, size)}
              /\ a % b.align = 0 /\ n >= size
              /\ \/ Vacant(libc, a, n)
                 \/ a = b.addr /\ Vacant(Logging!free(libc, b.addr), a, n)
  <1>1. on /\ on' /\ LogOK(libc, held, told)
    BY DEF Logging!ReallocRemaps, LogInv
  <1>2. PICK r \in Logging!DefaultRemap(libc, b, size) :
            /\ libc' = r.heap /\ held' = (held \ {b}) \cup {Moved(b, r.addr, size)}
            /\ told' = (told \ {Line(b)}) \cup {Line(Moved(b, r.addr, size))}
    BY DEF Logging!ReallocRemaps, Logging!RemapLine, Line, Moved
  <1> DEFINE n == Logging!PlainSize(size, b.align)
             g == Logging!free(libc, b.addr)
  <1>3. b \in Holding /\ b.align \in Nat \ {0} /\ tda_layout_is_align(b.align) /\ b.addr \in HeapAddrs
    BY <1>1 DEF LogOK, HeldOK, Holding
  <1>4. b.align <= PlainAlign /\ r \in Logging!realloc(libc, b.addr, n)
    BY <1>2 DEF Logging!DefaultRemap, Logging!IsPlain
  <1>5. n \in Nat \ {0} /\ n >= size
    BY <1>3, <1>4, PlainSizeCovers
  <1>6. LogOK(g, held \ {b}, told \ {Line(b)}) /\ g \subseteq libc
    <2>1. LogOK(g, held \ {b}, told \ {Line(b)}) /\ \E k \in libc : g = libc \ {k}
      BY <1>1, RemoveKeeps, Zenon
    <2> QED
      BY <2>1
  <1> HIDE DEF n, g
  <1>7. PICK a \in Logging!Room(libc, n, Logging!Owed(n)) \cup (Logging!Room(g, n, Logging!Owed(n)) \cap {b.addr}) :
            r = Logging!WithChunk(g, a, n, 0)
    BY <1>4 DEF Logging!realloc, g
  <1>8. r.addr = a /\ r.heap = g \cup {[addr |-> a, size |-> n, zero |-> 0]}
    BY <1>7 DEF Logging!WithChunk
  <1>9. /\ a % Logging!Owed(n) = 0
        /\ Vacant(libc, a, n) \/ (a = b.addr /\ Vacant(g, a, n))
    <2>1. CASE a \in Logging!Room(libc, n, Logging!Owed(n))
      BY <1>1, <1>5, <2>1, RoomIsVacant DEF LogOK
    <2>2. CASE a \in Logging!Room(g, n, Logging!Owed(n)) /\ a = b.addr
      BY <1>5, <1>6, <2>2, RoomIsVacant DEF LogOK
    <2> QED
      BY <1>7, <2>1, <2>2
  <1>10. Vacant(g, a, n)
    BY <1>6, <1>9, VacantAfterFree
  <1>11. a \in HeapAddrs
    BY <1>10 DEF Vacant
  <1>12. a % b.align = 0
    <2>1. a \in Nat
      BY <1>11, HeapIsNat, Zenon
    <2> QED
      BY <1>3, <1>4, <1>9, <2>1, PlainAligned DEF n
  <1> DEFINE c == Moved(b, a, size)
  <1>13. c \in Holding /\ c.addr = a /\ c.size = size /\ c.align = b.align /\ ~c.zeroed
    BY <1>3, <1>11, MovedFields
  <1> HIDE DEF c
  <1>14. LogOK(g \cup {[addr |-> c.addr, size |-> n, zero |-> 0]}, (held \ {b}) \cup {c},
               (told \ {Line(b)}) \cup {Line(c)})
    <2>1. 0 \in Nat /\ (c.zeroed => 0 >= c.size) /\ n >= c.size /\ Vacant(g, c.addr, n)
      BY <1>5, <1>10, <1>13
    <2>2. tda_layout_is_align(c.align) /\ c.addr % c.align = 0
      BY <1>3, <1>12, <1>13
    <2>3. c \in Holding /\ n \in Nat \ {0}
      BY <1>5, <1>13
    <2> QED
      BY <1>6, <2>1, <2>2, <2>3, AddKeeps, Zenon
  <1>15. LogInv'
    BY <1>1, <1>2, <1>8, <1>13, <1>14 DEF LogInv, c
  <1> QED
    BY <1>2, <1>5, <1>8, <1>9, <1>11, <1>12, <1>15 DEF g

\* tda_realloc by a new block, a copy and a free.
LEMMA LogMoveKeeps ==
    ASSUME PoolAssumption, PoolOnLogAssumption, LogInv, NEW b \in held, NEW size \in Nat \ {0},
           Logging!ReallocMoves(b, size)
    PROVE  \E a \in HeapAddrs, n \in Nat \ {0} :
              /\ LogInv' /\ held' = (held \ {b}) \cup {Moved(b, a, size)}
              /\ a % b.align = 0 /\ n >= size /\ Vacant(libc, a, n)
  <1> DEFINE l == [size |-> size, align |-> b.align]
  <1>1. on /\ on' /\ LogOK(libc, held, told)
    BY DEF Logging!ReallocMoves, LogInv
  <1>2. PICK r \in Logging!DefaultAlloc(libc, l) :
            /\ libc' = Logging!free(r.heap, b.addr)
            /\ held' = (held \ {b}) \cup {Moved(b, r.addr, size)}
            /\ told' = (told \cup {Line(Moved(b, r.addr, size))}) \ {Line(b)}
    BY DEF Logging!ReallocMoves, Logging!DefaultDealloc, Line, Moved
  <1>3. b \in Holding /\ b.align \in Nat \ {0} /\ tda_layout_is_align(b.align) /\ b.addr \in HeapAddrs
    BY <1>1 DEF LogOK, HeldOK, Holding
  <1>4. l.size = size /\ l.align = b.align
    OBVIOUS
  <1> HIDE DEF l
  <1>5. Serves(libc, l, FALSE, r) /\ r.addr \in HeapAddrs
    BY <1>1, <1>3, <1>4, DefaultAllocServes DEF LogOK
  <1>6. PICK a \in HeapAddrs : a = r.addr
    BY <1>5
  <1>7. PICK n \in Nat \ {0}, z \in Nat :
            /\ n >= size /\ Vacant(libc, a, n) /\ a % b.align = 0
            /\ r.heap = libc \cup {[addr |-> a, size |-> n, zero |-> z]}
    BY <1>4, <1>5, <1>6 DEF Serves
  <1> DEFINE c == Moved(b, a, size)
  <1>8. c \in Holding /\ c.addr = a /\ c.size = size /\ c.align = b.align /\ ~c.zeroed
    BY <1>3, MovedFields
  <1> HIDE DEF c
  <1>9. LogOK(r.heap, held \cup {c}, told \cup {Line(c)}) /\ \A d \in held : d.addr # c.addr
    <2>1. (c.zeroed => z >= c.size) /\ n >= c.size /\ Vacant(libc, c.addr, n)
      BY <1>7, <1>8
    <2>2. r.heap = libc \cup {[addr |-> c.addr, size |-> n, zero |-> z]}
      BY <1>7, <1>8
    <2>3. tda_layout_is_align(c.align) /\ c.addr % c.align = 0
      BY <1>3, <1>7, <1>8
    <2>4. /\ LogOK(libc \cup {[addr |-> c.addr, size |-> n, zero |-> z]}, held \cup {c},
                   told \cup {Line(c)})
          /\ \A d \in held : d.addr # c.addr
      BY <1>1, <1>8, <2>1, <2>3, AddKeeps, Zenon
    <2> QED
      BY <2>2, <2>4
  <1>10. b \in held \cup {c} /\ (held \cup {c}) \ {b} = (held \ {b}) \cup {c}
    BY <1>9
  <1>11. LogOK(Logging!free(r.heap, b.addr), (held \cup {c}) \ {b}, (told \cup {Line(c)}) \ {Line(b)})
    BY <1>9, <1>10, RemoveKeeps
  <1>12. LogInv'
    BY <1>1, <1>2, <1>6, <1>10, <1>11 DEF LogInv, c
  <1> QED
    BY <1>2, <1>6, <1>7, <1>12

-----------------------------------------------------------------------------
(* The pool on the log.                                                     *)

\* the pool's array is one of the blocks of the log
ArrayLogged == lent \subseteq {Line(b) : b \in held}

BothInv == PoolInv /\ LogInv /\ ArrayLogged

\* Every step of the whole is a step of the pool, or none of its.
LEMMA BothStepsPool == ASSUME [NextBoth]_all PROVE [Next]_vars
  BY DEF NextBoth, all, PoolInitCap, PoolInitBuf, PoolDeinit, PoolStep, LogStep, Next

\* tda_pool_init_cap asks the log for its array.
LEMMA PoolInitCapKeeps ==
    ASSUME PoolAssumption, PoolOnLogAssumption, BothInv, PoolInv',
           NEW base \in Bases, NEW count \in Counts, NEW size \in Sizes, NEW align \in Aligns,
           PoolInitCap(base, count, size, align)
    PROVE  \E l : /\ l.size \in Nat \ {0} /\ l.align \in Nat \ {0} /\ tda_layout_is_align(l.align)
                  /\ Logging!tda_alloc(l, FALSE, base)
                  /\ LogInv' /\ ArrayLogged'
  <1>1. PICK b \in lent' \ lent : Logging!tda_alloc(Line(b), FALSE, base)
    BY DEF PoolInitCap, Line
  <1>2. lent' = {ArrayLayout'} /\ data' # Null
    BY <1>1 DEF PoolInv, PoolSound, ParentIsOwed
  <1>3. b = ArrayLayout' /\ data' = base
    BY <1>1, <1>2 DEF PoolInitCap, tda_pool_init_cap, Fill
  <1>4. /\ block_size' \in Nat \ {0} /\ block_count' \in Nat \ {0}
        /\ block_align' \in Aligns \cup {PtrAlign}
    BY <1>2 DEF PoolInv, PoolSound, TypeOK, Cut
  <1>5. /\ b.addr = base /\ b.size = block_size' * block_count' /\ b.align = block_align'
    BY <1>3 DEF ArrayLayout
  <1>6. b.size \in Nat \ {0} /\ b.align \in Nat \ {0} /\ tda_layout_is_align(b.align)
    <2>1. block_size' * block_count' \in Nat \ {0}
      BY <1>4, ArrayHasSize
    <2>2. block_align' \in Nat \ {0} /\ tda_layout_is_align(block_align')
      BY <1>4 DEF PoolAssumption
    <2> QED
      BY <1>5, <2>1, <2>2
  <1>7. b = [addr |-> base, size |-> b.size, align |-> b.align]
    BY <1>3, <1>5 DEF ArrayLayout
  <1>8. Line(b).size = b.size /\ Line(b).align = b.align
    BY DEF Line, Logging!Line
  <1> DEFINE l == Line(b)
             k == Logging!Blk(base, l, FALSE)
  <1>9. l.size \in Nat \ {0} /\ l.align \in Nat \ {0} /\ tda_layout_is_align(l.align)
    BY <1>6, <1>8
  <1>10. Line(k) = b
    BY <1>7, <1>8 DEF Line, Logging!Line, Logging!Blk
  <1> HIDE DEF l, k
  <1>11. LogInv' /\ held' = held \cup {k}
    BY <1>1, <1>9, LogAllocKeeps DEF BothInv, l, k
  <1>12. ArrayLogged'
    BY <1>2, <1>3, <1>10, <1>11 DEF ArrayLogged
  <1> QED
    BY <1>1, <1>9, <1>11, <1>12 DEF l

\* tda_pool_deinit gives the array back to the log, or has none to give.
LEMMA PoolDeinitKeeps ==
    ASSUME PoolAssumption, PoolOnLogAssumption, BothInv, PoolInv', PoolDeinit
    PROVE  LogInv' /\ ArrayLogged' /\ held' \subseteq held
  <1>1. lent' = {}
    BY DEF PoolInv, PoolSound, ParentIsOwed, PoolDeinit, tda_pool_deinit
  <1>2. CASE lent = lent'
    BY <1>1, <1>2 DEF PoolDeinit, logvars, BothInv, LogInv, ArrayLogged
  <1>3. CASE lent # lent'
    <2>1. PICK b \in held : Logging!tda_dealloc(b)
      BY <1>3 DEF PoolDeinit
    <2>2. LogInv' /\ held' = held \ {b}
      BY <2>1, LogDeallocKeeps DEF BothInv
    <2> QED
      BY <1>1, <2>2 DEF ArrayLogged
  <1> QED
    BY <1>2, <1>3

\* The other callers of the log leave the pool's array alone.
LEMMA LogStepKeeps ==
    ASSUME PoolAssumption, PoolOnLogAssumption, BothInv, LogStep
    PROVE  LogInv' /\ ArrayLogged'
  <1>1. lent' = lent
    BY DEF LogStep, vars
  <1>2. ASSUME NEW b \in Others PROVE b \in held /\ lent \subseteq {Line(c) : c \in held \ {b}}
    <2>1. b \in held /\ Line(b) \notin lent
      BY DEF Others, Line
    <2> QED
      BY <2>1 DEF BothInv, ArrayLogged
  <1>3. CASE Logging!tda_log_init
    <2>1. libc' = {} /\ held' = {} /\ told' = {} /\ on'
      BY <1>3 DEF Logging!tda_log_init, BothInv, LogInv
    <2>2. LogOK(libc', held', told')
      BY <2>1, FS_EmptySet DEF LogOK, HeapOK, HeldOK, Matched
    <2> QED
      BY <1>1, <1>3, <2>1, <2>2 DEF LogInv, ArrayLogged, BothInv, Logging!tda_log_init
  <1>4. CASE Logging!tda_log_deinit
    <2>1. held' = {} /\ libc' = libc /\ on /\ ~on' /\ held' = held
      BY <1>4 DEF Logging!tda_log_deinit
    <2>2. libc = {}
      BY <2>1 DEF BothInv, LogInv, LogOK, Matched
    <2> QED
      BY <1>1, <2>1, <2>2 DEF LogInv, ArrayLogged, BothInv
  <1>5. ASSUME NEW l \in Layouts, NEW zeroed \in BOOLEAN, NEW a \in HeapAddrs,
               Logging!tda_alloc(l, zeroed, a)
        PROVE  LogInv' /\ ArrayLogged'
    <2>1. l.size \in Nat \ {0} /\ l.align \in Nat \ {0} /\ tda_layout_is_align(l.align)
      BY DEF PoolOnLogAssumption
    <2>2. LogInv' /\ held' = held \cup {Logging!Blk(a, l, zeroed)}
      BY <1>5, <2>1, LogAllocKeeps DEF BothInv
    <2> QED
      BY <1>1, <2>2 DEF BothInv, ArrayLogged
  <1>6. ASSUME NEW b \in Others, Logging!tda_dealloc(b) PROVE LogInv' /\ ArrayLogged'
    <2>1. LogInv' /\ held' = held \ {b}
      BY <1>2, <1>6, LogDeallocKeeps DEF BothInv
    <2> QED
      BY <1>1, <1>2, <2>1 DEF ArrayLogged
  <1>7. ASSUME NEW b \in Others, NEW l \in Layouts,
               Logging!ReallocRemaps(b, l.size) \/ Logging!ReallocMoves(b, l.size)
        PROVE  LogInv' /\ ArrayLogged'
    <2>1. l.size \in Nat \ {0} /\ b \in held
      BY <1>2 DEF PoolOnLogAssumption
    <2>2. \E a \in HeapAddrs : LogInv' /\ held' = (held \ {b}) \cup {Moved(b, a, l.size)}
      BY <1>7, <2>1, LogRemapKeeps, LogMoveKeeps DEF BothInv
    <2> QED
      BY <1>1, <1>2, <2>2 DEF ArrayLogged
  <1> QED
    BY <1>3, <1>4, <1>5, <1>6, <1>7 DEF LogStep

LEMMA BothNextKeeps ==
    ASSUME PoolAssumption, PoolOnLogAssumption, BothInv, [NextBoth]_all
    PROVE  BothInv'
  <1>1. PoolInv'
    BY BothStepsPool, PoolNextKeeps DEF BothInv
  <1>2. CASE UNCHANGED logvars /\ lent' = lent
    <2>1. LogInv' /\ ArrayLogged'
      BY <1>2 DEF BothInv, logvars, LogInv, ArrayLogged
    <2> QED
      BY <1>1, <2>1 DEF BothInv
  <1>3. ASSUME NEW base \in Bases, NEW count \in Counts, NEW size \in Sizes, NEW align \in Aligns,
               PoolInitCap(base, count, size, align)
        PROVE  BothInv'
    BY <1>1, <1>3, PoolInitCapKeeps DEF BothInv
  <1>4. CASE PoolDeinit
    BY <1>1, <1>4, PoolDeinitKeeps DEF BothInv
  <1>5. CASE LogStep
    BY <1>1, <1>5, LogStepKeeps DEF BothInv
  <1>6. CASE \E base \in Bases, c \in Caps, size \in Sizes, align \in Aligns :
                PoolInitBuf(base, c, size, align)
    BY <1>2, <1>6 DEF PoolInitBuf, tda_pool_init_buf
  <1>7. CASE PoolStep
    BY <1>2, <1>7 DEF PoolStep, tda_alloc, tda_dealloc, tda_realloc, tda_pool_reset
  <1>8. CASE UNCHANGED all
    BY <1>2, <1>8 DEF all, vars
  <1> QED
    BY <1>3, <1>4, <1>5, <1>6, <1>7, <1>8 DEF NextBoth

THEOREM BothInvariant == SpecBoth => []BothInv
  <1>1. InitBoth => BothInv
    BY InitKeeps, PoolAssumption
       DEF InitBoth, BothInv, LogInv, ArrayLogged, Logging!Init, Init
  <1>2. BothInv /\ [NextBoth]_all => BothInv'
    BY BothNextKeeps, PoolAssumption, PoolOnLogAssumption
  <1> QED
    BY <1>1, <1>2, PTL DEF SpecBoth

\* The list of free blocks is exact, the blocks stay in their region and on their alignment,
\* and the parent is owed just the array of a live pool, whatever pool.c is asked to do and in
\* whatever order the blocks come back.
THEOREM PoolIsSound == SpecBoth => []PoolSound
  <1>1. BothInv => PoolSound
    BY DEF BothInv, PoolInv
  <1> QED
    BY <1>1, BothInvariant, PTL

\* A pool keeps the hook contract of alloc.h also when its parent has other callers.
THEOREM PoolImplementsAllocator == SpecBoth => ImplementsAllocator
  <1>1. InitBoth => Init
    BY DEF InitBoth
  <1>2. [NextBoth]_all => [Next]_vars
    BY BothStepsPool
  <1> QED
    BY <1>1, <1>2, PoolImplements, PTL DEF SpecBoth, Spec

\* The chunks of libc are the blocks held, whatever the log was asked (log.c, default.c).
LEMMA LogInvAddsUp ==
    ASSUME PoolOnLogAssumption, BothInv
    PROVE  LogAddsUp
  <1>1. CASE ~on
    <2>1. libc = {} /\ held = {}
      BY <1>1 DEF BothInv, LogInv
    <2> QED
      BY <1>1, <2>1 DEF BothInv, ArrayLogged, Line, LogAddsUp, Logging!LogIsTrue, Logging!ChunksAreBlocks
  <1>2. CASE on
    <2>1. LogOK(libc, held, told)
      BY <1>2 DEF BothInv, LogInv
    <2>2. Logging!LogIsTrue
      BY <2>1 DEF LogOK, Logging!LogIsTrue, Line
    <2>3. ASSUME NEW b \in held
          PROVE  LET c == Logging!ChunkAt(libc, b.addr)
                 IN  c.size >= b.size /\ (b.zeroed => c.zero >= b.size)
      <3>1. PICK k \in libc : Backs(k, b)
        BY <2>1 DEF LogOK, Matched
      <3>2. Logging!ChunkAt(libc, b.addr) = k
        BY <2>1, <3>1, ChunkAtIs DEF LogOK, Backs
      <3> QED
        BY <3>1, <3>2 DEF Backs
    <2>4. {c.addr : c \in libc} = {b.addr : b \in held}
      BY <2>1 DEF LogOK, Matched, Backs
    <2>5. Logging!Cardinality(libc) = Logging!Cardinality(held)
      BY <2>1 DEF LogOK, Matched, Cardinality, Logging!Cardinality
    <2>6. Logging!ChunksAreBlocks
      BY <2>3, <2>4, <2>5 DEF Logging!ChunksAreBlocks
    <2> QED
      BY <2>2, <2>6 DEF BothInv, ArrayLogged, Line, LogAddsUp
  <1> QED
    BY <1>1, <1>2

\* What the log says adds up to the blocks out, libc has out just one chunk for each, long and
\* zero enough, and the pool's array is among them.
THEOREM LogAddsUpAlways == SpecBoth => []LogAddsUp
  <1>1. BothInv => LogAddsUp
    BY LogInvAddsUp, PoolOnLogAssumption
  <1> QED
    BY <1>1, BothInvariant, PTL

-----------------------------------------------------------------------------
(* The default allocator and the log implement the abstract allocator.      *)

Lines == {Line(b) : b \in held}

\* A block over memory that is vacant beside the chunks of some blocks fits beside them.
LEMMA VacantFits ==
    ASSUME PoolOnLogAssumption, NEW h, NEW hd, NEW td, LogOK(h, hd, td),
           NEW n \in Nat \ {0}, NEW x, x.size \in Nat \ {0}, x.size <= n,
           x.addr % x.align = 0, Vacant(h, x.addr, n)
    PROVE  /\ Logging!AllocatorSpec!Fits(x, {Line(b) : b \in hd})
           /\ x \notin {Line(b) : b \in hd}
  <1>1. x.addr \in Nat
    BY HeapIsNat DEF Vacant
  <1>2. ASSUME NEW b \in hd PROVE Logging!AllocatorSpec!Apart(x, Line(b)) /\ Line(b) # x
    <2>1. PICK k \in h : Backs(k, b)
      BY DEF LogOK, Matched
    <2>2. k.addr \in Nat /\ k.size \in Nat /\ k.size > 0 /\ k.addr = b.addr /\ k.size >= b.size
      BY <2>1, ChunkFields DEF LogOK, Backs
    <2>3. k.addr + k.size <= x.addr \/ x.addr + n <= k.addr
      BY DEF Vacant
    <2>4. Line(b).addr = b.addr /\ Line(b).size = b.size
      BY DEF Line, Logging!Line
    <2>5. b.size \in Nat
      BY DEF LogOK, HeldOK, Holding
    <2>6. x.addr # b.addr
      BY <1>1, <2>2, <2>3
    <2>7. x.addr + x.size <= b.addr \/ b.addr + b.size <= x.addr
      BY <1>1, <2>2, <2>3, <2>5
    <2> QED
      BY <2>4, <2>6, <2>7 DEF Logging!AllocatorSpec!Apart
  <1> QED
    BY <1>2 DEF Logging!AllocatorSpec!Fits

\* tda_alloc through the log is a give.
LEMMA LogGives ==
    ASSUME PoolAssumption, PoolOnLogAssumption, LogInv,
           NEW l, l.size \in Nat \ {0}, l.align \in Nat \ {0}, tda_layout_is_align(l.align),
           NEW zeroed \in BOOLEAN, NEW a, Logging!tda_alloc(l, zeroed, a)
    PROVE  Logging!AllocatorSpec!Give
  <1> DEFINE b == Logging!Blk(a, l, zeroed)
             x == Line(b)
  <1>1. /\ held' = held \cup {b} /\ a % l.align = 0
        /\ \E n \in Nat \ {0} : n >= l.size /\ Vacant(libc, a, n)
    BY LogAllocKeeps
  <1>2. LogOK(libc, held, told)
    BY DEF LogInv, Logging!tda_alloc
  <1>3. x.addr = a /\ x.size = l.size /\ x.align = l.align
    BY DEF Line, Logging!Line, Logging!Blk
  <1> HIDE DEF x, b
  <1>4. Lines' = Lines \cup {x}
    BY <1>1 DEF Lines, x
  <1>5. Logging!AllocatorSpec!Fits(x, Lines) /\ x \notin Lines
    BY <1>1, <1>2, <1>3, VacantFits DEF Lines
  <1>6. Lines = {Logging!Line(c) : c \in held} /\ Lines' = {Logging!Line(c) : c \in held'}
    BY DEF Lines, Line
  <1> QED
    BY <1>4, <1>5, <1>6 DEF Logging!AllocatorSpec!Give

\* The lines after a realloc.
LEMMA MovedLines ==
    ASSUME NEW b \in held, HeldOK(held), NEW a, NEW size,
           held' = (held \ {b}) \cup {Moved(b, a, size)}
    PROVE  /\ Lines' = (Lines \ {Line(b)}) \cup {Line(Moved(b, a, size))}
           /\ Lines \ {Line(b)} = {Line(c) : c \in held \ {b}}
  <1>1. \A c \in held : Line(c) = Line(b) => c = b
    BY DEF HeldOK, Line, Logging!Line
  <1>2. Lines \ {Line(b)} = {Line(c) : c \in held \ {b}}
    BY <1>1 DEF Lines
  <1>3. Lines' = {Line(c) : c \in held \ {b}} \cup {Line(Moved(b, a, size))}
    BY DEF Lines
  <1> QED
    BY <1>2, <1>3

\* tda_realloc through the log is a resize, when libc moves nothing, or a move.
LEMMA LogResizesOrMoves ==
    ASSUME PoolAssumption, PoolOnLogAssumption, LogInv, NEW b \in held, NEW size \in Nat \ {0},
           Logging!ReallocRemaps(b, size) \/ Logging!ReallocMoves(b, size)
    PROVE  Logging!AllocatorSpec!Resize \/ Logging!AllocatorSpec!Move
  <1>1. LogOK(libc, held, told)
    BY DEF LogInv, Logging!ReallocRemaps, Logging!ReallocMoves
  <1>2. PICK a \in HeapAddrs, n \in Nat \ {0} :
            /\ held' = (held \ {b}) \cup {Moved(b, a, size)}
            /\ a % b.align = 0 /\ n >= size
            /\ \/ Vacant(libc, a, n)
               \/ a = b.addr /\ Vacant(Logging!free(libc, b.addr), a, n)
    BY LogRemapKeeps, LogMoveKeeps
  <1> DEFINE x == Line(Moved(b, a, size))
             y == Line(b)
  <1>3. b \in Holding
    BY <1>1 DEF LogOK, HeldOK
  <1>4. x.addr = a /\ x.size = size /\ x.align = b.align /\ y.addr = b.addr /\ y.align = b.align
    BY <1>3, MovedFields DEF Line, Logging!Line
  <1>5. Lines' = (Lines \ {y}) \cup {x} /\ Lines \ {y} = {Line(c) : c \in held \ {b}}
    BY <1>1, <1>2, MovedLines DEF LogOK
  <1>6. y \in Lines
    BY DEF Lines
  <1> HIDE DEF x, y
  <1>7. Lines = {Logging!Line(c) : c \in held} /\ Lines' = {Logging!Line(c) : c \in held'}
    BY DEF Lines, Line
  <1>8. CASE Vacant(libc, a, n)
    <2>1. Logging!AllocatorSpec!Fits(x, Lines) /\ x \notin Lines
      BY <1>1, <1>2, <1>4, <1>8, VacantFits DEF Lines
    <2> QED
      BY <1>4, <1>5, <1>6, <1>7, <2>1 DEF Logging!AllocatorSpec!Move
  <1>9. CASE a = b.addr /\ Vacant(Logging!free(libc, b.addr), a, n)
    <2>1. LogOK(Logging!free(libc, b.addr), held \ {b}, told \ {Line(b)})
      BY <1>1, RemoveKeeps
    <2>2. Logging!AllocatorSpec!Fits(x, Lines \ {y})
      BY <1>2, <1>4, <1>5, <1>9, <2>1, VacantFits
    <2> QED
      BY <1>4, <1>5, <1>6, <1>7, <1>9, <2>2 DEF Logging!AllocatorSpec!Resize
  <1> QED
    BY <1>2, <1>8, <1>9

\* The default allocator, and the log on it, keep the hook contract of alloc.h with the pool
\* and with every other caller.
THEOREM LogImplements == SpecBoth => LogImplementsAllocator
  <1>1. InitBoth => Logging!AllocatorSpec!Init
    BY DEF InitBoth, Logging!Init, Logging!AllocatorSpec!Init
  <1>2. ASSUME BothInv, [NextBoth]_all
        PROVE  [Logging!AllocatorSpec!Next]_{Logging!Line(b) : b \in held}
    <2>1. CASE held' \subseteq held
      BY <2>1 DEF Logging!AllocatorSpec!Next, Logging!AllocatorSpec!TakeBack
    <2>2. PoolInv'
      BY <1>2, BothNextKeeps, PoolAssumption, PoolOnLogAssumption DEF BothInv
    <2>3. ASSUME NEW base \in Bases, NEW count \in Counts, NEW size \in Sizes, NEW align \in Aligns,
                 PoolInitCap(base, count, size, align)
          PROVE  Logging!AllocatorSpec!Next
      BY <1>2, <2>2, <2>3, PoolInitCapKeeps, LogGives, PoolAssumption, PoolOnLogAssumption
         DEF BothInv, Logging!AllocatorSpec!Next
    <2>4. CASE PoolDeinit
      BY <1>2, <2>1, <2>2, <2>4, PoolDeinitKeeps, PoolAssumption, PoolOnLogAssumption
    <2>5. CASE LogStep
      <3>1. ASSUME NEW l \in Layouts, NEW zeroed \in BOOLEAN, NEW a \in HeapAddrs,
                   Logging!tda_alloc(l, zeroed, a)
            PROVE  Logging!AllocatorSpec!Next
        <4>1. l.size \in Nat \ {0} /\ l.align \in Nat \ {0} /\ tda_layout_is_align(l.align)
          BY PoolOnLogAssumption DEF PoolOnLogAssumption
        <4> QED
          BY <1>2, <3>1, <4>1, LogGives, PoolAssumption, PoolOnLogAssumption
             DEF BothInv, Logging!AllocatorSpec!Next
      <3>2. ASSUME NEW b \in Others, NEW l \in Layouts,
                   Logging!ReallocRemaps(b, l.size) \/ Logging!ReallocMoves(b, l.size)
            PROVE  Logging!AllocatorSpec!Next
        <4>1. l.size \in Nat \ {0} /\ b \in held
          BY PoolOnLogAssumption DEF PoolOnLogAssumption, Others
        <4> QED
          BY <1>2, <3>2, <4>1, LogResizesOrMoves, PoolAssumption, PoolOnLogAssumption
             DEF BothInv, Logging!AllocatorSpec!Next
      <3> QED
        BY <2>1, <2>5, <3>1, <3>2
           DEF LogStep, Logging!tda_log_init, Logging!tda_log_deinit, Logging!tda_dealloc
    <2>6. CASE UNCHANGED logvars
      BY <2>1, <2>6 DEF logvars
    <2> QED
      BY <1>2, <2>3, <2>4, <2>5, <2>6 DEF NextBoth, all, PoolInitBuf, PoolStep
  <1> QED
    BY <1>1, <1>2, BothInvariant, PTL
       DEF SpecBoth, LogImplementsAllocator, Logging!ImplementsAllocator, Logging!AllocatorSpec!Spec
=============================================================================
