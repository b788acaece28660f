------------------------------ MODULE VecProofs -----------------------------
(***************************************************************************)
(* Proofs about the vec and what is built on it: first the vec, the arr and *)
(* the stack, side by side on the same allocators, then the priority queue; *)
(* for every SIZE_MAX, any elems and orders, and any number of handles,     *)
(* allocators and raw blocks.                                               *)
(*                                                                         *)
(* Each vec stands alone in one lemma per helper: the block it was on or a  *)
(* new one, and elems below the length.  What a call does to the heap is    *)
(* the same for all (Good): the old block out, the new one in.  So that no  *)
(* two holders meet, blocks have different numbers (HeldApart).  What a     *)
(* call of a priority queue does to the heap of blocks is what the call of  *)
(* the vec does.                                                            *)
(*                                                                         *)
(* What a sift does is stated of the keys of the elems alone: the keys are  *)
(* in order but at one place, and a turn mends the order there and breaks   *)
(* it at the next.                                                          *)
(***************************************************************************)
EXTENDS Arrays, PQueue, LayoutProofs, SequenceTheorems

Slot == Elem \cup {Garbage}

-----------------------------------------------------------------------------
(* One vec.                                                                 *)

Shaped(q) == q = [al |-> q.al, data |-> q.data, cap |-> q.cap, len |-> q.len, slots |-> q.slots]

\* What is known of the fields of a vec, and what makes one.
LEMMA VecFields ==
    ASSUME VecAssumption, NEW q, IsVec(q)
    PROVE  /\ Shaped(q)
           /\ q.al \in Als \cup {Null} /\ q.data \in Nat \cup {Null}
           /\ q.cap \in Sizes /\ q.cap \in Nat /\ q.len \in Nat /\ q.len <= q.cap
           /\ q.slots \in [0 .. q.cap - 1 -> Slot]
           /\ DOMAIN q.slots = 0 .. q.cap - 1
           /\ (q.data = Null) <=> (q.cap = 0)
           /\ \A i \in 0 .. q.len - 1 : q.slots[i] \in Elem
           /\ q.al = Null => q = Zeroed
  <1>1. q \in [al : Als \cup {Null}, data : Nat \cup {Null}, cap : Sizes, len : 0 .. q.cap,
              slots : [0 .. q.cap - 1 -> Slot]]
    BY DEF IsVec, Slot
  <1>2. /\ Shaped(q)
        /\ q.al \in Als \cup {Null} /\ q.data \in Nat \cup {Null}
        /\ q.cap \in Sizes /\ q.len \in 0 .. q.cap
        /\ q.slots \in [0 .. q.cap - 1 -> Slot]
        /\ DOMAIN q.slots = 0 .. q.cap - 1
    BY <1>1 DEF Shaped
  <1>3. q.cap \in Nat
    BY <1>2 DEF Sizes, VecAssumption
  <1> QED
    BY <1>2, <1>3 DEF IsVec

LEMMA FieldsMakeVec ==
    ASSUME VecAssumption, NEW q, Shaped(q), q.al \in Als, q.data \in Nat \cup {Null},
           q.cap \in Sizes, q.len \in 0 .. q.cap, q.slots \in [0 .. q.cap - 1 -> Slot],
           (q.data = Null) <=> (q.cap = 0), \A i \in 0 .. q.len - 1 : q.slots[i] \in Elem
    PROVE  IsVec(q)
  <1>1. q \in [al : Als \cup {Null}, data : Nat \cup {Null}, cap : Sizes, len : 0 .. q.cap,
              slots : [0 .. q.cap - 1 -> Elem \cup {Garbage}]]
    BY DEF Shaped, Slot
  <1>2. q.al # Null
    BY DEF VecAssumption
  <1> QED
    BY <1>1, <1>2 DEF IsVec

LEMMA EmptyIsVec ==
    ASSUME VecAssumption, NEW al \in Als \cup {Null}
    PROVE  /\ IsVec(Empty(al)) /\ Empty(al).data = Null /\ Empty(al).al = al
           /\ Empty(al).cap = 0 /\ Empty(al).len = 0
  <1> DEFINE nil == SlotsOf(<<>>, 0)
  <1>1. 0 \in Sizes /\ 0 .. 0 - 1 = {}
    BY DEF Sizes, VecAssumption
  <1>2. nil \in [0 .. 0 - 1 -> Elem \cup {Garbage}]
    BY <1>1 DEF SlotsOf
  <1> HIDE DEF nil
  <1>3. /\ Empty(al) = [al |-> al, data |-> Null, cap |-> 0, len |-> 0, slots |-> nil]
        /\ Empty(al).data = Null /\ Empty(al).al = al /\ Empty(al).cap = 0 /\ Empty(al).len = 0
        /\ Empty(al).slots = nil
    BY DEF Empty, nil
  <1>4. al = Null => Empty(al) = Zeroed
    BY DEF Zeroed
  <1>5. 0 \in 0 .. 0 /\ \A i \in 0 .. 0 - 1 : Empty(al).slots[i] \in Elem
    BY <1>1
  <1>6. IsVec(Empty(al))
    BY <1>1, <1>2, <1>3, <1>4, <1>5 DEF IsVec
  <1> QED
    BY <1>3, <1>6

\* p is on the block of q, which is not resized
InPlace(q, p) ==
    /\ Shaped(p) /\ p.al = q.al /\ p.data = q.data /\ p.cap = q.cap
    /\ p.slots \in [0 .. q.cap - 1 -> Slot]

LEMMA BlockFields ==
    ASSUME NEW q
    PROVE  BlockOf(q).id = q.data /\ BlockOf(q).al = q.al /\ BlockOf(q).cap = q.cap
  BY DEF BlockOf

LEMMA InPlaceIsVec ==
    ASSUME VecAssumption, NEW q, IsVec(q), q.al \in Als, NEW p, InPlace(q, p),
           p.len \in 0 .. q.cap, \A i \in 0 .. p.len - 1 : p.slots[i] \in Elem
    PROVE  IsVec(p) /\ BlockOf(p) = BlockOf(q)
  BY VecFields, FieldsMakeVec DEF InPlace, BlockOf

LEMMA InPlaceItself ==
    ASSUME VecAssumption, NEW q, IsVec(q)
    PROVE  InPlace(q, q)
  BY VecFields DEF InPlace

\* The elems of a vec as a sequence, and how many there are.
LEMMA SpanLen ==
    ASSUME NEW n \in Nat, NEW S, NEW s \in [1 .. n -> S]
    PROVE  s \in Seq(S) /\ Len(s) = n
  OBVIOUS

LEMMA ContentsAre ==
    ASSUME VecAssumption, NEW q, IsVec(q)
    PROVE  /\ Contents(q) \in [1 .. q.len -> Elem] /\ Len(Contents(q)) = q.len
           /\ \A i \in 1 .. q.len : Contents(q)[i] = q.slots[i - 1]
  <1>1. q.len \in Nat /\ \A i \in 0 .. q.len - 1 : q.slots[i] \in Elem
    BY VecFields
  <1>2. Contents(q) \in [1 .. q.len -> Elem] /\ \A i \in 1 .. q.len : Contents(q)[i] = q.slots[i - 1]
    BY <1>1 DEF Contents
  <1> QED
    BY <1>1, <1>2, SpanLen

-----------------------------------------------------------------------------
(* Moves and copies within a block, and from outside.                       *)

\* a vec whose slots past the length, or below it for the moment, may hold anything
OnBlock(q) ==
    /\ Shaped(q) /\ q.cap \in Nat /\ q.len \in Nat /\ q.slots \in [0 .. q.cap - 1 -> Slot]

LEMMA VecOnBlock ==
    ASSUME VecAssumption, NEW q, IsVec(q)
    PROVE  OnBlock(q) /\ q.len <= q.cap
  BY VecFields DEF OnBlock

LEMMA InPlaceOnBlock ==
    ASSUME NEW q, OnBlock(q), NEW p, InPlace(q, p), p.len \in Nat
    PROVE  OnBlock(p)
  BY DEF OnBlock, InPlace

LEMMA InPlaceTrans ==
    ASSUME NEW q, NEW p, NEW o, InPlace(q, p), InPlace(p, o)
    PROVE  InPlace(q, o)
  BY DEF InPlace

LEMMA SlotsChange ==
    ASSUME NEW q, OnBlock(q), NEW ws \in [0 .. q.cap - 1 -> Slot], NEW p, p = [q EXCEPT !.slots = ws]
    PROVE  InPlace(q, p) /\ p.len = q.len /\ p.slots = ws
  BY DEF OnBlock, InPlace, Shaped

WithLen(q, n) == [q EXCEPT !.len = n]

LEMMA LenChanges ==
    ASSUME NEW q, OnBlock(q), NEW n, NEW p, p = WithLen(q, n)
    PROVE  InPlace(q, p) /\ p.len = n /\ p.slots = q.slots
  BY DEF OnBlock, InPlace, Shaped, WithLen

LEMMA MovedSlots ==
    ASSUME NEW q, OnBlock(q), NEW to \in Nat, NEW from \in Nat, NEW count \in Nat,
           from + count <= q.cap
    PROVE  /\ InPlace(q, Moved(q, to, from, count)) /\ Moved(q, to, from, count).len = q.len
           /\ \A s \in 0 .. q.cap - 1 :
                 Moved(q, to, from, count).slots[s] =
                     IF s \in to .. to + count - 1 THEN q.slots[from + (s - to)] ELSE q.slots[s]
  <1> DEFINE ws == [s \in DOMAIN q.slots |->
                       IF s \in to .. to + count - 1 THEN q.slots[from + (s - to)] ELSE q.slots[s]]
  <1>1. q.cap \in Nat /\ q.slots \in [0 .. q.cap - 1 -> Slot] /\ DOMAIN q.slots = 0 .. q.cap - 1
    BY DEF OnBlock
  <1>2. \A s \in to .. to + count - 1 : from + (s - to) \in 0 .. q.cap - 1
    BY <1>1
  <1>3. ws \in [0 .. q.cap - 1 -> Slot]
    BY <1>1, <1>2
  <1>4. Moved(q, to, from, count) = [q EXCEPT !.slots = ws]
    BY DEF Moved
  <1> HIDE DEF ws
  <1>5. /\ InPlace(q, Moved(q, to, from, count)) /\ Moved(q, to, from, count).len = q.len
        /\ Moved(q, to, from, count).slots = ws
    BY <1>3, <1>4, SlotsChange
  <1> QED
    BY <1>1, <1>5 DEF ws

LEMMA CopiedSlots ==
    ASSUME NEW q, OnBlock(q), NEW to \in 0 .. q.cap - 1, NEW from \in 0 .. q.cap - 1, to # from
    PROVE  /\ InPlace(q, Copied(q, to, from)) /\ Copied(q, to, from).len = q.len
           /\ \A s \in 0 .. q.cap - 1 :
                 Copied(q, to, from).slots[s] = IF s = to THEN q.slots[from] ELSE q.slots[s]
  <1> DEFINE ws == [q.slots EXCEPT ![to] = q.slots[from]]
  <1>1. q.slots \in [0 .. q.cap - 1 -> Slot]
    BY DEF OnBlock
  <1>2. ws \in [0 .. q.cap - 1 -> Slot]
    BY <1>1
  <1>3. Copied(q, to, from) = [q EXCEPT !.slots = ws]
    BY DEF Copied
  <1> HIDE DEF ws
  <1>4. /\ InPlace(q, Copied(q, to, from)) /\ Copied(q, to, from).len = q.len
        /\ Copied(q, to, from).slots = ws
    BY <1>2, <1>3, SlotsChange
  <1> QED
    BY <1>1, <1>4 DEF ws

LEMMA FilledSlots ==
    ASSUME NEW q, OnBlock(q), NEW idx \in Nat, NEW n \in Nat, NEW src \in [1 .. n -> Elem]
    PROVE  /\ InPlace(q, Filled(q, idx, src)) /\ Filled(q, idx, src).len = q.len
           /\ \A s \in 0 .. q.cap - 1 :
                 Filled(q, idx, src).slots[s] =
                     IF s \in idx .. idx + n - 1 THEN src[s - idx + 1] ELSE q.slots[s]
  <1> DEFINE ws == [s \in DOMAIN q.slots |->
                       IF s \in idx .. idx + n - 1 THEN src[s - idx + 1] ELSE q.slots[s]]
  <1>1. q.cap \in Nat /\ q.slots \in [0 .. q.cap - 1 -> Slot] /\ DOMAIN q.slots = 0 .. q.cap - 1
    BY DEF OnBlock
  <1>2. \A s \in idx .. idx + n - 1 : s - idx + 1 \in 1 .. n
    OBVIOUS
  <1>3. ws \in [0 .. q.cap - 1 -> Slot]
    BY <1>1, <1>2 DEF Slot
  <1>4. Filled(q, idx, src) = [q EXCEPT !.slots = ws]
    BY SpanLen DEF Filled
  <1> HIDE DEF ws
  <1>5. /\ InPlace(q, Filled(q, idx, src)) /\ Filled(q, idx, src).len = q.len
        /\ Filled(q, idx, src).slots = ws
    BY <1>3, <1>4, SlotsChange
  <1> QED
    BY <1>1, <1>5 DEF ws

\* A caller's elem over one slot.
LEMMA FilledOne ==
    ASSUME NEW q, OnBlock(q), NEW idx \in Nat, NEW x \in Elem
    PROVE  /\ InPlace(q, Filled(q, idx, <<x>>)) /\ Filled(q, idx, <<x>>).len = q.len
           /\ \A s \in 0 .. q.cap - 1 :
                 Filled(q, idx, <<x>>).slots[s] = IF s = idx THEN x ELSE q.slots[s]
  <1> DEFINE src == <<x>>
  <1>1. PICK n \in Nat : n = 1
    OBVIOUS
  <1>2. src[1] = x
    OBVIOUS
  <1>3. src \in [1 .. n -> Elem]
    BY <1>1
  <1> HIDE DEF src
  <1>4. /\ InPlace(q, Filled(q, idx, src)) /\ Filled(q, idx, src).len = q.len
        /\ \A s \in 0 .. q.cap - 1 :
              Filled(q, idx, src).slots[s] =
                  IF s \in idx .. idx + n - 1 THEN src[s - idx + 1] ELSE q.slots[s]
    BY <1>3, FilledSlots
  <1>5. q.cap \in Nat
    BY DEF OnBlock
  <1>6. \A s \in 0 .. q.cap - 1 : Filled(q, idx, src).slots[s] = IF s = idx THEN x ELSE q.slots[s]
    BY <1>1, <1>2, <1>4, <1>5
  <1> QED
    BY <1>4, <1>6 DEF src

\* Forgetting the slots past the length changes neither the elems nor the block.
LEMMA TidyIsVec ==
    ASSUME VecAssumption, NEW q, IsVec(q)
    PROVE  /\ IsVec(Tidy(q)) /\ Tidy(q).data = q.data /\ Tidy(q).al = q.al
           /\ Tidy(q).cap = q.cap /\ Tidy(q).len = q.len /\ BlockOf(Tidy(q)) = BlockOf(q)
  <1> DEFINE ws == SlotsOf(Contents(q), q.cap)
  <1>1. /\ q.cap \in Nat /\ q.len \in Nat /\ q.len <= q.cap
        /\ \A i \in 0 .. q.len - 1 : q.slots[i] \in Elem
    BY VecFields
  <1>2. Len(Contents(q)) = q.len /\ \A i \in 1 .. q.len : Contents(q)[i] = q.slots[i - 1]
    BY ContentsAre
  <1>3. /\ ws = [s \in 0 .. q.cap - 1 |-> IF s < q.len THEN Contents(q)[s + 1] ELSE Garbage]
        /\ \A i \in 0 .. q.len - 1 : ws[i] = q.slots[i]
    BY <1>1, <1>2 DEF SlotsOf
  <1>4. \A i \in 0 .. q.cap - 1 : i < q.len => Contents(q)[i + 1] \in Elem
    BY <1>1, <1>2
  <1>5. ws \in [0 .. q.cap - 1 -> Slot]
    BY <1>3, <1>4 DEF Slot
  <1>6. Tidy(q) = [q EXCEPT !.slots = ws]
    BY DEF Tidy
  <1> HIDE DEF ws
  <1>7. InPlace(q, Tidy(q)) /\ Tidy(q).len = q.len /\ Tidy(q).slots = ws
    BY <1>5, <1>6, SlotsChange, VecOnBlock
  <1>8. CASE q.al = Null
    <2>1. q = Zeroed
      BY <1>8, VecFields
    <2>2. q.cap = 0 /\ DOMAIN q.slots = 0 .. 0 - 1
      BY <2>1, VecFields, EmptyIsVec DEF Zeroed
    <2>3. q.slots = ws
      BY <1>5, <2>2, VecFields
    <2>4. Tidy(q) = q
      BY <1>6, <2>3, VecFields DEF Shaped
    <2> QED
      BY <2>4
  <1>9. CASE q.al # Null
    <2>1. q.al \in Als
      BY <1>9, VecFields
    <2>2. Tidy(q).len \in 0 .. q.cap /\ \A i \in 0 .. Tidy(q).len - 1 : Tidy(q).slots[i] \in Elem
      <3>1. \A i \in 0 .. q.len - 1 : ws[i] \in Elem
        BY <1>1, <1>3
      <3> QED
        BY <1>1, <1>7, <3>1
    <2>3. IsVec(Tidy(q)) /\ BlockOf(Tidy(q)) = BlockOf(q)
      BY <1>7, <2>1, <2>2, InPlaceIsVec
    <2> QED
      BY <1>7, <2>3 DEF InPlace
  <1> QED
    BY <1>8, <1>9

-----------------------------------------------------------------------------
(* The invariant.  BlocksOwned counts the blocks; what an operation needs   *)
(* and keeps is that no two holders, vecs or callers, have a block of the   *)
(* same number.                                                             *)

Owners == {d \in Names : vecs[d].data # Null}

HeldApart ==
    /\ heap = {BlockOf(vecs[d]) : d \in Owners} \cup {BlockOf(q) : q \in raws}
    /\ \A d, e \in Owners : vecs[d].data = vecs[e].data => d = e
    /\ \A p, q \in raws : p.data = q.data => p = q
    /\ \A d \in Owners, q \in raws : vecs[d].data # q.data
    /\ \A q \in raws : q.data # Null
    /\ IsFiniteSet(raws)

VecInv ==
    /\ vecs = [d \in Names |-> vecs[d]]
    /\ \A d \in Names : IsVec(vecs[d])
    /\ \A q \in raws : IsVec(q)
    /\ HeldApart

\* The blocks that are out are finitely many, as many as they have holders, and their
\* numbers are numbers.
LEMMA HeapFinite ==
    ASSUME VecAssumption, VecInv
    PROVE  /\ IsFiniteSet(heap) /\ \A b \in heap : b.id \in Nat
           /\ Cardinality(heap) = Cardinality(Owners) + Cardinality(raws)
  <1> DEFINE f == [d \in Owners |-> BlockOf(vecs[d])]
             g == [q \in raws |-> BlockOf(q)]
             F == {f[d] : d \in Owners}
             G == {g[q] : q \in raws}
  <1>1. IsFiniteSet(Owners) /\ IsFiniteSet(raws)
    BY FS_Subset DEF Owners, VecAssumption, VecInv, HeldApart
  <1>2. \A d, e \in Owners : f[d] = f[e] => d = e
    BY BlockFields DEF VecInv, HeldApart
  <1>3. \A p, q \in raws : g[p] = g[q] => p = q
    BY BlockFields DEF VecInv, HeldApart
  <1>4. /\ f = [d \in Owners |-> f[d]] /\ g = [q \in raws |-> g[q]]
        /\ heap = F \cup G
    BY DEF VecInv, HeldApart
  <1>5. F \cap G = {}
    BY BlockFields DEF VecInv, HeldApart
  <1> HIDE DEF f, g
  <1>6. IsFiniteSet(F) /\ Cardinality(F) = Cardinality(Owners)
    BY <1>1, <1>2, <1>4, OneEach
  <1>7. IsFiniteSet(G) /\ Cardinality(G) = Cardinality(raws)
    BY <1>1, <1>3, <1>4, OneEach
  <1> HIDE DEF F, G
  <1>8. IsFiniteSet(heap) /\ Cardinality(heap) = Cardinality(Owners) + Cardinality(raws)
    <2>1. IsFiniteSet(F \cup G) /\ Cardinality(F \cup G) = Cardinality(F) + Cardinality(G) - Cardinality(F \cap G)
      BY <1>6, <1>7, FS_Union
    <2>2. Cardinality(F \cap G) = 0 /\ Cardinality(F) \in Nat /\ Cardinality(G) \in Nat
      BY <1>5, <1>6, <1>7, FS_EmptySet, FS_CardinalityType
    <2> QED
      BY <1>4, <1>6, <1>7, <2>1, <2>2
  <1>9. ASSUME NEW b \in heap PROVE b.id \in Nat
    <2>1. CASE \E d \in Owners : b = BlockOf(vecs[d])
      BY <2>1, BlockFields, VecFields DEF VecInv, Owners
    <2>2. CASE \E q \in raws : b = BlockOf(q)
      BY <2>2, BlockFields, VecFields DEF VecInv, HeldApart
    <2> QED
      BY <2>1, <2>2 DEF VecInv, HeldApart
  <1> QED
    BY <1>8, <1>9

\* A block that an allocator serves is one that is not out.
LEMMA FreshIdIsFresh ==
    ASSUME VecAssumption, VecInv
    PROVE  FreshId(heap) \in Nat /\ \A b \in heap : b.id # FreshId(heap)
  <1>1. \E id \in 1 .. Cardinality(heap) + 1 : \A b \in heap : b.id # id
    BY HeapFinite, FreshNumber
  <1>2. /\ FreshId(heap) \in 1 .. Cardinality(heap) + 1
        /\ \A b \in heap : b.id # FreshId(heap)
    BY <1>1 DEF FreshId
  <1>3. Cardinality(heap) \in Nat
    BY HeapFinite, FS_CardinalityType
  <1> QED
    BY <1>2, <1>3

\* the heap once the vec p has become q
HeapWith(p, q) == (heap \ {BlockOf(p)}) \cup IF q.data = Null THEN {} ELSE {BlockOf(q)}

\* the block of q is that of p, perhaps resized, or one that was not out, or there is none
FromBlock(p, q) == q.data \in {Null, p.data} \/ \A b \in heap : b.id # q.data

\* A step that leaves d a sound vec, on its own block, a fresh one or none, keeps all.
LEMMA OneChanges ==
    ASSUME VecAssumption, VecInv, NEW d \in Names, NEW q, IsVec(q), FromBlock(vecs[d], q),
           vecs' = [vecs EXCEPT ![d] = q], heap' = HeapWith(vecs[d], q), raws' = raws
    PROVE  VecInv'
  <1>1. vecs'[d] = q /\ \A e \in Names : e # d => vecs'[e] = vecs[e]
    BY DEF VecInv
  <1>2. (vecs = [e \in Names |-> vecs[e]])'
    BY DEF VecInv
  <1>3. \A e \in Names : IsVec(vecs'[e])
    BY <1>1 DEF VecInv
  <1>4. \A e \in Names : e # d => (e \in Owners' <=> e \in Owners)
    BY <1>1 DEF Owners
  <1>5. d \in Owners' <=> q.data # Null
    BY <1>1 DEF Owners
  <1>6. ASSUME NEW e \in Owners, e # d
        PROVE  BlockOf(vecs[e]) \in heap' /\ (q.data # Null => vecs[e].data # q.data)
    <2>1. BlockOf(vecs[e]) \in heap /\ BlockOf(vecs[e]).id = vecs[e].data
      BY BlockFields DEF VecInv, HeldApart
    <2>2. e \in Names /\ vecs[e].data # Null
      BY DEF Owners
    <2>3. vecs[e].data # vecs[d].data
      BY <1>6, <2>2 DEF VecInv, HeldApart, Owners
    <2>4. BlockOf(vecs[e]) # BlockOf(vecs[d])
      BY <2>3, BlockFields
    <2> QED
      BY <2>1, <2>2, <2>3, <2>4 DEF HeapWith, FromBlock
  <1>7. ASSUME NEW p \in raws
        PROVE  BlockOf(p) \in heap' /\ (q.data # Null => p.data # q.data)
    <2>1. BlockOf(p) \in heap /\ BlockOf(p).id = p.data /\ p.data # Null
      BY BlockFields DEF VecInv, HeldApart
    <2>2. vecs[d].data # p.data
      BY <2>1 DEF VecInv, HeldApart, Owners
    <2>3. BlockOf(p) # BlockOf(vecs[d])
      BY <2>2, BlockFields
    <2> QED
      BY <2>1, <2>2, <2>3 DEF HeapWith, FromBlock
  <1>8. ASSUME NEW b \in heap'
        PROVE  (\E e \in Owners' : b = BlockOf(vecs'[e])) \/ \E p \in raws' : b = BlockOf(p)
    <2>1. CASE b \in heap /\ b # BlockOf(vecs[d])
      <3>1. CASE \E p \in raws : b = BlockOf(p)
        BY <3>1
      <3>2. CASE \E e \in Owners : b = BlockOf(vecs[e])
        <4>1. PICK e \in Owners : b = BlockOf(vecs[e])
          BY <3>2
        <4>2. e # d /\ e \in Names
          BY <2>1, <4>1 DEF Owners
        <4> QED
          BY <1>1, <1>4, <4>1, <4>2
      <3> QED
        BY <2>1, <3>1, <3>2 DEF VecInv, HeldApart
    <2>2. CASE b = BlockOf(q) /\ q.data # Null
      BY <1>1, <1>5, <2>2
    <2> QED
      BY <1>8, <2>1, <2>2 DEF HeapWith
  <1>9. ASSUME NEW e \in Owners' PROVE BlockOf(vecs'[e]) \in heap'
    <2>1. CASE e = d
      BY <1>1, <1>5, <2>1 DEF HeapWith
    <2>2. CASE e # d
      <3>1. e \in Names
        BY DEF Owners
      <3> QED
        BY <1>1, <1>4, <1>6, <2>2, <3>1
    <2> QED
      BY <2>1, <2>2
  <1>10. heap' = {BlockOf(vecs'[e]) : e \in Owners'} \cup {BlockOf(p) : p \in raws'}
    BY <1>7, <1>8, <1>9
  <1>11. ASSUME NEW e \in Owners', NEW f \in Owners', vecs'[e].data = vecs'[f].data PROVE e = f
    <2>1. e \in Names /\ f \in Names
      BY DEF Owners
    <2> QED
      BY <1>1, <1>4, <1>5, <1>6, <1>11, <2>1 DEF VecInv, HeldApart
  <1>12. ASSUME NEW e \in Owners', NEW p \in raws' PROVE vecs'[e].data # p.data
    <2>1. e \in Names
      BY DEF Owners
    <2> QED
      BY <1>1, <1>4, <1>5, <1>7, <2>1 DEF VecInv, HeldApart
  <1>13. HeldApart'
    BY <1>10, <1>11, <1>12 DEF HeldApart, VecInv, BlockOf
  <1> QED
    BY <1>2, <1>3, <1>13 DEF VecInv

\* A step that changes neither handle nor block keeps all.
LEMMA StutterKeeps ==
    ASSUME VecInv, vecs' = vecs, heap' = heap, raws' = raws
    PROVE  VecInv'
  BY DEF VecInv, HeldApart, Owners

\* an outcome that leaves a sound vec and its block, and nothing else changed
Good(p, r) == IsVec(r.q) /\ FromBlock(p, r.q) /\ r.heap = HeapWith(p, r.q)

\* the step leaves every vec but that of d alone
Only(d) == \A e \in Names \ {d} : vecs'[e] = vecs[e]

\* the step leaves d with the length and the capacity of q
Now(d, q) == Only(d) /\ vecs'[d].len = q.len /\ vecs'[d].cap = q.cap

LEMMA EndsKeeps ==
    ASSUME VecAssumption, VecInv, NEW d \in Names, NEW r, Good(vecs[d], r), NEW c, NEW ok,
           Ends(c, d, r.q, r.heap, ok)
    PROVE  VecInv' /\ Now(d, r.q)
  <1>1. vecs' = [vecs EXCEPT ![d] = Tidy(r.q)] /\ heap' = r.heap /\ raws' = raws
    BY DEF Ends
  <1>2. /\ IsVec(Tidy(r.q)) /\ Tidy(r.q).data = r.q.data /\ BlockOf(Tidy(r.q)) = BlockOf(r.q)
    BY TidyIsVec DEF Good
  <1>3. FromBlock(vecs[d], Tidy(r.q)) /\ heap' = HeapWith(vecs[d], Tidy(r.q))
    BY <1>1, <1>2 DEF Good, FromBlock, HeapWith
  <1>4. Now(d, r.q)
    BY <1>1, TidyIsVec DEF Now, Only, Good, VecInv
  <1> QED
    BY <1>1, <1>2, <1>3, <1>4, OneChanges

\* A vec on the block it had leaves the heap as it was.
LEMMA SameBlock ==
    ASSUME VecAssumption, VecInv, NEW d \in Names, NEW q, BlockOf(q) = BlockOf(vecs[d])
    PROVE  HeapWith(vecs[d], q) = heap /\ FromBlock(vecs[d], q)
  <1>1. q.data = vecs[d].data
    BY BlockFields
  <1>2. CASE q.data = Null
    <2>1. BlockOf(vecs[d]) \notin heap
      BY <1>1, <1>2, BlockFields, HeapFinite DEF VecAssumption
    <2> QED
      BY <1>1, <1>2, <2>1 DEF HeapWith, FromBlock
  <1>3. CASE q.data # Null
    <2>1. BlockOf(vecs[d]) \in heap
      BY <1>1, <1>3 DEF VecInv, HeldApart, Owners
    <2> QED
      BY <1>1, <1>3, <2>1 DEF HeapWith, FromBlock
  <1> QED
    BY <1>2, <1>3

LEMMA SameIsGood ==
    ASSUME VecAssumption, VecInv, NEW d \in Names, NEW r, r.q = vecs[d], r.heap = heap
    PROVE  Good(vecs[d], r)
  BY SameBlock DEF Good, VecInv

\* An outcome whose elems are then rearranged within the block it has is good all the same.
LEMMA InPlaceIsGood ==
    ASSUME VecAssumption, VecInv, NEW d \in Names, NEW q, IsVec(q), q.al \in Als,
           FromBlock(vecs[d], q), NEW r, InPlace(q, r.q), r.q.len \in 0 .. q.cap,
           \A i \in 0 .. r.q.len - 1 : r.q.slots[i] \in Elem, r.heap = HeapWith(vecs[d], q)
    PROVE  Good(vecs[d], r)
  <1>1. IsVec(r.q) /\ BlockOf(r.q) = BlockOf(q)
    BY InPlaceIsVec
  <1>2. r.q.data = q.data
    BY DEF InPlace
  <1> QED
    BY <1>1, <1>2 DEF Good, FromBlock, HeapWith

\* The same for a call that has no need of memory.
LEMMA EndsOkKeeps ==
    ASSUME VecAssumption, VecInv, NEW d \in Names, Alive(d), NEW p, InPlace(vecs[d], p),
           p.len \in 0 .. vecs[d].cap, \A i \in 0 .. p.len - 1 : p.slots[i] \in Elem,
           NEW c, EndsOk(c, d, p)
    PROVE  VecInv' /\ Now(d, p)
  <1> DEFINE r == [q |-> p, heap |-> heap]
  <1>1. IsVec(vecs[d]) /\ vecs[d].al \in Als
    BY VecFields DEF VecInv, Alive
  <1>2. IsVec(p) /\ BlockOf(p) = BlockOf(vecs[d])
    BY <1>1, InPlaceIsVec
  <1>3. r.q = p /\ r.heap = heap
    OBVIOUS
  <1> HIDE DEF r
  <1>4. Good(vecs[d], r)
    BY <1>2, <1>3, SameBlock DEF Good
  <1> QED
    BY <1>3, <1>4, EndsKeeps DEF EndsOk

\* What a call that only reads needs.
LEMMA ReadsKeep ==
    ASSUME VecAssumption, VecInv, NEW d \in Names, Alive(d), NEW c, EndsOk(c, d, vecs[d])
    PROVE  VecInv' /\ Now(d, vecs[d])
  <1>1. IsVec(vecs[d])
    BY DEF VecInv
  <1> QED
    BY <1>1, InPlaceItself, VecFields, EndsOkKeeps

-----------------------------------------------------------------------------
(* Growth.                                                                  *)

IsOutcome(r) == r = Outcome(r.q, r.heap, r.ok)

Refused(q, r) == ~r.ok /\ r.q = q /\ r.heap = heap /\ IsOutcome(r)

\* q has become a vec of at least n slots with the same elems
Grown(q, r, n) ==
    /\ r.ok /\ Good(q, r) /\ IsOutcome(r)
    /\ r.q.cap >= n /\ r.q.len = q.len /\ r.q.al = q.al

LEMMA ReallocSlots ==
    ASSUME VecAssumption, NEW q, IsVec(q), NEW cap \in Nat, NEW ws,
           ws = [s \in 0 .. cap - 1 |-> IF s < q.cap THEN q.slots[s] ELSE Garbage]
    PROVE  ws \in [0 .. cap - 1 -> Slot] /\ \A i \in 0 .. q.len - 1 : i < cap => ws[i] \in Elem
  <1>1. /\ q.cap \in Nat /\ q.len \in Nat /\ q.slots \in [0 .. q.cap - 1 -> Slot] /\ q.len <= q.cap
        /\ \A i \in 0 .. q.len - 1 : q.slots[i] \in Elem
    BY VecFields
  <1>2. \A s \in 0 .. cap - 1 : s < q.cap => s \in 0 .. q.cap - 1
    BY <1>1
  <1>3. ws \in [0 .. cap - 1 -> Slot]
    BY <1>1, <1>2 DEF Slot
  <1>4. ASSUME NEW i \in 0 .. q.len - 1, i < cap PROVE ws[i] = q.slots[i]
    <2>1. i \in 0 .. cap - 1 /\ i < q.cap
      BY <1>1, <1>4
    <2> QED
      BY <2>1
  <1> QED
    BY <1>1, <1>3, <1>4

\* q on a block of just cap slots, its own or a fresh one, with the elems that fit
OnNewBlock(q, r, cap) ==
    /\ r.ok /\ IsOutcome(r) /\ Shaped(r.q)
    /\ r.q.al = q.al /\ r.q.data \in Nat /\ r.q.data # Null /\ r.q.cap = cap /\ r.q.len = q.len
    /\ r.q.slots \in [0 .. cap - 1 -> Slot]
    /\ \A i \in 0 .. q.len - 1 : i < cap => r.q.slots[i] \in Elem
    /\ FromBlock(q, r.q) /\ r.heap = HeapWith(q, r.q)

LEMMA ReallocOutcomes ==
    ASSUME VecAssumption, VecInv, NEW q, IsVec(q), NEW cap \in Sizes, NEW r \in Realloc(q, heap, cap)
    PROVE  Refused(q, r) \/ OnNewBlock(q, r, cap)
  <1> DEFINE ws == [s \in 0 .. cap - 1 |-> IF s < q.cap THEN q.slots[s] ELSE Garbage]
             on(id) == [q EXCEPT !.data = id, !.cap = cap, !.slots = ws]
  <1>1. CASE r = Outcome(q, heap, FALSE)
    BY <1>1 DEF Outcome, Refused, IsOutcome
  <1>2. CASE \E id \in {FreshId(heap)} \cup ({q.data} \ {Null}) :
                r = Outcome(on(id), FreeBlock(q, heap) \cup {BlockOf(on(id))}, TRUE)
    <2>1. PICK id \in {FreshId(heap)} \cup ({q.data} \ {Null}) :
             r = Outcome(on(id), FreeBlock(q, heap) \cup {BlockOf(on(id))}, TRUE)
      BY <1>2
    <2>2. Shaped(q) /\ q.data \in Nat \cup {Null}
      BY VecFields
    <2>3. cap \in Nat /\ Null \notin Nat
      BY DEF Sizes, VecAssumption
    <2>4. ws \in [0 .. cap - 1 -> Slot] /\ \A i \in 0 .. q.len - 1 : i < cap => ws[i] \in Elem
      BY <2>3, ReallocSlots
    <2>5. id \in Nat /\ id # Null /\ (id = q.data \/ \A b \in heap : b.id # id)
      BY <2>2, <2>3, FreshIdIsFresh
    <2> HIDE DEF ws
    <2>6. /\ Shaped(on(id)) /\ on(id).al = q.al /\ on(id).data = id /\ on(id).cap = cap
          /\ on(id).len = q.len /\ on(id).slots = ws
      <3>1. /\ on(id).al = q.al /\ on(id).data = id /\ on(id).cap = cap /\ on(id).len = q.len
            /\ on(id).slots = ws
        BY <2>2 DEF Shaped
      <3>2. PICK p : p = on(id)
        OBVIOUS
      <3>3. Shaped(p)
        BY <2>2, <3>2 DEF Shaped
      <3> QED
        BY <3>1, <3>2, <3>3
    <2> HIDE DEF on
    <2>7. /\ r.q = on(id) /\ r.heap = (heap \ {BlockOf(q)}) \cup {BlockOf(on(id))}
          /\ r.ok /\ IsOutcome(r)
      BY <2>1 DEF FreeBlock, Outcome, IsOutcome
    <2>8. FromBlock(q, r.q) /\ r.heap = HeapWith(q, r.q)
      BY <2>5, <2>6, <2>7 DEF FromBlock, HeapWith
    <2> QED
      BY <2>4, <2>5, <2>6, <2>7, <2>8 DEF OnNewBlock
  <1> QED
    BY <1>1, <1>2 DEF Realloc

\* A new capacity: refused, or a block of just that many slots.
LEMMA SetCapOutcomes ==
    ASSUME VecAssumption, VecInv, NEW q, IsVec(q), q.al \in Als, NEW cap \in Sizes, cap > 0,
           q.len <= cap, NEW r \in SetCap(q, heap, cap)
    PROVE  Refused(q, r) \/ (Grown(q, r, cap) /\ r.q.cap = cap)
  <1>1. CASE r = Outcome(q, heap, FALSE)
    BY <1>1 DEF Outcome, Refused, IsOutcome
  <1>2. CASE r \in Realloc(q, heap, cap)
    <2>1. Refused(q, r) \/ OnNewBlock(q, r, cap)
      BY <1>2, ReallocOutcomes
    <2>2. CASE OnNewBlock(q, r, cap)
      <3>1. q.len \in Nat /\ cap \in Nat
        BY VecFields DEF Sizes, VecAssumption
      <3>2. /\ Shaped(r.q) /\ r.q.al \in Als /\ r.q.data \in Nat \cup {Null} /\ r.q.cap \in Sizes
            /\ r.q.len \in 0 .. r.q.cap /\ r.q.slots \in [0 .. r.q.cap - 1 -> Slot]
            /\ (r.q.data = Null) <=> (r.q.cap = 0)
        BY <2>2, <3>1 DEF OnNewBlock
      <3>3. \A i \in 0 .. r.q.len - 1 : r.q.slots[i] \in Elem
        BY <2>2, <3>1 DEF OnNewBlock
      <3>4. IsVec(r.q)
        BY <3>2, <3>3, FieldsMakeVec
      <3> QED
        BY <2>2, <3>1, <3>4 DEF OnNewBlock, Grown, Good
    <2> QED
      BY <2>1, <2>2
  <1> QED
    BY <1>1, <1>2 DEF SetCap

LEMMA NextCapFits ==
    ASSUME VecAssumption, NEW q, IsVec(q)
    PROVE  NextCap(q) \in Sizes /\ NextCap(q) > 0
  <1>1. q.cap \in Nat /\ q.cap <= SizeMax /\ SizeMax \in Nat /\ SizeMax > 0
    BY VecFields DEF Sizes, VecAssumption
  <1>2. CASE q.cap = 0
    BY <1>1, <1>2 DEF NextCap, Sizes
  <1>3. CASE q.cap # 0 /\ CkdMul(q.cap, 2) = Null
    BY <1>1, <1>3 DEF NextCap, Sizes
  <1>4. CASE q.cap # 0 /\ CkdMul(q.cap, 2) # Null
    <2>1. CkdMul(q.cap, 2) = q.cap * 2 /\ q.cap * 2 <= SizeMax
      BY <1>4 DEF CkdMul
    <2> QED
      BY <1>1, <1>4, <2>1 DEF NextCap, Sizes
  <1> QED
    BY <1>2, <1>3, <1>4

\* Room for n: the vec as it is when it has it, else one with it, or a refusal that leaves it.
LEMMA ReserveForOutcomes ==
    ASSUME VecAssumption, VecInv, NEW d \in Names, Alive(d), NEW n \in Sizes, NEW r \in ReserveFor(vecs[d], heap, n)
    PROVE  /\ Refused(vecs[d], r) \/ Grown(vecs[d], r, n)
           /\ n <= vecs[d].cap => r.ok /\ r.heap = heap
  <1> DEFINE q == vecs[d]
  <1>1. /\ IsVec(q) /\ q.al \in Als /\ q.cap \in Nat /\ q.len \in Nat /\ q.len <= q.cap
        /\ n \in Nat
    BY VecFields DEF VecInv, Alive, Sizes, VecAssumption
  <1>2. CASE n <= q.cap
    <2>1. r = Outcome(q, heap, TRUE)
      BY <1>2 DEF ReserveFor
    <2>2. r.q = q /\ r.heap = heap /\ r.ok /\ IsOutcome(r)
      BY <2>1 DEF Outcome, IsOutcome
    <2>3. Good(q, r)
      BY <2>2, SameIsGood
    <2> QED
      BY <1>1, <1>2, <2>2, <2>3 DEF Grown
  <1>3. CASE ~(n <= q.cap)
    <2> HIDE DEF q
    <2>1. n > 0 /\ q.len <= n /\ ~(n <= q.cap)
      BY <1>1, <1>3
    <2>2. ASSUME NEW s \in SetCap(q, heap, n)
          PROVE  Refused(q, s) \/ Grown(q, s, n)
      BY <1>1, <2>1, <2>2, SetCapOutcomes
    <2>3. CASE NextCap(q) > n
      <3>1. NextCap(q) \in Sizes /\ NextCap(q) > 0 /\ NextCap(q) \in Nat
        BY <1>1, NextCapFits DEF Sizes, VecAssumption
      <3>2. q.len <= NextCap(q)
        BY <1>1, <2>1, <2>3, <3>1
      <3>3. PICK s \in SetCap(q, heap, NextCap(q)) : r \in IF s.ok THEN {s} ELSE SetCap(s.q, s.heap, n)
        BY <2>1, <2>3 DEF ReserveFor, q
      <3>4. Refused(q, s) \/ (Grown(q, s, NextCap(q)) /\ s.q.cap = NextCap(q))
        BY <1>1, <3>1, <3>2, SetCapOutcomes
      <3>5. CASE Refused(q, s)
        <4>1. r \in SetCap(q, heap, n)
          BY <3>3, <3>5 DEF Refused
        <4> QED
          BY <2>2, <4>1, <2>1 DEF q
      <3>6. CASE Grown(q, s, NextCap(q)) /\ s.q.cap = NextCap(q)
        <4>1. r = s /\ r.q.cap >= n
          BY <1>1, <2>3, <3>1, <3>3, <3>6 DEF Grown
        <4> QED
          BY <3>6, <4>1, <2>1 DEF Grown, q
      <3> QED
        BY <3>4, <3>5, <3>6
    <2>4. CASE ~(NextCap(q) > n)
      <3>1. r \in SetCap(q, heap, n)
        BY <2>1, <2>4 DEF ReserveFor, q
      <3> QED
        BY <2>1, <2>2, <3>1 DEF q
    <2> QED
      BY <2>3, <2>4
  <1> QED
    BY <1>2, <1>3

LEMMA ReserveOneOutcomes ==
    ASSUME VecAssumption, VecInv, NEW d \in Names, Alive(d), NEW r \in ReserveOne(vecs[d], heap)
    PROVE  /\ Refused(vecs[d], r) \/ Grown(vecs[d], r, vecs[d].len + 1)
           /\ vecs[d].len < vecs[d].cap => r.ok /\ r.heap = heap
  <1> DEFINE q == vecs[d]
  <1>1. /\ IsVec(q) /\ q.cap \in Nat /\ q.len \in Nat /\ q.len <= q.cap /\ q.cap <= SizeMax
        /\ SizeMax \in Nat
    BY VecFields DEF VecInv, Alive, Sizes, VecAssumption
  <1>2. CASE q.len < q.cap
    <2>1. r = Outcome(q, heap, TRUE)
      BY <1>2 DEF ReserveOne
    <2>2. r.q = q /\ r.heap = heap /\ r.ok /\ IsOutcome(r)
      BY <2>1 DEF Outcome, IsOutcome
    <2>3. Good(q, r)
      BY <2>2, SameIsGood
    <2> QED
      BY <1>1, <1>2, <2>2, <2>3 DEF Grown
  <1>3. CASE ~(q.len < q.cap) /\ q.cap = SizeMax
    <2>1. r = Outcome(q, heap, FALSE)
      BY <1>3 DEF ReserveOne
    <2> QED
      BY <1>3, <2>1 DEF Refused, Outcome, IsOutcome
  <1>4. CASE ~(q.len < q.cap) /\ q.cap # SizeMax
    <2>1. r \in ReserveFor(q, heap, q.cap + 1)
      BY <1>4 DEF ReserveOne
    <2>2. q.cap + 1 \in Sizes
      BY <1>1, <1>4 DEF Sizes
    <2>3. Refused(q, r) \/ Grown(q, r, q.cap + 1)
      BY <2>1, <2>2, ReserveForOutcomes
    <2>4. q.cap + 1 = q.len + 1
      BY <1>1, <1>4
    <2> QED
      BY <1>4, <2>3, <2>4
  <1> QED
    BY <1>2, <1>3, <1>4

\* reserve: the vec as it is, or a block of just the room asked for
LEMMA ReserveOutcomesAre ==
    ASSUME VecAssumption, VecInv, NEW d \in Names, Alive(d), NEW cap \in Sizes, NEW r \in ReserveOutcomes(vecs[d], heap, cap)
    PROVE  Refused(vecs[d], r) \/ Grown(vecs[d], r, cap)
  <1> DEFINE q == vecs[d]
  <1>1. /\ IsVec(q) /\ q.al \in Als /\ q.cap \in Nat /\ q.len \in Nat /\ q.len <= q.cap
        /\ cap \in Nat
    BY VecFields DEF VecInv, Alive, Sizes, VecAssumption
  <1>2. CASE cap <= q.cap
    <2>1. r = Outcome(q, heap, TRUE)
      BY <1>2 DEF ReserveOutcomes
    <2>2. r.q = q /\ r.heap = heap /\ r.ok /\ IsOutcome(r)
      BY <2>1 DEF Outcome, IsOutcome
    <2>3. Good(q, r)
      BY <2>2, SameIsGood
    <2> QED
      BY <1>1, <1>2, <2>2, <2>3 DEF Grown
  <1>3. CASE ~(cap <= q.cap)
    <2>1. r \in SetCap(q, heap, cap) /\ cap > 0 /\ q.len <= cap
      BY <1>1, <1>3 DEF ReserveOutcomes
    <2> QED
      BY <1>1, <2>1, SetCapOutcomes
  <1> QED
    BY <1>2, <1>3

\* A call that was refused memory, and one that goes on within the block it has got.
LEMMA RefusedEnds ==
    ASSUME VecAssumption, VecInv, NEW d \in Names, NEW r, Refused(vecs[d], r), NEW c, NEW ok,
           Ends(c, d, r.q, r.heap, ok)
    PROVE  VecInv' /\ Now(d, vecs[d])
  <1>1. r.q = vecs[d] /\ r.heap = heap
    BY DEF Refused
  <1>2. Good(vecs[d], r)
    BY <1>1, SameIsGood
  <1> QED
    BY <1>1, <1>2, EndsKeeps

LEMMA GrownEnds ==
    ASSUME VecAssumption, VecInv, NEW d \in Names, Alive(d), NEW n, NEW r, Grown(vecs[d], r, n),
           NEW p, InPlace(r.q, p), p.len \in 0 .. r.q.cap,
           \A i \in 0 .. p.len - 1 : p.slots[i] \in Elem,
           NEW c, NEW ok, Ends(c, d, p, r.heap, ok)
    PROVE  VecInv' /\ Now(d, p)
  <1> DEFINE t == [q |-> p, heap |-> r.heap]
  <1>1. t.q = p /\ t.heap = r.heap
    OBVIOUS
  <1> HIDE DEF t
  <1>2. /\ IsVec(r.q) /\ FromBlock(vecs[d], r.q) /\ r.heap = HeapWith(vecs[d], r.q)
        /\ r.q.al \in Als
    BY VecFields DEF Grown, Good, VecInv, Alive
  <1>3. Good(vecs[d], t)
    BY <1>1, <1>2, InPlaceIsGood
  <1> QED
    BY <1>1, <1>3, EndsKeeps

LEMMA GrownFields ==
    ASSUME VecAssumption, VecInv, NEW d \in Names, NEW n, NEW r, Grown(vecs[d], r, n)
    PROVE  /\ OnBlock(r.q) /\ r.ok /\ IsOutcome(r)
           /\ r.q.cap \in Nat /\ r.q.cap >= n /\ r.q.len = vecs[d].len /\ r.q.len \in Nat
           /\ r.q.len <= r.q.cap /\ \A i \in 0 .. r.q.len - 1 : r.q.slots[i] \in Elem
  BY VecOnBlock, VecFields DEF Grown, Good

LEMMA OutcomeWith ==
    ASSUME NEW r, IsOutcome(r), NEW p, NEW s, s = [r EXCEPT !.q = p]
    PROVE  s.q = p /\ s.heap = r.heap /\ s.ok = r.ok
  BY DEF IsOutcome, Outcome

LEMMA AliveVec ==
    ASSUME VecAssumption, VecInv, NEW d \in Names, Alive(d)
    PROVE  /\ OnBlock(vecs[d]) /\ IsVec(vecs[d]) /\ vecs[d].al \in Als
           /\ vecs[d].cap \in Nat /\ vecs[d].len \in Nat /\ vecs[d].len <= vecs[d].cap
           /\ vecs[d].cap \in Sizes
           /\ \A i \in 0 .. vecs[d].len - 1 : vecs[d].slots[i] \in Elem
  BY VecOnBlock, VecFields DEF VecInv, Alive

-----------------------------------------------------------------------------
(* The calls on one vec.                                                    *)

LEMMA SetKeeps ==
    ASSUME VecAssumption, VecInv, NEW d \in Names, Alive(d), NEW idx \in Nat, NEW v \in Vals(vecs[d]),
           tda_vec_set(d, idx, v)
    PROVE  VecInv' /\ Now(d, vecs[d])
  <1> DEFINE q == vecs[d]
             p == IF v.alias THEN Moved(q, idx, v.at, 1) ELSE Filled(q, idx, <<v.at>>)
  <1>1. PICK c : EndsOk(c, d, p)
    BY DEF tda_vec_set
  <1>2. idx < q.len
    BY DEF tda_vec_set
  <1>3. /\ OnBlock(q) /\ q.cap \in Nat /\ q.len \in Nat /\ q.len <= q.cap
        /\ \A i \in 0 .. q.len - 1 : q.slots[i] \in Elem
    BY AliveVec
  <1> HIDE DEF q
  <1>4. /\ InPlace(q, p) /\ p.len = q.len
        /\ \A i \in 0 .. q.len - 1 : p.slots[i] \in Elem
    <2>1. CASE v.alias
      <3>1. p = Moved(q, idx, v.at, 1) /\ v.at \in 0 .. q.len - 1
        BY <2>1 DEF Vals, q
      <3>2. PICK n \in Nat : n = 1
        OBVIOUS
      <3> HIDE DEF p
      <3>3. /\ InPlace(q, p) /\ p.len = q.len
            /\ \A s \in 0 .. q.cap - 1 :
                 p.slots[s] = IF s \in idx .. idx + n - 1 THEN q.slots[v.at + (s - idx)] ELSE q.slots[s]
        <4>1. v.at \in Nat /\ v.at + n <= q.cap
          BY <1>3, <3>1, <3>2
        <4>2. p = Moved(q, idx, v.at, n)
          BY <3>1, <3>2
        <4> QED
          BY <1>3, <4>1, <4>2, MovedSlots
      <3>4. ASSUME NEW i \in 0 .. q.len - 1 PROVE p.slots[i] \in Elem
        <4>1. i \in 0 .. q.cap - 1 /\ (i \in idx .. idx + n - 1 => v.at + (i - idx) = v.at)
          BY <1>3, <3>1, <3>2
        <4> QED
          BY <1>3, <3>1, <3>3, <4>1
      <3> QED
        BY <3>3, <3>4
    <2>2. CASE ~v.alias
      <3>1. p = Filled(q, idx, <<v.at>>) /\ v.at \in Elem
        BY <2>2 DEF Vals
      <3>2. /\ InPlace(q, p) /\ p.len = q.len
            /\ \A s \in 0 .. q.cap - 1 : p.slots[s] = IF s = idx THEN v.at ELSE q.slots[s]
        BY <1>3, <3>1, FilledOne
      <3> QED
        BY <1>3, <3>1, <3>2
    <2> QED
      BY <2>1, <2>2
  <1> HIDE DEF p
  <1>5. VecInv' /\ Now(d, p)
    BY <1>1, <1>3, <1>4, EndsOkKeeps DEF q
  <1> QED
    BY <1>4, <1>5 DEF Now, q, InPlace

LEMMA GetMutKeeps ==
    ASSUME VecAssumption, VecInv, NEW d \in Names, Alive(d), NEW idx \in Nat, NEW v \in Vals(vecs[d]),
           ~v.alias, tda_vec_get_mut(d, idx, v)
    PROVE  VecInv' /\ Now(d, vecs[d])
  <1> DEFINE q == vecs[d]
             p == Filled(q, idx, <<v.at>>)
  <1>1. PICK c : EndsOk(c, d, p)
    BY DEF tda_vec_get_mut
  <1>2. /\ OnBlock(q) /\ q.cap \in Nat /\ q.len \in Nat /\ q.len <= q.cap
        /\ \A i \in 0 .. q.len - 1 : q.slots[i] \in Elem
    BY AliveVec
  <1>3. v.at \in Elem
    BY DEF Vals
  <1> HIDE DEF q
  <1>4. /\ InPlace(q, p) /\ p.len = q.len
        /\ \A s \in 0 .. q.cap - 1 : p.slots[s] = IF s = idx THEN v.at ELSE q.slots[s]
    BY <1>2, <1>3, FilledOne
  <1> HIDE DEF p
  <1>5. VecInv' /\ Now(d, p)
    BY <1>1, <1>2, <1>3, <1>4, EndsOkKeeps DEF q
  <1> QED
    BY <1>4, <1>5 DEF Now, q, InPlace

LEMMA SwapElemsKeeps ==
    ASSUME VecAssumption, VecInv, NEW d \in Names, Alive(d), NEW i \in Nat, NEW j \in Nat,
           tda_vec_swap_elems(d, i, j)
    PROVE  VecInv' /\ Now(d, vecs[d])
  <1> DEFINE q == vecs[d]
             ws == [q.slots EXCEPT ![i] = q.slots[j], ![j] = q.slots[i]]
             p == [q EXCEPT !.slots = ws]
  <1>1. i < q.len /\ j < q.len
    BY DEF tda_vec_swap_elems
  <1>2. /\ OnBlock(q) /\ q.cap \in Nat /\ q.len \in Nat /\ q.len <= q.cap
        /\ q.slots \in [0 .. q.cap - 1 -> Slot]
        /\ \A k \in 0 .. q.len - 1 : q.slots[k] \in Elem
    BY AliveVec DEF OnBlock
  <1>3. [q EXCEPT !.slots[i] = q.slots[j], !.slots[j] = q.slots[i]] = p
    BY <1>2 DEF OnBlock, Shaped
  <1>4. PICK c : EndsOk(c, d, p)
    BY <1>3 DEF tda_vec_swap_elems
  <1>5. i \in 0 .. q.cap - 1 /\ j \in 0 .. q.cap - 1 /\ i \in 0 .. q.len - 1 /\ j \in 0 .. q.len - 1
    BY <1>1, <1>2
  <1>6. ws \in [0 .. q.cap - 1 -> Slot] /\ \A k \in 0 .. q.len - 1 : ws[k] \in Elem
    <2>1. PICK f \in [0 .. q.cap - 1 -> Slot] : f = q.slots
      BY <1>2
    <2>2. ws = [f EXCEPT ![i] = f[j], ![j] = f[i]]
      BY <2>1
    <2>3. /\ [f EXCEPT ![i] = f[j], ![j] = f[i]] \in [0 .. q.cap - 1 -> Slot]
          /\ \A k \in 0 .. q.cap - 1 :
                [f EXCEPT ![i] = f[j], ![j] = f[i]][k] = IF k = j THEN f[i] ELSE IF k = i THEN f[j] ELSE f[k]
      BY <1>5
    <2> HIDE DEF ws
    <2>4. \A k \in 0 .. q.len - 1 : ws[k] \in Elem
      BY <1>2, <1>5, <2>1, <2>2, <2>3
    <2> QED
      BY <2>2, <2>3, <2>4
  <1> HIDE DEF q, ws
  <1>7. InPlace(q, p) /\ p.len = q.len /\ p.slots = ws
    BY <1>2, <1>6, SlotsChange
  <1> HIDE DEF p
  <1>8. VecInv' /\ Now(d, p)
    BY <1>4, <1>2, <1>6, <1>7, EndsOkKeeps DEF q
  <1> QED
    BY <1>7, <1>8 DEF Now, q, InPlace

Put(p, v) == IF v.alias THEN Copied(p, p.len, v.at) ELSE Filled(p, p.len, <<v.at>>)

\* The value goes into the first free slot: it is never copied onto itself.
LEMMA PutLast ==
    ASSUME NEW p, OnBlock(p), p.len < p.cap, \A i \in 0 .. p.len - 1 : p.slots[i] \in Elem,
           NEW v, v.alias => v.at \in 0 .. p.len - 1, ~v.alias => v.at \in Elem,
           NEW m, m = Put(p, v), NEW o, o = WithLen(m, m.len + 1)
    PROVE  /\ InPlace(p, o) /\ o.len = p.len + 1 /\ o.len \in 0 .. p.cap
           /\ \A i \in 0 .. o.len - 1 : o.slots[i] \in Elem
  <1>1. p.len \in Nat /\ p.cap \in Nat
    BY DEF OnBlock
  <1>2. /\ InPlace(p, m) /\ m.len = p.len
        /\ \A i \in 0 .. p.len : m.slots[i] \in Elem
    <2>1. CASE v.alias
      <3>1. p.len \in 0 .. p.cap - 1 /\ v.at \in 0 .. p.cap - 1 /\ p.len # v.at
        BY <1>1, <2>1
      <3>2. /\ InPlace(p, m) /\ m.len = p.len
            /\ \A s \in 0 .. p.cap - 1 : m.slots[s] = IF s = p.len THEN p.slots[v.at] ELSE p.slots[s]
        BY <2>1, <3>1, CopiedSlots DEF Put
      <3> QED
        BY <1>1, <2>1, <3>2
    <2>2. CASE ~v.alias
      <3>1. /\ InPlace(p, m) /\ m.len = p.len
            /\ \A s \in 0 .. p.cap - 1 : m.slots[s] = IF s = p.len THEN v.at ELSE p.slots[s]
        BY <1>1, <2>2, FilledOne DEF Put
      <3> QED
        BY <1>1, <2>2, <3>1
    <2> QED
      BY <2>1, <2>2
  <1>3. OnBlock(m)
    BY <1>1, <1>2, InPlaceOnBlock
  <1>4. InPlace(m, o) /\ o.len = m.len + 1 /\ o.slots = m.slots
    BY <1>3, LenChanges
  <1> QED
    BY <1>1, <1>2, <1>4, InPlaceTrans

LEMMA ValsAre ==
    ASSUME NEW q, NEW v \in Vals(q)
    PROVE  (v.alias => v.at \in 0 .. q.len - 1) /\ (~v.alias => v.at \in Elem)
  BY DEF Vals

LEMMA PushKeeps ==
    ASSUME VecAssumption, VecInv, NEW d \in Names, Alive(d), NEW v \in Vals(vecs[d]), tda_vec_push(d, v)
    PROVE  VecInv' /\ Only(d)
  <1> DEFINE q == vecs[d]
             full(p) == WithLen(Put(p, v), Put(p, v).len + 1)
  <1>1. PICK s, c : s \in PushOutcomes(q, heap, v) /\ Ends(c, d, s.q, s.heap, s.ok)
    BY DEF tda_vec_push
  <1>2. PICK r \in ReserveOne(q, heap) : s = IF r.ok THEN [r EXCEPT !.q = full(r.q)] ELSE r
    BY <1>1 DEF PushOutcomes, Put, WithLen
  <1>3. Refused(q, r) \/ Grown(q, r, q.len + 1)
    BY <1>2, ReserveOneOutcomes
  <1>4. CASE Refused(q, r)
    <2>1. s = r
      BY <1>2, <1>4 DEF Refused
    <2> QED
      BY <1>1, <1>4, <2>1, RefusedEnds DEF Now
  <1>5. CASE Grown(q, r, q.len + 1)
    <2>1. /\ OnBlock(r.q) /\ r.ok /\ IsOutcome(r) /\ r.q.cap \in Nat /\ r.q.cap >= q.len + 1
          /\ r.q.len = q.len /\ r.q.len \in Nat /\ \A i \in 0 .. r.q.len - 1 : r.q.slots[i] \in Elem
      BY <1>5, GrownFields
    <2>2. s = [r EXCEPT !.q = full(r.q)]
      BY <1>2, <2>1
    <2> HIDE DEF full
    <2>3. s.q = full(r.q) /\ s.heap = r.heap
      BY <2>1, <2>2, OutcomeWith
    <2> USE DEF full
    <2>4. (v.alias => v.at \in 0 .. r.q.len - 1) /\ (~v.alias => v.at \in Elem) /\ r.q.len < r.q.cap
      BY <2>1, ValsAre
    <2>5. PICK m, o : m = Put(r.q, v) /\ o = WithLen(m, m.len + 1) /\ o = full(r.q)
      OBVIOUS
    <2> HIDE DEF full
    <2>6. /\ InPlace(r.q, o) /\ o.len \in 0 .. r.q.cap
          /\ \A i \in 0 .. o.len - 1 : o.slots[i] \in Elem
      BY <2>1, <2>4, <2>5, PutLast
    <2>7. Ends(c, d, o, r.heap, s.ok)
      BY <1>1, <2>3, <2>5
    <2> QED
      BY <1>5, <2>6, <2>7, GrownEnds DEF Now
  <1> QED
    BY <1>3, <1>4, <1>5

LEMMA PushAssumeCapKeeps ==
    ASSUME VecAssumption, VecInv, NEW d \in Names, Alive(d), NEW v \in Vals(vecs[d]),
           tda_vec_push_assume_cap(d, v)
    PROVE  VecInv' /\ Only(d)
  <1> DEFINE q == vecs[d]
  <1>1. q.len < q.cap
    BY DEF tda_vec_push_assume_cap
  <1>2. PICK c, m, o : m = Put(q, v) /\ o = WithLen(m, m.len + 1) /\ EndsOk(c, d, o)
    BY DEF tda_vec_push_assume_cap, Put, WithLen
  <1>3. OnBlock(q) /\ \A i \in 0 .. q.len - 1 : q.slots[i] \in Elem
    BY AliveVec
  <1>4. (v.alias => v.at \in 0 .. q.len - 1) /\ (~v.alias => v.at \in Elem)
    BY ValsAre
  <1>5. /\ InPlace(q, o) /\ o.len \in 0 .. q.cap
        /\ \A i \in 0 .. o.len - 1 : o.slots[i] \in Elem
    BY <1>1, <1>2, <1>3, <1>4, PutLast
  <1> QED
    BY <1>2, <1>5, EndsOkKeeps DEF Now

\* A shorter vec on the same block.
LEMMA ShorterKeeps ==
    ASSUME VecAssumption, VecInv, NEW d \in Names, Alive(d), NEW n \in Nat, n <= vecs[d].len,
           NEW p, p = WithLen(vecs[d], n), NEW c, EndsOk(c, d, p)
    PROVE  VecInv' /\ Only(d)
  <1> DEFINE q == vecs[d]
  <1>1. /\ OnBlock(q) /\ q.cap \in Nat /\ q.len \in Nat /\ q.len <= q.cap
        /\ \A i \in 0 .. q.len - 1 : q.slots[i] \in Elem
    BY AliveVec
  <1>2. InPlace(q, p) /\ p.len = n /\ p.slots = q.slots
    BY <1>1, LenChanges
  <1>3. p.len \in 0 .. q.cap /\ \A i \in 0 .. p.len - 1 : p.slots[i] \in Elem
    BY <1>1, <1>2
  <1> QED
    BY <1>2, <1>3, EndsOkKeeps DEF Now

LEMMA PopToKeeps ==
    ASSUME VecAssumption, VecInv, NEW d \in Names, Alive(d), tda_vec_pop_to(d)
    PROVE  VecInv' /\ Only(d)
  <1>1. vecs[d].len > 0 /\ vecs[d].len \in Nat
    BY AliveVec DEF tda_vec_pop_to
  <1>2. PICK c, p : p = WithLen(vecs[d], vecs[d].len - 1) /\ EndsOk(c, d, p)
    BY DEF tda_vec_pop_to, WithLen
  <1>3. PICK n \in Nat : n = vecs[d].len - 1
    BY <1>1
  <1>4. n <= vecs[d].len /\ p = WithLen(vecs[d], n)
    BY <1>1, <1>2, <1>3
  <1> QED
    BY <1>2, <1>4, ShorterKeeps

LEMMA PopKeeps ==
    ASSUME VecAssumption, VecInv, NEW d \in Names, Alive(d), tda_vec_pop(d)
    PROVE  VecInv' /\ Only(d)
  <1>1. vecs[d].len > 0 /\ vecs[d].len \in Nat
    BY AliveVec DEF tda_vec_pop
  <1>2. PICK c, p : p = WithLen(vecs[d], vecs[d].len - 1) /\ EndsOk(c, d, p)
    BY DEF tda_vec_pop, WithLen
  <1>3. PICK n \in Nat : n = vecs[d].len - 1
    BY <1>1
  <1>4. n <= vecs[d].len /\ p = WithLen(vecs[d], n)
    BY <1>1, <1>2, <1>3
  <1> QED
    BY <1>2, <1>4, ShorterKeeps

LEMMA TruncateKeeps ==
    ASSUME VecAssumption, VecInv, NEW d \in Names, Alive(d), NEW n \in Sizes, tda_vec_truncate(d, n)
    PROVE  VecInv' /\ Only(d)
  <1>1. n \in Nat /\ vecs[d].len \in Nat
    BY AliveVec DEF Sizes, VecAssumption
  <1>2. CASE n < vecs[d].len
    <2>1. PICK c, p : p = WithLen(vecs[d], n) /\ EndsOk(c, d, p)
      BY <1>2 DEF tda_vec_truncate, WithLen
    <2> QED
      BY <1>1, <1>2, <2>1, ShorterKeeps
  <1>3. CASE ~(n < vecs[d].len)
    <2>1. PICK c : EndsOk(c, d, vecs[d])
      BY <1>3 DEF tda_vec_truncate
    <2> QED
      BY <2>1, ReadsKeep DEF Now
  <1> QED
    BY <1>2, <1>3

LEMMA ClearKeeps ==
    ASSUME VecAssumption, VecInv, NEW d \in Names, Alive(d), tda_vec_clear(d)
    PROVE  VecInv' /\ Only(d)
  <1>1. PICK c, p : p = WithLen(vecs[d], 0) /\ EndsOk(c, d, p)
    BY DEF tda_vec_clear, WithLen
  <1>2. 0 \in Nat /\ 0 <= vecs[d].len
    BY AliveVec
  <1> QED
    BY <1>1, <1>2, ShorterKeeps

LEMMA ReserveKeeps ==
    ASSUME VecAssumption, VecInv, NEW d \in Names, Alive(d), NEW cap \in Sizes, tda_vec_reserve(d, cap)
    PROVE  VecInv' /\ Only(d)
  <1>1. PICK r, c : r \in ReserveOutcomes(vecs[d], heap, cap) /\ Ends(c, d, r.q, r.heap, r.ok)
    BY DEF tda_vec_reserve
  <1>2. Refused(vecs[d], r) \/ Grown(vecs[d], r, cap)
    BY <1>1, ReserveOutcomesAre
  <1>3. Good(vecs[d], r)
    BY <1>2, SameIsGood DEF Refused, Grown
  <1> QED
    BY <1>1, <1>3, EndsKeeps DEF Now

LEMMA RemoveRangeKeeps ==
    ASSUME VecAssumption, VecInv, NEW d \in Names, Alive(d), NEW idx \in Nat, NEW count \in Nat,
           tda_vec_remove_range(d, idx, count)
    PROVE  VecInv' /\ Only(d)
  <1> DEFINE q == vecs[d]
  <1>1. idx + count <= q.len
    BY DEF tda_vec_remove_range
  <1>2. PICK c, m, o : /\ m = Moved(q, idx, idx + count, q.len - idx - count)
                       /\ o = WithLen(m, m.len - count) /\ EndsOk(c, d, o)
    BY DEF tda_vec_remove_range, WithLen
  <1>3. /\ OnBlock(q) /\ q.cap \in Nat /\ q.len \in Nat /\ q.len <= q.cap
        /\ \A i \in 0 .. q.len - 1 : q.slots[i] \in Elem
    BY AliveVec
  <1>4. PICK from \in Nat, rest \in Nat : from = idx + count /\ rest = q.len - idx - count
    BY <1>1, <1>3
  <1>5. /\ InPlace(q, m) /\ m.len = q.len
        /\ \A s \in 0 .. q.cap - 1 :
              m.slots[s] = IF s \in idx .. idx + rest - 1 THEN q.slots[from + (s - idx)] ELSE q.slots[s]
    <2>1. from + rest <= q.cap /\ m = Moved(q, idx, from, rest)
      BY <1>2, <1>3, <1>4
    <2> QED
      BY <1>3, <2>1, MovedSlots
  <1>6. InPlace(m, o) /\ o.len = m.len - count /\ o.slots = m.slots
    BY <1>2, <1>3, <1>5, InPlaceOnBlock, LenChanges
  <1>7. InPlace(q, o) /\ o.len \in 0 .. q.cap
    BY <1>1, <1>3, <1>5, <1>6, InPlaceTrans
  <1>8. ASSUME NEW i \in 0 .. o.len - 1 PROVE o.slots[i] \in Elem
    <2>1. i \in 0 .. q.cap - 1
      BY <1>3, <1>7
    <2>2. CASE i \in idx .. idx + rest - 1
      <3>1. from + (i - idx) \in 0 .. q.len - 1
        BY <1>3, <1>4, <2>2
      <3> QED
        BY <1>3, <1>5, <1>6, <2>1, <2>2, <3>1
    <2>3. CASE i \notin idx .. idx + rest - 1
      <3>1. i \in 0 .. q.len - 1
        BY <1>3, <1>5, <1>6, <1>7
      <3> QED
        BY <1>3, <1>5, <1>6, <2>1, <2>3, <3>1
    <2> QED
      BY <2>2, <2>3
  <1> QED
    BY <1>2, <1>7, <1>8, EndsOkKeeps DEF Now

LEMMA SwapRemoveKeeps ==
    ASSUME VecAssumption, VecInv, NEW d \in Names, Alive(d), NEW idx \in Nat, tda_vec_swap_remove(d, idx)
    PROVE  VecInv' /\ Only(d)
  <1> DEFINE q == vecs[d]
  <1>1. idx < q.len
    BY DEF tda_vec_swap_remove
  <1>2. PICK c, m, o : /\ m = WithLen(q, q.len - 1)
                       /\ o = IF idx # m.len THEN Copied(m, idx, m.len) ELSE m
                       /\ EndsOk(c, d, o)
    <2>1. PICK m : m = [q EXCEPT !.len = q.len - 1]
      OBVIOUS
    <2>2. EndsOk([op |-> "swap_remove", idx |-> idx], d, IF idx # m.len THEN Copied(m, idx, m.len) ELSE m)
      BY <2>1, Zenon DEF tda_vec_swap_remove
    <2>3. m = WithLen(q, q.len - 1)
      BY <2>1 DEF WithLen
    <2> QED
      BY <2>2, <2>3
  <1>3. /\ OnBlock(q) /\ q.cap \in Nat /\ q.len \in Nat /\ q.len <= q.cap
        /\ \A i \in 0 .. q.len - 1 : q.slots[i] \in Elem
    BY AliveVec
  <1>4. InPlace(q, m) /\ m.len = q.len - 1 /\ m.slots = q.slots
    BY <1>2, <1>3, LenChanges
  <1>5. m.len \in Nat /\ m.cap = q.cap
    BY <1>1, <1>3, <1>4 DEF InPlace
  <1>6. OnBlock(m)
    BY <1>3, <1>4, <1>5, InPlaceOnBlock
  <1>7. /\ InPlace(q, o) /\ o.len = m.len
        /\ \A i \in 0 .. m.len - 1 : o.slots[i] \in Elem
    <2>1. CASE idx = m.len
      BY <1>2, <1>3, <1>4, <2>1
    <2>2. CASE idx # m.len
      <3>1. idx \in 0 .. m.cap - 1 /\ m.len \in 0 .. m.cap - 1
        BY <1>1, <1>3, <1>4, <1>5
      <3>2. /\ InPlace(m, o) /\ o.len = m.len
            /\ \A s \in 0 .. m.cap - 1 : o.slots[s] = IF s = idx THEN m.slots[m.len] ELSE m.slots[s]
        BY <1>2, <1>6, <2>2, <3>1, CopiedSlots
      <3>3. m.len \in 0 .. q.len - 1 /\ \A i \in 0 .. m.len - 1 : i \in 0 .. q.len - 1 /\ i \in 0 .. m.cap - 1
        BY <1>3, <1>4, <1>5
      <3>4. \A i \in 0 .. m.len - 1 : o.slots[i] \in Elem
        BY <1>3, <1>4, <3>2, <3>3
      <3> QED
        BY <1>4, <3>2, <3>4, InPlaceTrans
    <2> QED
      BY <2>1, <2>2
  <1>8. o.len \in 0 .. q.cap
    BY <1>1, <1>3, <1>4, <1>7
  <1> QED
    BY <1>2, <1>7, <1>8, EndsOkKeeps DEF Now

\* A vec with no block left.
LEMMA EmptiedIsGood ==
    ASSUME VecAssumption, NEW p, NEW al \in Als \cup {Null}, NEW r, r.q = Empty(al), r.heap = FreeBlock(p, heap)
    PROVE  Good(p, r)
  <1>1. IsVec(r.q) /\ r.q.data = Null
    BY EmptyIsVec
  <1>2. FromBlock(p, r.q)
    BY <1>1 DEF FromBlock
  <1>3. r.heap = HeapWith(p, r.q)
    BY <1>1 DEF HeapWith, FreeBlock
  <1> QED
    BY <1>1, <1>2, <1>3 DEF Good

LEMMA ShrinkToFitKeeps ==
    ASSUME VecAssumption, VecInv, NEW d \in Names, Alive(d), tda_vec_shrink_to_fit(d)
    PROVE  VecInv' /\ Only(d)
  <1> DEFINE q == vecs[d]
  <1>1. PICK r, c : r \in ShrinkOutcomes(q, heap) /\ Ends(c, d, r.q, r.heap, r.ok)
    BY DEF tda_vec_shrink_to_fit
  <1>2. /\ IsVec(q) /\ q.al \in Als /\ q.len \in Nat /\ q.cap \in Nat /\ q.len <= q.cap /\ q.cap \in Sizes
    BY AliveVec
  <1>3. CASE q.len = q.cap
    <2>1. r.q = q /\ r.heap = heap
      BY <1>1, <1>3 DEF ShrinkOutcomes, Outcome
    <2> QED
      BY <1>1, <2>1, SameIsGood, EndsKeeps DEF Now
  <1>4. CASE q.len # q.cap /\ q.len = 0
    <2>1. r.q = Empty(q.al) /\ r.heap = FreeBlock(q, heap)
      BY <1>1, <1>4 DEF ShrinkOutcomes, Outcome
    <2>2. Good(q, r)
      BY <1>2, <2>1, EmptiedIsGood
    <2> QED
      BY <1>1, <2>2, EndsKeeps DEF Now
  <1>5. CASE q.len # q.cap /\ q.len # 0
    <2>1. r \in SetCap(q, heap, q.len)
      BY <1>1, <1>5 DEF ShrinkOutcomes
    <2>2. q.len \in Sizes /\ q.len > 0
      BY <1>2, <1>5 DEF Sizes, VecAssumption
    <2>3. Refused(q, r) \/ Grown(q, r, q.len)
      BY <1>2, <2>1, <2>2, SetCapOutcomes
    <2>4. Good(q, r)
      BY <2>3, SameIsGood DEF Refused, Grown
    <2> QED
      BY <1>1, <2>4, EndsKeeps DEF Now
  <1> QED
    BY <1>3, <1>4, <1>5

LEMMA ResizeKeeps ==
    ASSUME VecAssumption, VecInv, NEW d \in Names, Alive(d), NEW n \in Sizes, tda_vec_resize(d, n)
    PROVE  VecInv' /\ Only(d)
  <1> DEFINE q == vecs[d]
             zeros == [i \in 1 .. n - q.len |-> Zero]
  <1>1. /\ IsVec(q) /\ q.al \in Als /\ q.len \in Nat /\ q.cap \in Nat /\ q.len <= q.cap /\ n \in Nat
    BY AliveVec DEF Sizes, VecAssumption
  <1>2. PICK r, c : /\ r \in IF n <= q.len THEN {Outcome(q, heap, TRUE)} ELSE ReserveFor(q, heap, n)
                    /\ Ends(c, d, IF ~r.ok THEN r.q ELSE WithLen(Filled(r.q, q.len, zeros), n), r.heap, r.ok)
    BY DEF tda_vec_resize, WithLen
  <1>3. Refused(q, r) \/ Grown(q, r, n)
    <2>1. CASE n <= q.len
      <3>1. r = Outcome(q, heap, TRUE)
        BY <1>2, <2>1
      <3>2. r.q = q /\ r.heap = heap /\ r.ok /\ IsOutcome(r)
        BY <3>1 DEF Outcome, IsOutcome
      <3>3. Good(q, r)
        BY <3>2, SameIsGood
      <3>4. q.cap >= n
        BY <1>1, <2>1
      <3> QED
        BY <3>2, <3>3, <3>4 DEF Grown
    <2>2. CASE ~(n <= q.len)
      <3>1. r \in ReserveFor(q, heap, n)
        BY <1>2, <2>2
      <3> QED
        BY <3>1, ReserveForOutcomes
    <2> QED
      BY <2>1, <2>2
  <1>4. CASE Refused(q, r)
    <2>1. Ends(c, d, r.q, r.heap, r.ok)
      BY <1>2, <1>4 DEF Refused
    <2> QED
      BY <1>4, <2>1, RefusedEnds DEF Now
  <1>5. CASE Grown(q, r, n)
    <2>1. /\ OnBlock(r.q) /\ r.ok /\ IsOutcome(r) /\ r.q.cap \in Nat /\ r.q.cap >= n
          /\ r.q.len = q.len /\ r.q.len \in Nat /\ \A i \in 0 .. r.q.len - 1 : r.q.slots[i] \in Elem
      BY <1>5, GrownFields
    <2>2. PICK m, o : m = Filled(r.q, q.len, zeros) /\ o = WithLen(m, n) /\ Ends(c, d, o, r.heap, r.ok)
      BY <1>2, <2>1
    <2>3. PICK k \in Nat : k = IF n <= q.len THEN 0 ELSE n - q.len
      BY <1>1
    <2>4. zeros \in [1 .. k -> Elem]
      <3>1. 1 .. n - q.len = 1 .. k
        BY <1>1, <2>3
      <3> QED
        BY <3>1 DEF VecAssumption
    <2>5. \A i \in 1 .. k : zeros[i] = Zero
      BY <1>1, <2>3
    <2> HIDE DEF zeros
    <2>6. /\ InPlace(r.q, m) /\ m.len = q.len
          /\ \A s \in 0 .. r.q.cap - 1 :
                m.slots[s] = IF s \in q.len .. q.len + k - 1 THEN zeros[s - q.len + 1] ELSE r.q.slots[s]
      <3>1. PICK at \in Nat : at = q.len
        BY <1>1
      <3>2. m = Filled(r.q, at, zeros)
        BY <2>2, <3>1
      <3>3. PICK p : p = r.q
        OBVIOUS
      <3>4. /\ InPlace(p, m) /\ m.len = p.len
            /\ \A s \in 0 .. p.cap - 1 :
                  m.slots[s] = IF s \in at .. at + k - 1 THEN zeros[s - at + 1] ELSE p.slots[s]
        BY <2>1, <2>4, <3>2, <3>3, FilledSlots
      <3> QED
        BY <2>1, <3>1, <3>3, <3>4
    <2>7. InPlace(m, o) /\ o.len = n /\ o.slots = m.slots
      BY <1>1, <2>1, <2>2, <2>6, InPlaceOnBlock, LenChanges
    <2>8. ASSUME NEW i \in 0 .. n - 1 PROVE o.slots[i] \in Elem
      <3>1. i \in 0 .. r.q.cap - 1
        BY <1>1, <2>1
      <3>2. CASE i \in q.len .. q.len + k - 1
        <4>1. i - q.len + 1 \in 1 .. k
          BY <1>1, <3>2
        <4> QED
          BY <2>4, <2>6, <2>7, <3>1, <3>2, <4>1
      <3>3. CASE i \notin q.len .. q.len + k - 1
        <4>1. i \in 0 .. r.q.len - 1
          BY <1>1, <2>1, <2>3, <3>3
        <4> QED
          BY <2>1, <2>6, <2>7, <3>1, <3>3, <4>1
      <3> QED
        BY <3>2, <3>3
    <2>9. InPlace(r.q, o) /\ o.len \in 0 .. r.q.cap
      BY <1>1, <2>1, <2>6, <2>7, InPlaceTrans
    <2> QED
      BY <1>5, <2>2, <2>7, <2>8, <2>9, GrownEnds DEF Now
  <1> QED
    BY <1>3, <1>4, <1>5

\* The calls that only read.
LEMMA GetKeeps ==
    ASSUME VecAssumption, VecInv, NEW d \in Names, Alive(d), NEW idx, tda_vec_get(d, idx)
    PROVE  VecInv' /\ Now(d, vecs[d])
  <1>1. PICK c : EndsOk(c, d, vecs[d])
    BY DEF tda_vec_get
  <1> QED
    BY <1>1, ReadsKeep

LEMMA ToSpanKeeps ==
    ASSUME VecAssumption, VecInv, NEW d \in Names, Alive(d), tda_vec_to_span(d)
    PROVE  VecInv' /\ Now(d, vecs[d])
  <1>1. PICK c : EndsOk(c, d, vecs[d])
    BY DEF tda_vec_to_span
  <1> QED
    BY <1>1, ReadsKeep

LEMMA EqKeeps ==
    ASSUME VecAssumption, VecInv, NEW d \in Names, Alive(d), NEW e, tda_vec_eq(d, e)
    PROVE  VecInv' /\ Now(d, vecs[d])
  <1>1. PICK c : EndsOk(c, d, vecs[d])
    BY DEF tda_vec_eq
  <1> QED
    BY <1>1, ReadsKeep

\* r is on the block of the grown p, with the elems of q but for a gap of count slots at idx
Gapped(q, r, p, idx, count) ==
    /\ r.ok /\ IsOutcome(r) /\ Good(q, p) /\ r.heap = p.heap
    /\ OnBlock(p.q) /\ p.q.al = q.al /\ InPlace(p.q, r.q)
    /\ r.q.len = q.len + count /\ r.q.len <= p.q.cap
    /\ \A s \in 0 .. r.q.len - 1 : s \notin idx .. idx + count - 1 => r.q.slots[s] \in Elem

LEMMA OpenGapOutcomes ==
    ASSUME VecAssumption, VecInv, NEW d \in Names, Alive(d), NEW idx \in Nat, NEW count \in Nat,
           idx <= vecs[d].len, NEW r \in OpenGap(vecs[d], heap, idx, count)
    PROVE  /\ Refused(vecs[d], r) \/ \E p : Gapped(vecs[d], r, p, idx, count)
           /\ vecs[d].len + count <= vecs[d].cap => r.ok /\ r.heap = heap
  <1> DEFINE q == vecs[d]
  <1>1. /\ q.len \in Nat /\ q.cap \in Nat /\ q.len <= q.cap /\ q.cap <= SizeMax /\ SizeMax \in Nat
        /\ q.len + count \in Nat /\ Null \notin Nat
    BY AliveVec DEF Sizes, VecAssumption
  <1>2. CASE CkdAdd(q.len, count) = Null
    <2>1. r = Outcome(q, heap, FALSE)
      BY <1>2 DEF OpenGap
    <2>2. ~(q.len + count <= SizeMax)
      BY <1>1, <1>2 DEF CkdAdd
    <2>3. ~(q.len + count <= q.cap)
      BY <1>1, <2>2
    <2> QED
      BY <2>1, <2>3 DEF Refused, Outcome, IsOutcome
  <1>3. CASE CkdAdd(q.len, count) # Null
    <2>1. PICK n \in Sizes : n = q.len + count /\ CkdAdd(q.len, count) = n
      BY <1>1, <1>3 DEF CkdAdd, Sizes
    <2>2. PICK p \in ReserveFor(q, heap, n) :
             r = IF p.ok THEN [p EXCEPT !.q = WithLen(Moved(p.q, idx + count, idx, p.q.len - idx), n)] ELSE p
      BY <1>3, <2>1 DEF OpenGap, WithLen
    <2>3. /\ Refused(q, p) \/ Grown(q, p, n)
          /\ n <= q.cap => p.ok /\ p.heap = heap
      BY <2>2, ReserveForOutcomes
    <2>4. CASE Refused(q, p)
      <3>1. r = p
        BY <2>2, <2>4 DEF Refused
      <3> QED
        BY <2>1, <2>3, <2>4, <3>1
    <2>5. CASE Grown(q, p, n)
      <3>1. /\ OnBlock(p.q) /\ p.ok /\ IsOutcome(p) /\ p.q.cap \in Nat /\ p.q.cap >= n /\ p.q.len <= p.q.cap
            /\ p.q.len = q.len /\ p.q.len \in Nat /\ \A i \in 0 .. p.q.len - 1 : p.q.slots[i] \in Elem
        BY <2>5, GrownFields
      <3>2. PICK b, m, o : /\ b = p.q /\ m = Moved(b, idx + count, idx, b.len - idx) /\ o = WithLen(m, n)
                           /\ r = [p EXCEPT !.q = o]
        BY <2>2, <3>1
      <3>3. r.q = o /\ r.heap = p.heap /\ r.ok /\ IsOutcome(r)
        BY <3>1, <3>2 DEF IsOutcome, Outcome
      <3>4. PICK to \in Nat, rest \in Nat : to = idx + count /\ rest = b.len - idx
        BY <3>1, <3>2
      <3>5. /\ InPlace(b, m) /\ m.len = b.len
            /\ \A s \in 0 .. b.cap - 1 :
                  m.slots[s] = IF s \in to .. to + rest - 1 THEN b.slots[idx + (s - to)] ELSE b.slots[s]
        <4>1. OnBlock(b) /\ idx + rest <= b.cap /\ m = Moved(b, to, idx, rest)
          BY <3>1, <3>2, <3>4
        <4> QED
          BY <4>1, MovedSlots
      <3>6. InPlace(m, o) /\ o.len = n /\ o.slots = m.slots
        BY <3>1, <3>2, <3>5, InPlaceOnBlock, LenChanges
      <3>7. ASSUME NEW s \in 0 .. n - 1, s \notin idx .. idx + count - 1 PROVE o.slots[s] \in Elem
        <4>1. s \in 0 .. b.cap - 1 /\ n \in Nat
          BY <1>1, <2>1, <3>1, <3>2
        <4>2. CASE s \in to .. to + rest - 1
          <5>1. idx + (s - to) \in 0 .. b.len - 1
            BY <3>1, <3>2, <3>4, <4>2
          <5> QED
            BY <3>1, <3>2, <3>5, <3>6, <4>1, <4>2, <5>1
        <4>3. CASE s \notin to .. to + rest - 1
          <5>1. s \in 0 .. b.len - 1
            BY <2>1, <3>1, <3>2, <3>4, <3>7, <4>1, <4>3
          <5> QED
            BY <3>1, <3>2, <3>5, <3>6, <4>1, <4>3, <5>1
        <4> QED
          BY <4>2, <4>3
      <3>8. InPlace(p.q, r.q) /\ r.q.len = q.len + count /\ r.q.len <= p.q.cap
        BY <2>1, <3>1, <3>2, <3>3, <3>5, <3>6, InPlaceTrans
      <3>9. \A s \in 0 .. r.q.len - 1 : s \notin idx .. idx + count - 1 => r.q.slots[s] \in Elem
        BY <3>3, <3>6, <3>7
      <3>10. Gapped(q, r, p, idx, count)
        BY <2>5, <3>1, <3>3, <3>8, <3>9 DEF Gapped, Grown
      <3> QED
        BY <2>1, <2>3, <3>3, <3>10
    <2> QED
      BY <2>3, <2>4, <2>5
  <1> QED
    BY <1>2, <1>3

\* The gap filled, the call is done.
LEMMA GapEnds ==
    ASSUME VecAssumption, VecInv, NEW d \in Names, Alive(d), NEW r, NEW p, NEW idx \in Nat, NEW count \in Nat,
           Gapped(vecs[d], r, p, idx, count), idx <= vecs[d].len, NEW o, InPlace(r.q, o), o.len = r.q.len,
           \A s \in 0 .. r.q.len - 1 :
              o.slots[s] \in Elem \/ (s \notin idx .. idx + count - 1 /\ o.slots[s] = r.q.slots[s]),
           NEW c, NEW ok, Ends(c, d, o, r.heap, ok)
    PROVE  VecInv' /\ Only(d)
  <1> DEFINE t == [q |-> o, heap |-> r.heap]
  <1>1. t.q = o /\ t.heap = r.heap
    OBVIOUS
  <1> HIDE DEF t
  <1>2. vecs[d].al \in Als /\ vecs[d].len \in Nat
    BY AliveVec
  <1>3. /\ IsVec(p.q) /\ FromBlock(vecs[d], p.q) /\ t.heap = HeapWith(vecs[d], p.q) /\ p.q.al \in Als
    BY <1>1, <1>2 DEF Gapped, Good
  <1>4. InPlace(p.q, t.q) /\ t.q.len = vecs[d].len + count /\ t.q.len <= p.q.cap
    BY <1>1, InPlaceTrans DEF Gapped
  <1>5. t.q.len \in 0 .. p.q.cap
    BY <1>2, <1>3, <1>4, VecFields
  <1>6. \A i \in 0 .. t.q.len - 1 : t.q.slots[i] \in Elem
    BY <1>1 DEF Gapped
  <1>7. Good(vecs[d], t)
    BY <1>1, <1>3, <1>4, <1>5, <1>6, InPlaceIsGood
  <1> QED
    BY <1>1, <1>7, EndsKeeps DEF Now

LEMMA InsertKeeps ==
    ASSUME VecAssumption, VecInv, NEW d \in Names, Alive(d), NEW idx \in Nat, NEW v \in Vals(vecs[d]),
           tda_vec_insert(d, idx, v)
    PROVE  VecInv' /\ Only(d)
  <1> DEFINE q == vecs[d]
  <1>1. idx <= q.len
    BY DEF tda_vec_insert
  <1>2. PICK one \in Nat : one = 1
    OBVIOUS
  <1>3. PICK r, c : /\ r \in OpenGap(q, heap, idx, one)
                    /\ Ends(c, d, IF r.ok THEN Inserted(r.q, idx, v) ELSE r.q, r.heap, r.ok)
    BY <1>2 DEF tda_vec_insert
  <1>4. Refused(q, r) \/ \E p : Gapped(q, r, p, idx, one)
    BY <1>1, <1>3, OpenGapOutcomes
  <1>5. CASE Refused(q, r)
    <2>1. Ends(c, d, r.q, r.heap, r.ok)
      BY <1>3, <1>5 DEF Refused
    <2> QED
      BY <1>5, <2>1, RefusedEnds DEF Now
  <1>6. CASE \E p : Gapped(q, r, p, idx, one)
    <2>1. PICK p : Gapped(q, r, p, idx, one)
      BY <1>6
    <2>2. PICK g, o : g = r.q /\ o = Inserted(g, idx, v)
      OBVIOUS
    <2>3. Ends(c, d, o, r.heap, r.ok)
      BY <1>3, <2>1, <2>2 DEF Gapped
    <2>4. q.len \in Nat /\ g.len = q.len + 1 /\ g.len \in Nat
      BY <1>2, <2>1, <2>2, AliveVec DEF Gapped
    <2>5. OnBlock(g) /\ g.cap \in Nat /\ g.len <= g.cap
      BY <2>1, <2>2, <2>4, InPlaceOnBlock DEF Gapped, InPlace, OnBlock
    <2>6. \A s \in 0 .. g.len - 1 : s # idx => g.slots[s] \in Elem
      BY <1>2, <2>1, <2>2 DEF Gapped
    <2>7. /\ InPlace(g, o) /\ o.len = g.len
          /\ \A s \in 0 .. g.len - 1 : o.slots[s] \in Elem
      <3>1. CASE v.alias
        <4>1. PICK from : from = IF v.at < idx THEN v.at ELSE v.at + 1
          OBVIOUS
        <4>2. v.at \in 0 .. q.len - 1
          BY <3>1, ValsAre
        <4>3. from \in 0 .. g.len - 1 /\ from # idx
          BY <2>4, <4>1, <4>2
        <4>4. from \in 0 .. g.cap - 1 /\ idx \in 0 .. g.cap - 1 /\ idx # from
          BY <1>1, <2>4, <2>5, <4>3
        <4>5. o = Copied(g, idx, from)
          BY <2>2, <3>1, <4>1 DEF Inserted
        <4>6. /\ InPlace(g, o) /\ o.len = g.len
              /\ \A s \in 0 .. g.cap - 1 : o.slots[s] = IF s = idx THEN g.slots[from] ELSE g.slots[s]
          BY <2>5, <4>4, <4>5, CopiedSlots
        <4>7. \A s \in 0 .. g.len - 1 : s \in 0 .. g.cap - 1
          BY <2>4, <2>5
        <4> QED
          BY <2>6, <4>3, <4>6, <4>7
      <3>2. CASE ~v.alias
        <4>1. o = Filled(g, idx, <<v.at>>) /\ v.at \in Elem
          BY <2>2, <3>2, ValsAre DEF Inserted
        <4>2. /\ InPlace(g, o) /\ o.len = g.len
              /\ \A s \in 0 .. g.cap - 1 : o.slots[s] = IF s = idx THEN v.at ELSE g.slots[s]
          BY <2>5, <4>1, FilledOne
        <4>3. \A s \in 0 .. g.len - 1 : s \in 0 .. g.cap - 1
          BY <2>4, <2>5
        <4> QED
          BY <2>6, <4>1, <4>2, <4>3
      <3> QED
        BY <3>1, <3>2
    <2> QED
      BY <1>1, <2>1, <2>2, <2>3, <2>7, GapEnds
  <1> QED
    BY <1>4, <1>5, <1>6

LEMMA SpansAre ==
    ASSUME VecAssumption, NEW src \in Spans
    PROVE  Len(src) \in Nat /\ src \in [1 .. Len(src) -> Elem]
  <1>1. PICK n \in 0 .. MaxSpan : src \in [1 .. n -> Elem]
    BY DEF Spans
  <1>2. n \in Nat
    BY DEF VecAssumption
  <1> QED
    BY <1>1, <1>2, SpanLen

LEMMA InsertSpanKeeps ==
    ASSUME VecAssumption, VecInv, NEW d \in Names, Alive(d), NEW idx \in Nat, NEW src \in Spans,
           tda_vec_insert_span(d, idx, src)
    PROVE  VecInv' /\ Only(d)
  <1> DEFINE q == vecs[d]
  <1>1. idx <= q.len
    BY DEF tda_vec_insert_span
  <1>2. PICK n \in Nat : n = Len(src) /\ src \in [1 .. n -> Elem]
    BY SpansAre
  <1>3. PICK s, c : s \in InsertSpanOutcomes(q, heap, idx, src) /\ Ends(c, d, s.q, s.heap, s.ok)
    BY DEF tda_vec_insert_span
  <1>4. CASE src = <<>>
    <2>1. s.q = q /\ s.heap = heap
      BY <1>3, <1>4 DEF InsertSpanOutcomes, Outcome
    <2> QED
      BY <1>3, <2>1, SameIsGood, EndsKeeps DEF Now
  <1>5. CASE src # <<>>
    <2>1. PICK r \in OpenGap(q, heap, idx, n) : s = IF r.ok THEN [r EXCEPT !.q = Filled(r.q, idx, src)] ELSE r
      BY <1>2, <1>3, <1>5 DEF InsertSpanOutcomes
    <2>2. Refused(q, r) \/ \E p : Gapped(q, r, p, idx, n)
      BY <1>1, <2>1, OpenGapOutcomes
    <2>3. CASE Refused(q, r)
      <3>1. s = r
        BY <2>1, <2>3 DEF Refused
      <3> QED
        BY <1>3, <2>3, <3>1, RefusedEnds DEF Now
    <2>4. CASE \E p : Gapped(q, r, p, idx, n)
      <3>1. PICK p : Gapped(q, r, p, idx, n)
        BY <2>4
      <3>2. PICK g, o : g = r.q /\ o = Filled(g, idx, src) /\ s = [r EXCEPT !.q = o]
        BY <2>1, <3>1 DEF Gapped
      <3>3. s.q = o /\ s.heap = r.heap
        BY <3>1, <3>2, OutcomeWith DEF Gapped
      <3>4. q.len \in Nat /\ g.len = q.len + n /\ g.len \in Nat
        BY <3>1, <3>2, AliveVec DEF Gapped
      <3>5. OnBlock(g) /\ g.cap \in Nat /\ g.len <= g.cap
        BY <3>1, <3>2, <3>4, InPlaceOnBlock DEF Gapped, InPlace, OnBlock
      <3>6. /\ InPlace(g, o) /\ o.len = g.len
            /\ \A i \in 0 .. g.cap - 1 :
                 o.slots[i] = IF i \in idx .. idx + n - 1 THEN src[i - idx + 1] ELSE g.slots[i]
        <4>1. src \in [1 .. n -> Elem] /\ o = Filled(g, idx, src) /\ OnBlock(g)
          BY <1>2, <3>2, <3>5
        <4> QED
          BY <4>1, FilledSlots
      <3>7. ASSUME NEW i \in 0 .. g.len - 1
            PROVE  o.slots[i] \in Elem \/ (i \notin idx .. idx + n - 1 /\ o.slots[i] = g.slots[i])
        <4>1. i \in 0 .. g.cap - 1
          BY <3>4, <3>5
        <4>2. CASE i \in idx .. idx + n - 1
          <5>1. i - idx + 1 \in 1 .. n
            BY <4>2
          <5> QED
            BY <1>2, <3>6, <4>1, <4>2, <5>1
        <4> QED
          BY <3>6, <4>1, <4>2
      <3>8. /\ Ends(c, d, o, r.heap, s.ok) /\ InPlace(r.q, o) /\ o.len = r.q.len
            /\ \A i \in 0 .. r.q.len - 1 :
                  o.slots[i] \in Elem \/ (i \notin idx .. idx + n - 1 /\ o.slots[i] = r.q.slots[i])
        BY <1>3, <3>2, <3>3, <3>6, <3>7
      <3> QED
        BY <1>1, <3>1, <3>8, GapEnds
    <2> QED
      BY <2>2, <2>3, <2>4
  <1> QED
    BY <1>4, <1>5

LEMMA ExtendKeeps ==
    ASSUME VecAssumption, VecInv, NEW d \in Names, Alive(d), NEW src \in Spans, tda_vec_extend(d, src)
    PROVE  VecInv' /\ Only(d)
  <1>1. PICK idx \in Nat : idx = vecs[d].len
    BY AliveVec
  <1> QED
    BY <1>1, InsertSpanKeeps DEF tda_vec_extend

\* The loop of retain: after i turns the elems are in place, no more than i are kept, and
\* every slot below the length still holds an elem.
Walks(f, n, q, keep) ==
    f = [i \in 0 .. n |-> IF i = 0 THEN [q |-> q, kept |-> 0] ELSE RetainStep(f[i - 1], i - 1, keep)]

LEMMA WalkExists ==
    ASSUME NEW q, NEW keep, NEW k \in Nat
    PROVE  \E f : Walks(f, k, q, keep)
  <1> DEFINE T == {n \in Nat : ~ \E f : Walks(f, n, q, keep)}
             base == [q |-> q, kept |-> 0]
  <1>1. SUFFICES ASSUME T # {} PROVE FALSE
    OBVIOUS
  <1>2. PICK n \in T : \A m \in T : n <= m
    BY <1>1, LeastNat
  <1> HIDE DEF base
  <1>3. n # 0
    <2>1. PICK f : f = [i \in 0 .. 0 |-> base]
      OBVIOUS
    <2>2. f = [i \in 0 .. 0 |-> IF i = 0 THEN base ELSE RetainStep(f[i - 1], i - 1, keep)]
      BY <2>1
    <2>3. Walks(f, 0, q, keep)
      BY <2>2 DEF Walks, base
    <2> QED
      BY <2>3
  <1>4. PICK f : Walks(f, n - 1, q, keep)
    <2>1. n - 1 \in Nat /\ ~(n <= n - 1)
      BY <1>3
    <2> QED
      BY <1>2, <2>1
  <1>5. f = [i \in 0 .. n - 1 |-> IF i = 0 THEN base ELSE RetainStep(f[i - 1], i - 1, keep)]
    BY <1>4 DEF Walks, base
  <1> DEFINE g == [i \in 0 .. n |-> IF i < n THEN f[i] ELSE RetainStep(f[n - 1], n - 1, keep)]
  <1>6. \A i \in 0 .. n - 1 : g[i] = f[i]
    BY <1>3
  <1>7. g[n] = RetainStep(f[n - 1], n - 1, keep)
    BY <1>3
  <1>8. ASSUME NEW i \in 0 .. n
        PROVE  g[i] = IF i = 0 THEN base ELSE RetainStep(g[i - 1], i - 1, keep)
    <2>1. CASE i = n
      BY <1>3, <1>6, <1>7, <2>1
    <2>2. CASE i # n
      <3>1. i \in 0 .. n - 1 /\ (i # 0 => i - 1 \in 0 .. n - 1)
        BY <1>3, <2>2
      <3>2. f[i] = IF i = 0 THEN base ELSE RetainStep(f[i - 1], i - 1, keep)
        BY <1>5, <3>1
      <3> HIDE DEF g
      <3> QED
        BY <1>6, <3>1, <3>2
    <2> QED
      BY <2>1, <2>2
  <1>9. g = [i \in 0 .. n |-> g[i]]
    OBVIOUS
  <1> HIDE DEF g
  <1>10. g = [i \in 0 .. n |-> IF i = 0 THEN base ELSE RetainStep(g[i - 1], i - 1, keep)]
    BY <1>8, <1>9
  <1>11. Walks(g, n, q, keep)
    BY <1>10 DEF Walks, base
  <1> QED
    BY <1>2, <1>11

\* the vec p of the walk after i turns
Walked(q, p, i) ==
    /\ InPlace(q, p.q) /\ p.q.len = q.len /\ p.kept \in 0 .. i
    /\ \A s \in 0 .. q.len - 1 : p.q.slots[s] \in Elem

LEMMA RetainStepKeeps ==
    ASSUME NEW q, OnBlock(q), q.len <= q.cap, NEW keep, NEW i \in 0 .. q.len - 1, NEW p, Walked(q, p, i)
    PROVE  Walked(q, RetainStep(p, i, keep), i + 1)
  <1>1. q.len \in Nat /\ q.cap \in Nat
    BY DEF OnBlock
  <1>2. InPlace(q, p.q) /\ p.q.len = q.len /\ p.kept \in 0 .. i
        /\ \A s \in 0 .. q.len - 1 : p.q.slots[s] \in Elem
    BY DEF Walked
  <1>3. CASE p.q.slots[i] \notin keep
    <2>1. RetainStep(p, i, keep) = p /\ p.kept \in 0 .. i + 1
      BY <1>1, <1>2, <1>3 DEF RetainStep
    <2> QED
      BY <1>2, <2>1 DEF Walked
  <1>4. CASE p.q.slots[i] \in keep
    <2>1. PICK b, m : b = p.q /\ m = IF p.kept # i THEN Copied(b, p.kept, i) ELSE b
      OBVIOUS
    <2>2. RetainStep(p, i, keep).q = m /\ RetainStep(p, i, keep).kept = p.kept + 1
      BY <1>4, <2>1 DEF RetainStep
    <2>3. p.kept + 1 \in 0 .. i + 1
      BY <1>1, <1>2
    <2>4. InPlace(q, m) /\ m.len = q.len /\ \A s \in 0 .. q.len - 1 : m.slots[s] \in Elem
      <3>1. CASE p.kept = i
        BY <1>2, <2>1, <3>1
      <3>2. CASE p.kept # i
        <4>1. b.cap = q.cap /\ OnBlock(b)
          BY <1>1, <1>2, <2>1, InPlaceOnBlock DEF InPlace
        <4>2. p.kept \in 0 .. b.cap - 1 /\ i \in 0 .. b.cap - 1
          BY <1>1, <1>2, <4>1
        <4>3. m = Copied(b, p.kept, i)
          BY <2>1, <3>2
        <4>4. /\ InPlace(b, m) /\ m.len = b.len
              /\ \A s \in 0 .. b.cap - 1 : m.slots[s] = IF s = p.kept THEN b.slots[i] ELSE b.slots[s]
          BY <3>2, <4>1, <4>2, <4>3, CopiedSlots
        <4>5. \A s \in 0 .. q.len - 1 : s \in 0 .. b.cap - 1
          BY <1>1, <4>1
        <4>6. \A s \in 0 .. q.len - 1 : m.slots[s] \in Elem
          BY <1>2, <2>1, <4>4, <4>5
        <4>7. InPlace(q, m)
          BY <1>2, <2>1, <4>4, InPlaceTrans
        <4> QED
          BY <1>2, <2>1, <4>4, <4>6, <4>7
      <3> QED
        BY <3>1, <3>2
    <2> QED
      BY <2>2, <2>3, <2>4 DEF Walked
  <1> QED
    BY <1>3, <1>4

LEMMA RetainLoopKeeps ==
    ASSUME NEW q, OnBlock(q), q.len <= q.cap, \A s \in 0 .. q.len - 1 : q.slots[s] \in Elem, NEW keep
    PROVE  Walked(q, RetainLoop(q, keep), q.len)
  <1> DEFINE f == CHOOSE f : Walks(f, q.len, q, keep)
             base == [q |-> q, kept |-> 0]
             T == {i \in Nat : i <= q.len /\ ~Walked(q, f[i], i)}
  <1>1. q.len \in Nat /\ q.cap \in Nat /\ InPlace(q, q)
    BY DEF OnBlock, InPlace
  <1>2. Walks(f, q.len, q, keep)
    BY <1>1, WalkExists
  <1>3. RetainLoop(q, keep) = f[q.len]
    BY DEF RetainLoop, Walks
  <1> HIDE DEF f
  <1>4. base.q = q /\ base.kept = 0
    OBVIOUS
  <1> HIDE DEF base
  <1>5. \A i \in 0 .. q.len : f[i] = IF i = 0 THEN base ELSE RetainStep(f[i - 1], i - 1, keep)
    BY <1>2 DEF Walks, base
  <1>6. Walked(q, base, 0)
    BY <1>1, <1>4 DEF Walked
  <1>7. T = {}
    <2>1. SUFFICES ASSUME T # {} PROVE FALSE
      OBVIOUS
    <2>2. PICK i \in T : \A j \in T : i <= j
      BY <2>1, LeastNat
    <2>3. i \in 0 .. q.len /\ ~Walked(q, f[i], i)
      BY <1>1
    <2>4. i # 0
      BY <1>1, <1>5, <1>6, <2>3
    <2>5. PICK j \in Nat : i = j + 1 /\ j = i - 1 /\ j \in 0 .. q.len - 1
      BY <1>1, <2>3, <2>4
    <2>6. Walked(q, f[j], j)
      BY <1>1, <2>2, <2>5
    <2>7. f[i] = RetainStep(f[j], j, keep)
      BY <1>5, <2>3, <2>4, <2>5
    <2>8. Walked(q, f[i], j + 1)
      BY <2>5, <2>6, <2>7, RetainStepKeeps
    <2> QED
      BY <2>3, <2>5, <2>8
  <1> QED
    BY <1>1, <1>3, <1>7

LEMMA RetainKeeps ==
    ASSUME VecAssumption, VecInv, NEW d \in Names, Alive(d), NEW keep, tda_vec_retain(d, keep)
    PROVE  VecInv' /\ Only(d)
  <1> DEFINE q == vecs[d]
  <1>1. PICK c, p, b, o : p = RetainLoop(q, keep) /\ b = p.q /\ o = WithLen(b, p.kept) /\ EndsOk(c, d, o)
    BY DEF tda_vec_retain, WithLen
  <1>2. /\ OnBlock(q) /\ q.cap \in Nat /\ q.len \in Nat /\ q.len <= q.cap
        /\ \A i \in 0 .. q.len - 1 : q.slots[i] \in Elem
    BY AliveVec
  <1>3. Walked(q, p, q.len)
    BY <1>1, <1>2, RetainLoopKeeps
  <1>4. /\ InPlace(q, b) /\ b.len = q.len /\ p.kept \in 0 .. q.len
        /\ \A s \in 0 .. q.len - 1 : b.slots[s] \in Elem
    BY <1>1, <1>3 DEF Walked
  <1>5. InPlace(b, o) /\ o.len = p.kept /\ o.slots = b.slots
    BY <1>1, <1>2, <1>4, InPlaceOnBlock, LenChanges
  <1>6. /\ InPlace(q, o) /\ o.len \in 0 .. q.cap /\ \A i \in 0 .. o.len - 1 : o.slots[i] \in Elem
    BY <1>2, <1>4, <1>5, InPlaceTrans
  <1> QED
    BY <1>1, <1>6, EndsOkKeeps DEF Now

-----------------------------------------------------------------------------
(* Blocks that change hands.                                                *)

\* Handles exchange their vecs and one vec, p, is given up with its block: src is where the
\* vec of each handle was.
Exchange(p, src) ==
    /\ vecs' = [f \in Names |-> vecs'[f]] /\ \A f \in Names : IsVec(vecs'[f])
    /\ \A f \in Names :
          vecs'[f].data # Null => vecs'[f] = vecs[src[f]] /\ vecs[src[f]].data # p.data
    /\ \A f, g \in Owners' : src[f] = src[g] => f = g
    /\ \A g \in Owners : vecs[g] = p \/ \E f \in Owners' : src[f] = g
    /\ \A q \in raws : q.data # p.data
    /\ heap' = heap \ {BlockOf(p)} /\ raws' = raws

LEMMA HandsChange ==
    ASSUME VecAssumption, VecInv, NEW p, NEW src \in [Names -> Names], Exchange(p, src)
    PROVE  VecInv'
  <1> USE DEF Exchange
  <1>1. ASSUME NEW f \in Owners'
        PROVE  f \in Names /\ src[f] \in Owners /\ vecs'[f] = vecs[src[f]] /\ vecs[src[f]].data # p.data
    BY DEF Owners
  <1>2. ASSUME NEW f \in Owners' PROVE BlockOf(vecs'[f]) \in heap'
    <2>1. BlockOf(vecs[src[f]]) \in heap /\ BlockOf(vecs[src[f]]) # BlockOf(p)
      BY <1>1, BlockFields DEF VecInv, HeldApart
    <2> QED
      BY <1>1, <2>1
  <1>3. ASSUME NEW q \in raws PROVE BlockOf(q) \in heap'
    <2>1. BlockOf(q) \in heap /\ BlockOf(q) # BlockOf(p)
      BY BlockFields DEF VecInv, HeldApart
    <2> QED
      BY <2>1
  <1>4. ASSUME NEW b \in heap'
        PROVE  (\E f \in Owners' : b = BlockOf(vecs'[f])) \/ \E q \in raws : b = BlockOf(q)
    <2>1. CASE \E g \in Owners : b = BlockOf(vecs[g])
      <3>1. PICK g \in Owners : b = BlockOf(vecs[g])
        BY <2>1
      <3>2. vecs[g] # p
        BY <1>4, <3>1
      <3>3. PICK f \in Owners' : src[f] = g
        BY <3>2
      <3> QED
        BY <1>1, <3>1, <3>3
    <2> QED
      BY <1>4, <2>1 DEF VecInv, HeldApart
  <1>5. heap' = {BlockOf(vecs'[f]) : f \in Owners'} \cup {BlockOf(q) : q \in raws'}
    BY <1>2, <1>3, <1>4
  <1>6. ASSUME NEW f \in Owners', NEW g \in Owners', vecs'[f].data = vecs'[g].data PROVE f = g
    <2>1. \A d, e \in Owners : vecs[d].data = vecs[e].data => d = e
      BY DEF VecInv, HeldApart
    <2>2. src[f] = src[g]
      <3> HIDE DEF Exchange
      <3> QED
        BY <1>1, <1>6, <2>1
    <2> QED
      BY <2>2
  <1>7. ASSUME NEW f \in Owners', NEW q \in raws' PROVE vecs'[f].data # q.data
    BY <1>1 DEF VecInv, HeldApart
  <1>8. HeldApart'
    BY <1>5, <1>6, <1>7 DEF HeldApart, VecInv, BlockOf
  <1> QED
    BY <1>8 DEF VecInv

LEMMA DeadVec ==
    ASSUME VecAssumption, VecInv, NEW d \in Names, ~Alive(d)
    PROVE  vecs[d] = Zeroed /\ vecs[d].data = Null /\ d \notin Owners
  <1>1. vecs[d] = Zeroed
    BY VecFields DEF VecInv, Alive
  <1> QED
    BY <1>1, EmptyIsVec DEF Zeroed, Owners

\* No block that is out has the number of a vec without one.
LEMMA NoBlock ==
    ASSUME VecAssumption, VecInv, NEW q, q.data = Null
    PROVE  FreeBlock(q, heap) = heap
  <1>1. BlockOf(q) \notin heap
    BY HeapFinite, BlockFields DEF VecAssumption
  <1> QED
    BY <1>1 DEF FreeBlock

LEMMA MoveAssignKeeps ==
    ASSUME VecAssumption, VecInv, NEW d \in Names, NEW e \in Names, Alive(e), d # e,
           vecs' = [vecs EXCEPT ![d] = vecs[e], ![e] = Empty(vecs[e].al)],
           heap' = FreeBlock(vecs[d], heap), raws' = raws
    PROVE  /\ VecInv' /\ \A f \in Names \ {d, e} : vecs'[f] = vecs[f]
           /\ vecs'[d] = vecs[e] /\ vecs'[e].len = 0 /\ vecs'[e].cap = 0
  <1> DEFINE src == [f \in Names |-> IF f = d THEN e ELSE f]
             nil == Empty(vecs[e].al)
  <1>1. IsVec(vecs[e]) /\ IsVec(nil) /\ nil.data = Null /\ nil.len = 0 /\ nil.cap = 0
    BY AliveVec, EmptyIsVec
  <1> HIDE DEF nil
  <1>2. /\ vecs'[d] = vecs[e] /\ vecs'[e] = nil /\ \A f \in Names \ {d, e} : vecs'[f] = vecs[f]
        /\ vecs' = [f \in Names |-> vecs'[f]]
    BY DEF VecInv, nil
  <1>3. \A f \in Names : IsVec(vecs'[f])
    BY <1>1, <1>2 DEF VecInv
  <1>4. ASSUME NEW f \in Names, vecs'[f].data # Null
        PROVE  vecs'[f] = vecs[src[f]] /\ vecs[src[f]].data # vecs[d].data
    <2>1. f # e
      BY <1>1, <1>2, <1>4
    <2>2. vecs'[f] = vecs[src[f]] /\ src[f] # d /\ src[f] \in Names
      BY <1>2, <2>1
    <2>3. vecs[src[f]].data # Null
      BY <1>4, <2>2
    <2>4. vecs[d].data = vecs[src[f]].data => src[f] = d
      BY <2>2, <2>3 DEF VecInv, HeldApart, Owners
    <2> QED
      BY <2>2, <2>4
  <1>5. ASSUME NEW f \in Owners', NEW g \in Owners', src[f] = src[g] PROVE f = g
    <2>1. f \in Names /\ g \in Names /\ f # e /\ g # e
      BY <1>1, <1>2 DEF Owners
    <2> QED
      BY <1>5, <2>1
  <1>6. ASSUME NEW g \in Owners PROVE vecs[g] = vecs[d] \/ \E f \in Owners' : src[f] = g
    <2>1. g \in Names /\ vecs[g].data # Null
      BY DEF Owners
    <2>2. CASE g = e
      <3>1. d \in Owners' /\ src[d] = g
        BY <1>2, <2>1, <2>2 DEF Owners
      <3> QED
        BY <3>1
    <2>3. CASE g # e /\ g # d
      <3>1. g \in Owners' /\ src[g] = g
        BY <1>2, <2>1, <2>3 DEF Owners
      <3> QED
        BY <3>1
    <2> QED
      BY <2>2, <2>3
  <1>7. \A q \in raws : q.data # vecs[d].data
    BY DEF VecInv, HeldApart, Owners
  <1>8. heap' = heap \ {BlockOf(vecs[d])}
    BY DEF FreeBlock
  <1>9. src \in [Names -> Names]
    OBVIOUS
  <1> HIDE DEF src
  <1>10. Exchange(vecs[d], src)
    BY <1>2, <1>3, <1>4, <1>5, <1>6, <1>7, <1>8 DEF Exchange
  <1>11. VecInv'
    BY <1>9, <1>10, HandsChange
  <1> QED
    BY <1>1, <1>2, <1>11

LEMMA SwapKeeps ==
    ASSUME VecAssumption, VecInv, NEW d \in Names, NEW e \in Names,
           vecs' = [vecs EXCEPT ![d] = vecs[e], ![e] = vecs[d]], heap' = heap, raws' = raws
    PROVE  /\ VecInv' /\ \A f \in Names \ {d, e} : vecs'[f] = vecs[f]
           /\ vecs'[d] = vecs[e] /\ vecs'[e] = vecs[d]
  <1> DEFINE src == [f \in Names |-> IF f = d THEN e ELSE IF f = e THEN d ELSE f]
  <1>1. /\ \A f \in Names : vecs'[f] = vecs[src[f]]
        /\ vecs' = [f \in Names |-> vecs'[f]]
    BY DEF VecInv
  <1>2. src \in [Names -> Names] /\ \A f \in Names : src[src[f]] = f
    OBVIOUS
  <1>3. src[d] = e /\ src[e] = d /\ \A f \in Names \ {d, e} : src[f] = f
    OBVIOUS
  <1> HIDE DEF src
  <1>4. \A f \in Names : IsVec(vecs'[f])
    BY <1>1, <1>2 DEF VecInv
  <1>5. Zeroed.data = Null
    BY EmptyIsVec DEF Zeroed
  <1>6. heap' = heap \ {BlockOf(Zeroed)}
    BY <1>5, NoBlock DEF FreeBlock
  <1>7. \A f \in Names : vecs'[f].data # Null => vecs'[f] = vecs[src[f]] /\ vecs[src[f]].data # Zeroed.data
    BY <1>1, <1>5
  <1>8. \A f, g \in Owners' : src[f] = src[g] => f = g
    BY <1>2 DEF Owners
  <1>9. ASSUME NEW g \in Owners PROVE \E f \in Owners' : src[f] = g
    <2>1. g \in Names /\ vecs[g].data # Null
      BY DEF Owners
    <2>2. src[g] \in Names /\ vecs'[src[g]] = vecs[g] /\ src[src[g]] = g
      BY <1>1, <1>2, <2>1
    <2>3. src[g] \in Owners'
      BY <2>1, <2>2 DEF Owners
    <2> QED
      BY <2>2, <2>3
  <1>10. \A q \in raws : q.data # Zeroed.data
    BY <1>5 DEF VecInv, HeldApart
  <1>11. Exchange(Zeroed, src)
    BY <1>1, <1>4, <1>6, <1>7, <1>8, <1>9, <1>10 DEF Exchange
  <1>12. VecInv'
    BY <1>2, <1>11, HandsChange
  <1> QED
    BY <1>1, <1>3, <1>12

LEMMA InitRawKeeps ==
    ASSUME VecAssumption, VecInv, NEW d \in Names, NEW q \in raws, tda_vec_init_raw(d, q)
    PROVE  VecInv' /\ Only(d) /\ vecs'[d] = q
  <1>1. vecs' = [vecs EXCEPT ![d] = q] /\ heap' = heap /\ raws' = raws \ {q} /\ ~Alive(d)
    BY DEF tda_vec_init_raw
  <1>2. /\ vecs'[d] = q /\ \A e \in Names \ {d} : vecs'[e] = vecs[e]
        /\ vecs' = [e \in Names |-> vecs'[e]]
    BY <1>1 DEF VecInv
  <1>3. q.data # Null /\ IsVec(q) /\ d \notin Owners
    BY <1>1, DeadVec DEF VecInv, HeldApart
  <1>4. d \in Owners' /\ \A e \in Names \ {d} : e \in Owners' <=> e \in Owners
    BY <1>2, <1>3 DEF Owners
  <1>5. ASSUME NEW b \in heap
        PROVE  (\E e \in Owners' : b = BlockOf(vecs'[e])) \/ \E p \in raws' : b = BlockOf(p)
    <2>1. CASE b = BlockOf(q)
      BY <1>2, <1>4, <2>1
    <2>2. CASE \E p \in raws : b = BlockOf(p) /\ p # q
      BY <1>1, <2>2
    <2>3. CASE \E e \in Owners : b = BlockOf(vecs[e])
      <3>1. PICK e \in Owners : b = BlockOf(vecs[e])
        BY <2>3
      <3>2. e \in Names \ {d}
        BY <1>3 DEF Owners
      <3> QED
        BY <1>2, <1>4, <3>1, <3>2
    <2> QED
      BY <2>1, <2>2, <2>3 DEF VecInv, HeldApart
  <1>6. ASSUME NEW e \in Owners'
        PROVE  BlockOf(vecs'[e]) \in heap /\ (e # d => e \in Owners /\ vecs'[e] = vecs[e])
    <2>1. e \in Names
      BY DEF Owners
    <2>2. CASE e = d
      BY <1>2, <2>2 DEF VecInv, HeldApart
    <2>3. CASE e # d
      BY <1>2, <1>4, <2>1, <2>3 DEF VecInv, HeldApart
    <2> QED
      BY <2>2, <2>3
  <1>7. \A p \in raws' : p \in raws /\ p # q /\ BlockOf(p) \in heap
    BY <1>1 DEF VecInv, HeldApart
  <1>8. heap' = {BlockOf(vecs'[e]) : e \in Owners'} \cup {BlockOf(p) : p \in raws'}
    BY <1>1, <1>5, <1>6, <1>7
  <1>9. ASSUME NEW e \in Owners', NEW f \in Owners', vecs'[e].data = vecs'[f].data PROVE e = f
    <2>1. /\ \A g, h \in Owners : vecs[g].data = vecs[h].data => g = h
          /\ \A g \in Owners : vecs[g].data # q.data
      BY DEF VecInv, HeldApart
    <2> QED
      BY <1>2, <1>6, <1>9, <2>1
  <1>10. ASSUME NEW e \in Owners', NEW p \in raws' PROVE vecs'[e].data # p.data
    BY <1>2, <1>6, <1>7 DEF VecInv, HeldApart
  <1>11. IsFiniteSet(raws') /\ (\A p, o \in raws' : p.data = o.data => p = o) /\ \A p \in raws' : p.data # Null
    BY <1>1, <1>7, FS_RemoveElement DEF VecInv, HeldApart
  <1>12. HeldApart'
    BY <1>8, <1>9, <1>10, <1>11 DEF HeldApart, BlockOf
  <1>13. (\A e \in Names : IsVec(vecs'[e])) /\ \A p \in raws' : IsVec(p)
    BY <1>2, <1>3, <1>7 DEF VecInv
  <1> QED
    BY <1>2, <1>12, <1>13 DEF VecInv, Only

\* A vec given up with its block, to be its caller's.
LEMMA HandOutKeeps ==
    ASSUME VecAssumption, VecInv, NEW d \in Names, vecs' = [vecs EXCEPT ![d] = Zeroed], heap' = heap,
           raws' = raws \cup IF vecs[d].data = Null THEN {} ELSE {vecs[d]}
    PROVE  VecInv' /\ Only(d) /\ vecs'[d] = Zeroed
  <1> DEFINE q == vecs[d]
  <1>1. /\ vecs' = [vecs EXCEPT ![d] = Zeroed] /\ heap' = heap
        /\ raws' = raws \cup IF q.data = Null THEN {} ELSE {q}
    OBVIOUS
  <1>2. /\ vecs'[d] = Zeroed /\ \A e \in Names \ {d} : vecs'[e] = vecs[e]
        /\ vecs' = [e \in Names |-> vecs'[e]]
    BY <1>1 DEF VecInv
  <1>3. IsVec(Zeroed) /\ Zeroed.data = Null /\ Zeroed.len = 0 /\ Zeroed.cap = 0 /\ IsVec(q)
    BY EmptyIsVec DEF Zeroed, VecInv
  <1>4. /\ \A e \in Owners' : e \in Owners /\ e # d /\ vecs'[e] = vecs[e]
        /\ \A e \in Owners : e # d => e \in Owners'
    BY <1>2, <1>3 DEF Owners
  <1>5. \A p \in raws' : p \in raws \/ (p = q /\ d \in Owners)
    BY <1>1 DEF Owners
  <1>6. d \in Owners => q \in raws'
    BY <1>1 DEF Owners
  <1>7. \A p \in raws : p \in raws'
    BY <1>1
  <1>8. IsFiniteSet(raws')
    <2>1. IsFiniteSet(raws) /\ IsFiniteSet(raws \cup {q})
      BY FS_AddElement DEF VecInv, HeldApart
    <2>2. raws' = raws \/ raws' = raws \cup {q}
      BY <1>1
    <2> QED
      BY <2>1, <2>2
  <1> HIDE DEF q
  <1>9. ASSUME NEW b \in heap
        PROVE  (\E e \in Owners' : b = BlockOf(vecs'[e])) \/ \E p \in raws' : b = BlockOf(p)
    <2>1. CASE \E p \in raws : b = BlockOf(p)
      BY <1>7, <2>1
    <2>2. CASE \E e \in Owners : b = BlockOf(vecs[e])
      <3>1. PICK e \in Owners : b = BlockOf(vecs[e])
        BY <2>2
      <3>2. CASE e = d
        BY <1>6, <3>1, <3>2 DEF q
      <3>3. CASE e # d
        BY <1>4, <3>1, <3>3
      <3> QED
        BY <3>2, <3>3
    <2> QED
      BY <2>1, <2>2 DEF VecInv, HeldApart
  <1>10. \A e \in Owners' : BlockOf(vecs'[e]) \in heap
    BY <1>4 DEF VecInv, HeldApart
  <1>11. \A p \in raws' : BlockOf(p) \in heap
    BY <1>5 DEF VecInv, HeldApart, q
  <1>12. heap' = {BlockOf(vecs'[e]) : e \in Owners'} \cup {BlockOf(p) : p \in raws'}
    BY <1>1, <1>9, <1>10, <1>11
  <1>13. \A e, f \in Owners' : vecs'[e].data = vecs'[f].data => e = f
    BY <1>4 DEF VecInv, HeldApart
  <1>14. \A p, o \in raws' : p.data = o.data => p = o
    BY <1>5 DEF VecInv, HeldApart, q
  <1>15. \A e \in Owners', p \in raws' : vecs'[e].data # p.data
    BY <1>4, <1>5 DEF VecInv, HeldApart, q
  <1>16. \A p \in raws' : p.data # Null /\ IsVec(p)
    BY <1>3, <1>5 DEF VecInv, HeldApart, q, Owners
  <1>17. HeldApart'
    BY <1>8, <1>12, <1>13, <1>14, <1>15, <1>16 DEF HeldApart, BlockOf
  <1>18. \A e \in Names : IsVec(vecs'[e])
    BY <1>2, <1>3 DEF VecInv
  <1> QED
    BY <1>2, <1>3, <1>16, <1>17, <1>18 DEF VecInv, Only

LEMMA IntoRawKeeps ==
    ASSUME VecAssumption, VecInv, NEW d \in Names, tda_vec_into_raw(d)
    PROVE  VecInv' /\ Only(d) /\ vecs'[d].len = 0 /\ vecs'[d].cap = 0
  <1>1. VecInv' /\ Only(d) /\ vecs'[d] = Zeroed
    BY HandOutKeeps DEF tda_vec_into_raw
  <1> QED
    BY <1>1, EmptyIsVec DEF Zeroed

\* What init_impl leaves: the vec asked for, an empty one, or the zeroed 'out' of a refusal.
LEMMA InitImplOutcomes ==
    ASSUME VecAssumption, VecInv, NEW d \in Names, ~Alive(d), NEW al \in Als, NEW n \in Nat,
           NEW src \in [1 .. n -> Elem], NEW cap \in Sizes, n <= cap, NEW r \in InitImpl(al, heap, src, cap)
    PROVE  /\ Good(vecs[d], r)
           /\ (r.q.len = 0 /\ r.q.cap = 0) \/ (r.q.len = n /\ r.q.cap = cap)
  <1> DEFINE id == FreshId(heap)
             ws == SlotsOf(src, cap)
             q == [Empty(al) EXCEPT !.data = id, !.cap = cap, !.len = Len(src), !.slots = ws]
  <1>1. vecs[d] = Zeroed /\ vecs[d].data = Null
    BY DeadVec
  <1>2. FreeBlock(vecs[d], heap) = heap
    BY <1>1, NoBlock
  <1>3. ASSUME NEW a \in Als \cup {Null}, r.q = Empty(a), r.heap = heap
        PROVE  Good(vecs[d], r) /\ r.q.len = 0 /\ r.q.cap = 0
    <2>1. Good(vecs[d], r)
      BY <1>2, <1>3, EmptiedIsGood
    <2> QED
      BY <1>3, <2>1, EmptyIsVec
  <1>4. CASE r = Outcome(Empty(al), heap, TRUE)
    <2>1. r.q = Empty(al) /\ r.heap = heap
      BY <1>4 DEF Outcome
    <2> QED
      BY <1>3, <2>1
  <1>5. CASE r = Outcome(Zeroed, heap, FALSE)
    <2>1. r.q = Empty(Null) /\ r.heap = heap
      BY <1>5 DEF Outcome, Zeroed
    <2> QED
      BY <1>3, <2>1
  <1>6. CASE cap # 0 /\ r = Outcome(q, heap \cup {BlockOf(q)}, TRUE)
    <2>1. Len(src) = n /\ cap \in Nat
      BY SpanLen DEF Sizes, VecAssumption
    <2>2. id \in Nat /\ id # Null /\ \A b \in heap : b.id # id
      BY FreshIdIsFresh DEF VecAssumption
    <2>3. ws = [s \in 0 .. cap - 1 |-> IF s < n THEN src[s + 1] ELSE Garbage]
      BY <2>1 DEF SlotsOf
    <2>4. \A s \in 0 .. cap - 1 : s < n => src[s + 1] \in Elem
      OBVIOUS
    <2>5. ws \in [0 .. cap - 1 -> Slot] /\ \A i \in 0 .. n - 1 : ws[i] \in Elem
      <3>1. ws \in [0 .. cap - 1 -> Slot]
        BY <2>3, <2>4 DEF Slot
      <3>2. ASSUME NEW i \in 0 .. n - 1 PROVE ws[i] \in Elem
        <4>1. i \in 0 .. cap - 1 /\ i < n
          BY <2>1
        <4> QED
          BY <2>3, <2>4, <4>1
      <3> QED
        BY <3>1, <3>2
    <2> HIDE DEF ws, id
    <2>6. PICK nil : nil = SlotsOf(<<>>, 0)
      OBVIOUS
    <2>7. PICK p : p = q
      OBVIOUS
    <2>8. p = [al |-> al, data |-> id, cap |-> cap, len |-> n, slots |-> ws]
      <3>1. Empty(al) = [al |-> al, data |-> Null, cap |-> 0, len |-> 0, slots |-> nil]
        BY <2>6 DEF Empty
      <3>2. p.al = al /\ p.data = id /\ p.cap = cap /\ p.len = n /\ p.slots = ws
        BY <2>1, <2>7, <3>1
      <3>3. Shaped(p)
        BY <2>7, <3>1 DEF Shaped
      <3> QED
        BY <3>2, <3>3 DEF Shaped
    <2>9. r.q = p /\ r.heap = heap \cup {BlockOf(p)}
      BY <1>6, <2>7 DEF Outcome
    <2> HIDE DEF q
    <2>10. /\ Shaped(p) /\ p.al = al /\ p.data = id /\ p.cap = cap /\ p.len = n /\ p.slots = ws
      BY <2>8 DEF Shaped
    <2>11. IsVec(p)
      BY <1>6, <2>1, <2>2, <2>5, <2>10, FieldsMakeVec
    <2>12. r.heap = HeapWith(vecs[d], p)
      BY <1>2, <2>2, <2>9, <2>10 DEF HeapWith, FreeBlock
    <2>13. FromBlock(vecs[d], p)
      BY <2>2, <2>10 DEF FromBlock
    <2> QED
      BY <2>9, <2>10, <2>11, <2>12, <2>13 DEF Good
  <1> QED
    BY <1>4, <1>5, <1>6 DEF InitImpl

\* A vec or an arr made of given elems.
LEMMA InitEnds ==
    ASSUME VecAssumption, VecInv, NEW d \in Names, ~Alive(d), NEW al \in Als, NEW n \in Nat,
           NEW src \in [1 .. n -> Elem], NEW cap \in Sizes, n <= cap, NEW r \in InitImpl(al, heap, src, cap),
           NEW c, NEW ok, Ends(c, d, r.q, r.heap, ok)
    PROVE  VecInv' /\ Only(d) /\ (n = cap => vecs'[d].len = vecs'[d].cap)
  <1>1. /\ Good(vecs[d], r)
        /\ (r.q.len = 0 /\ r.q.cap = 0) \/ (r.q.len = n /\ r.q.cap = cap)
    BY InitImplOutcomes
  <1>2. VecInv' /\ Now(d, r.q)
    BY <1>1, EndsKeeps
  <1> QED
    BY <1>1, <1>2 DEF Now

LEMMA MakeKeeps ==
    ASSUME VecAssumption, VecInv, NEW d \in Names, NEW al \in Als, NEW src \in Spans, NEW cap \in Sizes,
           tda_vec_make(d, al, src, cap)
    PROVE  VecInv' /\ Only(d)
  <1>1. ~Alive(d) /\ Len(src) <= cap
    BY DEF tda_vec_make
  <1>2. PICK r, c : r \in InitImpl(al, heap, src, cap) /\ Ends(c, d, r.q, r.heap, r.ok)
    BY DEF tda_vec_make
  <1>3. PICK n \in Nat : n = Len(src) /\ src \in [1 .. n -> Elem]
    BY SpansAre
  <1>4. src \in [1 .. n -> Elem] /\ n <= cap
    BY <1>1, <1>3
  <1> QED
    BY <1>1, <1>2, <1>4, InitEnds

LEMMA CopyWithKeeps ==
    ASSUME VecAssumption, VecInv, NEW d \in Names, NEW al \in Als, NEW e \in Names, tda_vec_copy_with(d, al, e)
    PROVE  VecInv' /\ Only(d)
  <1>1. ~Alive(d) /\ Alive(e)
    BY DEF tda_vec_copy_with
  <1>2. PICK n, src : n = vecs[e].len /\ src = Contents(vecs[e])
    OBVIOUS
  <1>3. PICK r, c : r \in InitImpl(al, heap, src, n) /\ Ends(c, d, r.q, r.heap, r.ok)
    BY <1>2 DEF tda_vec_copy_with
  <1>4. n \in Nat /\ src \in [1 .. n -> Elem]
    BY <1>1, <1>2, AliveVec, ContentsAre
  <1>5. n \in Sizes /\ n <= n
    BY <1>1, <1>2, <1>4, AliveVec DEF Sizes, VecAssumption
  <1> QED
    BY <1>1, <1>3, <1>4, <1>5, InitEnds

LEMMA DeinitKeeps ==
    ASSUME VecAssumption, VecInv, NEW d \in Names, NEW c, NEW ok,
           Ends(c, d, Zeroed, IF Alive(d) THEN FreeBlock(vecs[d], heap) ELSE heap, ok)
    PROVE  VecInv' /\ Only(d) /\ vecs'[d].len = 0 /\ vecs'[d].cap = 0
  <1> DEFINE r == [q |-> Zeroed, heap |-> FreeBlock(vecs[d], heap)]
  <1>1. r.q = Zeroed /\ r.heap = FreeBlock(vecs[d], heap)
    OBVIOUS
  <1> HIDE DEF r
  <1>2. (IF Alive(d) THEN FreeBlock(vecs[d], heap) ELSE heap) = r.heap
    <2>1. CASE Alive(d)
      BY <1>1, <2>1
    <2>2. CASE ~Alive(d)
      BY <1>1, <2>2, DeadVec, NoBlock
    <2> QED
      BY <2>1, <2>2
  <1>3. Ends(c, d, r.q, r.heap, ok)
    BY <1>1, <1>2
  <1>4. Good(vecs[d], r)
    BY <1>1, EmptiedIsGood DEF Zeroed
  <1>5. VecInv' /\ Now(d, r.q)
    BY <1>3, <1>4, EndsKeeps
  <1> QED
    BY <1>1, <1>5, EmptyIsVec DEF Now, Zeroed

\* The elems of another vec over the block, from its start.
LEMMA OverwriteIs ==
    ASSUME NEW p, OnBlock(p), NEW n \in Nat, n <= p.cap, NEW src \in [1 .. n -> Elem],
           NEW m, m = Filled(p, 0, src)
    PROVE  /\ InPlace(p, m) /\ m.len = p.len /\ OnBlock(m)
           /\ \A i \in 0 .. n - 1 : m.slots[i] \in Elem
  <1>1. PICK z \in Nat : z = 0
    OBVIOUS
  <1>2. /\ InPlace(p, m) /\ m.len = p.len
        /\ \A i \in 0 .. p.cap - 1 : m.slots[i] = IF i \in z .. z + n - 1 THEN src[i - z + 1] ELSE p.slots[i]
    <2>1. m = Filled(p, z, src)
      BY <1>1
    <2> QED
      BY <2>1, FilledSlots
  <1>3. p.cap \in Nat /\ p.len \in Nat
    BY DEF OnBlock
  <1>4. ASSUME NEW i \in 0 .. n - 1 PROVE m.slots[i] \in Elem
    <2>1. i \in 0 .. p.cap - 1 /\ i \in z .. z + n - 1 /\ i - z + 1 \in 1 .. n
      BY <1>1, <1>3
    <2> QED
      BY <1>2, <2>1
  <1> QED
    BY <1>2, <1>3, <1>4, InPlaceOnBlock

LEMMA CopyAssignKeeps ==
    ASSUME VecAssumption, VecInv, NEW d \in Names, NEW e \in Names, tda_vec_copy_assign(d, e)
    PROVE  VecInv' /\ Only(d)
  <1>1. Alive(d) /\ Alive(e)
    BY DEF tda_vec_copy_assign
  <1>2. PICK n, src : n = vecs[e].len /\ src = Contents(vecs[e])
    OBVIOUS
  <1>3. n \in Nat /\ src \in [1 .. n -> Elem] /\ Len(src) = n
    BY <1>1, <1>2, AliveVec, ContentsAre
  <1>4. n \in Sizes
    BY <1>1, <1>2, <1>3, AliveVec DEF Sizes, VecAssumption
  <1>5. PICK s, c : /\ s \in IF d = e THEN {Outcome(vecs[d], heap, TRUE)}
                             ELSE CopyAssignOutcomes(vecs[d], heap, src)
                    /\ Ends(c, d, s.q, s.heap, s.ok)
    BY <1>2 DEF tda_vec_copy_assign
  <1>6. CASE d = e
    <2>1. s.q = vecs[d] /\ s.heap = heap
      BY <1>5, <1>6 DEF Outcome
    <2> QED
      BY <1>5, <2>1, SameIsGood, EndsKeeps DEF Now
  <1>7. CASE d # e
    <2>1. PICK r \in ReserveOutcomes(vecs[d], heap, n) :
             s = IF r.ok THEN [r EXCEPT !.q = WithLen(Filled(r.q, 0, src), n)] ELSE r
      BY <1>3, <1>5, <1>7 DEF CopyAssignOutcomes, WithLen
    <2>2. Refused(vecs[d], r) \/ Grown(vecs[d], r, n)
      BY <1>1, <1>4, <2>1, ReserveOutcomesAre
    <2>3. CASE Refused(vecs[d], r)
      <3>1. s = r
        BY <2>1, <2>3 DEF Refused
      <3> QED
        BY <1>5, <2>3, <3>1, RefusedEnds DEF Now
    <2>4. CASE Grown(vecs[d], r, n)
      <3>1. OnBlock(r.q) /\ r.ok /\ IsOutcome(r) /\ r.q.cap \in Nat /\ r.q.cap >= n
        BY <2>4, GrownFields
      <3>2. PICK p, m, o : p = r.q /\ m = Filled(p, 0, src) /\ o = WithLen(m, n) /\ s = [r EXCEPT !.q = o]
        BY <2>1, <3>1
      <3>3. s.q = o /\ s.heap = r.heap
        BY <3>1, <3>2, OutcomeWith
      <3>4. n <= p.cap /\ OnBlock(p)
        BY <1>3, <3>1, <3>2
      <3>5. /\ InPlace(p, m) /\ OnBlock(m) /\ \A i \in 0 .. n - 1 : m.slots[i] \in Elem
        <4>1. src \in [1 .. n -> Elem] /\ m = Filled(p, 0, src) /\ n \in Nat
          BY <1>3, <3>2
        <4> QED
          BY <3>4, <4>1, OverwriteIs
      <3>6. InPlace(m, o) /\ o.len = n /\ o.slots = m.slots
        BY <3>2, <3>5, LenChanges
      <3>7. /\ InPlace(r.q, o) /\ o.len \in 0 .. r.q.cap /\ \A i \in 0 .. o.len - 1 : o.slots[i] \in Elem
        BY <1>3, <3>1, <3>2, <3>5, <3>6, InPlaceTrans
      <3>8. Ends(c, d, o, r.heap, s.ok)
        BY <1>5, <3>3
      <3> QED
        BY <1>1, <2>4, <3>7, <3>8, GrownEnds DEF Now
    <2> QED
      BY <2>2, <2>3, <2>4
  <1> QED
    BY <1>6, <1>7

-----------------------------------------------------------------------------
(* The arrs.  An arr frees and resizes its block by its length: that is the *)
(* block it has only as long as the block is exactly full.                  *)

LEMMA FullIsReleased ==
    ASSUME NEW q, q.len = q.cap
    PROVE  ArrReleased(q, heap, q.len) = FreeBlock(q, heap)
  BY DEF ArrReleased, FreeBlock, BlockOf

LEMMA ArrMakeKeeps ==
    ASSUME VecAssumption, VecInv, NEW d \in Names, NEW al \in Als, NEW src \in Spans, tda_arr_make(d, al, src)
    PROVE  VecInv' /\ Only(d) /\ vecs'[d].len = vecs'[d].cap
  <1>1. ~Alive(d)
    BY DEF tda_arr_make
  <1>2. PICK k \in 0 .. MaxSpan : src \in [1 .. k -> Elem]
    BY DEF Spans
  <1>3. k \in Nat /\ k \in Sizes /\ k <= k
    BY DEF Sizes, VecAssumption
  <1>4. Len(src) = k
    BY <1>2, <1>3, SpanLen
  <1>5. PICK r, c : r \in InitImpl(al, heap, src, k) /\ Ends(c, d, r.q, r.heap, r.ok)
    BY <1>4 DEF tda_arr_make, ArrInit
  <1> QED
    BY <1>1, <1>2, <1>3, <1>5, InitEnds

LEMMA ArrCopyWithKeeps ==
    ASSUME VecAssumption, VecInv, NEW d \in Names, NEW al \in Als, NEW e \in Names, tda_arr_copy_with(d, al, e)
    PROVE  VecInv' /\ Only(d) /\ vecs'[d].len = vecs'[d].cap
  <1>1. ~Alive(d) /\ Alive(e)
    BY DEF tda_arr_copy_with
  <1>2. PICK n, src : n = vecs[e].len /\ src = Contents(vecs[e])
    OBVIOUS
  <1>3. n \in Nat /\ src \in [1 .. n -> Elem] /\ Len(src) = n
    BY <1>1, <1>2, AliveVec, ContentsAre
  <1>4. PICK r, c : r \in InitImpl(al, heap, src, n) /\ Ends(c, d, r.q, r.heap, r.ok)
    BY <1>2, <1>3 DEF tda_arr_copy_with, ArrInit
  <1>5. n \in Sizes /\ n <= n
    BY <1>1, <1>2, <1>3, AliveVec DEF Sizes, VecAssumption
  <1>6. src \in [1 .. n -> Elem] /\ n \in Nat
    BY <1>3
  <1> QED
    BY <1>1, <1>4, <1>5, <1>6, InitEnds

LEMMA ArrDeinitKeeps ==
    ASSUME VecAssumption, VecInv, NEW d \in Names, vecs[d].len = vecs[d].cap, tda_arr_deinit(d)
    PROVE  VecInv' /\ Only(d) /\ vecs'[d].len = vecs'[d].cap
  <1>1. PICK c : Ends(c, d, Zeroed, IF Alive(d) THEN FreeBlock(vecs[d], heap) ELSE heap, TRUE)
    BY FullIsReleased DEF tda_arr_deinit
  <1> QED
    BY <1>1, DeinitKeeps

LEMMA ArrMoveAssignKeeps ==
    ASSUME VecAssumption, VecInv, NEW d \in Names, NEW e \in Names, vecs[d].len = vecs[d].cap,
           d # e, tda_arr_move_assign(d, e)
    PROVE  /\ VecInv' /\ \A f \in Names \ {d, e} : vecs'[f] = vecs[f]
           /\ vecs'[d] = vecs[e] /\ vecs'[e].len = 0 /\ vecs'[e].cap = 0
  <1>1. /\ vecs' = [vecs EXCEPT ![d] = vecs[e], ![e] = Empty(vecs[e].al)] /\ raws' = raws /\ Alive(e)
        /\ heap' = IF Alive(d) THEN FreeBlock(vecs[d], heap) ELSE heap
    BY FullIsReleased DEF tda_arr_move_assign
  <1>2. heap' = FreeBlock(vecs[d], heap)
    BY <1>1, DeadVec, NoBlock
  <1> QED
    BY <1>1, <1>2, MoveAssignKeeps

\* The block resized to the length of the other arr, whose elems then fill it.
LEMMA ArrFilled ==
    ASSUME VecAssumption, VecInv, NEW d \in Names, Alive(d), NEW n \in Sizes, n # 0,
           NEW r, OnNewBlock(vecs[d], r, n), NEW src \in [1 .. n -> Elem],
           NEW b, b = r.q, NEW m, m = WithLen(b, n), NEW o, o = Filled(m, 0, src),
           NEW c, NEW ok, Ends(c, d, o, r.heap, ok)
    PROVE  VecInv' /\ Only(d) /\ vecs'[d].len = vecs'[d].cap
  <1>1. n \in Nat /\ vecs[d].len \in Nat /\ vecs[d].al \in Als
    BY AliveVec DEF Sizes, VecAssumption
  <1>2. OnBlock(b) /\ b.cap = n
    BY <1>1 DEF OnNewBlock, OnBlock
  <1>3. InPlace(b, m) /\ m.len = n /\ m.cap = n
    BY <1>2, LenChanges DEF InPlace
  <1>4. OnBlock(m) /\ n <= m.cap
    BY <1>1, <1>2, <1>3, InPlaceOnBlock
  <1>5. InPlace(m, o) /\ o.len = m.len /\ \A i \in 0 .. n - 1 : o.slots[i] \in Elem
    BY <1>1, <1>4, OverwriteIs
  <1>6. InPlace(b, o) /\ o.len = n /\ o.cap = n /\ o.data = b.data
    BY <1>2, <1>3, <1>5, InPlaceTrans DEF InPlace
  <1>7. /\ Shaped(o) /\ o.al \in Als /\ o.data \in Nat \cup {Null} /\ o.cap \in Sizes /\ o.len \in 0 .. o.cap
        /\ o.slots \in [0 .. o.cap - 1 -> Slot]
        /\ (o.data = Null) <=> (o.cap = 0)
    BY <1>1, <1>2, <1>6 DEF InPlace, OnNewBlock
  <1>8. IsVec(o)
    <2>1. \A i \in 0 .. o.len - 1 : o.slots[i] \in Elem
      BY <1>5, <1>6
    <2> QED
      BY <1>7, <2>1, FieldsMakeVec
  <1> DEFINE t == [q |-> o, heap |-> r.heap]
  <1>9. t.q = o /\ t.heap = r.heap
    OBVIOUS
  <1> HIDE DEF t
  <1>10. BlockOf(o) = BlockOf(b) /\ o.data = b.data
    BY <1>6 DEF BlockOf, InPlace
  <1>11. FromBlock(vecs[d], b) /\ r.heap = HeapWith(vecs[d], b)
    BY DEF OnNewBlock
  <1>12. Good(vecs[d], t)
    BY <1>8, <1>9, <1>10, <1>11 DEF Good, FromBlock, HeapWith
  <1>13. VecInv' /\ Now(d, o)
    BY <1>9, <1>12, EndsKeeps
  <1> QED
    BY <1>6, <1>13 DEF Now

LEMMA ArrCopyAssignKeeps ==
    ASSUME VecAssumption, VecInv, NEW d \in Names, NEW e \in Names, vecs[d].len = vecs[d].cap,
           tda_arr_copy_assign(d, e)
    PROVE  VecInv' /\ Only(d) /\ vecs'[d].len = vecs'[d].cap
  <1> DEFINE q == vecs[d]
  <1>1. Alive(d) /\ Alive(e)
    BY DEF tda_arr_copy_assign
  <1>2. PICK n, src : n = vecs[e].len /\ src = Contents(vecs[e])
    OBVIOUS
  <1>3. n \in Nat /\ src \in [1 .. n -> Elem] /\ Len(src) = n
    BY <1>1, <1>2, AliveVec, ContentsAre
  <1>4. n \in Sizes
    BY <1>1, <1>2, <1>3, AliveVec DEF Sizes, VecAssumption
  <1>5. PICK s, c : /\ s \in IF d = e THEN {Outcome(q, heap, TRUE)} ELSE ArrResized(q, heap, n)
                    /\ Ends(c, d, IF s.ok THEN Filled(s.q, 0, src) ELSE s.q, s.heap, s.ok)
    BY <1>2, <1>3 DEF tda_arr_copy_assign
  <1>6. /\ OnBlock(q) /\ IsVec(q) /\ q.cap \in Nat /\ q.al \in Als
    BY <1>1, AliveVec
  <1>7. CASE d = e \/ n = q.len
    <2>1. s.q = q /\ s.heap = heap /\ s.ok /\ n = q.len
      BY <1>2, <1>5, <1>7 DEF ArrResized, Outcome
    <2>2. PICK m : m = Filled(q, 0, src)
      OBVIOUS
    <2>3. n <= q.cap
      BY <1>3, <2>1
    <2>4. InPlace(q, m) /\ m.len = q.len /\ \A i \in 0 .. n - 1 : m.slots[i] \in Elem
      <3>1. src \in [1 .. n -> Elem] /\ n \in Nat
        BY <1>3
      <3> QED
        BY <1>6, <2>2, <2>3, <3>1, OverwriteIs
    <2>5. EndsOk(c, d, m)
      <3>1. s.ok = TRUE
        BY <1>5, <1>7 DEF ArrResized, Outcome
      <3> QED
        BY <1>5, <2>1, <2>2, <3>1 DEF EndsOk
    <2>6. m.len \in 0 .. q.cap /\ \A i \in 0 .. m.len - 1 : m.slots[i] \in Elem
      BY <1>3, <1>6, <2>1, <2>3, <2>4
    <2>7. VecInv' /\ Now(d, m)
      BY <1>1, <2>4, <2>5, <2>6, EndsOkKeeps
    <2> QED
      BY <2>4, <2>7 DEF Now, InPlace
  <1>8. CASE d # e /\ n # q.len /\ n = 0
    <2>1. s.q = Empty(q.al) /\ s.heap = FreeBlock(q, heap) /\ s.ok
      BY <1>5, <1>8, FullIsReleased DEF ArrResized, Outcome
    <2>2. PICK p, m : p = Empty(q.al) /\ m = Filled(p, 0, src)
      OBVIOUS
    <2>3. IsVec(p) /\ OnBlock(p) /\ p.data = Null /\ p.len = 0 /\ p.cap = 0 /\ p.al \in Als
      BY <1>6, <2>2, EmptyIsVec, VecOnBlock
    <2>4. InPlace(p, m) /\ m.len = p.len
      <3>1. src \in [1 .. n -> Elem] /\ n \in Nat /\ n <= p.cap
        BY <1>3, <1>8, <2>3
      <3> QED
        BY <2>2, <2>3, <3>1, OverwriteIs
    <2>5. IsVec(m) /\ BlockOf(m) = BlockOf(p)
      <3>1. m.len \in 0 .. p.cap /\ \A i \in 0 .. m.len - 1 : m.slots[i] \in Elem
        BY <2>3, <2>4
      <3> QED
        BY <2>3, <2>4, <3>1, InPlaceIsVec
    <2> DEFINE t == [q |-> m, heap |-> s.heap]
    <2>6. t.q = m /\ t.heap = s.heap
      OBVIOUS
    <2> HIDE DEF t
    <2>7. m.data = Null /\ m.len = 0 /\ m.cap = 0
      BY <2>3, <2>4 DEF InPlace
    <2>8. Good(q, t)
      BY <2>1, <2>5, <2>6, <2>7 DEF Good, FromBlock, HeapWith, FreeBlock
    <2>9. Ends(c, d, t.q, t.heap, s.ok)
      BY <1>5, <2>1, <2>2, <2>6
    <2>10. VecInv' /\ Now(d, t.q)
      BY <2>8, <2>9, EndsKeeps
    <2> QED
      BY <2>6, <2>7, <2>10 DEF Now
  <1>9. CASE d # e /\ n # q.len /\ n # 0
    <2>1. PICK r \in Realloc(q, heap, n) : s = IF r.ok THEN [r EXCEPT !.q.len = n] ELSE r
      BY <1>5, <1>9 DEF ArrResized
    <2>2. Refused(q, r) \/ OnNewBlock(q, r, n)
      BY <1>4, <1>6, <2>1, ReallocOutcomes
    <2>3. CASE Refused(q, r)
      <3>1. Ends(c, d, r.q, r.heap, s.ok)
        BY <1>5, <2>1, <2>3 DEF Refused
      <3> QED
        BY <2>3, <3>1, RefusedEnds DEF Now
    <2>4. CASE OnNewBlock(q, r, n)
      <3>1. r.ok /\ IsOutcome(r)
        BY <2>4 DEF OnNewBlock
      <3>2. PICK b, m, o : b = r.q /\ m = WithLen(b, n) /\ o = Filled(m, 0, src)
        OBVIOUS
      <3>3. s.q = m /\ s.heap = r.heap /\ s.ok
        BY <2>1, <3>1, <3>2 DEF IsOutcome, Outcome, WithLen
      <3>4. Ends(c, d, o, r.heap, s.ok)
        BY <1>5, <3>2, <3>3
      <3>5. src \in [1 .. n -> Elem] /\ n # 0
        BY <1>3, <1>9
      <3> QED
        BY <1>1, <1>4, <2>4, <3>2, <3>4, <3>5, ArrFilled
    <2> QED
      BY <2>2, <2>3, <2>4
  <1> QED
    BY <1>7, <1>8, <1>9

-----------------------------------------------------------------------------
(* Every call, and the invariant of the three kinds side by side.           *)

LEMMA LifetimeKeeps ==
    ASSUME VecAssumption, VecInv, NEW d \in Names, Lifetime(d)
    PROVE  VecInv' /\ Only(d)
  <1>1. CASE \E al \in Als, src \in Spans, cap \in Sizes : tda_vec_make(d, al, src, cap)
    BY <1>1, MakeKeeps
  <1>2. CASE \E q \in raws : tda_vec_init_raw(d, q)
    BY <1>2, InitRawKeeps
  <1>3. CASE tda_vec_into_raw(d)
    BY <1>3, IntoRawKeeps
  <1>4. CASE tda_vec_deinit(d)
    BY <1>4, DeinitKeeps DEF tda_vec_deinit
  <1> QED
    BY <1>1, <1>2, <1>3, <1>4 DEF Lifetime

\* the step leaves every vec but those of d and e alone
OnlyBoth(d, e) == \A f \in Names \ {d, e} : vecs'[f] = vecs[f]

LEMMA OnlyOneIsBoth ==
    ASSUME NEW d, NEW e, Only(d)
    PROVE  OnlyBoth(d, e)
  BY DEF Only, OnlyBoth

LEMMA VecMoveKeeps ==
    ASSUME VecAssumption, VecInv, NEW d \in Names, NEW e \in Names, tda_vec_move_assign(d, e)
    PROVE  VecInv' /\ OnlyBoth(d, e)
  <1>1. Alive(e) /\ raws' = raws
    BY DEF tda_vec_move_assign
  <1>2. CASE d = e
    <2>1. vecs' = vecs /\ heap' = heap
      BY <1>2 DEF tda_vec_move_assign
    <2> QED
      BY <1>1, <2>1, StutterKeeps DEF OnlyBoth
  <1>3. CASE d # e
    <2>1. /\ vecs' = [vecs EXCEPT ![d] = vecs[e], ![e] = Empty(vecs[e].al)]
          /\ heap' = IF Alive(d) THEN FreeBlock(vecs[d], heap) ELSE heap
      BY <1>3 DEF tda_vec_move_assign
    <2>2. heap' = FreeBlock(vecs[d], heap)
      BY <2>1, DeadVec, NoBlock
    <2> QED
      BY <1>1, <1>3, <2>1, <2>2, MoveAssignKeeps DEF OnlyBoth
  <1> QED
    BY <1>2, <1>3

LEMMA VecSwapKeeps ==
    ASSUME VecAssumption, VecInv, NEW d \in Names, NEW e \in Names, tda_vec_swap(d, e)
    PROVE  VecInv' /\ OnlyBoth(d, e) /\ vecs'[d] = vecs[e] /\ vecs'[e] = vecs[d]
  <1>1. vecs' = [vecs EXCEPT ![d] = vecs[e], ![e] = vecs[d]] /\ heap' = heap /\ raws' = raws
    BY DEF tda_vec_swap
  <1> QED
    BY <1>1, SwapKeeps DEF OnlyBoth

LEMMA PairsKeep ==
    ASSUME VecAssumption, VecInv, NEW d \in Names, NEW e \in Names, Pairs(d, e)
    PROVE  VecInv' /\ OnlyBoth(d, e)
  <1>1. CASE \E al \in Als : tda_vec_copy_with(d, al, e)
    BY <1>1, CopyWithKeeps, OnlyOneIsBoth
  <1>2. CASE tda_vec_copy_assign(d, e)
    BY <1>2, CopyAssignKeeps, OnlyOneIsBoth
  <1>3. CASE tda_vec_move_assign(d, e)
    BY <1>3, VecMoveKeeps
  <1>4. CASE tda_vec_swap(d, e)
    BY <1>4, VecSwapKeeps
  <1>5. CASE Alive(d) /\ tda_vec_eq(d, e)
    BY <1>5, EqKeeps, OnlyOneIsBoth DEF Now
  <1> QED
    BY <1>1, <1>2, <1>3, <1>4, <1>5 DEF Pairs

\* Front and back are calls on an idx.
LEMMA EndsOfVec ==
    ASSUME VecAssumption, VecInv, NEW d \in Names, Alive(d)
    PROVE  /\ tda_vec_front(d) \/ tda_vec_back(d) => VecInv' /\ Now(d, vecs[d])
           /\ \A v \in Vals(vecs[d]) :
                 ~v.alias /\ (tda_vec_front_mut(d, v) \/ tda_vec_back_mut(d, v)) => VecInv' /\ Now(d, vecs[d])
  <1>1. vecs[d].len \in Nat /\ (vecs[d].len > 0 => vecs[d].len - 1 \in Nat) /\ 0 \in Nat
    BY AliveVec
  <1>2. tda_vec_front(d) \/ tda_vec_back(d) => VecInv' /\ Now(d, vecs[d])
    BY GetKeeps DEF tda_vec_front, tda_vec_back
  <1>3. ASSUME NEW v \in Vals(vecs[d]), ~v.alias, tda_vec_front_mut(d, v) \/ tda_vec_back_mut(d, v)
        PROVE  VecInv' /\ Now(d, vecs[d])
    <2>1. PICK idx \in Nat : tda_vec_get_mut(d, idx, v)
      BY <1>1, <1>3 DEF tda_vec_front_mut, tda_vec_back_mut
    <2> QED
      BY <1>3, <2>1, GetMutKeeps
  <1> QED
    BY <1>2, <1>3

LEMMA ModsKeep ==
    ASSUME VecAssumption, VecInv, NEW d \in Names, Alive(d), Mods(d)
    PROVE  VecInv' /\ Only(d)
  <1>1. vecs[d].len \in Nat /\ \A i \in 0 .. vecs[d].len : i \in Nat
    BY AliveVec
  <1>2. CASE \E v \in Vals(vecs[d]) :
               \/ tda_vec_push(d, v) \/ tda_vec_push_assume_cap(d, v)
               \/ ~v.alias /\ (tda_vec_front_mut(d, v) \/ tda_vec_back_mut(d, v))
               \/ \E idx \in 0 .. vecs[d].len : tda_vec_insert(d, idx, v) \/ tda_vec_set(d, idx, v)
    <2>1. PICK v \in Vals(vecs[d]) :
               \/ tda_vec_push(d, v) \/ tda_vec_push_assume_cap(d, v)
               \/ ~v.alias /\ (tda_vec_front_mut(d, v) \/ tda_vec_back_mut(d, v))
               \/ \E idx \in 0 .. vecs[d].len : tda_vec_insert(d, idx, v) \/ tda_vec_set(d, idx, v)
      BY <1>2
    <2>2. CASE tda_vec_push(d, v) \/ tda_vec_push_assume_cap(d, v)
      BY <2>2, PushKeeps, PushAssumeCapKeeps
    <2>3. CASE ~v.alias /\ (tda_vec_front_mut(d, v) \/ tda_vec_back_mut(d, v))
      BY <2>3, EndsOfVec DEF Now
    <2>4. CASE \E idx \in 0 .. vecs[d].len : tda_vec_insert(d, idx, v) \/ tda_vec_set(d, idx, v)
      BY <1>1, <2>4, InsertKeeps, SetKeeps DEF Now
    <2> QED
      BY <2>1, <2>2, <2>3, <2>4
  <1>3. CASE \E src \in Spans :
               \/ tda_vec_extend(d, src)
               \/ \E idx \in 0 .. vecs[d].len : tda_vec_insert_span(d, idx, src)
    BY <1>1, <1>3, ExtendKeeps, InsertSpanKeeps
  <1>4. CASE tda_vec_pop_to(d) \/ tda_vec_pop(d) \/ tda_vec_shrink_to_fit(d) \/ tda_vec_clear(d)
    BY <1>4, PopToKeeps, PopKeeps, ShrinkToFitKeeps, ClearKeeps
  <1>5. CASE tda_vec_to_span(d) \/ tda_vec_fprint(d) \/ tda_vec_front(d) \/ tda_vec_back(d)
    BY <1>5, ToSpanKeeps, EndsOfVec DEF tda_vec_fprint, Now
  <1>6. CASE \E i \in 0 .. vecs[d].len :
               \/ tda_vec_swap_remove(d, i) \/ tda_vec_remove(d, i) \/ tda_vec_get(d, i)
               \/ \E v \in Vals(vecs[d]) : ~v.alias /\ tda_vec_get_mut(d, i, v)
               \/ \E j \in 0 .. vecs[d].len : tda_vec_remove_range(d, i, j) \/ tda_vec_swap_elems(d, i, j)
    <2>1. PICK i \in 0 .. vecs[d].len :
               \/ tda_vec_swap_remove(d, i) \/ tda_vec_remove(d, i) \/ tda_vec_get(d, i)
               \/ \E v \in Vals(vecs[d]) : ~v.alias /\ tda_vec_get_mut(d, i, v)
               \/ \E j \in 0 .. vecs[d].len : tda_vec_remove_range(d, i, j) \/ tda_vec_swap_elems(d, i, j)
      BY <1>6
    <2>2. i \in Nat /\ 1 \in Nat
      BY <1>1
    <2>3. CASE tda_vec_swap_remove(d, i) \/ tda_vec_get(d, i)
      BY <2>2, <2>3, SwapRemoveKeeps, GetKeeps DEF Now
    <2>4. CASE tda_vec_remove(d, i)
      <3>1. PICK n \in Nat : tda_vec_remove_range(d, i, n)
        BY <2>2, <2>4 DEF tda_vec_remove
      <3> QED
        BY <2>2, <3>1, RemoveRangeKeeps
    <2>5. CASE \E v \in Vals(vecs[d]) : ~v.alias /\ tda_vec_get_mut(d, i, v)
      BY <2>2, <2>5, GetMutKeeps DEF Now
    <2>6. CASE \E j \in 0 .. vecs[d].len : tda_vec_remove_range(d, i, j) \/ tda_vec_swap_elems(d, i, j)
      BY <1>1, <2>2, <2>6, RemoveRangeKeeps, SwapElemsKeeps DEF Now
    <2> QED
      BY <2>1, <2>3, <2>4, <2>5, <2>6
  <1>7. CASE \E n \in Sizes : tda_vec_truncate(d, n) \/ tda_vec_reserve(d, n) \/ tda_vec_resize(d, n)
    BY <1>7, TruncateKeeps, ReserveKeeps, ResizeKeeps
  <1>8. CASE \E keep \in SUBSET Elem : tda_vec_retain(d, keep)
    BY <1>8, RetainKeeps
  <1> QED
    BY <1>2, <1>3, <1>4, <1>5, <1>6, <1>7, <1>8 DEF Mods

\* every arr has a block of exactly its elems
ArrFull == \A d \in Names : kinds[d] = "arr" => vecs[d].len = vecs[d].cap

ArraysInv == VecInv /\ ArrFull

LEMMA ArrLifetimeKeeps ==
    ASSUME VecAssumption, VecInv, NEW d \in Names, vecs[d].len = vecs[d].cap, ArrLifetime(d)
    PROVE  VecInv' /\ Only(d) /\ vecs'[d].len = vecs'[d].cap
  <1>1. CASE \E al \in Als, src \in Spans : tda_arr_make(d, al, src)
    BY <1>1, ArrMakeKeeps
  <1>2. CASE \E q \in raws : tda_arr_init_raw(d, q)
    BY <1>2, InitRawKeeps DEF tda_arr_init_raw
  <1>3. CASE tda_arr_into_raw(d)
    BY <1>3, IntoRawKeeps DEF tda_arr_into_raw
  <1>4. CASE tda_arr_deinit(d)
    BY <1>4, ArrDeinitKeeps
  <1> QED
    BY <1>1, <1>2, <1>3, <1>4 DEF ArrLifetime

LEMMA ArrPairsKeep ==
    ASSUME VecAssumption, VecInv, NEW d \in Names, NEW e \in Names,
           vecs[d].len = vecs[d].cap, vecs[e].len = vecs[e].cap, ArrPairs(d, e)
    PROVE  VecInv' /\ OnlyBoth(d, e) /\ vecs'[d].len = vecs'[d].cap /\ vecs'[e].len = vecs'[e].cap
  <1>1. Only(d) /\ vecs'[d].len = vecs'[d].cap => vecs'[e].len = vecs'[e].cap
    BY DEF Only
  <1>2. CASE \E al \in Als : tda_arr_copy_with(d, al, e)
    BY <1>1, <1>2, ArrCopyWithKeeps, OnlyOneIsBoth
  <1>3. CASE tda_arr_copy_assign(d, e)
    BY <1>1, <1>3, ArrCopyAssignKeeps, OnlyOneIsBoth
  <1>4. CASE tda_arr_move_assign(d, e) /\ d = e
    <2>1. vecs' = vecs /\ heap' = heap /\ raws' = raws
      BY <1>4 DEF tda_arr_move_assign
    <2> QED
      BY <2>1, StutterKeeps DEF OnlyBoth
  <1>5. CASE tda_arr_move_assign(d, e) /\ d # e
    BY <1>5, ArrMoveAssignKeeps DEF OnlyBoth
  <1>6. CASE tda_arr_swap(d, e)
    BY <1>6, VecSwapKeeps DEF tda_arr_swap
  <1>7. CASE Alive(d) /\ tda_arr_eq(d, e)
    BY <1>1, <1>7, EqKeeps, OnlyOneIsBoth DEF tda_arr_eq, Now
  <1> QED
    BY <1>2, <1>3, <1>4, <1>5, <1>6, <1>7 DEF ArrPairs

LEMMA ArrModsKeep ==
    ASSUME VecAssumption, VecInv, NEW d \in Names, Alive(d), ArrMods(d)
    PROVE  VecInv' /\ Now(d, vecs[d])
  <1>1. vecs[d].len \in Nat /\ \A i \in 0 .. vecs[d].len - 1 : i \in Nat
    BY AliveVec
  <1>2. CASE tda_arr_to_span(d) \/ tda_arr_fprint(d) \/ tda_arr_front(d) \/ tda_arr_back(d)
    BY <1>2, ToSpanKeeps, EndsOfVec DEF tda_arr_to_span, tda_arr_fprint, tda_arr_front, tda_arr_back
  <1>3. CASE \E i \in 0 .. vecs[d].len - 1 :
               \/ tda_arr_get(d, i)
               \/ \E v \in Vals(vecs[d]) : tda_arr_set(d, i, v) \/ (~v.alias /\ tda_arr_get_mut(d, i, v))
               \/ \E j \in 0 .. vecs[d].len - 1 : tda_arr_swap_elems(d, i, j)
    <2>1. PICK i \in 0 .. vecs[d].len - 1 :
               \/ tda_arr_get(d, i)
               \/ \E v \in Vals(vecs[d]) : tda_arr_set(d, i, v) \/ (~v.alias /\ tda_arr_get_mut(d, i, v))
               \/ \E j \in 0 .. vecs[d].len - 1 : tda_arr_swap_elems(d, i, j)
      BY <1>3
    <2>2. i \in Nat
      BY <1>1
    <2>3. CASE tda_arr_get(d, i)
      BY <2>3, GetKeeps DEF tda_arr_get
    <2>4. CASE \E v \in Vals(vecs[d]) : tda_arr_set(d, i, v) \/ (~v.alias /\ tda_arr_get_mut(d, i, v))
      BY <2>2, <2>4, SetKeeps, GetMutKeeps DEF tda_arr_set, tda_arr_get_mut
    <2>5. CASE \E j \in 0 .. vecs[d].len - 1 : tda_arr_swap_elems(d, i, j)
      BY <1>1, <2>2, <2>5, SwapElemsKeeps DEF tda_arr_swap_elems
    <2> QED
      BY <2>1, <2>3, <2>4, <2>5
  <1> QED
    BY <1>2, <1>3 DEF ArrMods

LEMMA StackLifetimeKeeps ==
    ASSUME VecAssumption, VecInv, NEW d \in Names, StackLifetime(d)
    PROVE  VecInv' /\ Only(d)
  BY MakeKeeps, DeinitKeeps DEF StackLifetime, tda_stack_make, tda_stack_deinit, tda_vec_deinit

LEMMA StackPairsKeep ==
    ASSUME VecAssumption, VecInv, NEW d \in Names, NEW e \in Names, StackPairs(d, e)
    PROVE  VecInv' /\ OnlyBoth(d, e)
  <1>1. Pairs(d, e)
    BY DEF StackPairs, Pairs, tda_stack_copy_with, tda_stack_copy_assign, tda_stack_move_assign,
           tda_stack_swap, tda_stack_eq
  <1> QED
    BY <1>1, PairsKeep

LEMMA StackModsKeep ==
    ASSUME VecAssumption, VecInv, NEW d \in Names, Alive(d), StackMods(d)
    PROVE  VecInv' /\ Only(d)
  <1>1. Mods(d)
    BY DEF StackMods, Mods, tda_stack_push, tda_stack_top_mut, tda_stack_extend, tda_stack_pop,
           tda_stack_pop_to, tda_stack_clear, tda_stack_shrink_to_fit, tda_stack_reserve, tda_stack_top,
           tda_stack_to_span, tda_stack_fprint
  <1> QED
    BY <1>1, ModsKeep

\* The stack gives its vec to a handle that had none.
LEMMA IntoVecKeeps ==
    ASSUME VecAssumption, VecInv, NEW d \in Names, NEW e \in Names, tda_stack_into_vec(d, e)
    PROVE  VecInv' /\ OnlyBoth(d, e)
  <1>1. /\ vecs' = [vecs EXCEPT ![d] = Zeroed, ![e] = vecs[d]] /\ heap' = heap /\ raws' = raws /\ ~Alive(e)
    BY DEF tda_stack_into_vec
  <1>2. vecs[e] = Zeroed
    BY <1>1, DeadVec
  <1>3. vecs' = [vecs EXCEPT ![d] = vecs[e], ![e] = vecs[d]]
    BY <1>1, <1>2
  <1> QED
    BY <1>1, <1>3, SwapKeeps DEF OnlyBoth

LEMMA ArraysInitInv == ASSUME VecAssumption, ArraysInit PROVE ArraysInv
  <1>1. vecs = [d \in Names |-> Zeroed] /\ raws = {} /\ heap = {}
    BY DEF ArraysInit, Init
  <1>2. IsVec(Zeroed) /\ Zeroed.data = Null /\ Zeroed.len = Zeroed.cap
    BY EmptyIsVec DEF Zeroed
  <1> HIDE DEF Zeroed
  <1>3. \A d \in Names : vecs[d] = Zeroed
    BY <1>1
  <1>4. Owners = {}
    BY <1>2, <1>3 DEF Owners
  <1>5. HeldApart
    BY <1>1, <1>4, FS_EmptySet DEF HeldApart
  <1> QED
    BY <1>1, <1>2, <1>3, <1>5 DEF ArraysInv, VecInv, ArrFull

LEMMA CallsKeep ==
    ASSUME VecAssumption, ArraysInv, kinds' = kinds, NEW d \in Names, NEW e \in Names, Calls(d, e)
    PROVE  ArraysInv'
  <1>1. CASE kinds[d] = "vec" /\ kinds[e] = "vec" /\ Pairs(d, e)
    BY <1>1, PairsKeep DEF ArraysInv, ArrFull, OnlyBoth
  <1>2. CASE kinds[d] = "arr" /\ kinds[e] = "arr" /\ ArrPairs(d, e)
    <2>1. vecs[d].len = vecs[d].cap /\ vecs[e].len = vecs[e].cap /\ VecInv
      BY <1>2 DEF ArraysInv, ArrFull
    <2>2. VecInv' /\ OnlyBoth(d, e) /\ vecs'[d].len = vecs'[d].cap /\ vecs'[e].len = vecs'[e].cap
      BY <1>2, <2>1, ArrPairsKeep
    <2> QED
      BY <2>2 DEF ArraysInv, ArrFull, OnlyBoth
  <1>3. CASE kinds[d] = "stack" /\ kinds[e] = "stack" /\ StackPairs(d, e)
    BY <1>3, StackPairsKeep DEF ArraysInv, ArrFull, OnlyBoth
  <1>4. CASE kinds[d] = "stack" /\ kinds[e] = "vec" /\ tda_stack_into_vec(d, e)
    BY <1>4, IntoVecKeeps DEF ArraysInv, ArrFull, OnlyBoth
  <1> QED
    BY <1>1, <1>2, <1>3, <1>4 DEF Calls

LEMMA OwnCallsKeep ==
    ASSUME VecAssumption, ArraysInv, kinds' = kinds, NEW d \in Names, OwnCalls(d)
    PROVE  ArraysInv'
  <1>1. CASE kinds[d] = "vec" /\ (Lifetime(d) \/ (Alive(d) /\ Mods(d)))
    BY <1>1, LifetimeKeeps, ModsKeep DEF ArraysInv, ArrFull, Only
  <1>2. CASE kinds[d] = "arr" /\ (ArrLifetime(d) \/ (Alive(d) /\ ArrMods(d)))
    <2>1. vecs[d].len = vecs[d].cap /\ VecInv
      BY <1>2 DEF ArraysInv, ArrFull
    <2>2. VecInv' /\ Only(d) /\ vecs'[d].len = vecs'[d].cap
      BY <1>2, <2>1, ArrLifetimeKeeps, ArrModsKeep DEF Now
    <2> QED
      BY <2>2 DEF ArraysInv, ArrFull, Only
  <1>3. CASE kinds[d] = "stack" /\ (StackLifetime(d) \/ (Alive(d) /\ StackMods(d)))
    BY <1>3, StackLifetimeKeeps, StackModsKeep DEF ArraysInv, ArrFull, Only
  <1> QED
    BY <1>1, <1>2, <1>3 DEF OwnCalls

\* The invariant of the vecs, arrs and stacks: every block that is out has one holder and no
\* two holders have a block of the same number, every handle is a sound vec, and every arr
\* has a block of exactly its elems, so that the length it frees and resizes by is the size
\* its block was asked with.
THEOREM ArraysInvariant == ArraysSpec => []ArraysInv
  <1>1. ArraysInit => ArraysInv
    BY VecAssumption, ArraysInitInv
  <1>2. ArraysInv /\ [ArraysNext]_<<vars, kinds>> => ArraysInv'
    <2>1. SUFFICES ASSUME ArraysInv, [ArraysNext]_<<vars, kinds>> PROVE ArraysInv'
      OBVIOUS
    <2>2. CASE UNCHANGED <<vars, kinds>>
      BY <2>1, <2>2, StutterKeeps DEF vars, ArraysInv, ArrFull
    <2>3. CASE ArraysNext
      <3>1. kinds' = kinds
        BY <2>3 DEF ArraysNext
      <3>2. CASE \E d, e \in Names : Calls(d, e)
        BY <2>1, <3>1, <3>2, VecAssumption, CallsKeep
      <3>3. CASE \E d \in Names : OwnCalls(d)
        BY <2>1, <3>1, <3>3, VecAssumption, OwnCallsKeep
      <3> QED
        BY <2>3, <3>2, <3>3 DEF ArraysNext
    <2> QED
      BY <2>1, <2>2, <2>3
  <1> QED
    BY <1>1, <1>2, PTL DEF ArraysSpec

LEMMA InvOwnsBlocks == ASSUME VecAssumption, VecInv PROVE BlocksOwned
  <1>1. \A q \in Range(vecs) : IsVec(q)
    BY DEF VecInv, Range
  <1>2. TypeOK
    BY <1>1 DEF TypeOK, VecInv
  <1>3. HeldOnce
    BY HeapFinite DEF HeldOnce, VecInv, HeldApart, Owners
  <1> QED
    BY <1>2, <1>3 DEF BlocksOwned

\* In every run of calls on any number of vecs, arrs and stacks, refused ones included, the
\* fields of each stay sound and each block that is out is held once, with the size and the
\* allocator it was asked with: src/ds/vec.c, arr.c and stack.c leak no block, share none,
\* and give none back twice or with another layout.
THEOREM ArraysOwnBlocks == ArraysSpec => []BlocksOwned
  <1>1. ArraysInv => BlocksOwned
    BY VecAssumption, InvOwnsBlocks DEF ArraysInv
  <1> QED
    BY <1>1, ArraysInvariant, PTL

-----------------------------------------------------------------------------
(* Room once reserved serves: only the calls that add one elem have to be   *)
(* looked at, the others are told from them by their names.                 *)

Adds == {"push_back", "insert"}

\* what RoomServes says of a step
Served ==
    call'.op \in Adds /\ vecs[call'.d].len < vecs[call'.d].cap => call'.ok /\ heap' = heap

LEMMA EndsCall ==
    ASSUME NEW c, NEW d, NEW q, NEW h, NEW ok, Ends(c, d, q, h, ok), "op" \in DOMAIN c
    PROVE  call'.op = c.op /\ call'.d = d /\ call'.ok = ok /\ heap' = h
  <1>1. call' = Made(c, d, ok) /\ heap' = h
    BY DEF Ends
  <1>2. call' = [f \in DOMAIN c \cup {"d", "ok"} |-> IF f = "d" THEN d ELSE IF f = "ok" THEN ok ELSE c[f]]
    BY <1>1 DEF Made
  <1>3. "op" # "d" /\ "op" # "ok" /\ "d" # "ok"
    OBVIOUS
  <1> QED
    BY <1>1, <1>2, <1>3

LEMMA OtherCalls ==
    ASSUME NEW c, NEW d, NEW q, NEW h, NEW ok, Ends(c, d, q, h, ok), "op" \in DOMAIN c, c.op \notin Adds
    PROVE  Served
  BY EndsCall DEF Served

LEMMA LifetimeServes == ASSUME NEW d, Lifetime(d) PROVE Served
  <1>1. CASE \E al \in Als, src \in Spans, cap \in Sizes : tda_vec_make(d, al, src, cap)
    <2>1. PICK src, q, h, ok : Ends([op |-> "make", src |-> src], d, q, h, ok)
      BY <1>1 DEF tda_vec_make
    <2> QED
      BY <2>1, OtherCalls DEF Adds
  <1>2. CASE \E q \in raws : tda_vec_init_raw(d, q)
    BY <1>2 DEF tda_vec_init_raw, Served, Adds
  <1>3. CASE tda_vec_into_raw(d)
    BY <1>3 DEF tda_vec_into_raw, Served, Adds
  <1>4. CASE tda_vec_deinit(d)
    <2>1. PICK q, h, ok : Ends([op |-> "deinit"], d, q, h, ok)
      BY <1>4 DEF tda_vec_deinit
    <2> QED
      BY <2>1, OtherCalls DEF Adds
  <1> QED
    BY <1>1, <1>2, <1>3, <1>4 DEF Lifetime

LEMMA PairsServe == ASSUME NEW d, NEW e, Pairs(d, e) PROVE Served
  <1>1. CASE \E al \in Als : tda_vec_copy_with(d, al, e)
    <2>1. PICK q, h, ok : Ends([op |-> "copy", from |-> e], d, q, h, ok)
      BY <1>1 DEF tda_vec_copy_with
    <2> QED
      BY <2>1, OtherCalls DEF Adds
  <1>2. CASE tda_vec_copy_assign(d, e)
    <2>1. PICK q, h, ok : Ends([op |-> "copy", from |-> e], d, q, h, ok)
      BY <1>2 DEF tda_vec_copy_assign
    <2> QED
      BY <2>1, OtherCalls DEF Adds
  <1>3. CASE tda_vec_move_assign(d, e)
    BY <1>3 DEF tda_vec_move_assign, Served, Adds
  <1>4. CASE tda_vec_swap(d, e)
    BY <1>4 DEF tda_vec_swap, Served, Adds
  <1>5. CASE tda_vec_eq(d, e)
    <2>1. PICK out, q, h, ok : Ends([op |-> "eq", from |-> e, out |-> out], d, q, h, ok)
      BY <1>5 DEF tda_vec_eq, EndsOk
    <2> QED
      BY <2>1, OtherCalls DEF Adds
  <1> QED
    BY <1>1, <1>2, <1>3, <1>4, <1>5 DEF Pairs

LEMMA PushServes ==
    ASSUME VecAssumption, VecInv, NEW d \in Names, Alive(d), NEW v, tda_vec_push(d, v)
    PROVE  Served
  <1> DEFINE q == vecs[d]
             full(p) == WithLen(Put(p, v), Put(p, v).len + 1)
  <1>1. PICK s \in PushOutcomes(q, heap, v) : Ends([op |-> "push_back", val |-> v], d, s.q, s.heap, s.ok)
    BY DEF tda_vec_push
  <1>2. PICK r \in ReserveOne(q, heap) : s = IF r.ok THEN [r EXCEPT !.q = full(r.q)] ELSE r
    BY <1>1 DEF PushOutcomes, Put, WithLen
  <1> HIDE DEF full
  <1>3. /\ Refused(q, r) \/ Grown(q, r, q.len + 1)
        /\ q.len < q.cap => r.ok /\ r.heap = heap
    BY <1>2, ReserveOneOutcomes
  <1>4. call'.d = d /\ call'.ok = s.ok
    BY <1>1, EndsCall
  <1>5. ASSUME q.len < q.cap PROVE s.ok /\ s.heap = heap
    <2>1. r.ok /\ IsOutcome(r) /\ r.heap = heap
      BY <1>3, <1>5 DEF Refused, Grown
    <2>2. s = [r EXCEPT !.q = full(r.q)]
      BY <1>2, <2>1
    <2> QED
      BY <2>1, <2>2, OutcomeWith
  <1>6. heap' = s.heap
    BY <1>1 DEF Ends
  <1> QED
    BY <1>4, <1>5, <1>6 DEF Served

LEMMA InsertServes ==
    ASSUME VecAssumption, VecInv, NEW d \in Names, Alive(d), NEW idx \in Nat, NEW v, tda_vec_insert(d, idx, v)
    PROVE  Served
  <1> DEFINE q == vecs[d]
  <1>1. idx <= q.len
    BY DEF tda_vec_insert
  <1>2. PICK one \in Nat : one = 1
    OBVIOUS
  <1>3. PICK r, p : /\ r \in OpenGap(q, heap, idx, one)
                    /\ Ends([op |-> "insert", idx |-> idx, val |-> v], d, p, r.heap, r.ok)
    BY <1>2 DEF tda_vec_insert
  <1>4. q.len + one <= q.cap => r.ok /\ r.heap = heap
    BY <1>1, <1>3, OpenGapOutcomes
  <1>5. q.len < q.cap => q.len + one <= q.cap
    BY <1>2, AliveVec
  <1>6. call'.d = d /\ call'.ok = r.ok /\ heap' = r.heap
    BY <1>3, EndsCall
  <1> QED
    BY <1>4, <1>5, <1>6 DEF Served

LEMMA PushAssumeCapServes ==
    ASSUME NEW d, NEW v, tda_vec_push_assume_cap(d, v)
    PROVE  Served
  <1>1. PICK c, p : EndsOk(c, d, p)
    BY DEF tda_vec_push_assume_cap
  <1>2. call'.ok /\ heap' = heap
    BY <1>1 DEF EndsOk, Ends, Made
  <1> QED
    BY <1>1, <1>2 DEF Served

\* A call that needs no memory and adds no elem, by its name.
LEMMA OtherOks ==
    ASSUME NEW c, NEW d, NEW q, EndsOk(c, d, q), "op" \in DOMAIN c, c.op \notin Adds
    PROVE  Served
  BY OtherCalls DEF EndsOk

LEMMA ReadsServe ==
    ASSUME NEW d
    PROVE  /\ \A i : tda_vec_get(d, i) => Served
           /\ \A i, v : tda_vec_set(d, i, v) \/ tda_vec_get_mut(d, i, v) => Served
           /\ \A i, j : tda_vec_swap_elems(d, i, j) => Served
           /\ tda_vec_to_span(d) => Served
  <1>1. ASSUME NEW i, tda_vec_get(d, i) PROVE Served
    <2>1. PICK out : EndsOk([op |-> "get", idx |-> i, out |-> out], d, vecs[d])
      BY <1>1 DEF tda_vec_get
    <2> QED
      BY <2>1, OtherOks DEF Adds
  <1>2. ASSUME NEW i, NEW v, tda_vec_set(d, i, v) \/ tda_vec_get_mut(d, i, v) PROVE Served
    <2>1. PICK q : EndsOk([op |-> "set", idx |-> i, val |-> v], d, q)
      BY <1>2 DEF tda_vec_set, tda_vec_get_mut
    <2> QED
      BY <2>1, OtherOks DEF Adds
  <1>3. ASSUME NEW i, NEW j, tda_vec_swap_elems(d, i, j) PROVE Served
    <2>1. PICK q : EndsOk([op |-> "swap_elems", idx |-> i, idx2 |-> j], d, q)
      BY <1>3 DEF tda_vec_swap_elems
    <2> QED
      BY <2>1, OtherOks DEF Adds
  <1>4. ASSUME tda_vec_to_span(d) PROVE Served
    <2>1. PICK out : EndsOk([op |-> "copy_to_span", out |-> out], d, vecs[d])
      BY <1>4 DEF tda_vec_to_span
    <2> QED
      BY <2>1, OtherOks DEF Adds
  <1> QED
    BY <1>1, <1>2, <1>3, <1>4

LEMMA SpansServe ==
    ASSUME NEW d, NEW idx, NEW src, tda_vec_insert_span(d, idx, src)
    PROVE  Served
  <1>1. PICK q, h, ok : Ends([op |-> "insert_span", idx |-> idx, src |-> src], d, q, h, ok)
    BY DEF tda_vec_insert_span
  <1> QED
    BY <1>1, OtherCalls DEF Adds

LEMMA RemovalsServe ==
    ASSUME NEW d
    PROVE  /\ tda_vec_pop_to(d) \/ tda_vec_pop(d) \/ tda_vec_clear(d) => Served
           /\ \A i, j : tda_vec_remove_range(d, i, j) => Served
           /\ \A i : tda_vec_swap_remove(d, i) \/ tda_vec_truncate(d, i) => Served
           /\ \A keep : tda_vec_retain(d, keep) => Served
  <1>1. ASSUME tda_vec_pop_to(d) PROVE Served
    <2>1. PICK out, q : EndsOk([op |-> "pop_back", out |-> out], d, q)
      BY <1>1 DEF tda_vec_pop_to
    <2> QED
      BY <2>1, OtherOks DEF Adds
  <1>2. ASSUME tda_vec_pop(d) PROVE Served
    <2>1. PICK n, q : EndsOk([op |-> "truncate", n |-> n], d, q)
      BY <1>2 DEF tda_vec_pop
    <2> QED
      BY <2>1, OtherOks DEF Adds
  <1>3. ASSUME tda_vec_clear(d) PROVE Served
    <2>1. PICK q : EndsOk([op |-> "clear"], d, q)
      BY <1>3 DEF tda_vec_clear
    <2> QED
      BY <2>1, OtherOks DEF Adds
  <1>4. ASSUME NEW i, NEW j, tda_vec_remove_range(d, i, j) PROVE Served
    <2>1. PICK q : EndsOk([op |-> "remove_range", idx |-> i, n |-> j], d, q)
      BY <1>4 DEF tda_vec_remove_range
    <2> QED
      BY <2>1, OtherOks DEF Adds
  <1>5. ASSUME NEW i, tda_vec_swap_remove(d, i) PROVE Served
    <2>1. PICK q : EndsOk([op |-> "swap_remove", idx |-> i], d, q)
      BY <1>5 DEF tda_vec_swap_remove
    <2> QED
      BY <2>1, OtherOks DEF Adds
  <1>6. ASSUME NEW i, tda_vec_truncate(d, i) PROVE Served
    <2>1. PICK q : EndsOk([op |-> "truncate", n |-> i], d, q)
      BY <1>6 DEF tda_vec_truncate
    <2> QED
      BY <2>1, OtherOks DEF Adds
  <1>7. ASSUME NEW keep, tda_vec_retain(d, keep) PROVE Served
    <2>1. PICK q : EndsOk([op |-> "retain", keep |-> keep], d, q)
      BY <1>7 DEF tda_vec_retain
    <2> QED
      BY <2>1, OtherOks DEF Adds
  <1> QED
    BY <1>1, <1>2, <1>3, <1>4, <1>5, <1>6, <1>7

LEMMA ResizesServe ==
    ASSUME NEW d
    PROVE  /\ tda_vec_shrink_to_fit(d) => Served
           /\ \A n : tda_vec_reserve(d, n) \/ tda_vec_resize(d, n) => Served
  <1>1. ASSUME tda_vec_shrink_to_fit(d) PROVE Served
    <2>1. PICK q, h, ok : Ends([op |-> "shrink_to_fit"], d, q, h, ok)
      BY <1>1 DEF tda_vec_shrink_to_fit
    <2> QED
      BY <2>1, OtherCalls DEF Adds
  <1>2. ASSUME NEW n, tda_vec_reserve(d, n) PROVE Served
    <2>1. PICK q, h, ok : Ends([op |-> "reserve"], d, q, h, ok)
      BY <1>2 DEF tda_vec_reserve
    <2> QED
      BY <2>1, OtherCalls DEF Adds
  <1>3. ASSUME NEW n, tda_vec_resize(d, n) PROVE Served
    <2>1. PICK q, h, ok : Ends([op |-> "resize", n |-> n], d, q, h, ok)
      BY <1>3 DEF tda_vec_resize
    <2> QED
      BY <2>1, OtherCalls DEF Adds
  <1> QED
    BY <1>1, <1>2, <1>3

LEMMA ModsServe ==
    ASSUME VecAssumption, VecInv, NEW d \in Names, Alive(d), Mods(d)
    PROVE  Served
  <1>1. vecs[d].len \in Nat /\ \A i \in 0 .. vecs[d].len : i \in Nat
    BY AliveVec
  <1>2. CASE \E v \in Vals(vecs[d]) :
               \/ tda_vec_push(d, v) \/ tda_vec_push_assume_cap(d, v)
               \/ ~v.alias /\ (tda_vec_front_mut(d, v) \/ tda_vec_back_mut(d, v))
               \/ \E idx \in 0 .. vecs[d].len : tda_vec_insert(d, idx, v) \/ tda_vec_set(d, idx, v)
    BY <1>1, <1>2, PushServes, PushAssumeCapServes, InsertServes, ReadsServe
       DEF tda_vec_front_mut, tda_vec_back_mut
  <1>3. CASE \E src \in Spans :
               \/ tda_vec_extend(d, src)
               \/ \E idx \in 0 .. vecs[d].len : tda_vec_insert_span(d, idx, src)
    BY <1>3, SpansServe DEF tda_vec_extend
  <1>4. CASE tda_vec_pop_to(d) \/ tda_vec_pop(d) \/ tda_vec_shrink_to_fit(d) \/ tda_vec_clear(d)
    BY <1>4, RemovalsServe, ResizesServe
  <1>5. CASE tda_vec_to_span(d) \/ tda_vec_fprint(d) \/ tda_vec_front(d) \/ tda_vec_back(d)
    BY <1>5, ReadsServe DEF tda_vec_fprint, tda_vec_front, tda_vec_back
  <1>6. CASE \E i \in 0 .. vecs[d].len :
               \/ tda_vec_swap_remove(d, i) \/ tda_vec_remove(d, i) \/ tda_vec_get(d, i)
               \/ \E v \in Vals(vecs[d]) : ~v.alias /\ tda_vec_get_mut(d, i, v)
               \/ \E j \in 0 .. vecs[d].len : tda_vec_remove_range(d, i, j) \/ tda_vec_swap_elems(d, i, j)
    BY <1>6, ReadsServe, RemovalsServe DEF tda_vec_remove
  <1>7. CASE \E n \in Sizes : tda_vec_truncate(d, n) \/ tda_vec_reserve(d, n) \/ tda_vec_resize(d, n)
    BY <1>7, RemovalsServe, ResizesServe
  <1>8. CASE \E keep \in SUBSET Elem : tda_vec_retain(d, keep)
    BY <1>8, RemovalsServe
  <1> QED
    BY <1>2, <1>3, <1>4, <1>5, <1>6, <1>7, <1>8 DEF Mods

LEMMA ArrLifetimeServes == ASSUME NEW d, ArrLifetime(d) PROVE Served
  <1>1. CASE \E al \in Als, src \in Spans : tda_arr_make(d, al, src)
    <2>1. PICK src, q, h, ok : Ends([op |-> "make", src |-> src], d, q, h, ok)
      BY <1>1 DEF tda_arr_make
    <2> QED
      BY <2>1, OtherCalls DEF Adds
  <1>2. CASE \E q \in raws : tda_arr_init_raw(d, q)
    BY <1>2 DEF tda_arr_init_raw, tda_vec_init_raw, Served, Adds
  <1>3. CASE tda_arr_into_raw(d)
    BY <1>3 DEF tda_arr_into_raw, tda_vec_into_raw, Served, Adds
  <1>4. CASE tda_arr_deinit(d)
    <2>1. PICK q, h, ok : Ends([op |-> "deinit"], d, q, h, ok)
      BY <1>4 DEF tda_arr_deinit
    <2> QED
      BY <2>1, OtherCalls DEF Adds
  <1> QED
    BY <1>1, <1>2, <1>3, <1>4 DEF ArrLifetime

LEMMA ArrPairsServe == ASSUME NEW d, NEW e, ArrPairs(d, e) PROVE Served
  <1>1. CASE \E al \in Als : tda_arr_copy_with(d, al, e)
    <2>1. PICK q, h, ok : Ends([op |-> "copy", from |-> e], d, q, h, ok)
      BY <1>1 DEF tda_arr_copy_with
    <2> QED
      BY <2>1, OtherCalls DEF Adds
  <1>2. CASE tda_arr_copy_assign(d, e)
    <2>1. PICK q, h, ok : Ends([op |-> "copy", from |-> e], d, q, h, ok)
      BY <1>2 DEF tda_arr_copy_assign
    <2> QED
      BY <2>1, OtherCalls DEF Adds
  <1>3. CASE tda_arr_move_assign(d, e)
    BY <1>3 DEF tda_arr_move_assign, Served, Adds
  <1>4. CASE tda_arr_swap(d, e) \/ (Alive(d) /\ Alive(e) /\ tda_arr_eq(d, e))
    <2>1. Pairs(d, e)
      BY <1>4 DEF Pairs, tda_arr_swap, tda_arr_eq
    <2> QED
      BY <2>1, PairsServe
  <1> QED
    BY <1>1, <1>2, <1>3, <1>4 DEF ArrPairs

LEMMA ArrModsServe == ASSUME NEW d, ArrMods(d) PROVE Served
  BY ReadsServe DEF ArrMods, tda_arr_to_span, tda_arr_fprint, tda_arr_front, tda_arr_back, tda_vec_front,
     tda_vec_back, tda_arr_get, tda_arr_set, tda_arr_get_mut, tda_arr_swap_elems

LEMMA ArraysServe ==
    ASSUME VecAssumption, ArraysInv, ArraysNext
    PROVE  Served
  <1>1. CASE \E d, e \in Names : Calls(d, e)
    <2>1. PICK d \in Names, e \in Names : Calls(d, e)
      BY <1>1
    <2>2. CASE StackPairs(d, e)
      <3>1. Pairs(d, e)
        BY <2>2 DEF StackPairs, Pairs, tda_stack_copy_with, tda_stack_copy_assign, tda_stack_move_assign,
                    tda_stack_swap, tda_stack_eq
      <3> QED
        BY <3>1, PairsServe
    <2>3. CASE tda_stack_into_vec(d, e)
      BY <2>3 DEF tda_stack_into_vec, Served, Adds
    <2> QED
      BY <2>1, <2>2, <2>3, PairsServe, ArrPairsServe DEF Calls
  <1>2. CASE \E d \in Names : OwnCalls(d)
    <2>1. PICK d \in Names : OwnCalls(d)
      BY <1>2
    <2>2. CASE StackLifetime(d)
      <3>1. Lifetime(d)
        BY <2>2 DEF StackLifetime, Lifetime, tda_stack_make, tda_stack_deinit
      <3> QED
        BY <3>1, LifetimeServes
    <2>3. CASE Alive(d) /\ StackMods(d)
      <3>1. Mods(d)
        BY <2>3 DEF StackMods, Mods, tda_stack_push, tda_stack_top_mut, tda_stack_extend, tda_stack_pop,
           tda_stack_pop_to, tda_stack_clear, tda_stack_shrink_to_fit, tda_stack_reserve, tda_stack_top,
           tda_stack_to_span, tda_stack_fprint
      <3> QED
        BY <2>3, <3>1, ModsServe DEF ArraysInv
    <2>4. CASE Alive(d) /\ Mods(d)
      BY <2>4, ModsServe DEF ArraysInv
    <2> QED
      BY <2>1, <2>2, <2>3, <2>4, LifetimeServes, ArrLifetimeServes, ArrModsServe DEF OwnCalls
  <1> QED
    BY <1>1, <1>2 DEF ArraysNext

\* With a free slot in the vec or the stack, no push and no insert is refused or changes the
\* heap, whatever happened before: what tda_vec_reserve has provided is there to be used, and
\* the pointers into the block stay good.
THEOREM ArraysRoomServes == ArraysSpec => RoomServes
  <1>1. ArraysInv /\ [ArraysNext]_<<vars, kinds>> =>
           [call'.op \in {"push_back", "insert"} /\ vecs[call'.d].len < vecs[call'.d].cap
              => call'.ok /\ heap' = heap]_vars
    <2>1. SUFFICES ASSUME ArraysInv, [ArraysNext]_<<vars, kinds>>, ~UNCHANGED vars PROVE Served
      BY DEF Served, Adds
    <2>2. ArraysNext
      BY <2>1 DEF vars
    <2> QED
      BY <2>1, <2>2, VecAssumption, ArraysServe
  <1> QED
    BY <1>1, ArraysInvariant, PTL DEF ArraysSpec, RoomServes

-----------------------------------------------------------------------------
(* Loops as functions of their turns.                                       *)

\* g is the course of a loop of k turns f from x on
Course(g, S, x, f, k) ==
    g \in [0 .. k -> S] /\ \A n \in 0 .. k : g[n] = IF n = 0 THEN x ELSE f[n][g[n - 1]]

\* A loop whose turns stay among S has a course.
LEMMA CourseExists ==
    ASSUME NEW S, NEW x \in S, NEW f \in [Nat -> [S -> S]], NEW k \in Nat
    PROVE  \E g : Course(g, S, x, f, k)
  <1> DEFINE T == {m \in Nat : ~ \E g : Course(g, S, x, f, m)}
  <1>1. SUFFICES ASSUME T # {} PROVE FALSE
    OBVIOUS
  <1>2. PICK m \in T : \A j \in T : m <= j
    BY <1>1, LeastNat
  <1>3. m # 0
    <2> DEFINE g == [n \in 0 .. 0 |-> x]
    <2>1. Course(g, S, x, f, 0)
      BY DEF Course
    <2> QED
      BY <2>1
  <1>4. PICK g : Course(g, S, x, f, m - 1)
    <2>1. m - 1 \in Nat /\ ~(m <= m - 1)
      BY <1>3
    <2> QED
      BY <1>2, <2>1
  <1>5. g[m - 1] \in S /\ f[m] \in [S -> S]
    BY <1>3, <1>4 DEF Course
  <1>6. PICK y \in S : y = f[m][g[m - 1]]
    BY <1>5
  <1> DEFINE h == [n \in 0 .. m |-> IF n < m THEN g[n] ELSE y]
  <1>7. h \in [0 .. m -> S]
    BY <1>3, <1>4 DEF Course
  <1>8. (\A n \in 0 .. m - 1 : h[n] = g[n]) /\ h[m] = y
    BY <1>3
  <1> HIDE DEF h
  <1>9. ASSUME NEW n \in 0 .. m PROVE h[n] = IF n = 0 THEN x ELSE f[n][h[n - 1]]
    <2>1. CASE n = m
      <3>1. m - 1 \in 0 .. m - 1
        BY <1>3
      <3> QED
        BY <1>3, <1>6, <1>8, <2>1, <3>1
    <2>2. CASE n # m
      <3>1. n \in 0 .. m - 1 /\ (n # 0 => n - 1 \in 0 .. m - 1)
        BY <2>2
      <3> QED
        BY <1>4, <1>8, <3>1 DEF Course
    <2> QED
      BY <2>1, <2>2
  <1>10. Course(h, S, x, f, m)
    BY <1>7, <1>9 DEF Course
  <1> QED
    BY <1>2, <1>10

\* the places of the course after n turns, I[n], are kept to
Kept(w, I, k) == w[0] \in I[0] /\ \A n \in 0 .. k - 1 : w[n] \in I[n] => w[n + 1] \in I[n + 1]

\* What holds at the start and is kept by each turn holds after each.
LEMMA CourseKeeps ==
    ASSUME NEW k \in Nat, NEW w, NEW I, Kept(w, I, k)
    PROVE  \A n \in 0 .. k : w[n] \in I[n]
  <1> DEFINE T == {n \in Nat : n <= k /\ w[n] \notin I[n]}
  <1>1. SUFFICES ASSUME T # {} PROVE FALSE
    OBVIOUS
  <1>2. PICK n \in T : \A j \in T : n <= j
    BY <1>1, LeastNat
  <1>3. PICK j \in Nat : n = j + 1 /\ j \in 0 .. k - 1
    <2>1. n # 0
      BY DEF Kept
    <2>2. n - 1 \in Nat /\ n = (n - 1) + 1 /\ n - 1 \in 0 .. k - 1
      BY <2>1
    <2> QED
      BY <2>2
  <1>4. w[j] \in I[j]
    BY <1>2, <1>3
  <1> QED
    BY <1>3, <1>4 DEF Kept

-----------------------------------------------------------------------------
(* The heap as keys: k[i] is the key of the elem at i, counted from 0.      *)

Child(i, j) == j = 2 * i + 1 \/ j = 2 * i + 2

\* the elems from lo on, of the first len, are not before their children
Heaped(k, lo, len) ==
    \A i \in 0 .. len - 1, j \in 0 .. len - 1 : i >= lo /\ Child(i, j) => k[i] >= k[j]

\* all but the one at 'at', whose children are not after its parent
HeapedButBelow(k, lo, len, at) ==
    /\ \A i \in 0 .. len - 1, j \in 0 .. len - 1 : i >= lo /\ i # at /\ Child(i, j) => k[i] >= k[j]
    /\ \A i \in 0 .. len - 1, j \in 0 .. len - 1 :
          i >= lo /\ Child(i, at) /\ Child(at, j) => k[i] >= k[j]

\* all but the one at 'at' and its parent, and its children are not after that
HeapedButAbove(k, len, at) ==
    /\ \A i \in 0 .. len - 1, j \in 0 .. len - 1 : j # at /\ Child(i, j) => k[i] >= k[j]
    /\ \A i \in 0 .. len - 1, j \in 0 .. len - 1 : Child(i, at) /\ Child(at, j) => k[i] >= k[j]

\* k with two keys exchanged
Exchanged(k, len, a, b, new) ==
    /\ new[a] = k[b] /\ new[b] = k[a]
    /\ \A i \in 0 .. len - 1 : i \notin {a, b} => new[i] = k[i]

\* One turn down: the greater child goes up, and the order is broken at its old place only.
LEMMA DownMends ==
    ASSUME NEW len \in Nat, NEW lo \in Nat, NEW k \in [0 .. len - 1 -> Nat],
           NEW new \in [0 .. len - 1 -> Nat], NEW at \in 0 .. len - 1, at >= lo,
           NEW best \in 0 .. len - 1, Child(at, best), k[best] > k[at],
           \A j \in 0 .. len - 1 : Child(at, j) => k[best] >= k[j],
           HeapedButBelow(k, lo, len, at), Exchanged(k, len, at, best, new)
    PROVE  HeapedButBelow(new, lo, len, best)
  <1> USE DEF Exchanged
  <1>1. best > at
    BY DEF Child
  <1>2. ASSUME NEW i \in 0 .. len - 1, NEW j \in 0 .. len - 1, i >= lo, i # best, Child(i, j)
        PROVE  new[i] >= new[j]
    <2>1. CASE i = at
      <3>1. CASE j = best
        BY <2>1, <3>1
      <3>2. CASE j # best
        <4>1. j # at
          BY <1>2, <2>1 DEF Child
        <4> QED
          BY <1>2, <2>1, <3>2, <4>1
      <3> QED
        BY <3>1, <3>2
    <2>2. CASE i # at
      <3>1. new[i] = k[i] /\ k[i] >= k[j]
        BY <1>2, <2>2 DEF HeapedButBelow
      <3>2. CASE j = at
        <4>1. k[i] >= k[best]
          BY <1>2, <3>2 DEF HeapedButBelow
        <4> QED
          BY <3>1, <3>2, <4>1
      <3>3. CASE j # at
        <4>1. j # best
          BY <1>2, <2>2 DEF Child
        <4> QED
          BY <3>1, <3>3, <4>1
      <3> QED
        BY <3>2, <3>3
    <2> QED
      BY <2>1, <2>2
  <1>3. ASSUME NEW i \in 0 .. len - 1, NEW j \in 0 .. len - 1, i >= lo, Child(i, best), Child(best, j)
        PROVE  new[i] >= new[j]
    <2>1. i = at /\ j # at /\ j # best
      BY <1>1, <1>3 DEF Child
    <2>2. k[best] >= k[j]
      BY <1>1, <1>3 DEF HeapedButBelow
    <2> QED
      BY <2>1, <2>2
  <1> QED
    BY <1>2, <1>3 DEF HeapedButBelow

\* Where the way down ends, the order is whole.
LEMMA DownEnds ==
    ASSUME NEW len \in Nat, NEW lo \in Nat, NEW k \in [0 .. len - 1 -> Nat], NEW at \in Nat,
           HeapedButBelow(k, lo, len, at),
           \A j \in 0 .. len - 1 : at \in 0 .. len - 1 /\ Child(at, j) => k[at] >= k[j]
    PROVE  Heaped(k, lo, len)
  BY DEF Heaped, HeapedButBelow

\* One turn up.
LEMMA UpMends ==
    ASSUME NEW len \in Nat, NEW k \in [0 .. len - 1 -> Nat], NEW new \in [0 .. len - 1 -> Nat],
           NEW at \in 0 .. len - 1, NEW p \in 0 .. len - 1, Child(p, at), k[at] > k[p],
           HeapedButAbove(k, len, at), Exchanged(k, len, p, at, new)
    PROVE  HeapedButAbove(new, len, p)
  <1> USE DEF Exchanged
  <1>1. p < at
    BY DEF Child
  <1>2. ASSUME NEW i \in 0 .. len - 1, NEW j \in 0 .. len - 1, j # p, Child(i, j)
        PROVE  new[i] >= new[j]
    <2>1. CASE i = p
      <3>1. CASE j = at
        BY <1>1, <2>1, <3>1
      <3>2. CASE j # at
        <4>1. k[p] >= k[j]
          BY <1>2, <2>1, <3>2 DEF HeapedButAbove
        <4> QED
          BY <1>2, <2>1, <3>2, <4>1
      <3> QED
        BY <3>1, <3>2
    <2>2. CASE i = at
      <3>1. j # at /\ k[p] >= k[j]
        BY <1>2, <2>2 DEF HeapedButAbove, Child
      <3> QED
        BY <1>2, <2>2, <3>1
    <2>3. CASE i # p /\ i # at
      <3>1. j # at
        BY <1>2, <2>3 DEF Child
      <3>2. k[i] >= k[j]
        BY <1>2, <3>1 DEF HeapedButAbove
      <3> QED
        BY <1>2, <2>3, <3>1, <3>2
    <2> QED
      BY <2>1, <2>2, <2>3
  <1>3. ASSUME NEW i \in 0 .. len - 1, NEW j \in 0 .. len - 1, Child(i, p), Child(p, j)
        PROVE  new[i] >= new[j]
    <2>1. i # p /\ i # at /\ j # p
      BY <1>1, <1>3 DEF Child
    <2>2. new[i] = k[i] /\ k[i] >= k[p]
      BY <1>1, <1>3, <2>1 DEF HeapedButAbove
    <2>3. CASE j = at
      BY <2>2, <2>3
    <2>4. CASE j # at
      <3>1. k[p] >= k[j] /\ new[j] = k[j]
        BY <1>3, <2>1, <2>4 DEF HeapedButAbove
      <3> QED
        BY <2>2, <3>1
    <2> QED
      BY <2>3, <2>4
  <1> QED
    BY <1>2, <1>3 DEF HeapedButAbove

\* A new elem at the end of a heap, and where the way up ends.
LEMMA UpStarts ==
    ASSUME NEW len \in Nat, NEW k \in [0 .. len -> Nat], Heaped(k, 0, len)
    PROVE  HeapedButAbove(k, len + 1, len)
  BY DEF Heaped, HeapedButAbove, Child

LEMMA UpEnds ==
    ASSUME NEW len \in Nat, NEW k \in [0 .. len - 1 -> Nat], NEW at \in 0 .. len - 1,
           HeapedButAbove(k, len, at), \A p \in 0 .. len - 1 : Child(p, at) => k[p] >= k[at]
    PROVE  Heaped(k, 0, len)
  BY DEF Heaped, HeapedButAbove

-----------------------------------------------------------------------------
(* The sifts.                                                               *)

KeysOf(s, len, cmp) == [i \in 0 .. len - 1 |-> cmp[s[i + 1]]]

\* a span of m elems, and the places of a sift over it
Span(m) == [1 .. m -> Elem]
Places(m) == [s : Span(m), at : Nat]

LEMMA KeysAre ==
    ASSUME PQueueAssumption, NEW cmp \in Orders, NEW m \in Nat, NEW len \in 0 .. m, NEW s \in Span(m)
    PROVE  /\ KeysOf(s, len, cmp) \in [0 .. len - 1 -> Nat]
           /\ \A i \in 0 .. len - 1 : KeysOf(s, len, cmp)[i] = cmp[s[i + 1]]
  <1>1. \A i \in 0 .. len - 1 : s[i + 1] \in Elem
    BY DEF Span
  <1>2. cmp \in [Elem -> Nat]
    BY DEF PQueueAssumption
  <1> QED
    BY <1>1, <1>2 DEF KeysOf

\* r has the elems of s, those past the first len where they were: the elem at i comes from
\* p[i], and the one at j goes to q[j]
Shuffles(s, r, m, len, p, q) ==
    /\ p \in [1 .. m -> 1 .. m] /\ q \in [1 .. m -> 1 .. m]
    /\ \A i \in 1 .. m : q[p[i]] = i /\ p[q[i]] = i /\ r[i] = s[p[i]]
    /\ \A i \in len + 1 .. m : p[i] = i

Rearranged(s, r, m, len) == \E p, q : Shuffles(s, r, m, len, p, q)

LEMMA RearrangedItself ==
    ASSUME NEW s, NEW m \in Nat, NEW len \in Nat
    PROVE  Rearranged(s, s, m, len)
  <1> DEFINE id == [i \in 1 .. m |-> i]
  <1>1. id \in [1 .. m -> 1 .. m] /\ \A i \in 1 .. m : id[i] = i
    OBVIOUS
  <1> HIDE DEF id
  <1>2. \A i \in len + 1 .. m : i \in 1 .. m
    OBVIOUS
  <1>3. Shuffles(s, s, m, len, id, id)
    BY <1>1, <1>2 DEF Shuffles
  <1> QED
    BY <1>3 DEF Rearranged

LEMMA RearrangedTrans ==
    ASSUME NEW s, NEW r, NEW u, NEW m \in Nat, NEW len \in Nat, Rearranged(s, r, m, len), Rearranged(r, u, m, len)
    PROVE  Rearranged(s, u, m, len)
  <1>1. PICK p, q : Shuffles(s, r, m, len, p, q)
    BY DEF Rearranged
  <1>2. PICK v, w : Shuffles(r, u, m, len, v, w)
    BY DEF Rearranged
  <1> DEFINE to == [i \in 1 .. m |-> p[v[i]]]
             back == [i \in 1 .. m |-> w[q[i]]]
  <1>3. \A i \in 1 .. m : p[i] \in 1 .. m /\ q[i] \in 1 .. m /\ v[i] \in 1 .. m /\ w[i] \in 1 .. m
    BY <1>1, <1>2 DEF Shuffles
  <1>4. /\ to \in [1 .. m -> 1 .. m] /\ back \in [1 .. m -> 1 .. m]
        /\ \A i \in 1 .. m : to[i] = p[v[i]] /\ back[i] = w[q[i]]
    BY <1>3
  <1> HIDE DEF to, back
  <1>5. \A i \in 1 .. m : back[to[i]] = i /\ to[back[i]] = i /\ u[i] = s[to[i]]
    <2>1. /\ \A i \in 1 .. m : q[p[i]] = i /\ p[q[i]] = i /\ r[i] = s[p[i]]
          /\ \A i \in 1 .. m : w[v[i]] = i /\ v[w[i]] = i /\ u[i] = r[v[i]]
      BY <1>1, <1>2 DEF Shuffles
    <2> TAKE i \in 1 .. m
    <2>2. PICK a \in 1 .. m, b \in 1 .. m : a = v[i] /\ b = q[i]
      BY <1>3
    <2>3. q[p[a]] = a /\ r[a] = s[p[a]] /\ p[a] \in 1 .. m /\ w[a] = i /\ u[i] = r[a] /\ to[i] = p[a]
      BY <1>3, <1>4, <2>1, <2>2
    <2>4. v[w[b]] = b /\ p[b] = i /\ w[b] \in 1 .. m /\ back[i] = w[b]
      BY <1>3, <1>4, <2>1, <2>2
    <2>5. back[p[a]] = w[q[p[a]]] /\ to[w[b]] = p[v[w[b]]]
      BY <1>4, <2>3, <2>4
    <2> QED
      BY <2>3, <2>4, <2>5
  <1>6. \A i \in len + 1 .. m : i \in 1 .. m
    OBVIOUS
  <1>7. \A i \in len + 1 .. m : to[i] = i
    BY <1>1, <1>2, <1>4, <1>6 DEF Shuffles
  <1>8. Shuffles(s, u, m, len, to, back)
    BY <1>4, <1>5, <1>7 DEF Shuffles
  <1> QED
    BY <1>8 DEF Rearranged

\* r is the span s with the elems at a and b exchanged
ElemsExchanged(s, r, m, len, a, b, cmp) ==
    /\ r \in Span(m) /\ Exchanged(KeysOf(s, len, cmp), len, a, b, KeysOf(r, len, cmp))
    /\ Rearranged(s, r, m, len)
    /\ r[a + 1] = s[b + 1] /\ r[b + 1] = s[a + 1]

LEMMA SwappedIs ==
    ASSUME NEW cmp, NEW m \in Nat, NEW len \in 0 .. m, NEW s \in Span(m),
           NEW a \in 0 .. len - 1, NEW b \in 0 .. len - 1
    PROVE  ElemsExchanged(s, H!Swapped(s, a, b), m, len, a, b, cmp)
  <1> DEFINE r == H!Swapped(s, a, b)
  <1>1. /\ r \in Span(m) /\ r[a + 1] = s[b + 1] /\ r[b + 1] = s[a + 1]
        /\ \A i \in 1 .. m : i # a + 1 /\ i # b + 1 => r[i] = s[i]
    BY DEF H!Swapped, Span
  <1> HIDE DEF r
  <1>2. Rearranged(s, r, m, len)
    <2> DEFINE p == [i \in 1 .. m |-> IF i = a + 1 THEN b + 1 ELSE IF i = b + 1 THEN a + 1 ELSE i]
    <2>1. p \in [1 .. m -> 1 .. m] /\ \A i \in len + 1 .. m : p[i] = i
      OBVIOUS
    <2>2. \A i \in 1 .. m : p[p[i]] = i /\ r[i] = s[p[i]]
      BY <1>1
    <2> HIDE DEF p
    <2>3. Shuffles(s, r, m, len, p, p)
      BY <2>1, <2>2 DEF Shuffles
    <2> QED
      BY <2>3 DEF Rearranged
  <1>3. Exchanged(KeysOf(s, len, cmp), len, a, b, KeysOf(r, len, cmp))
    <2>1. \A i \in 0 .. len - 1 : i \notin {a, b} => r[i + 1] = s[i + 1]
      BY <1>1
    <2> QED
      BY <1>1, <2>1 DEF Exchanged, KeysOf
  <1> QED
    BY <1>1, <1>2, <1>3 DEF r, ElemsExchanged

\* r is the span s with the first len elems a heap from lo on, the others untouched
Sifted(s, r, m, lo, len, cmp) ==
    /\ r \in Span(m) /\ Heaped(KeysOf(r, len, cmp), lo, len)
    /\ Rearranged(s, r, m, len)

\* after n turns down
DownOk(t, n, s, m, lo, len, cmp) ==
    /\ t.at >= lo /\ HeapedButBelow(KeysOf(t.s, len, cmp), lo, len, t.at)
    /\ t.at >= n \/ Heaped(KeysOf(t.s, len, cmp), lo, len)
    /\ Rearranged(s, t.s, m, len)

\* the child a turn down looks at
Best(k, len, at) == IF 2 * at + 2 < len /\ k[2 * at + 1] < k[2 * at + 2] THEN 2 * at + 2 ELSE 2 * at + 1

GreaterChild(k, len, at, b) ==
    /\ at \in 0 .. len - 1 /\ b \in 0 .. len - 1 /\ Child(at, b)
    /\ \A j \in 0 .. len - 1 : Child(at, j) => k[b] >= k[j]

LEMMA BestIs ==
    ASSUME NEW len \in Nat, NEW k \in [0 .. len - 1 -> Nat], NEW at \in Nat, 2 * at + 1 < len
    PROVE  GreaterChild(k, len, at, Best(k, len, at))
  <1>1. PICK l, r : l = 2 * at + 1 /\ r = 2 * at + 2
    OBVIOUS
  <1>2. /\ at \in 0 .. len - 1 /\ l \in 0 .. len - 1 /\ r \in Nat /\ (r < len => r \in 0 .. len - 1)
        /\ Child(at, l) /\ Child(at, r)
    BY <1>1 DEF Child
  <1>3. \A j \in 0 .. len - 1 : Child(at, j) => j = l \/ (j = r /\ r < len)
    BY <1>1 DEF Child
  <1>4. CASE r < len /\ k[l] < k[r]
    <2>1. Best(k, len, at) = r
      BY <1>1, <1>4 DEF Best
    <2>2. k[l] \in Nat /\ k[r] \in Nat /\ k[r] >= k[l] /\ k[r] >= k[r]
      BY <1>2, <1>4
    <2> QED
      BY <1>2, <1>3, <1>4, <2>1, <2>2 DEF GreaterChild
  <1>5. CASE ~(r < len /\ k[l] < k[r])
    <2>1. Best(k, len, at) = l
      BY <1>1, <1>5 DEF Best
    <2>2. k[l] \in Nat /\ k[l] >= k[l] /\ (r < len => k[l] >= k[r])
      BY <1>2, <1>5
    <2> QED
      BY <1>2, <1>3, <2>1, <2>2 DEF GreaterChild
  <1> QED
    BY <1>4, <1>5

LEMMA DownStepIs ==
    ASSUME PQueueAssumption, NEW cmp \in Orders, NEW m \in Nat, NEW len \in 0 .. m, NEW t \in Places(m),
           NEW k, k = KeysOf(t.s, len, cmp), NEW best, best = Best(k, len, t.at)
    PROVE  H!DownStep(t, len, cmp) =
               IF 2 * t.at + 1 >= len \/ k[t.at] >= k[best] THEN t
               ELSE [s |-> H!Swapped(t.s, t.at, best), at |-> best]
  <1>1. t.s \in Span(m) /\ t.at \in Nat /\ len \in Nat
    BY DEF Places
  <1>2. k \in [0 .. len - 1 -> Nat] /\ \A i \in 0 .. len - 1 : k[i] = cmp[t.s[i + 1]]
    <2>1. PICK s \in Span(m) : s = t.s
      BY <1>1
    <2>2. /\ KeysOf(s, len, cmp) \in [0 .. len - 1 -> Nat]
          /\ \A i \in 0 .. len - 1 : KeysOf(s, len, cmp)[i] = cmp[s[i + 1]]
      BY KeysAre
    <2> QED
      BY <2>1, <2>2
  <1>3. CASE 2 * t.at + 1 >= len
    BY <1>3 DEF H!DownStep, H!LeftOf
  <1>4. CASE 2 * t.at + 1 < len
    <2>1. H!LeftOf(t.at) = 2 * t.at + 1
      BY DEF H!LeftOf
    <2>2. 2 * t.at + 1 \in 0 .. len - 1 /\ t.at \in 0 .. len - 1
          /\ (2 * t.at + 2 < len => 2 * t.at + 2 \in 0 .. len - 1)
      BY <1>1, <1>4
    <2>3. \A i \in 0 .. len - 1, j \in 0 .. len - 1 : H!Above(t.s, i, j, cmp) <=> k[i] >= k[j]
      BY <1>2 DEF H!Above
    <2>4. best = IF H!LeftOf(t.at) + 1 < len /\ ~H!Above(t.s, H!LeftOf(t.at), H!LeftOf(t.at) + 1, cmp)
                 THEN H!LeftOf(t.at) + 1 ELSE H!LeftOf(t.at)
      <3>1. PICK l, r : l = 2 * t.at + 1 /\ r = 2 * t.at + 2
        OBVIOUS
      <3>2. H!LeftOf(t.at) = l /\ H!LeftOf(t.at) + 1 = r
        BY <1>1, <2>1, <3>1
      <3>3. l \in 0 .. len - 1 /\ (r < len => r \in 0 .. len - 1)
        BY <2>2, <3>1
      <3>4. ASSUME r < len PROVE ~H!Above(t.s, l, r, cmp) <=> k[l] < k[r]
        <4>1. k[l] \in Nat /\ k[r] \in Nat /\ (H!Above(t.s, l, r, cmp) <=> k[l] >= k[r])
          BY <1>2, <2>3, <3>3, <3>4
        <4> QED
          BY <4>1
      <3>5. best = IF r < len /\ k[l] < k[r] THEN r ELSE l
        BY <3>1 DEF Best
      <3> QED
        BY <3>2, <3>4, <3>5
    <2>5. best \in 0 .. len - 1
      <3>1. GreaterChild(k, len, t.at, best)
        BY <1>1, <1>2, <1>4, BestIs
      <3> QED
        BY <3>1 DEF GreaterChild
    <2>6. H!Above(t.s, t.at, best, cmp) <=> k[t.at] >= k[best]
      BY <2>2, <2>3, <2>5
    <2>7. ~(H!LeftOf(t.at) >= len)
      BY <1>1, <1>4, <2>1
    <2>8. H!DownStep(t, len, cmp) =
              IF H!Above(t.s, t.at, best, cmp) THEN t
              ELSE [s |-> H!Swapped(t.s, t.at, best), at |-> best]
      BY <2>4, <2>7 DEF H!DownStep
    <2>9. ~(2 * t.at + 1 >= len)
      BY <1>1, <1>4
    <2> QED
      BY <2>6, <2>8, <2>9
  <1> QED
    BY <1>1, <1>3, <1>4

LEMMA DownStepKeeps ==
    ASSUME PQueueAssumption, NEW cmp \in Orders, NEW m \in Nat, NEW len \in 0 .. m, NEW s, NEW lo \in Nat,
           NEW n \in Nat, NEW t \in Places(m), DownOk(t, n, s, m, lo, len, cmp)
    PROVE  /\ H!DownStep(t, len, cmp) \in Places(m)
           /\ DownOk(H!DownStep(t, len, cmp), n + 1, s, m, lo, len, cmp)
  <1>1. PICK k, at : k = KeysOf(t.s, len, cmp) /\ at = t.at
    OBVIOUS
  <1>2. t.s \in Span(m) /\ at \in Nat /\ k \in [0 .. len - 1 -> Nat] /\ len \in Nat
    <2>1. PICK ts \in Span(m) : ts = t.s
      BY DEF Places
    <2>2. KeysOf(ts, len, cmp) \in [0 .. len - 1 -> Nat]
      BY KeysAre
    <2> QED
      BY <1>1, <2>1, <2>2 DEF Places
  <1>3. PICK best : best = Best(k, len, at)
    OBVIOUS
  <1>4. H!DownStep(t, len, cmp) =
            IF 2 * at + 1 >= len \/ k[at] >= k[best] THEN t
            ELSE [s |-> H!Swapped(t.s, at, best), at |-> best]
    BY <1>1, <1>3, DownStepIs
  <1>5. at >= lo /\ HeapedButBelow(k, lo, len, at) /\ Rearranged(s, t.s, m, len)
    BY <1>1 DEF DownOk
  <1>6. CASE 2 * at + 1 >= len \/ k[at] >= k[best]
    <2>1. ASSUME NEW j \in 0 .. len - 1, at \in 0 .. len - 1, Child(at, j)
          PROVE  k[at] >= k[j]
      <3>1. 2 * at + 1 < len
        BY <1>2, <2>1 DEF Child
      <3>2. GreaterChild(k, len, at, best)
        BY <1>2, <1>3, <3>1, BestIs
      <3>3. k[at] >= k[best] /\ best \in 0 .. len - 1 /\ k[best] >= k[j]
        BY <1>2, <1>6, <2>1, <3>1, <3>2 DEF GreaterChild
      <3> QED
        BY <1>2, <2>1, <3>3
    <2>2. Heaped(k, lo, len)
      BY <1>2, <1>5, <2>1, DownEnds
    <2>3. H!DownStep(t, len, cmp) = t
      BY <1>4, <1>6
    <2> QED
      BY <1>1, <1>5, <2>2, <2>3 DEF DownOk
  <1>7. CASE ~(2 * at + 1 >= len \/ k[at] >= k[best])
    <2>1. /\ at \in 0 .. len - 1 /\ best \in 0 .. len - 1 /\ Child(at, best)
          /\ \A j \in 0 .. len - 1 : Child(at, j) => k[best] >= k[j]
      <3>1. 2 * at + 1 < len
        BY <1>2, <1>7
      <3>2. GreaterChild(k, len, at, best)
        BY <1>2, <1>3, <3>1, BestIs
      <3> QED
        BY <3>2 DEF GreaterChild
    <2>2. PICK r : r = H!Swapped(t.s, at, best)
      OBVIOUS
    <2>3. PICK new : new = KeysOf(r, len, cmp)
      OBVIOUS
    <2>4. /\ r \in Span(m) /\ Exchanged(k, len, at, best, new)
          /\ Rearranged(t.s, r, m, len)
      <3>1. ElemsExchanged(t.s, r, m, len, at, best, cmp)
        BY <1>2, <2>1, <2>2, SwappedIs
      <3> QED
        BY <1>1, <2>3, <3>1 DEF ElemsExchanged
    <2>5. new \in [0 .. len - 1 -> Nat]
      BY <2>3, <2>4, KeysAre
    <2>6. k[best] > k[at]
      BY <1>2, <1>7, <2>1
    <2>7. HeapedButBelow(new, lo, len, best) /\ best > at
      <3>1. len \in Nat
        OBVIOUS
      <3>2. HeapedButBelow(new, lo, len, best)
        BY <1>2, <1>5, <2>1, <2>4, <2>5, <2>6, <3>1, DownMends
      <3> QED
        BY <2>1, <3>2 DEF Child
    <2>8. at >= n
      <3>1. ~Heaped(k, lo, len)
        BY <1>2, <1>5, <2>1, <2>6 DEF Heaped
      <3> QED
        BY <1>1, <3>1 DEF DownOk
    <2>9. PICK u : u = [s |-> r, at |-> best]
      OBVIOUS
    <2>10. u \in Places(m) /\ u.s = r /\ u.at = best /\ H!DownStep(t, len, cmp) = u
      BY <1>4, <1>7, <2>1, <2>2, <2>4, <2>9 DEF Places
    <2>11. best >= lo /\ best >= n + 1
      BY <1>2, <1>5, <2>1, <2>7, <2>8
    <2>12. Rearranged(s, r, m, len)
      BY <1>2, <1>5, <2>4, RearrangedTrans
    <2>13. DownOk(u, n + 1, s, m, lo, len, cmp)
      BY <2>3, <2>7, <2>10, <2>11, <2>12 DEF DownOk
    <2> QED
      BY <2>10, <2>13
  <1> QED
    BY <1>6, <1>7

LEMMA DownStepIn ==
    ASSUME PQueueAssumption, NEW cmp \in Orders, NEW m \in Nat, NEW len \in 0 .. m, NEW t \in Places(m)
    PROVE  H!DownStep(t, len, cmp) \in Places(m)
  <1>1. PICK k, best : k = KeysOf(t.s, len, cmp) /\ best = Best(k, len, t.at)
    OBVIOUS
  <1>2. PICK s \in Span(m), at \in Nat : s = t.s /\ at = t.at
    BY DEF Places
  <1>3. H!DownStep(t, len, cmp) =
            IF 2 * at + 1 >= len \/ k[at] >= k[best] THEN t
            ELSE [s |-> H!Swapped(s, at, best), at |-> best]
    BY <1>1, <1>2, DownStepIs
  <1>4. CASE 2 * at + 1 < len
    <2>1. k \in [0 .. len - 1 -> Nat] /\ len \in Nat
      <3>1. KeysOf(s, len, cmp) \in [0 .. len - 1 -> Nat]
        BY KeysAre
      <3> QED
        BY <1>1, <1>2, <3>1
    <2>2. GreaterChild(k, len, at, best)
      BY <1>1, <1>2, <1>4, <2>1, BestIs
    <2>3. at \in 0 .. len - 1 /\ best \in 0 .. len - 1
      BY <2>2 DEF GreaterChild
    <2>4. ElemsExchanged(s, H!Swapped(s, at, best), m, len, at, best, cmp)
      BY <2>3, SwappedIs
    <2>5. H!Swapped(s, at, best) \in Span(m)
      BY <2>4 DEF ElemsExchanged
    <2> QED
      BY <1>3, <2>3, <2>5 DEF Places
  <1>5. CASE ~(2 * at + 1 < len)
    <2>1. 2 * at + 1 >= len
      BY <1>5
    <2> QED
      BY <1>3, <2>1
  <1> QED
    BY <1>4, <1>5

DownCourse(w, s, idx, len, cmp) ==
    w = [n \in 0 .. len |-> IF n = 0 THEN [s |-> s, at |-> idx] ELSE H!DownStep(w[n - 1], len, cmp)]

LEMMA DownCourseExists ==
    ASSUME PQueueAssumption, NEW cmp \in Orders, NEW m \in Nat, NEW len \in 0 .. m, NEW s \in Span(m),
           NEW idx \in Nat
    PROVE  \E w : DownCourse(w, s, idx, len, cmp)
  <1> DEFINE S == Places(m)
             x == [s |-> s, at |-> idx]
             f == [n \in Nat |-> [t \in S |-> H!DownStep(t, len, cmp)]]
  <1>1. x \in S /\ len \in Nat
    BY DEF Places
  <1>2. f \in [Nat -> [S -> S]]
    BY DownStepIn
  <1>3. \A n \in Nat, t \in S : f[n][t] = H!DownStep(t, len, cmp)
    OBVIOUS
  <1> HIDE DEF S, x, f
  <1>4. PICK g : Course(g, S, x, f, len)
    BY <1>1, <1>2, CourseExists
  <1>5. ASSUME NEW n \in 0 .. len PROVE g[n] = IF n = 0 THEN x ELSE H!DownStep(g[n - 1], len, cmp)
    <2>1. CASE n = 0
      BY <1>4, <2>1 DEF Course
    <2>2. CASE n # 0
      <3>1. n \in Nat /\ n - 1 \in 0 .. len
        BY <1>1, <2>2
      <3>2. g[n] = f[n][g[n - 1]] /\ g[n - 1] \in S
        BY <1>4, <2>2, <3>1 DEF Course
      <3> QED
        BY <1>3, <2>2, <3>1, <3>2
    <2> QED
      BY <2>1, <2>2
  <1>6. g = [n \in 0 .. len |-> IF n = 0 THEN x ELSE H!DownStep(g[n - 1], len, cmp)]
    <2>1. g = [n \in 0 .. len |-> g[n]]
      BY <1>4 DEF Course
    <2> QED
      BY <1>5, <2>1
  <1>7. DownCourse(g, s, idx, len, cmp)
    BY <1>6 DEF DownCourse, x
  <1> QED
    BY <1>7

\* The way down mends the one place where the order is broken, from which it starts.
LEMMA SiftDownMends ==
    ASSUME PQueueAssumption, NEW cmp \in Orders, NEW m \in Nat, NEW len \in 0 .. m, NEW s \in Span(m),
           NEW lo \in Nat, HeapedButBelow(KeysOf(s, len, cmp), lo, len, lo)
    PROVE  Sifted(s, H!SiftDown(s, lo, len, cmp), m, lo, len, cmp)
  <1> DEFINE S == Places(m)
             x == [s |-> s, at |-> lo]
             w == CHOOSE w : DownCourse(w, s, lo, len, cmp)
             I == [n \in Nat |-> {t \in S : DownOk(t, n, s, m, lo, len, cmp)}]
  <1>1. x \in S /\ len \in Nat /\ x.s = s /\ x.at = lo
    BY DEF Places
  <1>4. H!SiftDown(s, lo, len, cmp) = w[len].s
    BY DEF H!SiftDown, DownCourse
  <1>5. \A n \in Nat : I[n] = {t \in S : DownOk(t, n, s, m, lo, len, cmp)}
    OBVIOUS
  <1> HIDE DEF S, x, I
  <1>6. DownCourse(w, s, lo, len, cmp)
    BY DownCourseExists
  <1> HIDE DEF w
  <1>7. \A n \in 0 .. len : w[n] = IF n = 0 THEN x ELSE H!DownStep(w[n - 1], len, cmp)
    BY <1>6 DEF DownCourse, x
  <1>8. w[0] \in I[0]
    <2>1. w[0] = x
      BY <1>1, <1>7
    <2>2. DownOk(x, 0, s, m, lo, len, cmp)
      BY <1>1, RearrangedItself DEF DownOk
    <2> QED
      BY <1>1, <1>5, <2>1, <2>2
  <1>9. ASSUME NEW n \in 0 .. len - 1, w[n] \in I[n] PROVE w[n + 1] \in I[n + 1]
    <2>1. n \in Nat /\ n + 1 \in Nat /\ n + 1 \in 0 .. len /\ n + 1 # 0 /\ (n + 1) - 1 = n
      BY <1>1
    <2>2. w[n] \in S /\ DownOk(w[n], n, s, m, lo, len, cmp)
      BY <1>5, <1>9, <2>1
    <2>3. PICK t \in Places(m) : t = w[n]
      BY <2>2 DEF S
    <2>4. /\ H!DownStep(t, len, cmp) \in Places(m)
          /\ DownOk(H!DownStep(t, len, cmp), n + 1, s, m, lo, len, cmp)
      BY <2>1, <2>2, <2>3, DownStepKeeps
    <2>5. w[n + 1] = H!DownStep(t, len, cmp)
      BY <1>7, <2>1, <2>3
    <2> QED
      BY <1>5, <2>1, <2>4, <2>5 DEF S
  <1>10. w[len] \in I[len]
    <2>1. Kept(w, I, len)
      BY <1>8, <1>9 DEF Kept
    <2> QED
      BY <1>1, <2>1, CourseKeeps
  <1>11. PICK t \in Places(m) : t = w[len] /\ DownOk(t, len, s, m, lo, len, cmp)
    BY <1>1, <1>5, <1>10 DEF S
  <1>12. PICK r \in Span(m) : r = t.s /\ t.at \in Nat
    BY DEF Places
  <1>13. PICK k \in [0 .. len - 1 -> Nat] : k = KeysOf(r, len, cmp)
    BY KeysAre
  <1>14. Heaped(k, lo, len)
    <2>1. CASE t.at >= len
      <3>1. HeapedButBelow(k, lo, len, t.at)
        BY <1>11, <1>12, <1>13 DEF DownOk
      <3>2. t.at \notin 0 .. len - 1
        BY <1>1, <1>12, <2>1
      <3> QED
        BY <1>1, <1>12, <3>1, <3>2, DownEnds
    <2>2. CASE ~(t.at >= len)
      BY <1>11, <1>12, <1>13, <2>2 DEF DownOk
    <2> QED
      BY <2>1, <2>2
  <1> QED
    BY <1>4, <1>11, <1>12, <1>13, <1>14 DEF Sifted, DownOk

-----------------------------------------------------------------------------
\* after n turns up, from the last of the len elems
UpOk(t, n, s, m, len, cmp) ==
    /\ t.at \in 0 .. len - 1 /\ HeapedButAbove(KeysOf(t.s, len, cmp), len, t.at)
    /\ t.at + n <= len - 1 \/ Heaped(KeysOf(t.s, len, cmp), 0, len)
    /\ Rearranged(s, t.s, m, len)

LEMMA ParentIs ==
    ASSUME NEW at \in Nat, at # 0
    PROVE  H!Parent(at) \in Nat /\ Child(H!Parent(at), at) /\ H!Parent(at) < at
  <1>1. PICK p \in Nat : p = (at - 1) \div 2
    OBVIOUS
  <1>2. 2 * p <= at - 1 /\ at - 1 < 2 * p + 2
    BY <1>1
  <1>3. at = 2 * p + 1 \/ at = 2 * p + 2
    BY <1>2
  <1>4. p < at
    BY <1>2
  <1> QED
    BY <1>1, <1>3, <1>4 DEF H!Parent, Child

\* A child has one parent.
LEMMA OneParent ==
    ASSUME NEW o \in Nat, NEW p \in Nat, NEW at, Child(o, at), Child(p, at)
    PROVE  o = p
  <1>1. CASE at = 2 * o + 1
    BY <1>1 DEF Child
  <1>2. CASE at = 2 * o + 2
    BY <1>2 DEF Child
  <1> QED
    BY <1>1, <1>2 DEF Child

LEMMA UpStepKeeps ==
    ASSUME PQueueAssumption, NEW cmp \in Orders, NEW m \in Nat, NEW len \in 1 .. m, NEW s,
           NEW n \in Nat, NEW t \in Places(m), UpOk(t, n, s, m, len, cmp)
    PROVE  /\ H!UpStep(t, cmp) \in Places(m)
           /\ UpOk(H!UpStep(t, cmp), n + 1, s, m, len, cmp)
  <1>1. PICK ts \in Span(m), at \in 0 .. len - 1 : ts = t.s /\ at = t.at
    BY DEF Places, UpOk
  <1>2. PICK k \in [0 .. len - 1 -> Nat] : k = KeysOf(ts, len, cmp)
    <2>1. len \in 0 .. m
      OBVIOUS
    <2> QED
      BY <2>1, KeysAre
  <1>3. \A i \in 0 .. len - 1 : k[i] = cmp[ts[i + 1]]
    BY <1>2 DEF KeysOf
  <1>4. HeapedButAbove(k, len, at) /\ Rearranged(s, ts, m, len)
    BY <1>1, <1>2 DEF UpOk
  <1>5. at \in Nat /\ len \in Nat
    OBVIOUS
  <1>6. CASE at = 0 \/ H!Above(ts, H!Parent(at), at, cmp)
    <2>1. H!UpStep(t, cmp) = t
      BY <1>1, <1>6 DEF H!UpStep
    <2>2. ASSUME NEW p \in 0 .. len - 1, Child(p, at) PROVE k[p] >= k[at]
      <3>1. at # 0
        BY <2>2 DEF Child
      <3>2. PICK o \in Nat : o = H!Parent(at) /\ Child(o, at)
        BY <1>5, <3>1, ParentIs
      <3>3. o = p
        <4>1. p \in Nat
          BY <1>5
        <4> QED
          BY <2>2, <3>2, <4>1, OneParent
      <3> QED
        BY <1>3, <1>6, <3>1, <3>2, <3>3 DEF H!Above
    <2>3. Heaped(k, 0, len)
      BY <1>4, <1>5, <2>2, UpEnds
    <2> QED
      BY <1>1, <1>2, <1>4, <2>1, <2>3 DEF UpOk
  <1>7. CASE ~(at = 0 \/ H!Above(ts, H!Parent(at), at, cmp))
    <2>1. PICK p \in 0 .. len - 1 : p = H!Parent(at) /\ Child(p, at) /\ p < at
      BY <1>5, <1>7, ParentIs
    <2>2. k[at] > k[p]
      <3>1. ~(k[p] >= k[at]) /\ k[p] \in Nat /\ k[at] \in Nat
        BY <1>3, <1>7, <2>1 DEF H!Above
      <3> QED
        BY <3>1
    <2>3. PICK r : r = H!Swapped(ts, p, at)
      OBVIOUS
    <2>4. ElemsExchanged(ts, r, m, len, p, at, cmp)
      <3>1. len \in 0 .. m
        OBVIOUS
      <3> QED
        BY <2>3, <3>1, SwappedIs
    <2>5. PICK new : new = KeysOf(r, len, cmp)
      OBVIOUS
    <2>6. r \in Span(m) /\ Exchanged(k, len, p, at, new) /\ Rearranged(ts, r, m, len)
      BY <1>2, <2>4, <2>5 DEF ElemsExchanged
    <2>7. new \in [0 .. len - 1 -> Nat]
      <3>1. len \in 0 .. m
        OBVIOUS
      <3> QED
        BY <2>5, <2>6, <3>1, KeysAre
    <2>8. HeapedButAbove(new, len, p)
      BY <1>4, <1>5, <2>1, <2>2, <2>6, <2>7, UpMends
    <2>9. at + n <= len - 1
      <3>1. ~Heaped(k, 0, len)
        BY <2>1, <2>2 DEF Heaped
      <3> QED
        BY <1>1, <1>2, <3>1 DEF UpOk
    <2>10. PICK u : u = [s |-> r, at |-> p]
      OBVIOUS
    <2>11. u \in Places(m) /\ u.s = r /\ u.at = p /\ H!UpStep(t, cmp) = u
      BY <1>1, <1>7, <2>1, <2>3, <2>6, <2>10 DEF Places, H!UpStep
    <2>12. p + (n + 1) <= len - 1
      BY <2>1, <2>9
    <2>13. Rearranged(s, r, m, len)
      BY <1>4, <1>5, <2>6, RearrangedTrans
    <2>14. UpOk(u, n + 1, s, m, len, cmp)
      BY <2>5, <2>8, <2>11, <2>12, <2>13 DEF UpOk
    <2> QED
      BY <2>11, <2>14
  <1> QED
    BY <1>6, <1>7

LEMMA UpStepIn ==
    ASSUME NEW cmp, NEW m \in Nat, NEW len \in 1 .. m, NEW t \in [s : Span(m), at : 0 .. len - 1]
    PROVE  H!UpStep(t, cmp) \in [s : Span(m), at : 0 .. len - 1]
  <1>1. PICK s \in Span(m), at \in 0 .. len - 1 : s = t.s /\ at = t.at
    OBVIOUS
  <1>2. CASE at = 0
    BY <1>1, <1>2 DEF H!UpStep
  <1>3. CASE at # 0
    <2>1. at \in Nat
      OBVIOUS
    <2>2. PICK p \in Nat : p = H!Parent(at) /\ p < at
      BY <1>3, <2>1, ParentIs
    <2>3. p \in 0 .. len - 1 /\ len \in 0 .. m
      BY <2>2
    <2>4. ElemsExchanged(s, H!Swapped(s, p, at), m, len, p, at, cmp)
      BY <2>3, SwappedIs
    <2>5. H!Swapped(s, p, at) \in Span(m)
      BY <2>4 DEF ElemsExchanged
    <2> QED
      BY <1>1, <2>2, <2>3, <2>5 DEF H!UpStep
  <1> QED
    BY <1>2, <1>3

UpCourse(w, s, idx, cmp) ==
    w = [n \in 0 .. idx |-> IF n = 0 THEN [s |-> s, at |-> idx] ELSE H!UpStep(w[n - 1], cmp)]

LEMMA UpCourseExists ==
    ASSUME NEW cmp, NEW m \in Nat, NEW len \in 1 .. m, NEW s \in Span(m), NEW idx \in 0 .. len - 1
    PROVE  \E w : UpCourse(w, s, idx, cmp)
  <1> DEFINE S == [s : Span(m), at : 0 .. len - 1]
             x == [s |-> s, at |-> idx]
             f == [n \in Nat |-> [t \in S |-> H!UpStep(t, cmp)]]
  <1>1. x \in S /\ idx \in Nat
    OBVIOUS
  <1>2. f \in [Nat -> [S -> S]]
    BY UpStepIn
  <1>3. \A n \in Nat, t \in S : f[n][t] = H!UpStep(t, cmp)
    OBVIOUS
  <1> HIDE DEF S, x, f
  <1>4. PICK g : Course(g, S, x, f, idx)
    BY <1>1, <1>2, CourseExists
  <1>5. ASSUME NEW n \in 0 .. idx PROVE g[n] = IF n = 0 THEN x ELSE H!UpStep(g[n - 1], cmp)
    <2>1. CASE n = 0
      BY <1>4, <2>1 DEF Course
    <2>2. CASE n # 0
      <3>1. n \in Nat /\ n - 1 \in 0 .. idx
        BY <1>1, <2>2
      <3>2. g[n] = f[n][g[n - 1]] /\ g[n - 1] \in S
        BY <1>4, <2>2, <3>1 DEF Course
      <3> QED
        BY <1>3, <2>2, <3>1, <3>2
    <2> QED
      BY <2>1, <2>2
  <1>6. g = [n \in 0 .. idx |-> IF n = 0 THEN x ELSE H!UpStep(g[n - 1], cmp)]
    <2>1. g = [n \in 0 .. idx |-> g[n]]
      BY <1>4 DEF Course
    <2> QED
      BY <1>5, <2>1
  <1>7. UpCourse(g, s, idx, cmp)
    BY <1>6 DEF UpCourse, x
  <1> QED
    BY <1>7

\* The way up from the end of a heap takes the new elem in.
LEMMA SiftUpMends ==
    ASSUME PQueueAssumption, NEW cmp \in Orders, NEW m \in Nat, NEW len \in 1 .. m, NEW s \in Span(m),
           HeapedButAbove(KeysOf(s, len, cmp), len, len - 1)
    PROVE  Sifted(s, H!SiftUp(s, len - 1, cmp), m, 0, len, cmp)
  <1>1. PICK idx \in Nat : idx = len - 1 /\ len \in Nat /\ len \in 0 .. m
    OBVIOUS
  <1> DEFINE S == [s : Span(m), at : 0 .. len - 1]
             x == [s |-> s, at |-> idx]
             w == CHOOSE w : UpCourse(w, s, idx, cmp)
             I == [n \in Nat |-> {t \in S : UpOk(t, n, s, m, len, cmp)}]
  <1>2. x \in S /\ x.s = s /\ x.at = idx
    BY <1>1
  <1>5. H!SiftUp(s, len - 1, cmp) = w[idx].s
    BY <1>1 DEF H!SiftUp, UpCourse
  <1>6. \A n \in Nat : I[n] = {t \in S : UpOk(t, n, s, m, len, cmp)}
    OBVIOUS
  <1>7. S \subseteq Places(m)
    BY DEF Places
  <1> HIDE DEF S, x, I
  <1>8. UpCourse(w, s, idx, cmp)
    <2>1. idx \in 0 .. len - 1
      BY <1>1
    <2> QED
      BY <2>1, UpCourseExists
  <1> HIDE DEF w
  <1>9. \A n \in 0 .. idx : w[n] = IF n = 0 THEN x ELSE H!UpStep(w[n - 1], cmp)
    BY <1>8 DEF UpCourse, x
  <1>10. w[0] \in I[0]
    <2>1. w[0] = x
      BY <1>1, <1>9
    <2>2. UpOk(x, 0, s, m, len, cmp)
      BY <1>1, <1>2, RearrangedItself DEF UpOk
    <2> QED
      BY <1>2, <1>6, <2>1, <2>2
  <1>11. ASSUME NEW n \in 0 .. idx - 1, w[n] \in I[n] PROVE w[n + 1] \in I[n + 1]
    <2>1. n \in Nat /\ n + 1 \in Nat /\ n + 1 \in 0 .. idx /\ n + 1 # 0 /\ (n + 1) - 1 = n
      BY <1>1
    <2>2. w[n] \in S /\ UpOk(w[n], n, s, m, len, cmp)
      BY <1>6, <1>11, <2>1
    <2>3. PICK t \in S : t = w[n]
      BY <2>2
    <2>4. t \in Places(m)
      BY <1>7
    <2>5. UpOk(H!UpStep(t, cmp), n + 1, s, m, len, cmp)
      BY <2>1, <2>2, <2>3, <2>4, UpStepKeeps
    <2>6. H!UpStep(t, cmp) \in S
      BY <2>3, UpStepIn DEF S
    <2>7. w[n + 1] = H!UpStep(t, cmp)
      BY <1>9, <2>1, <2>3
    <2> QED
      BY <1>6, <2>1, <2>5, <2>6, <2>7
  <1>12. w[idx] \in I[idx]
    <2>1. Kept(w, I, idx)
      BY <1>10, <1>11 DEF Kept
    <2> QED
      BY <1>1, <2>1, CourseKeeps
  <1>13. PICK t \in Places(m) : t = w[idx] /\ UpOk(t, idx, s, m, len, cmp)
    BY <1>1, <1>6, <1>7, <1>12
  <1>14. PICK r \in Span(m) : r = t.s /\ t.at \in 0 .. len - 1
    BY <1>13 DEF Places, UpOk
  <1>15. PICK k \in [0 .. len - 1 -> Nat] : k = KeysOf(r, len, cmp)
    BY <1>1, KeysAre
  <1>16. Heaped(k, 0, len)
    <2>1. CASE t.at = 0
      <3>1. HeapedButAbove(k, len, t.at)
        BY <1>13, <1>14, <1>15 DEF UpOk
      <3>2. \A p \in 0 .. len - 1 : ~Child(p, t.at)
        BY <2>1 DEF Child
      <3> QED
        BY <1>1, <1>14, <3>1, <3>2, UpEnds
    <2>2. CASE t.at # 0
      <3>1. ~(t.at + idx <= len - 1)
        BY <1>1, <1>14, <2>2
      <3> QED
        BY <1>13, <1>14, <1>15, <3>1 DEF UpOk
    <2> QED
      BY <2>1, <2>2
  <1> QED
    BY <1>5, <1>13, <1>14, <1>15, <1>16 DEF Sifted, UpOk

-----------------------------------------------------------------------------
(* The calls made of the sifts.                                             *)

\* A sift leaves a span, whatever the order was.
LEMMA SiftDownIn ==
    ASSUME PQueueAssumption, NEW cmp \in Orders, NEW m \in Nat, NEW len \in 0 .. m, NEW s \in Span(m),
           NEW idx \in Nat
    PROVE  H!SiftDown(s, idx, len, cmp) \in Span(m)
  <1> DEFINE w == CHOOSE w : DownCourse(w, s, idx, len, cmp)
             I == [n \in Nat |-> Places(m)]
  <1>1. DownCourse(w, s, idx, len, cmp)
    BY DownCourseExists
  <1>2. H!SiftDown(s, idx, len, cmp) = w[len].s
    BY DEF H!SiftDown, DownCourse
  <1>3. len \in Nat /\ \A n \in Nat : I[n] = Places(m)
    OBVIOUS
  <1> HIDE DEF w, I
  <1>4. \A n \in 0 .. len : w[n] = IF n = 0 THEN [s |-> s, at |-> idx] ELSE H!DownStep(w[n - 1], len, cmp)
    BY <1>1 DEF DownCourse
  <1>5. w[0] \in I[0]
    <2>1. 0 \in 0 .. len
      BY <1>3
    <2>2. w[0] = [s |-> s, at |-> idx]
      BY <1>4, <2>1
    <2>3. [s |-> s, at |-> idx] \in Places(m)
      BY DEF Places
    <2> QED
      BY <1>3, <2>2, <2>3
  <1>6. ASSUME NEW n \in 0 .. len - 1, w[n] \in I[n] PROVE w[n + 1] \in I[n + 1]
    <2>1. n \in Nat /\ n + 1 \in Nat /\ n + 1 \in 0 .. len /\ n + 1 # 0 /\ (n + 1) - 1 = n
      BY <1>3
    <2>2. PICK t \in Places(m) : t = w[n]
      BY <1>3, <1>6, <2>1
    <2>3. w[n + 1] = H!DownStep(t, len, cmp)
      BY <1>4, <2>1, <2>2
    <2> QED
      BY <1>3, <2>1, <2>3, DownStepIn
  <1>7. Kept(w, I, len)
    BY <1>5, <1>6 DEF Kept
  <1>8. w[len] \in I[len]
    BY <1>3, <1>7, CourseKeeps
  <1> QED
    <2>1. PICK t \in Places(m) : t = w[len]
      BY <1>3, <1>8
    <2>2. t.s \in Span(m)
      BY DEF Places
    <2> QED
      BY <1>2, <2>1, <2>2

LEMMA SiftUpIn ==
    ASSUME NEW cmp, NEW m \in Nat, NEW s \in Span(m), NEW idx \in 0 .. m - 1
    PROVE  H!SiftUp(s, idx, cmp) \in Span(m)
  <1> DEFINE S == [s : Span(m), at : 0 .. m - 1]
             w == CHOOSE w : UpCourse(w, s, idx, cmp)
             I == [n \in Nat |-> S]
  <1>1. m \in 1 .. m /\ idx \in Nat
    OBVIOUS
  <1>2. UpCourse(w, s, idx, cmp)
    BY <1>1, UpCourseExists
  <1>3. H!SiftUp(s, idx, cmp) = w[idx].s
    BY DEF H!SiftUp, UpCourse
  <1>4. \A n \in Nat : I[n] = S
    OBVIOUS
  <1>5. [s |-> s, at |-> idx] \in S /\ \A t \in S : t.s \in Span(m)
    OBVIOUS
  <1>6. \A t \in S : H!UpStep(t, cmp) \in S
    BY <1>1, UpStepIn
  <1> HIDE DEF w, I, S
  <1>7. \A n \in 0 .. idx : w[n] = IF n = 0 THEN [s |-> s, at |-> idx] ELSE H!UpStep(w[n - 1], cmp)
    BY <1>2 DEF UpCourse
  <1>8. w[0] \in I[0]
    BY <1>1, <1>4, <1>5, <1>7
  <1>9. ASSUME NEW n \in 0 .. idx - 1, w[n] \in I[n] PROVE w[n + 1] \in I[n + 1]
    <2>1. n \in Nat /\ n + 1 \in Nat /\ n + 1 \in 0 .. idx /\ n + 1 # 0 /\ (n + 1) - 1 = n
      BY <1>1
    <2>2. PICK t \in S : t = w[n]
      BY <1>4, <1>9, <2>1
    <2>3. w[n + 1] = H!UpStep(t, cmp)
      BY <1>7, <2>1, <2>2
    <2> QED
      BY <1>4, <1>6, <2>1, <2>3
  <1>10. Kept(w, I, idx)
    BY <1>8, <1>9 DEF Kept
  <1>11. w[idx] \in I[idx]
    BY <1>1, <1>10, CourseKeeps
  <1> QED
    BY <1>1, <1>3, <1>4, <1>5, <1>11

\* A heap from lo + 1 on is in order from lo on but at lo.
LEMMA LoweredStarts ==
    ASSUME NEW len \in Nat, NEW lo \in Nat, NEW k, Heaped(k, lo + 1, len)
    PROVE  HeapedButBelow(k, lo, len, lo)
  BY DEF Heaped, HeapedButBelow, Child

MakeCourse(w, s, cmp) ==
    w = [n \in 0 .. Len(s) \div 2 |->
            IF n = 0 THEN s ELSE H!SiftDown(w[n - 1], Len(s) \div 2 - n, Len(s), cmp)]

LEMMA MakeHeapHeaps ==
    ASSUME PQueueAssumption, NEW cmp \in Orders, NEW m \in Nat, NEW s \in Span(m)
    PROVE  Sifted(s, H!MakeHeap(s, cmp), m, 0, m, cmp)
  <1>1. PICK half \in Nat : half = m \div 2
    OBVIOUS
  <1>2. m <= 2 * half + 1 /\ m \in 0 .. m
    BY <1>1
  <1>3. Len(s) = m
    BY SpanLen DEF Span
  <1> DEFINE S == Span(m)
             f == [n \in Nat |-> [t \in S |-> IF n <= half THEN H!SiftDown(t, half - n, m, cmp) ELSE t]]
             w == CHOOSE w : MakeCourse(w, s, cmp)
             Ok(t, n) == Sifted(s, t, m, half - n, m, cmp)
             I == [n \in Nat |-> {t \in S : Ok(t, n)}]
  <1>4. ASSUME NEW n \in Nat, NEW t \in S PROVE (IF n <= half THEN H!SiftDown(t, half - n, m, cmp) ELSE t) \in S
    <2>1. CASE n <= half
      <3>1. half - n \in Nat
        BY <2>1
      <3> QED
        BY <1>2, <2>1, <3>1, SiftDownIn
    <2> QED
      BY <2>1
  <1>5. f \in [Nat -> [S -> S]]
    BY <1>4
  <1>6. \A n \in Nat, t \in S : n <= half => f[n][t] = H!SiftDown(t, half - n, m, cmp)
    OBVIOUS
  <1>7. H!MakeHeap(s, cmp) = w[half]
    BY <1>1, <1>3 DEF H!MakeHeap, MakeCourse
  <1>8. \A n \in Nat : I[n] = {t \in S : Ok(t, n)}
    OBVIOUS
  <1> HIDE DEF f, I, S
  <1>9. \E g : MakeCourse(g, s, cmp)
    <2>1. PICK g : Course(g, S, s, f, half)
      BY <1>5, CourseExists DEF S
    <2>2. ASSUME NEW n \in 0 .. half PROVE g[n] = IF n = 0 THEN s ELSE H!SiftDown(g[n - 1], half - n, m, cmp)
      <3>1. CASE n = 0
        BY <2>1, <3>1 DEF Course
      <3>2. CASE n # 0
        <4>1. n \in Nat /\ n - 1 \in 0 .. half /\ n <= half
          BY <3>2
        <4>2. g[n] = f[n][g[n - 1]] /\ g[n - 1] \in S
          BY <2>1, <3>2, <4>1 DEF Course
        <4> QED
          BY <1>6, <3>2, <4>1, <4>2
      <3> QED
        BY <3>1, <3>2
    <2>3. g = [n \in 0 .. half |-> IF n = 0 THEN s ELSE H!SiftDown(g[n - 1], half - n, m, cmp)]
      <3>1. g = [n \in 0 .. half |-> g[n]]
        BY <2>1 DEF Course
      <3> QED
        BY <2>2, <3>1
    <2>4. MakeCourse(g, s, cmp)
      BY <1>1, <1>3, <2>3 DEF MakeCourse
    <2> QED
      BY <2>4
  <1>10. MakeCourse(w, s, cmp)
    BY <1>9
  <1> HIDE DEF w
  <1>11. \A n \in 0 .. half : w[n] = IF n = 0 THEN s ELSE H!SiftDown(w[n - 1], half - n, m, cmp)
    BY <1>1, <1>3, <1>10 DEF MakeCourse
  <1>12. w[0] \in I[0]
    <2>1. w[0] = s
      BY <1>11
    <2>2. Heaped(KeysOf(s, m, cmp), half, m)
      BY <1>2 DEF Heaped, Child
    <2>3. Ok(s, 0)
      BY <2>2, RearrangedItself DEF Sifted
    <2> QED
      BY <1>8, <2>1, <2>3 DEF S
  <1>13. ASSUME NEW n \in 0 .. half - 1, w[n] \in I[n] PROVE w[n + 1] \in I[n + 1]
    <2>1. n \in Nat /\ n + 1 \in Nat /\ n + 1 \in 0 .. half /\ n + 1 # 0 /\ (n + 1) - 1 = n
      OBVIOUS
    <2>2. PICK t \in Span(m) : t = w[n] /\ Ok(t, n)
      BY <1>8, <1>13, <2>1 DEF S
    <2>3. PICK lo \in Nat : lo = half - (n + 1) /\ lo + 1 = half - n
      OBVIOUS
    <2>4. PICK r : r = H!SiftDown(t, lo, m, cmp)
      OBVIOUS
    <2>5. Heaped(KeysOf(t, m, cmp), lo + 1, m) /\ Rearranged(s, t, m, m)
      BY <2>2, <2>3 DEF Sifted
    <2>6. Sifted(t, r, m, lo, m, cmp)
      BY <1>2, <2>4, <2>5, LoweredStarts, SiftDownMends
    <2>7. Rearranged(s, r, m, m)
      BY <2>5, <2>6, RearrangedTrans DEF Sifted
    <2>8. r \in Span(m) /\ Sifted(s, r, m, lo, m, cmp)
      BY <2>6, <2>7 DEF Sifted
    <2>9. w[n + 1] = r
      BY <1>11, <2>1, <2>2, <2>3, <2>4
    <2> QED
      BY <1>8, <2>1, <2>3, <2>8, <2>9 DEF S
  <1>14. Kept(w, I, half)
    BY <1>12, <1>13 DEF Kept
  <1>15. w[half] \in I[half]
    BY <1>14, CourseKeeps
  <1>16. Ok(w[half], half) /\ half - half = 0
    BY <1>8, <1>15
  <1> QED
    BY <1>7, <1>16

LEMMA HeapedPrefix ==
    ASSUME NEW len \in Nat, NEW lo \in Nat, NEW k, NEW new, \A i \in 0 .. len - 1 : new[i] = k[i],
           Heaped(k, lo, len)
    PROVE  Heaped(new, lo, len)
  BY DEF Heaped

\* What a rearrangement of fewer elems leaves where it is.
LEMMA RearrangedMore ==
    ASSUME NEW s, NEW r, NEW m \in Nat, NEW n \in Nat, NEW len \in Nat, n <= len, Rearranged(s, r, m, n)
    PROVE  Rearranged(s, r, m, len)
  <1>1. PICK p, q : Shuffles(s, r, m, n, p, q)
    BY DEF Rearranged
  <1>2. \A i \in len + 1 .. m : i \in n + 1 .. m
    OBVIOUS
  <1>3. Shuffles(s, r, m, len, p, q)
    BY <1>1, <1>2 DEF Shuffles
  <1> QED
    BY <1>3 DEF Rearranged

LEMMA RearrangedKeeps ==
    ASSUME NEW s, NEW r, NEW m \in Nat, NEW n \in Nat, NEW i \in n + 1 .. m, Rearranged(s, r, m, n)
    PROVE  r[i] = s[i]
  <1>1. PICK p, q : Shuffles(s, r, m, n, p, q)
    BY DEF Rearranged
  <1>2. i \in 1 .. m
    OBVIOUS
  <1> QED
    BY <1>1, <1>2 DEF Shuffles

LEMMA PushHeapHeaps ==
    ASSUME PQueueAssumption, NEW cmp \in Orders, NEW m \in Nat, NEW len \in 1 .. m, NEW s \in Span(m),
           Heaped(KeysOf(s, len - 1, cmp), 0, len - 1)
    PROVE  Sifted(s, H!PushHeap(s, len, cmp), m, 0, len, cmp)
  <1>1. PICK n \in Nat : n = len - 1 /\ len = n + 1 /\ n + 1 - 1 = n /\ len \in 0 .. m
    OBVIOUS
  <1>2. PICK k : k = KeysOf(s, len, cmp)
    OBVIOUS
  <1>3. k \in [0 .. n -> Nat]
    BY <1>1, <1>2, KeysAre
  <1>4. \A i \in 0 .. n - 1 : k[i] = KeysOf(s, n, cmp)[i]
    BY <1>1, <1>2 DEF KeysOf
  <1>5. Heaped(k, 0, n)
    BY <1>1, <1>4, HeapedPrefix
  <1>6. HeapedButAbove(k, n + 1, n)
    BY <1>3, <1>5, UpStarts
  <1>7. HeapedButAbove(KeysOf(s, len, cmp), len, len - 1)
    BY <1>1, <1>2, <1>6
  <1>8. Sifted(s, H!SiftUp(s, len - 1, cmp), m, 0, len, cmp)
    BY <1>7, SiftUpMends
  <1> QED
    BY <1>8 DEF H!PushHeap

\* The root is popped to the end of the first len elems, and those before it are a heap.
Popped(s, r, m, len, cmp) ==
    /\ r \in Span(m) /\ Heaped(KeysOf(r, len - 1, cmp), 0, len - 1)
    /\ Rearranged(s, r, m, len) /\ r[len] = s[1]

LEMMA PopHeapPops ==
    ASSUME PQueueAssumption, NEW cmp \in Orders, NEW m \in Nat, NEW len \in 1 .. m, NEW s \in Span(m),
           Heaped(KeysOf(s, len, cmp), 0, len)
    PROVE  Popped(s, H!PopHeap(s, len, cmp), m, len, cmp)
  <1>1. CASE len = 1
    <2>1. H!PopHeap(s, len, cmp) = s
      BY <1>1 DEF H!PopHeap
    <2>2. Heaped(KeysOf(s, len - 1, cmp), 0, len - 1)
      BY <1>1 DEF Heaped
    <2> QED
      BY <1>1, <2>1, <2>2, RearrangedItself DEF Popped
  <1>2. CASE len # 1
    <2>1. PICK n \in Nat : n = len - 1 /\ n \in 1 .. m /\ n \in 0 .. m /\ len \in 0 .. m /\ n + 1 = len
      BY <1>2
    <2>2. PICK u : u = H!Swapped(s, 0, n)
      OBVIOUS
    <2>3. 0 \in 0 .. len - 1 /\ n \in 0 .. len - 1
      BY <2>1
    <2>4. ElemsExchanged(s, u, m, len, 0, n, cmp)
      BY <2>1, <2>2, <2>3, SwappedIs
    <2>5. PICK k, new : k = KeysOf(s, len, cmp) /\ new = KeysOf(u, len, cmp)
      OBVIOUS
    <2>6. /\ u \in Span(m) /\ Exchanged(k, len, 0, n, new) /\ Rearranged(s, u, m, len)
          /\ u[len] = s[1]
      BY <2>1, <2>4, <2>5 DEF ElemsExchanged
    <2>7. PICK v : v = KeysOf(u, n, cmp)
      OBVIOUS
    <2>8. \A i \in 0 .. n - 1 : i # 0 => v[i] = k[i]
      <3>1. \A i \in 0 .. n - 1 : i \in 0 .. len - 1 /\ i # n /\ v[i] = new[i]
        BY <2>1, <2>5, <2>7 DEF KeysOf
      <3> QED
        BY <2>6, <3>1 DEF Exchanged
    <2>9. HeapedButBelow(v, 0, n, 0)
      <3>1. ASSUME NEW i \in 0 .. n - 1, NEW j \in 0 .. n - 1, i # 0, Child(i, j) PROVE v[i] >= v[j]
        <4>1. j # 0 /\ i \in 0 .. len - 1 /\ j \in 0 .. len - 1
          BY <2>1, <3>1 DEF Child
        <4>2. k[i] >= k[j]
          BY <2>5, <3>1, <4>1 DEF Heaped
        <4> QED
          BY <2>8, <3>1, <4>1, <4>2
      <3>2. \A i \in 0 .. n - 1 : ~Child(i, 0)
        BY DEF Child
      <3> QED
        BY <3>1, <3>2 DEF HeapedButBelow
    <2>10. PICK r : r = H!SiftDown(u, 0, n, cmp)
      OBVIOUS
    <2>11. Sifted(u, r, m, 0, n, cmp)
      BY <2>1, <2>6, <2>7, <2>9, <2>10, SiftDownMends
    <2>12. r \in Span(m) /\ Heaped(KeysOf(r, n, cmp), 0, n) /\ Rearranged(u, r, m, n)
      BY <2>11 DEF Sifted
    <2>13. Rearranged(s, r, m, len)
      <3>1. Rearranged(u, r, m, len)
        BY <2>1, <2>12, RearrangedMore
      <3> QED
        BY <2>1, <2>6, <3>1, RearrangedTrans
    <2>14. r[len] = s[1]
      <3>1. len \in n + 1 .. m
        BY <2>1
      <3> QED
        BY <2>6, <2>12, <3>1, RearrangedKeeps
    <2>15. H!PopHeap(s, len, cmp) = r
      BY <1>2, <2>1, <2>2, <2>10 DEF H!PopHeap
    <2> QED
      BY <2>1, <2>12, <2>13, <2>14, <2>15 DEF Popped
  <1> QED
    BY <1>1, <1>2

\* Another elem at the root, and it goes down from there.
LEMMA NewRootSinks ==
    ASSUME PQueueAssumption, NEW cmp \in Orders, NEW m \in Nat, NEW s \in Span(m), NEW u \in Span(m),
           Heaped(KeysOf(s, m, cmp), 0, m), \A i \in 2 .. m : u[i] = s[i]
    PROVE  Sifted(u, H!SiftDown(u, 0, m, cmp), m, 0, m, cmp)
  <1>1. PICK k, v : k = KeysOf(s, m, cmp) /\ v = KeysOf(u, m, cmp)
    OBVIOUS
  <1>2. \A i \in 0 .. m - 1 : i # 0 => v[i] = k[i]
    <2>1. \A i \in 0 .. m - 1 : i # 0 => i + 1 \in 2 .. m
      OBVIOUS
    <2> QED
      BY <1>1, <2>1 DEF KeysOf
  <1>3. HeapedButBelow(v, 0, m, 0)
    <2>1. ASSUME NEW i \in 0 .. m - 1, NEW j \in 0 .. m - 1, i # 0, Child(i, j) PROVE v[i] >= v[j]
      <3>1. j # 0
        BY <2>1 DEF Child
      <3>2. k[i] >= k[j]
        BY <1>1, <2>1 DEF Heaped
      <3> QED
        BY <1>2, <2>1, <3>1, <3>2
    <2>2. \A i \in 0 .. m - 1 : ~Child(i, 0)
      BY DEF Child
    <2> QED
      BY <2>1, <2>2 DEF HeapedButBelow
  <1>4. m \in 0 .. m
    OBVIOUS
  <1> QED
    BY <1>1, <1>3, <1>4, SiftDownMends

PushCourse(w, s, len, cmp) ==
    w = [n \in 0 .. Len(s) - len |-> IF n = 0 THEN s ELSE H!PushHeap(w[n - 1], len + n, cmp)]

LEMMA PushEachHeaps ==
    ASSUME PQueueAssumption, NEW cmp \in Orders, NEW m \in Nat, NEW s \in Span(m), NEW len \in 0 .. m,
           Heaped(KeysOf(s, len, cmp), 0, len)
    PROVE  Sifted(s, PushEach(s, len, cmp), m, 0, m, cmp)
  <1>1. PICK new \in Nat : new = m - len /\ len + new = m /\ len \in Nat
    OBVIOUS
  <1>2. Len(s) = m
    BY SpanLen DEF Span
  <1> DEFINE S == Span(m)
             f == [n \in Nat |-> [t \in S |-> IF n \in 1 .. new THEN H!PushHeap(t, len + n, cmp) ELSE t]]
             w == CHOOSE w : PushCourse(w, s, len, cmp)
             Ok(t, n) == Heaped(KeysOf(t, len + n, cmp), 0, len + n) /\ Rearranged(s, t, m, m)
             I == [n \in Nat |-> {t \in S : Ok(t, n)}]
  <1>3. ASSUME NEW n \in Nat, NEW t \in S PROVE (IF n \in 1 .. new THEN H!PushHeap(t, len + n, cmp) ELSE t) \in S
    <2>1. CASE n \in 1 .. new
      <3>1. len + n - 1 \in 0 .. m - 1
        BY <1>1, <2>1
      <3> QED
        BY <2>1, <3>1, SiftUpIn DEF H!PushHeap
    <2> QED
      BY <2>1
  <1>4. f \in [Nat -> [S -> S]]
    BY <1>3
  <1>5. \A n \in 1 .. new, t \in S : f[n][t] = H!PushHeap(t, len + n, cmp)
    OBVIOUS
  <1>6. PushEach(s, len, cmp) = w[new]
    BY <1>1, <1>2 DEF PushEach, PushCourse
  <1>7. \A n \in Nat : I[n] = {t \in S : Ok(t, n)}
    OBVIOUS
  <1> HIDE DEF f, I, S
  <1>8. \E g : PushCourse(g, s, len, cmp)
    <2>1. PICK g : Course(g, S, s, f, new)
      BY <1>4, CourseExists DEF S
    <2>2. ASSUME NEW n \in 0 .. new PROVE g[n] = IF n = 0 THEN s ELSE H!PushHeap(g[n - 1], len + n, cmp)
      <3>1. CASE n = 0
        BY <2>1, <3>1 DEF Course
      <3>2. CASE n # 0
        <4>1. n \in 1 .. new /\ n - 1 \in 0 .. new
          BY <3>2
        <4>2. g[n] = f[n][g[n - 1]] /\ g[n - 1] \in S
          BY <2>1, <3>2, <4>1 DEF Course
        <4> QED
          BY <1>5, <3>2, <4>1, <4>2
      <3> QED
        BY <3>1, <3>2
    <2>3. g = [n \in 0 .. new |-> IF n = 0 THEN s ELSE H!PushHeap(g[n - 1], len + n, cmp)]
      <3>1. g = [n \in 0 .. new |-> g[n]]
        BY <2>1 DEF Course
      <3> QED
        BY <2>2, <3>1
    <2>4. PushCourse(g, s, len, cmp)
      BY <1>1, <1>2, <2>3 DEF PushCourse
    <2> QED
      BY <2>4
  <1>9. PushCourse(w, s, len, cmp)
    BY <1>8
  <1> HIDE DEF w
  <1>10. \A n \in 0 .. new : w[n] = IF n = 0 THEN s ELSE H!PushHeap(w[n - 1], len + n, cmp)
    BY <1>1, <1>2, <1>9 DEF PushCourse
  <1>11. w[0] \in I[0]
    <2>1. w[0] = s /\ len + 0 = len
      BY <1>1, <1>10
    <2>2. Ok(s, 0)
      BY <2>1, RearrangedItself
    <2> QED
      BY <1>7, <2>1, <2>2 DEF S
  <1>12. ASSUME NEW n \in 0 .. new - 1, w[n] \in I[n] PROVE w[n + 1] \in I[n + 1]
    <2>1. n \in Nat /\ n + 1 \in Nat /\ n + 1 \in 0 .. new /\ n + 1 # 0 /\ (n + 1) - 1 = n
      OBVIOUS
    <2>2. PICK t \in Span(m) : t = w[n] /\ Ok(t, n)
      BY <1>7, <1>12, <2>1 DEF S
    <2>3. PICK l \in 1 .. m : l = len + (n + 1) /\ l - 1 = len + n
      BY <1>1
    <2>4. PICK r : r = H!PushHeap(t, l, cmp)
      OBVIOUS
    <2>5. Heaped(KeysOf(t, l - 1, cmp), 0, l - 1) /\ Rearranged(s, t, m, m)
      BY <2>2, <2>3
    <2>6. Sifted(t, r, m, 0, l, cmp)
      BY <2>4, <2>5, PushHeapHeaps
    <2>7. r \in Span(m) /\ Heaped(KeysOf(r, l, cmp), 0, l) /\ Rearranged(t, r, m, l)
      BY <2>6 DEF Sifted
    <2>8. Rearranged(s, r, m, m)
      <3>1. l \in Nat /\ l <= m
        OBVIOUS
      <3>2. Rearranged(t, r, m, m)
        BY <2>7, <3>1, RearrangedMore
      <3> QED
        BY <2>5, <3>2, RearrangedTrans
    <2>9. w[n + 1] = r
      BY <1>10, <2>1, <2>2, <2>3, <2>4
    <2>10. Ok(r, n + 1)
      BY <2>3, <2>7, <2>8
    <2> QED
      BY <1>7, <2>1, <2>7, <2>9, <2>10 DEF S
  <1>13. Kept(w, I, new)
    BY <1>11, <1>12 DEF Kept
  <1>14. w[new] \in I[new]
    BY <1>13, CourseKeeps
  <1>15. w[new] \in S /\ Ok(w[new], new)
    BY <1>7, <1>14
  <1> QED
    BY <1>1, <1>6, <1>15 DEF Sifted, S

-----------------------------------------------------------------------------
(* The elems of a vec that is a queue's.                                    *)

\* the elems of q are those of the span s
Holds(q, s) == \A i \in 0 .. q.len - 1 : q.slots[i] = s[i + 1]

\* q is a heap under cmp
HeapVec(q, cmp) == Heaped(KeysOf(Contents(q), q.len, cmp), 0, q.len)

\* a block with elems below its length
Sound(q) == OnBlock(q) /\ q.len <= q.cap /\ \A i \in 0 .. q.len - 1 : q.slots[i] \in Elem

LEMMA HoldsItself ==
    ASSUME NEW q, q.len \in Nat
    PROVE  Holds(q, Contents(q))
  <1>1. \A i \in 1 .. q.len : Contents(q)[i] = q.slots[i - 1]
    BY DEF Contents
  <1>2. ASSUME NEW i \in 0 .. q.len - 1 PROVE q.slots[i] = Contents(q)[i + 1]
    <2>1. i + 1 \in 1 .. q.len /\ (i + 1) - 1 = i
      OBVIOUS
    <2> QED
      BY <1>1, <2>1
  <1> QED
    BY <1>2 DEF Holds

LEMMA SoundSpan ==
    ASSUME NEW q, Sound(q)
    PROVE  Contents(q) \in Span(q.len) /\ Len(Contents(q)) = q.len /\ q.len \in Nat /\ Holds(q, Contents(q))
  <1>1. q.len \in Nat /\ \A i \in 0 .. q.len - 1 : q.slots[i] \in Elem
    BY DEF Sound, OnBlock
  <1>2. Contents(q) \in [1 .. q.len -> Elem]
    BY <1>1 DEF Contents
  <1> QED
    BY <1>1, <1>2, SpanLen, HoldsItself DEF Span

LEMMA VecSound ==
    ASSUME VecAssumption, NEW q, IsVec(q)
    PROVE  Sound(q)
  BY VecOnBlock, VecFields DEF Sound

\* Two vecs with the same elems are heaps together.
LEMMA HeldHeap ==
    ASSUME NEW q, q.len \in Nat, NEW s, Holds(q, s), NEW cmp, Heaped(KeysOf(s, q.len, cmp), 0, q.len)
    PROVE  HeapVec(q, cmp)
  <1>1. ASSUME NEW i \in 0 .. q.len - 1
        PROVE  KeysOf(Contents(q), q.len, cmp)[i] = KeysOf(s, q.len, cmp)[i]
    <2>1. Contents(q)[i + 1] = s[i + 1]
      BY HoldsItself DEF Holds
    <2> QED
      BY <2>1 DEF KeysOf
  <1> QED
    BY <1>1, HeapedPrefix DEF HeapVec

\* A vec that has the elems of a heap is one.
LEMMA SameHeap ==
    ASSUME NEW q, q.len \in Nat, NEW p, p.len = q.len, Holds(p, Contents(q)), NEW cmp, HeapVec(q, cmp)
    PROVE  HeapVec(p, cmp)
  BY HeldHeap DEF HeapVec

LEMMA TidyHolds ==
    ASSUME NEW q, Sound(q)
    PROVE  Tidy(q).len = q.len /\ Tidy(q).al = q.al /\ Holds(Tidy(q), Contents(q))
  <1>1. q.len \in Nat /\ q.cap \in Nat /\ q.len <= q.cap /\ Shaped(q)
    BY DEF Sound, OnBlock
  <1>2. Len(Contents(q)) = q.len
    BY SoundSpan
  <1>3. PICK ws : ws = SlotsOf(Contents(q), q.cap)
    OBVIOUS
  <1>4. Tidy(q).len = q.len /\ Tidy(q).al = q.al /\ Tidy(q).slots = ws
    BY <1>1, <1>3 DEF Tidy, Shaped
  <1>5. \A s \in 0 .. q.cap - 1 : ws[s] = IF s < q.len THEN Contents(q)[s + 1] ELSE Garbage
    BY <1>2, <1>3 DEF SlotsOf
  <1>6. ASSUME NEW i \in 0 .. q.len - 1 PROVE ws[i] = Contents(q)[i + 1]
    <2>1. i \in 0 .. q.cap - 1 /\ i < q.len
      BY <1>1
    <2> QED
      BY <1>5, <2>1
  <1> QED
    BY <1>4, <1>6 DEF Holds

-----------------------------------------------------------------------------
(* Growth leaves the elems as they are.                                     *)

\* p has the elems of q that fit
Carries(q, p) == p.len = q.len /\ \A i \in 0 .. q.len - 1 : i < p.cap => p.slots[i] = q.slots[i]

LEMMA ReallocCarries ==
    ASSUME NEW q, Sound(q), NEW h, NEW cap \in Nat, NEW r \in Realloc(q, h, cap)
    PROVE  Carries(q, r.q)
  <1> DEFINE ws == [s \in 0 .. cap - 1 |-> IF s < q.cap THEN q.slots[s] ELSE Garbage]
             on(id) == [q EXCEPT !.data = id, !.cap = cap, !.slots = ws]
  <1>1. Shaped(q) /\ q.cap \in Nat /\ q.len \in Nat /\ q.len <= q.cap
    BY DEF Sound, OnBlock
  <1>2. CASE r = Outcome(q, h, FALSE)
    BY <1>2 DEF Outcome, Carries
  <1>3. CASE \E id \in {FreshId(h)} \cup ({q.data} \ {Null}) :
                r = Outcome(on(id), FreeBlock(q, h) \cup {BlockOf(on(id))}, TRUE)
    <2>1. PICK id : r = Outcome(on(id), FreeBlock(q, h) \cup {BlockOf(on(id))}, TRUE)
      BY <1>3
    <2>2. \A i \in 0 .. q.len - 1 : i < cap => ws[i] = q.slots[i]
      BY <1>1
    <2> HIDE DEF ws
    <2>3. on(id).cap = cap /\ on(id).len = q.len /\ on(id).slots = ws
      BY <1>1 DEF Shaped
    <2> HIDE DEF on
    <2>4. r.q = on(id)
      BY <2>1 DEF Outcome
    <2> QED
      BY <2>2, <2>3, <2>4 DEF Carries
  <1> QED
    BY <1>2, <1>3 DEF Realloc

LEMMA SetCapCarries ==
    ASSUME NEW q, Sound(q), NEW h, NEW cap \in Nat, NEW r \in SetCap(q, h, cap)
    PROVE  Carries(q, r.q)
  <1>1. CASE r = Outcome(q, h, FALSE)
    BY <1>1 DEF Outcome, Carries
  <1>2. CASE r \in Realloc(q, h, cap)
    BY <1>2, ReallocCarries
  <1> QED
    BY <1>1, <1>2 DEF SetCap

LEMMA ReserveForCarries ==
    ASSUME VecAssumption, VecInv, NEW d \in Names, Alive(d), NEW n \in Sizes, NEW r \in ReserveFor(vecs[d], heap, n)
    PROVE  Carries(vecs[d], r.q)
  <1> DEFINE q == vecs[d]
  <1>1. /\ IsVec(q) /\ q.al \in Als /\ q.cap \in Nat /\ q.len \in Nat /\ q.len <= q.cap
        /\ n \in Nat /\ Sound(q)
    BY AliveVec, VecSound DEF Sizes, VecAssumption
  <1>2. CASE r = Outcome(q, heap, TRUE)
    BY <1>2 DEF Outcome, Carries
  <1> HIDE DEF q
  <1>3. CASE r \in SetCap(q, heap, n)
    BY <1>1, <1>3, SetCapCarries DEF q
  <1>4. CASE /\ ~(n <= q.cap) /\ NextCap(q) > n
             /\ \E s \in SetCap(q, heap, NextCap(q)) : r \in IF s.ok THEN {s} ELSE SetCap(s.q, s.heap, n)
    <2>1. NextCap(q) \in Sizes /\ NextCap(q) > 0 /\ NextCap(q) \in Nat /\ q.len <= NextCap(q)
      <3>1. NextCap(q) \in Sizes /\ NextCap(q) > 0 /\ NextCap(q) \in Nat
        BY <1>1, NextCapFits DEF Sizes, VecAssumption
      <3> QED
        BY <1>1, <1>4, <3>1
    <2>2. PICK s \in SetCap(q, heap, NextCap(q)) : r \in IF s.ok THEN {s} ELSE SetCap(s.q, s.heap, n)
      BY <1>4
    <2>3. CASE s.ok
      BY <1>1, <2>1, <2>2, <2>3, SetCapCarries DEF q
    <2>4. CASE ~s.ok
      <3>1. Refused(q, s)
        BY <1>1, <2>1, <2>4, SetCapOutcomes DEF Grown
      <3>2. r \in SetCap(q, heap, n)
        BY <2>2, <2>4, <3>1 DEF Refused
      <3> QED
        BY <1>1, <3>2, SetCapCarries DEF q
    <2> QED
      BY <2>3, <2>4
  <1> QED
    BY <1>2, <1>3, <1>4 DEF ReserveFor, q

LEMMA ReserveOneCarries ==
    ASSUME VecAssumption, VecInv, NEW d \in Names, Alive(d), NEW r \in ReserveOne(vecs[d], heap)
    PROVE  Carries(vecs[d], r.q)
  <1> DEFINE q == vecs[d]
  <1>1. CASE r = Outcome(q, heap, TRUE) \/ r = Outcome(q, heap, FALSE)
    BY <1>1 DEF Outcome, Carries
  <1>2. CASE ~(q.len < q.cap) /\ q.cap # SizeMax /\ r \in ReserveFor(q, heap, q.cap + 1)
    <2>1. q.cap + 1 \in Sizes
      BY <1>2, AliveVec DEF Sizes, VecAssumption
    <2> QED
      BY <1>2, <2>1, ReserveForCarries
  <1> QED
    BY <1>1, <1>2 DEF ReserveOne

LEMMA ReserveCarries ==
    ASSUME VecAssumption, VecInv, NEW d \in Names, Alive(d), NEW cap \in Sizes,
           NEW r \in ReserveOutcomes(vecs[d], heap, cap)
    PROVE  Carries(vecs[d], r.q)
  <1> DEFINE q == vecs[d]
  <1>1. CASE r = Outcome(q, heap, TRUE)
    BY <1>1 DEF Outcome, Carries
  <1>2. CASE r \in SetCap(q, heap, cap)
    <2>1. Sound(q) /\ cap \in Nat
      BY AliveVec, VecSound DEF Sizes, VecAssumption
    <2> QED
      BY <1>2, <2>1, SetCapCarries
  <1> QED
    BY <1>1, <1>2 DEF ReserveOutcomes

\* A vec that has room for the elems it had holds them.
LEMMA CarriesHolds ==
    ASSUME NEW q, q.len \in Nat, NEW p, Sound(p), Carries(q, p)
    PROVE  p.len = q.len /\ Holds(p, Contents(q))
  <1>1. p.len = q.len /\ \A i \in 0 .. q.len - 1 : p.slots[i] = q.slots[i]
    BY DEF Carries, Sound, OnBlock
  <1> QED
    BY <1>1, HoldsItself DEF Holds

-----------------------------------------------------------------------------
(* The elems as a bag: how many places hold each.                           *)

\* the places of the first n of a span that hold x, and how many there are of each elem
At(s, n, x) == {i \in 1 .. n : s[i] = x}
Tally(s, n) == [x \in Elem |-> Cardinality(At(s, n, x))]

\* the elems of a vec, counted as the refinement counts them
BagOf(q) == [x \in Elem |-> Cardinality({i \in 0 .. q.len - 1 : q.slots[i] = x})]

LEMMA SameCount ==
    ASSUME NEW S, NEW T, IsFiniteSet(S), NEW f, NEW g, \A i \in S : f[i] \in T /\ g[f[i]] = i,
           \A j \in T : g[j] \in S /\ f[g[j]] = j
    PROVE  Cardinality(T) = Cardinality(S)
  <1>1. PICK h : h = [i \in S |-> f[i]]
    OBVIOUS
  <1>2. h \in [S -> T] /\ \A i \in S : h[i] = f[i]
    BY <1>1
  <1>3. h \in Injection(S, T)
    BY <1>2 DEF Injection, IsInjective
  <1>4. h \in Surjection(S, T)
    BY <1>2 DEF Surjection
  <1>5. ExistsBijection(S, T)
    BY <1>3, <1>4 DEF ExistsBijection, Bijection
  <1> QED
    BY <1>5, FS_Bijection

LEMMA AtFinite ==
    ASSUME NEW s, NEW n \in Nat, NEW x
    PROVE  IsFiniteSet(At(s, n, x)) /\ Cardinality(At(s, n, x)) \in Nat
  <1>1. IsFiniteSet(1 .. n)
    BY FS_Interval
  <1>2. At(s, n, x) \in SUBSET (1 .. n)
    BY DEF At
  <1>3. IsFiniteSet(At(s, n, x))
    BY <1>1, <1>2, FS_Subset
  <1> QED
    BY <1>3, FS_CardinalityType

LEMMA TallyType ==
    ASSUME NEW s, NEW n \in Nat
    PROVE  Tally(s, n) \in [Elem -> Nat]
  BY AtFinite DEF Tally

\* Only the first n elems count.
LEMMA TallySame ==
    ASSUME NEW s, NEW r, NEW n \in Nat, \A i \in 1 .. n : r[i] = s[i]
    PROVE  Tally(r, n) = Tally(s, n)
  <1>1. ASSUME NEW x PROVE At(r, n, x) = At(s, n, x)
    BY DEF At
  <1> QED
    BY <1>1 DEF Tally

\* Elems that change places count as before.
LEMMA TallyRearranged ==
    ASSUME NEW s, NEW r, NEW m \in Nat, NEW len \in Nat, Rearranged(s, r, m, len)
    PROVE  Tally(r, m) = Tally(s, m)
  <1>1. PICK p, q : Shuffles(s, r, m, len, p, q)
    BY DEF Rearranged
  <1>2. ASSUME NEW x PROVE Cardinality(At(s, m, x)) = Cardinality(At(r, m, x))
    <2>1. ASSUME NEW i \in At(r, m, x) PROVE p[i] \in At(s, m, x) /\ q[p[i]] = i
      BY <1>1 DEF Shuffles, At
    <2>2. ASSUME NEW j \in At(s, m, x) PROVE q[j] \in At(r, m, x) /\ p[q[j]] = j
      BY <1>1 DEF Shuffles, At
    <2>3. IsFiniteSet(At(r, m, x))
      BY AtFinite
    <2> QED
      BY <2>1, <2>2, <2>3, SameCount
  <1> QED
    BY <1>2 DEF Tally

\* One elem more.
LEMMA TallyOne ==
    ASSUME NEW s, NEW n \in Nat, NEW x \in Elem, NEW y, y = s[n + 1]
    PROVE  Tally(s, n + 1)[x] = IF y = x THEN Tally(s, n)[x] + 1 ELSE Tally(s, n)[x]
  <1>1. IsFiniteSet(At(s, n, x))
    BY AtFinite
  <1>2. n + 1 \notin At(s, n, x)
    BY DEF At
  <1>3. At(s, n + 1, x) = IF y = x THEN At(s, n, x) \cup {n + 1} ELSE At(s, n, x)
    <2>1. \A i : i \in 1 .. n + 1 <=> i \in 1 .. n \/ i = n + 1
      OBVIOUS
    <2> QED
      BY <2>1 DEF At
  <1>4. Cardinality(At(s, n + 1, x)) =
            IF y = x THEN Cardinality(At(s, n, x)) + 1 ELSE Cardinality(At(s, n, x))
    BY <1>1, <1>2, <1>3, FS_AddElement
  <1> QED
    BY <1>4 DEF Tally

\* the k elems of src come after the first n of s
Follows(s, n, src, k) == \A i \in 1 .. k : s[n + i] = src[i]

\* They count beside those.
LEMMA TallyJoined ==
    ASSUME NEW s, NEW n \in Nat, NEW src, NEW k \in Nat, Follows(s, n, src, k),
           NEW m, m = n + k, NEW x \in Elem
    PROVE  Tally(s, m)[x] = Tally(s, n)[x] + Tally(src, k)[x]
  <1>1. Cardinality(At(s, n + k, x)) = Cardinality(At(s, n, x)) + Cardinality(At(src, k, x))
    <2>1. PICK T : T = {i \in n + 1 .. n + k : s[i] = x}
      OBVIOUS
    <2>2. IsFiniteSet(T) /\ Cardinality(T) = Cardinality(At(src, k, x))
      <3>1. PICK f, g : f = [i \in 1 .. k |-> n + i] /\ g = [j \in n + 1 .. n + k |-> j - n]
        OBVIOUS
      <3>2. ASSUME NEW i \in At(src, k, x) PROVE f[i] \in T /\ g[f[i]] = i
        <4>1. i \in 1 .. k /\ n + i \in n + 1 .. n + k /\ (n + i) - n = i /\ s[n + i] = x
          BY DEF At, Follows
        <4> QED
          BY <2>1, <3>1, <4>1
      <3>3. ASSUME NEW j \in T PROVE g[j] \in At(src, k, x) /\ f[g[j]] = j
        <4>1. PICK i \in 1 .. k : i = j - n /\ n + i = j /\ j \in n + 1 .. n + k
          BY <2>1
        <4>2. src[i] = x
          BY <2>1, <4>1 DEF Follows
        <4> QED
          BY <3>1, <4>1, <4>2 DEF At
      <3>4. IsFiniteSet(At(src, k, x))
        BY AtFinite
      <3>5. Cardinality(T) = Cardinality(At(src, k, x))
        BY <3>2, <3>3, <3>4, SameCount
      <3>6. IsFiniteSet(n + 1 .. n + k)
        BY FS_Interval
      <3>7. T \in SUBSET (n + 1 .. n + k)
        BY <2>1
      <3> QED
        BY <3>5, <3>6, <3>7, FS_Subset
    <2>3. At(s, n + k, x) = At(s, n, x) \cup T
      <3>1. \A i : i \in 1 .. n + k <=> i \in 1 .. n \/ i \in n + 1 .. n + k
        OBVIOUS
      <3> QED
        BY <2>1, <3>1 DEF At
    <2>4. At(s, n, x) \cap T = {}
      BY <2>1 DEF At
    <2>5. Cardinality(At(s, n + k, x)) = Cardinality(At(s, n, x)) + Cardinality(T) - Cardinality({})
      BY <2>2, <2>3, <2>4, AtFinite, FS_Union
    <2>6. Cardinality({}) = 0 /\ Cardinality(At(s, n, x)) \in Nat /\ Cardinality(T) \in Nat
      BY <2>2, AtFinite, FS_EmptySet
    <2> QED
      BY <2>2, <2>5, <2>6
  <1> QED
    BY <1>1 DEF Tally

\* One elem more, and one less, at the end.
LEMMA TallyPushed ==
    ASSUME NEW s, NEW n \in Nat, NEW y \in Elem, y = s[n + 1]
    PROVE  Tally(s, n + 1) = [Tally(s, n) EXCEPT ![y] = @ + 1]
  <1>1. PICK a, b : a = Tally(s, n) /\ b = Tally(s, n + 1)
    OBVIOUS
  <1>2. a \in [Elem -> Nat] /\ b \in [Elem -> Nat]
    BY <1>1, TallyType
  <1>3. \A x \in Elem : b[x] = IF y = x THEN a[x] + 1 ELSE a[x]
    BY <1>1, TallyOne
  <1> QED
    BY <1>1, <1>2, <1>3

LEMMA TallyPopped ==
    ASSUME NEW s, NEW n \in Nat, NEW y \in Elem, y = s[n + 1]
    PROVE  Tally(s, n) = [Tally(s, n + 1) EXCEPT ![y] = @ - 1]
  <1>1. PICK a, b : a = Tally(s, n) /\ b = Tally(s, n + 1)
    OBVIOUS
  <1>2. a \in [Elem -> Nat] /\ b \in [Elem -> Nat]
    BY <1>1, TallyType
  <1>3. \A x \in Elem : b[x] = IF y = x THEN a[x] + 1 ELSE a[x]
    BY <1>1, TallyOne
  <1>4. \A x \in Elem : a[x] = IF y = x THEN b[x] - 1 ELSE b[x]
    BY <1>2, <1>3
  <1> QED
    BY <1>1, <1>2, <1>4

\* The root counts once, and what is behind it counts apart.
LEMMA TallyRoot ==
    ASSUME NEW s, NEW m \in Nat, m > 0, NEW x \in Elem, NEW src, src = [i \in 1 .. m - 1 |-> s[i + 1]]
    PROVE  Tally(s, m)[x] = Tally(src, m - 1)[x] + IF s[1] = x THEN 1 ELSE 0
  <1>1. PICK k \in Nat : k = m - 1 /\ 1 + k = m
    OBVIOUS
  <1>2. \A i \in 1 .. k : s[1 + i] = src[i]
    BY <1>1
  <1>3. Tally(s, m)[x] = Tally(s, 1)[x] + Tally(src, k)[x]
    <2>1. PICK n \in Nat : n = 1
      OBVIOUS
    <2>2. Follows(s, n, src, k)
      BY <1>2, <2>1 DEF Follows
    <2>3. m = n + k
      BY <1>1, <2>1
    <2>4. Tally(s, m)[x] = Tally(s, n)[x] + Tally(src, k)[x]
      BY <2>2, <2>3, TallyJoined
    <2> QED
      BY <1>1, <2>1, <2>4
  <1>4. Tally(s, 0)[x] = 0
    <2>1. At(s, 0, x) = {}
      BY DEF At
    <2> QED
      BY <2>1, FS_EmptySet DEF Tally
  <1>5. Tally(s, 0 + 1)[x] = IF s[0 + 1] = x THEN Tally(s, 0)[x] + 1 ELSE Tally(s, 0)[x]
    BY TallyOne
  <1>6. Tally(src, k)[x] \in Nat
    BY TallyType
  <1> QED
    BY <1>1, <1>3, <1>4, <1>5, <1>6

LEMMA TallyRerooted ==
    ASSUME NEW s, NEW u, NEW m \in Nat, m > 0, s[1] \in Elem, u[1] \in Elem, \A i \in 2 .. m : u[i] = s[i]
    PROVE  Tally(u, m) = [[Tally(s, m) EXCEPT ![s[1]] = @ - 1] EXCEPT ![u[1]] = @ + 1]
  <1>1. PICK y \in Elem, z \in Elem : y = s[1] /\ z = u[1]
    OBVIOUS
  <1>2. PICK a, b, src : a = Tally(s, m) /\ b = Tally(u, m) /\ src = [i \in 1 .. m - 1 |-> s[i + 1]]
    OBVIOUS
  <1>3. src = [i \in 1 .. m - 1 |-> u[i + 1]]
    <2>1. \A i \in 1 .. m - 1 : i + 1 \in 2 .. m
      OBVIOUS
    <2> QED
      BY <1>2, <2>1
  <1>4. PICK c : c = Tally(src, m - 1)
    OBVIOUS
  <1>5. c \in [Elem -> Nat] /\ a \in [Elem -> Nat] /\ b \in [Elem -> Nat]
    BY <1>2, <1>4, TallyType
  <1>6. ASSUME NEW x \in Elem
        PROVE  /\ a[x] = c[x] + IF y = x THEN 1 ELSE 0
               /\ b[x] = c[x] + IF z = x THEN 1 ELSE 0
    <2>1. Tally(s, m)[x] = Tally(src, m - 1)[x] + IF s[1] = x THEN 1 ELSE 0
      BY <1>2, TallyRoot
    <2>2. Tally(u, m)[x] = Tally(src, m - 1)[x] + IF u[1] = x THEN 1 ELSE 0
      BY <1>3, TallyRoot
    <2> QED
      BY <1>1, <1>2, <1>4, <2>1, <2>2
  <1>7. PICK e : e = [a EXCEPT ![y] = @ - 1]
    OBVIOUS
  <1>8. e = c
    <2>1. \A x \in Elem : c[x] = IF x = y THEN a[x] - 1 ELSE a[x]
      BY <1>5, <1>6
    <2> QED
      BY <1>5, <1>7, <2>1
  <1>9. b = [c EXCEPT ![z] = @ + 1]
    <2>1. \A x \in Elem : b[x] = IF x = z THEN c[x] + 1 ELSE c[x]
      BY <1>5, <1>6
    <2> QED
      BY <1>5, <2>1
  <1> QED
    BY <1>1, <1>2, <1>7, <1>8, <1>9

\* An elem counts if it has a place.
LEMMA TallyPlace ==
    ASSUME NEW s, NEW n \in Nat, NEW x \in Elem
    PROVE  Tally(s, n)[x] > 0 <=> \E i \in 1 .. n : s[i] = x
  <1>1. Cardinality(At(s, n, x)) = 0 <=> At(s, n, x) = {}
    BY AtFinite, FS_EmptySet
  <1>2. Cardinality(At(s, n, x)) \in Nat
    BY AtFinite
  <1>3. At(s, n, x) # {} <=> \E i \in 1 .. n : s[i] = x
    BY DEF At
  <1> QED
    BY <1>1, <1>2, <1>3 DEF Tally

\* The root is not before any other.
LEMMA RootGreatest ==
    ASSUME NEW len \in Nat, NEW k \in [0 .. len - 1 -> Nat], Heaped(k, 0, len)
    PROVE  \A i \in 0 .. len - 1 : k[0] >= k[i]
  <1> DEFINE T == {i \in Nat : i < len /\ ~(k[0] >= k[i])}
  <1>1. SUFFICES ASSUME T # {} PROVE FALSE
    OBVIOUS
  <1>2. PICK i \in T : \A j \in T : i <= j
    BY <1>1, LeastNat
  <1>3. i \in 0 .. len - 1 /\ i # 0
    <2>1. 0 \in 0 .. len - 1 /\ k[0] \in Nat
      BY <1>2
    <2> QED
      BY <2>1
  <1>4. PICK p \in Nat : Child(p, i) /\ p < i
    BY <1>3, ParentIs
  <1>5. p \in 0 .. len - 1 /\ k[p] >= k[i]
    BY <1>3, <1>4 DEF Heaped
  <1>6. k[0] >= k[p]
    BY <1>2, <1>4, <1>5
  <1> QED
    BY <1>3, <1>5, <1>6

\* x is in the bag, and nothing there comes before it
Top(bag, cmp, x) == bag[x] > 0 /\ \A y \in Elem : bag[y] > 0 => cmp[x] >= cmp[y]

LEMMA RootIsTop ==
    ASSUME PQueueAssumption, NEW cmp \in Orders, NEW m \in Nat, m > 0, NEW s \in Span(m),
           Heaped(KeysOf(s, m, cmp), 0, m)
    PROVE  Top(Tally(s, m), cmp, s[1])
  <1>1. PICK k : k = KeysOf(s, m, cmp)
    OBVIOUS
  <1>2. m \in 0 .. m
    OBVIOUS
  <1>3. k \in [0 .. m - 1 -> Nat] /\ \A i \in 0 .. m - 1 : k[i] = cmp[s[i + 1]]
    BY <1>1, <1>2, KeysAre
  <1>4. \A i \in 0 .. m - 1 : k[0] >= k[i]
    BY <1>1, <1>3, RootGreatest
  <1>5. s[1] \in Elem /\ 1 \in 1 .. m
    BY DEF Span
  <1>6. ASSUME NEW i \in 1 .. m PROVE cmp[s[1]] >= cmp[s[i]]
    <2>1. i - 1 \in 0 .. m - 1 /\ (i - 1) + 1 = i /\ 0 \in 0 .. m - 1 /\ 0 + 1 = 1
      OBVIOUS
    <2>2. k[i - 1] = cmp[s[i]] /\ k[0] = cmp[s[1]]
      BY <1>3, <2>1
    <2> QED
      BY <1>4, <2>1, <2>2
  <1>7. Tally(s, m)[s[1]] > 0
    BY <1>5, TallyPlace
  <1>8. ASSUME NEW y \in Elem, Tally(s, m)[y] > 0 PROVE cmp[s[1]] >= cmp[y]
    <2>1. PICK i \in 1 .. m : s[i] = y
      BY <1>8, TallyPlace
    <2> QED
      BY <1>6, <2>1
  <1> QED
    BY <1>7, <1>8 DEF Top

\* A vec that holds a span has the bag of it.
LEMMA BagHeld ==
    ASSUME NEW q, q.len \in Nat, NEW s, Holds(q, s)
    PROVE  BagOf(q) = Tally(s, q.len)
  <1>0. PICK n \in Nat : n = q.len
    OBVIOUS
  <1>1. ASSUME NEW x \in Elem
        PROVE  Cardinality({i \in 0 .. n - 1 : q.slots[i] = x}) = Cardinality(At(s, n, x))
    <2>1. PICK S, f, g : /\ S = {i \in 0 .. n - 1 : q.slots[i] = x}
                         /\ f = [i \in 1 .. n |-> i - 1] /\ g = [j \in 0 .. n - 1 |-> j + 1]
      OBVIOUS
    <2>2. ASSUME NEW i \in At(s, n, x) PROVE f[i] \in S /\ g[f[i]] = i
      <3>1. PICK j \in 0 .. n - 1 : j = i - 1 /\ j + 1 = i /\ i \in 1 .. n /\ s[i] = x
        BY DEF At
      <3>2. q.slots[j] = x
        BY <1>0, <3>1 DEF Holds
      <3> QED
        BY <2>1, <3>1, <3>2
    <2>3. ASSUME NEW j \in S PROVE g[j] \in At(s, n, x) /\ f[g[j]] = j
      <3>1. PICK i \in 1 .. n : j = i - 1 /\ j + 1 = i /\ j \in 0 .. n - 1 /\ q.slots[j] = x
        BY <2>1
      <3>2. s[i] = x
        BY <1>0, <3>1 DEF Holds
      <3> QED
        BY <2>1, <3>1, <3>2 DEF At
    <2>4. Cardinality(S) = Cardinality(At(s, n, x))
      BY <2>2, <2>3, AtFinite, SameCount
    <2> QED
      BY <2>1, <2>4
  <1> QED
    BY <1>0, <1>1 DEF BagOf, Tally

-----------------------------------------------------------------------------
(* The invariant, and what a call on one queue keeps of it.                 *)

\* a queue, a heap under the order it holds, or a handle that is none
QueueOk(q, cmp) ==
    \/ q.al = Null /\ cmp = Null
    \/ q.al # Null /\ cmp \in Orders /\ HeapVec(q, cmp)

PQueueInv ==
    /\ VecInv
    /\ cmps = [d \in Names |-> cmps[d]]
    /\ \A d \in Names : QueueOk(vecs[d], cmps[d])

LEMMA AliveQueue ==
    ASSUME PQueueAssumption, PQueueInv, NEW d \in Names, Alive(d)
    PROVE  cmps[d] \in Orders /\ HeapVec(vecs[d], cmps[d])
  BY DEF PQueueInv, QueueOk, Alive

LEMMA DeadQueue ==
    ASSUME PQueueAssumption, PQueueInv, NEW d \in Names, ~Alive(d)
    PROVE  cmps[d] = Null
  BY DEF PQueueInv, QueueOk, Alive

\* A vec of no elems is a heap.
LEMMA NoneHeap ==
    ASSUME NEW q, q.len = 0, NEW cmp
    PROVE  HeapVec(q, cmp)
  BY DEF HeapVec, Heaped

LEMMA TidyQueue ==
    ASSUME NEW q, Sound(q), NEW cmp, QueueOk(q, cmp)
    PROVE  QueueOk(Tidy(q), cmp)
  <1>1. q.len \in Nat
    BY DEF Sound, OnBlock
  <1>2. Tidy(q).len = q.len /\ Tidy(q).al = q.al /\ Holds(Tidy(q), Contents(q))
    BY TidyHolds
  <1> QED
    BY <1>1, <1>2, SameHeap DEF QueueOk

\* The step leaves d as the vec q under cmp.
LEMMA QueueChanges ==
    ASSUME PQueueInv, VecInv', NEW d \in Names, Only(d), NEW cmp,
           cmps' = [cmps EXCEPT ![d] = cmp], QueueOk(vecs'[d], cmp)
    PROVE  PQueueInv'
  <1>1. cmps'[d] = cmp /\ cmps' = [e \in Names |-> cmps'[e]] /\ \A e \in Names \ {d} : cmps'[e] = cmps[e]
    BY DEF PQueueInv
  <1>2. ASSUME NEW e \in Names PROVE QueueOk(vecs'[e], cmps'[e])
    <2>1. CASE e = d
      BY <1>1, <2>1
    <2>2. CASE e # d
      <3>1. vecs'[e] = vecs[e] /\ cmps'[e] = cmps[e] /\ QueueOk(vecs[e], cmps[e])
        BY <1>1, <2>2 DEF PQueueInv, Only
      <3> QED
        BY <3>1
    <2> QED
      BY <2>1, <2>2
  <1> QED
    BY <1>1, <1>2 DEF PQueueInv

LEMMA QueueEnds ==
    ASSUME PQueueInv, VecInv', NEW d \in Names, NEW q, Sound(q), NEW cmp, QueueOk(q, cmp),
           NEW c, NEW h, NEW ok, PQueueEnds(c, d, q, h, ok, cmp)
    PROVE  PQueueInv'
  <1>1. vecs' = [vecs EXCEPT ![d] = Tidy(q)] /\ cmps' = [cmps EXCEPT ![d] = cmp]
    BY DEF PQueueEnds, Ends
  <1>2. Only(d) /\ vecs'[d] = Tidy(q)
    BY <1>1 DEF Only, PQueueInv, VecInv
  <1> QED
    BY <1>1, <1>2, TidyQueue, QueueChanges

\* A call that was refused, or only reads.
LEMMA SameQueueEnds ==
    ASSUME VecAssumption, PQueueAssumption, PQueueInv, NEW d \in Names, NEW c, NEW ok,
           PQueueEnds(c, d, vecs[d], heap, ok, cmps[d])
    PROVE  PQueueInv'
  <1>1. PICK r : r.q = vecs[d] /\ r.heap = heap
    <2>1. [q |-> vecs[d], heap |-> heap].q = vecs[d] /\ [q |-> vecs[d], heap |-> heap].heap = heap
      OBVIOUS
    <2> QED
      BY <2>1
  <1>2. Ends(c, d, r.q, r.heap, ok) /\ VecInv
    BY <1>1 DEF PQueueEnds, PQueueInv
  <1>3. VecInv'
    BY <1>1, <1>2, SameIsGood, EndsKeeps
  <1>4. Sound(vecs[d]) /\ QueueOk(vecs[d], cmps[d])
    BY VecSound DEF PQueueInv, VecInv
  <1> QED
    BY <1>3, <1>4, QueueEnds

\* A call that grew the block, perhaps, and left o in it.
LEMMA GrownQueueEnds ==
    ASSUME VecAssumption, PQueueAssumption, PQueueInv, NEW d \in Names, Alive(d), NEW n, NEW r,
           Grown(vecs[d], r, n), NEW o, InPlace(r.q, o), o.len \in 0 .. r.q.cap,
           \A i \in 0 .. o.len - 1 : o.slots[i] \in Elem,
           NEW cmp \in Orders, HeapVec(o, cmp),
           NEW c, NEW ok, PQueueEnds(c, d, o, r.heap, ok, cmp)
    PROVE  PQueueInv'
  <1>1. VecInv /\ Ends(c, d, o, r.heap, ok)
    BY DEF PQueueInv, PQueueEnds
  <1>2. VecInv'
    BY <1>1, GrownEnds
  <1>3. OnBlock(r.q) /\ r.q.cap \in Nat
    BY <1>1, GrownFields
  <1>4. Sound(o)
    BY <1>3, InPlaceOnBlock DEF Sound, InPlace
  <1>5. o.al # Null
    BY <1>1, AliveVec DEF InPlace, Grown, VecAssumption
  <1> QED
    BY <1>2, <1>4, <1>5, QueueEnds DEF QueueOk

-----------------------------------------------------------------------------
(* What a call does to the bags.                                            *)

Bags == [d \in Names |-> BagOf(vecs[d])]

\* no queue has other elems or another order
Unmoved == Bags' = Bags /\ cmps' = cmps

LEMMA Becoming ==
    ASSUME PQueueInv, PQueueInv', NEW d \in Names, Only(d), NEW cmp, cmps' = [cmps EXCEPT ![d] = cmp],
           NEW bag, bag = BagOf(vecs'[d])
    PROVE  Queues!Becomes(d, bag, cmp)
  <1>1. Bags' = [Bags EXCEPT ![d] = bag]
    BY DEF Bags, Only
  <1> QED
    BY <1>1 DEF Queues!Becomes, Bags, BagOf

LEMMA Staying ==
    ASSUME PQueueInv, NEW d \in Names, Only(d), cmps' = [cmps EXCEPT ![d] = cmps[d]],
           BagOf(vecs'[d]) = BagOf(vecs[d])
    PROVE  Unmoved
  <1>1. Bags' = Bags
    BY DEF Bags, Only
  <1>2. cmps' = cmps
    BY DEF PQueueInv
  <1> QED
    BY <1>1, <1>2 DEF Unmoved

LEMMA TidyBag ==
    ASSUME NEW q, Sound(q)
    PROVE  BagOf(Tidy(q)) = BagOf(q) /\ BagOf(q) = Tally(Contents(q), q.len) /\ q.len \in Nat
  <1>1. q.len \in Nat /\ Holds(q, Contents(q))
    BY SoundSpan
  <1>2. Tidy(q).len = q.len /\ Holds(Tidy(q), Contents(q))
    BY TidyHolds
  <1>3. BagOf(q) = Tally(Contents(q), q.len)
    BY <1>1, BagHeld
  <1>4. BagOf(Tidy(q)) = Tally(Contents(q), q.len)
    BY <1>1, <1>2, BagHeld
  <1> QED
    BY <1>1, <1>3, <1>4

\* Where a call that leaves d as q leaves the bags.
LEMMA EndsBag ==
    ASSUME PQueueInv, NEW d \in Names, NEW q, Sound(q), NEW c, NEW h, NEW ok, NEW cmp,
           PQueueEnds(c, d, q, h, ok, cmp)
    PROVE  Only(d) /\ cmps' = [cmps EXCEPT ![d] = cmp] /\ BagOf(vecs'[d]) = BagOf(q)
  <1>1. vecs' = [vecs EXCEPT ![d] = Tidy(q)] /\ cmps' = [cmps EXCEPT ![d] = cmp]
    BY DEF PQueueEnds, Ends
  <1>2. Only(d) /\ vecs'[d] = Tidy(q)
    BY <1>1 DEF Only, PQueueInv, VecInv
  <1> QED
    BY <1>1, <1>2, TidyBag

LEMMA EndsBecomes ==
    ASSUME PQueueInv, PQueueInv', NEW d \in Names, NEW q, Sound(q), NEW c, NEW h, NEW ok, NEW cmp,
           PQueueEnds(c, d, q, h, ok, cmp), NEW bag, BagOf(q) = bag
    PROVE  Queues!Becomes(d, bag, cmp)
  <1>1. Only(d) /\ cmps' = [cmps EXCEPT ![d] = cmp] /\ BagOf(vecs'[d]) = bag
    BY EndsBag
  <1> QED
    BY <1>1, Becoming

\* What the call says of itself.
LEMMA CallIs ==
    ASSUME NEW c, NEW d, NEW q, NEW h, NEW ok, NEW cmp, PQueueEnds(c, d, q, h, ok, cmp), "op" \in DOMAIN c
    PROVE  /\ call'.op = c.op /\ call'.d = d /\ call'.ok = ok
           /\ \A f \in DOMAIN c \ {"d", "ok"} : call'[f] = c[f]
  <1>1. call' = [f \in DOMAIN c \cup {"d", "ok"} |-> IF f = "d" THEN d ELSE IF f = "ok" THEN ok ELSE c[f]]
    BY DEF PQueueEnds, Ends, Made
  <1>2. "op" # "d" /\ "op" # "ok" /\ "d" # "ok"
    OBVIOUS
  <1> QED
    BY <1>1, <1>2

\* A call that was served.
LEMMA DoesServed ==
    ASSUME NEW d \in Names, call'.d = d, call'.ok, Queues!Served(call', BagOf(vecs[d]), cmps[d])
    PROVE  Queues!Does(call')
  <1>1. Bags[d] = BagOf(vecs[d])
    BY DEF Bags
  <1> QED
    BY <1>1 DEF Queues!Does, Bags, BagOf

Refusable == {"make", "copy", "push", "extend", "room"}

\* A call that was refused.
LEMMA DoesRefused ==
    ASSUME Unmoved, call'.op \in Refusable, ~call'.ok
    PROVE  Queues!Does(call')
  BY DEF Queues!Does, Queues!Refused, Refusable, Unmoved, Bags, BagOf

LEMMA RefusedDoes ==
    ASSUME VecAssumption, PQueueInv, NEW d \in Names, NEW r, Refused(vecs[d], r), NEW c,
           PQueueEnds(c, d, r.q, r.heap, r.ok, cmps[d]), "op" \in DOMAIN c, c.op \in Refusable
    PROVE  Queues!Does(call')
  <1>1. r.q = vecs[d] /\ ~r.ok /\ Sound(vecs[d])
    BY VecSound DEF Refused, PQueueInv, VecInv
  <1>2. PQueueEnds(c, d, vecs[d], r.heap, r.ok, cmps[d])
    BY <1>1
  <1>3. Unmoved
    BY <1>1, <1>2, EndsBag, Staying
  <1>4. call'.op \in Refusable /\ ~call'.ok
    BY <1>1, <1>2, CallIs
  <1> QED
    BY <1>3, <1>4, DoesRefused

\* A call that leaves the elems, and may leave them in another block.
LEMMA RoomDoes ==
    ASSUME PQueueInv, NEW d \in Names, NEW q, Sound(q), BagOf(q) = BagOf(vecs[d]), NEW h, NEW ok, ok,
           PQueueEnds([op |-> "room"], d, q, h, ok, cmps[d])
    PROVE  Queues!Does(call')
  <1>1. Unmoved
    BY EndsBag, Staying
  <1>2. PICK c : c = [op |-> "room"]
    OBVIOUS
  <1>3. PQueueEnds(c, d, q, h, ok, cmps[d]) /\ "op" \in DOMAIN c /\ c.op = "room"
    BY <1>2
  <1>4. call'.op = "room" /\ call'.d = d /\ call'.ok
    BY <1>3, CallIs
  <1>5. Queues!Served(call', BagOf(vecs[d]), cmps[d])
    BY <1>1, <1>4 DEF Queues!Served, Unmoved, Bags, BagOf
  <1> QED
    BY <1>4, <1>5, DoesServed

\* The call keeps the invariant, and does to the bags what PQueueSpec says.
Works == PQueueInv' /\ Queues!Does(call')

LEMMA NoneBag ==
    ASSUME NEW q, q.len = 0
    PROVE  BagOf(q) = Queues!None
  <1>1. \A x : {i \in 0 .. q.len - 1 : q.slots[i] = x} = {}
    OBVIOUS
  <1> QED
    BY <1>1, FS_EmptySet DEF BagOf, Queues!None

-----------------------------------------------------------------------------
(* The calls on one queue.                                                  *)

LEMMA RefusedQueueEnds ==
    ASSUME VecAssumption, PQueueAssumption, PQueueInv, NEW d \in Names, NEW r, Refused(vecs[d], r),
           NEW c, PQueueEnds(c, d, r.q, r.heap, r.ok, cmps[d]), "op" \in DOMAIN c, c.op \in Refusable
    PROVE  Works
  <1>1. PQueueInv'
    BY SameQueueEnds DEF Refused
  <1> QED
    BY <1>1, RefusedDoes DEF Works

\* The same elems in a block with more room, or less.
LEMMA RoomEnds ==
    ASSUME VecAssumption, PQueueAssumption, PQueueInv, NEW d \in Names, Alive(d), NEW n, NEW r,
           Grown(vecs[d], r, n), Carries(vecs[d], r.q),
           PQueueEnds([op |-> "room"], d, r.q, r.heap, r.ok, cmps[d])
    PROVE  Works
  <1>1. VecInv /\ cmps[d] \in Orders /\ HeapVec(vecs[d], cmps[d]) /\ vecs[d].len \in Nat
    BY AliveQueue, AliveVec DEF PQueueInv
  <1>2. /\ OnBlock(r.q) /\ r.q.len <= r.q.cap /\ r.q.len \in Nat /\ r.q.cap \in Nat
        /\ \A i \in 0 .. r.q.len - 1 : r.q.slots[i] \in Elem
    BY <1>1, GrownFields
  <1>3. HeapVec(r.q, cmps[d])
    BY <1>1, <1>2, CarriesHolds, SameHeap DEF Sound
  <1>4. InPlace(r.q, r.q)
    BY <1>2 DEF InPlace, OnBlock
  <1>5. r.q.len \in 0 .. r.q.cap
    BY <1>2
  <1>6. PQueueInv'
    BY <1>1, <1>2, <1>3, <1>4, <1>5, GrownQueueEnds
  <1>7. Sound(r.q)
    BY <1>2 DEF Sound
  <1>8. BagOf(r.q) = BagOf(vecs[d])
    <2>1. PICK s : s = Contents(vecs[d])
      OBVIOUS
    <2>2. r.q.len = vecs[d].len /\ Holds(r.q, s) /\ Holds(vecs[d], s)
      BY <1>1, <1>7, <2>1, CarriesHolds, HoldsItself
    <2>3. BagOf(r.q) = Tally(s, r.q.len) /\ BagOf(vecs[d]) = Tally(s, vecs[d].len)
      BY <1>1, <1>2, <2>2, BagHeld
    <2> QED
      BY <2>2, <2>3
  <1>9. r.ok
    BY DEF Grown
  <1> QED
    BY <1>6, <1>7, <1>8, <1>9, RoomDoes DEF Works

LEMMA RefusedRoom ==
    ASSUME VecAssumption, PQueueAssumption, PQueueInv, NEW d \in Names, NEW r, Refused(vecs[d], r),
           PQueueEnds([op |-> "room"], d, r.q, r.heap, r.ok, cmps[d])
    PROVE  Works
  <1>1. PICK c : c = [op |-> "room"] /\ PQueueEnds(c, d, r.q, r.heap, r.ok, cmps[d])
    OBVIOUS
  <1>2. "op" \in DOMAIN c /\ c.op \in Refusable
    BY <1>1 DEF Refusable
  <1> QED
    BY <1>1, <1>2, RefusedQueueEnds

LEMMA PQueueReserveKeeps ==
    ASSUME VecAssumption, PQueueAssumption, PQueueInv, NEW d \in Names, Alive(d), NEW cap \in Sizes,
           tda_pqueue_reserve(d, cap)
    PROVE  Works
  <1>1. PICK r \in ReserveOutcomes(vecs[d], heap, cap) :
           PQueueEnds([op |-> "room"], d, r.q, r.heap, r.ok, cmps[d])
    BY DEF tda_pqueue_reserve
  <1>2. VecInv
    BY DEF PQueueInv
  <1>3. Refused(vecs[d], r) \/ Grown(vecs[d], r, cap)
    BY <1>2, ReserveOutcomesAre
  <1>4. Carries(vecs[d], r.q)
    BY <1>2, ReserveCarries
  <1>5. CASE Refused(vecs[d], r)
    BY <1>1, <1>5, RefusedRoom
  <1>6. CASE Grown(vecs[d], r, cap)
    BY <1>1, <1>4, <1>6, RoomEnds
  <1> QED
    BY <1>3, <1>5, <1>6

LEMMA PQueueShrinkKeeps ==
    ASSUME VecAssumption, PQueueAssumption, PQueueInv, NEW d \in Names, Alive(d), tda_pqueue_shrink_to_fit(d)
    PROVE  Works
  <1> DEFINE q == vecs[d]
  <1>1. PICK r \in ShrinkOutcomes(q, heap) : PQueueEnds([op |-> "room"], d, r.q, r.heap, r.ok, cmps[d])
    BY DEF tda_pqueue_shrink_to_fit
  <1>2. /\ VecInv /\ IsVec(q) /\ q.al \in Als /\ q.len \in Nat /\ q.cap \in Nat /\ q.len <= q.cap
        /\ q.cap \in Sizes
    BY AliveVec DEF PQueueInv
  <1>3. CASE q.len = q.cap
    <2>1. r.q = q /\ r.heap = heap /\ r.ok
      BY <1>3 DEF ShrinkOutcomes, Outcome
    <2>2. PQueueInv'
      BY <1>1, <2>1, SameQueueEnds
    <2>3. Sound(r.q) /\ BagOf(r.q) = BagOf(q)
      BY <1>2, <2>1, VecSound
    <2> QED
      BY <1>1, <2>1, <2>2, <2>3, RoomDoes DEF Works
  <1>4. CASE q.len # q.cap /\ q.len = 0
    <2>1. r.q = Empty(q.al) /\ r.heap = FreeBlock(q, heap) /\ r.ok
      BY <1>4 DEF ShrinkOutcomes, Outcome
    <2>2. Good(q, r)
      BY <1>2, <2>1, EmptiedIsGood
    <2>3. VecInv'
      BY <1>1, <1>2, <2>2, EndsKeeps DEF PQueueEnds
    <2>4. IsVec(r.q) /\ r.q.len = 0 /\ r.q.al # Null
      BY <1>2, <2>1, EmptyIsVec DEF VecAssumption
    <2>5. QueueOk(r.q, cmps[d])
      BY <2>4, AliveQueue, NoneHeap DEF QueueOk
    <2>6. PQueueInv'
      BY <1>1, <2>3, <2>4, <2>5, VecSound, QueueEnds
    <2>7. Sound(r.q) /\ BagOf(r.q) = BagOf(q)
      BY <1>4, <2>4, NoneBag, VecSound
    <2> QED
      BY <1>1, <2>1, <2>6, <2>7, RoomDoes DEF Works
  <1>5. CASE q.len # q.cap /\ q.len # 0
    <2>1. r \in SetCap(q, heap, q.len)
      BY <1>5 DEF ShrinkOutcomes
    <2>2. q.len \in Sizes /\ q.len > 0
      BY <1>2, <1>5 DEF Sizes, VecAssumption
    <2>3. Refused(q, r) \/ Grown(q, r, q.len)
      BY <1>2, <2>1, <2>2, SetCapOutcomes
    <2>4. Carries(q, r.q)
      BY <1>2, <2>1, VecSound, SetCapCarries
    <2>5. CASE Refused(q, r)
      BY <1>1, <2>5, RefusedRoom
    <2>6. CASE Grown(q, r, q.len)
      BY <1>1, <2>4, <2>6, RoomEnds
    <2> QED
      BY <2>3, <2>5, <2>6
  <1> QED
    BY <1>3, <1>4, <1>5

\* The queue put in order within the block it has.
LEMMA ArrangedIs ==
    ASSUME NEW q, Sound(q), NEW s \in Span(q.len), NEW o, o = Arranged(q, s)
    PROVE  InPlace(q, o) /\ o.len = q.len /\ Holds(o, s) /\ Sound(o)
  <1>1. PICK n : n = q.len
    OBVIOUS
  <1>2. OnBlock(q) /\ n \in Nat /\ q.cap \in Nat /\ n <= q.cap /\ s \in [1 .. n -> Elem]
    BY <1>1 DEF Sound, OnBlock, Span
  <1>3. /\ InPlace(q, o) /\ o.len = n
        /\ \A i \in 0 .. q.cap - 1 : o.slots[i] = IF i \in 0 .. 0 + n - 1 THEN s[i - 0 + 1] ELSE q.slots[i]
    BY <1>1, <1>2, FilledSlots DEF Arranged
  <1>4. ASSUME NEW i \in 0 .. n - 1 PROVE o.slots[i] = s[i + 1] /\ o.slots[i] \in Elem
    <2>1. i \in 0 .. q.cap - 1 /\ i \in 0 .. 0 + n - 1 /\ i - 0 + 1 = i + 1 /\ i + 1 \in 1 .. n
      BY <1>2
    <2>2. o.slots[i] = s[i - 0 + 1]
      BY <1>3, <2>1
    <2> QED
      BY <1>2, <2>1, <2>2
  <1>5. OnBlock(o) /\ o.cap = q.cap
    BY <1>2, <1>3, InPlaceOnBlock DEF InPlace
  <1> QED
    BY <1>1, <1>2, <1>3, <1>4, <1>5 DEF Holds, Sound

\* A call that stays within the block.
LEMMA InPlaceQueueEnds ==
    ASSUME VecAssumption, PQueueAssumption, PQueueInv, NEW d \in Names, Alive(d), NEW p,
           InPlace(vecs[d], p), p.len \in 0 .. vecs[d].cap, \A i \in 0 .. p.len - 1 : p.slots[i] \in Elem,
           HeapVec(p, cmps[d]), NEW c, PQueueEnds(c, d, p, heap, TRUE, cmps[d])
    PROVE  PQueueInv'
  <1>1. VecInv /\ EndsOk(c, d, p)
    BY DEF PQueueInv, PQueueEnds, EndsOk
  <1>2. VecInv'
    BY <1>1, EndsOkKeeps
  <1>3. OnBlock(vecs[d]) /\ vecs[d].al # Null /\ vecs[d].cap \in Nat
    BY <1>1, AliveVec DEF VecAssumption
  <1>4. Sound(p) /\ p.al # Null
    BY <1>3, InPlaceOnBlock DEF Sound, InPlace
  <1>5. QueueOk(p, cmps[d])
    BY <1>4, AliveQueue DEF QueueOk
  <1> QED
    BY <1>2, <1>4, <1>5, QueueEnds

LEMMA PQueueClearKeeps ==
    ASSUME VecAssumption, PQueueAssumption, PQueueInv, NEW d \in Names, Alive(d), tda_pqueue_clear(d)
    PROVE  Works
  <1>1. PICK c, p : c = [op |-> "clear"] /\ p = WithLen(vecs[d], 0) /\ EndsOk(c, d, p)
    BY DEF tda_pqueue_clear, tda_vec_clear, WithLen
  <1>2. cmps' = [cmps EXCEPT ![d] = cmps[d]]
    BY DEF tda_pqueue_clear, PQueueInv
  <1>3. OnBlock(vecs[d]) /\ vecs[d].cap \in Nat
    BY AliveVec DEF PQueueInv
  <1>4. InPlace(vecs[d], p) /\ p.len = 0
    BY <1>1, <1>3, LenChanges
  <1>5. p.len \in 0 .. vecs[d].cap /\ \A i \in 0 .. p.len - 1 : p.slots[i] \in Elem
    BY <1>3, <1>4
  <1>6. PQueueEnds(c, d, p, heap, TRUE, cmps[d])
    BY <1>1, <1>2 DEF PQueueEnds, EndsOk
  <1>7. PQueueInv'
    BY <1>4, <1>5, <1>6, NoneHeap, InPlaceQueueEnds
  <1>8. Sound(p)
    BY <1>3, <1>4, <1>5, InPlaceOnBlock DEF Sound, InPlace
  <1>9. Queues!Becomes(d, Queues!None, cmps[d])
    BY <1>4, <1>6, <1>7, <1>8, NoneBag, EndsBecomes
  <1>10. "op" \in DOMAIN c /\ c.op = "clear"
    BY <1>1
  <1>11. call'.op = "clear" /\ call'.d = d /\ call'.ok
    BY <1>6, <1>10, CallIs
  <1>12. Queues!Served(call', BagOf(vecs[d]), cmps[d])
    BY <1>9, <1>11 DEF Queues!Served
  <1> QED
    BY <1>7, <1>11, <1>12, DoesServed DEF Works

\* The greatest is at the end of the block, past the length.
LEMMA PQueuePopKeeps ==
    ASSUME VecAssumption, PQueueAssumption, PQueueInv, NEW d \in Names, Alive(d), tda_pqueue_pop(d)
    PROVE  Works
  <1>1. PICK q, cmp, m, s : /\ q = vecs[d] /\ cmp = cmps[d] /\ m = q.len /\ s = H!PopHeap(Contents(q), m, cmp)
    OBVIOUS
  <1>2. PICK c, o, p : /\ c = [op |-> "pop", out |-> s[m]] /\ o = Arranged(q, s) /\ p = WithLen(o, o.len - 1)
                       /\ PQueueEnds(c, d, p, heap, TRUE, cmp)
    BY <1>1 DEF tda_pqueue_pop, WithLen
  <1>3. m > 0
    BY <1>1 DEF tda_pqueue_pop
  <1>4. Sound(q) /\ cmp \in Orders /\ HeapVec(q, cmp) /\ q.cap \in Nat
    BY <1>1, AliveQueue, AliveVec DEF PQueueInv, Sound
  <1>5. m \in Nat /\ m \in 1 .. m /\ Contents(q) \in Span(m)
    BY <1>1, <1>3, <1>4, SoundSpan
  <1>6. Popped(Contents(q), s, m, m, cmp)
    BY <1>1, <1>4, <1>5, PopHeapPops DEF HeapVec
  <1>7. InPlace(q, o) /\ o.len = m /\ Holds(o, s) /\ Sound(o)
    BY <1>1, <1>2, <1>4, <1>6, ArrangedIs DEF Popped
  <1>8. InPlace(o, p) /\ p.len = m - 1 /\ p.slots = o.slots
    BY <1>2, <1>7, LenChanges DEF Sound
  <1>9. InPlace(q, p)
    BY <1>7, <1>8, InPlaceTrans
  <1>10. m <= q.cap
    BY <1>1, <1>4 DEF Sound
  <1>11. p.len \in 0 .. q.cap /\ p.len \in Nat
    BY <1>3, <1>4, <1>5, <1>8, <1>10
  <1>12. \A i \in 0 .. p.len - 1 : i \in 0 .. o.len - 1
    BY <1>5, <1>7, <1>8
  <1>13. (\A i \in 0 .. p.len - 1 : p.slots[i] \in Elem) /\ Holds(p, s)
    BY <1>7, <1>8, <1>12 DEF Sound, Holds
  <1>14. HeapVec(p, cmp)
    BY <1>6, <1>8, <1>11, <1>13, HeldHeap DEF Popped
  <1>15. PQueueInv'
    BY <1>1, <1>2, <1>9, <1>11, <1>13, <1>14, InPlaceQueueEnds
  <1>16. PICK x, n, t : x = s[m] /\ n = m - 1 /\ n + 1 = m /\ n \in Nat /\ t = Contents(q)
    BY <1>3, <1>5
  <1>17. x = t[1] /\ x \in Elem /\ Rearranged(t, s, m, m)
    BY <1>5, <1>6, <1>16 DEF Popped, Span
  <1>18. BagOf(q) = Tally(t, m)
    BY <1>1, <1>4, <1>16, TidyBag
  <1>19. Top(BagOf(q), cmp, x)
    <2>1. Heaped(KeysOf(t, m, cmp), 0, m)
      BY <1>1, <1>4, <1>16 DEF HeapVec
    <2> QED
      BY <1>3, <1>4, <1>5, <1>16, <1>17, <1>18, <2>1, RootIsTop
  <1>20. BagOf(p) = [BagOf(q) EXCEPT ![x] = @ - 1]
    <2>1. BagOf(p) = Tally(s, n)
      <3>1. p.len = n /\ p.len \in Nat /\ Holds(p, s)
        BY <1>8, <1>11, <1>13, <1>16
      <3>2. BagOf(p) = Tally(s, p.len)
        BY <3>1, BagHeld
      <3> QED
        BY <3>1, <3>2
    <2>2. Tally(s, n) = [Tally(s, n + 1) EXCEPT ![x] = @ - 1]
      <3>1. x = s[n + 1]
        BY <1>16
      <3> QED
        BY <1>16, <1>17, <3>1, TallyPopped
    <2>3. Tally(s, m) = Tally(t, m)
      BY <1>5, <1>17, TallyRearranged
    <2> QED
      BY <1>16, <1>18, <2>1, <2>2, <2>3
  <1>21. Sound(p)
    BY <1>4, <1>9, <1>11, <1>13, InPlaceOnBlock DEF Sound, InPlace
  <1>22. Queues!Becomes(d, [BagOf(q) EXCEPT ![x] = @ - 1], cmp)
    BY <1>2, <1>15, <1>20, <1>21, EndsBecomes
  <1>23. "op" \in DOMAIN c /\ c.op = "pop" /\ "out" \in DOMAIN c \ {"d", "ok"} /\ c.out = x
    BY <1>2, <1>16
  <1>24. call'.op = "pop" /\ call'.d = d /\ call'.ok /\ call'.out = x
    BY <1>2, <1>23, CallIs
  <1>25. Queues!Greatest(x, d)
    BY <1>1, <1>19 DEF Queues!Greatest, Top, BagOf
  <1>26. Queues!Served(call', BagOf(vecs[d]), cmps[d])
    BY <1>1, <1>22, <1>24, <1>25 DEF Queues!Served
  <1> QED
    BY <1>15, <1>24, <1>26, DoesServed DEF Works

\* q with one of its elems, or another, at the root
Rooted(q, v) == IF v.alias THEN Moved(q, 0, v.at, 1) ELSE Filled(q, 0, <<v.at>>)

LEMMA RootedIs ==
    ASSUME NEW q, Sound(q), q.len > 0, NEW v \in Vals(q), NEW p, p = Rooted(q, v)
    PROVE  /\ InPlace(q, p) /\ p.len = q.len /\ Sound(p)
           /\ \A i \in 1 .. q.len - 1 : p.slots[i] = q.slots[i]
           /\ p.slots[0] = ValOf(q, v)
  <1>1. OnBlock(q) /\ q.len \in Nat /\ q.cap \in Nat /\ q.len <= q.cap /\ \A i \in 0 .. q.len - 1 : q.slots[i] \in Elem
    BY DEF Sound, OnBlock
  <1>2. /\ InPlace(q, p) /\ p.len = q.len /\ p.slots[0] = ValOf(q, v) /\ p.slots[0] \in Elem
        /\ \A i \in 1 .. q.len - 1 : p.slots[i] = q.slots[i]
    <2>1. CASE v.alias
      <3>1. v.at \in 0 .. q.len - 1 /\ v.at \in Nat /\ v.at + 1 <= q.cap
        BY <1>1, <2>1, ValsAre
      <3>2. /\ InPlace(q, p) /\ p.len = q.len
            /\ \A s \in 0 .. q.cap - 1 :
                  p.slots[s] = IF s \in 0 .. 0 + 1 - 1 THEN q.slots[v.at + (s - 0)] ELSE q.slots[s]
        BY <1>1, <2>1, <3>1, MovedSlots DEF Rooted
      <3>3. p.slots[0] = q.slots[v.at]
        <4>1. 0 \in 0 .. q.cap - 1 /\ 0 \in 0 .. 0 + 1 - 1 /\ v.at + (0 - 0) = v.at
          BY <1>1, <3>1
        <4> QED
          BY <3>2, <4>1
      <3>4. ASSUME NEW i \in 1 .. q.len - 1 PROVE p.slots[i] = q.slots[i]
        <4>1. i \in 0 .. q.cap - 1 /\ i \notin 0 .. 0 + 1 - 1
          BY <1>1
        <4> QED
          BY <3>2, <4>1
      <3> QED
        BY <1>1, <2>1, <3>1, <3>2, <3>3, <3>4 DEF ValOf
    <2>2. CASE ~v.alias
      <3>1. /\ InPlace(q, p) /\ p.len = q.len
            /\ \A s \in 0 .. q.cap - 1 : p.slots[s] = IF s = 0 THEN v.at ELSE q.slots[s]
        BY <1>1, <2>2, ValsAre, FilledOne DEF Rooted
      <3>2. 0 \in 0 .. q.cap - 1 /\ \A i \in 1 .. q.len - 1 : i \in 0 .. q.cap - 1 /\ i # 0
        BY <1>1
      <3> QED
        BY <2>2, <3>1, <3>2, ValsAre DEF ValOf
    <2> QED
      BY <2>1, <2>2
  <1>3. OnBlock(p) /\ p.cap = q.cap
    BY <1>1, <1>2, InPlaceOnBlock DEF InPlace
  <1>4. ASSUME NEW i \in 0 .. p.len - 1 PROVE p.slots[i] \in Elem
    <2>1. i = 0 \/ i \in 1 .. q.len - 1
      BY <1>1, <1>2
    <2>2. i \in 1 .. q.len - 1 => i \in 0 .. q.len - 1
      BY <1>1
    <2> QED
      BY <1>1, <1>2, <2>1, <2>2
  <1> QED
    BY <1>1, <1>2, <1>3, <1>4 DEF Sound

LEMMA PQueueReplaceTopKeeps ==
    ASSUME VecAssumption, PQueueAssumption, PQueueInv, NEW d \in Names, Alive(d), NEW v \in Vals(vecs[d]),
           tda_pqueue_replace_top(d, v)
    PROVE  Works
  <1>1. PICK q, cmp, m, p, s : /\ q = vecs[d] /\ cmp = cmps[d] /\ m = q.len /\ p = Rooted(q, v)
                               /\ s = H!SiftDown(Contents(p), 0, p.len, cmp)
    OBVIOUS
  <1>2. PICK c, o : /\ c = [op |-> "replace_top", val |-> ValOf(q, v), out |-> q.slots[0]] /\ o = Arranged(p, s)
                    /\ PQueueEnds(c, d, o, heap, TRUE, cmp)
    BY <1>1 DEF tda_pqueue_replace_top, Rooted
  <1>3. m > 0
    BY <1>1 DEF tda_pqueue_replace_top
  <1>4. Sound(q) /\ cmp \in Orders /\ HeapVec(q, cmp) /\ q.cap \in Nat /\ v \in Vals(q)
    BY <1>1, AliveQueue, AliveVec DEF PQueueInv, Sound
  <1>5. m \in Nat /\ Contents(q) \in Span(m) /\ Holds(q, Contents(q))
    BY <1>1, <1>4, SoundSpan
  <1>6. /\ InPlace(q, p) /\ p.len = m /\ Sound(p) /\ \A i \in 1 .. m - 1 : p.slots[i] = q.slots[i]
        /\ p.slots[0] = ValOf(q, v)
    BY <1>1, <1>3, <1>4, RootedIs
  <1>7. Contents(p) \in Span(m) /\ Holds(p, Contents(p))
    BY <1>6, SoundSpan
  <1>8. ASSUME NEW i \in 2 .. m PROVE Contents(p)[i] = Contents(q)[i]
    <2>1. i - 1 \in 1 .. m - 1 /\ i \in 1 .. m
      BY <1>5
    <2> QED
      BY <1>1, <1>6, <2>1 DEF Contents
  <1>9. Sifted(Contents(p), s, m, 0, m, cmp)
    BY <1>1, <1>4, <1>5, <1>6, <1>7, <1>8, NewRootSinks DEF HeapVec
  <1>10. InPlace(p, o) /\ o.len = m /\ Holds(o, s) /\ Sound(o)
    BY <1>2, <1>6, <1>9, ArrangedIs DEF Sifted
  <1>11. InPlace(q, o) /\ m <= q.cap
    BY <1>1, <1>4, <1>6, <1>10, InPlaceTrans DEF Sound
  <1>12. HeapVec(o, cmp)
    BY <1>5, <1>9, <1>10, HeldHeap DEF Sifted
  <1>13. o.len \in 0 .. q.cap /\ \A i \in 0 .. o.len - 1 : o.slots[i] \in Elem
    BY <1>4, <1>5, <1>10, <1>11 DEF Sound
  <1>14. PQueueInv'
    BY <1>1, <1>2, <1>11, <1>12, <1>13, InPlaceQueueEnds
  <1>15. PICK x, y, t, u : x = q.slots[0] /\ y = ValOf(q, v) /\ t = Contents(q) /\ u = Contents(p)
    OBVIOUS
  <1>16. x = t[1] /\ y = u[1] /\ x \in Elem /\ y \in Elem
    <2>1. 0 \in 0 .. m - 1 /\ 0 + 1 = 1 /\ 1 \in 1 .. m
      BY <1>3, <1>5
    <2> QED
      BY <1>1, <1>5, <1>6, <1>7, <1>15, <2>1 DEF Holds, Span
  <1>17. BagOf(q) = Tally(t, m)
    BY <1>1, <1>4, <1>15, TidyBag
  <1>18. Top(BagOf(q), cmp, x)
    <2>1. Heaped(KeysOf(t, m, cmp), 0, m)
      BY <1>1, <1>4, <1>15 DEF HeapVec
    <2> QED
      BY <1>3, <1>4, <1>5, <1>15, <1>16, <1>17, <2>1, RootIsTop
  <1>19. BagOf(o) = [[BagOf(q) EXCEPT ![x] = @ - 1] EXCEPT ![y] = @ + 1]
    <2>1. BagOf(o) = Tally(s, m)
      BY <1>5, <1>10, BagHeld
    <2>2. Tally(s, m) = Tally(u, m)
      BY <1>5, <1>9, <1>15, TallyRearranged DEF Sifted
    <2>3. Tally(u, m) = [[Tally(t, m) EXCEPT ![t[1]] = @ - 1] EXCEPT ![u[1]] = @ + 1]
      BY <1>3, <1>5, <1>8, <1>15, <1>16, TallyRerooted
    <2> QED
      BY <1>16, <1>17, <2>1, <2>2, <2>3
  <1>20. Queues!Becomes(d, [[BagOf(q) EXCEPT ![x] = @ - 1] EXCEPT ![y] = @ + 1], cmp)
    BY <1>2, <1>10, <1>14, <1>19, EndsBecomes
  <1>21. /\ "op" \in DOMAIN c /\ c.op = "replace_top" /\ "out" \in DOMAIN c \ {"d", "ok"} /\ c.out = x
         /\ "val" \in DOMAIN c \ {"d", "ok"} /\ c.val = y
    BY <1>2, <1>15
  <1>22. call'.op = "replace_top" /\ call'.d = d /\ call'.ok /\ call'.out = x /\ call'.val = y
    BY <1>2, <1>21, CallIs
  <1>23. Queues!Greatest(x, d)
    BY <1>1, <1>18 DEF Queues!Greatest, Top, BagOf
  <1>24. Queues!Served(call', BagOf(vecs[d]), cmps[d])
    BY <1>1, <1>20, <1>22, <1>23 DEF Queues!Served
  <1> QED
    BY <1>14, <1>22, <1>24, DoesServed DEF Works

-----------------------------------------------------------------------------
(* The calls that take elems in.                                            *)

\* the vec p, on the block of q or a fresh one, that leaves the heap h
Based(q, p, h) == IsVec(p) /\ p.al \in Als /\ FromBlock(q, p) /\ h = HeapWith(q, p)

\* A call that left o in the block of such a vec.
LEMMA BasedEnds ==
    ASSUME VecAssumption, PQueueInv, NEW d \in Names, NEW p, NEW h, Based(vecs[d], p, h),
           NEW o, InPlace(p, o), Sound(o), NEW cmp \in Orders, HeapVec(o, cmp),
           NEW c, NEW ok, PQueueEnds(c, d, o, h, ok, cmp)
    PROVE  PQueueInv'
  <1> DEFINE t == [q |-> o, heap |-> h]
  <1>1. t.q = o /\ t.heap = h
    OBVIOUS
  <1> HIDE DEF t
  <1>2. /\ VecInv /\ Ends(c, d, t.q, t.heap, ok)
    BY <1>1 DEF PQueueInv, PQueueEnds
  <1>3. InPlace(p, t.q) /\ t.heap = HeapWith(vecs[d], p) /\ IsVec(p) /\ p.al \in Als /\ FromBlock(vecs[d], p)
    BY <1>1 DEF Based
  <1>4. t.q.len \in 0 .. p.cap /\ \A i \in 0 .. t.q.len - 1 : t.q.slots[i] \in Elem
    BY <1>1 DEF Sound, OnBlock, InPlace
  <1>5. Good(vecs[d], t)
    BY <1>2, <1>3, <1>4, InPlaceIsGood
  <1>6. VecInv'
    BY <1>2, <1>5, EndsKeeps
  <1>7. o.al # Null
    BY DEF InPlace, Based, VecAssumption
  <1> QED
    BY <1>6, <1>7, QueueEnds DEF QueueOk

\* r is the vec q with the elems of src after its own
Extended(q, r, src) ==
    /\ r.ok /\ IsOutcome(r) /\ Sound(r.q) /\ r.q.len = q.len + Len(src)
    /\ \E p : Based(q, p, r.heap) /\ InPlace(p, r.q)
    /\ \A i \in 0 .. q.len - 1 : r.q.slots[i] = q.slots[i]
    /\ \A i \in 1 .. Len(src) : r.q.slots[q.len + i - 1] = src[i]

\* The old elems are the heap they were.
LEMMA ExtendedStarts ==
    ASSUME NEW q, q.len \in Nat, NEW r, NEW src, Len(src) \in Nat, Extended(q, r, src), NEW cmp, HeapVec(q, cmp)
    PROVE  Heaped(KeysOf(Contents(r.q), q.len, cmp), 0, q.len)
  <1>1. ASSUME NEW i \in 0 .. q.len - 1
        PROVE  KeysOf(Contents(r.q), q.len, cmp)[i] = KeysOf(Contents(q), q.len, cmp)[i]
    <2>1. i + 1 \in 1 .. q.len /\ i + 1 \in 1 .. r.q.len /\ (i + 1) - 1 = i
      BY DEF Extended
    <2>2. Contents(r.q)[i + 1] = r.q.slots[i] /\ Contents(q)[i + 1] = q.slots[i]
      BY <2>1 DEF Contents
    <2>3. Contents(r.q)[i + 1] = Contents(q)[i + 1]
      BY <2>2 DEF Extended
    <2> QED
      BY <2>3 DEF KeysOf
  <1> QED
    BY <1>1, HeapedPrefix DEF HeapVec

\* The new elems come after the old ones.
LEMMA ExtendedElems ==
    ASSUME NEW q, q.len \in Nat, NEW r, NEW src, NEW k \in Nat, Len(src) = k, Extended(q, r, src),
           NEW u, u = Contents(r.q), NEW t, t = Contents(q), NEW n, n = q.len
    PROVE  /\ \A i \in 1 .. n : u[i] = t[i]
           /\ \A i \in 1 .. k : u[n + i] = src[i]
  <1>1. r.q.len = n + k
    BY DEF Extended
  <1>2. ASSUME NEW i \in 1 .. n PROVE u[i] = t[i]
    <2>1. i - 1 \in 0 .. n - 1 /\ i \in 1 .. n + k
      OBVIOUS
    <2>2. u[i] = r.q.slots[i - 1] /\ t[i] = q.slots[i - 1]
      BY <1>1, <2>1 DEF Contents
    <2> QED
      BY <2>1, <2>2 DEF Extended
  <1>3. ASSUME NEW i \in 1 .. k PROVE u[n + i] = src[i]
    <2>1. n + i \in 1 .. n + k
      OBVIOUS
    <2>2. u[n + i] = r.q.slots[n + i - 1]
      BY <1>1, <2>1 DEF Contents
    <2> QED
      BY <2>2 DEF Extended
  <1> QED
    BY <1>2, <1>3

\* The elems, the new ones among them, put in order.
LEMMA ExtendedEnds ==
    ASSUME VecAssumption, PQueueAssumption, PQueueInv, NEW d \in Names, Alive(d), NEW r, NEW src,
           Extended(vecs[d], r, src), NEW s,
           Sifted(Contents(r.q), s, r.q.len, 0, r.q.len, cmps[d]),
           NEW c, NEW ok, PQueueEnds(c, d, Arranged(r.q, s), r.heap, ok, cmps[d])
    PROVE  PQueueInv' /\ Queues!Becomes(d, Tally(Contents(r.q), r.q.len), cmps[d])
  <1>1. PICK q, o : q = r.q /\ o = Arranged(q, s)
    OBVIOUS
  <1>2. Sound(q) /\ q.len \in Nat /\ s \in Span(q.len)
    BY <1>1 DEF Extended, Sound, OnBlock, Sifted
  <1>3. InPlace(q, o) /\ o.len = q.len /\ Holds(o, s) /\ Sound(o)
    BY <1>1, <1>2, ArrangedIs
  <1>4. HeapVec(o, cmps[d])
    BY <1>1, <1>2, <1>3, HeldHeap DEF Sifted
  <1>5. PICK p : Based(vecs[d], p, r.heap) /\ InPlace(p, q)
    BY <1>1 DEF Extended
  <1>6. InPlace(p, o)
    BY <1>3, <1>5, InPlaceTrans
  <1>7. PQueueInv'
    BY <1>1, <1>3, <1>4, <1>5, <1>6, AliveQueue, BasedEnds
  <1>8. BagOf(o) = Tally(Contents(q), q.len)
    <2>1. BagOf(o) = Tally(s, q.len)
      BY <1>2, <1>3, BagHeld
    <2>2. Rearranged(Contents(q), s, q.len, q.len)
      BY <1>1 DEF Sifted
    <2> QED
      BY <1>2, <2>1, <2>2, TallyRearranged
  <1> QED
    BY <1>1, <1>3, <1>7, <1>8, EndsBecomes

\* The value goes into the first free slot.
LEMMA PutIs ==
    ASSUME NEW p, Sound(p), p.len < p.cap, NEW v, v.alias => v.at \in 0 .. p.len - 1,
           ~v.alias => v.at \in Elem, NEW m, m = Put(p, v), NEW o, o = WithLen(m, m.len + 1)
    PROVE  /\ InPlace(p, o) /\ o.len = p.len + 1 /\ Sound(o)
           /\ \A i \in 0 .. p.len - 1 : o.slots[i] = p.slots[i]
           /\ o.slots[p.len] = ValOf(p, v)
  <1>1. OnBlock(p) /\ p.len \in Nat /\ p.cap \in Nat /\ \A i \in 0 .. p.len - 1 : p.slots[i] \in Elem
    BY DEF Sound, OnBlock
  <1>2. /\ InPlace(p, o) /\ o.len = p.len + 1 /\ o.len \in 0 .. p.cap
        /\ \A i \in 0 .. o.len - 1 : o.slots[i] \in Elem
    BY <1>1, PutLast
  <1>3. Sound(o)
    BY <1>1, <1>2, InPlaceOnBlock DEF Sound, InPlace
  <1>4. /\ InPlace(p, m)
        /\ \A s \in 0 .. p.cap - 1 : m.slots[s] = IF s = p.len THEN ValOf(p, v) ELSE p.slots[s]
    <2>1. CASE v.alias
      <3>1. p.len \in 0 .. p.cap - 1 /\ v.at \in 0 .. p.cap - 1 /\ p.len # v.at
        BY <1>1, <2>1
      <3> QED
        BY <1>1, <2>1, <3>1, CopiedSlots DEF Put, ValOf
    <2>2. CASE ~v.alias
      BY <1>1, <2>2, FilledOne DEF Put, ValOf
    <2> QED
      BY <2>1, <2>2
  <1>5. o.slots = m.slots
    BY <1>4 DEF WithLen, InPlace, Shaped
  <1>6. p.len \in 0 .. p.cap - 1 /\ \A i \in 0 .. p.len - 1 : i \in 0 .. p.cap - 1 /\ i # p.len
    BY <1>1
  <1> QED
    BY <1>2, <1>3, <1>4, <1>5, <1>6

\* What push leaves before the new elem goes up: refused, or the value after the others.
LEMMA PushOutcomesAre ==
    ASSUME VecAssumption, VecInv, NEW d \in Names, Alive(d), NEW v \in Vals(vecs[d]),
           NEW s \in PushOutcomes(vecs[d], heap, v)
    PROVE  Refused(vecs[d], s) \/ Extended(vecs[d], s, <<ValOf(vecs[d], v)>>)
  <1> DEFINE full(p) == WithLen(Put(p, v), Put(p, v).len + 1)
  <1>0. PICK q : q = vecs[d]
    OBVIOUS
  <1>1. PICK r \in ReserveOne(q, heap) : s = IF r.ok THEN [r EXCEPT !.q = full(r.q)] ELSE r
    BY <1>0 DEF PushOutcomes, Put, WithLen
  <1>2. (Refused(q, r) \/ Grown(q, r, q.len + 1)) /\ Carries(q, r.q)
    BY <1>0, ReserveOneOutcomes, ReserveOneCarries
  <1>3. CASE Refused(q, r)
    BY <1>0, <1>1, <1>3 DEF Refused
  <1>4. CASE Grown(q, r, q.len + 1)
    <2>1. /\ OnBlock(r.q) /\ r.ok /\ IsOutcome(r) /\ r.q.cap \in Nat /\ r.q.cap >= q.len + 1
          /\ r.q.len = q.len /\ r.q.len \in Nat /\ \A i \in 0 .. r.q.len - 1 : r.q.slots[i] \in Elem
      BY <1>0, <1>4, GrownFields
    <2>2. PICK b, m, o : b = r.q /\ m = Put(b, v) /\ o = WithLen(m, m.len + 1) /\ o = full(b)
      OBVIOUS
    <2> HIDE DEF full
    <2>3. s = [r EXCEPT !.q = o]
      BY <1>1, <2>1, <2>2
    <2>4. s.q = o /\ s.heap = r.heap /\ s.ok
      BY <2>1, <2>3, OutcomeWith
    <2>5. IsOutcome(s)
      BY <2>1, <2>3 DEF IsOutcome, Outcome
    <2>6. Sound(b) /\ b.len < b.cap /\ (v.alias => v.at \in 0 .. b.len - 1) /\ (~v.alias => v.at \in Elem)
      BY <1>0, <2>1, <2>2, ValsAre DEF Sound
    <2>7. /\ InPlace(b, o) /\ o.len = b.len + 1 /\ Sound(o)
          /\ \A i \in 0 .. b.len - 1 : o.slots[i] = b.slots[i]
          /\ o.slots[b.len] = ValOf(b, v)
      BY <2>2, <2>6, PutIs
    <2>8. \A i \in 0 .. q.len - 1 : b.slots[i] = q.slots[i]
      BY <1>2, <2>1, <2>2 DEF Carries
    <2>9. ValOf(b, v) = ValOf(q, v)
      BY <2>1, <2>2, <2>6, <2>8 DEF ValOf
    <2>10. PICK src : src = <<ValOf(q, v)>>
      OBVIOUS
    <2>11. Len(src) = 1 /\ src[1] = ValOf(q, v) /\ \A i \in 1 .. Len(src) : i = 1
      BY <2>10
    <2>12. \A i \in 1 .. Len(src) : o.slots[q.len + i - 1] = src[i]
      <3>1. q.len + 1 - 1 = b.len
        BY <2>1, <2>2
      <3> QED
        BY <2>7, <2>9, <2>11, <3>1
    <2>13. Based(q, b, r.heap)
      <3>1. IsVec(b) /\ FromBlock(q, b) /\ r.heap = HeapWith(q, b) /\ b.al = q.al
        BY <1>4, <2>2 DEF Grown, Good
      <3>2. q.al \in Als
        BY <1>0, AliveVec
      <3> QED
        BY <3>1, <3>2 DEF Based
    <2>14. Extended(q, s, src)
      <3>1. o.len = q.len + Len(src)
        BY <2>1, <2>2, <2>7, <2>11
      <3>2. \A i \in 0 .. q.len - 1 : o.slots[i] = q.slots[i]
        BY <2>1, <2>2, <2>7, <2>8
      <3> QED
        BY <2>4, <2>5, <2>7, <2>12, <2>13, <3>1, <3>2 DEF Extended
    <2> QED
      BY <1>0, <2>10, <2>14
  <1> QED
    BY <1>2, <1>3, <1>4

LEMMA PQueuePushKeeps ==
    ASSUME VecAssumption, PQueueAssumption, PQueueInv, NEW d \in Names, Alive(d), NEW v \in Vals(vecs[d]),
           tda_pqueue_push(d, v)
    PROVE  Works
  <1>1. PICK r, c :
           /\ c = [op |-> "push", val |-> ValOf(vecs[d], v)]
           /\ r \in PushOutcomes(vecs[d], heap, v)
           /\ PQueueEnds(c, d, IF r.ok THEN Arranged(r.q, H!PushHeap(Contents(r.q), r.q.len, cmps[d])) ELSE r.q,
                         r.heap, r.ok, cmps[d])
    BY DEF tda_pqueue_push
  <1>2. VecInv /\ cmps[d] \in Orders /\ HeapVec(vecs[d], cmps[d]) /\ vecs[d].len \in Nat
    BY AliveQueue, AliveVec DEF PQueueInv
  <1>3. PICK src : src = <<ValOf(vecs[d], v)>>
    OBVIOUS
  <1>4. Refused(vecs[d], r) \/ Extended(vecs[d], r, src)
    BY <1>1, <1>2, <1>3, PushOutcomesAre
  <1>5. CASE Refused(vecs[d], r)
    <2>1. PQueueEnds(c, d, r.q, r.heap, r.ok, cmps[d])
      BY <1>1, <1>5 DEF Refused
    <2>2. "op" \in DOMAIN c /\ c.op \in Refusable
      BY <1>1 DEF Refusable
    <2> QED
      BY <1>5, <2>1, <2>2, RefusedQueueEnds
  <1>6. CASE Extended(vecs[d], r, src)
    <2>1. PICK q, s, cmp : q = r.q /\ cmp = cmps[d] /\ s = H!PushHeap(Contents(q), q.len, cmp)
      OBVIOUS
    <2>2. PQueueEnds(c, d, Arranged(q, s), r.heap, r.ok, cmp)
      BY <1>1, <1>6, <2>1 DEF Extended
    <2>3. Len(src) = 1 /\ Len(src) \in Nat
      BY <1>3
    <2>4. Sound(q) /\ q.len = vecs[d].len + 1
      BY <1>6, <2>1, <2>3 DEF Extended
    <2>5. Contents(q) \in Span(q.len) /\ q.len \in 1 .. q.len /\ q.len \in Nat /\ q.len - 1 = vecs[d].len
      BY <1>2, <2>4, SoundSpan
    <2>6. Heaped(KeysOf(Contents(q), q.len - 1, cmp), 0, q.len - 1)
      BY <1>2, <1>6, <2>1, <2>3, <2>5, ExtendedStarts
    <2>7. Sifted(Contents(q), s, q.len, 0, q.len, cmp)
      BY <1>2, <2>1, <2>5, <2>6, PushHeapHeaps
    <2>8. PQueueInv' /\ Queues!Becomes(d, Tally(Contents(q), q.len), cmp)
      BY <1>6, <2>1, <2>2, <2>7, ExtendedEnds
    <2>9. PICK x, t, u, n : x = ValOf(vecs[d], v) /\ t = Contents(vecs[d]) /\ u = Contents(q) /\ n = vecs[d].len
      OBVIOUS
    <2>10. BagOf(vecs[d]) = Tally(t, n)
      BY <2>9, VecSound, TidyBag DEF PQueueInv, VecInv
    <2>11. u[n + 1] = x /\ \A i \in 1 .. n : u[i] = t[i]
      <3>1. PICK k \in Nat : k = Len(src)
        BY <2>3
      <3>2. n = vecs[d].len /\ n \in Nat /\ u = Contents(r.q) /\ t = Contents(vecs[d])
        BY <1>2, <2>1, <2>9
      <3>3. (\A i \in 1 .. n : u[i] = t[i]) /\ \A i \in 1 .. k : u[n + i] = src[i]
        BY <1>2, <1>6, <3>1, <3>2, ExtendedElems
      <3>4. src[1] = x /\ 1 \in 1 .. k
        BY <1>3, <2>3, <2>9, <3>1
      <3> QED
        BY <3>3, <3>4
    <2>12. x \in Elem
      <3>1. n + 1 \in 1 .. q.len
        BY <1>2, <2>4, <2>9
      <3> QED
        BY <2>5, <2>9, <2>11, <3>1 DEF Span
    <2>13. Tally(u, q.len) = [BagOf(vecs[d]) EXCEPT ![x] = @ + 1]
      <3>1. Tally(u, n + 1) = [Tally(u, n) EXCEPT ![x] = @ + 1]
        BY <1>2, <2>9, <2>11, <2>12, TallyPushed
      <3>2. Tally(u, n) = Tally(t, n)
        BY <1>2, <2>9, <2>11, TallySame
      <3> QED
        BY <2>4, <2>9, <2>10, <3>1, <3>2
    <2>14. "op" \in DOMAIN c /\ c.op = "push" /\ "val" \in DOMAIN c \ {"d", "ok"} /\ c.val = x
      BY <1>1, <2>9
    <2>15. call'.op = "push" /\ call'.d = d /\ call'.ok /\ call'.val = x
      <3>1. r.ok
        BY <1>6 DEF Extended
      <3> QED
        BY <2>2, <2>14, <3>1, CallIs
    <2>16. Queues!Served(call', BagOf(vecs[d]), cmps[d])
      BY <2>1, <2>8, <2>9, <2>13, <2>15 DEF Queues!Served
    <2> QED
      BY <2>8, <2>15, <2>16, DoesServed DEF Works
  <1> QED
    BY <1>4, <1>5, <1>6

\* The gap at the end of the vec leaves the elems before it.
LEMMA OpenGapCarries ==
    ASSUME VecAssumption, VecInv, NEW d \in Names, Alive(d), NEW count \in Nat,
           NEW r \in OpenGap(vecs[d], heap, vecs[d].len, count), r.ok
    PROVE  \A i \in 0 .. vecs[d].len - 1 : r.q.slots[i] = vecs[d].slots[i]
  <1>0. PICK q : q = vecs[d]
    OBVIOUS
  <1>1. q.len \in Nat /\ q.cap \in Nat /\ q.len <= q.cap /\ SizeMax \in Nat /\ Null \notin Nat
    BY <1>0, AliveVec DEF VecAssumption
  <1>2. CkdAdd(q.len, count) # Null
    BY <1>0 DEF OpenGap, Outcome
  <1>3. PICK n \in Sizes : n = q.len + count /\ CkdAdd(q.len, count) = n
    BY <1>1, <1>2 DEF CkdAdd, Sizes
  <1>4. PICK p \in ReserveFor(q, heap, n) :
           r = IF p.ok THEN [p EXCEPT !.q = WithLen(Moved(p.q, q.len + count, q.len, p.q.len - q.len), n)] ELSE p
    BY <1>0, <1>2, <1>3 DEF OpenGap, WithLen
  <1>5. (Refused(q, p) \/ Grown(q, p, n)) /\ Carries(q, p.q)
    BY <1>0, ReserveForOutcomes, ReserveForCarries
  <1>6. Grown(q, p, n)
    BY <1>4, <1>5 DEF Refused
  <1>7. /\ OnBlock(p.q) /\ p.ok /\ IsOutcome(p) /\ p.q.cap \in Nat /\ p.q.len <= p.q.cap
        /\ p.q.len = q.len
    BY <1>0, <1>6, GrownFields
  <1>8. PICK b, m, o : b = p.q /\ m = Moved(b, q.len + count, q.len, 0) /\ o = WithLen(m, n) /\ r = [p EXCEPT !.q = o]
    <2>1. p.q.len - q.len = 0
      BY <1>1, <1>7
    <2> QED
      BY <1>4, <1>7, <2>1
  <1>9. r.q = o
    BY <1>7, <1>8, OutcomeWith
  <1>10. PICK to \in Nat : to = q.len + count
    BY <1>1
  <1>11. OnBlock(b) /\ q.len + 0 <= b.cap /\ m = Moved(b, to, q.len, 0)
    BY <1>1, <1>7, <1>8, <1>10
  <1>12. /\ InPlace(b, m)
         /\ \A s \in 0 .. b.cap - 1 :
               m.slots[s] = IF s \in to .. to + 0 - 1 THEN b.slots[q.len + (s - to)] ELSE b.slots[s]
    BY <1>1, <1>11, MovedSlots
  <1>13. o.slots = m.slots
    BY <1>8, <1>12 DEF WithLen, InPlace, Shaped
  <1>14. ASSUME NEW i \in 0 .. q.len - 1 PROVE o.slots[i] = q.slots[i]
    <2>1. i \in 0 .. b.cap - 1 /\ i \notin to .. to + 0 - 1 /\ i < b.cap
      BY <1>1, <1>7, <1>8, <1>10
    <2>2. b.slots[i] = q.slots[i]
      BY <1>5, <1>8, <2>1 DEF Carries
    <2> QED
      BY <1>12, <1>13, <2>1, <2>2
  <1> QED
    BY <1>0, <1>9, <1>14

\* What extend leaves before the elems are put in order.
LEMMA ExtendOutcomesAre ==
    ASSUME VecAssumption, VecInv, NEW d \in Names, Alive(d), NEW src \in Spans,
           NEW s \in InsertSpanOutcomes(vecs[d], heap, vecs[d].len, src)
    PROVE  Refused(vecs[d], s) \/ Extended(vecs[d], s, src)
  <1>0. PICK q : q = vecs[d]
    OBVIOUS
  <1>1. q.len \in Nat /\ q.cap \in Nat /\ q.len <= q.cap /\ q.al \in Als /\ IsVec(q)
    BY <1>0, AliveVec
  <1>2. PICK n \in Nat : n = Len(src) /\ src \in [1 .. n -> Elem]
    BY SpansAre
  <1>3. CASE src = <<>>
    <2>1. s = Outcome(q, heap, TRUE)
      BY <1>0, <1>3 DEF InsertSpanOutcomes
    <2>2. s.q = q /\ s.heap = heap /\ s.ok /\ IsOutcome(s)
      BY <2>1 DEF Outcome, IsOutcome
    <2>3. n = 0
      BY <1>2, <1>3
    <2>4. Based(q, q, heap) /\ InPlace(q, q)
      <3>1. HeapWith(q, q) = heap /\ FromBlock(q, q)
        BY <1>0, SameBlock
      <3> QED
        BY <1>1, <3>1, InPlaceItself DEF Based
    <2>5. Extended(q, s, src)
      BY <1>1, <1>2, <2>2, <2>3, <2>4, VecSound DEF Extended
    <2> QED
      BY <1>0, <2>5
  <1>4. CASE src # <<>>
    <2>1. PICK r \in OpenGap(q, heap, q.len, n) : s = IF r.ok THEN [r EXCEPT !.q = Filled(r.q, q.len, src)] ELSE r
      BY <1>0, <1>2, <1>4 DEF InsertSpanOutcomes
    <2>2. Refused(q, r) \/ \E p : Gapped(q, r, p, q.len, n)
      BY <1>0, <1>1, <2>1, OpenGapOutcomes
    <2>3. CASE Refused(q, r)
      BY <1>0, <2>1, <2>3 DEF Refused
    <2>4. CASE \E p : Gapped(q, r, p, q.len, n)
      <3>1. PICK p : Gapped(q, r, p, q.len, n)
        BY <2>4
      <3>2. PICK g, o, idx : idx = q.len /\ g = r.q /\ o = Filled(g, idx, src) /\ s = [r EXCEPT !.q = o]
        BY <2>1, <3>1 DEF Gapped
      <3>3. s.q = o /\ s.heap = r.heap /\ s.ok /\ IsOutcome(s)
        <4>1. r.ok /\ IsOutcome(r)
          BY <3>1 DEF Gapped
        <4>2. s.q = o /\ s.heap = r.heap /\ s.ok = r.ok
          <5>1. s = [r EXCEPT !.q = o]
            BY <3>2
          <5> QED
            BY <4>1, <5>1 DEF IsOutcome, Outcome
        <4>3. IsOutcome(s)
          BY <3>2, <4>1 DEF IsOutcome, Outcome
        <4> QED
          BY <4>1, <4>2, <4>3
      <3>4. g.len = idx + n /\ g.len \in Nat /\ idx \in Nat
        BY <1>1, <3>1, <3>2 DEF Gapped
      <3>5. OnBlock(g) /\ g.cap \in Nat /\ g.len <= g.cap
        BY <3>1, <3>2, <3>4, InPlaceOnBlock DEF Gapped, InPlace, OnBlock
      <3>6. /\ InPlace(g, o) /\ o.len = g.len
            /\ \A i \in 0 .. g.cap - 1 :
                 o.slots[i] = IF i \in idx .. idx + n - 1 THEN src[i - idx + 1] ELSE g.slots[i]
        <4>1. o = Filled(g, idx, src) /\ idx \in Nat /\ OnBlock(g) /\ src \in [1 .. n -> Elem]
          BY <1>2, <3>2, <3>4, <3>5
        <4> QED
          BY <4>1, FilledSlots
      <3>7. \A i \in 0 .. idx - 1 : g.slots[i] = q.slots[i]
        BY <1>0, <2>1, <3>1, <3>2, OpenGapCarries DEF Gapped
      <3>8. ASSUME NEW i \in 0 .. idx - 1 PROVE o.slots[i] = q.slots[i]
        <4>1. i \in 0 .. g.cap - 1 /\ i \notin idx .. idx + n - 1
          BY <3>4, <3>5
        <4> QED
          BY <3>6, <3>7, <4>1
      <3>9. ASSUME NEW i \in 1 .. n PROVE o.slots[idx + i - 1] = src[i]
        <4>1. PICK j : j = idx + i - 1
          OBVIOUS
        <4>2. j \in 0 .. g.cap - 1 /\ j \in idx .. idx + n - 1 /\ j - idx + 1 = i
          BY <3>4, <3>5, <4>1
        <4>3. o.slots[j] = src[j - idx + 1]
          BY <3>6, <4>2
        <4> QED
          BY <4>1, <4>2, <4>3
      <3>10. ASSUME NEW i \in 0 .. o.len - 1 PROVE o.slots[i] \in Elem
        <4>1. CASE i < idx
          <5>1. i \in 0 .. idx - 1 /\ i \in 0 .. q.len - 1
            BY <3>2, <3>4, <4>1
          <5>2. q.slots[i] \in Elem
            BY <1>0, <5>1, AliveVec
          <5> QED
            BY <3>8, <5>1, <5>2
        <4>2. CASE ~(i < idx)
          <5>1. i - idx + 1 \in 1 .. n /\ idx + (i - idx + 1) - 1 = i
            BY <3>4, <3>6, <4>2
          <5>2. o.slots[i] = src[i - idx + 1]
            BY <3>9, <5>1
          <5> QED
            BY <1>2, <5>1, <5>2
        <4> QED
          BY <4>1, <4>2
      <3>11. Sound(o)
        <4>1. OnBlock(o) /\ o.cap = g.cap
          BY <3>4, <3>5, <3>6, InPlaceOnBlock DEF InPlace
        <4> QED
          BY <3>5, <3>6, <3>10, <4>1 DEF Sound
      <3>12. Based(q, p.q, r.heap) /\ InPlace(p.q, o)
        <4>1. /\ IsVec(p.q) /\ FromBlock(q, p.q) /\ p.heap = HeapWith(q, p.q) /\ p.heap = r.heap
              /\ p.q.al = q.al /\ InPlace(p.q, g)
          BY <3>1, <3>2 DEF Gapped, Good
        <4> QED
          BY <1>1, <3>6, <4>1, InPlaceTrans DEF Based
      <3>13. o.len = q.len + Len(src)
        BY <1>2, <3>2, <3>4, <3>6
      <3>14. Extended(q, s, src)
        BY <1>2, <3>2, <3>3, <3>8, <3>9, <3>11, <3>12, <3>13 DEF Extended
      <3> QED
        BY <1>0, <3>14
    <2> QED
      BY <2>2, <2>3, <2>4
  <1> QED
    BY <1>3, <1>4

\* the elems of s, the first len of which are a heap, put in order
Reheaped(s, len, cmp) ==
    IF Len(s) - len >= len THEN H!MakeHeap(s, cmp) ELSE PushEach(s, len, cmp)

LEMMA SameCardinality ==
    ASSUME NEW S
    PROVE  Queues!Cardinality(S) = Cardinality(S)
  BY DEF Queues!Cardinality, Cardinality

\* PQueueSpec counts the elems of a span as they are counted here.
LEMMA CountedIs ==
    ASSUME VecAssumption, NEW src \in Spans
    PROVE  Queues!Counted(src) = Tally(src, Len(src))
  <1>1. DOMAIN src = 1 .. Len(src)
    BY SpansAre
  <1>2. \A x : Cardinality({i \in DOMAIN src : src[i] = x}) = Cardinality(At(src, Len(src), x))
    BY <1>1 DEF At
  <1> QED
    BY <1>2, SameCardinality DEF Queues!Counted, Tally

LEMMA PQueueExtendKeeps ==
    ASSUME VecAssumption, PQueueAssumption, PQueueInv, NEW d \in Names, Alive(d), NEW src \in Spans,
           tda_pqueue_extend(d, src)
    PROVE  Works
  <1>1. PICK r, c :
           /\ c = [op |-> "extend", src |-> src]
           /\ r \in InsertSpanOutcomes(vecs[d], heap, vecs[d].len, src)
           /\ PQueueEnds(c, d, IF r.ok THEN Arranged(r.q, Reheaped(Contents(r.q), vecs[d].len, cmps[d])) ELSE r.q,
                         r.heap, r.ok, cmps[d])
    BY DEF tda_pqueue_extend, Reheaped
  <1>2. VecInv /\ cmps[d] \in Orders /\ HeapVec(vecs[d], cmps[d]) /\ vecs[d].len \in Nat
    BY AliveQueue, AliveVec DEF PQueueInv
  <1>3. Refused(vecs[d], r) \/ Extended(vecs[d], r, src)
    BY <1>1, <1>2, ExtendOutcomesAre
  <1>4. CASE Refused(vecs[d], r)
    <2>1. PQueueEnds(c, d, r.q, r.heap, r.ok, cmps[d])
      BY <1>1, <1>4 DEF Refused
    <2>2. "op" \in DOMAIN c /\ c.op \in Refusable
      BY <1>1 DEF Refusable
    <2> QED
      BY <1>4, <2>1, <2>2, RefusedQueueEnds
  <1>5. CASE Extended(vecs[d], r, src)
    <2>1. PICK q, s, cmp, len : q = r.q /\ cmp = cmps[d] /\ len = vecs[d].len /\ s = Reheaped(Contents(q), len, cmp)
      OBVIOUS
    <2>2. PQueueEnds(c, d, Arranged(q, s), r.heap, r.ok, cmp)
      BY <1>1, <1>5, <2>1 DEF Extended
    <2>3. Len(src) \in Nat
      BY SpansAre
    <2>4. Sound(q) /\ q.len = len + Len(src)
      BY <1>5, <2>1 DEF Extended
    <2>5. Contents(q) \in Span(q.len) /\ q.len \in Nat /\ len \in 0 .. q.len
      BY <1>2, <2>1, <2>3, <2>4, SoundSpan
    <2>6. Heaped(KeysOf(Contents(q), len, cmp), 0, len)
      BY <1>2, <1>5, <2>1, <2>3, ExtendedStarts
    <2>7. Sifted(Contents(q), s, q.len, 0, q.len, cmp)
      <3>1. Sifted(Contents(q), H!MakeHeap(Contents(q), cmp), q.len, 0, q.len, cmp)
        BY <1>2, <2>1, <2>5, MakeHeapHeaps
      <3>2. Sifted(Contents(q), PushEach(Contents(q), len, cmp), q.len, 0, q.len, cmp)
        BY <1>2, <2>1, <2>5, <2>6, PushEachHeaps
      <3> QED
        BY <2>1, <3>1, <3>2 DEF Reheaped
    <2>8. PQueueInv' /\ Queues!Becomes(d, Tally(Contents(q), q.len), cmp)
      BY <1>5, <2>1, <2>2, <2>7, ExtendedEnds
    <2>9. PICK t, u, k : t = Contents(vecs[d]) /\ u = Contents(q) /\ k = Len(src) /\ k \in Nat
      BY <2>3
    <2>10. BagOf(vecs[d]) = Tally(t, len)
      BY <2>1, <2>9, VecSound, TidyBag DEF PQueueInv, VecInv
    <2>11. (\A i \in 1 .. len : u[i] = t[i]) /\ \A i \in 1 .. k : u[len + i] = src[i]
      BY <1>2, <1>5, <2>1, <2>9, ExtendedElems
    <2>12. Tally(u, q.len) = Queues!Joined(BagOf(vecs[d]), Queues!Counted(src))
      <3>1. Follows(u, len, src, k)
        BY <2>11 DEF Follows
      <3>2. Tally(u, len) = Tally(t, len)
        BY <1>2, <2>1, <2>11, TallySame
      <3>3. ASSUME NEW x \in Elem PROVE Tally(u, q.len)[x] = Tally(t, len)[x] + Tally(src, k)[x]
        BY <1>2, <2>1, <2>4, <2>9, <3>1, <3>2, TallyJoined
      <3>4. Queues!Counted(src) = Tally(src, k)
        BY <2>9, CountedIs
      <3> QED
        BY <2>10, <3>3, <3>4 DEF Queues!Joined, Tally
    <2>13. "op" \in DOMAIN c /\ c.op = "extend" /\ "src" \in DOMAIN c \ {"d", "ok"} /\ c.src = src
      BY <1>1
    <2>14. call'.op = "extend" /\ call'.d = d /\ call'.ok /\ call'.src = src
      <3>1. r.ok
        BY <1>5 DEF Extended
      <3> QED
        BY <2>2, <2>13, <3>1, CallIs
    <2>15. Queues!Served(call', BagOf(vecs[d]), cmps[d])
      BY <2>1, <2>8, <2>9, <2>12, <2>14 DEF Queues!Served
    <2> QED
      BY <2>8, <2>14, <2>15, DoesServed DEF Works
  <1> QED
    BY <1>3, <1>4, <1>5

-----------------------------------------------------------------------------
(* Queues that come and go.                                                 *)

\* the vec of the elems src that init_impl served
MadeOf(q, r, al, n, src) ==
    r.ok /\ Based(q, r.q, r.heap) /\ r.q.al = al /\ r.q.len = n /\ Holds(r.q, src)

LEMMA InitIs ==
    ASSUME VecAssumption, VecInv, NEW d \in Names, ~Alive(d), NEW al \in Als, NEW n \in Nat,
           NEW src \in [1 .. n -> Elem], NEW cap \in Sizes, n <= cap, NEW r \in InitImpl(al, heap, src, cap)
    PROVE  /\ IsOutcome(r)
           /\ Refused(vecs[d], r) \/ MadeOf(vecs[d], r, al, n, src)
  <1> DEFINE id == FreshId(heap)
             ws == SlotsOf(src, cap)
             q == [Empty(al) EXCEPT !.data = id, !.cap = cap, !.len = Len(src), !.slots = ws]
  <1>1. vecs[d] = Zeroed /\ cap \in Nat /\ Len(src) = n
    BY DeadVec, SpanLen DEF Sizes, VecAssumption
  <1>2. IsVec(r.q) /\ FromBlock(vecs[d], r.q) /\ r.heap = HeapWith(vecs[d], r.q)
    BY InitImplOutcomes DEF Good
  <1>3. CASE cap = 0 /\ r = Outcome(Empty(al), heap, TRUE)
    <2>1. r.q = Empty(al) /\ r.ok /\ IsOutcome(r)
      BY <1>3 DEF Outcome, IsOutcome
    <2>2. r.q.al = al /\ r.q.len = 0 /\ n = 0
      <3>1. n = 0
        BY <1>3
      <3>2. Empty(al).al = al /\ Empty(al).len = 0
        BY EmptyIsVec
      <3> QED
        BY <2>1, <3>1, <3>2
    <2>3. Holds(r.q, src)
      BY <2>2 DEF Holds
    <2> QED
      BY <1>2, <2>1, <2>2, <2>3 DEF MadeOf, Based
  <1>4. CASE r = Outcome(Zeroed, heap, FALSE)
    BY <1>1, <1>4 DEF Outcome, Refused, IsOutcome
  <1>5. CASE r = Outcome(q, heap \cup {BlockOf(q)}, TRUE)
    <2>1. ws = [s \in 0 .. cap - 1 |-> IF s < n THEN src[s + 1] ELSE Garbage]
      BY <1>1 DEF SlotsOf
    <2>2. ASSUME NEW i \in 0 .. n - 1 PROVE ws[i] = src[i + 1]
      <3>1. i \in 0 .. cap - 1 /\ i < n
        BY <1>1
      <3> QED
        BY <2>1, <3>1
    <2> HIDE DEF ws, id
    <2>3. PICK nil : nil = SlotsOf(<<>>, 0)
      OBVIOUS
    <2>4. PICK p : p = q
      OBVIOUS
    <2>5. p.al = al /\ p.len = n /\ p.slots = ws
      <3>1. Empty(al) = [al |-> al, data |-> Null, cap |-> 0, len |-> 0, slots |-> nil]
        BY <2>3 DEF Empty
      <3> QED
        BY <1>1, <2>4, <3>1
    <2>6. r.q = p /\ r.ok /\ IsOutcome(r)
      BY <1>5, <2>4 DEF Outcome, IsOutcome
    <2> HIDE DEF q
    <2>7. Holds(p, src)
      BY <2>2, <2>5 DEF Holds
    <2> QED
      BY <1>2, <2>5, <2>6, <2>7 DEF MadeOf, Based
  <1> QED
    BY <1>3, <1>4, <1>5 DEF InitImpl

\* A call that would make a queue and is refused.
LEMMA NotMade ==
    ASSUME VecAssumption, PQueueAssumption, PQueueInv, NEW d \in Names, ~Alive(d), NEW r,
           Refused(vecs[d], r), NEW c, "op" \in DOMAIN c, c.op \in Refusable, NEW cmp, Makes(c, d, r, cmp)
    PROVE  Works
  <1>1. PQueueEnds(c, d, r.q, r.heap, r.ok, cmps[d])
    BY DeadQueue DEF Makes, Refused
  <1> QED
    BY <1>1, RefusedQueueEnds

LEMMA PQueueMakeKeeps ==
    ASSUME VecAssumption, PQueueAssumption, PQueueInv, NEW d \in Names, NEW al \in Als, NEW src \in Spans,
           NEW cap \in Sizes, NEW cmp \in Orders, tda_pqueue_make(d, al, src, cap, cmp)
    PROVE  Works
  <1>1. ~Alive(d) /\ VecInv
    BY DEF tda_pqueue_make, PQueueInv
  <1>2. PICK n \in Nat : n = Len(src) /\ src \in [1 .. n -> Elem]
    BY SpansAre
  <1>3. n <= cap /\ cap \in Nat
    <2>1. cap \in Nat
      BY DEF Sizes, VecAssumption
    <2>2. src = <<>> => n = 0
      BY <1>2
    <2> QED
      BY <1>2, <2>1, <2>2 DEF tda_pqueue_make
  <1>4. PICK r, c, s : /\ c = [op |-> "make", src |-> src, order |-> cmp]
                       /\ r \in InitImpl(al, heap, src, cap)
                       /\ s = IF r.ok THEN [r EXCEPT !.q = Arranged(r.q, H!MakeHeap(src, cmp))] ELSE r
                       /\ Makes(c, d, s, cmp)
    BY DEF tda_pqueue_make
  <1>5. IsOutcome(r) /\ (Refused(vecs[d], r) \/ MadeOf(vecs[d], r, al, n, src))
    BY <1>1, <1>2, <1>3, <1>4, InitIs
  <1>6. CASE Refused(vecs[d], r)
    <2>1. s = r
      BY <1>4, <1>6 DEF Refused
    <2>2. "op" \in DOMAIN c /\ c.op \in Refusable
      BY <1>4 DEF Refusable
    <2> QED
      BY <1>1, <1>4, <1>6, <2>1, <2>2, NotMade
  <1>7. CASE MadeOf(vecs[d], r, al, n, src)
    <2>1. PICK q, t, o : q = r.q /\ t = H!MakeHeap(src, cmp) /\ o = Arranged(q, t)
      OBVIOUS
    <2>2. s = [r EXCEPT !.q = o]
      BY <1>4, <1>7, <2>1 DEF MadeOf
    <2>3. s.q = o /\ s.heap = r.heap /\ s.ok
      BY <1>5, <1>7, <2>2 DEF IsOutcome, Outcome, MadeOf
    <2>4. PQueueEnds(c, d, o, r.heap, s.ok, cmp)
      BY <1>4, <2>3 DEF Makes
    <2>5. Based(vecs[d], q, r.heap) /\ q.len = n /\ Sound(q)
      BY <1>7, <2>1, VecSound DEF MadeOf, Based
    <2>6. Sifted(src, t, n, 0, n, cmp)
      BY <1>2, <2>1, MakeHeapHeaps DEF Span
    <2>7. InPlace(q, o) /\ o.len = n /\ Holds(o, t) /\ Sound(o)
      BY <2>1, <2>5, <2>6, ArrangedIs DEF Sifted
    <2>8. HeapVec(o, cmp)
      BY <2>6, <2>7, HeldHeap DEF Sifted
    <2>9. PQueueInv'
      BY <2>4, <2>5, <2>7, <2>8, BasedEnds
    <2>10. BagOf(o) = Queues!Counted(src)
      <3>1. BagOf(o) = Tally(t, n)
        BY <2>7, BagHeld
      <3>2. Rearranged(src, t, n, n)
        BY <2>6 DEF Sifted
      <3>3. Tally(t, n) = Tally(src, n)
        BY <3>2, TallyRearranged
      <3> QED
        BY <1>2, <3>1, <3>3, CountedIs
    <2>11. Queues!Becomes(d, Queues!Counted(src), cmp)
      BY <2>4, <2>7, <2>9, <2>10, EndsBecomes
    <2>12. /\ "op" \in DOMAIN c /\ c.op = "make" /\ c.src = src /\ c.order = cmp
           /\ "src" \in DOMAIN c \ {"d", "ok"} /\ "order" \in DOMAIN c \ {"d", "ok"}
      BY <1>4
    <2>13. call'.op = "make" /\ call'.d = d /\ call'.ok /\ call'.src = src /\ call'.order = cmp
      BY <2>3, <2>4, <2>12, CallIs
    <2>14. Queues!Served(call', BagOf(vecs[d]), cmps[d])
      BY <2>11, <2>13 DEF Queues!Served
    <2> QED
      BY <2>9, <2>13, <2>14, DoesServed DEF Works
  <1> QED
    BY <1>5, <1>6, <1>7

\* A queue that has taken the elems and the order of another.
LEMMA CopiedDoes ==
    ASSUME PQueueInv, PQueueInv', NEW d \in Names, NEW e \in Names, NEW q, Sound(q), BagOf(q) = BagOf(vecs[e]),
           NEW c, c = [op |-> "copy", from |-> e], NEW h, NEW ok, ok, PQueueEnds(c, d, q, h, ok, cmps[e])
    PROVE  Queues!Does(call')
  <1>1. Queues!Becomes(d, BagOf(vecs[e]), cmps[e])
    BY EndsBecomes
  <1>2. "op" \in DOMAIN c /\ c.op = "copy" /\ c.from = e /\ "from" \in DOMAIN c \ {"d", "ok"}
    OBVIOUS
  <1>3. call'.op = "copy" /\ call'.d = d /\ call'.ok /\ call'.from = e
    BY <1>2, CallIs
  <1>4. Bags[e] = BagOf(vecs[e])
    BY DEF Bags
  <1>5. Queues!Becomes(d, Bags[e], cmps[e])
    BY <1>1, <1>4
  <1>6. Queues!Served(call', BagOf(vecs[d]), cmps[d])
    BY <1>3, <1>5 DEF Queues!Served, Bags, BagOf
  <1> QED
    BY <1>3, <1>6, DoesServed

LEMMA PQueueCopyWithKeeps ==
    ASSUME VecAssumption, PQueueAssumption, PQueueInv, NEW d \in Names, NEW e \in Names, NEW al \in Als,
           tda_pqueue_copy_with(d, al, e)
    PROVE  Works
  <1>1. ~Alive(d) /\ Alive(e) /\ VecInv
    BY DEF tda_pqueue_copy_with, PQueueInv
  <1>2. PICK q, n, src, cmp : q = vecs[e] /\ n = q.len /\ src = Contents(q) /\ cmp = cmps[e]
    OBVIOUS
  <1>3. /\ n \in Nat /\ src \in [1 .. n -> Elem] /\ n \in Sizes /\ n <= n
        /\ cmp \in Orders /\ HeapVec(q, cmp)
    <2>1. n \in Nat /\ src \in [1 .. n -> Elem]
      BY <1>1, <1>2, AliveVec, ContentsAre
    <2>2. n \in Sizes
      BY <1>1, <1>2, <2>1, AliveVec DEF Sizes, VecAssumption
    <2> QED
      BY <1>1, <1>2, <2>1, <2>2, AliveQueue
  <1>4. PICK r, c : c = [op |-> "copy", from |-> e] /\ r \in InitImpl(al, heap, src, n) /\ Makes(c, d, r, cmp)
    BY <1>2 DEF tda_pqueue_copy_with
  <1>5. Refused(vecs[d], r) \/ MadeOf(vecs[d], r, al, n, src)
    BY <1>1, <1>3, <1>4, InitIs
  <1>6. CASE Refused(vecs[d], r)
    <2>1. "op" \in DOMAIN c /\ c.op \in Refusable
      BY <1>4 DEF Refusable
    <2> QED
      BY <1>1, <1>4, <1>6, <2>1, NotMade
  <1>7. CASE MadeOf(vecs[d], r, al, n, src)
    <2>1. PICK o : o = r.q
      OBVIOUS
    <2>2. Based(vecs[d], o, r.heap) /\ o.len = n /\ Holds(o, src) /\ IsVec(o) /\ r.ok
      BY <1>7, <2>1 DEF MadeOf, Based
    <2>3. PQueueEnds(c, d, o, r.heap, r.ok, cmp)
      BY <1>4, <2>1, <2>2 DEF Makes
    <2>4. Sound(o) /\ InPlace(o, o)
      BY <2>2, VecSound, InPlaceItself
    <2>5. HeapVec(o, cmp)
      BY <1>2, <1>3, <2>2, SameHeap
    <2>6. PQueueInv'
      BY <1>3, <2>2, <2>3, <2>4, <2>5, BasedEnds
    <2>7. BagOf(o) = BagOf(q)
      <3>1. BagOf(o) = Tally(src, n)
        BY <1>3, <2>2, BagHeld
      <3> QED
        BY <1>1, <1>2, <3>1, VecSound, TidyBag DEF VecInv
    <2> QED
      BY <1>2, <1>4, <2>2, <2>3, <2>4, <2>6, <2>7, CopiedDoes DEF Works
  <1> QED
    BY <1>5, <1>6, <1>7

LEMMA PQueueCopyAssignKeeps ==
    ASSUME VecAssumption, PQueueAssumption, PQueueInv, NEW d \in Names, NEW e \in Names,
           tda_pqueue_copy_assign(d, e)
    PROVE  Works
  <1>1. Alive(d) /\ Alive(e) /\ VecInv
    BY DEF tda_pqueue_copy_assign, PQueueInv
  <1>2. PICK q, n, src : q = vecs[e] /\ n = q.len /\ src = Contents(q)
    OBVIOUS
  <1>3. /\ n \in Nat /\ src \in [1 .. n -> Elem] /\ n \in Sizes /\ Len(src) = n
        /\ cmps[e] \in Orders /\ HeapVec(q, cmps[e])
    <2>1. n \in Nat /\ src \in [1 .. n -> Elem] /\ Len(src) = n
      BY <1>1, <1>2, AliveVec, ContentsAre
    <2>2. n \in Sizes
      BY <1>1, <1>2, <2>1, AliveVec DEF Sizes, VecAssumption
    <2> QED
      BY <1>1, <1>2, <2>1, <2>2, AliveQueue
  <1>4. PICK s, c : /\ c = [op |-> "copy", from |-> e]
                    /\ s \in IF d = e THEN {Outcome(vecs[d], heap, TRUE)}
                             ELSE CopyAssignOutcomes(vecs[d], heap, src)
                    /\ PQueueEnds(c, d, s.q, s.heap, s.ok, IF s.ok THEN cmps[e] ELSE cmps[d])
    BY <1>2 DEF tda_pqueue_copy_assign
  <1>5. CASE d = e
    <2>1. s.q = vecs[d] /\ s.heap = heap /\ s.ok
      BY <1>4, <1>5 DEF Outcome
    <2>2. PQueueEnds(c, d, vecs[d], heap, s.ok, cmps[e])
      BY <1>4, <2>1
    <2>3. PQueueInv'
      BY <1>5, <2>2, SameQueueEnds
    <2>4. Sound(vecs[d])
      BY VecSound DEF PQueueInv, VecInv
    <2> QED
      BY <1>4, <1>5, <2>1, <2>2, <2>3, <2>4, CopiedDoes DEF Works
  <1>6. CASE d # e
    <2>1. PICK r \in ReserveOutcomes(vecs[d], heap, n) :
             s = IF r.ok THEN [r EXCEPT !.q = WithLen(Filled(r.q, 0, src), n)] ELSE r
      BY <1>3, <1>4, <1>6 DEF CopyAssignOutcomes, WithLen
    <2>2. Refused(vecs[d], r) \/ Grown(vecs[d], r, n)
      BY <1>1, <1>3, <2>1, ReserveOutcomesAre
    <2>3. CASE Refused(vecs[d], r)
      <3>1. s = r /\ ~s.ok
        BY <2>1, <2>3 DEF Refused
      <3>2. PQueueEnds(c, d, r.q, r.heap, r.ok, cmps[d])
        BY <1>4, <3>1
      <3>3. "op" \in DOMAIN c /\ c.op \in Refusable
        BY <1>4 DEF Refusable
      <3> QED
        BY <2>3, <3>2, <3>3, RefusedQueueEnds
    <2>4. CASE Grown(vecs[d], r, n)
      <3>1. OnBlock(r.q) /\ r.ok /\ IsOutcome(r) /\ r.q.cap \in Nat /\ r.q.cap >= n
        BY <1>1, <2>4, GrownFields
      <3>2. PICK p, m, o : p = r.q /\ m = Filled(p, 0, src) /\ o = WithLen(m, n) /\ s = [r EXCEPT !.q = o]
        BY <2>1, <3>1
      <3>3. s.q = o /\ s.heap = r.heap /\ s.ok
        <4>1. s = [r EXCEPT !.q = o]
          BY <3>2
        <4> QED
          BY <3>1, <4>1 DEF IsOutcome, Outcome
      <3>4. n <= p.cap /\ OnBlock(p) /\ p.cap \in Nat /\ p.len \in Nat
        BY <1>3, <3>1, <3>2 DEF OnBlock
      <3>5. /\ InPlace(p, m) /\ m.len = p.len
            /\ \A i \in 0 .. p.cap - 1 :
                  m.slots[i] = IF i \in 0 .. 0 + n - 1 THEN src[i - 0 + 1] ELSE p.slots[i]
        <4>1. src \in [1 .. n -> Elem] /\ m = Filled(p, 0, src) /\ n \in Nat
          BY <1>3, <3>2
        <4> QED
          BY <3>4, <4>1, FilledSlots
      <3>6. OnBlock(m)
        BY <3>4, <3>5, InPlaceOnBlock
      <3>7. InPlace(m, o) /\ o.len = n /\ o.slots = m.slots
        BY <3>2, <3>6, LenChanges
      <3>8. ASSUME NEW i \in 0 .. n - 1 PROVE o.slots[i] = src[i + 1] /\ o.slots[i] \in Elem
        <4>1. i \in 0 .. p.cap - 1 /\ i \in 0 .. 0 + n - 1 /\ i - 0 + 1 = i + 1 /\ i + 1 \in 1 .. n
          BY <1>3, <3>4
        <4>2. o.slots[i] = src[i - 0 + 1]
          BY <3>5, <3>7, <4>1
        <4> QED
          BY <1>3, <4>1, <4>2
      <3>9. Holds(o, src) /\ \A i \in 0 .. o.len - 1 : o.slots[i] \in Elem
        BY <3>7, <3>8 DEF Holds
      <3>10. InPlace(r.q, o) /\ o.len \in 0 .. r.q.cap
        BY <1>3, <3>1, <3>2, <3>5, <3>7, InPlaceTrans
      <3>11. HeapVec(o, cmps[e])
        BY <1>2, <1>3, <3>7, <3>9, SameHeap
      <3>12. PQueueEnds(c, d, o, r.heap, s.ok, cmps[e])
        BY <1>4, <3>3
      <3>13. PQueueInv'
        BY <1>1, <1>3, <2>4, <3>9, <3>10, <3>11, <3>12, GrownQueueEnds
      <3>14. Sound(o)
        <4>1. OnBlock(o)
          BY <3>1, <3>10, InPlaceOnBlock
        <4> QED
          BY <3>1, <3>9, <3>10, <4>1 DEF Sound, InPlace
      <3>15. BagOf(o) = BagOf(q)
        <4>1. BagOf(o) = Tally(src, n)
          BY <1>3, <3>7, <3>9, BagHeld
        <4> QED
          BY <1>1, <1>2, <4>1, VecSound, TidyBag DEF VecInv
      <3> QED
        BY <1>2, <1>4, <3>3, <3>12, <3>13, <3>14, <3>15, CopiedDoes DEF Works
    <2> QED
      BY <2>2, <2>3, <2>4
  <1> QED
    BY <1>5, <1>6

LEMMA PQueueDeinitKeeps ==
    ASSUME VecAssumption, PQueueAssumption, PQueueInv, NEW d \in Names, tda_pqueue_deinit(d)
    PROVE  Works
  <1>1. PICK c, h : /\ c = [op |-> "deinit"]
                    /\ h = IF Alive(d) THEN FreeBlock(vecs[d], heap) ELSE heap
                    /\ Ends(c, d, Zeroed, h, TRUE) /\ cmps' = [cmps EXCEPT ![d] = Null]
    BY DEF tda_pqueue_deinit, tda_vec_deinit
  <1>2. VecInv'
    BY <1>1, DeinitKeeps DEF PQueueInv
  <1>3. IsVec(Zeroed) /\ Zeroed.al = Null
    BY EmptyIsVec DEF Zeroed
  <1>4. Sound(Zeroed) /\ QueueOk(Zeroed, Null)
    BY <1>3, VecSound DEF QueueOk
  <1>5. PQueueEnds(c, d, Zeroed, h, TRUE, Null)
    BY <1>1 DEF PQueueEnds
  <1>6. PQueueInv'
    BY <1>2, <1>4, <1>5, QueueEnds
  <1>7. Queues!Becomes(d, Queues!None, Null)
    <2>1. BagOf(Zeroed) = Queues!None
      BY NoneBag, EmptyIsVec DEF Zeroed
    <2> QED
      BY <1>4, <1>5, <1>6, <2>1, EndsBecomes
  <1>8. "op" \in DOMAIN c /\ c.op = "deinit"
    BY <1>1
  <1>9. call'.op = "deinit" /\ call'.d = d /\ call'.ok
    BY <1>5, <1>8, CallIs
  <1>10. Queues!Served(call', BagOf(vecs[d]), cmps[d])
    BY <1>7, <1>9 DEF Queues!Served
  <1> QED
    BY <1>6, <1>9, <1>10, DoesServed DEF Works

LEMMA BagsAre ==
    ASSUME NEW d \in Names, NEW e \in Names,
           \A f \in Names \ {d, e} : BagOf(vecs'[f]) = BagOf(vecs[f]),
           BagOf(vecs'[d]) = BagOf(vecs[e]), NEW left, d # e => BagOf(vecs'[e]) = left
    PROVE  Bags' = IF d = e THEN Bags ELSE [Bags EXCEPT ![d] = Bags[e], ![e] = left]
  <1>1. Bags' = [f \in Names |-> BagOf(vecs'[f])]
    BY DEF Bags, BagOf
  <1>2. Bags = [f \in Names |-> BagOf(vecs[f])]
    BY DEF Bags
  <1> QED
    BY <1>1, <1>2

\* What a queue shows of its elems counts them.
LEMMA CountedContents ==
    ASSUME VecAssumption, VecInv, NEW d \in Names
    PROVE  Queues!Counted(Contents(vecs[d])) = BagOf(vecs[d])
  <1>1. PICK q, s : q = vecs[d] /\ s = Contents(q)
    OBVIOUS
  <1>2. BagOf(q) = Tally(s, q.len)
    BY <1>1, VecSound, TidyBag DEF VecInv
  <1>3. DOMAIN s = 1 .. q.len
    BY <1>1 DEF Contents
  <1>4. \A x : Cardinality({i \in DOMAIN s : s[i] = x}) = Cardinality(At(s, q.len, x))
    BY <1>3 DEF At
  <1>5. Queues!Counted(s) = Tally(s, q.len)
    BY <1>4, SameCardinality DEF Queues!Counted, Tally
  <1> QED
    BY <1>1, <1>2, <1>5

LEMMA PQueueMoveAssignKeeps ==
    ASSUME VecAssumption, PQueueAssumption, PQueueInv, NEW d \in Names, NEW e \in Names,
           tda_pqueue_move_assign(d, e)
    PROVE  Works
  <1>1. /\ Alive(e) /\ VecInv /\ tda_vec_move_assign(d, e) /\ cmps' = [cmps EXCEPT ![d] = cmps[e]]
    BY DEF tda_pqueue_move_assign, tda_vec_move_assign, PQueueInv
  <1>2. VecInv' /\ OnlyBoth(d, e)
    BY <1>1, VecMoveKeeps
  <1>3. /\ cmps' = [f \in Names |-> cmps'[f]] /\ cmps'[d] = cmps[e]
        /\ \A f \in Names \ {d} : cmps'[f] = cmps[f]
    BY <1>1 DEF PQueueInv
  <1>4. PICK nil : nil = Empty(vecs[e].al)
    OBVIOUS
  <1>5. vecs'[d] = vecs[e] /\ (d # e => vecs'[e] = nil)
    <2>1. vecs' = IF d = e THEN vecs ELSE [vecs EXCEPT ![d] = vecs[e], ![e] = nil]
      BY <1>1, <1>4 DEF tda_vec_move_assign
    <2> QED
      BY <2>1 DEF PQueueInv, VecInv
  <1>6. cmps[e] \in Orders /\ vecs[e].al \in Als /\ QueueOk(vecs[e], cmps[e])
    BY <1>1, AliveVec, AliveQueue DEF PQueueInv
  <1>7. QueueOk(nil, cmps[e])
    <2>1. nil.len = 0 /\ nil.al # Null
      BY <1>4, <1>6, EmptyIsVec DEF VecAssumption
    <2> QED
      BY <1>6, <2>1, NoneHeap DEF QueueOk
  <1>8. ASSUME NEW f \in Names PROVE QueueOk(vecs'[f], cmps'[f])
    <2>1. CASE f = d
      BY <1>3, <1>5, <1>6, <2>1
    <2>2. CASE f = e /\ f # d
      BY <1>3, <1>5, <1>7, <2>2
    <2>3. CASE f # e /\ f # d
      <3>1. vecs'[f] = vecs[f] /\ cmps'[f] = cmps[f] /\ QueueOk(vecs[f], cmps[f])
        BY <1>2, <1>3, <2>3 DEF OnlyBoth, PQueueInv
      <3> QED
        BY <3>1
    <2> QED
      BY <2>1, <2>2, <2>3
  <1>9. PQueueInv'
    BY <1>2, <1>3, <1>8 DEF PQueueInv
  <1>10. Bags' = IF d = e THEN Bags ELSE [Bags EXCEPT ![d] = Bags[e], ![e] = Queues!None]
    <2>1. BagOf(nil) = Queues!None
      <3>1. PICK p : p = nil /\ p.len = 0
        BY <1>4, <1>6, EmptyIsVec
      <3>2. BagOf(p) = Queues!None
        BY <3>1, NoneBag
      <3> QED
        BY <3>1, <3>2
    <2>2. ASSUME NEW f \in Names \ {d, e} PROVE BagOf(vecs'[f]) = BagOf(vecs[f])
      BY <1>2 DEF OnlyBoth
    <2>3. BagOf(vecs'[d]) = BagOf(vecs[e]) /\ (d # e => BagOf(vecs'[e]) = Queues!None)
      BY <1>5, <2>1
    <2> QED
      BY <2>2, <2>3, BagsAre
  <1>11. cmps' = IF d = e THEN cmps ELSE [cmps EXCEPT ![d] = cmps[e], ![e] = cmps[e]]
    BY <1>1 DEF PQueueInv
  <1>12. call' = [op |-> "move_assign", d |-> d, from |-> e, ok |-> TRUE]
    BY <1>1 DEF tda_vec_move_assign
  <1>13. call'.op = "move_assign" /\ call'.d = d /\ call'.from = e /\ call'.ok
    BY <1>12
  <1>14. Queues!Exchange(call')
    BY <1>10, <1>11, <1>13 DEF Queues!Exchange, Bags, BagOf
  <1> QED
    BY <1>9, <1>13, <1>14 DEF Works, Queues!Does

LEMMA PQueueSwapKeeps ==
    ASSUME VecAssumption, PQueueAssumption, PQueueInv, NEW d \in Names, NEW e \in Names,
           tda_pqueue_swap(d, e)
    PROVE  Works
  <1>1. VecInv /\ tda_vec_swap(d, e) /\ cmps' = [cmps EXCEPT ![d] = cmps[e], ![e] = cmps[d]]
    BY DEF tda_pqueue_swap, PQueueInv
  <1>2. VecInv' /\ OnlyBoth(d, e) /\ vecs'[d] = vecs[e] /\ vecs'[e] = vecs[d]
    BY <1>1, VecSwapKeeps
  <1>3. /\ cmps' = [f \in Names |-> cmps'[f]] /\ cmps'[d] = cmps[e] /\ cmps'[e] = cmps[d]
        /\ \A f \in Names \ {d, e} : cmps'[f] = cmps[f]
    BY <1>1 DEF PQueueInv
  <1>4. ASSUME NEW f \in Names PROVE QueueOk(vecs'[f], cmps'[f])
    <2>1. QueueOk(vecs[d], cmps[d]) /\ QueueOk(vecs[e], cmps[e]) /\ QueueOk(vecs[f], cmps[f])
      BY DEF PQueueInv
    <2>2. CASE f \in {d, e}
      BY <1>2, <1>3, <2>1, <2>2
    <2>3. CASE f \notin {d, e}
      <3>1. vecs'[f] = vecs[f] /\ cmps'[f] = cmps[f]
        BY <1>2, <1>3, <2>3 DEF OnlyBoth
      <3> QED
        BY <2>1, <3>1
    <2> QED
      BY <2>2, <2>3
  <1>5. PQueueInv'
    BY <1>2, <1>3, <1>4 DEF PQueueInv
  <1>6. Bags' = IF d = e THEN Bags ELSE [Bags EXCEPT ![d] = Bags[e], ![e] = Bags[d]]
    <2>1. ASSUME NEW f \in Names \ {d, e} PROVE BagOf(vecs'[f]) = BagOf(vecs[f])
      BY <1>2 DEF OnlyBoth
    <2>2. BagOf(vecs'[d]) = BagOf(vecs[e]) /\ BagOf(vecs'[e]) = BagOf(vecs[d])
      BY <1>2
    <2> QED
      BY <2>1, <2>2, BagsAre
  <1>7. cmps' = IF d = e THEN cmps ELSE [cmps EXCEPT ![d] = cmps[e], ![e] = cmps[d]]
    BY <1>1 DEF PQueueInv
  <1>8. call' = [op |-> "swap", d |-> d, from |-> e, ok |-> TRUE]
    BY <1>1 DEF tda_vec_swap
  <1>9. call'.op = "swap" /\ call'.d = d /\ call'.from = e /\ call'.ok
    BY <1>8
  <1>10. Queues!Exchange(call')
    BY <1>6, <1>7, <1>9 DEF Queues!Exchange, Bags, BagOf
  <1> QED
    BY <1>5, <1>9, <1>10 DEF Works, Queues!Does

\* The vec, in heap order, is the caller's.
LEMMA PQueueIntoVecKeeps ==
    ASSUME VecAssumption, PQueueAssumption, PQueueInv, NEW d \in Names, tda_pqueue_into_vec(d)
    PROVE  Works
  <1>1. /\ vecs' = [vecs EXCEPT ![d] = Zeroed] /\ heap' = heap
        /\ raws' = raws \cup IF vecs[d].data = Null THEN {} ELSE {vecs[d]}
        /\ cmps' = [cmps EXCEPT ![d] = Null] /\ VecInv
    BY DEF tda_pqueue_into_vec, PQueueInv
  <1>2. VecInv' /\ Only(d) /\ vecs'[d] = Zeroed
    BY <1>1, HandOutKeeps
  <1>3. QueueOk(Zeroed, Null)
    BY EmptyIsVec DEF Zeroed, QueueOk
  <1>4. PQueueInv'
    BY <1>1, <1>2, <1>3, QueueChanges
  <1>5. Queues!Becomes(d, Queues!None, Null)
    <2>1. BagOf(vecs'[d]) = Queues!None
      BY <1>2, NoneBag, EmptyIsVec DEF Zeroed
    <2> QED
      BY <1>1, <1>2, <1>4, <2>1, Becoming
  <1>6. PICK out : out = Contents(vecs[d])
    OBVIOUS
  <1>7. call' = [op |-> "into_vec", out |-> out, d |-> d, ok |-> TRUE]
    BY <1>6 DEF tda_pqueue_into_vec
  <1>8. call'.op = "into_vec" /\ call'.d = d /\ call'.ok /\ call'.out = out
    BY <1>7
  <1>9. Queues!Counted(out) = BagOf(vecs[d])
    BY <1>1, <1>6, CountedContents
  <1>10. Queues!Served(call', BagOf(vecs[d]), cmps[d])
    BY <1>5, <1>8, <1>9 DEF Queues!Served
  <1> QED
    BY <1>4, <1>8, <1>10, DoesServed DEF Works

\* The caller gives the block of such a vec back: no other holder has it.
LEMMA CallerDeinitKeeps ==
    ASSUME VecAssumption, PQueueInv, NEW q \in raws, CallerDeinit(q)
    PROVE  Works
  <1>1. /\ vecs' = vecs /\ cmps' = cmps /\ raws' = raws \ {q} /\ heap' = heap \ {BlockOf(q)} /\ VecInv
    BY DEF CallerDeinit, FreeBlock, PQueueInv
  <1>2. Owners' = Owners
    BY <1>1 DEF Owners
  <1>3. \A d \in Owners : vecs[d].data # q.data
    BY <1>1 DEF VecInv, HeldApart
  <1>4. \A p \in raws' : p \in raws /\ p.data # q.data
    BY <1>1 DEF VecInv, HeldApart
  <1>5. ASSUME NEW b \in heap'
        PROVE  (\E d \in Owners : b = BlockOf(vecs[d])) \/ \E p \in raws' : b = BlockOf(p)
    BY <1>1 DEF VecInv, HeldApart
  <1>6. ASSUME NEW p, p.data # q.data PROVE BlockOf(p) # BlockOf(q)
    BY <1>6, BlockFields
  <1>7. \A d \in Owners : BlockOf(vecs[d]) \in heap'
    BY <1>1, <1>3, <1>6 DEF VecInv, HeldApart
  <1>8. \A p \in raws' : BlockOf(p) \in heap'
    BY <1>1, <1>4, <1>6 DEF VecInv, HeldApart
  <1>9. heap' = {BlockOf(vecs[d]) : d \in Owners} \cup {BlockOf(p) : p \in raws'}
    BY <1>5, <1>7, <1>8
  <1>10. IsFiniteSet(raws')
    BY <1>1, FS_RemoveElement DEF VecInv, HeldApart
  <1>11. /\ \A d, e \in Owners : vecs[d].data = vecs[e].data => d = e
         /\ \A p, o \in raws' : p.data = o.data => p = o
         /\ \A d \in Owners, p \in raws' : vecs[d].data # p.data
         /\ \A p \in raws' : p.data # Null
    BY <1>1, <1>4 DEF VecInv, HeldApart
  <1>12. HeldApart'
    BY <1>1, <1>2, <1>9, <1>10, <1>11 DEF HeldApart, BlockOf
  <1>13. VecInv'
    BY <1>1, <1>4, <1>12 DEF VecInv
  <1>14. PQueueInv'
    BY <1>1, <1>13 DEF PQueueInv
  <1>15. Unmoved
    BY <1>1 DEF Unmoved, Bags, BagOf
  <1>16. call'.op = "vec_deinit"
    BY DEF CallerDeinit
  <1> QED
    BY <1>14, <1>15, <1>16 DEF Works, Queues!Does, Queues!Elsewhere, Unmoved, Bags, BagOf

-----------------------------------------------------------------------------
(* Every call, and what it keeps.                                           *)

\* The root, which no other comes before.
LEMMA PQueueTopKeeps ==
    ASSUME VecAssumption, PQueueAssumption, PQueueInv, NEW d \in Names, Alive(d), tda_pqueue_top(d)
    PROVE  Works
  <1>1. PICK q, cmp, m, t, x : q = vecs[d] /\ cmp = cmps[d] /\ m = q.len /\ t = Contents(q) /\ x = q.slots[0]
    OBVIOUS
  <1>2. PICK c : c = [op |-> "top", out |-> x] /\ PQueueEnds(c, d, q, heap, TRUE, cmp)
    BY <1>1 DEF tda_pqueue_top
  <1>3. m > 0
    BY <1>1 DEF tda_pqueue_top
  <1>4. Sound(q) /\ cmp \in Orders /\ HeapVec(q, cmp)
    BY <1>1, AliveQueue, AliveVec DEF PQueueInv, Sound
  <1>5. m \in Nat /\ t \in Span(m) /\ BagOf(q) = Tally(t, m)
    BY <1>1, <1>4, SoundSpan, TidyBag
  <1>6. t[1] = x
    <2>1. 1 \in 1 .. m /\ 1 - 1 = 0
      BY <1>3, <1>5
    <2> QED
      BY <1>1, <2>1 DEF Contents
  <1>7. Top(BagOf(q), cmp, x)
    <2>1. Heaped(KeysOf(t, m, cmp), 0, m)
      BY <1>1, <1>4 DEF HeapVec
    <2> QED
      BY <1>3, <1>4, <1>5, <1>6, <2>1, RootIsTop
  <1>8. PQueueInv'
    BY <1>1, <1>2, SameQueueEnds
  <1>9. Unmoved
    BY <1>1, <1>2, <1>4, EndsBag, Staying
  <1>10. "op" \in DOMAIN c /\ c.op = "top" /\ "out" \in DOMAIN c \ {"d", "ok"} /\ c.out = x
    BY <1>2
  <1>11. call'.op = "top" /\ call'.d = d /\ call'.ok /\ call'.out = x
    BY <1>2, <1>10, CallIs
  <1>12. Queues!Greatest(x, d)
    BY <1>1, <1>7 DEF Queues!Greatest, Top, BagOf
  <1>13. Queues!Served(call', BagOf(vecs[d]), cmps[d])
    BY <1>9, <1>11, <1>12 DEF Queues!Served, Unmoved, Bags, BagOf
  <1> QED
    BY <1>8, <1>11, <1>13, DoesServed DEF Works

LEMMA PQueueToSpanKeeps ==
    ASSUME VecAssumption, PQueueAssumption, PQueueInv, NEW d \in Names, Alive(d), tda_pqueue_to_span(d)
    PROVE  Works
  <1>1. PICK q, out : q = vecs[d] /\ out = Contents(q)
    OBVIOUS
  <1>2. PICK c : c = [op |-> "to_span", out |-> out] /\ PQueueEnds(c, d, q, heap, TRUE, cmps[d])
    BY <1>1 DEF tda_pqueue_to_span
  <1>3. PQueueInv'
    BY <1>1, <1>2, SameQueueEnds
  <1>4. Sound(q) /\ Queues!Counted(out) = BagOf(vecs[d])
    BY <1>1, VecSound, CountedContents DEF PQueueInv, VecInv
  <1>5. Unmoved
    BY <1>1, <1>2, <1>4, EndsBag, Staying
  <1>6. "op" \in DOMAIN c /\ c.op = "to_span" /\ "out" \in DOMAIN c \ {"d", "ok"} /\ c.out = out
    BY <1>2
  <1>7. call'.op = "to_span" /\ call'.d = d /\ call'.ok /\ call'.out = out
    BY <1>2, <1>6, CallIs
  <1>8. Queues!Served(call', BagOf(vecs[d]), cmps[d])
    BY <1>4, <1>5, <1>7 DEF Queues!Served, Unmoved, Bags, BagOf
  <1> QED
    BY <1>3, <1>7, <1>8, DoesServed DEF Works

LEMMA PQueueModsKeep ==
    ASSUME VecAssumption, PQueueAssumption, PQueueInv, NEW d \in Names, Alive(d), PQueueMods(d)
    PROVE  Works
  <1>1. CASE \E v \in Vals(vecs[d]) : tda_pqueue_push(d, v)
    BY <1>1, PQueuePushKeeps
  <1>2. CASE \E v \in Vals(vecs[d]) : tda_pqueue_replace_top(d, v)
    BY <1>2, PQueueReplaceTopKeeps
  <1>3. CASE \E src \in Spans : tda_pqueue_extend(d, src)
    BY <1>3, PQueueExtendKeeps
  <1>4. CASE tda_pqueue_pop(d)
    BY <1>4, PQueuePopKeeps
  <1>5. CASE tda_pqueue_clear(d)
    BY <1>5, PQueueClearKeeps
  <1>6. CASE tda_pqueue_shrink_to_fit(d)
    BY <1>6, PQueueShrinkKeeps
  <1>7. CASE \E cap \in Sizes : tda_pqueue_reserve(d, cap)
    BY <1>7, PQueueReserveKeeps
  <1>8. CASE tda_pqueue_top(d)
    BY <1>8, PQueueTopKeeps
  <1>9. CASE tda_pqueue_to_span(d) \/ tda_pqueue_fprint(d)
    BY <1>9, PQueueToSpanKeeps DEF tda_pqueue_fprint
  <1> QED
    BY <1>1, <1>2, <1>3, <1>4, <1>5, <1>6, <1>7, <1>8, <1>9 DEF PQueueMods

LEMMA PQueueNextWorks ==
    ASSUME VecAssumption, PQueueAssumption, PQueueInv, PQueueNext
    PROVE  Works
  <1>1. CASE \E d \in Names : PQueueLifetime(d)
    BY <1>1, PQueueMakeKeeps, PQueueDeinitKeeps, PQueueIntoVecKeeps DEF PQueueLifetime
  <1>2. CASE \E d, e \in Names : PQueuePairs(d, e)
    BY <1>2, PQueueCopyWithKeeps, PQueueCopyAssignKeeps, PQueueMoveAssignKeeps, PQueueSwapKeeps DEF PQueuePairs
  <1>3. CASE \E d \in Names : Alive(d) /\ PQueueMods(d)
    BY <1>3, PQueueModsKeep
  <1>4. CASE \E q \in raws : CallerDeinit(q)
    BY <1>4, CallerDeinitKeeps
  <1> QED
    BY <1>1, <1>2, <1>3, <1>4 DEF PQueueNext

LEMMA PQueueStepKeeps ==
    ASSUME VecAssumption, PQueueAssumption, PQueueInv, [PQueueNext]_<<vars, cmps>>
    PROVE  PQueueInv'
  <1>1. CASE PQueueNext
    BY <1>1, PQueueNextWorks DEF Works
  <1>2. CASE UNCHANGED <<vars, cmps>>
    <2>1. VecInv'
      BY <1>2, StutterKeeps DEF vars, PQueueInv
    <2> QED
      BY <1>2, <2>1 DEF vars, PQueueInv
  <1> QED
    BY <1>1, <1>2

LEMMA PQueueInitInv ==
    ASSUME VecAssumption, PQueueInit
    PROVE  PQueueInv
  <1>1. vecs = [d \in Names |-> Zeroed] /\ raws = {} /\ heap = {} /\ cmps = [d \in Names |-> Null]
    BY DEF PQueueInit, Init
  <1>2. IsVec(Zeroed) /\ Zeroed.data = Null /\ Zeroed.al = Null
    BY EmptyIsVec DEF Zeroed
  <1>3. Owners = {}
    BY <1>1, <1>2 DEF Owners
  <1>4. HeldApart
    BY <1>1, <1>3, FS_EmptySet DEF HeldApart
  <1>5. VecInv
    BY <1>1, <1>2, <1>4 DEF VecInv
  <1> QED
    BY <1>1, <1>2, <1>5 DEF PQueueInv, QueueOk

\* The heap as the elems stand in the block, counted from 1.
LEMMA HeapOfElems ==
    ASSUME NEW q, q.len \in Nat, NEW cmp, HeapVec(q, cmp), NEW i \in 1 .. q.len, NEW j \in 1 .. q.len,
           j = 2 * i \/ j = 2 * i + 1
    PROVE  cmp[Contents(q)[i]] >= cmp[Contents(q)[j]]
  <1>1. PICK a, b, k : a = i - 1 /\ b = j - 1 /\ k = KeysOf(Contents(q), q.len, cmp)
    OBVIOUS
  <1>2. a \in 0 .. q.len - 1 /\ b \in 0 .. q.len - 1 /\ a >= 0 /\ Child(a, b) /\ a + 1 = i /\ b + 1 = j
    BY <1>1 DEF Child
  <1>3. k[a] >= k[b]
    BY <1>1, <1>2 DEF HeapVec, Heaped
  <1>4. k[a] = cmp[Contents(q)[a + 1]] /\ k[b] = cmp[Contents(q)[b + 1]]
    BY <1>1, <1>2 DEF KeysOf
  <1> QED
    BY <1>2, <1>3, <1>4

LEMMA InvKeepsHeaps ==
    ASSUME VecAssumption, PQueueAssumption, PQueueInv
    PROVE  HeapKept
  <1>1. BlocksOwned
    BY InvOwnsBlocks DEF PQueueInv
  <1>2. ASSUME NEW d \in Names PROVE Alive(d) <=> cmps[d] # Null
    BY <1>2 DEF PQueueInv, QueueOk, Alive, PQueueAssumption
  <1>3. ASSUME NEW d \in Names, NEW i \in DOMAIN Contents(vecs[d]), NEW j \in DOMAIN Contents(vecs[d]),
               j \in {2 * i, 2 * i + 1}
        PROVE  cmps[d][Contents(vecs[d])[i]] >= cmps[d][Contents(vecs[d])[j]]
    <2>1. DOMAIN Contents(vecs[d]) = 1 .. vecs[d].len
      BY DEF Contents
    <2>2. vecs[d].len \in Nat
      BY VecFields DEF PQueueInv, VecInv
    <2>3. CASE Alive(d)
      BY <1>3, <2>1, <2>2, <2>3, AliveQueue, HeapOfElems
    <2>4. CASE ~Alive(d)
      <3>1. vecs[d].len = 0
        BY <2>4, DeadVec, EmptyIsVec DEF PQueueInv, Zeroed
      <3> QED
        BY <2>1, <3>1
    <2> QED
      BY <2>3, <2>4
  <1> QED
    BY <1>1, <1>2, <1>3 DEF HeapKept

\* The invariant of the queues: every block that is out has one holder, a queue or a caller,
\* every handle is a queue under a comparator or none at all, and the elems of a queue are a
\* heap under the comparator it holds.
THEOREM PQueueInvariant == PQueueSpec => []PQueueInv
  <1>1. VecAssumption /\ PQueueAssumption
    BY VecAssumption, PQueueAssumption
  <1>2. PQueueInit => PQueueInv
    BY <1>1, PQueueInitInv
  <1>3. PQueueInv /\ [PQueueNext]_<<vars, cmps>> => PQueueInv'
    BY <1>1, PQueueStepKeeps
  <1> QED
    BY <1>2, <1>3, PTL DEF PQueueSpec

\* In every run of calls on any number of queues, refused ones included, the vec of each is
\* a heap under the comparator it holds now, through push, extend in either of its two ways,
\* pop, replace_top, copies, moves and swaps, and src/ds/pqueue.c leaks no block and gives
\* none back twice or with another layout.
THEOREM PQueueKeepsHeaps == PQueueSpec => []HeapKept
  <1>1. PQueueInv => HeapKept
    BY VecAssumption, PQueueAssumption, InvKeepsHeaps
  <1> QED
    BY <1>1, PQueueInvariant, PTL

\* src/ds/pqueue.c is a bag under an order: through every call, refused ones included, push and
\* extend put in the elems they are given and pop and replace_top take out one, no elem is lost,
\* doubled or made up by a sift, a copy or a new block, and what top shows and pop and
\* replace_top give is an elem no other in the queue is greater than.
THEOREM PQueueImplements == PQueueSpec => ImplementsPQueue
  <1>1. PQueueInit => Queues!Init
    <2> SUFFICES ASSUME PQueueInit PROVE Queues!Init
      OBVIOUS
    <2>1. vecs = [d \in Names |-> Zeroed] /\ cmps = [d \in Names |-> Null] /\ call = [op |-> "none"]
      BY DEF PQueueInit, Init
    <2>2. BagOf(Zeroed) = Queues!None
      BY VecAssumption, NoneBag, EmptyIsVec DEF Zeroed
    <2>3. Bags = [d \in Names |-> Queues!None]
      BY <2>1, <2>2 DEF Bags
    <2> QED
      BY <2>1, <2>3 DEF Queues!Init, Bags, BagOf
  <1>2. PQueueInv /\ [PQueueNext]_<<vars, cmps>> => [Queues!Does(call')]_<<Bags, cmps, call>>
    <2>1. PQueueInv /\ PQueueNext => Queues!Does(call')
      BY VecAssumption, PQueueAssumption, PQueueNextWorks DEF Works
    <2>2. UNCHANGED <<vars, cmps>> => UNCHANGED <<Bags, cmps, call>>
      BY DEF vars, Bags, BagOf
    <2> QED
      BY <2>1, <2>2
  <1> QED
    BY <1>1, <1>2, PQueueInvariant, PTL DEF PQueueSpec, ImplementsPQueue, Queues!Spec, Bags, BagOf
=============================================================================
