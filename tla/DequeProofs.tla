---------------------------- MODULE DequeProofs ----------------------------
(***************************************************************************)
(* Proofs about the deque and the queue, side by side on the same           *)
(* allocators, for every SIZE_MAX, any elems and any number of handles and  *)
(* allocators.                                                              *)
(*                                                                         *)
(* A deque is argued about by the indices of its elems: a helper on the     *)
(* ring is first shown to do what it is meant to do to the elem at each     *)
(* index, wherever the seam lies, and the slots are not looked at again.    *)
(***************************************************************************)
EXTENDS Deque, LayoutProofs

Slot == Elem \cup {Garbage}

-----------------------------------------------------------------------------
(* The slots of a ring.                                                     *)

\* the head of a ring of cap slots, which may be none
Heads(cap) == 0 .. Larger(cap, 1) - 1

LEMMA HeadsAre ==
    ASSUME NEW cap \in Nat, NEW head \in Heads(cap)
    PROVE  head \in Nat /\ (cap > 0 => head < cap) /\ (cap = 0 => head = 0)
  BY DEF Heads, Larger

LEMMA HeadFits ==
    ASSUME NEW cap \in Nat, NEW head \in Nat, cap > 0 => head < cap, cap = 0 => head = 0
    PROVE  head \in Heads(cap)
  BY DEF Heads, Larger

\* Indices and slots are the same number of things, one for one.
LEMMA SlotIn ==
    ASSUME NEW q, q.cap \in Nat, q.head \in Heads(q.cap), NEW i \in 0 .. q.cap - 1
    PROVE  SlotOf(q, i) \in 0 .. q.cap - 1 /\ AliasIdx(q, SlotOf(q, i)) = i
  <1>1. PICK cap, head : cap = q.cap /\ head = q.head /\ cap \in Nat /\ head \in Nat /\ head < cap /\ i \in 0 .. cap - 1
    BY HeadsAre
  <1> QED
    BY <1>1 DEF SlotOf, AliasIdx

LEMMA IdxIn ==
    ASSUME NEW q, q.cap \in Nat, q.head \in Heads(q.cap), NEW s \in 0 .. q.cap - 1
    PROVE  AliasIdx(q, s) \in 0 .. q.cap - 1 /\ SlotOf(q, AliasIdx(q, s)) = s
  <1>1. PICK cap, head : cap = q.cap /\ head = q.head /\ cap \in Nat /\ head \in Nat /\ head < cap /\ s \in 0 .. cap - 1
    BY HeadsAre
  <1> QED
    BY <1>1 DEF SlotOf, AliasIdx

\* The head forward, as far as the ring is long at most.
LEMMA HeadForward ==
    ASSUME NEW q, q.cap \in Nat, q.head \in Heads(q.cap), NEW count \in 0 .. q.cap,
           NEW p, p.cap = q.cap, p.head = SlotFwd(q, q.head, count)
    PROVE  /\ p.head \in Heads(q.cap)
           /\ \A i \in 0 .. q.cap - count - 1 : SlotOf(p, i) = SlotOf(q, i + count)
  <1>1. PICK cap, head, new : /\ cap = q.cap /\ head = q.head /\ new = p.head /\ cap \in Nat /\ head \in Nat
                              /\ (cap > 0 => head < cap) /\ (cap = 0 => head = 0) /\ count \in 0 .. cap
    BY HeadsAre
  <1>2. new = IF count < cap - head THEN head + count ELSE count - (cap - head)
    BY <1>1 DEF SlotFwd
  <1>3. new \in Nat /\ (cap > 0 => new < cap) /\ (cap = 0 => new = 0)
    BY <1>1, <1>2
  <1>4. ASSUME NEW i \in 0 .. cap - count - 1
        PROVE  (IF i < cap - new THEN new + i ELSE i - (cap - new))
                    = (IF i + count < cap - head THEN head + (i + count) ELSE (i + count) - (cap - head))
    BY <1>1, <1>2
  <1>5. ASSUME NEW i \in 0 .. q.cap - count - 1 PROVE SlotOf(p, i) = SlotOf(q, i + count)
    BY <1>1, <1>4 DEF SlotOf
  <1> QED
    BY <1>1, <1>3, <1>5, HeadFits

\* The head back.
LEMMA HeadBack ==
    ASSUME NEW q, q.cap \in Nat, q.head \in Heads(q.cap), NEW count \in 0 .. q.cap,
           NEW p, p.cap = q.cap, p.head = SlotBack(q, q.head, count)
    PROVE  /\ p.head \in Heads(q.cap)
           /\ \A i \in 0 .. q.cap - count - 1 : SlotOf(p, i + count) = SlotOf(q, i)
  <1>1. PICK cap, head, new : /\ cap = q.cap /\ head = q.head /\ new = p.head /\ cap \in Nat /\ head \in Nat
                              /\ (cap > 0 => head < cap) /\ (cap = 0 => head = 0) /\ count \in 0 .. cap
    BY HeadsAre
  <1>2. new = IF head >= count THEN head - count ELSE head + cap - count
    BY <1>1 DEF SlotBack
  <1>3. new \in Nat /\ (cap > 0 => new < cap) /\ (cap = 0 => new = 0)
    BY <1>1, <1>2
  <1>4. ASSUME NEW i \in 0 .. cap - count - 1
        PROVE  (IF i + count < cap - new THEN new + (i + count) ELSE (i + count) - (cap - new))
                    = (IF i < cap - head THEN head + i ELSE i - (cap - head))
    BY <1>1, <1>2
  <1>5. ASSUME NEW i \in 0 .. q.cap - count - 1 PROVE SlotOf(p, i + count) = SlotOf(q, i)
    BY <1>1, <1>4 DEF SlotOf
  <1> QED
    BY <1>1, <1>3, <1>5, HeadFits

-----------------------------------------------------------------------------
(* One deque.                                                               *)

Shaped(q) ==
    q = [al |-> q.al, data |-> q.data, cap |-> q.cap, head |-> q.head, len |-> q.len, ring |-> q.ring]

\* a deque whose free slots may hold anything, and which may for the moment be longer than it should
OnRing(q) ==
    /\ Shaped(q) /\ q.cap \in Nat /\ q.len \in Nat /\ q.head \in Heads(q.cap)
    /\ q.ring \in [0 .. q.cap - 1 -> Slot]

HoldsElems(q) == \A i \in 0 .. q.len - 1 : ElemAt(q, i) \in Elem

\* what TypeOK says of each handle, but for the fields of a record
IsDeque(q) ==
    /\ OnRing(q) /\ q.al \in Als \cup {Null} /\ q.data \in Nat \cup {Null}
    /\ q.cap \in Sizes /\ q.len <= q.cap /\ (q.data = Null <=> q.cap = 0)
    /\ HoldsElems(q)
    /\ q.al = Null => q = Zeroed

\* p is on the block of q, which is not resized
InPlace(q, p) ==
    /\ Shaped(p) /\ p.al = q.al /\ p.data = q.data /\ p.cap = q.cap /\ p.head \in Heads(q.cap)
    /\ p.ring \in [0 .. q.cap - 1 -> Slot]

LEMMA BlockFields ==
    ASSUME NEW q
    PROVE  BlockOf(q).id = q.data /\ BlockOf(q).al = q.al /\ BlockOf(q).cap = q.cap
  BY DEF BlockOf

LEMMA InPlaceItself ==
    ASSUME NEW q, OnRing(q)
    PROVE  InPlace(q, q)
  BY DEF InPlace, OnRing

LEMMA InPlaceTrans ==
    ASSUME NEW q, NEW p, NEW o, InPlace(q, p), InPlace(p, o)
    PROVE  InPlace(q, o)
  BY DEF InPlace

LEMMA InPlaceOnRing ==
    ASSUME NEW q, OnRing(q), NEW p, InPlace(q, p), p.len \in Nat
    PROVE  OnRing(p)
  BY DEF InPlace, OnRing

LEMMA InPlaceIsDeque ==
    ASSUME DequeAssumption, NEW q, IsDeque(q), q.al \in Als, NEW p, InPlace(q, p),
           p.len \in 0 .. q.cap, HoldsElems(p)
    PROVE  IsDeque(p) /\ BlockOf(p) = BlockOf(q)
  <1>1. q.cap \in Nat /\ p.len \in Nat /\ p.len <= p.cap
    BY DEF IsDeque, OnRing, InPlace
  <1>2. OnRing(p)
    BY <1>1, InPlaceOnRing DEF IsDeque
  <1>3. p.al \in Als /\ p.al # Null /\ p.data = q.data /\ p.cap = q.cap
    BY DEF InPlace, DequeAssumption
  <1>4. BlockOf(p) = BlockOf(q)
    BY DEF InPlace, BlockOf
  <1>5. q.cap \in Sizes /\ q.data \in Nat \cup {Null} /\ (q.data = Null <=> q.cap = 0)
    BY DEF IsDeque
  <1> QED
    BY <1>1, <1>2, <1>3, <1>4, <1>5 DEF IsDeque

LEMMA EmptyIsDeque ==
    ASSUME DequeAssumption, NEW al \in Als \cup {Null}
    PROVE  /\ IsDeque(Empty(al)) /\ Empty(al).data = Null /\ Empty(al).al = al /\ Empty(al).cap = 0
           /\ Empty(al).head = 0 /\ Empty(al).len = 0 /\ Empty(al).ring = Blank(0)
  <1>1. PICK q, nil : q = Empty(al) /\ nil = Blank(0)
    OBVIOUS
  <1>2. q = [al |-> al, data |-> Null, cap |-> 0, head |-> 0, len |-> 0, ring |-> nil]
    BY <1>1 DEF Empty
  <1>3. /\ Shaped(q) /\ q.data = Null /\ q.al = al /\ q.cap = 0 /\ q.head = 0 /\ q.len = 0 /\ q.ring = nil
    BY <1>2 DEF Shaped
  <1>4. nil \in [0 .. 0 - 1 -> Slot]
    BY <1>1 DEF Blank, Slot
  <1>5. OnRing(q)
    BY <1>3, <1>4 DEF OnRing, Heads, Larger
  <1>6. HoldsElems(q)
    BY <1>3 DEF HoldsElems
  <1>7. 0 \in Sizes
    BY DEF Sizes, DequeAssumption
  <1>8. al = Null => q = Zeroed
    BY <1>1 DEF Zeroed
  <1> QED
    BY <1>1, <1>3, <1>5, <1>6, <1>7, <1>8 DEF IsDeque

\* Another ring, another length, another head on the same block.
LEMMA RingChanges ==
    ASSUME NEW q, OnRing(q), NEW ring \in [0 .. q.cap - 1 -> Slot], NEW p, p = [q EXCEPT !.ring = ring]
    PROVE  InPlace(q, p) /\ p.len = q.len /\ p.head = q.head /\ p.ring = ring /\ p.cap = q.cap
  BY DEF OnRing, Shaped, InPlace

WithLen(q, n) == [q EXCEPT !.len = n]

LEMMA LenChanges ==
    ASSUME NEW q, OnRing(q), NEW n, NEW p, p = WithLen(q, n)
    PROVE  InPlace(q, p) /\ p.len = n /\ p.head = q.head /\ p.ring = q.ring /\ p.cap = q.cap
  BY DEF OnRing, Shaped, InPlace, WithLen

WithSlot(q, s, x) == [q EXCEPT !.ring[s] = x]

WithHead(q, head) == [q EXCEPT !.head = head]

LEMMA HeadChanges ==
    ASSUME NEW q, OnRing(q), NEW head \in Heads(q.cap), NEW p, p = WithHead(q, head)
    PROVE  InPlace(q, p) /\ p.len = q.len /\ p.head = head /\ p.ring = q.ring /\ p.cap = q.cap
  BY DEF OnRing, Shaped, InPlace, WithHead

\* The slots lie where the capacity and the head put them.
LEMMA SameSlots ==
    ASSUME NEW q, NEW p, p.cap = q.cap, p.head = q.head, NEW i
    PROVE  SlotOf(p, i) = SlotOf(q, i) /\ AliasIdx(p, i) = AliasIdx(q, i)
  BY DEF SlotOf, AliasIdx

LEMMA SameElems ==
    ASSUME NEW q, NEW p, p.cap = q.cap, p.head = q.head, p.ring = q.ring, NEW i
    PROVE  ElemAt(p, i) = ElemAt(q, i)
  BY SameSlots DEF ElemAt

\* What is at any index is a slot's.
LEMMA ElemIn ==
    ASSUME NEW q, OnRing(q), NEW i \in 0 .. q.cap - 1
    PROVE  ElemAt(q, i) \in Slot
  BY SlotIn DEF ElemAt, OnRing

\* A ring changed by index: f says what each index holds.
LEMMA RingByIndex ==
    ASSUME NEW q, OnRing(q), NEW p, p.cap = q.cap, p.head = q.head, NEW f,
           p.ring = [s \in 0 .. q.cap - 1 |-> f[AliasIdx(q, s)]], NEW i \in 0 .. q.cap - 1
    PROVE  ElemAt(p, i) = f[i]
  <1>1. PICK s : s = SlotOf(q, i) /\ s \in 0 .. q.cap - 1 /\ AliasIdx(q, s) = i
    BY SlotIn DEF OnRing
  <1>2. ElemAt(p, i) = p.ring[s]
    BY <1>1, SameSlots DEF ElemAt
  <1> QED
    BY <1>1, <1>2

-----------------------------------------------------------------------------
(* Moves and copies within a ring, and from outside.                        *)

\* Every elem moves at once, also where the ranges overlap or cross the seam.
LEMMA ElemsMoved ==
    ASSUME NEW q, OnRing(q), NEW to \in Nat, NEW from \in Nat, NEW count \in Nat, from + count <= q.cap,
           NEW p, p = MoveElems(q, to, from, count)
    PROVE  /\ InPlace(q, p) /\ p.len = q.len /\ p.head = q.head
           /\ \A i \in 0 .. q.cap - 1 :
                 ElemAt(p, i) = IF i \in to .. to + count - 1 THEN ElemAt(q, from + (i - to)) ELSE ElemAt(q, i)
  <1>1. PICK cap \in Nat : cap = q.cap /\ DOMAIN q.ring = 0 .. cap - 1 /\ q.ring \in [0 .. cap - 1 -> Slot]
    BY DEF OnRing
  <1>2. PICK f : f = [i \in 0 .. cap - 1 |->
                        IF i \in to .. to + count - 1 THEN ElemAt(q, from + (i - to)) ELSE ElemAt(q, i)]
    OBVIOUS
  <1>3. PICK ring : ring = [s \in 0 .. cap - 1 |-> IF AliasIdx(q, s) \in to .. to + count - 1
                                               THEN ElemAt(q, from + (AliasIdx(q, s) - to)) ELSE q.ring[s]]
    OBVIOUS
  <1>4. p = [q EXCEPT !.ring = ring]
    BY <1>1, <1>3 DEF MoveElems
  <1>5. ASSUME NEW s \in 0 .. cap - 1 PROVE ring[s] = f[AliasIdx(q, s)] /\ ring[s] \in Slot
    <2>1. PICK i : i = AliasIdx(q, s) /\ i \in 0 .. cap - 1 /\ SlotOf(q, i) = s
      BY <1>1, IdxIn DEF OnRing
    <2>2. ElemAt(q, i) = q.ring[s] /\ q.ring[s] \in Slot
      BY <1>1, <2>1 DEF ElemAt
    <2>3. CASE i \in to .. to + count - 1
      <3>1. PICK j : j = from + (i - to) /\ j \in 0 .. cap - 1
        BY <1>1, <2>1, <2>3
      <3>2. ring[s] = ElemAt(q, j) /\ f[i] = ElemAt(q, j)
        BY <1>2, <1>3, <2>1, <2>3, <3>1
      <3> QED
        BY <1>1, <2>1, <3>1, <3>2, ElemIn
    <2>4. CASE i \notin to .. to + count - 1
      BY <1>2, <1>3, <2>1, <2>2, <2>4
    <2> QED
      BY <2>3, <2>4
  <1>6. ring \in [0 .. q.cap - 1 -> Slot] /\ ring = [s \in 0 .. q.cap - 1 |-> f[AliasIdx(q, s)]]
    BY <1>1, <1>3, <1>5
  <1>7. InPlace(q, p) /\ p.len = q.len /\ p.head = q.head /\ p.ring = ring /\ p.cap = q.cap
    BY <1>4, <1>6, RingChanges
  <1>8. ASSUME NEW i \in 0 .. q.cap - 1 PROVE ElemAt(p, i) = f[i]
    BY <1>6, <1>7, RingByIndex
  <1> QED
    BY <1>1, <1>2, <1>7, <1>8

\* A slot written.
LEMMA SlotWritten ==
    ASSUME NEW q, OnRing(q), NEW s \in 0 .. q.cap - 1, NEW x \in Slot, NEW p, p = WithSlot(q, s, x)
    PROVE  /\ InPlace(q, p) /\ p.len = q.len /\ p.head = q.head /\ p.cap = q.cap
           /\ p.ring = [q.ring EXCEPT ![s] = x]
  <1>1. PICK ring : ring = [q.ring EXCEPT ![s] = x]
    OBVIOUS
  <1>2. p = [q EXCEPT !.ring = ring]
    BY <1>1 DEF OnRing, Shaped, WithSlot
  <1>3. ring \in [0 .. q.cap - 1 -> Slot]
    BY <1>1 DEF OnRing
  <1>4. InPlace(q, p) /\ p.len = q.len /\ p.head = q.head /\ p.ring = ring /\ p.cap = q.cap
    BY <1>2, <1>3, RingChanges
  <1> QED
    BY <1>1, <1>4

\* An elem set.
LEMMA ElemSet ==
    ASSUME NEW q, OnRing(q), NEW to \in 0 .. q.cap - 1, NEW x \in Slot,
           NEW p, p = WithSlot(q, SlotOf(q, to), x)
    PROVE  /\ InPlace(q, p) /\ p.len = q.len /\ p.head = q.head
           /\ \A i \in 0 .. q.cap - 1 : ElemAt(p, i) = IF i = to THEN x ELSE ElemAt(q, i)
  <1>1. SlotOf(q, to) \in 0 .. q.cap - 1 /\ AliasIdx(q, SlotOf(q, to)) = to
    BY SlotIn DEF OnRing
  <1>2. PICK s : s = SlotOf(q, to)
    OBVIOUS
  <1>3. s \in 0 .. q.cap - 1 /\ AliasIdx(q, s) = to /\ p = WithSlot(q, s, x)
    BY <1>1, <1>2
  <1>4. /\ InPlace(q, p) /\ p.len = q.len /\ p.head = q.head /\ p.cap = q.cap
        /\ p.ring = [q.ring EXCEPT ![s] = x]
    BY <1>3, SlotWritten
  <1>5. ASSUME NEW i \in 0 .. q.cap - 1 PROVE ElemAt(p, i) = IF i = to THEN x ELSE ElemAt(q, i)
    <2>1. SlotOf(q, i) \in 0 .. q.cap - 1 /\ AliasIdx(q, SlotOf(q, i)) = i
      BY SlotIn DEF OnRing
    <2>2. PICK r : r = SlotOf(q, i)
      OBVIOUS
    <2>3. p.cap = q.cap /\ p.head = q.head
      BY <1>4
    <2>4. SlotOf(p, i) = r
      BY <2>2, <2>3, SameSlots
    <2>5. ElemAt(p, i) = p.ring[r] /\ ElemAt(q, i) = q.ring[r]
      BY <2>2, <2>4 DEF ElemAt
    <2>6. r \in 0 .. q.cap - 1 /\ (i = to <=> r = s)
      BY <1>2, <1>3, <2>1, <2>2
    <2> QED
      BY <1>4, <2>5, <2>6, <1>3 DEF OnRing
  <1> QED
    BY <1>4, <1>5

\* One elem over another.
LEMMA ElemMoved ==
    ASSUME NEW q, OnRing(q), NEW to \in 0 .. q.cap - 1, NEW from \in 0 .. q.cap - 1,
           NEW p, p = MoveElem(q, to, from)
    PROVE  /\ InPlace(q, p) /\ p.len = q.len /\ p.head = q.head
           /\ \A i \in 0 .. q.cap - 1 : ElemAt(p, i) = IF i = to THEN ElemAt(q, from) ELSE ElemAt(q, i)
  <1>1. PICK x : x = ElemAt(q, from) /\ x \in Slot
    BY ElemIn
  <1>2. p = WithSlot(q, SlotOf(q, to), x)
    BY <1>1 DEF MoveElem, WithSlot
  <1>3. /\ InPlace(q, p) /\ p.len = q.len /\ p.head = q.head
        /\ \A i \in 0 .. q.cap - 1 : ElemAt(p, i) = IF i = to THEN x ELSE ElemAt(q, i)
    BY <1>1, <1>2, ElemSet
  <1> QED
    BY <1>1, <1>3

\* The elems in at most two runs, at the start of another block.
LEMMA CopiedOut ==
    ASSUME NEW q, OnRing(q), q.len <= q.cap, HoldsElems(q), NEW cap \in Nat, NEW ring, ring = CopyOut(q, cap)
    PROVE  /\ ring \in [0 .. cap - 1 -> Slot]
           /\ \A i \in 0 .. q.len - 1 : i < cap => ring[i] = ElemAt(q, i)
  <1>1. PICK room, head, len, run :
           /\ room = q.cap - head /\ head = q.head /\ len = q.len /\ run = FirstRun(q)
           /\ room \in Int /\ head \in Nat /\ len \in Nat
    BY HeadsAre DEF OnRing
  <1>2. run = IF room < len THEN room ELSE len
    BY <1>1 DEF FirstRun, RunFrom
  <1>3. ring = [s \in 0 .. cap - 1 |-> IF s < run THEN q.ring[head + s]
                                     ELSE IF s < len THEN q.ring[s - run] ELSE Garbage]
    BY <1>1 DEF CopyOut
  <1>4. ASSUME NEW i \in 0 .. cap - 1, i < len PROVE ring[i] = ElemAt(q, i) /\ ring[i] \in Slot
    <2>1. SlotOf(q, i) = IF i < run THEN head + i ELSE i - run
      BY <1>1, <1>2, <1>4 DEF SlotOf
    <2>2. ring[i] = q.ring[SlotOf(q, i)]
      BY <1>3, <1>4, <2>1
    <2>3. ElemAt(q, i) \in Elem
      BY <1>1, <1>4 DEF HoldsElems
    <2> QED
      BY <2>2, <2>3 DEF ElemAt, Slot
  <1>5. ASSUME NEW i \in 0 .. cap - 1, ~(i < len) PROVE ring[i] \in Slot
    BY <1>1, <1>2, <1>3, <1>5 DEF Slot
  <1>6. ring \in [0 .. cap - 1 -> Slot]
    BY <1>3, <1>4, <1>5
  <1> QED
    BY <1>1, <1>4, <1>6

\* which index the slot s has, of those written in two runs, slot being the first and idx its index
Covers(idx, n, slot, run, i, s) ==
    IF s \in slot .. slot + run - 1 THEN i \in idx .. idx + n - 1 /\ s - slot + 1 = i - idx + 1
    ELSE IF s < n - run THEN i \in idx .. idx + n - 1 /\ run + s + 1 = i - idx + 1
    ELSE i \notin idx .. idx + n - 1

LEMMA RunsCover ==
    ASSUME NEW cap \in Nat, NEW head \in Nat, head < cap, NEW idx \in Nat, NEW n \in Nat, n > 0, idx + n <= cap,
           NEW slot, slot = (IF idx < cap - head THEN head + idx ELSE idx - (cap - head)),
           NEW run, run = (IF cap - slot < n THEN cap - slot ELSE n),
           NEW i \in 0 .. cap - 1, NEW s, s = (IF i < cap - head THEN head + i ELSE i - (cap - head))
    PROVE  Covers(idx, n, slot, run, i, s)
  <1>1. slot \in 0 .. cap - 1 /\ run \in 0 .. n /\ s \in 0 .. cap - 1
    OBVIOUS
  <1>2. CASE s \in slot .. slot + run - 1
    BY <1>1, <1>2 DEF Covers
  <1>3. CASE s \notin slot .. slot + run - 1 /\ s < n - run
    BY <1>1, <1>3 DEF Covers
  <1>4. CASE s \notin slot .. slot + run - 1 /\ ~(s < n - run)
    BY <1>1, <1>4 DEF Covers
  <1> QED
    BY <1>2, <1>3, <1>4

\* A caller's elems over those from idx on.
LEMMA CopiedIn ==
    ASSUME NEW q, OnRing(q), NEW idx \in Nat, NEW n \in Nat, idx + n <= q.cap, NEW src \in [1 .. n -> Elem],
           NEW p, p = CopyRangeIn(q, idx, src)
    PROVE  /\ InPlace(q, p) /\ p.len = q.len /\ p.head = q.head
           /\ \A i \in 0 .. q.cap - 1 :
                 ElemAt(p, i) = IF i \in idx .. idx + n - 1 THEN src[i - idx + 1] ELSE ElemAt(q, i)
  <1>1. Len(src) = n /\ (src = <<>> <=> n = 0)
    OBVIOUS
  <1>2. CASE n = 0
    <2>1. p = q
      BY <1>1, <1>2 DEF CopyRangeIn
    <2>2. \A i \in 0 .. q.cap - 1 : i \notin idx .. idx + n - 1
      BY <1>2
    <2> QED
      BY <2>1, <2>2, InPlaceItself
  <1>3. CASE n # 0
    <2>1. PICK cap, head : /\ cap = q.cap /\ head = q.head /\ cap \in Nat /\ head \in Nat /\ head < cap /\ n > 0
                           /\ idx + n <= cap
      BY <1>3, HeadsAre DEF OnRing
    <2>2. PICK slot, run : slot = SlotOf(q, idx) /\ run = RunFrom(q, slot, n)
      OBVIOUS
    <2>3. /\ slot = (IF idx < cap - head THEN head + idx ELSE idx - (cap - head))
          /\ run = (IF cap - slot < n THEN cap - slot ELSE n)
      BY <2>1, <2>2 DEF SlotOf, RunFrom
    <2>4. PICK ring : ring = [s \in 0 .. cap - 1 |->
                                IF s \in slot .. slot + run - 1 THEN src[s - slot + 1]
                                ELSE IF s < n - run THEN src[run + s + 1] ELSE q.ring[s]]
      OBVIOUS
    <2>5. DOMAIN q.ring = 0 .. cap - 1
      BY <2>1 DEF OnRing
    <2>6. p = [q EXCEPT !.ring = ring]
      BY <1>1, <1>3, <2>2, <2>4, <2>5 DEF CopyRangeIn
    <2>7. PICK f : f = [i \in 0 .. cap - 1 |-> IF i \in idx .. idx + n - 1 THEN src[i - idx + 1] ELSE ElemAt(q, i)]
      OBVIOUS
    <2>8. ASSUME NEW s \in 0 .. cap - 1 PROVE ring[s] = f[AliasIdx(q, s)] /\ ring[s] \in Slot
      <3>1. AliasIdx(q, s) \in 0 .. q.cap - 1 /\ SlotOf(q, AliasIdx(q, s)) = s
        BY <2>1, IdxIn DEF OnRing
      <3>2. PICK i : i = AliasIdx(q, s) /\ i \in 0 .. cap - 1 /\ SlotOf(q, i) = s
        BY <2>1, <3>1
      <3>3. s = (IF i < cap - head THEN head + i ELSE i - (cap - head))
        BY <2>1, <3>2 DEF SlotOf
      <3>4. Covers(idx, n, slot, run, i, s)
        BY <2>1, <2>3, <3>2, <3>3, RunsCover
      <3>5. ElemAt(q, i) = q.ring[s] /\ q.ring[s] \in Slot
        BY <2>1, <3>2 DEF ElemAt, OnRing
      <3>6. CASE i \in idx .. idx + n - 1
        <4>1. PICK k : k = i - idx + 1 /\ k \in 1 .. n
          BY <3>2, <3>6
        <4>2. ring[s] = src[k]
          BY <2>4, <3>4, <3>6, <4>1 DEF Covers
        <4>3. f[i] = src[k]
          BY <2>7, <3>2, <3>6, <4>1
        <4> QED
          BY <3>2, <4>1, <4>2, <4>3 DEF Slot
      <3>7. CASE i \notin idx .. idx + n - 1
        <4>1. ring[s] = q.ring[s]
          BY <2>4, <3>4, <3>7 DEF Covers
        <4>2. f[i] = ElemAt(q, i)
          BY <2>7, <3>2, <3>7
        <4> QED
          BY <3>2, <3>5, <4>1, <4>2
      <3> QED
        BY <3>6, <3>7
    <2>9. ring \in [0 .. q.cap - 1 -> Slot] /\ ring = [s \in 0 .. q.cap - 1 |-> f[AliasIdx(q, s)]]
      <3>1. ring = [s \in 0 .. cap - 1 |-> ring[s]]
        BY <2>4
      <3> QED
        BY <2>1, <2>8, <3>1
    <2>10. InPlace(q, p) /\ p.len = q.len /\ p.head = q.head /\ p.ring = ring /\ p.cap = q.cap
      BY <2>6, <2>9, RingChanges
    <2>11. ASSUME NEW i \in 0 .. q.cap - 1 PROVE ElemAt(p, i) = f[i]
      BY <2>9, <2>10, RingByIndex
    <2> QED
      BY <2>1, <2>7, <2>10, <2>11
  <1> QED
    BY <1>2, <1>3

\* Forgetting what the free slots hold changes neither the elems nor the block.
LEMMA TidyKeeps ==
    ASSUME NEW q, OnRing(q), q.len <= q.cap, NEW p, p = Tidy(q)
    PROVE  /\ InPlace(q, p) /\ p.len = q.len /\ p.head = q.head
           /\ \A i \in 0 .. q.len - 1 : ElemAt(p, i) = ElemAt(q, i)
  <1>1. PICK used : used = {SlotOf(q, i) : i \in 0 .. q.len - 1}
    OBVIOUS
  <1>2. PICK ring : ring = [s \in 0 .. q.cap - 1 |-> IF s \in used THEN q.ring[s] ELSE Garbage]
    OBVIOUS
  <1>3. p = [q EXCEPT !.ring = ring]
    BY <1>1, <1>2 DEF Tidy, OnRing
  <1>4. ring \in [0 .. q.cap - 1 -> Slot]
    BY <1>2 DEF OnRing, Slot
  <1>5. InPlace(q, p) /\ p.len = q.len /\ p.head = q.head /\ p.ring = ring /\ p.cap = q.cap
    BY <1>3, <1>4, RingChanges
  <1>6. ASSUME NEW i \in 0 .. q.len - 1 PROVE ElemAt(p, i) = ElemAt(q, i)
    <2>1. i \in 0 .. q.cap - 1
      BY DEF OnRing
    <2>2. PICK s : s = SlotOf(q, i) /\ s \in 0 .. q.cap - 1 /\ s \in used
      BY <1>1, <2>1, SlotIn DEF OnRing
    <2>3. p.cap = q.cap /\ p.head = q.head
      BY <1>5
    <2>4. SlotOf(p, i) = s
      BY <2>2, <2>3, SameSlots
    <2> QED
      BY <1>2, <1>5, <2>2, <2>4 DEF ElemAt
  <1> QED
    BY <1>5, <1>6

LEMMA TidyIsDeque ==
    ASSUME DequeAssumption, NEW q, IsDeque(q)
    PROVE  /\ IsDeque(Tidy(q)) /\ Tidy(q).data = q.data /\ Tidy(q).al = q.al
           /\ Tidy(q).cap = q.cap /\ Tidy(q).len = q.len /\ BlockOf(Tidy(q)) = BlockOf(q)
  <1>1. PICK p : p = Tidy(q)
    OBVIOUS
  <1>2. OnRing(q) /\ q.len <= q.cap /\ HoldsElems(q) /\ q.len \in Nat /\ q.cap \in Nat
    BY DEF IsDeque, OnRing
  <1>3. /\ InPlace(q, p) /\ p.len = q.len /\ p.head = q.head
        /\ \A i \in 0 .. q.len - 1 : ElemAt(p, i) = ElemAt(q, i)
    BY <1>1, <1>2, TidyKeeps
  <1>4. p.data = q.data /\ p.al = q.al /\ p.cap = q.cap
    BY <1>3 DEF InPlace
  <1>5. CASE q.al = Null
    <2>1. q = Zeroed
      BY <1>5 DEF IsDeque
    <2>2. q.cap = 0
      BY <2>1, EmptyIsDeque DEF Zeroed
    <2>3. p.ring \in [0 .. 0 - 1 -> Slot] /\ q.ring \in [0 .. 0 - 1 -> Slot]
      BY <1>2, <1>3, <2>2 DEF InPlace, OnRing
    <2>4. p.ring = q.ring
      BY <2>3
    <2>5. Shaped(p) /\ Shaped(q)
      BY <1>2, <1>3 DEF InPlace, OnRing
    <2>6. p = q
      BY <1>3, <1>4, <2>4, <2>5 DEF Shaped
    <2> QED
      BY <1>1, <1>4, <2>6
  <1>6. CASE q.al # Null
    <2>1. q.al \in Als
      BY <1>6 DEF IsDeque
    <2>2. p.len \in 0 .. q.cap /\ HoldsElems(p)
      BY <1>2, <1>3 DEF HoldsElems
    <2>3. IsDeque(p) /\ BlockOf(p) = BlockOf(q)
      BY <1>3, <2>1, <2>2, InPlaceIsDeque
    <2> QED
      BY <1>1, <1>3, <1>4, <2>3
  <1> QED
    BY <1>5, <1>6

-----------------------------------------------------------------------------
(* The invariant.  HeldOnce counts the blocks; what an operation needs and  *)
(* keeps is that no two deques have a block of the same number.             *)

Owners == {d \in Names : deques[d].data # Null}

HeldApart ==
    /\ heap = {BlockOf(deques[d]) : d \in Owners}
    /\ \A d, e \in Owners : deques[d].data = deques[e].data => d = e

DequeInv ==
    /\ deques = [d \in Names |-> deques[d]]
    /\ \A d \in Names : IsDeque(deques[d])
    /\ HeldApart

LEMMA DequeFields ==
    ASSUME DequeAssumption, NEW q, IsDeque(q)
    PROVE  /\ OnRing(q) /\ q.al \in Als \cup {Null} /\ q.data \in Nat \cup {Null}
           /\ q.cap \in Sizes /\ q.cap \in Nat /\ q.len \in Nat /\ q.len <= q.cap
           /\ (q.data = Null <=> q.cap = 0) /\ HoldsElems(q)
           /\ q.al = Null => q = Zeroed
           /\ q.cap <= SizeMax /\ SizeMax \in Nat
  <1>1. q.cap \in Sizes /\ SizeMax \in Nat
    BY DEF IsDeque, DequeAssumption
  <1>2. q.cap \in Nat /\ q.cap <= SizeMax
    BY <1>1 DEF Sizes
  <1> QED
    BY <1>1, <1>2 DEF IsDeque, OnRing

\* The blocks that are out are as many as they have holders, and their numbers are numbers.
LEMMA HeapFinite ==
    ASSUME DequeAssumption, DequeInv
    PROVE  /\ IsFiniteSet(heap) /\ \A b \in heap : b.id \in Nat
           /\ Cardinality(heap) = Cardinality(Owners)
  <1> DEFINE f == [d \in Owners |-> BlockOf(deques[d])]
             F == {f[d] : d \in Owners}
  <1>1. IsFiniteSet(Owners)
    BY FS_Subset DEF Owners, DequeAssumption
  <1>2. \A d, e \in Owners : f[d] = f[e] => d = e
    BY BlockFields DEF DequeInv, HeldApart
  <1>3. f = [d \in Owners |-> f[d]] /\ heap = F
    BY DEF DequeInv, HeldApart
  <1> HIDE DEF f
  <1>4. IsFiniteSet(F) /\ Cardinality(F) = Cardinality(Owners)
    BY <1>1, <1>2, <1>3, OneEach
  <1>5. ASSUME NEW b \in heap PROVE b.id \in Nat
    <2>1. PICK d \in Owners : b = BlockOf(deques[d])
      BY DEF DequeInv, HeldApart
    <2> QED
      BY <2>1, BlockFields, DequeFields DEF DequeInv, Owners
  <1> QED
    BY <1>3, <1>4, <1>5

\* A block that an allocator serves is one that is not out.
LEMMA FreshIdIsFresh ==
    ASSUME DequeAssumption, DequeInv
    PROVE  FreshId(heap) \in Nat /\ \A b \in heap : b.id # FreshId(heap)
  <1>1. \E id \in 1 .. Cardinality(heap) + 1 : \A b \in heap : b.id # id
    BY HeapFinite, FreshNumber
  <1>2. /\ FreshId(heap) \in 1 .. Cardinality(heap) + 1
        /\ \A b \in heap : b.id # FreshId(heap)
    BY <1>1 DEF FreshId
  <1>3. Cardinality(heap) \in Nat
    BY HeapFinite, FS_CardinalityType
  <1> QED
    BY <1>2, <1>3

\* the heap once the deque p has become q
HeapWith(p, q) == (heap \ {BlockOf(p)}) \cup IF q.data = Null THEN {} ELSE {BlockOf(q)}

\* the block of q is that of p, perhaps resized, or one that was not out, or there is none
FromBlock(p, q) == q.data \in {Null, p.data} \/ \A b \in heap : b.id # q.data

\* A step that leaves d a sound deque, on its own block, a fresh one or none, keeps all.
LEMMA OneChanges ==
    ASSUME DequeAssumption, DequeInv, NEW d \in Names, NEW q, IsDeque(q), FromBlock(deques[d], q),
           deques' = [deques EXCEPT ![d] = q], heap' = HeapWith(deques[d], q)
    PROVE  DequeInv'
  <1>1. deques'[d] = q /\ \A e \in Names : e # d => deques'[e] = deques[e]
    BY DEF DequeInv
  <1>2. (deques = [e \in Names |-> deques[e]])'
    BY DEF DequeInv
  <1>3. \A e \in Names : IsDeque(deques'[e])
    BY <1>1 DEF DequeInv
  <1>4. \A e \in Names : e # d => (e \in Owners' <=> e \in Owners)
    BY <1>1 DEF Owners
  <1>5. d \in Owners' <=> q.data # Null
    BY <1>1 DEF Owners
  <1>6. ASSUME NEW e \in Owners, e # d
        PROVE  BlockOf(deques[e]) \in heap' /\ (q.data # Null => deques[e].data # q.data)
    <2>1. BlockOf(deques[e]) \in heap /\ BlockOf(deques[e]).id = deques[e].data
      BY BlockFields DEF DequeInv, HeldApart
    <2>2. e \in Names /\ deques[e].data # Null
      BY DEF Owners
    <2>3. deques[e].data # deques[d].data
      BY <1>6, <2>2 DEF DequeInv, HeldApart, Owners
    <2>4. BlockOf(deques[e]) # BlockOf(deques[d])
      BY <2>3, BlockFields
    <2> QED
      BY <2>1, <2>2, <2>3, <2>4 DEF HeapWith, FromBlock
  <1>7. ASSUME NEW b \in heap' PROVE \E e \in Owners' : b = BlockOf(deques'[e])
    <2>1. CASE b \in heap /\ b # BlockOf(deques[d])
      <3>1. PICK e \in Owners : b = BlockOf(deques[e])
        BY <2>1 DEF DequeInv, HeldApart
      <3>2. e # d /\ e \in Names
        BY <2>1, <3>1 DEF Owners
      <3> QED
        BY <1>1, <1>4, <3>1, <3>2
    <2>2. CASE b = BlockOf(q) /\ q.data # Null
      BY <1>1, <1>5, <2>2
    <2> QED
      BY <1>7, <2>1, <2>2 DEF HeapWith
  <1>8. ASSUME NEW e \in Owners' PROVE BlockOf(deques'[e]) \in heap'
    <2>1. CASE e = d
      BY <1>1, <1>5, <2>1 DEF HeapWith
    <2>2. CASE e # d
      <3>1. e \in Names
        BY DEF Owners
      <3> QED
        BY <1>1, <1>4, <1>6, <2>2, <3>1
    <2> QED
      BY <2>1, <2>2
  <1>9. heap' = {BlockOf(deques'[e]) : e \in Owners'}
    BY <1>7, <1>8
  <1>10. ASSUME NEW e \in Owners', NEW f \in Owners', deques'[e].data = deques'[f].data PROVE e = f
    <2>1. e \in Names /\ f \in Names
      BY DEF Owners
    <2> QED
      BY <1>1, <1>4, <1>5, <1>6, <1>10, <2>1 DEF DequeInv, HeldApart
  <1>11. HeldApart'
    BY <1>9, <1>10 DEF HeldApart, BlockOf
  <1> QED
    BY <1>2, <1>3, <1>11 DEF DequeInv

\* A step that changes neither handle nor block keeps all.
LEMMA StutterKeeps ==
    ASSUME DequeInv, deques' = deques, heap' = heap
    PROVE  DequeInv'
  BY DEF DequeInv, HeldApart, Owners

\* No block that is out has the number of a deque without one.
LEMMA NoBlock ==
    ASSUME DequeAssumption, DequeInv, NEW q, q.data = Null
    PROVE  FreeBlock(q, heap) = heap
  <1>1. BlockOf(q) \notin heap
    BY BlockFields, HeapFinite DEF DequeAssumption
  <1> QED
    BY <1>1 DEF FreeBlock

\* an outcome that leaves a sound deque and its block, and nothing else changed
Good(p, r) == IsDeque(r.q) /\ FromBlock(p, r.q) /\ r.heap = HeapWith(p, r.q)

LEMMA EndsKeeps ==
    ASSUME DequeAssumption, DequeInv, NEW d \in Names, NEW r, Good(deques[d], r), NEW c, NEW ok,
           Ends(c, d, r.q, r.heap, ok)
    PROVE  DequeInv'
  <1>1. deques' = [deques EXCEPT ![d] = Tidy(r.q)] /\ heap' = r.heap
    BY DEF Ends
  <1>2. /\ IsDeque(Tidy(r.q)) /\ Tidy(r.q).data = r.q.data /\ BlockOf(Tidy(r.q)) = BlockOf(r.q)
    BY TidyIsDeque DEF Good
  <1>3. FromBlock(deques[d], Tidy(r.q)) /\ heap' = HeapWith(deques[d], Tidy(r.q))
    BY <1>1, <1>2 DEF Good, FromBlock, HeapWith
  <1> QED
    BY <1>1, <1>2, <1>3, OneChanges

\* A deque on the block it had leaves the heap as it was.
LEMMA SameBlock ==
    ASSUME DequeAssumption, DequeInv, NEW d \in Names, NEW q, BlockOf(q) = BlockOf(deques[d])
    PROVE  HeapWith(deques[d], q) = heap /\ FromBlock(deques[d], q)
  <1>1. q.data = deques[d].data
    BY BlockFields
  <1>2. CASE q.data = Null
    <2>1. BlockOf(deques[d]) \notin heap
      BY <1>1, <1>2, BlockFields, HeapFinite DEF DequeAssumption
    <2> QED
      BY <1>1, <1>2, <2>1 DEF HeapWith, FromBlock
  <1>3. CASE q.data # Null
    <2>1. BlockOf(deques[d]) \in heap
      BY <1>1, <1>3 DEF DequeInv, HeldApart, Owners
    <2> QED
      BY <1>1, <1>3, <2>1 DEF HeapWith, FromBlock
  <1> QED
    BY <1>2, <1>3

LEMMA SameIsGood ==
    ASSUME DequeAssumption, DequeInv, NEW d \in Names, NEW r, r.q = deques[d], r.heap = heap
    PROVE  Good(deques[d], r)
  BY SameBlock DEF Good, DequeInv

\* An outcome whose elems are then rearranged within the block it has is good all the same.
LEMMA InPlaceIsGood ==
    ASSUME DequeAssumption, DequeInv, NEW d \in Names, NEW q, IsDeque(q), q.al \in Als,
           FromBlock(deques[d], q), NEW r, InPlace(q, r.q), r.q.len \in 0 .. q.cap,
           HoldsElems(r.q), r.heap = HeapWith(deques[d], q)
    PROVE  Good(deques[d], r)
  <1>1. IsDeque(r.q) /\ BlockOf(r.q) = BlockOf(q)
    BY InPlaceIsDeque
  <1>2. r.q.data = q.data
    BY DEF InPlace
  <1> QED
    BY <1>1, <1>2 DEF Good, FromBlock, HeapWith

\* The same for a call that has no need of memory.
LEMMA EndsOkKeeps ==
    ASSUME DequeAssumption, DequeInv, NEW d \in Names, Alive(d), NEW p, InPlace(deques[d], p),
           p.len \in 0 .. deques[d].cap, HoldsElems(p), NEW c, EndsOk(c, d, p)
    PROVE  DequeInv'
  <1> DEFINE r == [q |-> p, heap |-> heap]
  <1>1. IsDeque(deques[d]) /\ deques[d].al \in Als
    BY DequeFields DEF DequeInv, Alive
  <1>2. IsDeque(p) /\ BlockOf(p) = BlockOf(deques[d])
    BY <1>1, InPlaceIsDeque
  <1>3. r.q = p /\ r.heap = heap
    OBVIOUS
  <1> HIDE DEF r
  <1>4. Good(deques[d], r)
    BY <1>2, <1>3, SameBlock DEF Good
  <1> QED
    BY <1>3, <1>4, EndsKeeps DEF EndsOk

\* What is known of a handle that has an allocator.
LEMMA AliveDeque ==
    ASSUME DequeAssumption, DequeInv, NEW d \in Names, Alive(d), NEW q, q = deques[d]
    PROVE  /\ IsDeque(q) /\ q.al \in Als /\ OnRing(q) /\ q.cap \in Nat /\ q.len \in Nat /\ q.len <= q.cap
           /\ q.len \in 0 .. q.cap /\ HoldsElems(q)
  <1>1. IsDeque(q) /\ q.al # Null
    BY DEF DequeInv, Alive
  <1> QED
    BY <1>1, DequeFields

\* What a call that only reads needs.
LEMMA ReadsKeep ==
    ASSUME DequeAssumption, DequeInv, NEW d \in Names, Alive(d), NEW c, EndsOk(c, d, deques[d])
    PROVE  DequeInv'
  <1>1. PICK q : q = deques[d]
    OBVIOUS
  <1>2. InPlace(q, q) /\ q.len \in 0 .. q.cap /\ HoldsElems(q)
    BY <1>1, AliveDeque, InPlaceItself
  <1> QED
    BY <1>1, <1>2, EndsOkKeeps

-----------------------------------------------------------------------------
(* Growth.                                                                  *)

IsOutcome(r) == r = Outcome(r.q, r.heap, r.ok)

Refused(q, r) == ~r.ok /\ r.q = q /\ r.heap = heap /\ IsOutcome(r)

\* q on a fresh block of just cap slots
OnNewBlock(q, r, cap, ring) ==
    /\ r.ok /\ IsOutcome(r) /\ Shaped(r.q)
    /\ r.q.al = q.al /\ r.q.data \in Nat /\ r.q.cap = cap /\ r.q.head = 0 /\ r.q.len = q.len
    /\ r.q.ring = ring
    /\ \A p : FromBlock(p, r.q)
    /\ r.heap = HeapWith(q, r.q)

LEMMA AdoptedIs ==
    ASSUME DequeAssumption, DequeInv, NEW q, Shaped(q), NEW cap, NEW ring, NEW r, r = Adopted(q, heap, cap, ring)
    PROVE  OnNewBlock(q, r, cap, ring)
  <1>1. PICK id : id = FreshId(heap) /\ id \in Nat /\ id # Null /\ \A b \in heap : b.id # id
    BY FreshIdIsFresh DEF DequeAssumption
  <1>2. PICK p : p = [q EXCEPT !.data = id, !.cap = cap, !.head = 0, !.ring = ring]
    OBVIOUS
  <1>3. p = [al |-> q.al, data |-> id, cap |-> cap, head |-> 0, len |-> q.len, ring |-> ring]
    BY <1>2 DEF Shaped
  <1>4. /\ Shaped(p) /\ p.al = q.al /\ p.data = id /\ p.cap = cap /\ p.head = 0 /\ p.len = q.len
        /\ p.ring = ring
    BY <1>3 DEF Shaped
  <1>5. r = Outcome(p, FreeBlock(q, heap) \cup {BlockOf(p)}, TRUE)
    BY <1>1, <1>2 DEF Adopted
  <1>6. r.q = p /\ r.heap = FreeBlock(q, heap) \cup {BlockOf(p)} /\ r.ok /\ IsOutcome(r)
    BY <1>5 DEF Outcome, IsOutcome
  <1>7. r.heap = HeapWith(q, r.q) /\ \A o : FromBlock(o, r.q)
    BY <1>1, <1>4, <1>6 DEF HeapWith, FreeBlock, FromBlock
  <1> QED
    BY <1>1, <1>4, <1>6, <1>7 DEF OnNewBlock

LEMMA ReplacedOutcomes ==
    ASSUME DequeAssumption, DequeInv, NEW q, Shaped(q), NEW cap, NEW ring, NEW r \in Replaced(q, heap, cap, ring)
    PROVE  Refused(q, r) \/ OnNewBlock(q, r, cap, ring)
  <1>1. CASE r = Outcome(q, heap, FALSE)
    BY <1>1 DEF Outcome, Refused, IsOutcome
  <1>2. CASE r = Adopted(q, heap, cap, ring)
    BY <1>2, AdoptedIs
  <1> QED
    BY <1>1, <1>2 DEF Replaced

\* A ring with its head at slot 0 has the elem at each index in the slot of that number.
LEMMA Straight ==
    ASSUME NEW q, q.cap \in Nat, q.head = 0, NEW i \in 0 .. q.cap - 1
    PROVE  SlotOf(q, i) = i /\ ElemAt(q, i) = q.ring[i]
  <1>1. SlotOf(q, i) = i
    BY DEF SlotOf
  <1> QED
    BY <1>1 DEF ElemAt

\* The deque on its new block, once the block holds its elems.
LEMMA NewBlockIsDeque ==
    ASSUME DequeAssumption, NEW p, Shaped(p), p.al \in Als, p.data \in Nat, p.cap \in Sizes, p.cap > 0,
           p.head = 0, p.len \in 0 .. p.cap, p.ring \in [0 .. p.cap - 1 -> Slot],
           \A i \in 0 .. p.len - 1 : p.ring[i] \in Elem
    PROVE  IsDeque(p)
  <1>1. p.cap \in Nat /\ p.len \in Nat /\ p.len <= p.cap /\ p.cap # 0
    BY DEF Sizes, DequeAssumption
  <1>2. p.head \in Heads(p.cap)
    BY <1>1, HeadFits
  <1>3. OnRing(p)
    BY <1>1, <1>2 DEF OnRing
  <1>4. ASSUME NEW i \in 0 .. p.len - 1 PROVE ElemAt(p, i) \in Elem
    <2>1. i \in 0 .. p.cap - 1
      BY <1>1
    <2> QED
      BY <1>1, <2>1, Straight
  <1>5. p.data # Null /\ p.al # Null
    BY DEF DequeAssumption
  <1> QED
    BY <1>1, <1>3, <1>4, <1>5 DEF IsDeque, HoldsElems

\* q has become a deque of at least n slots with the same elems
Grown(q, r, n) ==
    /\ r.ok /\ Good(q, r) /\ IsOutcome(r)
    /\ r.q.cap >= n /\ r.q.len = q.len /\ r.q.al = q.al
    /\ \A i \in 0 .. q.len - 1 : ElemAt(r.q, i) = ElemAt(q, i)

LEMMA RelocateOutcomes ==
    ASSUME DequeAssumption, DequeInv, NEW q, IsDeque(q), q.al \in Als, NEW cap \in Sizes, cap > 0,
           q.len <= cap, NEW r \in Relocate(q, heap, cap)
    PROVE  Refused(q, r) \/ Grown(q, r, cap)
  <1>1. /\ OnRing(q) /\ q.len <= q.cap /\ HoldsElems(q) /\ Shaped(q) /\ cap \in Nat /\ q.len \in Nat
        /\ q.len \in 0 .. cap
    BY DequeFields DEF OnRing, Sizes, DequeAssumption
  <1>2. PICK ring : ring = CopyOut(q, cap)
    OBVIOUS
  <1>3. /\ ring \in [0 .. cap - 1 -> Slot]
        /\ \A i \in 0 .. q.len - 1 : i < cap => ring[i] = ElemAt(q, i)
    BY <1>1, <1>2, CopiedOut
  <1>4. r \in Replaced(q, heap, cap, ring)
    BY <1>2 DEF Relocate
  <1>5. Refused(q, r) \/ OnNewBlock(q, r, cap, ring)
    BY <1>1, <1>4, ReplacedOutcomes
  <1>6. ASSUME OnNewBlock(q, r, cap, ring) PROVE Grown(q, r, cap)
    <2>1. PICK p : p = r.q
      OBVIOUS
    <2>2. /\ Shaped(p) /\ p.al = q.al /\ p.data \in Nat /\ p.cap = cap /\ p.head = 0 /\ p.len = q.len
          /\ p.ring = ring /\ r.ok /\ IsOutcome(r) /\ FromBlock(q, p) /\ r.heap = HeapWith(q, p)
      BY <1>6, <2>1 DEF OnNewBlock
    <2>3. \A i \in 0 .. q.len - 1 : i < cap
      BY <1>1
    <2>4. \A i \in 0 .. p.len - 1 : p.ring[i] \in Elem
      BY <1>1, <1>3, <2>2, <2>3 DEF HoldsElems
    <2>5. IsDeque(p)
      BY <1>1, <1>3, <2>2, <2>4, NewBlockIsDeque
    <2>6. ASSUME NEW i \in 0 .. q.len - 1 PROVE ElemAt(p, i) = ElemAt(q, i)
      <3>1. i \in 0 .. p.cap - 1 /\ i < cap /\ p.cap \in Nat
        BY <1>1, <2>2
      <3>2. ElemAt(p, i) = p.ring[i]
        BY <2>2, <3>1, Straight
      <3> QED
        BY <1>3, <2>2, <3>1, <3>2
    <2>7. Good(q, r)
      BY <2>1, <2>2, <2>5 DEF Good
    <2> QED
      BY <1>1, <2>1, <2>2, <2>6, <2>7 DEF Grown
  <1> QED
    BY <1>5, <1>6

LEMMA NextCapFits ==
    ASSUME DequeAssumption, NEW q, IsDeque(q)
    PROVE  NextCap(q) \in Sizes /\ NextCap(q) > 0
  <1>1. q.cap \in Nat /\ q.cap <= SizeMax /\ SizeMax \in Nat /\ SizeMax > 0
    BY DequeFields DEF Sizes, DequeAssumption
  <1>2. CASE q.cap = 0
    BY <1>1, <1>2 DEF NextCap, Sizes
  <1>3. CASE q.cap # 0 /\ CkdMul(q.cap, 2) = Null
    BY <1>1, <1>3 DEF NextCap, Sizes
  <1>4. CASE q.cap # 0 /\ CkdMul(q.cap, 2) # Null
    <2>1. CkdMul(q.cap, 2) = q.cap * 2 /\ q.cap * 2 <= SizeMax
      BY <1>4 DEF CkdMul
    <2> QED
      BY <1>1, <1>4, <2>1 DEF NextCap, Sizes
  <1> QED
    BY <1>2, <1>3, <1>4

\* The deque as it is.
LEMMA AsItIs ==
    ASSUME DequeAssumption, DequeInv, NEW d \in Names, NEW q, q = deques[d], NEW n, n <= q.cap,
           NEW r, r = Outcome(q, heap, TRUE)
    PROVE  Grown(q, r, n)
  <1>1. r.q = q /\ r.heap = heap /\ r.ok /\ IsOutcome(r)
    BY DEF Outcome, IsOutcome
  <1>2. Good(q, r)
    BY <1>1, SameIsGood
  <1>3. q.cap >= n
    OBVIOUS
  <1> QED
    BY <1>1, <1>2, <1>3 DEF Grown

\* reserve: the deque as it is, or a block of just the room asked for
LEMMA ReserveOutcomesAre ==
    ASSUME DequeAssumption, DequeInv, NEW d \in Names, Alive(d), NEW q, q = deques[d], NEW cap \in Sizes,
           NEW r \in ReserveOutcomes(q, heap, cap)
    PROVE  Refused(q, r) \/ Grown(q, r, cap)
  <1>1. /\ IsDeque(q) /\ q.al \in Als /\ q.cap \in Nat /\ q.len \in Nat /\ q.len <= q.cap /\ cap \in Nat
    BY AliveDeque DEF Sizes, DequeAssumption
  <1>2. CASE cap <= q.cap
    <2>1. r = Outcome(q, heap, TRUE)
      BY <1>2 DEF ReserveOutcomes
    <2> QED
      BY <1>2, <2>1, AsItIs
  <1>3. CASE ~(cap <= q.cap) /\ r = Outcome(q, heap, FALSE)
    BY <1>3 DEF Outcome, Refused, IsOutcome
  <1>4. CASE ~(cap <= q.cap) /\ r \in Relocate(q, heap, cap)
    <2>1. cap > 0 /\ q.len <= cap
      BY <1>1, <1>4
    <2>2. r \in Relocate(q, heap, cap)
      BY <1>4
    <2> QED
      BY <1>1, <2>1, <2>2, RelocateOutcomes
  <1> QED
    BY <1>2, <1>3, <1>4 DEF ReserveOutcomes

\* Room for n, asked for in one go or two.
LEMMA ReserveForOutcomes ==
    ASSUME DequeAssumption, DequeInv, NEW d \in Names, Alive(d), NEW q, q = deques[d], NEW n \in Sizes,
           NEW r \in ReserveFor(q, heap, n)
    PROVE  Refused(q, r) \/ Grown(q, r, n)
  <1>1. CASE NextCap(q) > n
    <2>1. PICK s \in ReserveOutcomes(q, heap, NextCap(q)) :
                r \in IF s.ok THEN {s} ELSE ReserveOutcomes(s.q, s.heap, n)
      BY <1>1 DEF ReserveFor
    <2>2. NextCap(q) \in Sizes /\ NextCap(q) \in Nat /\ n \in Nat
      BY AliveDeque, NextCapFits DEF Sizes, DequeAssumption
    <2>3. Refused(q, s) \/ Grown(q, s, NextCap(q))
      BY <2>1, <2>2, ReserveOutcomesAre
    <2>4. CASE Refused(q, s)
      <3>1. r \in ReserveOutcomes(q, heap, n)
        BY <2>1, <2>4 DEF Refused
      <3> QED
        BY <3>1, ReserveOutcomesAre
    <2>5. CASE Grown(q, s, NextCap(q))
      <3>1. r = s
        BY <2>1, <2>5 DEF Grown
      <3>2. r.q.cap \in Nat
        BY <2>5, <3>1, DequeFields DEF Grown, Good
      <3>3. r.q.cap >= n
        BY <1>1, <2>2, <2>5, <3>1, <3>2 DEF Grown
      <3> QED
        BY <2>5, <3>1, <3>3 DEF Grown
    <2> QED
      BY <2>3, <2>4, <2>5
  <1>2. CASE ~(NextCap(q) > n)
    <2>1. r \in ReserveOutcomes(q, heap, n)
      BY <1>2 DEF ReserveFor
    <2> QED
      BY <2>1, ReserveOutcomesAre
  <1> QED
    BY <1>1, <1>2

LEMMA ReserveOneOutcomes ==
    ASSUME DequeAssumption, DequeInv, NEW d \in Names, Alive(d), NEW q, q = deques[d], NEW r \in ReserveOne(q, heap)
    PROVE  Refused(q, r) \/ Grown(q, r, q.len + 1)
  <1>1. /\ IsDeque(q) /\ q.cap \in Nat /\ q.len \in Nat /\ q.len <= q.cap /\ q.cap <= SizeMax
        /\ SizeMax \in Nat
    BY AliveDeque, DequeFields
  <1>2. CASE q.len < q.cap
    <2>1. r = Outcome(q, heap, TRUE)
      BY <1>2 DEF ReserveOne
    <2>2. q.len + 1 <= q.cap
      BY <1>1, <1>2
    <2> QED
      BY <2>1, <2>2, AsItIs
  <1>3. CASE ~(q.len < q.cap) /\ q.cap = SizeMax
    <2>1. r = Outcome(q, heap, FALSE)
      BY <1>3 DEF ReserveOne
    <2> QED
      BY <2>1 DEF Refused, Outcome, IsOutcome
  <1>4. CASE ~(q.len < q.cap) /\ q.cap # SizeMax
    <2>1. r \in ReserveFor(q, heap, q.cap + 1)
      BY <1>4 DEF ReserveOne
    <2>2. q.cap + 1 \in Sizes /\ q.cap + 1 = q.len + 1
      BY <1>1, <1>4 DEF Sizes
    <2>3. Refused(q, r) \/ Grown(q, r, q.cap + 1)
      BY <2>1, <2>2, ReserveForOutcomes
    <2> QED
      BY <2>2, <2>3
  <1> QED
    BY <1>2, <1>3, <1>4

-----------------------------------------------------------------------------
(* The calls that have no need of memory.                                   *)

\* The head on another slot: the elem at each index is another one.
LEMMA HeadOn ==
    ASSUME NEW q, OnRing(q), NEW count \in 0 .. q.cap, NEW p, p = WithHead(q, SlotFwd(q, q.head, count))
    PROVE  /\ InPlace(q, p) /\ p.len = q.len
           /\ \A i \in 0 .. q.cap - count - 1 : ElemAt(p, i) = ElemAt(q, i + count)
  <1>1. PICK head : head = SlotFwd(q, q.head, count)
    OBVIOUS
  <1>2. PICK o : o = [cap |-> q.cap, head |-> head]
    OBVIOUS
  <1>3. q.cap \in Nat /\ q.head \in Heads(q.cap) /\ o.cap = q.cap /\ o.head = SlotFwd(q, q.head, count)
    BY <1>1, <1>2 DEF OnRing
  <1>4. o.head \in Heads(q.cap)
    BY <1>3, HeadForward
  <1>5. head \in Heads(q.cap) /\ p = WithHead(q, head)
    BY <1>1, <1>2, <1>4
  <1>6. InPlace(q, p) /\ p.len = q.len /\ p.head = head /\ p.ring = q.ring /\ p.cap = q.cap
    BY <1>5, HeadChanges
  <1>7. \A i \in 0 .. q.cap - count - 1 : SlotOf(p, i) = SlotOf(q, i + count)
    BY <1>1, <1>3, <1>6, HeadForward
  <1> QED
    BY <1>6, <1>7 DEF ElemAt

LEMMA HeadOff ==
    ASSUME NEW q, OnRing(q), NEW count \in 0 .. q.cap, NEW p, p = WithHead(q, SlotBack(q, q.head, count))
    PROVE  /\ InPlace(q, p) /\ p.len = q.len /\ p.head = SlotBack(q, q.head, count)
           /\ \A i \in 0 .. q.cap - count - 1 : ElemAt(p, i + count) = ElemAt(q, i)
  <1>1. PICK head : head = SlotBack(q, q.head, count)
    OBVIOUS
  <1>2. PICK o : o = [cap |-> q.cap, head |-> head]
    OBVIOUS
  <1>3. q.cap \in Nat /\ q.head \in Heads(q.cap) /\ o.cap = q.cap /\ o.head = SlotBack(q, q.head, count)
    BY <1>1, <1>2 DEF OnRing
  <1>4. o.head \in Heads(q.cap)
    BY <1>3, HeadBack
  <1>5. head \in Heads(q.cap) /\ p = WithHead(q, head)
    BY <1>1, <1>2, <1>4
  <1>6. InPlace(q, p) /\ p.len = q.len /\ p.head = head /\ p.ring = q.ring /\ p.cap = q.cap
    BY <1>5, HeadChanges
  <1>7. \A i \in 0 .. q.cap - count - 1 : SlotOf(p, i + count) = SlotOf(q, i)
    BY <1>1, <1>3, <1>6, HeadBack
  <1> QED
    BY <1>1, <1>6, <1>7 DEF ElemAt

\* p, on the block of q, is a deque
Sound(q, p) == InPlace(q, p) /\ p.len \in 0 .. q.cap /\ HoldsElems(p)

\* q is a deque whose fields and elems are sound
Whole(q) == OnRing(q) /\ q.len <= q.cap /\ HoldsElems(q)

LEMMA WholeIs ==
    ASSUME NEW q, Whole(q)
    PROVE  OnRing(q) /\ q.cap \in Nat /\ q.len \in Nat /\ q.len <= q.cap /\ q.len \in 0 .. q.cap /\ HoldsElems(q)
  <1>1. OnRing(q) /\ q.cap \in Nat /\ q.len \in Nat /\ q.len <= q.cap /\ HoldsElems(q)
    BY DEF Whole, OnRing
  <1> QED
    BY <1>1

LEMMA AliveWhole ==
    ASSUME DequeAssumption, DequeInv, NEW d \in Names, Alive(d), NEW q, q = deques[d]
    PROVE  Whole(q)
  BY AliveDeque DEF Whole

LEMMA SoundEnds ==
    ASSUME DequeAssumption, DequeInv, NEW d \in Names, Alive(d), NEW q, q = deques[d], NEW p, Sound(q, p),
           NEW c, EndsOk(c, d, p)
    PROVE  DequeInv'
  BY EndsOkKeeps DEF Sound

\* Shorter.
LEMMA Shortened ==
    ASSUME NEW q, Whole(q), NEW n \in 0 .. q.len, NEW p, p = WithLen(q, n)
    PROVE  Sound(q, p) /\ p.len = n /\ \A i \in 0 .. n - 1 : ElemAt(p, i) = ElemAt(q, i)
  <1>1. OnRing(q) /\ q.cap \in Nat /\ q.len \in Nat /\ q.len <= q.cap /\ HoldsElems(q)
    BY WholeIs
  <1>2. InPlace(q, p) /\ p.len = n /\ p.head = q.head /\ p.ring = q.ring /\ p.cap = q.cap
    BY <1>1, LenChanges
  <1>3. ASSUME NEW i \in 0 .. p.len - 1 PROVE ElemAt(p, i) \in Elem
    <2>1. i \in 0 .. q.len - 1
      BY <1>1, <1>2
    <2>2. ElemAt(p, i) = ElemAt(q, i)
      BY <1>2, SameElems
    <2> QED
      BY <1>1, <2>1, <2>2 DEF HoldsElems
  <1>4. p.len \in 0 .. q.cap
    BY <1>1, <1>2
  <1>5. \A i \in 0 .. n - 1 : ElemAt(p, i) = ElemAt(q, i)
    BY <1>2, SameElems
  <1> QED
    BY <1>2, <1>3, <1>4, <1>5 DEF Sound, HoldsElems

\* p has the elems of q but for x at idx
Sets(q, p, idx, x) ==
    p.len = q.len /\ \A i \in 0 .. q.len - 1 : ElemAt(p, i) = IF i = idx THEN x ELSE ElemAt(q, i)

\* An elem set.
LEMMA SetSound ==
    ASSUME NEW q, Whole(q), NEW idx \in 0 .. q.len - 1, NEW x \in Elem, NEW p, p = WithSlot(q, SlotOf(q, idx), x)
    PROVE  /\ Sound(q, p) /\ p.len = q.len /\ p.head = q.head /\ Whole(p)
           /\ Sets(q, p, idx, x)
  <1>1. OnRing(q) /\ q.cap \in Nat /\ q.len \in Nat /\ q.len <= q.cap /\ HoldsElems(q)
    BY WholeIs
  <1>2. idx \in 0 .. q.cap - 1 /\ x \in Slot /\ q.len \in 0 .. q.cap
    BY <1>1 DEF Slot
  <1>3. /\ InPlace(q, p) /\ p.len = q.len /\ p.head = q.head
        /\ \A i \in 0 .. q.cap - 1 : ElemAt(p, i) = IF i = idx THEN x ELSE ElemAt(q, i)
    BY <1>1, <1>2, ElemSet
  <1>4. ASSUME NEW i \in 0 .. p.len - 1 PROVE ElemAt(p, i) \in Elem
    <2>1. i \in 0 .. q.cap - 1 /\ i \in 0 .. q.len - 1
      BY <1>1, <1>3
    <2> QED
      BY <1>1, <1>3, <2>1 DEF HoldsElems
  <1>5. HoldsElems(p)
    BY <1>4 DEF HoldsElems
  <1>6. OnRing(p)
    BY <1>1, <1>3, InPlaceOnRing
  <1>7. p.len <= p.cap
    BY <1>1, <1>3 DEF InPlace
  <1>8. \A i \in 0 .. q.len - 1 : ElemAt(p, i) = IF i = idx THEN x ELSE ElemAt(q, i)
    <2>1. \A i \in 0 .. q.len - 1 : i \in 0 .. q.cap - 1
      BY <1>1
    <2> QED
      BY <1>3, <2>1
  <1> QED
    BY <1>2, <1>3, <1>5, <1>6, <1>7, <1>8 DEF Sound, Whole, Sets

\* A value is the caller's elem, or one of the deque's found again in p.
LEMMA SrcIn ==
    ASSUME NEW q, Whole(q), NEW v \in Vals(q), NEW p, \A i \in 0 .. q.len - 1 : ElemAt(p, i) \in Elem
    PROVE  Src(q, p, v) \in Elem
  <1>1. CASE v.alias
    <2>1. v.at \in 0 .. q.len - 1
      BY <1>1 DEF Vals
    <2>2. PICK at : at = v.at /\ at \in 0 .. q.cap - 1 /\ at \in 0 .. q.len - 1
      BY <2>1, WholeIs
    <2>3. AliasIdx(q, SlotOf(q, at)) = at
      BY <2>2, SlotIn, WholeIs DEF OnRing
    <2>4. Src(q, p, v) = ElemAt(p, at)
      BY <1>1, <2>2, <2>3 DEF Src
    <2> QED
      BY <2>2, <2>4
  <1>2. CASE ~v.alias
    BY <1>2 DEF Vals, Src
  <1> QED
    BY <1>1, <1>2

LEMMA SetKeeps ==
    ASSUME DequeAssumption, DequeInv, NEW d \in Names, Alive(d), NEW idx \in Nat, NEW v \in Vals(deques[d]),
           tda_deque_set(d, idx, v)
    PROVE  DequeInv'
  <1>1. PICK q : q = deques[d] /\ Whole(q)
    BY AliveWhole
  <1>2. idx \in 0 .. q.len - 1
    BY <1>1, WholeIs DEF tda_deque_set
  <1>3. PICK x : x = Src(q, q, v) /\ x \in Elem
    BY <1>1, SrcIn DEF Whole, HoldsElems
  <1>4. PICK p : p = WithSlot(q, SlotOf(q, idx), x)
    OBVIOUS
  <1>5. Sound(q, p)
    BY <1>1, <1>2, <1>3, <1>4, SetSound
  <1>6. EndsOk([op |-> "set", idx |-> idx, val |-> v], d, p)
    BY <1>1, <1>3, <1>4 DEF tda_deque_set, WithSlot
  <1> QED
    BY <1>1, <1>5, <1>6, SoundEnds

LEMMA GetMutKeeps ==
    ASSUME DequeAssumption, DequeInv, NEW d \in Names, Alive(d), NEW idx \in Nat, NEW v \in Vals(deques[d]),
           ~v.alias, tda_deque_get_mut(d, idx, v)
    PROVE  DequeInv'
  <1>1. PICK q : q = deques[d] /\ Whole(q)
    BY AliveWhole
  <1>2. idx \in 0 .. q.len - 1
    BY <1>1, WholeIs DEF tda_deque_get_mut
  <1>3. PICK x : x = v.at /\ x \in Elem
    BY DEF Vals
  <1>4. PICK p : p = WithSlot(q, SlotOf(q, idx), x)
    OBVIOUS
  <1>5. Sound(q, p)
    BY <1>1, <1>2, <1>3, <1>4, SetSound
  <1>6. EndsOk([op |-> "set", idx |-> idx, val |-> v], d, p)
    BY <1>1, <1>3, <1>4 DEF tda_deque_get_mut, WithSlot
  <1> QED
    BY <1>1, <1>5, <1>6, SoundEnds

LEMMA SwapElemsKeeps ==
    ASSUME DequeAssumption, DequeInv, NEW d \in Names, Alive(d), NEW i \in Nat, NEW j \in Nat,
           tda_deque_swap_elems(d, i, j)
    PROVE  DequeInv'
  <1>1. PICK q : q = deques[d] /\ Whole(q)
    BY AliveWhole
  <1>2. i \in 0 .. q.len - 1 /\ j \in 0 .. q.len - 1
    BY <1>1, WholeIs DEF tda_deque_swap_elems
  <1>3. PICK x, y : x = ElemAt(q, j) /\ y = ElemAt(q, i) /\ x \in Elem /\ y \in Elem
    BY <1>1, <1>2 DEF Whole, HoldsElems
  <1>4. PICK m : m = WithSlot(q, SlotOf(q, i), x)
    OBVIOUS
  <1>5. Sound(q, m) /\ m.len = q.len /\ m.head = q.head /\ Whole(m)
    BY <1>1, <1>2, <1>3, <1>4, SetSound
  <1>6. m.cap = q.cap
    BY <1>5 DEF Sound, InPlace
  <1>7. SlotOf(m, j) = SlotOf(q, j)
    BY <1>5, <1>6, SameSlots
  <1>8. PICK p : p = WithSlot(m, SlotOf(m, j), y)
    OBVIOUS
  <1>9. Sound(m, p)
    BY <1>2, <1>3, <1>5, <1>8, SetSound
  <1>10. Sound(q, p)
    BY <1>5, <1>6, <1>9, InPlaceTrans DEF Sound
  <1>11. p = [q EXCEPT !.ring[SlotOf(q, i)] = x, !.ring[SlotOf(q, j)] = y]
    BY <1>4, <1>7, <1>8 DEF WithSlot
  <1>12. EndsOk([op |-> "swap_elems", idx |-> i, idx2 |-> j], d, p)
    BY <1>1, <1>3, <1>11 DEF tda_deque_swap_elems
  <1> QED
    BY <1>1, <1>10, <1>12, SoundEnds

\* q without its first elem.
LEMMA PoppedFront ==
    ASSUME NEW q, Whole(q), q.len > 0, NEW p, p = PopFront(q)
    PROVE  Sound(q, p) /\ p.len = q.len - 1 /\ \A i \in 0 .. p.len - 1 : ElemAt(p, i) = ElemAt(q, i + 1)
  <1>1. OnRing(q) /\ q.cap \in Nat /\ q.len \in Nat /\ q.len <= q.cap /\ HoldsElems(q)
    BY WholeIs
  <1>2. PICK n : n = q.len - 1 /\ n \in 0 .. q.len /\ 1 \in 0 .. q.cap
    BY <1>1
  <1>3. PICK m : m = WithHead(q, SlotFwd(q, q.head, 1))
    OBVIOUS
  <1>4. /\ InPlace(q, m) /\ m.len = q.len
        /\ \A i \in 0 .. q.cap - 1 - 1 : ElemAt(m, i) = ElemAt(q, i + 1)
    BY <1>1, <1>2, <1>3, HeadOn
  <1>5. OnRing(m) /\ m.cap = q.cap
    BY <1>1, <1>4, InPlaceOnRing DEF InPlace
  <1>6. PICK o : o = WithLen(m, n)
    OBVIOUS
  <1>7. InPlace(m, o) /\ o.len = n /\ o.head = m.head /\ o.ring = m.ring /\ o.cap = m.cap
    BY <1>5, <1>6, LenChanges
  <1>8. p = o
    BY <1>2, <1>3, <1>4, <1>6 DEF PopFront, WithHead, WithLen
  <1>9. ASSUME NEW i \in 0 .. n - 1 PROVE ElemAt(o, i) \in Elem /\ ElemAt(o, i) = ElemAt(q, i + 1)
    <2>1. i \in 0 .. q.cap - 1 - 1 /\ i + 1 \in 0 .. q.len - 1
      BY <1>1, <1>2
    <2>2. ElemAt(o, i) = ElemAt(m, i)
      BY <1>7, SameElems
    <2> QED
      BY <1>1, <1>4, <2>1, <2>2 DEF HoldsElems
  <1>10. InPlace(q, o)
    BY <1>4, <1>7, InPlaceTrans
  <1>11. n \in 0 .. q.cap
    BY <1>1, <1>2
  <1> QED
    BY <1>2, <1>7, <1>8, <1>9, <1>10, <1>11 DEF Sound, HoldsElems

LEMMA PopsKeep ==
    ASSUME DequeAssumption, DequeInv, NEW d \in Names, Alive(d),
           \/ tda_deque_pop_front(d) \/ tda_deque_pop_front_to(d)
           \/ tda_deque_pop_back(d) \/ tda_deque_pop_back_to(d)
    PROVE  DequeInv'
  <1>1. PICK q : q = deques[d] /\ Whole(q)
    BY AliveWhole
  <1>2. q.len > 0
    BY <1>1 DEF tda_deque_pop_front, tda_deque_pop_front_to, tda_deque_pop_back, tda_deque_pop_back_to
  <1>3. PICK o, p, n : o = PopFront(q) /\ n = q.len - 1 /\ p = WithLen(q, n)
    OBVIOUS
  <1>4. Sound(q, o)
    BY <1>1, <1>2, <1>3, PoppedFront
  <1>5. Sound(q, p)
    <2>1. n \in 0 .. q.len
      BY <1>1, <1>2, <1>3, WholeIs
    <2> QED
      BY <1>1, <1>3, <2>1, Shortened
  <1>6. (\E c : EndsOk(c, d, o)) \/ \E c : EndsOk(c, d, p)
    BY <1>1, <1>3
    DEF tda_deque_pop_front, tda_deque_pop_front_to, tda_deque_pop_back, tda_deque_pop_back_to, WithLen
  <1> QED
    BY <1>1, <1>4, <1>5, <1>6, SoundEnds

LEMMA TruncateKeeps ==
    ASSUME DequeAssumption, DequeInv, NEW d \in Names, Alive(d), NEW n \in Nat, tda_deque_truncate(d, n)
    PROVE  DequeInv'
  <1>1. PICK q : q = deques[d] /\ Whole(q)
    BY AliveWhole
  <1>2. CASE n < q.len
    <2>1. PICK p : p = WithLen(q, n)
      OBVIOUS
    <2>2. n \in 0 .. q.len
      BY <1>1, <1>2, WholeIs
    <2>3. Sound(q, p)
      BY <1>1, <2>1, <2>2, Shortened
    <2>4. EndsOk([op |-> "truncate", n |-> n], d, p)
      BY <1>1, <1>2, <2>1 DEF tda_deque_truncate, WithLen
    <2> QED
      BY <1>1, <2>3, <2>4, SoundEnds
  <1>3. CASE ~(n < q.len)
    BY <1>1, <1>3, ReadsKeep DEF tda_deque_truncate
  <1> QED
    BY <1>2, <1>3

LEMMA ClearKeeps ==
    ASSUME DequeAssumption, DequeInv, NEW d \in Names, Alive(d), tda_deque_clear(d)
    PROVE  DequeInv'
  <1>1. PICK q : q = deques[d] /\ Whole(q)
    BY AliveWhole
  <1>2. PICK m : m = WithLen(q, 0)
    OBVIOUS
  <1>3. OnRing(q) /\ q.cap \in Nat
    BY <1>1, WholeIs
  <1>4. InPlace(q, m) /\ m.len = 0 /\ m.cap = q.cap
    BY <1>2, <1>3, LenChanges
  <1>5. OnRing(m) /\ 0 \in Heads(m.cap)
    BY <1>3, <1>4, InPlaceOnRing, HeadFits
  <1>6. PICK p : p = WithHead(m, 0)
    OBVIOUS
  <1>7. InPlace(m, p) /\ p.len = 0
    BY <1>4, <1>5, <1>6, HeadChanges
  <1>8. InPlace(q, p) /\ p.len \in 0 .. q.cap
    BY <1>3, <1>4, <1>7, InPlaceTrans
  <1>9. HoldsElems(p)
    BY <1>7 DEF HoldsElems
  <1>10. EndsOk([op |-> "clear"], d, p)
    BY <1>1, <1>2, <1>6 DEF tda_deque_clear, WithLen, WithHead
  <1> QED
    BY <1>1, <1>8, <1>9, <1>10, SoundEnds DEF Sound

\* A caller's span over elems the deque has.
LEMMA SpansAre ==
    ASSUME DequeAssumption, NEW src \in Spans
    PROVE  Len(src) \in Nat /\ src \in [1 .. Len(src) -> Elem]
  <1>1. PICK n \in 0 .. MaxSpan : src \in [1 .. n -> Elem]
    BY DEF Spans
  <1>2. n \in Nat
    BY DEF DequeAssumption
  <1>3. Len(src) = n
    BY <1>1, <1>2
  <1> QED
    BY <1>1, <1>2, <1>3

LEMMA CopyFromSpanKeeps ==
    ASSUME DequeAssumption, DequeInv, NEW d \in Names, Alive(d), NEW src \in Spans, tda_deque_copy_from_span(d, src)
    PROVE  DequeInv'
  <1>1. PICK q : q = deques[d] /\ Whole(q)
    BY AliveWhole
  <1>2. PICK n : n = Len(src) /\ n \in Nat /\ src \in [1 .. n -> Elem] /\ n = q.len
    BY <1>1, SpansAre DEF tda_deque_copy_from_span
  <1>3. OnRing(q) /\ q.cap \in Nat /\ q.len \in Nat /\ q.len <= q.cap
    BY <1>1, WholeIs
  <1>4. PICK p : p = CopyRangeIn(q, 0, src)
    OBVIOUS
  <1>5. 0 + n <= q.cap /\ 0 \in Nat
    BY <1>2, <1>3
  <1>6. /\ InPlace(q, p) /\ p.len = q.len
        /\ \A i \in 0 .. q.cap - 1 : ElemAt(p, i) = IF i \in 0 .. 0 + n - 1 THEN src[i - 0 + 1] ELSE ElemAt(q, i)
    BY <1>2, <1>3, <1>4, <1>5, CopiedIn
  <1>7. ASSUME NEW i \in 0 .. p.len - 1 PROVE ElemAt(p, i) \in Elem
    <2>1. i \in 0 .. q.cap - 1 /\ i \in 0 .. 0 + n - 1 /\ i - 0 + 1 \in 1 .. n
      BY <1>2, <1>3, <1>6
    <2> QED
      BY <1>2, <1>6, <2>1
  <1>8. p.len \in 0 .. q.cap
    BY <1>3, <1>6
  <1>9. EndsOk([op |-> "copy_from_span", src |-> src], d, p)
    BY <1>1, <1>4 DEF tda_deque_copy_from_span
  <1> QED
    BY <1>1, <1>6, <1>7, <1>8, <1>9, SoundEnds DEF Sound, HoldsElems

\* in p, count elems of q have slid
Slid(q, p, to, from, count) ==
    \A i \in 0 .. q.len - 1 :
        ElemAt(p, i) = IF i \in to .. to + count - 1 THEN ElemAt(q, from + (i - to)) ELSE ElemAt(q, i)

\* Elems that slide within the contents leave elems at every index.
LEMMA SlidElems ==
    ASSUME NEW q, Whole(q), NEW to \in Nat, NEW from \in Nat, NEW count \in Nat, from + count <= q.len,
           NEW p, p = MoveElems(q, to, from, count)
    PROVE  InPlace(q, p) /\ p.len = q.len /\ p.head = q.head /\ Whole(p) /\ Slid(q, p, to, from, count)
  <1>1. OnRing(q) /\ q.cap \in Nat /\ q.len \in Nat /\ q.len <= q.cap /\ HoldsElems(q)
    BY WholeIs
  <1>2. from + count <= q.cap
    BY <1>1
  <1>3. /\ InPlace(q, p) /\ p.len = q.len /\ p.head = q.head
        /\ \A i \in 0 .. q.cap - 1 :
              ElemAt(p, i) = IF i \in to .. to + count - 1 THEN ElemAt(q, from + (i - to)) ELSE ElemAt(q, i)
    BY <1>1, <1>2, ElemsMoved
  <1>4. ASSUME NEW i \in 0 .. q.len - 1 PROVE ElemAt(p, i) \in Elem
    <2>1. i \in 0 .. q.cap - 1
      BY <1>1
    <2>2. CASE i \in to .. to + count - 1
      <3>1. PICK j : j = from + (i - to) /\ j \in 0 .. q.len - 1
        BY <1>1, <2>2
      <3>2. ElemAt(p, i) = ElemAt(q, j)
        BY <1>3, <2>1, <2>2, <3>1
      <3> QED
        BY <1>1, <3>1, <3>2 DEF HoldsElems
    <2>3. CASE i \notin to .. to + count - 1
      BY <1>1, <1>3, <2>1, <2>3 DEF HoldsElems
    <2> QED
      BY <2>2, <2>3
  <1>5. OnRing(p) /\ p.len <= p.cap
    BY <1>1, <1>3, InPlaceOnRing DEF InPlace
  <1>6. \A i \in 0 .. q.len - 1 : i \in 0 .. q.cap - 1
    BY <1>1
  <1> QED
    BY <1>3, <1>4, <1>5, <1>6 DEF Whole, HoldsElems, Slid

\* The gap closed from the back.
LEMMA ClosedBack ==
    ASSUME NEW q, Whole(q), NEW idx \in Nat, NEW count \in Nat, NEW rest, rest = q.len - idx - count, rest \in Nat,
           NEW from, from = idx + count, NEW m, InPlace(q, m), m.len = q.len, Whole(m), Slid(q, m, idx, from, rest),
           NEW n, n = q.len - count, NEW k, k = WithLen(m, n)
    PROVE  /\ Sound(q, k) /\ k.len = n
           /\ \A i \in 0 .. n - 1 : ElemAt(k, i) = IF i < idx THEN ElemAt(q, i) ELSE ElemAt(q, i + count)
  <1>1. from \in Nat /\ from = idx + count
    OBVIOUS
  <1>2. q.len \in Nat
    BY WholeIs
  <1>3. from + rest <= q.len /\ n \in 0 .. q.len
    BY <1>1, <1>2
  <1>4. InPlace(q, m) /\ m.len = q.len /\ Whole(m) /\ Slid(q, m, idx, from, rest)
    OBVIOUS
  <1>5. Sound(m, k) /\ k.len = n /\ \A i \in 0 .. n - 1 : ElemAt(k, i) = ElemAt(m, i)
    BY <1>3, <1>4, Shortened
  <1>6. m.cap = q.cap
    BY <1>4 DEF InPlace
  <1>7. ASSUME NEW i \in 0 .. n - 1
        PROVE  ElemAt(k, i) = IF i < idx THEN ElemAt(q, i) ELSE ElemAt(q, i + count)
    <2>1. i \in 0 .. q.len - 1 /\ (i \in idx .. idx + rest - 1 <=> ~(i < idx)) /\ from + (i - idx) = i + count
      BY <1>1, <1>2, <1>3
    <2> QED
      BY <1>4, <1>5, <2>1 DEF Slid
  <1> QED
    BY <1>4, <1>5, <1>6, <1>7, InPlaceTrans DEF Sound

LEMMA ClosedIs ==
    ASSUME NEW q, Whole(q), NEW idx \in Nat, NEW count \in Nat, idx + count <= q.len, NEW p, p = Closed(q, idx, count)
    PROVE  /\ Sound(q, p) /\ p.len = q.len - count
           /\ \A i \in 0 .. p.len - 1 : ElemAt(p, i) = IF i < idx THEN ElemAt(q, i) ELSE ElemAt(q, i + count)
  <1>1. OnRing(q) /\ q.cap \in Nat /\ q.len \in Nat /\ q.len <= q.cap /\ HoldsElems(q)
    BY WholeIs
  <1>8. PICK n, rest : n = q.len - count /\ rest = q.len - idx - count
    OBVIOUS
  <1>2. /\ n = q.len - count /\ n \in 0 .. q.len /\ rest = q.len - idx - count /\ rest \in Nat
        /\ count \in 0 .. q.cap /\ 0 + idx <= q.len /\ (idx + count) + rest <= q.len
    BY <1>1, <1>8
  <1>3. CASE idx < rest
    <2>1. PICK m : m = MoveElems(q, count, 0, idx)
      OBVIOUS
    <2>2. /\ InPlace(q, m) /\ m.len = q.len /\ m.head = q.head /\ Whole(m) /\ m.cap = q.cap
          /\ Slid(q, m, count, 0, idx)
      <3>1. 0 + idx <= q.len /\ 0 \in Nat
        BY <1>2
      <3>2. InPlace(q, m) /\ m.len = q.len /\ m.head = q.head /\ Whole(m) /\ Slid(q, m, count, 0, idx)
        BY <2>1, <3>1, SlidElems
      <3> QED
        BY <3>2 DEF InPlace
    <2>3. PICK o : o = WithHead(m, SlotFwd(m, m.head, count))
      OBVIOUS
    <2>4. count \in 0 .. m.cap /\ OnRing(m)
      BY <1>2, <2>2 DEF Whole
    <2>5. /\ InPlace(m, o) /\ o.len = m.len
          /\ \A i \in 0 .. m.cap - count - 1 : ElemAt(o, i) = ElemAt(m, i + count)
      BY <2>3, <2>4, HeadOn
    <2>6. OnRing(o) /\ o.cap = q.cap
      BY <2>2, <2>4, <2>5, InPlaceOnRing, WholeIs DEF InPlace
    <2>7. PICK k : k = WithLen(o, n)
      OBVIOUS
    <2>8. InPlace(o, k) /\ k.len = n /\ k.head = o.head /\ k.ring = o.ring /\ k.cap = o.cap
      BY <2>6, <2>7, LenChanges
    <2>9. SlotFwd(m, m.head, count) = SlotFwd(q, q.head, count)
      BY <2>2 DEF SlotFwd
    <2>10. p = k
      <3>1. p = [m EXCEPT !.head = SlotFwd(q, q.head, count), !.len = @ - count]
        BY <1>2, <1>3, <2>1 DEF Closed
      <3>2. p = [m EXCEPT !.head = SlotFwd(q, q.head, count), !.len = n]
        BY <1>2, <2>2, <3>1
      <3> QED
        BY <2>3, <2>7, <2>9, <3>2 DEF WithHead, WithLen
    <2>14. ASSUME NEW i \in 0 .. n - 1
           PROVE  ElemAt(k, i) = IF i < idx THEN ElemAt(q, i) ELSE ElemAt(q, i + count)
      <3>1. PICK j : j = i + count
        OBVIOUS
      <3>2. i \in 0 .. m.cap - count - 1 /\ j \in 0 .. q.len - 1 /\ (j \in count .. count + idx - 1 <=> i < idx)
            /\ 0 + (j - count) = i
        BY <1>1, <1>2, <2>2, <3>1
      <3>3. ElemAt(k, i) = ElemAt(o, i)
        BY <2>8, SameElems
      <3>4. ElemAt(o, i) = ElemAt(m, j)
        BY <2>5, <3>1, <3>2
      <3>5. ElemAt(m, j) = IF i < idx THEN ElemAt(q, i) ELSE ElemAt(q, j)
        BY <2>2, <3>2 DEF Slid
      <3> QED
        BY <3>1, <3>3, <3>4, <3>5
    <2>11. ASSUME NEW i \in 0 .. n - 1 PROVE ElemAt(k, i) \in Elem
      <3>1. i \in 0 .. m.cap - count - 1 /\ i + count \in 0 .. m.len - 1
        BY <1>1, <1>2, <2>2
      <3>2. ElemAt(k, i) = ElemAt(o, i)
        BY <2>8, SameElems
      <3> QED
        BY <2>2, <2>5, <3>1, <3>2 DEF Whole, HoldsElems
    <2>12. InPlace(q, k)
      BY <2>2, <2>5, <2>8, InPlaceTrans
    <2>13. n \in 0 .. q.cap
      BY <1>1, <1>2
    <2> QED
      BY <1>2, <2>8, <2>10, <2>11, <2>12, <2>13, <2>14 DEF Sound, HoldsElems
  <1>4. CASE ~(idx < rest)
    <2>1. PICK from, m : from = idx + count /\ m = MoveElems(q, idx, from, rest)
      OBVIOUS
    <2>2. PICK k : k = WithLen(m, n)
      OBVIOUS
    <2>5. from \in Nat /\ rest \in Nat /\ from + rest <= q.len
      BY <1>2, <2>1
    <2>7. m = MoveElems(q, idx, from, rest)
      BY <2>1
    <2>6. InPlace(q, m) /\ m.len = q.len /\ m.head = q.head /\ Whole(m) /\ Slid(q, m, idx, from, rest)
      BY <2>5, <2>7, SlidElems, SMTT(60)
    <2>3. /\ m.len = q.len /\ Sound(q, k) /\ k.len = n
          /\ \A i \in 0 .. n - 1 : ElemAt(k, i) = IF i < idx THEN ElemAt(q, i) ELSE ElemAt(q, i + count)
      BY <1>2, <2>1, <2>2, <2>6, ClosedBack
    <2>4. p = k
      <3>1. p = [m EXCEPT !.len = @ - count]
        BY <1>2, <1>4, <2>1 DEF Closed
      <3> QED
        BY <1>2, <2>2, <2>3, <3>1 DEF WithLen
    <2> QED
      BY <1>2, <2>3, <2>4
  <1> QED
    BY <1>3, <1>4

LEMMA RemoveRangeKeeps ==
    ASSUME DequeAssumption, DequeInv, NEW d \in Names, Alive(d), NEW idx \in Nat, NEW count \in Nat,
           tda_deque_remove_range(d, idx, count)
    PROVE  DequeInv'
  <1>1. PICK q : q = deques[d] /\ Whole(q)
    BY AliveWhole
  <1>2. CASE count = 0
    BY <1>1, <1>2, ReadsKeep DEF tda_deque_remove_range
  <1>3. CASE count # 0
    <2>1. PICK p : p = Closed(q, idx, count)
      OBVIOUS
    <2>2. idx + count <= q.len /\ EndsOk([op |-> "remove_range", idx |-> idx, n |-> count], d, p)
      BY <1>1, <1>3, <2>1 DEF tda_deque_remove_range
    <2>3. Sound(q, p)
      BY <1>1, <2>1, <2>2, ClosedIs
    <2> QED
      BY <1>1, <2>2, <2>3, SoundEnds
  <1> QED
    BY <1>2, <1>3

\* The loop of retain: every turn leaves elems in place, and no more kept than looked at.
Retains(f, n, q, keep) ==
    f = [i \in 0 .. n |-> IF i = 0 THEN [q |-> q, kept |-> 0] ELSE RetainStep(f[i - 1], i - 1, keep)]

LEMMA RetainsExist ==
    ASSUME NEW q, NEW keep, NEW k \in Nat
    PROVE  \E f : Retains(f, k, q, keep)
  <1> DEFINE T == {n \in Nat : ~ \E f : Retains(f, n, q, keep)}
             base == [q |-> q, kept |-> 0]
  <1>1. SUFFICES ASSUME T # {} PROVE FALSE
    OBVIOUS
  <1>2. PICK n \in T : \A m \in T : n <= m
    BY <1>1, LeastNat
  <1> HIDE DEF base
  <1>3. n # 0
    <2>1. PICK f : f = [i \in 0 .. 0 |-> base]
      OBVIOUS
    <2>2. f = [i \in 0 .. 0 |-> IF i = 0 THEN base ELSE RetainStep(f[i - 1], i - 1, keep)]
      BY <2>1
    <2>3. Retains(f, 0, q, keep)
      BY <2>2 DEF Retains, base
    <2> QED
      BY <2>3
  <1>4. PICK f : Retains(f, n - 1, q, keep)
    <2>1. n - 1 \in Nat /\ ~(n <= n - 1)
      BY <1>3
    <2> QED
      BY <1>2, <2>1
  <1>5. f = [i \in 0 .. n - 1 |-> IF i = 0 THEN base ELSE RetainStep(f[i - 1], i - 1, keep)]
    BY <1>4 DEF Retains, base
  <1> DEFINE g == [i \in 0 .. n |-> IF i < n THEN f[i] ELSE RetainStep(f[n - 1], n - 1, keep)]
  <1>6. \A i \in 0 .. n - 1 : g[i] = f[i]
    BY <1>3
  <1>7. g[n] = RetainStep(f[n - 1], n - 1, keep)
    BY <1>3
  <1>8. ASSUME NEW i \in 0 .. n
        PROVE  g[i] = IF i = 0 THEN base ELSE RetainStep(g[i - 1], i - 1, keep)
    <2>1. CASE i = n
      BY <1>3, <1>6, <1>7, <2>1
    <2>2. CASE i # n
      <3>1. i \in 0 .. n - 1 /\ (i # 0 => i - 1 \in 0 .. n - 1)
        BY <1>3, <2>2
      <3>2. f[i] = IF i = 0 THEN base ELSE RetainStep(f[i - 1], i - 1, keep)
        BY <1>5, <3>1
      <3> HIDE DEF g
      <3> QED
        BY <1>6, <3>1, <3>2
    <2> QED
      BY <2>1, <2>2
  <1>9. g = [i \in 0 .. n |-> g[i]]
    OBVIOUS
  <1> HIDE DEF g
  <1>10. g = [i \in 0 .. n |-> IF i = 0 THEN base ELSE RetainStep(g[i - 1], i - 1, keep)]
    BY <1>8, <1>9
  <1>11. Retains(g, n, q, keep)
    BY <1>10 DEF Retains, base
  <1> QED
    BY <1>2, <1>11

\* the deque p of the loop after i turns
Retained(q, p, i) == InPlace(q, p.q) /\ p.q.len = q.len /\ p.kept \in 0 .. i /\ Whole(p.q)

LEMMA RetainStepKeeps ==
    ASSUME NEW q, Whole(q), NEW keep, NEW i \in 0 .. q.len - 1, NEW p, Retained(q, p, i)
    PROVE  Retained(q, RetainStep(p, i, keep), i + 1)
  <1>1. q.len \in Nat /\ q.cap \in Nat /\ q.len <= q.cap
    BY WholeIs
  <1>2. PICK b, kept : b = p.q /\ kept = p.kept
    OBVIOUS
  <1>3. InPlace(q, b) /\ b.len = q.len /\ kept \in 0 .. i /\ Whole(b)
    BY <1>2 DEF Retained
  <1>4. CASE ElemAt(b, i) \notin keep
    <2>1. RetainStep(p, i, keep) = p
      BY <1>2, <1>4 DEF RetainStep
    <2>2. kept \in 0 .. i + 1
      BY <1>1, <1>3
    <2> QED
      BY <1>2, <1>3, <2>1, <2>2 DEF Retained
  <1>5. CASE ElemAt(b, i) \in keep
    <2>1. PICK m, x : x = ElemAt(b, i) /\ m = WithSlot(b, SlotOf(b, kept), x)
      OBVIOUS
    <2>2. RetainStep(p, i, keep).q = m /\ RetainStep(p, i, keep).kept = kept + 1
      BY <1>2, <1>5, <2>1 DEF RetainStep, MoveElem, WithSlot
    <2>3. i \in 0 .. b.len - 1 /\ kept \in 0 .. b.len - 1 /\ kept + 1 \in 0 .. i + 1
      BY <1>1, <1>3
    <2>4. x \in Elem
      BY <1>3, <2>1, <2>3 DEF Whole, HoldsElems
    <2>5. Sound(b, m) /\ m.len = b.len /\ Whole(m)
      BY <1>3, <2>1, <2>3, <2>4, SetSound
    <2>6. InPlace(q, m)
      BY <1>3, <2>5, InPlaceTrans DEF Sound
    <2> QED
      BY <1>3, <2>2, <2>3, <2>5, <2>6 DEF Retained
  <1> QED
    BY <1>4, <1>5

LEMMA RetainLoopKeeps ==
    ASSUME NEW q, Whole(q), NEW keep
    PROVE  Retained(q, RetainLoop(q, keep), q.len)
  <1> DEFINE f == CHOOSE f : Retains(f, q.len, q, keep)
             base == [q |-> q, kept |-> 0]
             T == {i \in Nat : i <= q.len /\ ~Retained(q, f[i], i)}
  <1>1. q.len \in Nat /\ q.cap \in Nat /\ InPlace(q, q)
    BY WholeIs, InPlaceItself
  <1>2. Retains(f, q.len, q, keep)
    BY <1>1, RetainsExist
  <1>3. RetainLoop(q, keep) = f[q.len]
    BY DEF RetainLoop, Retains
  <1> HIDE DEF f
  <1>4. base.q = q /\ base.kept = 0
    OBVIOUS
  <1> HIDE DEF base
  <1>5. \A i \in 0 .. q.len : f[i] = IF i = 0 THEN base ELSE RetainStep(f[i - 1], i - 1, keep)
    BY <1>2 DEF Retains, base
  <1>6. Retained(q, base, 0)
    BY <1>1, <1>4 DEF Retained
  <1>7. T = {}
    <2>1. SUFFICES ASSUME T # {} PROVE FALSE
      OBVIOUS
    <2>2. PICK i \in T : \A j \in T : i <= j
      BY <2>1, LeastNat
    <2>3. i \in 0 .. q.len /\ ~Retained(q, f[i], i)
      BY <1>1
    <2>4. i # 0
      BY <1>1, <1>5, <1>6, <2>3
    <2>5. PICK j \in Nat : i = j + 1 /\ j = i - 1 /\ j \in 0 .. q.len - 1
      BY <1>1, <2>3, <2>4
    <2>6. Retained(q, f[j], j)
      BY <1>1, <2>2, <2>5
    <2>7. f[i] = RetainStep(f[j], j, keep)
      BY <1>5, <2>3, <2>4, <2>5
    <2>8. Retained(q, f[i], j + 1)
      BY <2>5, <2>6, <2>7, RetainStepKeeps
    <2> QED
      BY <2>3, <2>5, <2>8
  <1> QED
    BY <1>1, <1>3, <1>7

LEMMA RetainKeeps ==
    ASSUME DequeAssumption, DequeInv, NEW d \in Names, Alive(d), NEW keep, tda_deque_retain(d, keep)
    PROVE  DequeInv'
  <1>1. PICK q : q = deques[d] /\ Whole(q)
    BY AliveWhole
  <1>2. PICK b, kept : b = RetainLoop(q, keep).q /\ kept = RetainLoop(q, keep).kept
    OBVIOUS
  <1>3. InPlace(q, b) /\ b.len = q.len /\ kept \in 0 .. b.len /\ Whole(b) /\ b.cap = q.cap
    BY <1>1, <1>2, RetainLoopKeeps DEF Retained, InPlace
  <1>4. PICK p : p = WithLen(b, kept)
    OBVIOUS
  <1>5. Sound(b, p)
    BY <1>3, <1>4, Shortened
  <1>6. Sound(q, p)
    BY <1>3, <1>5, InPlaceTrans DEF Sound
  <1>7. EndsOk([op |-> "retain", keep |-> keep], d, p)
    BY <1>1, <1>2, <1>4 DEF tda_deque_retain, WithLen
  <1> QED
    BY <1>1, <1>6, <1>7, SoundEnds

\* A walk: the deque is left alone, and a walk that breaks off has been at an elem.
Walks(f, n, q, stop) ==
    f = [i \in 0 .. n |-> IF i = 0 THEN [q |-> q, met |-> <<>>, brk |-> FALSE, idx |-> 0]
                          ELSE WalkTurn(f[i - 1], stop)]

LEMMA WalksExist ==
    ASSUME NEW q, NEW stop, NEW k \in Nat
    PROVE  \E f : Walks(f, k, q, stop)
  <1> DEFINE T == {n \in Nat : ~ \E f : Walks(f, n, q, stop)}
             base == [q |-> q, met |-> <<>>, brk |-> FALSE, idx |-> 0]
  <1>1. SUFFICES ASSUME T # {} PROVE FALSE
    OBVIOUS
  <1>2. PICK n \in T : \A m \in T : n <= m
    BY <1>1, LeastNat
  <1> HIDE DEF base
  <1>3. n # 0
    <2>1. PICK f : f = [i \in 0 .. 0 |-> base]
      OBVIOUS
    <2>2. f = [i \in 0 .. 0 |-> IF i = 0 THEN base ELSE WalkTurn(f[i - 1], stop)]
      BY <2>1
    <2>3. Walks(f, 0, q, stop)
      BY <2>2 DEF Walks, base
    <2> QED
      BY <2>3
  <1>4. PICK f : Walks(f, n - 1, q, stop)
    <2>1. n - 1 \in Nat /\ ~(n <= n - 1)
      BY <1>3
    <2> QED
      BY <1>2, <2>1
  <1>5. f = [i \in 0 .. n - 1 |-> IF i = 0 THEN base ELSE WalkTurn(f[i - 1], stop)]
    BY <1>4 DEF Walks, base
  <1> DEFINE g == [i \in 0 .. n |-> IF i < n THEN f[i] ELSE WalkTurn(f[n - 1], stop)]
  <1>6. \A i \in 0 .. n - 1 : g[i] = f[i]
    BY <1>3
  <1>7. g[n] = WalkTurn(f[n - 1], stop)
    BY <1>3
  <1>8. ASSUME NEW i \in 0 .. n
        PROVE  g[i] = IF i = 0 THEN base ELSE WalkTurn(g[i - 1], stop)
    <2>1. CASE i = n
      BY <1>3, <1>6, <1>7, <2>1
    <2>2. CASE i # n
      <3>1. i \in 0 .. n - 1 /\ (i # 0 => i - 1 \in 0 .. n - 1)
        BY <1>3, <2>2
      <3>2. f[i] = IF i = 0 THEN base ELSE WalkTurn(f[i - 1], stop)
        BY <1>5, <3>1
      <3> HIDE DEF g
      <3> QED
        BY <1>6, <3>1, <3>2
    <2> QED
      BY <2>1, <2>2
  <1>9. g = [i \in 0 .. n |-> g[i]]
    OBVIOUS
  <1> HIDE DEF g
  <1>10. g = [i \in 0 .. n |-> IF i = 0 THEN base ELSE WalkTurn(g[i - 1], stop)]
    BY <1>8, <1>9
  <1>11. Walks(g, n, q, stop)
    BY <1>10 DEF Walks, base
  <1> QED
    BY <1>2, <1>11

Walked(q, t) ==
    /\ t = [q |-> t.q, met |-> t.met, brk |-> t.brk, idx |-> t.idx]
    /\ t.q = q /\ t.idx \in 0 .. q.len /\ (t.brk => t.idx > 0)

LEMMA WalkTurnKeeps ==
    ASSUME NEW q, Whole(q), NEW stop, NEW t, Walked(q, t)
    PROVE  Walked(q, WalkTurn(t, stop))
  <1>1. q.len \in Nat
    BY WholeIs
  <1>2. CASE t.brk \/ t.idx >= t.q.len
    BY <1>2 DEF WalkTurn
  <1>3. CASE ~(t.brk \/ t.idx >= t.q.len)
    <2>1. PICK met, brk, idx : /\ met = Append(t.met, ElemAt(t.q, t.idx)) /\ brk = (ElemAt(t.q, t.idx) \in stop)
                               /\ idx = t.idx + 1
      OBVIOUS
    <2>2. WalkTurn(t, stop) = [t EXCEPT !.met = met, !.brk = brk, !.idx = idx]
      BY <1>3, <2>1 DEF WalkTurn
    <2>3. PICK s : s = WalkTurn(t, stop)
      OBVIOUS
    <2>4. s = [q |-> q, met |-> met, brk |-> brk, idx |-> idx]
      BY <2>2, <2>3 DEF Walked
    <2>5. idx \in 0 .. q.len /\ idx > 0
      BY <1>1, <1>3, <2>1 DEF Walked
    <2> QED
      BY <2>3, <2>4, <2>5 DEF Walked
  <1> QED
    BY <1>2, <1>3

LEMMA WalkKeeps ==
    ASSUME NEW q, Whole(q), NEW stop
    PROVE  Walked(q, Walk(q, stop))
  <1> DEFINE f == CHOOSE f : Walks(f, q.len, q, stop)
             base == [q |-> q, met |-> <<>>, brk |-> FALSE, idx |-> 0]
             T == {i \in Nat : i <= q.len /\ ~Walked(q, f[i])}
  <1>1. q.len \in Nat
    BY WholeIs
  <1>2. Walks(f, q.len, q, stop)
    BY <1>1, WalksExist
  <1>3. Walk(q, stop) = f[q.len]
    BY DEF Walk, Walks
  <1> HIDE DEF f
  <1>4. Walked(q, base)
    BY <1>1 DEF Walked
  <1> HIDE DEF base
  <1>5. \A i \in 0 .. q.len : f[i] = IF i = 0 THEN base ELSE WalkTurn(f[i - 1], stop)
    BY <1>2 DEF Walks, base
  <1>6. T = {}
    <2>1. SUFFICES ASSUME T # {} PROVE FALSE
      OBVIOUS
    <2>2. PICK i \in T : \A j \in T : i <= j
      BY <2>1, LeastNat
    <2>3. i \in 0 .. q.len /\ ~Walked(q, f[i])
      BY <1>1
    <2>4. i # 0
      BY <1>1, <1>4, <1>5, <2>3
    <2>5. PICK j \in Nat : i = j + 1 /\ j = i - 1
      BY <1>1, <2>3, <2>4
    <2>6. Walked(q, f[j])
      BY <1>1, <2>2, <2>5
    <2>7. f[i] = WalkTurn(f[j], stop)
      BY <1>5, <2>3, <2>4, <2>5
    <2> QED
      BY <2>3, <2>6, <2>7, WalkTurnKeeps
  <1> QED
    BY <1>1, <1>3, <1>6

LEMMA ForEachMutKeeps ==
    ASSUME DequeAssumption, DequeInv, NEW d \in Names, Alive(d), NEW e, NEW v \in Vals(deques[d]), ~v.alias,
           TDA_DEQUE_FOR_EACH_MUT_AS(d, e, v)
    PROVE  DequeInv'
  <1>1. PICK q : q = deques[d] /\ Whole(q)
    BY AliveWhole
  <1>2. PICK t : t = Walk(q, {e}) /\ Walked(q, t)
    BY <1>1, WalkKeeps
  <1>3. t.brk /\ \E c : EndsOk(c, d, [t.q EXCEPT !.ring[SlotOf(t.q, t.idx - 1)] = v.at])
    BY <1>1, <1>2 DEF TDA_DEQUE_FOR_EACH_MUT_AS
  <1>4. PICK x : x = v.at /\ x \in Elem
    BY DEF Vals
  <1>5. PICK idx : idx = t.idx - 1
    OBVIOUS
  <1>6. t.q = q /\ idx \in 0 .. q.len - 1
    BY <1>1, <1>2, <1>3, <1>5, WholeIs DEF Walked
  <1>7. PICK p : p = WithSlot(q, SlotOf(q, idx), x)
    OBVIOUS
  <1>8. Sound(q, p)
    BY <1>1, <1>4, <1>6, <1>7, SetSound
  <1>9. \E c : EndsOk(c, d, p)
    BY <1>3, <1>4, <1>5, <1>6, <1>7 DEF WithSlot
  <1> QED
    BY <1>1, <1>8, <1>9, SoundEnds

\* The calls that only read.
LEMMA ReadsEnd ==
    ASSUME DequeAssumption, DequeInv, NEW d \in Names, Alive(d),
           \/ \E idx : tda_deque_get(d, idx)
           \/ tda_deque_front(d) \/ tda_deque_back(d)
           \/ tda_deque_copy_to_span(d) \/ tda_deque_to_spans(d) \/ tda_deque_fprint(d)
           \/ TDA_DEQUE_FOR_EACH_AS(d)
           \/ \E e : tda_deque_eq(d, e)
    PROVE  DequeInv'
  <1>1. \E c : EndsOk(c, d, deques[d])
    BY DEF tda_deque_get, tda_deque_front, tda_deque_back, tda_deque_copy_to_span, tda_deque_to_spans,
           tda_deque_fprint, TDA_DEQUE_FOR_EACH_AS, tda_deque_eq
  <1> QED
    BY <1>1, ReadsKeep

-----------------------------------------------------------------------------
(* The calls that may ask for memory.                                       *)

\* What is known of a deque with more room.
LEMMA GrownIs ==
    ASSUME DequeAssumption, DequeInv, NEW d \in Names, Alive(d), NEW q, q = deques[d], NEW n \in Nat,
           NEW r, Grown(q, r, n), NEW g, g = r.q
    PROVE  /\ Whole(g) /\ g.len = q.len /\ g.cap >= n /\ g.cap \in Nat /\ r.ok /\ IsOutcome(r)
           /\ \A i \in 0 .. q.len - 1 : ElemAt(g, i) = ElemAt(q, i) /\ ElemAt(g, i) \in Elem
  <1>1. IsDeque(g) /\ g.len = q.len /\ g.cap >= n /\ r.ok /\ IsOutcome(r)
    BY DEF Grown, Good
  <1>2. Whole(g) /\ g.cap \in Nat /\ HoldsElems(g)
    BY <1>1, DequeFields DEF Whole
  <1>3. \A i \in 0 .. q.len - 1 : ElemAt(g, i) = ElemAt(q, i)
    BY DEF Grown
  <1> QED
    BY <1>1, <1>2, <1>3 DEF HoldsElems

\* The elems rearranged in the room there is now, the call is done.
LEMMA GrownEnds ==
    ASSUME DequeAssumption, DequeInv, NEW d \in Names, Alive(d), NEW q, q = deques[d], NEW n,
           NEW r, Grown(q, r, n), NEW p, Sound(r.q, p), NEW c, NEW ok, Ends(c, d, p, r.heap, ok)
    PROVE  DequeInv'
  <1>1. PICK g : g = r.q
    OBVIOUS
  <1>2. IsDeque(g) /\ g.al = q.al /\ FromBlock(q, g) /\ r.heap = HeapWith(q, g)
    BY <1>1 DEF Grown, Good
  <1>3. g.al \in Als
    BY <1>2, AliveDeque
  <1>4. PICK o : o = [q |-> p, heap |-> r.heap]
    OBVIOUS
  <1>5. o.q = p /\ o.heap = r.heap
    BY <1>4
  <1>6. InPlace(g, o.q) /\ o.q.len \in 0 .. g.cap /\ HoldsElems(o.q)
    BY <1>1, <1>5 DEF Sound
  <1>7. FromBlock(deques[d], g) /\ o.heap = HeapWith(deques[d], g)
    BY <1>2, <1>5
  <1>8. Good(deques[d], o)
    BY <1>2, <1>3, <1>6, <1>7, InPlaceIsGood
  <1> QED
    BY <1>5, <1>8, EndsKeeps

LEMMA RefusedEnds ==
    ASSUME DequeAssumption, DequeInv, NEW d \in Names, NEW q, q = deques[d], NEW r, Refused(q, r),
           NEW c, NEW ok, Ends(c, d, r.q, r.heap, ok)
    PROVE  DequeInv'
  <1>1. Good(deques[d], r)
    BY SameIsGood DEF Refused
  <1> QED
    BY <1>1, EndsKeeps

LEMMA GrownStays ==
    ASSUME DequeAssumption, DequeInv, NEW d \in Names, NEW q, q = deques[d], NEW n, NEW r, Grown(q, r, n),
           NEW c, NEW ok, Ends(c, d, r.q, r.heap, ok)
    PROVE  DequeInv'
  BY EndsKeeps DEF Grown

\* One elem more at the back.
LEMMA PushedBack ==
    ASSUME NEW q, Whole(q), q.cap >= q.len + 1, NEW x \in Elem, NEW n, n = q.len + 1, NEW m, m = WithLen(q, n),
           NEW p, p = WithSlot(m, SlotOf(q, q.len), x)
    PROVE  /\ Sound(q, p) /\ p.len = n
           /\ \A i \in 0 .. q.len : ElemAt(p, i) = IF i = q.len THEN x ELSE ElemAt(q, i)
  <1>1. OnRing(q) /\ q.cap \in Nat /\ q.len \in Nat /\ HoldsElems(q)
    BY WholeIs
  <1>2. InPlace(q, m) /\ m.len = n /\ m.head = q.head /\ m.ring = q.ring /\ m.cap = q.cap
    BY <1>1, LenChanges
  <1>3. OnRing(m)
    BY <1>1, <1>2, InPlaceOnRing
  <1>4. SlotOf(m, q.len) = SlotOf(q, q.len)
    BY <1>2, SameSlots
  <1>5. PICK to : to = q.len /\ to \in 0 .. m.cap - 1 /\ p = WithSlot(m, SlotOf(m, to), x)
    BY <1>1, <1>2, <1>4
  <1>6. x \in Slot
    BY DEF Slot
  <1>7. /\ InPlace(m, p) /\ p.len = m.len /\ p.head = m.head
        /\ \A i \in 0 .. m.cap - 1 : ElemAt(p, i) = IF i = to THEN x ELSE ElemAt(m, i)
    BY <1>3, <1>5, <1>6, ElemSet
  <1>8. ASSUME NEW i \in 0 .. p.len - 1 PROVE ElemAt(p, i) \in Elem
    <2>1. i \in 0 .. m.cap - 1 /\ (i # to => i \in 0 .. q.len - 1)
      BY <1>1, <1>2, <1>5, <1>7
    <2>2. ElemAt(m, i) = ElemAt(q, i)
      BY <1>2, SameElems
    <2> QED
      BY <1>1, <1>7, <2>1, <2>2 DEF HoldsElems
  <1>9. InPlace(q, p) /\ p.len \in 0 .. q.cap
    BY <1>1, <1>2, <1>7, InPlaceTrans
  <1>10. ASSUME NEW i \in 0 .. q.len PROVE ElemAt(p, i) = IF i = q.len THEN x ELSE ElemAt(q, i)
    <2>1. i \in 0 .. m.cap - 1
      BY <1>1, <1>2
    <2>2. ElemAt(m, i) = ElemAt(q, i)
      BY <1>2, SameElems
    <2> QED
      BY <1>5, <1>7, <2>1, <2>2
  <1> QED
    BY <1>2, <1>7, <1>8, <1>9, <1>10 DEF Sound, HoldsElems

\* One elem more at the front: the head moves back to its slot.
LEMMA PushedFront ==
    ASSUME NEW q, Whole(q), q.cap >= q.len + 1, NEW x \in Elem, NEW n, n = q.len + 1,
           NEW head, head = SlotBack(q, q.head, 1), NEW m, m = WithHead(q, head), NEW o, o = WithLen(m, n),
           NEW p, p = WithSlot(o, head, x)
    PROVE  /\ Sound(q, p) /\ p.len = n /\ ElemAt(p, 0) = x
           /\ \A i \in 0 .. q.len - 1 : ElemAt(p, i + 1) = ElemAt(q, i)
  <1>1. OnRing(q) /\ q.cap \in Nat /\ q.len \in Nat /\ HoldsElems(q) /\ 1 \in 0 .. q.cap
    BY WholeIs
  <1>2. /\ InPlace(q, m) /\ m.len = q.len /\ m.head = head
        /\ \A i \in 0 .. q.cap - 1 - 1 : ElemAt(m, i + 1) = ElemAt(q, i)
    BY <1>1, HeadOff
  <1>3. OnRing(m) /\ m.cap = q.cap
    BY <1>1, <1>2, InPlaceOnRing DEF InPlace
  <1>4. InPlace(m, o) /\ o.len = n /\ o.head = m.head /\ o.ring = m.ring /\ o.cap = m.cap
    BY <1>3, LenChanges
  <1>5. OnRing(o) /\ o.cap = q.cap
    BY <1>1, <1>3, <1>4, InPlaceOnRing
  <1>6. SlotOf(o, 0) = head
    <2>1. head \in Nat /\ head < q.cap /\ o.head = head
      BY <1>1, <1>2, <1>4, <1>5, HeadsAre DEF OnRing
    <2> QED
      BY <1>1, <1>5, <2>1 DEF SlotOf
  <1>7. PICK to : to = 0 /\ to \in 0 .. o.cap - 1 /\ p = WithSlot(o, SlotOf(o, to), x) /\ x \in Slot
    BY <1>1, <1>5, <1>6 DEF Slot
  <1>8. /\ InPlace(o, p) /\ p.len = o.len /\ p.head = o.head
        /\ \A i \in 0 .. o.cap - 1 : ElemAt(p, i) = IF i = to THEN x ELSE ElemAt(o, i)
    BY <1>5, <1>7, ElemSet
  <1>9. ASSUME NEW i \in 0 .. p.len - 1 PROVE ElemAt(p, i) \in Elem
    <2>1. i \in 0 .. o.cap - 1
      BY <1>1, <1>4, <1>5, <1>8
    <2>2. CASE i = 0
      BY <1>7, <1>8, <2>1, <2>2
    <2>3. CASE i # 0
      <3>1. PICK j : j = i - 1 /\ j \in 0 .. q.len - 1 /\ j \in 0 .. q.cap - 1 - 1 /\ i = j + 1
        BY <1>1, <1>4, <1>8, <2>3
      <3>2. ElemAt(o, i) = ElemAt(m, i)
        BY <1>4, SameElems
      <3>3. ElemAt(m, i) = ElemAt(q, j)
        BY <1>2, <3>1
      <3> QED
        BY <1>1, <1>7, <1>8, <2>1, <2>3, <3>1, <3>2, <3>3 DEF HoldsElems
    <2> QED
      BY <2>2, <2>3
  <1>10. InPlace(q, p) /\ p.len \in 0 .. q.cap
    BY <1>1, <1>2, <1>4, <1>8, InPlaceTrans
  <1>11. ElemAt(p, 0) = x
    BY <1>7, <1>8
  <1>12. ASSUME NEW j \in 0 .. q.len - 1 PROVE ElemAt(p, j + 1) = ElemAt(q, j)
    <2>1. PICK i : i = j + 1
      OBVIOUS
    <2>2. i \in 0 .. o.cap - 1 /\ i # 0 /\ j \in 0 .. q.cap - 1 - 1
      BY <1>1, <1>5, <2>1
    <2>3. ElemAt(o, i) = ElemAt(m, i)
      BY <1>4, SameElems
    <2>4. ElemAt(m, i) = ElemAt(q, j)
      BY <1>2, <2>1, <2>2
    <2>5. ElemAt(p, i) = ElemAt(o, i)
      BY <1>7, <1>8, <2>2
    <2> QED
      BY <2>1, <2>3, <2>4, <2>5
  <1> QED
    BY <1>4, <1>8, <1>9, <1>10, <1>11, <1>12 DEF Sound, HoldsElems

LEMMA PushBackKeeps ==
    ASSUME DequeAssumption, DequeInv, NEW d \in Names, Alive(d), NEW v \in Vals(deques[d]), tda_deque_push_back(d, v)
    PROVE  DequeInv'
  <1>1. PICK q : q = deques[d] /\ Whole(q)
    BY AliveWhole
  <1>2. PICK r \in ReserveOne(q, heap) :
            Ends([op |-> "push_back", val |-> v], d,
                 IF ~r.ok THEN r.q
                 ELSE [r.q EXCEPT !.len = @ + 1, !.ring[SlotOf(r.q, r.q.len)] = Src(q, r.q, v)], r.heap, r.ok)
    BY <1>1 DEF tda_deque_push_back
  <1>3. Refused(q, r) \/ Grown(q, r, q.len + 1)
    BY <1>1, <1>2, ReserveOneOutcomes
  <1>4. CASE Refused(q, r)
    <2>1. Ends([op |-> "push_back", val |-> v], d, r.q, r.heap, r.ok)
      BY <1>2, <1>4 DEF Refused
    <2> QED
      BY <1>1, <1>4, <2>1, RefusedEnds
  <1>5. CASE Grown(q, r, q.len + 1)
    <2>1. PICK g, n : g = r.q /\ n = q.len + 1 /\ n \in Nat
      BY <1>1, WholeIs
    <2>2. /\ Whole(g) /\ g.len = q.len /\ g.cap >= n /\ r.ok
          /\ \A i \in 0 .. q.len - 1 : ElemAt(g, i) = ElemAt(q, i) /\ ElemAt(g, i) \in Elem
      BY <1>1, <1>5, <2>1, GrownIs
    <2>3. PICK x : x = Src(q, g, v) /\ x \in Elem
      BY <1>1, <2>2, SrcIn
    <2>4. PICK m, p : m = WithLen(g, n) /\ p = WithSlot(m, SlotOf(g, g.len), x)
      OBVIOUS
    <2>5. Sound(g, p)
      BY <2>1, <2>2, <2>3, <2>4, PushedBack
    <2>6. Ends([op |-> "push_back", val |-> v], d, p, r.heap, r.ok)
      BY <1>2, <2>1, <2>2, <2>3, <2>4 DEF WithLen, WithSlot
    <2> QED
      BY <1>1, <1>5, <2>1, <2>5, <2>6, GrownEnds
  <1> QED
    BY <1>3, <1>4, <1>5

LEMMA PushFrontKeeps ==
    ASSUME DequeAssumption, DequeInv, NEW d \in Names, Alive(d), NEW v \in Vals(deques[d]), tda_deque_push_front(d, v)
    PROVE  DequeInv'
  <1>1. PICK q : q = deques[d] /\ Whole(q)
    BY AliveWhole
  <1>2. PICK r \in ReserveOne(q, heap) :
            Ends([op |-> "push_front", val |-> v], d,
                 IF ~r.ok THEN r.q
                 ELSE [r.q EXCEPT !.head = SlotBack(r.q, r.q.head, 1), !.len = @ + 1,
                                  !.ring[SlotBack(r.q, r.q.head, 1)] = Src(q, r.q, v)], r.heap, r.ok)
    BY <1>1 DEF tda_deque_push_front
  <1>3. Refused(q, r) \/ Grown(q, r, q.len + 1)
    BY <1>1, <1>2, ReserveOneOutcomes
  <1>4. CASE Refused(q, r)
    <2>1. Ends([op |-> "push_front", val |-> v], d, r.q, r.heap, r.ok)
      BY <1>2, <1>4 DEF Refused
    <2> QED
      BY <1>1, <1>4, <2>1, RefusedEnds
  <1>5. CASE Grown(q, r, q.len + 1)
    <2>1. PICK g, n : g = r.q /\ n = q.len + 1 /\ n \in Nat
      BY <1>1, WholeIs
    <2>2. /\ Whole(g) /\ g.len = q.len /\ g.cap >= n /\ r.ok
          /\ \A i \in 0 .. q.len - 1 : ElemAt(g, i) = ElemAt(q, i) /\ ElemAt(g, i) \in Elem
      BY <1>1, <1>5, <2>1, GrownIs
    <2>3. PICK x : x = Src(q, g, v) /\ x \in Elem
      BY <1>1, <2>2, SrcIn
    <2>4. PICK head : head = SlotBack(g, g.head, 1)
      OBVIOUS
    <2>5. PICK m, o, p : m = WithHead(g, head) /\ o = WithLen(m, n) /\ p = WithSlot(o, head, x)
      OBVIOUS
    <2>6. Sound(g, p)
      BY <2>1, <2>2, <2>3, <2>4, <2>5, PushedFront
    <2>7. Ends([op |-> "push_front", val |-> v], d, p, r.heap, r.ok)
      BY <1>2, <2>1, <2>2, <2>3, <2>4, <2>5 DEF WithHead, WithLen, WithSlot
    <2> QED
      BY <1>1, <1>5, <2>1, <2>6, <2>7, GrownEnds
  <1> QED
    BY <1>3, <1>4, <1>5

\* q with a gap of count places at idx: whichever side is shorter has moved off, and every
\* elem is where it was or count places on.
Gapped(q, g, idx, count) ==
    /\ InPlace(q, g) /\ g.len = q.len + count /\ OnRing(g)
    /\ \A i \in 0 .. idx - 1 : ElemAt(g, i) = ElemAt(q, i)
    /\ \A i \in idx .. q.len - 1 : ElemAt(g, i + count) = ElemAt(q, i)

\* The gap opened by moving the front back.
LEMMA GapFront ==
    ASSUME NEW q, Whole(q), NEW idx \in 0 .. q.len, NEW count \in Nat, q.len + count <= q.cap,
           NEW n, n = q.len + count, NEW m, m = WithHead(q, SlotBack(q, q.head, count)), NEW o, o = WithLen(m, n),
           NEW g, g = MoveElems(o, 0, count, idx)
    PROVE  Gapped(q, g, idx, count)
  <1>1. OnRing(q) /\ q.cap \in Nat /\ q.len \in Nat /\ count \in 0 .. q.cap /\ n \in Nat
    BY WholeIs
  <1>2. /\ InPlace(q, m) /\ m.len = q.len
        /\ \A i \in 0 .. q.cap - count - 1 : ElemAt(m, i + count) = ElemAt(q, i)
    BY <1>1, HeadOff
  <1>3. OnRing(m) /\ m.cap = q.cap
    BY <1>1, <1>2, InPlaceOnRing DEF InPlace
  <1>4. InPlace(m, o) /\ o.len = n /\ o.head = m.head /\ o.ring = m.ring /\ o.cap = m.cap
    BY <1>3, LenChanges
  <1>5. OnRing(o) /\ o.cap = q.cap /\ InPlace(q, o)
    BY <1>1, <1>2, <1>3, <1>4, InPlaceOnRing, InPlaceTrans
  <1>6. 0 \in Nat /\ idx \in Nat /\ count + idx <= o.cap
    BY <1>1, <1>5
  <1>7. /\ InPlace(o, g) /\ g.len = o.len
        /\ \A i \in 0 .. o.cap - 1 :
              ElemAt(g, i) = IF i \in 0 .. 0 + idx - 1 THEN ElemAt(o, count + (i - 0)) ELSE ElemAt(o, i)
    BY <1>5, <1>6, ElemsMoved
  <1>8. \A i : ElemAt(o, i) = ElemAt(m, i)
    BY <1>4, SameElems
  <1>9. ASSUME NEW i \in 0 .. idx - 1 PROVE ElemAt(g, i) = ElemAt(q, i)
    <2>1. i \in 0 .. o.cap - 1 /\ i \in 0 .. 0 + idx - 1 /\ i \in 0 .. q.cap - count - 1 /\ count + (i - 0) = i + count
      BY <1>1, <1>5
    <2> QED
      BY <1>2, <1>7, <1>8, <2>1
  <1>10. ASSUME NEW i \in idx .. q.len - 1 PROVE ElemAt(g, i + count) = ElemAt(q, i)
    <2>1. PICK k : k = i + count
      OBVIOUS
    <2>2. k \in 0 .. o.cap - 1 /\ k \notin 0 .. 0 + idx - 1 /\ i \in 0 .. q.cap - count - 1
      BY <1>1, <1>5, <2>1
    <2>3. ElemAt(g, k) = ElemAt(m, k)
      BY <1>7, <1>8, <2>2
    <2> QED
      BY <1>2, <2>1, <2>2, <2>3
  <1>11. InPlace(q, g) /\ OnRing(g) /\ g.len = q.len + count
    BY <1>1, <1>4, <1>5, <1>7, InPlaceOnRing, InPlaceTrans
  <1> QED
    BY <1>9, <1>10, <1>11 DEF Gapped

\* The gap opened by moving the back on.
LEMMA GapBack ==
    ASSUME NEW q, Whole(q), NEW idx \in 0 .. q.len, NEW count \in Nat, q.len + count <= q.cap,
           NEW n, n = q.len + count, NEW o, o = WithLen(q, n), NEW to, to = idx + count,
           NEW rest, rest = q.len - idx, NEW g, g = MoveElems(o, to, idx, rest)
    PROVE  Gapped(q, g, idx, count)
  <1>1. OnRing(q) /\ q.cap \in Nat /\ q.len \in Nat /\ n \in Nat
    BY WholeIs
  <1>2. InPlace(q, o) /\ o.len = n /\ o.head = q.head /\ o.ring = q.ring /\ o.cap = q.cap
    BY <1>1, LenChanges
  <1>3. OnRing(o)
    BY <1>1, <1>2, InPlaceOnRing
  <1>4. to \in Nat /\ idx \in Nat /\ rest \in Nat /\ idx + rest <= o.cap
    BY <1>1, <1>2
  <1>5. /\ InPlace(o, g) /\ g.len = o.len
        /\ \A i \in 0 .. o.cap - 1 :
              ElemAt(g, i) = IF i \in to .. to + rest - 1 THEN ElemAt(o, idx + (i - to)) ELSE ElemAt(o, i)
    BY <1>3, <1>4, ElemsMoved
  <1>6. \A i : ElemAt(o, i) = ElemAt(q, i)
    BY <1>2, SameElems
  <1>7. ASSUME NEW i \in 0 .. idx - 1 PROVE ElemAt(g, i) = ElemAt(q, i)
    <2>1. i \in 0 .. o.cap - 1 /\ i \notin to .. to + rest - 1
      BY <1>1, <1>2, <1>4
    <2> QED
      BY <1>5, <1>6, <2>1
  <1>8. ASSUME NEW i \in idx .. q.len - 1 PROVE ElemAt(g, i + count) = ElemAt(q, i)
    <2>1. PICK k : k = i + count
      OBVIOUS
    <2>2. k \in 0 .. o.cap - 1 /\ k \in to .. to + rest - 1 /\ idx + (k - to) = i
      BY <1>1, <1>2, <1>4, <2>1
    <2> QED
      BY <1>5, <1>6, <2>1, <2>2
  <1>9. InPlace(q, g) /\ OnRing(g) /\ g.len = q.len + count
    BY <1>1, <1>2, <1>3, <1>5, InPlaceOnRing, InPlaceTrans
  <1> QED
    BY <1>7, <1>8, <1>9 DEF Gapped

LEMMA GapIs ==
    ASSUME NEW q, Whole(q), NEW idx \in 0 .. q.len, NEW count \in Nat, q.len + count <= q.cap,
           NEW g, g = Gap(q, idx, count)
    PROVE  Gapped(q, g, idx, count)
  <1>1. PICK n, m, to, rest : /\ n = q.len + count /\ m = WithHead(q, SlotBack(q, q.head, count))
                              /\ to = idx + count /\ rest = q.len - idx
    OBVIOUS
  <1>2. CASE idx < rest
    <2>1. PICK o : o = WithLen(m, n)
      OBVIOUS
    <2>2. g = MoveElems(o, 0, count, idx)
      BY <1>1, <1>2, <2>1 DEF Gap, WithHead, WithLen
    <2> QED
      BY <1>1, <2>1, <2>2, GapFront
  <1>3. CASE ~(idx < rest)
    <2>1. PICK o : o = WithLen(q, n)
      OBVIOUS
    <2>2. g = MoveElems(o, to, idx, rest)
      BY <1>1, <1>3, <2>1 DEF Gap, WithLen
    <2> QED
      BY <1>1, <2>1, <2>2, GapBack
  <1> QED
    BY <1>2, <1>3

\* p has the elems of q around the count places from idx on
Around(q, p, idx, count) ==
    /\ p.len = q.len + count
    /\ \A i \in 0 .. idx - 1 : ElemAt(p, i) = ElemAt(q, i)
    /\ \A i \in idx .. q.len - 1 : ElemAt(p, i + count) = ElemAt(q, i)

\* The gap filled, there are elems all over.
LEMMA GapFilled ==
    ASSUME NEW q, Whole(q), NEW idx \in 0 .. q.len, NEW count \in Nat, q.len + count <= q.cap,
           NEW g, Gapped(q, g, idx, count), NEW p, InPlace(g, p), p.len = g.len,
           \A i \in 0 .. g.cap - 1 :
              IF i \in idx .. idx + count - 1 THEN ElemAt(p, i) \in Elem ELSE ElemAt(p, i) = ElemAt(g, i)
    PROVE  Sound(q, p) /\ Around(q, p, idx, count)
  <1>1. OnRing(q) /\ q.cap \in Nat /\ q.len \in Nat /\ HoldsElems(q)
    BY WholeIs
  <1>2. /\ InPlace(q, g) /\ g.len = q.len + count
        /\ \A i \in 0 .. idx - 1 : ElemAt(g, i) = ElemAt(q, i)
        /\ \A i \in idx .. q.len - 1 : ElemAt(g, i + count) = ElemAt(q, i)
    BY DEF Gapped
  <1>3. g.cap = q.cap
    BY <1>2 DEF InPlace
  <1>4. ASSUME NEW i \in 0 .. p.len - 1 PROVE ElemAt(p, i) \in Elem
    <2>1. i \in 0 .. g.cap - 1
      BY <1>1, <1>2, <1>3
    <2>2. CASE i \in idx .. idx + count - 1
      BY <2>1, <2>2
    <2>3. CASE i < idx
      <3>1. i \in 0 .. idx - 1 /\ i \in 0 .. q.len - 1 /\ i \notin idx .. idx + count - 1
        BY <1>1, <2>1, <2>3
      <3> QED
        BY <1>1, <1>2, <2>1, <3>1 DEF HoldsElems
    <2>4. CASE i >= idx + count
      <3>1. PICK j : j = i - count /\ j \in idx .. q.len - 1 /\ j \in 0 .. q.len - 1 /\ i = j + count
        BY <1>1, <1>2, <2>1, <2>4
      <3>2. i \notin idx .. idx + count - 1
        BY <2>1, <2>4
      <3>3. ElemAt(p, i) = ElemAt(g, i)
        BY <2>1, <3>2
      <3>4. ElemAt(g, i) = ElemAt(q, j)
        BY <1>2, <3>1
      <3> QED
        BY <1>1, <3>1, <3>3, <3>4 DEF HoldsElems
    <2> QED
      BY <2>1, <2>2, <2>3, <2>4
  <1>5. InPlace(q, p) /\ p.len \in 0 .. q.cap
    BY <1>1, <1>2, InPlaceTrans
  <1>6. ASSUME NEW i \in 0 .. idx - 1 PROVE ElemAt(p, i) = ElemAt(q, i)
    <2>1. i \in 0 .. g.cap - 1 /\ i \notin idx .. idx + count - 1
      BY <1>1, <1>3
    <2> QED
      BY <1>2, <2>1
  <1>7. ASSUME NEW j \in idx .. q.len - 1 PROVE ElemAt(p, j + count) = ElemAt(q, j)
    <2>1. PICK i : i = j + count
      OBVIOUS
    <2>2. i \in 0 .. g.cap - 1 /\ i \notin idx .. idx + count - 1
      BY <1>1, <1>3, <2>1
    <2>3. ElemAt(p, i) = ElemAt(g, i)
      BY <2>2
    <2>4. ElemAt(g, i) = ElemAt(q, j)
      BY <1>2, <2>1
    <2> QED
      BY <2>1, <2>3, <2>4
  <1>8. Around(q, p, idx, count)
    BY <1>2, <1>6, <1>7 DEF Around
  <1> QED
    BY <1>4, <1>5, <1>8 DEF Sound, HoldsElems

\* r is the grown s with the gap in it
Opened(q, s, r, idx, count) == Grown(q, s, q.len + count) /\ r = [s EXCEPT !.q = Gap(s.q, idx, count)]

LEMMA OpenGapOutcomes ==
    ASSUME DequeAssumption, DequeInv, NEW d \in Names, Alive(d), NEW q, q = deques[d], NEW idx \in 0 .. q.len,
           NEW count \in Nat, NEW r \in OpenGap(q, heap, idx, count)
    PROVE  Refused(q, r) \/ \E s : Opened(q, s, r, idx, count)
  <1>1. /\ IsDeque(q) /\ q.cap \in Nat /\ q.len \in Nat /\ q.len <= q.cap /\ SizeMax \in Nat
    BY AliveDeque, DequeFields
  <1>2. PICK n \in Nat : n = q.len + count
    BY <1>1
  <1>3. CASE CkdAdd(q.len, count) = Null
    <2>1. r = Outcome(q, heap, FALSE)
      BY <1>3 DEF OpenGap
    <2> QED
      BY <2>1 DEF Refused, Outcome, IsOutcome
  <1>4. CASE CkdAdd(q.len, count) # Null
    <2>1. CkdAdd(q.len, count) = n /\ n \in Sizes
      BY <1>1, <1>2, <1>4 DEF CkdAdd, Sizes
    <2>2. PICK s \in IF n > q.cap THEN ReserveFor(q, heap, n) ELSE {Outcome(q, heap, TRUE)} :
                r = IF s.ok THEN [s EXCEPT !.q = Gap(s.q, idx, count)] ELSE s
      BY <1>4, <2>1 DEF OpenGap
    <2>3. CASE n > q.cap
      <3>1. s \in ReserveFor(q, heap, n)
        BY <2>2, <2>3
      <3>2. Refused(q, s) \/ Grown(q, s, n)
        BY <2>1, <3>1, ReserveForOutcomes
      <3>3. CASE Refused(q, s)
        BY <2>2, <3>3 DEF Refused
      <3>4. CASE Grown(q, s, n)
        BY <1>2, <2>2, <3>4 DEF Grown, Opened
      <3> QED
        BY <3>2, <3>3, <3>4
    <2>4. CASE ~(n > q.cap)
      <3>1. n <= q.cap
        BY <1>1, <2>4
      <3>2. s = Outcome(q, heap, TRUE)
        BY <2>4
      <3>3. Grown(q, s, n)
        BY <3>1, <3>2, AsItIs
      <3> QED
        BY <1>2, <2>2, <3>3 DEF Grown, Opened
    <2> QED
      BY <2>3, <2>4
  <1> QED
    BY <1>3, <1>4

\* What an outcome with a gap is.
LEMMA GapOutcome ==
    ASSUME DequeAssumption, DequeInv, NEW d \in Names, Alive(d), NEW q, q = deques[d], NEW idx \in 0 .. q.len,
           NEW count \in Nat, NEW r, NEW s, Opened(q, s, r, idx, count), NEW b, b = s.q, NEW g, g = r.q
    PROVE  /\ r.ok /\ r.heap = s.heap
           /\ Whole(b) /\ idx \in 0 .. b.len /\ b.len + count <= b.cap /\ Gapped(b, g, idx, count)
           /\ b.len = q.len /\ \A i \in 0 .. q.len - 1 : ElemAt(b, i) = ElemAt(q, i)
  <1>5. PICK n : n = q.len + count
    OBVIOUS
  <1>6. n \in Nat /\ Grown(q, s, n) /\ q.len \in Nat
    BY <1>5, AliveDeque DEF Opened
  <1>1. /\ Whole(b) /\ b.len = q.len /\ b.cap >= n /\ b.cap \in Nat /\ s.ok /\ IsOutcome(s)
        /\ \A i \in 0 .. q.len - 1 : ElemAt(b, i) = ElemAt(q, i)
    BY <1>6, GrownIs
  <1>2. g = Gap(b, idx, count) /\ r.ok /\ r.heap = s.heap
    BY <1>1 DEF IsOutcome, Outcome, Opened
  <1>3. idx \in 0 .. b.len /\ b.len + count <= b.cap
    BY <1>1, <1>5, <1>6
  <1>4. Gapped(b, g, idx, count)
    BY <1>1, <1>2, <1>3, GapIs
  <1> QED
    BY <1>1, <1>2, <1>3, <1>4

\* A single elem into its gap: the caller's, or one of the deque's, which the gap may have moved.
LEMMA InsertedIs ==
    ASSUME NEW q, Whole(q), NEW b, Whole(b), b.len = q.len, NEW idx \in 0 .. b.len, b.len + 1 <= b.cap,
           NEW g, Gapped(b, g, idx, 1), NEW v \in Vals(q), NEW p, p = Inserted(q, g, idx, v)
    PROVE  /\ Sound(b, p) /\ Around(b, p, idx, 1)
           /\ ElemAt(p, idx) = IF v.alias THEN ElemAt(b, v.at) ELSE v.at
  <1>1. OnRing(b) /\ b.cap \in Nat /\ b.len \in Nat /\ HoldsElems(b)
    BY WholeIs
  <1>2. /\ InPlace(b, g) /\ g.len = b.len + 1 /\ OnRing(g)
        /\ \A i \in 0 .. idx - 1 : ElemAt(g, i) = ElemAt(b, i)
        /\ \A i \in idx .. b.len - 1 : ElemAt(g, i + 1) = ElemAt(b, i)
    BY DEF Gapped
  <1>3. g.cap = b.cap /\ idx \in 0 .. g.cap - 1 /\ idx \in Nat
    BY <1>1, <1>2 DEF InPlace
  <1>4. ASSUME NEW x \in Elem, InPlace(g, p), p.len = g.len,
               \A i \in 0 .. g.cap - 1 : ElemAt(p, i) = IF i = idx THEN x ELSE ElemAt(g, i)
        PROVE  Sound(b, p) /\ Around(b, p, idx, 1) /\ ElemAt(p, idx) = x
    <2>1. ASSUME NEW i \in 0 .. g.cap - 1
          PROVE  IF i \in idx .. idx + 1 - 1 THEN ElemAt(p, i) \in Elem ELSE ElemAt(p, i) = ElemAt(g, i)
      <3>1. i \in idx .. idx + 1 - 1 <=> i = idx
        BY <1>3
      <3> QED
        BY <1>4, <3>1
    <2> QED
      BY <1>3, <1>4, <2>1, GapFilled
  <1>5. CASE v.alias
    <2>1. PICK at : at = v.at /\ at \in 0 .. q.len - 1
      BY <1>5 DEF Vals
    <2>2. at \in 0 .. q.cap - 1 /\ at \in 0 .. b.len - 1
      BY <2>1, WholeIs
    <2>3. AliasIdx(q, SlotOf(q, at)) = at
      BY <2>2, SlotIn, WholeIs DEF OnRing
    <2>4. PICK from : from = IF at < idx THEN at ELSE at + 1
      OBVIOUS
    <2>5. p = MoveElem(g, idx, from)
      BY <1>5, <2>1, <2>3, <2>4 DEF Inserted
    <2>6. from \in 0 .. g.cap - 1
      BY <1>1, <1>3, <2>2, <2>4
    <2>7. ElemAt(g, from) = ElemAt(b, at)
      <3>1. CASE at < idx
        <4>1. at \in 0 .. idx - 1
          BY <1>3, <2>2, <3>1
        <4> QED
          BY <1>2, <2>4, <3>1, <4>1
      <3>2. CASE ~(at < idx)
        <4>1. at \in idx .. b.len - 1
          BY <1>1, <1>3, <2>2, <3>2
        <4> QED
          BY <1>2, <2>4, <3>2, <4>1
      <3> QED
        BY <3>1, <3>2
    <2>8. PICK x : x = ElemAt(g, from) /\ x \in Elem
      BY <1>1, <2>2, <2>7 DEF HoldsElems
    <2>9. /\ InPlace(g, p) /\ p.len = g.len
          /\ \A i \in 0 .. g.cap - 1 : ElemAt(p, i) = IF i = idx THEN ElemAt(g, from) ELSE ElemAt(g, i)
      BY <1>2, <1>3, <2>5, <2>6, ElemMoved
    <2> QED
      BY <1>4, <1>5, <2>1, <2>7, <2>8, <2>9
  <1>6. CASE ~v.alias
    <2>1. PICK x : x = v.at /\ x \in Elem
      BY <1>6 DEF Vals
    <2>2. PICK src, n : src = <<x>> /\ n = 1
      OBVIOUS
    <2>3. src \in [1 .. n -> Elem] /\ src[1] = x /\ n \in Nat
      BY <2>1, <2>2
    <2>4. p = CopyRangeIn(g, idx, src)
      BY <1>6, <2>1, <2>2 DEF Inserted
    <2>5. idx + n <= g.cap
      BY <1>1, <1>3, <2>2
    <2>6. /\ InPlace(g, p) /\ p.len = g.len /\ p.head = g.head
          /\ \A i \in 0 .. g.cap - 1 :
                ElemAt(p, i) = IF i \in idx .. idx + n - 1 THEN src[i - idx + 1] ELSE ElemAt(g, i)
      BY <1>2, <1>3, <2>3, <2>4, <2>5, CopiedIn
    <2>7. ASSUME NEW i \in 0 .. g.cap - 1 PROVE ElemAt(p, i) = IF i = idx THEN x ELSE ElemAt(g, i)
      <3>1. CASE i = idx
        <4>1. i \in idx .. idx + n - 1 /\ i - idx + 1 = 1
          BY <1>3, <2>2, <3>1
        <4> QED
          BY <2>3, <2>6, <3>1, <4>1
      <3>2. CASE i # idx
        <4>1. i \notin idx .. idx + n - 1
          BY <1>3, <2>2, <3>2
        <4> QED
          BY <2>6, <3>2, <4>1
      <3> QED
        BY <3>1, <3>2
    <2> QED
      BY <1>4, <1>6, <2>1, <2>6, <2>7
  <1> QED
    BY <1>5, <1>6

\* A span into its gap.
LEMMA SpanInserted ==
    ASSUME NEW b, Whole(b), NEW idx \in 0 .. b.len, NEW count \in Nat, b.len + count <= b.cap,
           NEW g, Gapped(b, g, idx, count), NEW src \in [1 .. count -> Elem], NEW p, p = CopyRangeIn(g, idx, src)
    PROVE  /\ Sound(b, p) /\ Around(b, p, idx, count)
           /\ \A i \in 1 .. count : ElemAt(p, idx + i - 1) = src[i]
  <1>1. OnRing(g) /\ g.cap = b.cap /\ idx \in Nat
    BY DEF Gapped, InPlace
  <1>2. idx + count <= g.cap
    BY <1>1, WholeIs
  <1>3. /\ InPlace(g, p) /\ p.len = g.len /\ p.head = g.head
        /\ \A i \in 0 .. g.cap - 1 :
              ElemAt(p, i) = IF i \in idx .. idx + count - 1 THEN src[i - idx + 1] ELSE ElemAt(g, i)
    BY <1>1, <1>2, CopiedIn
  <1>4. ASSUME NEW i \in 0 .. g.cap - 1
        PROVE  IF i \in idx .. idx + count - 1 THEN ElemAt(p, i) \in Elem ELSE ElemAt(p, i) = ElemAt(g, i)
    <2>1. CASE i \in idx .. idx + count - 1
      <3>1. PICK k : k = i - idx + 1
        OBVIOUS
      <3>2. k \in 1 .. count
        BY <1>1, <2>1, <3>1
      <3> QED
        BY <1>3, <2>1, <3>1, <3>2
    <2> QED
      BY <1>3, <2>1
  <1>5. ASSUME NEW j \in 1 .. count PROVE ElemAt(p, idx + j - 1) = src[j]
    <2>1. PICK i : i = idx + j - 1
      OBVIOUS
    <2>4. g.cap \in Nat
      BY <1>1 DEF OnRing
    <2>2. i \in 0 .. g.cap - 1 /\ i \in idx .. idx + count - 1 /\ i - idx + 1 = j
      BY <1>1, <1>2, <2>1, <2>4
    <2>3. ElemAt(p, i) = src[i - idx + 1]
      BY <1>3, <2>2
    <2> QED
      BY <2>1, <2>2, <2>3
  <1>6. Sound(b, p) /\ Around(b, p, idx, count)
    BY <1>3, <1>4, GapFilled
  <1> QED
    BY <1>5, <1>6

LEMMA InsertKeeps ==
    ASSUME DequeAssumption, DequeInv, NEW d \in Names, Alive(d), NEW idx \in Nat, NEW v \in Vals(deques[d]),
           tda_deque_insert(d, idx, v)
    PROVE  DequeInv'
  <1>1. PICK q : q = deques[d] /\ Whole(q) /\ idx \in 0 .. q.len
    BY AliveWhole, WholeIs DEF tda_deque_insert
  <1>2. PICK count \in Nat : count = 1
    OBVIOUS
  <1>3. PICK r \in OpenGap(q, heap, idx, count) :
            Ends([op |-> "insert", idx |-> idx, val |-> v], d, IF r.ok THEN Inserted(q, r.q, idx, v) ELSE r.q,
                 r.heap, r.ok)
    BY <1>1, <1>2 DEF tda_deque_insert
  <1>4. Refused(q, r) \/ \E s : Opened(q, s, r, idx, count)
    BY <1>1, <1>3, OpenGapOutcomes
  <1>5. CASE Refused(q, r)
    <2>1. Ends([op |-> "insert", idx |-> idx, val |-> v], d, r.q, r.heap, r.ok)
      BY <1>3, <1>5 DEF Refused
    <2> QED
      BY <1>1, <1>5, <2>1, RefusedEnds
  <1>6. CASE \E s : Opened(q, s, r, idx, count)
    <2>1. PICK s : Opened(q, s, r, idx, count)
      BY <1>6
    <2>2. PICK b, g : b = s.q /\ g = r.q
      OBVIOUS
    <2>3. /\ r.ok /\ r.heap = s.heap
          /\ Whole(b) /\ idx \in 0 .. b.len /\ b.len + count <= b.cap /\ Gapped(b, g, idx, count) /\ b.len = q.len
      BY <1>1, <2>1, <2>2, GapOutcome
    <2>4. PICK p : p = Inserted(q, g, idx, v)
      OBVIOUS
    <2>5. Sound(b, p)
      BY <1>1, <1>2, <2>3, <2>4, InsertedIs
    <2>6. Ends([op |-> "insert", idx |-> idx, val |-> v], d, p, s.heap, r.ok)
      BY <1>3, <2>2, <2>3, <2>4
    <2> QED
      BY <1>1, <2>1, <2>2, <2>5, <2>6, GrownEnds DEF Opened
  <1> QED
    BY <1>4, <1>5, <1>6

LEMMA InsertSpanKeeps ==
    ASSUME DequeAssumption, DequeInv, NEW d \in Names, Alive(d), NEW idx \in Nat, NEW src \in Spans,
           tda_deque_insert_span(d, idx, src)
    PROVE  DequeInv'
  <1>1. PICK q : q = deques[d] /\ Whole(q) /\ idx \in 0 .. q.len
    BY AliveWhole, WholeIs DEF tda_deque_insert_span
  <1>2. PICK r \in InsertRaw(q, heap, idx, src) :
            Ends([op |-> "insert_span", idx |-> idx, src |-> src], d, r.q, r.heap, r.ok)
    BY <1>1 DEF tda_deque_insert_span
  <1>3. CASE src = <<>>
    <2>1. r = Outcome(q, heap, TRUE)
      BY <1>2, <1>3 DEF InsertRaw
    <2>2. r.q = q /\ r.heap = heap
      BY <2>1 DEF Outcome
    <2>3. Good(deques[d], r)
      BY <1>1, <2>2, SameIsGood
    <2> QED
      BY <1>2, <2>3, EndsKeeps
  <1>4. CASE src # <<>>
    <2>1. PICK count : count = Len(src) /\ count \in Nat /\ src \in [1 .. count -> Elem]
      BY SpansAre
    <2>2. PICK o \in OpenGap(q, heap, idx, count) : r = IF o.ok THEN [o EXCEPT !.q = CopyRangeIn(o.q, idx, src)] ELSE o
      BY <1>2, <1>4, <2>1 DEF InsertRaw
    <2>3. Refused(q, o) \/ \E s : Opened(q, s, o, idx, count)
      BY <1>1, <2>1, <2>2, OpenGapOutcomes
    <2>4. CASE Refused(q, o)
      <3>1. r = o
        BY <2>2, <2>4 DEF Refused
      <3> QED
        BY <1>1, <1>2, <2>4, <3>1, RefusedEnds
    <2>5. CASE \E s : Opened(q, s, o, idx, count)
      <3>1. PICK s : Opened(q, s, o, idx, count)
        BY <2>5
      <3>2. PICK b, g : b = s.q /\ g = o.q
        OBVIOUS
      <3>3. /\ o.ok /\ o.heap = s.heap
            /\ Whole(b) /\ idx \in 0 .. b.len /\ b.len + count <= b.cap /\ Gapped(b, g, idx, count)
        BY <1>1, <2>1, <3>1, <3>2, GapOutcome
      <3>4. PICK p : p = CopyRangeIn(g, idx, src)
        OBVIOUS
      <3>5. r.q = p /\ r.heap = s.heap
        <4>1. IsOutcome(s) /\ o = [s EXCEPT !.q = Gap(s.q, idx, count)]
          BY <3>1 DEF Grown, Opened
        <4> QED
          BY <2>2, <3>2, <3>3, <3>4, <4>1 DEF IsOutcome, Outcome
      <3>6. Sound(b, p)
        BY <2>1, <3>3, <3>4, SpanInserted
      <3>7. Ends([op |-> "insert_span", idx |-> idx, src |-> src], d, p, s.heap, r.ok)
        BY <1>2, <3>5
      <3> QED
        BY <1>1, <3>1, <3>2, <3>6, <3>7, GrownEnds DEF Opened
    <2> QED
      BY <2>3, <2>4, <2>5
  <1> QED
    BY <1>3, <1>4

LEMMA ExtendKeeps ==
    ASSUME DequeAssumption, DequeInv, NEW d \in Names, Alive(d), NEW src \in Spans, tda_deque_extend(d, src)
    PROVE  DequeInv'
  <1>1. deques[d].len \in Nat
    BY AliveDeque
  <1> QED
    BY <1>1, InsertSpanKeeps DEF tda_deque_extend

\* Zeros up to the new length, or the tail dropped.
LEMMA ResizedIs ==
    ASSUME Zero \in Elem, NEW q, Whole(q), NEW n \in 0 .. q.cap, NEW p, p = Resized(q, n)
    PROVE  /\ Sound(q, p) /\ p.len = n
           /\ \A i \in 0 .. n - 1 : ElemAt(p, i) = IF i < q.len THEN ElemAt(q, i) ELSE Zero
  <1>1. OnRing(q) /\ q.cap \in Nat /\ q.len \in Nat /\ HoldsElems(q) /\ q.len <= q.cap
    BY WholeIs
  <1>2. PICK ring : ring = [s \in 0 .. q.cap - 1 |-> IF AliasIdx(q, s) \in q.len .. n - 1 THEN Zero ELSE q.ring[s]]
    OBVIOUS
  <1>3. PICK f : f = [i \in 0 .. q.cap - 1 |-> IF i \in q.len .. n - 1 THEN Zero ELSE ElemAt(q, i)]
    OBVIOUS
  <1>4. ASSUME NEW s \in 0 .. q.cap - 1 PROVE ring[s] = f[AliasIdx(q, s)] /\ ring[s] \in Slot
    <2>1. AliasIdx(q, s) \in 0 .. q.cap - 1 /\ SlotOf(q, AliasIdx(q, s)) = s
      BY <1>1, IdxIn DEF OnRing
    <2>2. ElemAt(q, AliasIdx(q, s)) = q.ring[s] /\ q.ring[s] \in Slot
      BY <1>1, <2>1 DEF ElemAt, OnRing
    <2> QED
      BY <1>2, <1>3, <2>1, <2>2 DEF Slot
  <1>5. ring \in [0 .. q.cap - 1 -> Slot] /\ ring = [s \in 0 .. q.cap - 1 |-> f[AliasIdx(q, s)]]
    <2>1. ring = [s \in 0 .. q.cap - 1 |-> ring[s]]
      BY <1>2
    <2> QED
      BY <1>4, <2>1
  <1>6. PICK m, o : m = WithLen(q, n) /\ o = [m EXCEPT !.ring = ring]
    OBVIOUS
  <1>7. InPlace(q, m) /\ m.len = n /\ m.head = q.head /\ m.ring = q.ring /\ m.cap = q.cap
    BY <1>1, <1>6, LenChanges
  <1>8. OnRing(m)
    BY <1>1, <1>7, InPlaceOnRing
  <1>9. InPlace(m, o) /\ o.len = m.len /\ o.head = m.head /\ o.ring = ring /\ o.cap = m.cap
    <2>1. ring \in [0 .. m.cap - 1 -> Slot]
      BY <1>5, <1>7
    <2>2. o = [m EXCEPT !.ring = ring]
      BY <1>6
    <2> QED
      BY <1>8, <2>1, <2>2, RingChanges
  <1>10. p = o
    BY <1>1, <1>2, <1>6 DEF Resized, WithLen, OnRing
  <1>11. ASSUME NEW i \in 0 .. q.cap - 1 PROVE ElemAt(o, i) = f[i]
    <2>1. o.cap = q.cap /\ o.head = q.head /\ o.ring = [s \in 0 .. q.cap - 1 |-> f[AliasIdx(q, s)]]
      BY <1>5, <1>7, <1>9
    <2> QED
      BY <1>1, <2>1, RingByIndex
  <1>12. ASSUME NEW i \in 0 .. o.len - 1 PROVE ElemAt(o, i) \in Elem
    <2>1. i \in 0 .. q.cap - 1 /\ (i \notin q.len .. n - 1 => i \in 0 .. q.len - 1)
      BY <1>1, <1>7, <1>9
    <2> QED
      BY <1>1, <1>3, <1>11, <2>1 DEF HoldsElems
  <1>13. InPlace(q, o) /\ o.len \in 0 .. q.cap
    BY <1>7, <1>9, InPlaceTrans
  <1>14. ASSUME NEW i \in 0 .. n - 1 PROVE ElemAt(o, i) = IF i < q.len THEN ElemAt(q, i) ELSE Zero
    <2>1. i \in 0 .. q.cap - 1 /\ (i \in q.len .. n - 1 <=> ~(i < q.len))
      BY <1>1
    <2> QED
      BY <1>3, <1>11, <2>1
  <1> QED
    BY <1>7, <1>9, <1>10, <1>12, <1>13, <1>14 DEF Sound, HoldsElems

LEMMA ResizeKeeps ==
    ASSUME DequeAssumption, DequeInv, NEW d \in Names, Alive(d), NEW n \in Sizes, tda_deque_resize(d, n)
    PROVE  DequeInv'
  <1>1. PICK q : q = deques[d] /\ Whole(q)
    BY AliveWhole
  <1>2. PICK r \in IF n > q.cap THEN ReserveFor(q, heap, n) ELSE {Outcome(q, heap, TRUE)} :
            Ends([op |-> "resize", n |-> n], d, IF r.ok THEN Resized(r.q, n) ELSE r.q, r.heap, r.ok)
    BY <1>1 DEF tda_deque_resize
  <1>3. n \in Nat /\ q.cap \in Nat /\ Zero \in Elem
    BY <1>1, WholeIs DEF Sizes, DequeAssumption
  <1>4. Refused(q, r) \/ Grown(q, r, n)
    <2>1. CASE n > q.cap
      <3>1. r \in ReserveFor(q, heap, n)
        BY <1>2, <2>1
      <3> QED
        BY <1>1, <3>1, ReserveForOutcomes
    <2>2. CASE ~(n > q.cap)
      <3>1. r = Outcome(q, heap, TRUE)
        BY <1>2, <2>2
      <3>2. n <= q.cap
        BY <1>3, <2>2
      <3> QED
        BY <1>1, <3>1, <3>2, AsItIs
    <2> QED
      BY <2>1, <2>2
  <1>5. CASE Refused(q, r)
    <2>1. Ends([op |-> "resize", n |-> n], d, r.q, r.heap, r.ok)
      BY <1>2, <1>5 DEF Refused
    <2> QED
      BY <1>1, <1>5, <2>1, RefusedEnds
  <1>6. CASE Grown(q, r, n)
    <2>1. PICK g : g = r.q
      OBVIOUS
    <2>2. Whole(g) /\ g.cap >= n /\ g.cap \in Nat /\ r.ok
      BY <1>1, <1>3, <1>6, <2>1, GrownIs
    <2>3. n \in 0 .. g.cap
      BY <1>3, <2>2
    <2>4. PICK p : p = Resized(g, n)
      OBVIOUS
    <2>5. Sound(g, p)
      BY <1>3, <2>2, <2>3, <2>4, ResizedIs
    <2>6. Ends([op |-> "resize", n |-> n], d, p, r.heap, r.ok)
      BY <1>2, <2>1, <2>2, <2>4
    <2> QED
      BY <1>1, <1>6, <2>1, <2>5, <2>6, GrownEnds
  <1> QED
    BY <1>4, <1>5, <1>6

LEMMA ReserveKeeps ==
    ASSUME DequeAssumption, DequeInv, NEW d \in Names, Alive(d), NEW cap \in Sizes, tda_deque_reserve(d, cap)
    PROVE  DequeInv'
  <1>1. PICK q : q = deques[d]
    OBVIOUS
  <1>2. PICK r \in ReserveOutcomes(q, heap, cap) : Ends([op |-> "reserve"], d, r.q, r.heap, r.ok)
    BY <1>1 DEF tda_deque_reserve
  <1>3. Refused(q, r) \/ Grown(q, r, cap)
    BY <1>1, <1>2, ReserveOutcomesAre
  <1> QED
    BY <1>1, <1>2, <1>3, RefusedEnds, GrownStays

\* A deque with no block left.
LEMMA EmptiedIsGood ==
    ASSUME DequeAssumption, NEW p, NEW al \in Als \cup {Null}, NEW r, r.q = Empty(al), r.heap = FreeBlock(p, heap)
    PROVE  Good(p, r)
  <1>1. IsDeque(r.q) /\ r.q.data = Null
    BY EmptyIsDeque
  <1>2. FromBlock(p, r.q) /\ r.heap = HeapWith(p, r.q)
    BY <1>1 DEF FromBlock, HeapWith, FreeBlock
  <1> QED
    BY <1>1, <1>2 DEF Good

LEMMA ShrinkToFitKeeps ==
    ASSUME DequeAssumption, DequeInv, NEW d \in Names, Alive(d), tda_deque_shrink_to_fit(d)
    PROVE  DequeInv'
  <1>1. PICK q : q = deques[d]
    OBVIOUS
  <1>2. /\ IsDeque(q) /\ q.al \in Als /\ q.len \in Nat /\ q.len <= q.cap /\ q.cap \in Nat
        /\ q.cap <= SizeMax /\ SizeMax \in Nat
    BY <1>1, AliveDeque, DequeFields
  <1>3. PICK r \in IF q.len = q.cap THEN {Outcome(q, heap, TRUE)}
                   ELSE IF q.len = 0 THEN {ReleaseData(q, heap)} ELSE Relocate(q, heap, q.len) :
              Ends([op |-> "shrink_to_fit"], d, r.q, r.heap, r.ok)
    BY <1>1 DEF tda_deque_shrink_to_fit
  <1>4. CASE r = Outcome(q, heap, TRUE)
    <2>1. r.q = q /\ r.heap = heap
      BY <1>4 DEF Outcome
    <2>2. Good(deques[d], r)
      BY <1>1, <2>1, SameIsGood
    <2> QED
      BY <1>3, <2>2, EndsKeeps
  <1>5. CASE r = ReleaseData(q, heap)
    <2>1. r.q = Empty(q.al) /\ r.heap = FreeBlock(q, heap)
      BY <1>5 DEF ReleaseData, Outcome
    <2>2. Good(deques[d], r)
      BY <1>1, <1>2, <2>1, EmptiedIsGood
    <2> QED
      BY <1>3, <2>2, EndsKeeps
  <1>6. CASE q.len # 0 /\ r \in Relocate(q, heap, q.len)
    <2>1. PICK cap : cap = q.len
      OBVIOUS
    <2>2. cap \in Sizes /\ cap > 0 /\ q.len <= cap
      BY <1>2, <1>6, <2>1 DEF Sizes
    <2>3. r \in Relocate(q, heap, cap)
      BY <1>6, <2>1
    <2>4. Refused(q, r) \/ Grown(q, r, cap)
      BY <1>2, <2>2, <2>3, RelocateOutcomes
    <2> QED
      BY <1>1, <1>3, <2>4, RefusedEnds, GrownStays
  <1> QED
    BY <1>3, <1>4, <1>5, <1>6

-----------------------------------------------------------------------------
(* Blocks that change hands.                                                *)

\* Handles exchange their deques and one deque, p, is given up with its block: src is where
\* the deque of each handle was.
Exchange(p, src) ==
    /\ deques' = [f \in Names |-> deques'[f]] /\ \A f \in Names : IsDeque(deques'[f])
    /\ \A f \in Names :
          deques'[f].data # Null => deques'[f] = deques[src[f]] /\ deques[src[f]].data # p.data
    /\ \A f, g \in Owners' : src[f] = src[g] => f = g
    /\ \A g \in Owners : deques[g] = p \/ \E f \in Owners' : src[f] = g
    /\ heap' = heap \ {BlockOf(p)}

LEMMA HandsChange ==
    ASSUME DequeAssumption, DequeInv, NEW p, NEW src \in [Names -> Names], Exchange(p, src)
    PROVE  DequeInv'
  <1> USE DEF Exchange
  <1>1. ASSUME NEW f \in Owners'
        PROVE  f \in Names /\ src[f] \in Owners /\ deques'[f] = deques[src[f]] /\ deques[src[f]].data # p.data
    BY DEF Owners
  <1>2. ASSUME NEW f \in Owners' PROVE BlockOf(deques'[f]) \in heap'
    <2>1. BlockOf(deques[src[f]]) \in heap /\ BlockOf(deques[src[f]]) # BlockOf(p)
      BY <1>1, BlockFields DEF DequeInv, HeldApart
    <2> QED
      BY <1>1, <2>1
  <1>3. ASSUME NEW b \in heap'
        PROVE  \E f \in Owners' : b = BlockOf(deques'[f])
    <2>1. CASE \E g \in Owners : b = BlockOf(deques[g])
      <3>1. PICK g \in Owners : b = BlockOf(deques[g])
        BY <2>1
      <3>2. deques[g] # p
        BY <1>3, <3>1
      <3>3. PICK f \in Owners' : src[f] = g
        BY <3>2
      <3> QED
        BY <1>1, <3>1, <3>3
    <2> QED
      BY <1>3, <2>1 DEF DequeInv, HeldApart
  <1>4. heap' = {BlockOf(deques'[f]) : f \in Owners'}
    BY <1>2, <1>3
  <1>5. ASSUME NEW f \in Owners', NEW g \in Owners', deques'[f].data = deques'[g].data PROVE f = g
    <2>1. \A d, e \in Owners : deques[d].data = deques[e].data => d = e
      BY DEF DequeInv, HeldApart
    <2>2. src[f] = src[g]
      <3> HIDE DEF Exchange
      <3> QED
        BY <1>1, <1>5, <2>1
    <2> QED
      BY <2>2
  <1>6. HeldApart'
    BY <1>4, <1>5 DEF HeldApart, DequeInv, BlockOf
  <1> QED
    BY <1>6 DEF DequeInv

LEMMA DeadDeque ==
    ASSUME DequeAssumption, DequeInv, NEW d \in Names, ~Alive(d)
    PROVE  deques[d] = Zeroed /\ deques[d].data = Null /\ d \notin Owners
  <1>1. deques[d] = Zeroed
    BY DequeFields DEF DequeInv, Alive
  <1> QED
    BY <1>1, EmptyIsDeque DEF Zeroed, Owners

LEMMA TakenOver ==
    ASSUME DequeAssumption, DequeInv, NEW d \in Names, NEW e \in Names, Alive(e), d # e,
           deques' = [deques EXCEPT ![d] = deques[e], ![e] = Empty(deques[e].al)],
           heap' = FreeBlock(deques[d], heap)
    PROVE  DequeInv'
  <1> DEFINE src == [f \in Names |-> IF f = d THEN e ELSE f]
             nil == Empty(deques[e].al)
  <1>1. IsDeque(deques[e]) /\ IsDeque(nil) /\ nil.data = Null /\ nil.len = 0 /\ nil.cap = 0
    BY AliveDeque, EmptyIsDeque
  <1> HIDE DEF nil
  <1>2. /\ deques'[d] = deques[e] /\ deques'[e] = nil /\ \A f \in Names \ {d, e} : deques'[f] = deques[f]
        /\ deques' = [f \in Names |-> deques'[f]]
    BY DEF DequeInv, nil
  <1>3. \A f \in Names : IsDeque(deques'[f])
    BY <1>1, <1>2 DEF DequeInv
  <1>4. ASSUME NEW f \in Names, deques'[f].data # Null
        PROVE  deques'[f] = deques[src[f]] /\ deques[src[f]].data # deques[d].data
    <2>1. f # e
      BY <1>1, <1>2, <1>4
    <2>2. deques'[f] = deques[src[f]] /\ src[f] # d /\ src[f] \in Names
      BY <1>2, <2>1
    <2>3. deques[src[f]].data # Null
      BY <1>4, <2>2
    <2>4. deques[d].data = deques[src[f]].data => src[f] = d
      BY <2>2, <2>3 DEF DequeInv, HeldApart, Owners
    <2> QED
      BY <2>2, <2>4
  <1>5. ASSUME NEW f \in Owners', NEW g \in Owners', src[f] = src[g] PROVE f = g
    <2>1. f \in Names /\ g \in Names /\ f # e /\ g # e
      BY <1>1, <1>2 DEF Owners
    <2> QED
      BY <1>5, <2>1
  <1>6. ASSUME NEW g \in Owners PROVE deques[g] = deques[d] \/ \E f \in Owners' : src[f] = g
    <2>1. g \in Names /\ deques[g].data # Null
      BY DEF Owners
    <2>2. CASE g = e
      <3>1. d \in Owners' /\ src[d] = g
        BY <1>2, <2>1, <2>2 DEF Owners
      <3> QED
        BY <3>1
    <2>3. CASE g # e /\ g # d
      <3>1. g \in Owners' /\ src[g] = g
        BY <1>2, <2>1, <2>3 DEF Owners
      <3> QED
        BY <3>1
    <2> QED
      BY <2>2, <2>3
  <1>7. heap' = heap \ {BlockOf(deques[d])}
    BY DEF FreeBlock
  <1>8. src \in [Names -> Names]
    OBVIOUS
  <1> HIDE DEF src
  <1>9. Exchange(deques[d], src)
    BY <1>2, <1>3, <1>4, <1>5, <1>6, <1>7 DEF Exchange
  <1>10. DequeInv'
    BY <1>8, <1>9, HandsChange
  <1> QED
    BY <1>10

LEMMA Swapped ==
    ASSUME DequeAssumption, DequeInv, NEW d \in Names, NEW e \in Names,
           deques' = [deques EXCEPT ![d] = deques[e], ![e] = deques[d]], heap' = heap
    PROVE  DequeInv'
  <1> DEFINE src == [f \in Names |-> IF f = d THEN e ELSE IF f = e THEN d ELSE f]
  <1>1. /\ \A f \in Names : deques'[f] = deques[src[f]]
        /\ deques' = [f \in Names |-> deques'[f]]
    BY DEF DequeInv
  <1>2. src \in [Names -> Names] /\ \A f \in Names : src[src[f]] = f
    OBVIOUS
  <1>3. src[d] = e /\ src[e] = d /\ \A f \in Names \ {d, e} : src[f] = f
    OBVIOUS
  <1> HIDE DEF src
  <1>4. \A f \in Names : IsDeque(deques'[f])
    BY <1>1, <1>2 DEF DequeInv
  <1>5. Zeroed.data = Null
    BY EmptyIsDeque DEF Zeroed
  <1>6. heap' = heap \ {BlockOf(Zeroed)}
    BY <1>5, NoBlock DEF FreeBlock
  <1>7. \A f \in Names : deques'[f].data # Null => deques'[f] = deques[src[f]] /\ deques[src[f]].data # Zeroed.data
    BY <1>1, <1>5
  <1>8. \A f, g \in Owners' : src[f] = src[g] => f = g
    BY <1>2 DEF Owners
  <1>9. ASSUME NEW g \in Owners PROVE \E f \in Owners' : src[f] = g
    <2>1. g \in Names /\ deques[g].data # Null
      BY DEF Owners
    <2>2. src[g] \in Names /\ deques'[src[g]] = deques[g] /\ src[src[g]] = g
      BY <1>1, <1>2, <2>1
    <2>3. src[g] \in Owners'
      BY <2>1, <2>2 DEF Owners
    <2> QED
      BY <2>2, <2>3
  <1>10. Exchange(Zeroed, src)
    BY <1>1, <1>4, <1>6, <1>7, <1>8, <1>9 DEF Exchange
  <1>11. DequeInv'
    BY <1>2, <1>10, HandsChange
  <1> QED
    BY <1>11


LEMMA MoveAssignKeeps ==
    ASSUME DequeAssumption, DequeInv, NEW d \in Names, NEW e \in Names, tda_deque_move_assign(d, e)
    PROVE  DequeInv'
  <1>1. CASE d = e
    <2>1. deques' = deques /\ heap' = heap
      BY <1>1 DEF tda_deque_move_assign
    <2> QED
      BY <2>1, StutterKeeps
  <1>2. CASE d # e
    <2>1. /\ Alive(e) /\ deques' = [deques EXCEPT ![d] = deques[e], ![e] = Empty(deques[e].al)]
          /\ heap' = IF Alive(d) THEN FreeBlock(deques[d], heap) ELSE heap
      BY <1>2 DEF tda_deque_move_assign
    <2>2. heap' = FreeBlock(deques[d], heap)
      BY <2>1, DeadDeque, NoBlock
    <2> QED
      BY <1>2, <2>1, <2>2, TakenOver
  <1> QED
    BY <1>1, <1>2

LEMMA SwapKeeps ==
    ASSUME DequeAssumption, DequeInv, NEW d \in Names, NEW e \in Names, tda_deque_swap(d, e)
    PROVE  DequeInv'
  BY Swapped DEF tda_deque_swap

\* A handle that has no allocator is zeroed: to give it the deque is to swap with it.
LEMMA IntoDequeKeeps ==
    ASSUME DequeAssumption, DequeInv, NEW d \in Names, NEW e \in Names, tda_queue_into_deque(d, e)
    PROVE  DequeInv'
  <1>1. ~Alive(e) /\ deques' = [deques EXCEPT ![d] = Zeroed, ![e] = deques[d]] /\ heap' = heap
    BY DEF tda_queue_into_deque
  <1>2. deques[e] = Zeroed
    BY <1>1, DeadDeque
  <1> QED
    BY <1>1, <1>2, Swapped

LEMMA DeinitKeeps ==
    ASSUME DequeAssumption, DequeInv, NEW d \in Names, tda_deque_deinit(d)
    PROVE  DequeInv'
  <1>1. PICK r : r = [q |-> Zeroed, heap |-> IF Alive(d) THEN FreeBlock(deques[d], heap) ELSE heap]
    OBVIOUS
  <1>2. r.q = Empty(Null) /\ r.heap = FreeBlock(deques[d], heap)
    BY <1>1, DeadDeque, NoBlock DEF Zeroed
  <1>3. Good(deques[d], r)
    BY <1>2, EmptiedIsGood
  <1>4. Ends([op |-> "deinit"], d, r.q, r.heap, TRUE)
    BY <1>1 DEF tda_deque_deinit
  <1> QED
    BY <1>3, <1>4, EndsKeeps

\* What init_impl leaves in 'out': the deque asked for, or what was there if it is refused.
LEMMA InitImplOutcomes ==
    ASSUME DequeAssumption, DequeInv, NEW d \in Names, ~Alive(d), NEW al \in Als, NEW len \in Nat,
           NEW cap \in Sizes, len <= cap, NEW ring \in [0 .. cap - 1 -> Slot],
           \A i \in 0 .. len - 1 : ring[i] \in Elem, NEW r \in InitImpl(al, heap, len, cap, ring),
           NEW c, NEW ok, Ends(c, d, IF r.ok THEN r.q ELSE deques[d], r.heap, ok)
    PROVE  DequeInv'
  <1>1. PICK o : o = [q |-> IF r.ok THEN r.q ELSE deques[d], heap |-> r.heap]
    OBVIOUS
  <1>2. o.q = (IF r.ok THEN r.q ELSE deques[d]) /\ o.heap = r.heap
    BY <1>1
  <1>3. SUFFICES Good(deques[d], o)
    BY <1>2, EndsKeeps
  <1>4. cap \in Nat /\ deques[d].data = Null
    BY DeadDeque DEF Sizes, DequeAssumption
  <1>5. PICK q, nil : nil = Empty(al) /\ q = WithLen(nil, len)
    OBVIOUS
  <1>6. IsDeque(nil) /\ OnRing(nil) /\ nil.data = Null /\ nil.al = al /\ nil.len = 0
    BY <1>5, EmptyIsDeque, DequeFields
  <1>7. InPlace(nil, q) /\ q.len = len
    BY <1>5, <1>6, LenChanges
  <1>8. Shaped(q) /\ q.data = Null /\ q.al = al
    BY <1>6, <1>7 DEF InPlace
  <1>9. CASE ~r.ok /\ r.heap = heap
    BY <1>2, <1>9, SameIsGood
  <1>10. CASE cap = 0 /\ r = Outcome(q, heap, TRUE)
    <2>1. r.q = q /\ r.heap = heap /\ r.ok /\ len = 0
      BY <1>4, <1>10 DEF Outcome
    <2>2. q = nil
      BY <1>5, <1>6, <2>1 DEF WithLen, OnRing, Shaped
    <2>3. o.q = Empty(al) /\ o.heap = FreeBlock(deques[d], heap)
      BY <1>2, <1>4, <1>5, <2>1, <2>2, NoBlock
    <2> QED
      BY <2>3, EmptiedIsGood
  <1>11. CASE cap # 0 /\ OnNewBlock(q, r, cap, ring)
    <2>1. PICK p : p = r.q
      OBVIOUS
    <2>2. /\ r.ok /\ Shaped(p) /\ p.al = al /\ p.data \in Nat /\ p.cap = cap /\ p.head = 0 /\ p.len = len
          /\ p.ring = ring /\ FromBlock(deques[d], p) /\ r.heap = HeapWith(q, p)
      BY <1>7, <1>8, <1>11, <2>1 DEF OnNewBlock
    <2>3. p.cap \in Sizes /\ p.cap > 0 /\ p.len \in 0 .. p.cap
      BY <1>4, <1>11, <2>2
    <2>4. IsDeque(p)
      BY <2>2, <2>3, NewBlockIsDeque
    <2>5. FreeBlock(q, heap) = heap /\ FreeBlock(deques[d], heap) = heap
      BY <1>4, <1>8, NoBlock
    <2>6. r.heap = HeapWith(deques[d], p)
      BY <2>2, <2>5 DEF HeapWith, FreeBlock
    <2> QED
      BY <1>2, <2>1, <2>2, <2>4, <2>6 DEF Good
  <1>12. \/ cap = 0 /\ r = Outcome(q, heap, TRUE)
         \/ r = Outcome(q, heap, FALSE)
         \/ cap # 0 /\ r \in Replaced(q, heap, cap, ring)
    BY <1>5 DEF InitImpl, WithLen
  <1>13. CASE r = Outcome(q, heap, FALSE)
    BY <1>9, <1>13 DEF Outcome
  <1>14. CASE cap # 0 /\ r \in Replaced(q, heap, cap, ring)
    <2>1. Refused(q, r) \/ OnNewBlock(q, r, cap, ring)
      BY <1>8, <1>14, ReplacedOutcomes
    <2> QED
      BY <1>9, <1>11, <1>14, <2>1 DEF Refused
  <1> QED
    BY <1>10, <1>12, <1>13, <1>14

LEMMA MakeKeeps ==
    ASSUME DequeAssumption, DequeInv, NEW d \in Names, NEW al \in Als, NEW src \in Spans, NEW cap \in Sizes,
           tda_deque_make(d, al, src, cap)
    PROVE  DequeInv'
  <1>1. PICK n : n = Len(src) /\ n \in Nat /\ src \in [1 .. n -> Elem]
    BY SpansAre
  <1>2. PICK ring : ring = [s \in 0 .. cap - 1 |-> IF s < n THEN src[s + 1] ELSE Garbage]
    OBVIOUS
  <1>3. /\ ~Alive(d) /\ n <= cap
        /\ \E r \in InitImpl(al, heap, n, cap, ring) :
              Ends([op |-> "make", src |-> src], d, IF r.ok THEN r.q ELSE deques[d], r.heap, r.ok)
    BY <1>1, <1>2 DEF tda_deque_make
  <1>4. cap \in Nat
    BY DEF Sizes, DequeAssumption
  <1>5. ASSUME NEW s \in 0 .. cap - 1, s < n PROVE ring[s] \in Elem
    <2>1. s + 1 \in 1 .. n
      BY <1>1, <1>5
    <2> QED
      BY <1>1, <1>2, <1>5, <2>1
  <1>6. ring \in [0 .. cap - 1 -> Slot]
    BY <1>2, <1>5 DEF Slot
  <1>7. \A i \in 0 .. n - 1 : ring[i] \in Elem
    BY <1>1, <1>3, <1>4, <1>5
  <1> QED
    BY <1>1, <1>3, <1>6, <1>7, InitImplOutcomes

LEMMA CopyWithKeeps ==
    ASSUME DequeAssumption, DequeInv, NEW d \in Names, NEW al \in Als, NEW e \in Names, tda_deque_copy_with(d, al, e)
    PROVE  DequeInv'
  <1>1. ~Alive(d) /\ Alive(e)
    BY DEF tda_deque_copy_with
  <1>2. PICK q : q = deques[e]
    OBVIOUS
  <1>3. IsDeque(q) /\ Whole(q) /\ q.cap \in Nat /\ q.cap <= SizeMax /\ SizeMax \in Nat
    BY <1>1, <1>2, AliveDeque, AliveWhole, DequeFields
  <1>4. PICK len \in Nat : len = q.len
    BY <1>3, WholeIs
  <1>5. len \in Sizes /\ len <= len
    BY <1>3, <1>4, WholeIs DEF Sizes
  <1>6. PICK ring : ring = CopyOut(q, len)
    OBVIOUS
  <1>7. OnRing(q) /\ q.len <= q.cap /\ HoldsElems(q)
    BY <1>3, WholeIs
  <1>8. /\ ring \in [0 .. len - 1 -> Slot]
        /\ \A i \in 0 .. q.len - 1 : i < len => ring[i] = ElemAt(q, i)
    BY <1>6, <1>7, CopiedOut
  <1>9. \A i \in 0 .. len - 1 : ring[i] \in Elem
    BY <1>4, <1>7, <1>8 DEF HoldsElems
  <1>10. \E r \in InitImpl(al, heap, len, len, ring) :
            Ends([op |-> "copy", from |-> e], d, IF r.ok THEN r.q ELSE deques[d], r.heap, r.ok)
    BY <1>2, <1>4, <1>6 DEF tda_deque_copy_with
  <1> QED
    BY <1>1, <1>5, <1>8, <1>9, <1>10, InitImplOutcomes

\* q with the elems of p at the start of its block
Filled(q, p) == [q EXCEPT !.head = 0, !.len = p.len, !.ring = CopyOut(p, q.cap)]

LEMMA FilledIs ==
    ASSUME NEW p, Whole(p), NEW q, OnRing(q), p.len <= q.cap, NEW o, o = Filled(q, p)
    PROVE  /\ Sound(q, o) /\ o.head = 0 /\ o.len = p.len
           /\ \A i \in 0 .. o.len - 1 : o.ring[i] \in Elem /\ ElemAt(o, i) = ElemAt(p, i)
  <1>1. PICK cap : cap = q.cap /\ cap \in Nat
    BY DEF OnRing
  <1>2. PICK ring : ring = CopyOut(p, cap)
    OBVIOUS
  <1>3. OnRing(p) /\ p.len <= p.cap /\ HoldsElems(p) /\ p.len \in Nat
    BY WholeIs
  <1>4. /\ ring \in [0 .. cap - 1 -> Slot]
        /\ \A i \in 0 .. p.len - 1 : i < cap => ring[i] = ElemAt(p, i)
    BY <1>1, <1>2, <1>3, CopiedOut
  <1>5. \A i \in 0 .. p.len - 1 : ring[i] \in Elem
    BY <1>1, <1>3, <1>4 DEF HoldsElems
  <1>6. o = [al |-> q.al, data |-> q.data, cap |-> q.cap, head |-> 0, len |-> p.len, ring |-> ring]
    BY <1>1, <1>2 DEF OnRing, Shaped, Filled
  <1>7. /\ Shaped(o) /\ o.al = q.al /\ o.data = q.data /\ o.cap = q.cap /\ o.head = 0 /\ o.len = p.len
        /\ o.ring = ring
    BY <1>6 DEF Shaped
  <1>8. 0 \in Heads(cap)
    BY <1>1, HeadFits
  <1>9. InPlace(q, o)
    BY <1>1, <1>4, <1>7, <1>8 DEF InPlace
  <1>10. p.len \in 0 .. q.cap
    BY <1>1, <1>3
  <1>11. ASSUME NEW i \in 0 .. o.len - 1 PROVE ElemAt(o, i) \in Elem /\ ElemAt(o, i) = ElemAt(p, i)
    <2>1. i \in 0 .. o.cap - 1 /\ o.cap \in Nat
      BY <1>1, <1>3, <1>7, <1>11
    <2>2. ElemAt(o, i) = o.ring[i]
      BY <1>7, <2>1, Straight
    <2> QED
      <3>1. i \in 0 .. p.len - 1 /\ i < cap
        BY <1>1, <1>3, <1>7, <1>11
      <3> QED
        BY <1>4, <1>5, <1>7, <2>2, <3>1
  <1> QED
    BY <1>5, <1>7, <1>9, <1>10, <1>11 DEF Sound, HoldsElems

\* The elems of another deque, on the block there is.
LEMMA FilledOnOwn ==
    ASSUME DequeAssumption, DequeInv, NEW d \in Names, Alive(d), NEW p, Whole(p), p.len <= deques[d].cap,
           NEW c, NEW ok, Ends(c, d, Filled(deques[d], p), heap, ok)
    PROVE  DequeInv'
  <1>1. PICK q : q = deques[d]
    OBVIOUS
  <1>2. IsDeque(q) /\ OnRing(q) /\ q.al \in Als
    BY <1>1, AliveDeque
  <1>3. PICK o : o = Filled(q, p)
    OBVIOUS
  <1>4. Sound(q, o)
    BY <1>1, <1>2, <1>3, FilledIs
  <1>5. PICK r : r = Outcome(o, heap, TRUE)
    OBVIOUS
  <1>6. r.q = o /\ r.heap = heap
    BY <1>5 DEF Outcome
  <1>7. HeapWith(q, q) = heap /\ FromBlock(q, q)
    BY <1>1, SameBlock
  <1>8. Good(q, r)
    BY <1>1, <1>2, <1>4, <1>6, <1>7, InPlaceIsGood DEF Sound
  <1> QED
    BY <1>1, <1>3, <1>6, <1>8, EndsKeeps

\* The elems of another deque, on a new block of just their number.
LEMMA FilledOnNew ==
    ASSUME DequeAssumption, DequeInv, NEW d \in Names, Alive(d), NEW p, Whole(p), NEW cap \in Sizes, cap = p.len,
           cap > 0, NEW r, OnNewBlock(deques[d], r, cap, Blank(cap)), NEW c, NEW ok,
           Ends(c, d, Filled(r.q, p), r.heap, ok)
    PROVE  DequeInv'
  <1>1. PICK q, g : q = deques[d] /\ g = r.q
    OBVIOUS
  <1>2. q.al \in Als /\ q.len \in Nat /\ cap \in Nat
    BY <1>1, AliveDeque DEF Sizes, DequeAssumption
  <1>3. /\ Shaped(g) /\ g.al = q.al /\ g.data \in Nat /\ g.cap = cap /\ g.head = 0 /\ g.len = q.len
        /\ g.ring = Blank(cap) /\ FromBlock(q, g) /\ r.heap = HeapWith(q, g)
    BY <1>1 DEF OnNewBlock
  <1>4. 0 \in Heads(cap)
    BY <1>2, HeadFits
  <1>5. Blank(cap) \in [0 .. cap - 1 -> Slot]
    BY DEF Blank, Slot
  <1>6. OnRing(g)
    BY <1>2, <1>3, <1>4, <1>5 DEF OnRing
  <1>7. PICK o : o = Filled(g, p)
    OBVIOUS
  <1>8. p.len <= g.cap
    BY <1>2, <1>3
  <1>9. Sound(g, o) /\ o.head = 0 /\ o.len = p.len /\ \A i \in 0 .. o.len - 1 : o.ring[i] \in Elem
    BY <1>6, <1>7, <1>8, FilledIs
  <1>10. /\ Shaped(o) /\ o.al \in Als /\ o.data \in Nat /\ o.cap \in Sizes /\ o.cap > 0 /\ o.len \in 0 .. o.cap
         /\ o.ring \in [0 .. o.cap - 1 -> Slot] /\ o.data = g.data /\ o.al = g.al /\ o.cap = g.cap
    BY <1>2, <1>3, <1>9 DEF Sound, InPlace
  <1>11. IsDeque(o)
    BY <1>9, <1>10, NewBlockIsDeque
  <1>12. FromBlock(q, o) /\ HeapWith(q, o) = HeapWith(q, g)
    BY <1>3, <1>10 DEF FromBlock, HeapWith, BlockOf
  <1>13. PICK s : s = Outcome(o, r.heap, TRUE)
    OBVIOUS
  <1>14. s.q = o /\ s.heap = r.heap
    BY <1>13 DEF Outcome
  <1>15. Good(q, s)
    BY <1>3, <1>11, <1>12, <1>14 DEF Good
  <1> QED
    BY <1>1, <1>7, <1>14, <1>15, EndsKeeps

LEMMA CopyAssignKeeps ==
    ASSUME DequeAssumption, DequeInv, NEW d \in Names, NEW e \in Names, tda_deque_copy_assign(d, e)
    PROVE  DequeInv'
  <1>1. Alive(d) /\ Alive(e)
    BY DEF tda_deque_copy_assign
  <1>2. PICK q, p : q = deques[d] /\ p = deques[e]
    OBVIOUS
  <1>3. PICK c : c = [op |-> "copy", from |-> e]
    OBVIOUS
  <1>4. PICK r \in IF d = e THEN {Outcome(q, heap, TRUE)}
                   ELSE IF p.len <= q.cap THEN {Outcome(q, heap, TRUE)}
                   ELSE Replaced(q, heap, p.len, Blank(p.len)) :
              Ends(c, d, IF d = e \/ ~r.ok THEN q ELSE Filled(r.q, p), r.heap, r.ok)
    BY <1>2, <1>3 DEF tda_deque_copy_assign, Filled
  <1>5. IsDeque(q) /\ Shaped(q) /\ q.al \in Als /\ q.cap \in Nat
    BY <1>1, <1>2, AliveDeque DEF OnRing
  <1>6. IsDeque(p) /\ Whole(p) /\ p.len \in Nat /\ p.len <= p.cap /\ p.cap \in Nat /\ p.cap <= SizeMax
        /\ SizeMax \in Nat
    BY <1>1, <1>2, AliveDeque, AliveWhole, DequeFields
  <1>7. ASSUME r.heap = heap, d = e \/ ~r.ok PROVE DequeInv'
    <2>1. PICK s : s = Outcome(q, heap, TRUE)
      OBVIOUS
    <2>2. s.q = q /\ s.heap = heap
      BY <2>1 DEF Outcome
    <2>3. Good(q, s)
      BY <1>2, <2>2, SameIsGood
    <2> QED
      BY <1>2, <1>4, <1>7, <2>2, <2>3, EndsKeeps
  <1>8. CASE d = e
    BY <1>4, <1>7, <1>8 DEF Outcome
  <1>9. CASE d # e /\ p.len <= q.cap
    <2>1. r = Outcome(q, heap, TRUE)
      BY <1>4, <1>9
    <2>2. r.ok /\ r.q = q /\ r.heap = heap
      BY <2>1 DEF Outcome
    <2>3. Ends(c, d, Filled(deques[d], p), heap, r.ok)
      BY <1>2, <1>4, <1>9, <2>2
    <2> QED
      BY <1>1, <1>2, <1>6, <1>9, <2>3, FilledOnOwn
  <1>10. CASE d # e /\ ~(p.len <= q.cap)
    <2>1. PICK cap : cap = p.len
      OBVIOUS
    <2>2. cap \in Sizes /\ cap > 0
      BY <1>5, <1>6, <1>10, <2>1 DEF Sizes
    <2>3. r \in Replaced(q, heap, cap, Blank(cap))
      BY <1>4, <1>10, <2>1
    <2>4. Refused(q, r) \/ OnNewBlock(q, r, cap, Blank(cap))
      BY <1>5, <2>3, ReplacedOutcomes
    <2>5. CASE Refused(q, r)
      BY <1>7, <2>5 DEF Refused
    <2>6. CASE OnNewBlock(q, r, cap, Blank(cap))
      <3>1. Ends(c, d, Filled(r.q, p), r.heap, r.ok)
        BY <1>4, <1>10, <2>6 DEF OnNewBlock
      <3> QED
        BY <1>1, <1>2, <1>6, <2>1, <2>2, <2>6, <3>1, FilledOnNew
    <2> QED
      BY <2>4, <2>5, <2>6
  <1> QED
    BY <1>8, <1>9, <1>10

-----------------------------------------------------------------------------
(* Every call.                                                              *)

LEMMA FrontMutKeeps ==
    ASSUME DequeAssumption, DequeInv, NEW d \in Names, Alive(d), NEW v \in Vals(deques[d]), ~v.alias,
           tda_deque_front_mut(d, v)
    PROVE  DequeInv'
  <1>1. PICK idx \in Nat : idx = 0
    OBVIOUS
  <1>2. tda_deque_get_mut(d, idx, v)
    BY <1>1 DEF tda_deque_front_mut
  <1> QED
    BY <1>2, GetMutKeeps

LEMMA BackMutKeeps ==
    ASSUME DequeAssumption, DequeInv, NEW d \in Names, Alive(d), NEW v \in Vals(deques[d]), ~v.alias,
           tda_deque_back_mut(d, v)
    PROVE  DequeInv'
  <1>1. deques[d].len \in Nat /\ deques[d].len > 0
    BY AliveDeque DEF tda_deque_back_mut
  <1>2. PICK idx \in Nat : idx = deques[d].len - 1
    BY <1>1
  <1>3. tda_deque_get_mut(d, idx, v)
    BY <1>2 DEF tda_deque_back_mut
  <1> QED
    BY <1>3, GetMutKeeps

LEMMA RemoveKeeps ==
    ASSUME DequeAssumption, DequeInv, NEW d \in Names, Alive(d), NEW idx \in Nat, tda_deque_remove(d, idx)
    PROVE  DequeInv'
  <1>1. PICK count \in Nat : count = 1
    OBVIOUS
  <1>2. tda_deque_remove_range(d, idx, count)
    BY <1>1 DEF tda_deque_remove
  <1> QED
    BY <1>2, RemoveRangeKeeps

LEMMA ModsKeep ==
    ASSUME DequeAssumption, DequeInv, NEW d \in Names, Alive(d), Mods(d)
    PROVE  DequeInv'
  <1>1. deques[d].len \in Nat /\ \A i \in 0 .. deques[d].len : i \in Nat
    BY AliveDeque
  <1>2. \A n \in Sizes : n \in Nat
    BY DEF Sizes, DequeAssumption
  <1>3. ASSUME NEW v \in Vals(deques[d]),
               \/ tda_deque_push_front(d, v) \/ tda_deque_push_back(d, v)
               \/ \E idx \in 0 .. deques[d].len : tda_deque_insert(d, idx, v) \/ tda_deque_set(d, idx, v)
        PROVE  DequeInv'
    BY <1>1, <1>3, PushFrontKeeps, PushBackKeeps, InsertKeeps, SetKeeps
  <1>4. ASSUME NEW v \in Vals(deques[d]), ~v.alias,
               \/ tda_deque_front_mut(d, v) \/ tda_deque_back_mut(d, v)
               \/ \E e \in Elem : TDA_DEQUE_FOR_EACH_MUT_AS(d, e, v)
        PROVE  DequeInv'
    BY <1>4, FrontMutKeeps, BackMutKeeps, ForEachMutKeeps
  <1>5. ASSUME NEW src \in Spans,
               \/ tda_deque_copy_from_span(d, src) \/ tda_deque_extend(d, src)
               \/ \E idx \in 0 .. deques[d].len : tda_deque_insert_span(d, idx, src)
        PROVE  DequeInv'
    BY <1>1, <1>5, CopyFromSpanKeeps, ExtendKeeps, InsertSpanKeeps
  <1>6. ASSUME \/ tda_deque_pop_front(d) \/ tda_deque_pop_back(d)
               \/ tda_deque_pop_front_to(d) \/ tda_deque_pop_back_to(d)
               \/ tda_deque_clear(d) \/ tda_deque_shrink_to_fit(d)
        PROVE  DequeInv'
    BY <1>6, PopsKeep, ClearKeeps, ShrinkToFitKeeps
  <1>7. ASSUME \/ tda_deque_front(d) \/ tda_deque_back(d)
               \/ tda_deque_copy_to_span(d) \/ tda_deque_to_spans(d) \/ tda_deque_fprint(d)
               \/ TDA_DEQUE_FOR_EACH_AS(d)
        PROVE  DequeInv'
    BY <1>7, ReadsEnd
  <1>8. ASSUME NEW i \in 0 .. deques[d].len, tda_deque_get(d, i) \/ tda_deque_remove(d, i)
        PROVE  DequeInv'
    BY <1>1, <1>8, ReadsEnd, RemoveKeeps
  <1>9. ASSUME NEW i \in 0 .. deques[d].len, NEW j \in 0 .. deques[d].len,
               tda_deque_remove_range(d, i, j) \/ tda_deque_swap_elems(d, i, j)
        PROVE  DequeInv'
    BY <1>1, <1>9, RemoveRangeKeeps, SwapElemsKeeps
  <1>10. ASSUME NEW n \in Sizes, tda_deque_truncate(d, n) \/ tda_deque_reserve(d, n) \/ tda_deque_resize(d, n)
         PROVE  DequeInv'
    BY <1>2, <1>10, TruncateKeeps, ReserveKeeps, ResizeKeeps
  <1>11. ASSUME NEW keep, tda_deque_retain(d, keep)
         PROVE  DequeInv'
    BY <1>11, RetainKeeps
  <1> QED
    BY <1>3, <1>4, <1>5, <1>6, <1>7, <1>8, <1>9, <1>10, <1>11 DEF Mods

LEMMA LifetimeKeeps ==
    ASSUME DequeAssumption, DequeInv, NEW d \in Names, Lifetime(d)
    PROVE  DequeInv'
  BY MakeKeeps, DeinitKeeps DEF Lifetime

LEMMA EqKeeps ==
    ASSUME DequeAssumption, DequeInv, NEW d \in Names, NEW e \in Names, tda_deque_eq(d, e)
    PROVE  DequeInv'
  <1>1. Alive(d)
    BY DEF tda_deque_eq
  <1> QED
    BY <1>1, ReadsEnd

LEMMA PairsKeep ==
    ASSUME DequeAssumption, DequeInv, NEW d \in Names, NEW e \in Names, Pairs(d, e)
    PROVE  DequeInv'
  BY CopyWithKeeps, CopyAssignKeeps, MoveAssignKeeps, SwapKeeps, EqKeeps DEF Pairs

\* The calls of a queue are the deque's.
LEMMA QueueModsKeep ==
    ASSUME DequeAssumption, DequeInv, NEW d \in Names, Alive(d), QueueMods(d)
    PROVE  DequeInv'
  <1>1. ASSUME NEW v \in Vals(deques[d]),
               tda_queue_push(d, v) \/ (~v.alias /\ (tda_queue_front_mut(d, v) \/ tda_queue_back_mut(d, v)))
        PROVE  DequeInv'
    BY <1>1, PushBackKeeps, FrontMutKeeps, BackMutKeeps
       DEF tda_queue_push, tda_queue_front_mut, tda_queue_back_mut
  <1>2. ASSUME NEW src \in Spans, tda_queue_extend(d, src)
        PROVE  DequeInv'
    BY <1>2, ExtendKeeps DEF tda_queue_extend
  <1>3. ASSUME tda_queue_pop(d) \/ tda_queue_pop_to(d) \/ tda_queue_clear(d) \/ tda_queue_shrink_to_fit(d)
        PROVE  DequeInv'
    BY <1>3, PopsKeep, ClearKeeps, ShrinkToFitKeeps
       DEF tda_queue_pop, tda_queue_pop_to, tda_queue_clear, tda_queue_shrink_to_fit
  <1>4. ASSUME NEW cap \in Sizes, tda_queue_reserve(d, cap)
        PROVE  DequeInv'
    BY <1>4, ReserveKeeps DEF tda_queue_reserve
  <1>5. ASSUME tda_queue_front(d) \/ tda_queue_back(d) \/ tda_queue_copy_to_span(d) \/ tda_queue_fprint(d)
        PROVE  DequeInv'
    BY <1>5, ReadsEnd DEF tda_queue_front, tda_queue_back, tda_queue_copy_to_span, tda_queue_fprint
  <1> QED
    BY <1>1, <1>2, <1>3, <1>4, <1>5 DEF QueueMods

LEMMA QueueLifetimeKeeps ==
    ASSUME DequeAssumption, DequeInv, NEW d \in Names, QueueLifetime(d)
    PROVE  DequeInv'
  BY MakeKeeps, DeinitKeeps DEF QueueLifetime, tda_queue_make, tda_queue_deinit

LEMMA QueuePairsKeep ==
    ASSUME DequeAssumption, DequeInv, NEW d \in Names, NEW e \in Names, QueuePairs(d, e)
    PROVE  DequeInv'
  BY CopyWithKeeps, CopyAssignKeeps, MoveAssignKeeps, SwapKeeps, EqKeeps
     DEF QueuePairs, tda_queue_copy_with, tda_queue_copy_assign, tda_queue_move_assign, tda_queue_swap, tda_queue_eq

-----------------------------------------------------------------------------
(* The invariant of the specification, and what it is for.                  *)

LEMMA InitInv ==
    ASSUME DequeAssumption, Init
    PROVE  DequeInv
  <1>1. IsDeque(Zeroed) /\ Zeroed.data = Null
    BY EmptyIsDeque DEF Zeroed
  <1>2. \A d \in Names : deques[d] = Zeroed
    BY DEF Init
  <1>3. Owners = {}
    BY <1>1, <1>2 DEF Owners
  <1>4. HeldApart
    BY <1>3 DEF HeldApart, Init
  <1> QED
    BY <1>1, <1>2, <1>4 DEF DequeInv, Init

LEMMA QueueNextKeeps ==
    ASSUME DequeAssumption, DequeInv, [QueueNext]_<<vars, kinds>>
    PROVE  DequeInv'
  <1>1. CASE UNCHANGED <<vars, kinds>>
    BY <1>1, StutterKeeps DEF vars
  <1>2. ASSUME NEW d \in Names, NEW e \in Names, Calls(d, e)
        PROVE  DequeInv'
    BY <1>2, PairsKeep, QueuePairsKeep, IntoDequeKeeps DEF Calls
  <1>3. ASSUME NEW d \in Names, OwnCalls(d)
        PROVE  DequeInv'
    BY <1>3, LifetimeKeeps, ModsKeep, QueueLifetimeKeeps, QueueModsKeep DEF OwnCalls
  <1> QED
    BY <1>1, <1>2, <1>3 DEF QueueNext

LEMMA NextKeeps ==
    ASSUME DequeAssumption, DequeInv, [Next]_vars
    PROVE  DequeInv'
  <1>1. CASE UNCHANGED vars
    BY <1>1, StutterKeeps DEF vars
  <1> QED
    BY <1>1, LifetimeKeeps, PairsKeep, ModsKeep DEF Next

LEMMA InvIsTypeOK ==
    ASSUME DequeAssumption, DequeInv
    PROVE  TypeOK
  <1> SUFFICES ASSUME NEW d \in Names, NEW q, q = deques[d]
               PROVE  /\ q.al \in Als \cup {Null} /\ q.cap \in Sizes /\ q.len \in 0 .. q.cap
                      /\ DOMAIN q.ring = 0 .. q.cap - 1
                      /\ (q.data = Null) = (q.cap = 0)
                      /\ q.head \in 0 .. Larger(q.cap, 1) - 1
                      /\ \A i \in 0 .. q.len - 1 : ElemAt(q, i) \in Elem
                      /\ ~Alive(d) => q = Zeroed
    BY DEF TypeOK
  <1>1. IsDeque(q)
    BY DEF DequeInv
  <1>2. /\ OnRing(q) /\ q.al \in Als \cup {Null} /\ q.cap \in Sizes /\ q.cap \in Nat /\ q.len \in Nat
        /\ q.len <= q.cap /\ (q.data = Null <=> q.cap = 0) /\ HoldsElems(q) /\ (q.al = Null => q = Zeroed)
    BY <1>1, DequeFields
  <1>3. q.len \in 0 .. q.cap
    BY <1>2
  <1>4. DOMAIN q.ring = 0 .. q.cap - 1 /\ q.head \in 0 .. Larger(q.cap, 1) - 1
    BY <1>2 DEF OnRing, Heads
  <1> QED
    BY <1>2, <1>3, <1>4 DEF HoldsElems, Alive

LEMMA InvOwnsBlocks ==
    ASSUME DequeAssumption, DequeInv
    PROVE  BlocksOwned
  <1>1. heap = {BlockOf(deques[d]) : d \in Owners} /\ Cardinality(heap) = Cardinality(Owners)
    BY HeapFinite DEF DequeInv, HeldApart
  <1>2. HeldOnce
    BY <1>1 DEF HeldOnce, Owners
  <1> QED
    BY <1>2, InvIsTypeOK DEF BlocksOwned

\* Whatever deques and queues are made, changed, copied, moved, swapped or handed over, and
\* whichever requests for memory are refused, the handles' blocks stay apart and their fields sound.
THEOREM QueueInvariant == QueueSpec => []DequeInv
  <1>1. QueueInit => DequeInv
    BY InitInv, DequeAssumption DEF QueueInit
  <1>2. DequeInv /\ [QueueNext]_<<vars, kinds>> => DequeInv'
    BY QueueNextKeeps, DequeAssumption
  <1> QED
    BY <1>1, <1>2, PTL DEF QueueSpec

\* tda_deque_* and tda_queue_*: the blocks the allocators have out are those of the deques,
\* each held once, with the size and the allocator it was asked with; no slot of the contents
\* is unwritten and every handle passes ASSERT_DEQUE.
THEOREM QueueOwnsBlocks == QueueSpec => []BlocksOwned
  <1>1. DequeInv => BlocksOwned
    BY InvOwnsBlocks, DequeAssumption
  <1> QED
    BY <1>1, QueueInvariant, PTL

\* The same of the deques alone.
THEOREM OwnsBlocks == Spec => []BlocksOwned
  <1>1. Init => DequeInv
    BY InitInv, DequeAssumption
  <1>2. DequeInv /\ [Next]_vars => DequeInv'
    BY NextKeeps, DequeAssumption
  <1>3. DequeInv => BlocksOwned
    BY InvOwnsBlocks, DequeAssumption
  <1> QED
    BY <1>1, <1>2, <1>3, PTL DEF Spec

-----------------------------------------------------------------------------
(* The loops of move_elems, on a ring with anything in its slots.           *)

AnyRing(q) ==
    /\ Shaped(q) /\ q.cap \in Nat /\ q.head \in Heads(q.cap)
    /\ q.ring = [s \in 0 .. q.cap - 1 |-> q.ring[s]]

\* p is q but for what is in the slots
Alike(q, p) ==
    /\ AnyRing(p) /\ p.al = q.al /\ p.data = q.data /\ p.cap = q.cap /\ p.head = q.head /\ p.len = q.len

LEMMA AlikeEqual ==
    ASSUME NEW q, AnyRing(q), NEW p, Alike(q, p), NEW o, Alike(q, o),
           \A i \in 0 .. q.cap - 1 : ElemAt(p, i) = ElemAt(o, i)
    PROVE  p = o
  <1>1. ASSUME NEW s \in 0 .. q.cap - 1 PROVE p.ring[s] = o.ring[s]
    <2>1. PICK i : i = AliasIdx(q, s) /\ i \in 0 .. q.cap - 1 /\ SlotOf(q, i) = s
      BY IdxIn DEF AnyRing
    <2>2. SlotOf(p, i) = s /\ SlotOf(o, i) = s
      BY <2>1, SameSlots DEF Alike
    <2> QED
      BY <2>1, <2>2 DEF ElemAt
  <1>2. p.ring = [s \in 0 .. q.cap - 1 |-> p.ring[s]] /\ o.ring = [s \in 0 .. q.cap - 1 |-> o.ring[s]]
    BY DEF Alike, AnyRing
  <1>3. p.ring = o.ring
    BY <1>1, <1>2
  <1> QED
    BY <1>3 DEF Alike, AnyRing, Shaped

\* Another ring in the same slots.
LEMMA RingAlike ==
    ASSUME NEW q, AnyRing(q), NEW ring, ring = [s \in 0 .. q.cap - 1 |-> ring[s]],
           NEW p, p = [q EXCEPT !.ring = ring]
    PROVE  Alike(q, p) /\ p.ring = ring
  <1>1. p = [al |-> q.al, data |-> q.data, cap |-> q.cap, head |-> q.head, len |-> q.len, ring |-> ring]
    BY DEF AnyRing, Shaped
  <1>2. p.al = q.al /\ p.data = q.data /\ p.cap = q.cap /\ p.head = q.head /\ p.len = q.len /\ p.ring = ring
    BY <1>1
  <1> QED
    BY <1>1, <1>2 DEF Alike, AnyRing, Shaped

LEMMA OneMoves ==
    ASSUME NEW q, AnyRing(q), NEW to \in 0 .. q.cap - 1, NEW from, NEW p, p = MoveElem(q, to, from)
    PROVE  /\ Alike(q, p)
           /\ \A i \in 0 .. q.cap - 1 : ElemAt(p, i) = IF i = to THEN ElemAt(q, from) ELSE ElemAt(q, i)
  <1>1. PICK t, x : t = SlotOf(q, to) /\ x = ElemAt(q, from) /\ t \in 0 .. q.cap - 1
    BY SlotIn DEF AnyRing
  <1>2. PICK ring : ring = [q.ring EXCEPT ![t] = x]
    OBVIOUS
  <1>3. p = [q EXCEPT !.ring = ring]
    BY <1>1, <1>2 DEF AnyRing, Shaped, MoveElem
  <1>4. q.ring = [s \in 0 .. q.cap - 1 |-> q.ring[s]]
    BY DEF AnyRing
  <1>5. ring = [s \in 0 .. q.cap - 1 |-> IF s = t THEN x ELSE q.ring[s]]
    BY <1>1, <1>2, <1>4
  <1>6. ring = [s \in 0 .. q.cap - 1 |-> ring[s]]
    BY <1>5
  <1>7. Alike(q, p) /\ p.ring = ring
    BY <1>3, <1>6, RingAlike
  <1>8. ASSUME NEW i \in 0 .. q.cap - 1
        PROVE  ElemAt(p, i) = IF i = to THEN x ELSE ElemAt(q, i)
    <2>1. PICK s : s = SlotOf(q, i) /\ s \in 0 .. q.cap - 1 /\ AliasIdx(q, s) = i
      BY SlotIn DEF AnyRing
    <2>2. SlotOf(p, i) = s
      BY <1>7, <2>1, SameSlots DEF Alike
    <2>3. ElemAt(p, i) = ring[s] /\ ElemAt(q, i) = q.ring[s]
      BY <1>7, <2>1, <2>2 DEF ElemAt
    <2>4. s = t <=> i = to
      <3>1. AliasIdx(q, t) = to
        BY <1>1, SlotIn DEF AnyRing
      <3> QED
        BY <1>1, <2>1, <3>1
    <2> QED
      BY <1>5, <2>1, <2>3, <2>4
  <1> QED
    BY <1>1, <1>7, <1>8

LEMMA AllMove ==
    ASSUME NEW q, AnyRing(q), NEW to \in Nat, NEW from \in Nat, NEW count \in Nat, NEW p, p = MoveElems(q, to, from, count)
    PROVE  /\ Alike(q, p)
           /\ \A i \in 0 .. q.cap - 1 :
                 ElemAt(p, i) = IF i \in to .. to + count - 1 THEN ElemAt(q, from + (i - to)) ELSE ElemAt(q, i)
  <1>1. DOMAIN q.ring = 0 .. q.cap - 1
    BY DEF AnyRing
  <1>2. PICK ring : ring = [s \in 0 .. q.cap - 1 |-> IF AliasIdx(q, s) \in to .. to + count - 1
                                                THEN ElemAt(q, from + (AliasIdx(q, s) - to)) ELSE q.ring[s]]
    OBVIOUS
  <1>3. p = [q EXCEPT !.ring = ring]
    BY <1>1, <1>2 DEF MoveElems
  <1>4. ring = [s \in 0 .. q.cap - 1 |-> ring[s]]
    BY <1>2
  <1>5. Alike(q, p) /\ p.ring = ring
    BY <1>3, <1>4, RingAlike
  <1>6. ASSUME NEW i \in 0 .. q.cap - 1
        PROVE  ElemAt(p, i) = IF i \in to .. to + count - 1 THEN ElemAt(q, from + (i - to)) ELSE ElemAt(q, i)
    <2>1. PICK s : s = SlotOf(q, i) /\ s \in 0 .. q.cap - 1 /\ AliasIdx(q, s) = i
      BY SlotIn DEF AnyRing
    <2>2. SlotOf(p, i) = s
      BY <1>5, <2>1, SameSlots DEF Alike
    <2>3. ElemAt(p, i) = ring[s] /\ ElemAt(q, i) = q.ring[s]
      BY <1>5, <2>1, <2>2 DEF ElemAt
    <2> QED
      BY <1>2, <2>1, <2>3
  <1> QED
    BY <1>5, <1>6

\* the place, of the count, that the loops come to in turn n
Turn(n, to, from, count) == IF to < from THEN n - 1 ELSE count - n

Loops(f, k, q, to, from, count) ==
    f = [i \in 0 .. k |->
            IF i = 0 THEN q
            ELSE MoveElem(f[i - 1], to + Turn(i, to, from, count), from + Turn(i, to, from, count))]

LEMMA LoopsExist ==
    ASSUME NEW q, NEW to, NEW from, NEW count, NEW k \in Nat
    PROVE  \E f : Loops(f, k, q, to, from, count)
  <1> DEFINE T == {n \in Nat : ~ \E f : Loops(f, n, q, to, from, count)}
             base == q
  <1>1. SUFFICES ASSUME T # {} PROVE FALSE
    OBVIOUS
  <1>2. PICK n \in T : \A m \in T : n <= m
    BY <1>1, LeastNat
  <1>3. n # 0
    <2>1. PICK f : f = [i \in 0 .. 0 |-> base]
      OBVIOUS
    <2>2. f = [i \in 0 .. 0 |-> IF i = 0 THEN base ELSE MoveElem(f[i - 1], to + Turn(i, to, from, count), from + Turn(i, to, from, count))]
      BY <2>1
    <2>3. Loops(f, 0, q, to, from, count)
      BY <2>2 DEF Loops, base
    <2> QED
      BY <2>3
  <1>4. PICK f : Loops(f, n - 1, q, to, from, count)
    <2>1. n - 1 \in Nat /\ ~(n <= n - 1)
      BY <1>3
    <2> QED
      BY <1>2, <2>1
  <1>5. f = [i \in 0 .. n - 1 |-> IF i = 0 THEN base ELSE MoveElem(f[i - 1], to + Turn(i, to, from, count), from + Turn(i, to, from, count))]
    BY <1>4 DEF Loops, base
  <1> DEFINE g == [i \in 0 .. n |-> IF i < n THEN f[i] ELSE MoveElem(f[n - 1], to + Turn(n, to, from, count), from + Turn(n, to, from, count))]
  <1>6. \A i \in 0 .. n - 1 : g[i] = f[i]
    BY <1>3
  <1>7. g[n] = MoveElem(f[n - 1], to + Turn(n, to, from, count), from + Turn(n, to, from, count))
    BY <1>3
  <1>8. ASSUME NEW i \in 0 .. n
        PROVE  g[i] = IF i = 0 THEN base ELSE MoveElem(g[i - 1], to + Turn(i, to, from, count), from + Turn(i, to, from, count))
    <2>1. CASE i = n
      BY <1>3, <1>6, <1>7, <2>1
    <2>2. CASE i # n
      <3>1. i \in 0 .. n - 1 /\ (i # 0 => i - 1 \in 0 .. n - 1)
        BY <1>3, <2>2
      <3>2. f[i] = IF i = 0 THEN base ELSE MoveElem(f[i - 1], to + Turn(i, to, from, count), from + Turn(i, to, from, count))
        BY <1>5, <3>1
      <3> HIDE DEF g
      <3> QED
        BY <1>6, <3>1, <3>2
    <2> QED
      BY <2>1, <2>2
  <1>9. g = [i \in 0 .. n |-> g[i]]
    OBVIOUS
  <1> HIDE DEF g
  <1>10. g = [i \in 0 .. n |-> IF i = 0 THEN base ELSE MoveElem(g[i - 1], to + Turn(i, to, from, count), from + Turn(i, to, from, count))]
    BY <1>8, <1>9
  <1>11. Loops(g, n, q, to, from, count)
    BY <1>10 DEF Loops, base
  <1> QED
    BY <1>2, <1>11

\* the indices written to in the first n turns
Written(n, to, from, count) == IF to < from THEN to .. to + n - 1 ELSE to + count - n .. to + count - 1

\* p is q after n turns
Moved(q, p, n, to, from, count) ==
    /\ Alike(q, p)
    /\ \A i \in 0 .. q.cap - 1 :
          ElemAt(p, i) = IF i \in Written(n, to, from, count) THEN ElemAt(q, from + (i - to)) ELSE ElemAt(q, i)

\* What turn n reads, at w, the m turns before have not written to, and it writes to one more
\* place, u.
WritesOneMore(n, m, u, w, to, from, count) ==
    /\ w \notin Written(m, to, from, count)
    /\ \A i \in Nat : i \in Written(n, to, from, count) <=> i = u \/ i \in Written(m, to, from, count)

LEMMA TurnsApart ==
    ASSUME NEW to \in Nat, NEW from \in Nat, NEW count \in Nat, NEW n \in 1 .. count, NEW m, m = n - 1,
           NEW t, t = Turn(n, to, from, count), NEW u, u = to + t, NEW w, w = from + t
    PROVE  t \in 0 .. count - 1 /\ WritesOneMore(n, m, u, w, to, from, count)
  <1>1. CASE to < from
    BY <1>1 DEF Turn, Written, WritesOneMore
  <1>2. CASE ~(to < from)
    BY <1>2 DEF Turn, Written, WritesOneMore
  <1> QED
    BY <1>1, <1>2

LEMMA TurnMoves ==
    ASSUME NEW q, AnyRing(q), NEW to \in Nat, NEW from \in Nat, NEW count \in Nat, to + count <= q.cap,
           from + count <= q.cap, NEW n \in 1 .. count, NEW m, m = n - 1, NEW b, Moved(q, b, m, to, from, count),
           NEW t, t = Turn(n, to, from, count), NEW u, u = to + t, NEW w, w = from + t,
           NEW p, p = MoveElem(b, u, w)
    PROVE  Moved(q, p, n, to, from, count)
  <1>1. t \in 0 .. count - 1 /\ WritesOneMore(n, m, u, w, to, from, count)
    BY TurnsApart
  <1>2. /\ w \notin Written(m, to, from, count)
        /\ \A i \in Nat : i \in Written(n, to, from, count) <=> i = u \/ i \in Written(m, to, from, count)
    BY <1>1 DEF WritesOneMore
  <1>3. q.cap \in Nat
    BY DEF AnyRing
  <1>4. u \in 0 .. q.cap - 1 /\ w \in 0 .. q.cap - 1 /\ w = from + (u - to)
    BY <1>1, <1>2, <1>3
  <1>5. Alike(q, b) /\ AnyRing(b) /\ b.cap = q.cap
    BY DEF Moved, Alike
  <1>6. /\ Alike(b, p)
        /\ \A i \in 0 .. b.cap - 1 : ElemAt(p, i) = IF i = u THEN ElemAt(b, w) ELSE ElemAt(b, i)
    BY <1>4, <1>5, OneMoves
  <1>7. Alike(q, p)
    BY <1>5, <1>6 DEF Alike
  <1>8. ElemAt(b, w) = ElemAt(q, w)
    BY <1>2, <1>4 DEF Moved
  <1>9. ASSUME NEW i \in 0 .. q.cap - 1
        PROVE  ElemAt(p, i) = IF i \in Written(n, to, from, count) THEN ElemAt(q, from + (i - to)) ELSE ElemAt(q, i)
    <2>1. i \in Written(n, to, from, count) <=> i = u \/ i \in Written(m, to, from, count)
      BY <1>2, <1>4
    <2>2. CASE i = u
      BY <1>4, <1>5, <1>6, <1>8, <2>1, <2>2
    <2>3. CASE i # u
      <3>1. ElemAt(p, i) = ElemAt(b, i)
        BY <1>5, <1>6, <2>3
      <3>2. ElemAt(b, i) = IF i \in Written(m, to, from, count) THEN ElemAt(q, from + (i - to)) ELSE ElemAt(q, i)
        BY DEF Moved
      <3> QED
        BY <2>1, <2>3, <3>1, <3>2
    <2> QED
      BY <2>2, <2>3
  <1> QED
    BY <1>7, <1>9 DEF Moved

\* After the last turn all has moved, and nothing that was needed was lost.
LEMMA MoveLoopIs ==
    ASSUME NEW q, AnyRing(q), NEW to \in Nat, NEW from \in Nat, NEW count \in Nat, to + count <= q.cap,
           from + count <= q.cap
    PROVE  MoveLoop(q, to, from, count) = MoveElems(q, to, from, count)
  <1> DEFINE f == CHOOSE f : Loops(f, count, q, to, from, count)
             T == {i \in Nat : i <= count /\ ~Moved(q, f[i], i, to, from, count)}
  <1>1. Loops(f, count, q, to, from, count)
    BY LoopsExist
  <1>2. MoveLoop(q, to, from, count) = f[count]
    BY DEF MoveLoop, Loops, Turn
  <1> HIDE DEF f
  <1>3. \A i \in 0 .. count : f[i] = IF i = 0 THEN q
            ELSE MoveElem(f[i - 1], to + Turn(i, to, from, count), from + Turn(i, to, from, count))
    BY <1>1 DEF Loops
  <1>4. Alike(q, q) /\ Written(0, to, from, count) = {}
    BY DEF Alike, Written
  <1>5. Moved(q, q, 0, to, from, count)
    BY <1>4 DEF Moved
  <1>6. T = {}
    <2>1. SUFFICES ASSUME T # {} PROVE FALSE
      OBVIOUS
    <2>2. PICK i \in T : \A j \in T : i <= j
      BY <2>1, LeastNat
    <2>3. i \in 0 .. count /\ ~Moved(q, f[i], i, to, from, count)
      OBVIOUS
    <2>4. i # 0
      BY <1>3, <1>5, <2>3
    <2>5. i \in 1 .. count
      BY <2>3, <2>4
    <2>6. PICK m \in Nat : m = i - 1 /\ m <= count /\ ~(i <= m)
      BY <2>5
    <2>7. Moved(q, f[m], m, to, from, count)
      BY <2>2, <2>6
    <2>8. PICK t, u, w : t = Turn(i, to, from, count) /\ u = to + t /\ w = from + t
      OBVIOUS
    <2>9. f[i] = MoveElem(f[m], u, w)
      BY <1>3, <2>3, <2>4, <2>6, <2>8
    <2>10. Moved(q, f[i], i, to, from, count)
      BY <2>5, <2>6, <2>7, <2>8, <2>9, TurnMoves
    <2> QED
      BY <2>3, <2>10
  <1>7. Moved(q, f[count], count, to, from, count)
    BY <1>6
  <1>8. PICK p, o : p = f[count] /\ o = MoveElems(q, to, from, count)
    OBVIOUS
  <1>9. Written(count, to, from, count) = to .. to + count - 1
    BY DEF Written
  <1>10. /\ Alike(q, o)
         /\ \A i \in 0 .. q.cap - 1 :
               ElemAt(o, i) = IF i \in to .. to + count - 1 THEN ElemAt(q, from + (i - to)) ELSE ElemAt(q, i)
    BY <1>8, AllMove
  <1>11. Alike(q, p) /\ \A i \in 0 .. q.cap - 1 : ElemAt(p, i) = ElemAt(o, i)
    BY <1>7, <1>8, <1>9, <1>10 DEF Moved
  <1>12. p = o
    BY <1>10, <1>11, AlikeEqual
  <1> QED
    BY <1>2, <1>8, <1>12

\* move_elems: in whichever direction and across whichever seam, its loops read every elem
\* before they write over it, on every ring a deque may have.
THEOREM QueueLoopsMoveAtOnce == QueueSpec => []LoopsMoveAtOnce
  <1>1. DequeInv => LoopsMoveAtOnce
    <2> SUFFICES ASSUME DequeInv, NEW d \in Names, NEW to \in 0 .. deques[d].cap, NEW from \in 0 .. deques[d].cap,
                        NEW count \in 0 .. deques[d].cap
                 PROVE  LET q == [deques[d] EXCEPT !.ring = [s \in DOMAIN @ |-> s]]
                        IN  q.len = 0 /\ to + count <= q.cap /\ from + count <= q.cap
                                => MoveLoop(q, to, from, count) = MoveElems(q, to, from, count)
      BY Zenon DEF LoopsMoveAtOnce
    <2>1. PICK q : q = [deques[d] EXCEPT !.ring = [s \in DOMAIN @ |-> s]]
      OBVIOUS
    <2>2. PICK b, ring : b = deques[d] /\ OnRing(b) /\ ring = [s \in 0 .. b.cap - 1 |-> s]
      BY DequeFields, DequeAssumption DEF DequeInv
    <2>3. q = [al |-> b.al, data |-> b.data, cap |-> b.cap, head |-> b.head, len |-> b.len, ring |-> ring]
      BY <2>1, <2>2 DEF OnRing, Shaped
    <2>4. /\ q.cap = b.cap /\ q.head = b.head /\ q.ring = ring /\ Shaped(q)
          /\ b.cap \in Nat /\ b.head \in Heads(b.cap)
      BY <2>2, <2>3 DEF OnRing, Shaped
    <2>5. AnyRing(q)
      BY <2>2, <2>4 DEF AnyRing
    <2>6. to \in Nat /\ from \in Nat /\ count \in Nat
      BY <2>2, <2>4
    <2>7. to + count <= q.cap /\ from + count <= q.cap => MoveLoop(q, to, from, count) = MoveElems(q, to, from, count)
      BY <2>5, <2>6, MoveLoopIs
    <2> QED
      BY <2>1, <2>7
  <1> QED
    BY <1>1, QueueInvariant, PTL

-----------------------------------------------------------------------------
(* Sequences.  The operators of SeqSpec, elem by elem.                      *)

\* s is a sequence of n elems
Long(s, n) == n \in Nat /\ s = [i \in 1 .. n |-> s[i]]

LEMMA LongIs ==
    ASSUME NEW s, NEW n, Long(s, n)
    PROVE  n \in Nat /\ Len(s) = n /\ DOMAIN s = 1 .. n
  BY DEF Long

LEMMA SameLong ==
    ASSUME NEW n, NEW s, Long(s, n), NEW t, Long(t, n), \A i \in 1 .. n : s[i] = t[i]
    PROVE  s = t
  BY DEF Long

\* t is the count elems of s past the first from
Part(t, s, from, count) == Long(t, count) /\ \A i \in 1 .. count : t[i] = s[from + i]

LEMMA SubSeqIs ==
    ASSUME NEW s, NEW n, Long(s, n), NEW from \in Nat, NEW count \in Nat, from + count <= n,
           NEW a, a = from + 1, NEW b, b = from + count, NEW t, t = SubSeq(s, a, b)
    PROVE  Part(t, s, from, count)
  <1>1. n \in Nat /\ s = [i \in 1 .. n |-> s[i]]
    BY DEF Long
  <1>2. t = [i \in 1 .. count |-> s[from + i]]
    BY <1>1
  <1> QED
    BY <1>2 DEF Long, Part

\* u, of m elems, is s, of n, and then t
Joins(u, m, s, n, t) ==
    /\ Long(u, m) /\ \A i \in 1 .. n : u[i] = s[i]
    /\ \A i \in 1 .. m : i > n => u[i] = t[i - n]

LEMMA JoinedIs ==
    ASSUME NEW s, NEW n, Long(s, n), NEW t, NEW k, Long(t, k), NEW m, m = n + k, NEW u, u = s \o t
    PROVE  Joins(u, m, s, n, t)
  <1>1. n \in Nat /\ s = [i \in 1 .. n |-> s[i]] /\ k \in Nat /\ t = [i \in 1 .. k |-> t[i]]
    BY DEF Long
  <1>2. u = [i \in 1 .. n + k |-> IF i <= n THEN s[i] ELSE t[i - n]]
    BY <1>1
  <1>3. u = [i \in 1 .. m |-> IF i <= n THEN s[i] ELSE t[i - n]] /\ m \in Nat
    BY <1>1, <1>2
  <1> QED
    BY <1>1, <1>3 DEF Long, Joins

\* t, of m elems, is s, of n, and then x
EndsIn(t, m, s, n, x) == Long(t, m) /\ t[m] = x /\ \A i \in 1 .. n : t[i] = s[i]

LEMMA AppendedIs ==
    ASSUME NEW s, NEW n, Long(s, n), NEW x, NEW m, m = n + 1, NEW t, t = Append(s, x)
    PROVE  EndsIn(t, m, s, n, x)
  <1>1. n \in Nat /\ s = [i \in 1 .. n |-> s[i]]
    BY DEF Long
  <1>2. t = [i \in 1 .. n + 1 |-> IF i <= n THEN s[i] ELSE x]
    BY <1>1
  <1>3. t = [i \in 1 .. m |-> IF i <= n THEN s[i] ELSE x] /\ m \in Nat
    BY <1>1, <1>2
  <1> QED
    BY <1>1, <1>3 DEF Long, EndsIn

LEMMA NoneLong ==
    ASSUME NEW s
    PROVE  Long(s, 0) <=> s = <<>>
  BY DEF Long

LEMMA OneLong ==
    ASSUME NEW x, NEW n, n = 1
    PROVE  Long(<<x>>, n) /\ <<x>>[1] = x
  BY DEF Long

\* t, of m elems, is s without its first
Rest(t, m, s) == Long(t, m) /\ \A i \in 1 .. m : t[i] = s[i + 1]

LEMMA HeadTail ==
    ASSUME NEW s, NEW n, Long(s, n), n > 0, NEW m, m = n - 1, NEW t, t = Tail(s)
    PROVE  Head(s) = s[1] /\ Rest(t, m, s)
  <1>1. n \in Nat /\ s = [i \in 1 .. n |-> s[i]]
    BY DEF Long
  <1>2. Head(s) = s[1] /\ Tail(s) = [i \in 1 .. n - 1 |-> s[i + 1]]
    BY <1>1
  <1>3. t = [i \in 1 .. m |-> s[i + 1]] /\ m \in Nat
    BY <1>1, <1>2
  <1> QED
    BY <1>2, <1>3 DEF Long, Rest

\* u, of m elems, is s with t, of k, before its elem idx
HasIn(u, m, s, idx, t, k) ==
    /\ Long(u, m)
    /\ \A i \in 1 .. m : u[i] = IF i <= idx THEN s[i] ELSE IF i <= idx + k THEN t[i - idx] ELSE s[i - k]

\* t in the midst of s.
LEMMA SplicedIs ==
    ASSUME NEW s, NEW n, Long(s, n), NEW t, NEW k, Long(t, k), NEW idx \in 0 .. n, NEW m, m = n + k,
           NEW u, u = SeqsSpec!Spliced(s, idx, t)
    PROVE  HasIn(u, m, s, idx, t, k)
  <1>1. n \in Nat /\ k \in Nat /\ Len(s) = n
    BY LongIs
  <1>2. PICK a, b, rest : a = SubSeq(s, 1, idx) /\ b = SubSeq(s, idx + 1, n) /\ rest = n - idx
    OBVIOUS
  <1>3. idx \in Nat /\ rest \in Nat
    BY <1>1, <1>2
  <1>4. Long(a, idx) /\ \A i \in 1 .. idx : a[i] = s[i]
    <2>1. n \in Nat /\ s = [i \in 1 .. n |-> s[i]]
      BY DEF Long
    <2>2. a = [i \in 1 .. idx |-> s[i]]
      BY <1>2, <2>1
    <2> QED
      BY <1>3, <2>2 DEF Long
  <1>5. Long(b, rest) /\ \A i \in 1 .. rest : b[i] = s[idx + i]
    <2>1. idx + rest <= n /\ n = idx + rest
      BY <1>1, <1>2
    <2>2. PICK x, y : x = idx + 1 /\ y = idx + rest /\ b = SubSeq(s, x, y)
      BY <1>2, <2>1
    <2>3. Part(b, s, idx, rest)
      BY <1>3, <2>1, <2>2, SubSeqIs
    <2> QED
      BY <2>3 DEF Part
  <1>6. PICK c, l : c = a \o t /\ l = idx + k
    OBVIOUS
  <1>7. Long(c, l) /\ (\A i \in 1 .. idx : c[i] = a[i]) /\ \A i \in 1 .. l : i > idx => c[i] = t[i - idx]
    <2>1. Joins(c, l, a, idx, t)
      BY <1>4, <1>6, JoinedIs
    <2> QED
      BY <2>1 DEF Joins
  <1>8. u = c \o b /\ m = l + rest
    BY <1>1, <1>2, <1>6 DEF SeqsSpec!Spliced
  <1>9. Long(u, m) /\ (\A i \in 1 .. l : u[i] = c[i]) /\ \A i \in 1 .. m : i > l => u[i] = b[i - l]
    <2>1. Joins(u, m, c, l, b)
      BY <1>5, <1>7, <1>8, JoinedIs
    <2> QED
      BY <2>1 DEF Joins
  <1>10. ASSUME NEW i \in 1 .. m
         PROVE  u[i] = IF i <= idx THEN s[i] ELSE IF i <= idx + k THEN t[i - idx] ELSE s[i - k]
    <2>1. CASE i <= idx
      <3>1. i \in 1 .. idx /\ i \in 1 .. l
        BY <1>1, <1>6, <2>1
      <3> QED
        BY <1>4, <1>7, <1>9, <2>1, <3>1
    <2>2. CASE i > idx /\ i <= idx + k
      <3>1. i \in 1 .. l /\ ~(i <= idx)
        BY <1>1, <1>6, <2>2
      <3> QED
        BY <1>7, <1>9, <2>2, <3>1
    <2>3. CASE i > idx + k
      <3>1. i > l /\ i - l \in 1 .. rest /\ idx + (i - l) = i - k /\ ~(i <= idx) /\ ~(i <= idx + k)
        BY <1>1, <1>2, <1>6, <1>8, <2>3
      <3>2. u[i] = b[i - l]
        BY <1>9, <3>1
      <3>3. b[i - l] = s[idx + (i - l)]
        BY <1>5, <3>1
      <3> QED
        BY <3>1, <3>2, <3>3
    <2> QED
      BY <1>1, <2>1, <2>2, <2>3
  <1> QED
    BY <1>9, <1>10 DEF HasIn

\* u, of m elems, is s without the count from idx on
Lacks(u, m, s, idx, count) == Long(u, m) /\ \A i \in 1 .. m : u[i] = IF i <= idx THEN s[i] ELSE s[i + count]

\* s with count elems gone.
LEMMA CutIs ==
    ASSUME NEW s, NEW n, Long(s, n), NEW idx \in Nat, NEW count \in Nat, idx + count <= n, NEW m, m = n - count,
           NEW u, u = SeqsSpec!Cut(s, idx, count)
    PROVE  Lacks(u, m, s, idx, count)
  <1>1. n \in Nat /\ Len(s) = n /\ s = [i \in 1 .. n |-> s[i]]
    BY LongIs DEF Long
  <1>2. PICK from, rest, a, b : /\ from = idx + count /\ rest = n - from
                                /\ a = SubSeq(s, 1, idx) /\ b = SubSeq(s, idx + count + 1, n)
    OBVIOUS
  <1>3. from \in Nat /\ rest \in Nat /\ from + rest <= n /\ n = from + rest
    BY <1>1, <1>2
  <1>4. Long(a, idx) /\ \A i \in 1 .. idx : a[i] = s[i]
    <2>1. a = [i \in 1 .. idx |-> s[i]]
      BY <1>1, <1>2
    <2> QED
      BY <2>1 DEF Long
  <1>5. Long(b, rest) /\ \A i \in 1 .. rest : b[i] = s[from + i]
    <2>1. PICK x, y : x = from + 1 /\ y = from + rest /\ b = SubSeq(s, x, y)
      BY <1>2, <1>3
    <2>2. Part(b, s, from, rest)
      BY <1>3, <2>1, SubSeqIs
    <2> QED
      BY <2>2 DEF Part
  <1>6. u = a \o b /\ m = idx + rest
    BY <1>1, <1>2 DEF SeqsSpec!Cut
  <1>7. Long(u, m) /\ (\A i \in 1 .. idx : u[i] = a[i]) /\ \A i \in 1 .. m : i > idx => u[i] = b[i - idx]
    <2>1. Joins(u, m, a, idx, b)
      BY <1>4, <1>5, <1>6, JoinedIs
    <2> QED
      BY <2>1 DEF Joins
  <1>8. ASSUME NEW i \in 1 .. m PROVE u[i] = IF i <= idx THEN s[i] ELSE s[i + count]
    <2>1. CASE i <= idx
      <3>1. i \in 1 .. idx
        BY <2>1
      <3> QED
        BY <1>4, <1>7, <2>1, <3>1
    <2>2. CASE ~(i <= idx)
      <3>1. i > idx /\ i - idx \in 1 .. rest /\ from + (i - idx) = i + count
        <4>1. from = idx + count /\ m = idx + rest /\ rest \in Nat
          BY <1>2, <1>3, <1>6
        <4> QED
          BY <2>2, <4>1
      <3>2. u[i] = b[i - idx] /\ b[i - idx] = s[from + (i - idx)]
        BY <1>5, <1>7, <3>1
      <3> QED
        BY <2>2, <3>1, <3>2
    <2> QED
      BY <2>1, <2>2
  <1> QED
    BY <1>7, <1>8 DEF Lacks

\* The contents of a deque, which are the elems at its indices.
LEMMA ContentsAre ==
    ASSUME NEW q, NEW n \in Nat, q.len = n
    PROVE  Long(Contents(q), n) /\ \A i \in 0 .. n - 1 : Contents(q)[i + 1] = ElemAt(q, i)
  <1>1. Contents(q) = [i \in 1 .. n |-> ElemAt(q, i - 1)]
    BY DEF Contents
  <1>2. ASSUME NEW i \in 0 .. n - 1 PROVE Contents(q)[i + 1] = ElemAt(q, i)
    <2>1. PICK j : j = i + 1 /\ j \in 1 .. n /\ j - 1 = i
      OBVIOUS
    <2> QED
      BY <1>1, <2>1
  <1> QED
    BY <1>1, <1>2 DEF Long

LEMMA ContentsBecome ==
    ASSUME NEW q, NEW n \in Nat, q.len = n, NEW s, Long(s, n), \A i \in 0 .. n - 1 : ElemAt(q, i) = s[i + 1]
    PROVE  Contents(q) = s
  <1>1. Long(Contents(q), n) /\ \A i \in 0 .. n - 1 : Contents(q)[i + 1] = ElemAt(q, i)
    BY ContentsAre
  <1>2. ASSUME NEW j \in 1 .. n PROVE Contents(q)[j] = s[j]
    <2>1. PICK i : i = j - 1 /\ i \in 0 .. n - 1 /\ i + 1 = j
      OBVIOUS
    <2> QED
      BY <1>1, <2>1
  <1> QED
    BY <1>1, <1>2, SameLong

-----------------------------------------------------------------------------
(* The calls as SeqSpec has them.                                           *)

\* the call c on d, served or refused, which leaves the elems of d as t if it is served
Ended(c, d, ok, t) ==
    call' = Made(c, d, ok) /\ Seqs' = IF ok THEN [Seqs EXCEPT ![d] = t] ELSE Seqs

LEMMA SeqsAre ==
    ASSUME NEW d \in Names
    PROVE  Seqs[d] = Contents(deques[d]) /\ DOMAIN Seqs = Names
  BY DEF Seqs

LEMMA SameContents ==
    ASSUME NEW q, NEW p, p.len = q.len, q.len \in Nat, \A i \in 0 .. q.len - 1 : ElemAt(p, i) = ElemAt(q, i)
    PROVE  Contents(p) = Contents(q)
  <1>1. Long(Contents(q), q.len) /\ \A i \in 0 .. q.len - 1 : Contents(q)[i + 1] = ElemAt(q, i)
    BY ContentsAre
  <1>2. PICK s, n : s = Contents(q) /\ n = q.len
    OBVIOUS
  <1>3. n \in Nat /\ p.len = n /\ Long(s, n) /\ \A i \in 0 .. n - 1 : ElemAt(p, i) = s[i + 1]
    BY <1>1, <1>2
  <1>4. Contents(p) = s
    BY <1>3, ContentsBecome
  <1> QED
    BY <1>2, <1>4

LEMMA EndsLeaves ==
    ASSUME DequeInv, NEW d \in Names, NEW p, OnRing(p), p.len <= p.cap, NEW c, NEW h, NEW ok, Ends(c, d, p, h, ok),
           NEW t, t = Contents(p)
    PROVE  Seqs' = [Seqs EXCEPT ![d] = t] /\ call' = Made(c, d, ok)
  <1>1. deques' = [deques EXCEPT ![d] = Tidy(p)] /\ call' = Made(c, d, ok)
    BY DEF Ends
  <1>2. PICK o : o = Tidy(p)
    OBVIOUS
  <1>3. Contents(o) = t
    <2>1. o.len = p.len /\ \A i \in 0 .. p.len - 1 : ElemAt(o, i) = ElemAt(p, i)
      BY <1>2, TidyKeeps
    <2>2. p.len \in Nat
      BY DEF OnRing
    <2> QED
      BY <2>1, <2>2, SameContents
  <1>4. deques = [f \in Names |-> deques[f]]
    BY DEF DequeInv
  <1>5. deques' = [f \in Names |-> IF f = d THEN o ELSE deques[f]]
    BY <1>1, <1>2, <1>4
  <1>6. \A f \in Names : Contents(deques'[f]) = IF f = d THEN t ELSE Contents(deques[f])
    BY <1>3, <1>5
  <1>7. Seqs' = [f \in Names |-> Contents(deques'[f])]
    BY DEF Seqs, Contents, ElemAt, SlotOf
  <1>8. Seqs' = [f \in Names |-> IF f = d THEN t ELSE Contents(deques[f])]
    BY <1>6, <1>7
  <1>9. Seqs = [f \in Names |-> Contents(deques[f])]
    BY DEF Seqs
  <1>10. Seqs' = [Seqs EXCEPT ![d] = t]
    BY <1>8, <1>9
  <1> QED
    BY <1>1, <1>10

LEMMA EndsServed ==
    ASSUME DequeInv, NEW d \in Names, NEW p, OnRing(p), p.len <= p.cap, NEW c, NEW h, NEW ok, ok, Ends(c, d, p, h, ok),
           NEW t, t = Contents(p)
    PROVE  Ended(c, d, ok, t)
  BY EndsLeaves DEF Ended

LEMMA EndsSame ==
    ASSUME DequeInv, NEW d \in Names, NEW p, OnRing(p), p.len <= p.cap, NEW c, NEW h, NEW ok, Ends(c, d, p, h, ok),
           Contents(p) = Contents(deques[d])
    PROVE  Seqs' = Seqs /\ call' = Made(c, d, ok)
  <1>1. PICK t : t = Contents(p)
    OBVIOUS
  <1>2. Seqs' = [Seqs EXCEPT ![d] = t] /\ call' = Made(c, d, ok)
    BY <1>1, EndsLeaves
  <1>3. t = Seqs[d]
    BY <1>1, SeqsAre
  <1>4. Seqs = [f \in Names |-> Seqs[f]]
    BY DEF Seqs
  <1> QED
    BY <1>2, <1>3, <1>4

LEMMA EndsRefused ==
    ASSUME DequeAssumption, DequeInv, NEW d \in Names, NEW c, NEW h, NEW ok, ~ok, Ends(c, d, deques[d], h, ok), NEW t
    PROVE  Ended(c, d, ok, t)
  <1>1. OnRing(deques[d]) /\ deques[d].len <= deques[d].cap
    BY DequeFields DEF DequeInv
  <1>2. Seqs' = Seqs /\ call' = Made(c, d, ok)
    BY <1>1, EndsSame
  <1> QED
    BY <1>2 DEF Ended

LEMMA CallIs ==
    ASSUME NEW c, NEW d, NEW ok, call' = Made(c, d, ok)
    PROVE  /\ call'.d = d /\ call'.ok = ok
           /\ \A f \in DOMAIN c \ {"d", "ok"} : call'[f] = c[f]
  <1>1. call' = [f \in DOMAIN c \cup {"d", "ok"} |-> IF f = "d" THEN d ELSE IF f = "ok" THEN ok ELSE c[f]]
    BY DEF Made
  <1>2. "d" # "ok"
    OBVIOUS
  <1> QED
    BY <1>1, <1>2

LEMMA Ending ==
    ASSUME NEW c, NEW d, NEW ok, NEW t, Ended(c, d, ok, t)
    PROVE  /\ call'.d = d /\ call'.ok = ok /\ SeqsSpec!MayEnd(call', t)
           /\ ok => SeqsSpec!MustEnd(call', t)
           /\ \A f \in DOMAIN c \ {"d", "ok"} : call'[f] = c[f]
  <1>1. call'.d = d /\ call'.ok = ok /\ \A f \in DOMAIN c \ {"d", "ok"} : call'[f] = c[f]
    BY CallIs DEF Ended
  <1>2. Seqs' = IF call'.ok THEN [Seqs EXCEPT ![call'.d] = t] ELSE Seqs
    BY <1>1 DEF Ended
  <1> QED
    BY <1>1, <1>2 DEF SeqsSpec!MayEnd, SeqsSpec!MustEnd

LEMMA DoesMake ==
    ASSUME NEW d, NEW src, NEW ok, NEW c, c = [op |-> "make", src |-> src],
           Ended(c, d, ok, src)
    PROVE  SeqsSpec!Does(call')
  <1>1. call'.d = d /\ \A f \in DOMAIN c \ {"d", "ok"} : call'[f] = c[f]
    BY Ending
  <1>2. call'.op = "make" /\ call'.src = src
    BY <1>1
  <1>3. SeqsSpec!MayEnd(call', src) /\ call'.ok = ok
    BY Ending
  <1> QED
    BY <1>1, <1>2, <1>3 DEF SeqsSpec!Does, SeqsSpec!Grow

LEMMA DoesPushFront ==
    ASSUME NEW d, NEW val, NEW ok, NEW c, c = [op |-> "push_front", val |-> val],
           Ended(c, d, ok, <<SeqsSpec!ValOf(d, val)>> \o Seqs[d])
    PROVE  SeqsSpec!Does(call')
  <1>1. call'.d = d /\ \A f \in DOMAIN c \ {"d", "ok"} : call'[f] = c[f]
    BY Ending
  <1>2. call'.op = "push_front" /\ call'.val = val
    BY <1>1
  <1>3. SeqsSpec!MayEnd(call', <<SeqsSpec!ValOf(d, val)>> \o Seqs[d]) /\ call'.ok = ok
    BY Ending
  <1> QED
    BY <1>1, <1>2, <1>3 DEF SeqsSpec!Does, SeqsSpec!Grow

LEMMA DoesPushBack ==
    ASSUME NEW d, NEW val, NEW ok, NEW c, c = [op |-> "push_back", val |-> val],
           Ended(c, d, ok, Append(Seqs[d], SeqsSpec!ValOf(d, val)))
    PROVE  SeqsSpec!Does(call')
  <1>1. call'.d = d /\ \A f \in DOMAIN c \ {"d", "ok"} : call'[f] = c[f]
    BY Ending
  <1>2. call'.op = "push_back" /\ call'.val = val
    BY <1>1
  <1>3. SeqsSpec!MayEnd(call', Append(Seqs[d], SeqsSpec!ValOf(d, val))) /\ call'.ok = ok
    BY Ending
  <1> QED
    BY <1>1, <1>2, <1>3 DEF SeqsSpec!Does, SeqsSpec!Grow

LEMMA DoesInsert ==
    ASSUME NEW d, NEW idx, NEW val, NEW ok, NEW c, c = [op |-> "insert", idx |-> idx, val |-> val],
           Ended(c, d, ok, SeqsSpec!Spliced(Seqs[d], idx, <<SeqsSpec!ValOf(d, val)>>))
    PROVE  SeqsSpec!Does(call')
  <1>1. call'.d = d /\ \A f \in DOMAIN c \ {"d", "ok"} : call'[f] = c[f]
    BY Ending
  <1>2. call'.op = "insert" /\ call'.idx = idx /\ call'.val = val
    BY <1>1
  <1>3. SeqsSpec!MayEnd(call', SeqsSpec!Spliced(Seqs[d], idx, <<SeqsSpec!ValOf(d, val)>>)) /\ call'.ok = ok
    BY Ending
  <1> QED
    BY <1>1, <1>2, <1>3 DEF SeqsSpec!Does, SeqsSpec!Grow

LEMMA DoesInsertSpan ==
    ASSUME NEW d, NEW idx, NEW src, NEW ok, NEW c, c = [op |-> "insert_span", idx |-> idx, src |-> src],
           Ended(c, d, ok, SeqsSpec!Spliced(Seqs[d], idx, src))
    PROVE  SeqsSpec!Does(call')
  <1>1. call'.d = d /\ \A f \in DOMAIN c \ {"d", "ok"} : call'[f] = c[f]
    BY Ending
  <1>2. call'.op = "insert_span" /\ call'.idx = idx /\ call'.src = src
    BY <1>1
  <1>3. SeqsSpec!MayEnd(call', SeqsSpec!Spliced(Seqs[d], idx, src)) /\ call'.ok = ok
    BY Ending
  <1> QED
    BY <1>1, <1>2, <1>3 DEF SeqsSpec!Does, SeqsSpec!Grow

LEMMA DoesResize ==
    ASSUME NEW d, NEW n, NEW ok, NEW c, c = [op |-> "resize", n |-> n],
           n <= Len(Seqs[d]) => ok, Ended(c, d, ok, SeqsSpec!Sized(Seqs[d], n))
    PROVE  SeqsSpec!Does(call')
  <1>1. call'.d = d /\ \A f \in DOMAIN c \ {"d", "ok"} : call'[f] = c[f]
    BY Ending
  <1>2. call'.op = "resize" /\ call'.n = n
    BY <1>1
  <1>3. SeqsSpec!MayEnd(call', SeqsSpec!Sized(Seqs[d], n)) /\ call'.ok = ok
    BY Ending
  <1> QED
    BY <1>1, <1>2, <1>3 DEF SeqsSpec!Does, SeqsSpec!Grow

LEMMA DoesCopy ==
    ASSUME NEW d, NEW from, NEW ok, NEW c, c = [op |-> "copy", from |-> from],
           Ended(c, d, ok, Seqs[from])
    PROVE  SeqsSpec!Does(call')
  <1>1. call'.d = d /\ \A f \in DOMAIN c \ {"d", "ok"} : call'[f] = c[f]
    BY Ending
  <1>2. call'.op = "copy" /\ call'.from = from
    BY <1>1
  <1>3. SeqsSpec!MayEnd(call', Seqs[from]) /\ call'.ok = ok
    BY Ending
  <1> QED
    BY <1>1, <1>2, <1>3 DEF SeqsSpec!Does, SeqsSpec!Grow

LEMMA DoesPopFront ==
    ASSUME NEW d, NEW out, NEW ok, ok, NEW c, c = [op |-> "pop_front", out |-> out],
           out = Head(Seqs[d]), Ended(c, d, ok, Tail(Seqs[d]))
    PROVE  SeqsSpec!Does(call')
  <1>1. call'.d = d /\ \A f \in DOMAIN c \ {"d", "ok"} : call'[f] = c[f]
    BY Ending
  <1>2. call'.op = "pop_front" /\ call'.out = out
    BY <1>1
  <1>3. SeqsSpec!MustEnd(call', Tail(Seqs[d])) /\ call'.ok = ok
    BY Ending
  <1> QED
    BY <1>1, <1>2, <1>3 DEF SeqsSpec!Does, SeqsSpec!Shrink

LEMMA DoesPopBack ==
    ASSUME NEW d, NEW out, NEW ok, ok, NEW c, c = [op |-> "pop_back", out |-> out],
           out = Seqs[d][Len(Seqs[d])], Ended(c, d, ok, SubSeq(Seqs[d], 1, Len(Seqs[d]) - 1))
    PROVE  SeqsSpec!Does(call')
  <1>1. call'.d = d /\ \A f \in DOMAIN c \ {"d", "ok"} : call'[f] = c[f]
    BY Ending
  <1>2. call'.op = "pop_back" /\ call'.out = out
    BY <1>1
  <1>3. SeqsSpec!MustEnd(call', SubSeq(Seqs[d], 1, Len(Seqs[d]) - 1)) /\ call'.ok = ok
    BY Ending
  <1> QED
    BY <1>1, <1>2, <1>3 DEF SeqsSpec!Does, SeqsSpec!Shrink

LEMMA DoesRemoveRange ==
    ASSUME NEW d, NEW idx, NEW n, NEW ok, ok, NEW c, c = [op |-> "remove_range", idx |-> idx, n |-> n],
           Ended(c, d, ok, SeqsSpec!Cut(Seqs[d], idx, n))
    PROVE  SeqsSpec!Does(call')
  <1>1. call'.d = d /\ \A f \in DOMAIN c \ {"d", "ok"} : call'[f] = c[f]
    BY Ending
  <1>2. call'.op = "remove_range" /\ call'.idx = idx /\ call'.n = n
    BY <1>1
  <1>3. SeqsSpec!MustEnd(call', SeqsSpec!Cut(Seqs[d], idx, n)) /\ call'.ok = ok
    BY Ending
  <1> QED
    BY <1>1, <1>2, <1>3 DEF SeqsSpec!Does, SeqsSpec!Shrink

LEMMA DoesTruncate ==
    ASSUME NEW d, NEW n, NEW ok, ok, NEW c, c = [op |-> "truncate", n |-> n],
           Ended(c, d, ok, IF n < Len(Seqs[d]) THEN SubSeq(Seqs[d], 1, n) ELSE Seqs[d])
    PROVE  SeqsSpec!Does(call')
  <1>1. call'.d = d /\ \A f \in DOMAIN c \ {"d", "ok"} : call'[f] = c[f]
    BY Ending
  <1>2. call'.op = "truncate" /\ call'.n = n
    BY <1>1
  <1>3. SeqsSpec!MustEnd(call', IF n < Len(Seqs[d]) THEN SubSeq(Seqs[d], 1, n) ELSE Seqs[d]) /\ call'.ok = ok
    BY Ending
  <1> QED
    BY <1>1, <1>2, <1>3 DEF SeqsSpec!Does, SeqsSpec!Shrink

LEMMA DoesRetain ==
    ASSUME NEW d, NEW keep, NEW ok, ok, NEW c, c = [op |-> "retain", keep |-> keep],
           Ended(c, d, ok, SeqsSpec!Kept(Seqs[d], keep))
    PROVE  SeqsSpec!Does(call')
  <1>1. call'.d = d /\ \A f \in DOMAIN c \ {"d", "ok"} : call'[f] = c[f]
    BY Ending
  <1>2. call'.op = "retain" /\ call'.keep = keep
    BY <1>1
  <1>3. SeqsSpec!MustEnd(call', SeqsSpec!Kept(Seqs[d], keep)) /\ call'.ok = ok
    BY Ending
  <1> QED
    BY <1>1, <1>2, <1>3 DEF SeqsSpec!Does, SeqsSpec!Shrink

LEMMA DoesClear ==
    ASSUME NEW d, NEW ok, ok, NEW c, c = [op |-> "clear"],
           Ended(c, d, ok, <<>>)
    PROVE  SeqsSpec!Does(call')
  <1>1. call'.d = d /\ \A f \in DOMAIN c \ {"d", "ok"} : call'[f] = c[f]
    BY Ending
  <1>2. call'.op = "clear"
    BY <1>1
  <1>3. SeqsSpec!MustEnd(call', <<>>) /\ call'.ok = ok
    BY Ending
  <1> QED
    BY <1>1, <1>2, <1>3 DEF SeqsSpec!Does, SeqsSpec!Shrink

LEMMA DoesDeinit ==
    ASSUME NEW d, NEW ok, ok, NEW c, c = [op |-> "deinit"],
           Ended(c, d, ok, <<>>)
    PROVE  SeqsSpec!Does(call')
  <1>1. call'.d = d /\ \A f \in DOMAIN c \ {"d", "ok"} : call'[f] = c[f]
    BY Ending
  <1>2. call'.op = "deinit"
    BY <1>1
  <1>3. SeqsSpec!MustEnd(call', <<>>) /\ call'.ok = ok
    BY Ending
  <1> QED
    BY <1>1, <1>2, <1>3 DEF SeqsSpec!Does, SeqsSpec!Shrink

LEMMA DoesSet ==
    ASSUME NEW d, NEW idx, NEW val, NEW ok, ok, NEW c, c = [op |-> "set", idx |-> idx, val |-> val],
           Ended(c, d, ok, [Seqs[d] EXCEPT ![idx + 1] = SeqsSpec!ValOf(d, val)])
    PROVE  SeqsSpec!Does(call')
  <1>1. call'.d = d /\ \A f \in DOMAIN c \ {"d", "ok"} : call'[f] = c[f]
    BY Ending
  <1>2. call'.op = "set" /\ call'.idx = idx /\ call'.val = val
    BY <1>1
  <1>3. SeqsSpec!MustEnd(call', [Seqs[d] EXCEPT ![idx + 1] = SeqsSpec!ValOf(d, val)]) /\ call'.ok = ok
    BY Ending
  <1> QED
    BY <1>1, <1>2, <1>3 DEF SeqsSpec!Does, SeqsSpec!Write

LEMMA DoesSwapElems ==
    ASSUME NEW d, NEW idx, NEW idx2, NEW ok, ok, NEW c, c = [op |-> "swap_elems", idx |-> idx, idx2 |-> idx2],
           Ended(c, d, ok, SeqsSpec!Exchanged(Seqs[d], idx, idx2))
    PROVE  SeqsSpec!Does(call')
  <1>1. call'.d = d /\ \A f \in DOMAIN c \ {"d", "ok"} : call'[f] = c[f]
    BY Ending
  <1>2. call'.op = "swap_elems" /\ call'.idx = idx /\ call'.idx2 = idx2
    BY <1>1
  <1>3. SeqsSpec!MustEnd(call', SeqsSpec!Exchanged(Seqs[d], idx, idx2)) /\ call'.ok = ok
    BY Ending
  <1> QED
    BY <1>1, <1>2, <1>3 DEF SeqsSpec!Does, SeqsSpec!Write

LEMMA DoesCopyFromSpan ==
    ASSUME NEW d, NEW src, NEW ok, ok, NEW c, c = [op |-> "copy_from_span", src |-> src],
           Ended(c, d, ok, src)
    PROVE  SeqsSpec!Does(call')
  <1>1. call'.d = d /\ \A f \in DOMAIN c \ {"d", "ok"} : call'[f] = c[f]
    BY Ending
  <1>2. call'.op = "copy_from_span" /\ call'.src = src
    BY <1>1
  <1>3. SeqsSpec!MustEnd(call', src) /\ call'.ok = ok
    BY Ending
  <1> QED
    BY <1>1, <1>2, <1>3 DEF SeqsSpec!Does, SeqsSpec!Write

LEMMA DoesGet ==
    ASSUME NEW d, NEW idx, NEW out, NEW c, c = [op |-> "get", idx |-> idx, out |-> out], NEW ok,
           out = Seqs[d][idx + 1], Seqs' = Seqs, call' = Made(c, d, ok)
    PROVE  SeqsSpec!Does(call')
  <1>1. call'.op = "get" /\ call'.d = d /\ call'.idx = idx /\ call'.out = out
    BY CallIs
  <1> QED
    BY <1>1 DEF SeqsSpec!Does, SeqsSpec!Read

LEMMA DoesAnswer ==
    ASSUME NEW d, NEW out, NEW c, c = [op |-> "copy_to_span", out |-> out], NEW ok,
           out = Seqs[d], Seqs' = Seqs, call' = Made(c, d, ok)
    PROVE  SeqsSpec!Does(call')
  <1>1. call'.op = "copy_to_span" /\ call'.d = d /\ call'.out = out
    BY CallIs
  <1> QED
    BY <1>1 DEF SeqsSpec!Does, SeqsSpec!Read

LEMMA DoesEq ==
    ASSUME NEW d, NEW from, NEW out, NEW c, c = [op |-> "eq", from |-> from, out |-> out], NEW ok,
           out = (Seqs[d] = Seqs[from]), Seqs' = Seqs, call' = Made(c, d, ok)
    PROVE  SeqsSpec!Does(call')
  <1>1. call'.op = "eq" /\ call'.d = d /\ call'.from = from /\ call'.out = out
    BY CallIs
  <1> QED
    BY <1>1 DEF SeqsSpec!Does, SeqsSpec!Read

LEMMA DoesRoom ==
    ASSUME NEW d, NEW c, c = [op |-> "reserve"] \/ c = [op |-> "shrink_to_fit"], NEW ok,
           Seqs' = Seqs, call' = Made(c, d, ok)
    PROVE  SeqsSpec!Does(call')
  <1>1. call'.op \in {"reserve", "shrink_to_fit"}
    <2>1. "op" \in DOMAIN c \ {"d", "ok"} /\ c["op"] \in {"reserve", "shrink_to_fit"}
      OBVIOUS
    <2> QED
      BY <2>1, CallIs
  <1> QED
    BY <1>1 DEF SeqsSpec!Does, SeqsSpec!Room

-----------------------------------------------------------------------------
(* The contents of a deque whose elems a call has moved.                    *)

LEMMA WholeContents ==
    ASSUME NEW q, Whole(q), NEW s, s = Contents(q), NEW n, n = q.len
    PROVE  n \in Nat /\ Long(s, n) /\ Len(s) = n /\ \A i \in 0 .. n - 1 : s[i + 1] = ElemAt(q, i)
  <1>1. n \in Nat
    BY WholeIs
  <1>2. Long(s, n) /\ \A i \in 0 .. n - 1 : s[i + 1] = ElemAt(q, i)
    BY <1>1, ContentsAre
  <1> QED
    BY <1>1, <1>2, LongIs

\* the elems of p are t, by index
Reads(p, t) == p.len \in Nat /\ Long(t, p.len) /\ \A i \in 0 .. p.len - 1 : t[i + 1] = ElemAt(p, i)

LEMMA ReadsContents ==
    ASSUME NEW p, NEW t, Reads(p, t)
    PROVE  Contents(p) = t
  <1>1. PICK n : n = p.len /\ n \in Nat /\ Long(t, n) /\ \A i \in 0 .. n - 1 : ElemAt(p, i) = t[i + 1]
    BY DEF Reads
  <1> QED
    BY <1>1, ContentsBecome

LEMMA ContentsSet ==
    ASSUME NEW q, Whole(q), NEW s, s = Contents(q), NEW idx \in 0 .. q.len - 1, NEW x, NEW p, Sets(q, p, idx, x),
           NEW t, t = [s EXCEPT ![idx + 1] = x]
    PROVE  Contents(p) = t
  <1>1. PICK n, k : n = q.len /\ k = idx + 1
    OBVIOUS
  <1>2. n \in Nat /\ Long(s, n) /\ \A i \in 0 .. n - 1 : s[i + 1] = ElemAt(q, i)
    BY <1>1, WholeContents
  <1>3. t = [j \in 1 .. n |-> IF j = k THEN x ELSE s[j]]
    BY <1>1, <1>2 DEF Long
  <1>4. ASSUME NEW i \in 0 .. n - 1 PROVE t[i + 1] = ElemAt(p, i)
    <2>1. PICK j : j = i + 1
      OBVIOUS
    <2>2. j \in 1 .. n /\ (j = k <=> i = idx)
      BY <1>1, <1>2, <2>1
    <2> QED
      BY <1>1, <1>2, <1>3, <2>1, <2>2 DEF Sets
  <1>5. Long(t, n)
    BY <1>2, <1>3 DEF Long
  <1>6. Reads(p, t)
    BY <1>1, <1>2, <1>4, <1>5 DEF Reads, Sets
  <1> QED
    BY <1>6, ReadsContents

LEMMA ContentsTail ==
    ASSUME NEW q, Whole(q), q.len > 0, NEW s, s = Contents(q), NEW p, p.len = q.len - 1,
           \A i \in 0 .. p.len - 1 : ElemAt(p, i) = ElemAt(q, i + 1)
    PROVE  Contents(p) = Tail(s) /\ Head(s) = ElemAt(q, 0)
  <1>1. PICK n, m, t : n = q.len /\ m = p.len /\ t = Tail(s)
    OBVIOUS
  <1>2. n \in Nat /\ Long(s, n) /\ \A i \in 0 .. n - 1 : s[i + 1] = ElemAt(q, i)
    BY <1>1, WholeContents
  <1>3. n > 0 /\ m = n - 1 /\ m \in Nat
    BY <1>1, <1>2
  <1>8. Head(s) = s[1] /\ Rest(t, m, s)
    BY <1>1, <1>2, <1>3, HeadTail
  <1>4. Head(s) = s[1] /\ Long(t, m) /\ \A i \in 1 .. m : t[i] = s[i + 1]
    BY <1>8 DEF Rest
  <1>5. ASSUME NEW i \in 0 .. m - 1 PROVE t[i + 1] = ElemAt(p, i)
    <2>1. PICK j : j = i + 1
      OBVIOUS
    <2>2. j \in 1 .. m /\ j \in 0 .. n - 1
      BY <1>3, <2>1
    <2>3. t[j] = s[j + 1] /\ s[j + 1] = ElemAt(q, j)
      BY <1>2, <1>4, <2>2
    <2>4. ElemAt(p, i) = ElemAt(q, j)
      BY <1>1, <2>1
    <2> QED
      BY <2>1, <2>3, <2>4
  <1>6. Reads(p, t)
    BY <1>1, <1>3, <1>4, <1>5 DEF Reads
  <1>7. s[1] = ElemAt(q, 0)
    <2>1. 0 \in 0 .. n - 1 /\ 0 + 1 = 1
      BY <1>2, <1>3
    <2> QED
      BY <1>2, <2>1
  <1> QED
    BY <1>1, <1>4, <1>6, <1>7, ReadsContents

LEMMA ContentsCut ==
    ASSUME NEW q, Whole(q), NEW s, s = Contents(q), NEW idx \in Nat, NEW count \in Nat, idx + count <= q.len,
           NEW p, p.len = q.len - count,
           \A i \in 0 .. p.len - 1 : ElemAt(p, i) = IF i < idx THEN ElemAt(q, i) ELSE ElemAt(q, i + count),
           NEW t, t = SeqsSpec!Cut(s, idx, count)
    PROVE  Contents(p) = t
  <1>1. PICK n, m : n = q.len /\ m = p.len
    OBVIOUS
  <1>2. n \in Nat /\ Long(s, n) /\ \A i \in 0 .. n - 1 : s[i + 1] = ElemAt(q, i)
    BY <1>1, WholeContents
  <1>3. n \in Nat /\ idx + count <= n /\ m = n - count /\ m \in Nat
    BY <1>1, <1>2
  <1>4. Long(t, m) /\ \A i \in 1 .. m : t[i] = IF i <= idx THEN s[i] ELSE s[i + count]
    <2>1. Lacks(t, m, s, idx, count)
      BY <1>2, <1>3, CutIs
    <2> QED
      BY <2>1 DEF Lacks
  <1>5. ASSUME NEW i \in 0 .. m - 1 PROVE t[i + 1] = ElemAt(p, i)
    <2>1. PICK j, k : j = i + 1 /\ k = i + count
      OBVIOUS
    <2>2. j \in 1 .. m /\ i \in 0 .. n - 1 /\ k \in 0 .. n - 1 /\ j + count = k + 1 /\ (j <= idx <=> i < idx)
      BY <1>3, <2>1
    <2>3. t[j] = IF i < idx THEN s[i + 1] ELSE s[k + 1]
      BY <1>4, <2>1, <2>2
    <2>4. s[i + 1] = ElemAt(q, i) /\ s[k + 1] = ElemAt(q, k)
      BY <1>2, <2>2
    <2>5. ElemAt(p, i) = IF i < idx THEN ElemAt(q, i) ELSE ElemAt(q, k)
      BY <1>1, <2>1
    <2> QED
      BY <2>1, <2>3, <2>4, <2>5
  <1>6. Reads(p, t)
    BY <1>1, <1>3, <1>4, <1>5 DEF Reads
  <1> QED
    BY <1>6, ReadsContents

LEMMA ContentsSpliced ==
    ASSUME NEW q, Whole(q), NEW s, s = Contents(q), NEW idx \in 0 .. q.len, NEW k \in Nat, NEW p, Around(q, p, idx, k),
           NEW x, Long(x, k), \A i \in 1 .. k : ElemAt(p, idx + i - 1) = x[i],
           NEW t, t = SeqsSpec!Spliced(s, idx, x)
    PROVE  Contents(p) = t
  <1>1. PICK n, m : n = q.len /\ m = p.len
    OBVIOUS
  <1>2. n \in Nat /\ Long(s, n) /\ \A i \in 0 .. n - 1 : s[i + 1] = ElemAt(q, i)
    BY <1>1, WholeContents
  <1>3. n \in Nat /\ m = n + k /\ m \in Nat /\ idx \in 0 .. n
    BY <1>1, <1>2 DEF Around
  <1>4. /\ Long(t, m)
        /\ \A i \in 1 .. m : t[i] = IF i <= idx THEN s[i] ELSE IF i <= idx + k THEN x[i - idx] ELSE s[i - k]
    <2>1. HasIn(t, m, s, idx, x, k)
      BY <1>2, <1>3, SplicedIs
    <2> QED
      BY <2>1 DEF HasIn
  <1>5. ASSUME NEW i \in 0 .. m - 1 PROVE t[i + 1] = ElemAt(p, i)
    <2>1. PICK j : j = i + 1
      OBVIOUS
    <2>2. j \in 1 .. m
      BY <1>3, <2>1
    <2>3. CASE i < idx
      <3>1. j <= idx /\ i \in 0 .. idx - 1 /\ i \in 0 .. n - 1
        BY <1>3, <2>1, <2>3
      <3>2. t[j] = s[i + 1]
        BY <1>4, <2>1, <2>2, <3>1
      <3>3. ElemAt(p, i) = ElemAt(q, i)
        BY <3>1 DEF Around
      <3> QED
        BY <1>2, <2>1, <3>1, <3>2, <3>3
    <2>4. CASE ~(i < idx) /\ i < idx + k
      <3>1. PICK l : l = j - idx
        OBVIOUS
      <3>2. ~(j <= idx) /\ j <= idx + k /\ l \in 1 .. k /\ idx + l - 1 = i
        BY <1>3, <2>1, <2>4, <3>1
      <3>3. t[j] = x[l]
        BY <1>4, <2>2, <3>1, <3>2
      <3>4. ElemAt(p, idx + l - 1) = x[l]
        BY <3>2
      <3> QED
        BY <2>1, <3>2, <3>3, <3>4
    <2>5. CASE ~(i < idx + k)
      <3>1. PICK l : l = i - k
        OBVIOUS
      <3>2. ~(j <= idx) /\ ~(j <= idx + k) /\ l \in idx .. n - 1 /\ l \in 0 .. n - 1 /\ i = l + k /\ j - k = l + 1
        BY <1>3, <2>1, <2>5, <3>1
      <3>3. t[j] = s[l + 1]
        BY <1>4, <2>2, <3>2
      <3>4. ElemAt(p, l + k) = ElemAt(q, l)
        BY <1>1, <3>2 DEF Around
      <3>5. s[l + 1] = ElemAt(q, l)
        BY <1>2, <3>2
      <3> QED
        BY <2>1, <3>2, <3>3, <3>4, <3>5
    <2> QED
      BY <2>3, <2>4, <2>5
  <1>6. Reads(p, t)
    BY <1>1, <1>3, <1>4, <1>5 DEF Reads
  <1> QED
    BY <1>6, ReadsContents

LEMMA ContentsAppended ==
    ASSUME NEW q, Whole(q), NEW s, s = Contents(q), NEW x, NEW p, p.len = q.len + 1,
           \A i \in 0 .. q.len : ElemAt(p, i) = IF i = q.len THEN x ELSE ElemAt(q, i),
           NEW t, t = Append(s, x)
    PROVE  Contents(p) = t
  <1>1. PICK n, m : n = q.len /\ m = p.len
    OBVIOUS
  <1>2. n \in Nat /\ Long(s, n) /\ \A i \in 0 .. n - 1 : s[i + 1] = ElemAt(q, i)
    BY <1>1, WholeContents
  <1>3. n \in Nat /\ m = n + 1 /\ m \in Nat
    BY <1>1, <1>2
  <1>4. Long(t, m) /\ t[m] = x /\ \A i \in 1 .. n : t[i] = s[i]
    <2>1. Long(s, n) /\ m = n + 1
      BY <1>2, <1>3
    <2>2. EndsIn(t, m, s, n, x)
      BY <2>1, AppendedIs
    <2> QED
      BY <2>2 DEF EndsIn
  <1>5. ASSUME NEW i \in 0 .. m - 1 PROVE t[i + 1] = ElemAt(p, i)
    <2>1. PICK j : j = i + 1
      OBVIOUS
    <2>2. i \in 0 .. n /\ ElemAt(p, i) = IF i = n THEN x ELSE ElemAt(q, i)
      BY <1>1, <1>3
    <2>3. CASE i = n
      BY <1>3, <1>4, <2>2, <2>3
    <2>4. CASE i # n
      <3>1. i \in 0 .. n - 1 /\ j \in 1 .. n
        BY <1>3, <2>1, <2>2, <2>4
      <3>2. s[j] = ElemAt(q, i) /\ t[j] = s[j]
        BY <1>2, <1>4, <2>1, <3>1
      <3> QED
        BY <2>1, <2>2, <2>4, <3>2
    <2> QED
      BY <2>3, <2>4
  <1>6. Reads(p, t)
    BY <1>1, <1>3, <1>4, <1>5 DEF Reads
  <1> QED
    BY <1>6, ReadsContents

LEMMA ContentsPushed ==
    ASSUME NEW q, Whole(q), NEW s, s = Contents(q), NEW x, NEW p, p.len = q.len + 1, ElemAt(p, 0) = x,
           \A i \in 0 .. q.len - 1 : ElemAt(p, i + 1) = ElemAt(q, i),
           NEW t, t = <<x>> \o s
    PROVE  Contents(p) = t
  <1>1. PICK n, m, one, y : n = q.len /\ m = p.len /\ one = 1 /\ y = <<x>>
    OBVIOUS
  <1>2. n \in Nat /\ Long(s, n) /\ \A i \in 0 .. n - 1 : s[i + 1] = ElemAt(q, i)
    BY <1>1, WholeContents
  <1>3. n \in Nat /\ m = one + n /\ m \in Nat /\ t = y \o s
    BY <1>1, <1>2
  <1>4. Long(y, one) /\ y[1] = x
    BY <1>1, OneLong
  <1>5. Joins(t, m, y, one, s)
    BY <1>2, <1>3, <1>4, JoinedIs
  <1>6. ASSUME NEW i \in 0 .. m - 1 PROVE t[i + 1] = ElemAt(p, i)
    <2>1. PICK j : j = i + 1
      OBVIOUS
    <2>2. j \in 1 .. m
      BY <1>3, <2>1
    <2>3. CASE i = 0
      <3>1. t[1] = y[1]
        BY <1>1, <1>5 DEF Joins
      <3> QED
        BY <1>4, <2>3, <3>1
    <2>4. CASE i # 0
      <3>1. PICK k : k = i - 1
        OBVIOUS
      <3>2. k \in 0 .. n - 1 /\ k + 1 = i /\ j > one /\ j - one = i
        BY <1>1, <1>3, <2>1, <2>4, <3>1
      <3>3. t[j] = s[i]
        BY <1>5, <2>2, <3>2 DEF Joins
      <3>4. s[k + 1] = ElemAt(q, k) /\ ElemAt(p, k + 1) = ElemAt(q, k)
        BY <1>1, <1>2, <3>2
      <3> QED
        BY <2>1, <3>2, <3>3, <3>4
    <2> QED
      BY <2>3, <2>4
  <1>7. Reads(p, t)
    BY <1>1, <1>3, <1>5, <1>6 DEF Reads, Joins
  <1> QED
    BY <1>7, ReadsContents

LEMMA ContentsSized ==
    ASSUME NEW q, Whole(q), NEW s, s = Contents(q), NEW n \in Nat, NEW p, p.len = n,
           \A i \in 0 .. n - 1 : ElemAt(p, i) = IF i < q.len THEN ElemAt(q, i) ELSE Zero,
           NEW t, t = SeqsSpec!Sized(s, n)
    PROVE  Contents(p) = t
  <1>1. PICK k : k = q.len
    OBVIOUS
  <1>2. k \in Nat /\ Len(s) = k /\ \A i \in 0 .. k - 1 : s[i + 1] = ElemAt(q, i)
    BY <1>1, WholeContents
  <1>3. t = [i \in 1 .. n |-> IF i <= k THEN s[i] ELSE Zero]
    BY <1>2 DEF SeqsSpec!Sized
  <1>4. ASSUME NEW i \in 0 .. n - 1 PROVE t[i + 1] = ElemAt(p, i)
    <2>1. PICK j : j = i + 1
      OBVIOUS
    <2>2. j \in 1 .. n /\ (j <= k <=> i < k)
      BY <1>2, <2>1
    <2>3. t[j] = IF i < k THEN s[j] ELSE Zero
      BY <1>3, <2>2
    <2>4. i < k => i \in 0 .. k - 1
      BY <1>2
    <2> QED
      BY <1>1, <1>2, <2>1, <2>3, <2>4
  <1>5. Long(t, n)
    BY <1>3 DEF Long
  <1>6. Reads(p, t)
    BY <1>4, <1>5 DEF Reads
  <1> QED
    BY <1>6, ReadsContents

LEMMA ContentsTruncated ==
    ASSUME NEW q, Whole(q), NEW s, s = Contents(q), NEW n \in 0 .. q.len, NEW p, p.len = n,
           \A i \in 0 .. n - 1 : ElemAt(p, i) = ElemAt(q, i),
           NEW t, t = SubSeq(s, 1, n)
    PROVE  Contents(p) = t
  <1>1. PICK k : k = q.len
    OBVIOUS
  <1>2. k \in Nat /\ Long(s, k) /\ \A i \in 0 .. k - 1 : s[i + 1] = ElemAt(q, i)
    BY <1>1, WholeContents
  <1>3. t = [i \in 1 .. n |-> s[i]] /\ n \in Nat
    BY <1>1, <1>2 DEF Long
  <1>4. ASSUME NEW i \in 0 .. n - 1 PROVE t[i + 1] = ElemAt(p, i)
    <2>1. PICK j : j = i + 1 /\ j \in 1 .. n /\ i \in 0 .. k - 1
      BY <1>1, <1>2
    <2> QED
      BY <1>2, <1>3, <2>1
  <1>5. Reads(p, t)
    BY <1>3, <1>4 DEF Reads, Long
  <1> QED
    BY <1>5, ReadsContents

LEMMA NoContents ==
    ASSUME NEW q, q.len = 0
    PROVE  Contents(q) = <<>>
  <1>1. PICK n \in Nat : n = 0
    OBVIOUS
  <1>2. Long(Contents(q), n)
    BY <1>1, ContentsAre
  <1> QED
    BY <1>1, <1>2, NoneLong

\* The value a caller gives, before and after the deque has grown.
LEMMA ValIs ==
    ASSUME NEW d \in Names, NEW q, q = deques[d], Whole(q), NEW v \in Vals(q)
    PROVE  SeqsSpec!ValOf(d, v) = IF v.alias THEN ElemAt(q, v.at) ELSE v.at
  <1>1. CASE v.alias
    <2>1. PICK at : at = v.at /\ at \in 0 .. q.len - 1
      BY <1>1 DEF Vals
    <2>2. Seqs[d][at + 1] = ElemAt(q, at)
      BY <2>1, SeqsAre, WholeContents
    <2> QED
      BY <1>1, <2>1, <2>2 DEF SeqsSpec!ValOf
  <1>2. CASE ~v.alias
    BY <1>2 DEF SeqsSpec!ValOf
  <1> QED
    BY <1>1, <1>2

LEMMA SrcIs ==
    ASSUME NEW d \in Names, NEW q, q = deques[d], Whole(q), NEW v \in Vals(q), NEW p,
           \A i \in 0 .. q.len - 1 : ElemAt(p, i) = ElemAt(q, i)
    PROVE  Src(q, p, v) = SeqsSpec!ValOf(d, v)
  <1>1. CASE v.alias
    <2>1. v.at \in 0 .. q.len - 1
      BY <1>1 DEF Vals
    <2>2. PICK at : at = v.at /\ at \in 0 .. q.cap - 1 /\ at \in 0 .. q.len - 1
      BY <2>1, WholeIs
    <2>3. AliasIdx(q, SlotOf(q, at)) = at
      BY <2>2, SlotIn, WholeIs DEF OnRing
    <2>4. Src(q, p, v) = ElemAt(p, at)
      BY <1>1, <2>2, <2>3 DEF Src
    <2> QED
      BY <1>1, <2>2, <2>4, ValIs
  <1>2. CASE ~v.alias
    BY <1>2, ValIs DEF Src
  <1> QED
    BY <1>1, <1>2

\* A call that has rearranged the elems of a deque in the block b has.
LEMMA SoundServed ==
    ASSUME DequeInv, NEW d \in Names, NEW b, OnRing(b), NEW p, Sound(b, p), NEW c, NEW h, NEW ok, ok,
           Ends(c, d, p, h, ok), NEW t, Contents(p) = t
    PROVE  Ended(c, d, ok, t)
  <1>1. InPlace(b, p) /\ p.len \in 0 .. b.cap /\ b.cap \in Nat
    BY DEF Sound, OnRing
  <1>2. p.len \in Nat /\ p.len <= p.cap
    BY <1>1 DEF InPlace
  <1>3. OnRing(p)
    BY <1>1, <1>2, InPlaceOnRing
  <1> QED
    BY <1>2, <1>3, EndsServed

LEMMA SoundOkServed ==
    ASSUME DequeInv, NEW d \in Names, NEW b, OnRing(b), NEW p, Sound(b, p), NEW c, EndsOk(c, d, p), NEW t, Contents(p) = t,
           NEW ok, ok = TRUE
    PROVE  Ended(c, d, ok, t)
  <1>1. PICK h : h = heap
    OBVIOUS
  <1>2. Ends(c, d, p, h, ok) /\ ok
    BY <1>1 DEF EndsOk
  <1> QED
    BY <1>2, SoundServed

-----------------------------------------------------------------------------
(* Every call does what SeqSpec says.                                       *)

LEMMA SetOneDoes ==
    ASSUME DequeInv, NEW d \in Names, NEW q, q = deques[d], Whole(q), NEW idx \in 0 .. q.len - 1, NEW v,
           NEW x \in Elem, x = SeqsSpec!ValOf(d, v), NEW p, p = WithSlot(q, SlotOf(q, idx), x),
           NEW c, c = [op |-> "set", idx |-> idx, val |-> v], EndsOk(c, d, p)
    PROVE  SeqsSpec!Does(call')
  <1>1. Sound(q, p) /\ Sets(q, p, idx, x)
    BY SetSound
  <1>2. PICK s, t, ok : s = Contents(q) /\ t = [s EXCEPT ![idx + 1] = x] /\ ok = TRUE
    OBVIOUS
  <1>3. Contents(p) = t
    BY <1>1, <1>2, ContentsSet
  <1>4. Ended(c, d, ok, t)
    BY <1>1, <1>2, <1>3, WholeIs, SoundOkServed
  <1>5. t = [Seqs[d] EXCEPT ![idx + 1] = SeqsSpec!ValOf(d, v)]
    BY <1>2, SeqsAre
  <1>6. Ended(c, d, ok, [Seqs[d] EXCEPT ![idx + 1] = SeqsSpec!ValOf(d, v)]) /\ ok
    BY <1>2, <1>4, <1>5
  <1> QED
    BY <1>6, DoesSet

LEMMA SetDoes ==
    ASSUME DequeAssumption, DequeInv, NEW d \in Names, Alive(d), NEW idx \in Nat, NEW v \in Vals(deques[d]),
           tda_deque_set(d, idx, v)
    PROVE  SeqsSpec!Does(call')
  <1>1. PICK q : q = deques[d] /\ Whole(q)
    BY AliveWhole
  <1>2. idx \in 0 .. q.len - 1
    BY <1>1, WholeIs DEF tda_deque_set
  <1>3. PICK x : x = Src(q, q, v) /\ x \in Elem
    BY <1>1, SrcIn DEF Whole, HoldsElems
  <1>4. x = SeqsSpec!ValOf(d, v)
    BY <1>1, <1>3, SrcIs
  <1>5. PICK p, c : p = WithSlot(q, SlotOf(q, idx), x) /\ c = [op |-> "set", idx |-> idx, val |-> v]
    OBVIOUS
  <1>6. EndsOk(c, d, p)
    BY <1>1, <1>3, <1>5 DEF tda_deque_set, WithSlot
  <1> QED
    BY <1>1, <1>2, <1>3, <1>4, <1>5, <1>6, SetOneDoes

LEMMA GetMutDoes ==
    ASSUME DequeAssumption, DequeInv, NEW d \in Names, Alive(d), NEW idx \in Nat, NEW v \in Vals(deques[d]),
           ~v.alias, tda_deque_get_mut(d, idx, v)
    PROVE  SeqsSpec!Does(call')
  <1>1. PICK q : q = deques[d] /\ Whole(q)
    BY AliveWhole
  <1>2. idx \in 0 .. q.len - 1
    BY <1>1, WholeIs DEF tda_deque_get_mut
  <1>3. PICK x : x = v.at /\ x \in Elem
    BY DEF Vals
  <1>4. x = SeqsSpec!ValOf(d, v)
    BY <1>1, <1>3, ValIs
  <1>5. PICK p, c : p = WithSlot(q, SlotOf(q, idx), x) /\ c = [op |-> "set", idx |-> idx, val |-> v]
    OBVIOUS
  <1>6. EndsOk(c, d, p)
    BY <1>1, <1>3, <1>5 DEF tda_deque_get_mut, WithSlot
  <1> QED
    BY <1>1, <1>2, <1>3, <1>4, <1>5, <1>6, SetOneDoes

LEMMA EndMutsDo ==
    ASSUME DequeAssumption, DequeInv, NEW d \in Names, Alive(d), NEW v \in Vals(deques[d]), ~v.alias,
           tda_deque_front_mut(d, v) \/ tda_deque_back_mut(d, v)
    PROVE  SeqsSpec!Does(call')
  <1>1. PICK n : n = deques[d].len /\ n \in Nat
    BY AliveDeque
  <1>2. CASE tda_deque_front_mut(d, v)
    <2>1. PICK idx \in Nat : idx = 0
      OBVIOUS
    <2>2. tda_deque_get_mut(d, idx, v)
      BY <1>2, <2>1 DEF tda_deque_front_mut
    <2> QED
      BY <2>2, GetMutDoes
  <1>3. CASE tda_deque_back_mut(d, v)
    <2>1. PICK idx : idx = n - 1
      OBVIOUS
    <2>2. idx \in Nat /\ tda_deque_get_mut(d, idx, v)
      BY <1>1, <1>3, <2>1 DEF tda_deque_back_mut
    <2> QED
      BY <2>2, GetMutDoes
  <1> QED
    BY <1>2, <1>3

LEMMA SwapElemsDoes ==
    ASSUME DequeAssumption, DequeInv, NEW d \in Names, Alive(d), NEW i \in Nat, NEW j \in Nat,
           tda_deque_swap_elems(d, i, j)
    PROVE  SeqsSpec!Does(call')
  <1>1. PICK q : q = deques[d] /\ Whole(q)
    BY AliveWhole
  <1>2. i \in 0 .. q.len - 1 /\ j \in 0 .. q.len - 1
    BY <1>1, WholeIs DEF tda_deque_swap_elems
  <1>3. PICK x, y : x = ElemAt(q, j) /\ y = ElemAt(q, i) /\ x \in Elem /\ y \in Elem
    BY <1>1, <1>2 DEF Whole, HoldsElems
  <1>4. PICK m : m = WithSlot(q, SlotOf(q, i), x)
    OBVIOUS
  <1>5. Sound(q, m) /\ m.len = q.len /\ m.head = q.head /\ Whole(m) /\ Sets(q, m, i, x)
    BY <1>1, <1>2, <1>3, <1>4, SetSound
  <1>6. m.cap = q.cap
    BY <1>5 DEF Sound, InPlace
  <1>7. SlotOf(m, j) = SlotOf(q, j)
    BY <1>5, <1>6, SameSlots
  <1>8. PICK p : p = WithSlot(m, SlotOf(m, j), y)
    OBVIOUS
  <1>9. Sound(m, p) /\ Sets(m, p, j, y)
    BY <1>2, <1>3, <1>5, <1>8, SetSound
  <1>10. p = [q EXCEPT !.ring[SlotOf(q, i)] = x, !.ring[SlotOf(q, j)] = y]
    BY <1>4, <1>7, <1>8 DEF WithSlot
  <1>11. PICK c, ok : c = [op |-> "swap_elems", idx |-> i, idx2 |-> j] /\ ok = TRUE
    OBVIOUS
  <1>12. EndsOk(c, d, p)
    BY <1>1, <1>3, <1>10, <1>11 DEF tda_deque_swap_elems
  <1>13. PICK s, r, t : s = Contents(q) /\ r = [s EXCEPT ![i + 1] = x] /\ t = [r EXCEPT ![j + 1] = y]
    OBVIOUS
  <1>14. Contents(m) = r
    BY <1>1, <1>2, <1>5, <1>13, ContentsSet
  <1>15. Contents(p) = t
    <2>1. j \in 0 .. m.len - 1
      BY <1>2, <1>5
    <2>2. Whole(m) /\ Sets(m, p, j, y) /\ r = Contents(m) /\ t = [r EXCEPT ![j + 1] = y]
      BY <1>5, <1>9, <1>13, <1>14
    <2> QED
      BY <2>1, <2>2, ContentsSet
  <1>16. s[i + 1] = y /\ s[j + 1] = x
    BY <1>1, <1>2, <1>3, <1>13, WholeContents
  <1>17. t = SeqsSpec!Exchanged(Seqs[d], i, j)
    BY <1>1, <1>13, <1>16, SeqsAre DEF SeqsSpec!Exchanged
  <1>18. Ended(c, d, ok, t)
    <2>1. OnRing(m)
      BY <1>5 DEF Whole
    <2> QED
      BY <1>9, <1>11, <1>12, <1>15, <2>1, SoundOkServed
  <1>19. Ended(c, d, ok, SeqsSpec!Exchanged(Seqs[d], i, j)) /\ ok
    BY <1>11, <1>17, <1>18
  <1> QED
    BY <1>11, <1>19, DoesSwapElems

LEMMA PopFrontDoes ==
    ASSUME DequeAssumption, DequeInv, NEW d \in Names, Alive(d), tda_deque_pop_front(d)
    PROVE  SeqsSpec!Does(call')
  <1>1. PICK q : q = deques[d] /\ Whole(q)
    BY AliveWhole
  <1>2. PICK p, s, idx, n, ok : p = PopFront(q) /\ s = Contents(q) /\ idx = 0 /\ n = 1 /\ ok = TRUE
    OBVIOUS
  <1>3. q.len > 0 /\ q.len \in Nat /\ idx \in Nat /\ n \in Nat /\ idx + n <= q.len
    BY <1>1, <1>2, WholeIs DEF tda_deque_pop_front
  <1>4. Sound(q, p) /\ p.len = q.len - 1 /\ \A i \in 0 .. p.len - 1 : ElemAt(p, i) = ElemAt(q, i + 1)
    BY <1>1, <1>2, <1>3, PoppedFront
  <1>5. PICK c, t : c = [op |-> "remove_range", idx |-> idx, n |-> n] /\ t = SeqsSpec!Cut(s, idx, n)
    OBVIOUS
  <1>6. p.len = q.len - n
    BY <1>2, <1>4
  <1>7. \A i \in 0 .. p.len - 1 : ElemAt(p, i) = IF i < idx THEN ElemAt(q, i) ELSE ElemAt(q, i + n)
    BY <1>2, <1>4
  <1>8. Contents(p) = t
    BY <1>1, <1>2, <1>3, <1>5, <1>6, <1>7, ContentsCut
  <1>9. EndsOk(c, d, p)
    BY <1>1, <1>2, <1>5 DEF tda_deque_pop_front
  <1>10. Ended(c, d, ok, t)
    BY <1>1, <1>2, <1>4, <1>8, <1>9, WholeIs, SoundOkServed
  <1>11. Ended(c, d, ok, SeqsSpec!Cut(Seqs[d], idx, n)) /\ ok
    BY <1>1, <1>2, <1>5, <1>10, SeqsAre
  <1> QED
    BY <1>5, <1>11, DoesRemoveRange

LEMMA PopFrontToDoes ==
    ASSUME DequeAssumption, DequeInv, NEW d \in Names, Alive(d), tda_deque_pop_front_to(d)
    PROVE  SeqsSpec!Does(call')
  <1>1. PICK q : q = deques[d] /\ Whole(q)
    BY AliveWhole
  <1>2. PICK p, s, t, out, ok : /\ p = PopFront(q) /\ s = Contents(q) /\ t = Tail(s)
                                /\ out = ElemAt(q, 0) /\ ok = TRUE
    OBVIOUS
  <1>3. q.len > 0
    BY <1>1 DEF tda_deque_pop_front_to
  <1>4. Sound(q, p) /\ p.len = q.len - 1 /\ \A i \in 0 .. p.len - 1 : ElemAt(p, i) = ElemAt(q, i + 1)
    BY <1>1, <1>2, <1>3, PoppedFront
  <1>5. Contents(p) = t /\ Head(s) = out
    BY <1>1, <1>2, <1>3, <1>4, ContentsTail
  <1>6. PICK c : c = [op |-> "pop_front", out |-> out]
    OBVIOUS
  <1>7. EndsOk(c, d, p)
    BY <1>1, <1>2, <1>6 DEF tda_deque_pop_front_to
  <1>8. Ended(c, d, ok, t)
    BY <1>1, <1>2, <1>4, <1>5, <1>7, WholeIs, SoundOkServed
  <1>9. Ended(c, d, ok, Tail(Seqs[d])) /\ ok /\ out = Head(Seqs[d])
    BY <1>1, <1>2, <1>5, <1>8, SeqsAre
  <1> QED
    BY <1>6, <1>9, DoesPopFront

LEMMA ShortenedServed ==
    ASSUME DequeInv, NEW d \in Names, NEW q, q = deques[d], Whole(q), NEW n \in 0 .. q.len, NEW p, p = WithLen(q, n),
           NEW c, EndsOk(c, d, p), NEW ok, ok = TRUE
    PROVE  Ended(c, d, ok, SubSeq(Seqs[d], 1, n)) /\ Len(Seqs[d]) = q.len
  <1>1. Sound(q, p) /\ p.len = n /\ \A i \in 0 .. n - 1 : ElemAt(p, i) = ElemAt(q, i)
    BY Shortened
  <1>2. PICK s, t : s = Contents(q) /\ t = SubSeq(s, 1, n)
    OBVIOUS
  <1>3. Contents(p) = t
    BY <1>1, <1>2, ContentsTruncated
  <1>4. Ended(c, d, ok, t)
    BY <1>1, <1>3, WholeIs, SoundOkServed
  <1>5. s = Seqs[d] /\ Len(s) = q.len
    BY <1>2, SeqsAre, WholeContents
  <1> QED
    BY <1>2, <1>4, <1>5

LEMMA TruncateDoes ==
    ASSUME DequeAssumption, DequeInv, NEW d \in Names, Alive(d), NEW n \in Nat, tda_deque_truncate(d, n)
    PROVE  SeqsSpec!Does(call')
  <1>1. PICK q, ok, c : q = deques[d] /\ Whole(q) /\ ok = TRUE /\ c = [op |-> "truncate", n |-> n]
    BY AliveWhole
  <1>2. q.len \in Nat /\ Len(Seqs[d]) = q.len
    BY <1>1, WholeIs, SeqsAre, WholeContents
  <1>3. CASE n < q.len
    <2>1. PICK p : p = WithLen(q, n)
      OBVIOUS
    <2>2. n \in 0 .. q.len
      BY <1>2, <1>3
    <2>3. EndsOk(c, d, p)
      BY <1>1, <1>3, <2>1 DEF tda_deque_truncate, WithLen
    <2>4. Ended(c, d, ok, SubSeq(Seqs[d], 1, n))
      BY <1>1, <2>1, <2>2, <2>3, ShortenedServed
    <2>5. Ended(c, d, ok, IF n < Len(Seqs[d]) THEN SubSeq(Seqs[d], 1, n) ELSE Seqs[d]) /\ ok
      BY <1>1, <1>2, <1>3, <2>4
    <2> QED
      BY <1>1, <2>5, DoesTruncate
  <1>4. CASE ~(n < q.len)
    <2>1. Ends(c, d, q, heap, ok)
      BY <1>1, <1>4 DEF tda_deque_truncate, EndsOk
    <2>2. PICK t : t = Contents(q)
      OBVIOUS
    <2>3. Ended(c, d, ok, t)
      BY <1>1, <2>1, <2>2, WholeIs, EndsServed
    <2>4. Ended(c, d, ok, IF n < Len(Seqs[d]) THEN SubSeq(Seqs[d], 1, n) ELSE Seqs[d]) /\ ok
      BY <1>1, <1>2, <1>4, <2>2, <2>3, SeqsAre
    <2> QED
      BY <1>1, <2>4, DoesTruncate
  <1> QED
    BY <1>3, <1>4

LEMMA PopBackDoes ==
    ASSUME DequeAssumption, DequeInv, NEW d \in Names, Alive(d), tda_deque_pop_back(d)
    PROVE  SeqsSpec!Does(call')
  <1>1. PICK q, ok : q = deques[d] /\ Whole(q) /\ ok = TRUE
    BY AliveWhole
  <1>2. PICK n, p, c : n = q.len - 1 /\ p = WithLen(q, n) /\ c = [op |-> "truncate", n |-> n]
    OBVIOUS
  <1>3. q.len > 0 /\ q.len \in Nat /\ n \in 0 .. q.len /\ n < q.len
    BY <1>1, <1>2, WholeIs DEF tda_deque_pop_back
  <1>4. EndsOk(c, d, p)
    <2>1. Shaped(q)
      BY <1>1, WholeIs DEF OnRing
    <2>2. p.len = n
      BY <1>2, <2>1 DEF WithLen, Shaped
    <2> QED
      BY <1>1, <1>2, <2>2 DEF tda_deque_pop_back, WithLen
  <1>5. Ended(c, d, ok, SubSeq(Seqs[d], 1, n)) /\ Len(Seqs[d]) = q.len
    BY <1>1, <1>2, <1>3, <1>4, ShortenedServed
  <1>6. Ended(c, d, ok, IF n < Len(Seqs[d]) THEN SubSeq(Seqs[d], 1, n) ELSE Seqs[d]) /\ ok
    BY <1>1, <1>3, <1>5
  <1> QED
    BY <1>2, <1>6, DoesTruncate

LEMMA PopBackToDoes ==
    ASSUME DequeAssumption, DequeInv, NEW d \in Names, Alive(d), tda_deque_pop_back_to(d)
    PROVE  SeqsSpec!Does(call')
  <1>1. PICK q, ok : q = deques[d] /\ Whole(q) /\ ok = TRUE
    BY AliveWhole
  <1>2. PICK n, p, out, c :
            n = q.len - 1 /\ p = WithLen(q, n) /\ out = ElemAt(q, n) /\ c = [op |-> "pop_back", out |-> out]
    OBVIOUS
  <1>3. q.len > 0 /\ q.len \in Nat /\ n \in 0 .. q.len /\ n \in 0 .. q.len - 1 /\ n + 1 = q.len
    BY <1>1, <1>2, WholeIs DEF tda_deque_pop_back_to
  <1>4. EndsOk(c, d, p)
    BY <1>1, <1>2 DEF tda_deque_pop_back_to, WithLen
  <1>5. Ended(c, d, ok, SubSeq(Seqs[d], 1, n)) /\ Len(Seqs[d]) = q.len
    BY <1>1, <1>2, <1>3, <1>4, ShortenedServed
  <1>6. Seqs[d][n + 1] = out
    BY <1>1, <1>2, <1>3, SeqsAre, WholeContents
  <1>7. Ended(c, d, ok, SubSeq(Seqs[d], 1, Len(Seqs[d]) - 1)) /\ ok
    BY <1>1, <1>2, <1>5
  <1>8. out = Seqs[d][Len(Seqs[d])]
    BY <1>3, <1>5, <1>6
  <1> QED
    BY <1>2, <1>7, <1>8, DoesPopBack

LEMMA ClearDoes ==
    ASSUME DequeAssumption, DequeInv, NEW d \in Names, Alive(d), tda_deque_clear(d)
    PROVE  SeqsSpec!Does(call')
  <1>1. PICK q, m, ok : q = deques[d] /\ Whole(q) /\ m = WithLen(q, 0) /\ ok = TRUE
    BY AliveWhole
  <1>2. OnRing(q) /\ q.cap \in Nat
    BY <1>1, WholeIs
  <1>3. InPlace(q, m) /\ m.len = 0 /\ m.cap = q.cap
    BY <1>1, <1>2, LenChanges
  <1>4. OnRing(m) /\ 0 \in Heads(m.cap)
    BY <1>2, <1>3, InPlaceOnRing, HeadFits
  <1>5. PICK p, t, c : p = WithHead(m, 0) /\ t = <<>> /\ c = [op |-> "clear"]
    OBVIOUS
  <1>6. InPlace(m, p) /\ p.len = 0 /\ p.cap = m.cap
    BY <1>3, <1>4, <1>5, HeadChanges
  <1>7. Sound(m, p)
    BY <1>2, <1>3, <1>6 DEF Sound, HoldsElems
  <1>8. Contents(p) = t
    BY <1>5, <1>6, NoContents
  <1>9. EndsOk(c, d, p)
    BY <1>1, <1>5 DEF tda_deque_clear, WithLen, WithHead
  <1>10. Ended(c, d, ok, t)
    BY <1>1, <1>4, <1>7, <1>8, <1>9, SoundOkServed
  <1>11. Ended(c, d, ok, <<>>) /\ ok
    BY <1>1, <1>5, <1>10
  <1> QED
    BY <1>5, <1>11, DoesClear

LEMMA CopyFromSpanDoes ==
    ASSUME DequeAssumption, DequeInv, NEW d \in Names, Alive(d), NEW src \in Spans, tda_deque_copy_from_span(d, src)
    PROVE  SeqsSpec!Does(call')
  <1>1. PICK q, ok : q = deques[d] /\ Whole(q) /\ ok = TRUE
    BY AliveWhole
  <1>2. PICK n : n = Len(src) /\ n \in Nat /\ src \in [1 .. n -> Elem] /\ n = q.len
    BY <1>1, SpansAre DEF tda_deque_copy_from_span
  <1>3. OnRing(q) /\ q.cap \in Nat /\ q.len \in Nat /\ q.len <= q.cap
    BY <1>1, WholeIs
  <1>4. PICK p : p = CopyRangeIn(q, 0, src)
    OBVIOUS
  <1>13. PICK c : c = [op |-> "copy_from_span", src |-> src]
    OBVIOUS
  <1>5. 0 + n <= q.cap /\ 0 \in Nat
    BY <1>2, <1>3
  <1>6. /\ InPlace(q, p) /\ p.len = q.len
        /\ \A i \in 0 .. q.cap - 1 : ElemAt(p, i) = IF i \in 0 .. 0 + n - 1 THEN src[i - 0 + 1] ELSE ElemAt(q, i)
    BY <1>2, <1>3, <1>4, <1>5, CopiedIn
  <1>7. ASSUME NEW i \in 0 .. n - 1 PROVE src[i + 1] = ElemAt(p, i) /\ src[i + 1] \in Elem
    <2>1. i \in 0 .. q.cap - 1 /\ i \in 0 .. 0 + n - 1 /\ i - 0 + 1 = i + 1 /\ i + 1 \in 1 .. n
      BY <1>2, <1>3
    <2> QED
      BY <1>2, <1>6, <2>1
  <1>8. Sound(q, p)
    BY <1>2, <1>3, <1>6, <1>7 DEF Sound, HoldsElems
  <1>9. Long(src, n)
    BY <1>2 DEF Long
  <1>10. Contents(p) = src
    BY <1>2, <1>6, <1>7, <1>9, ReadsContents DEF Reads
  <1>11. EndsOk(c, d, p)
    BY <1>1, <1>4, <1>13 DEF tda_deque_copy_from_span
  <1>12. Ended(c, d, ok, src) /\ ok
    BY <1>1, <1>3, <1>8, <1>10, <1>11, SoundOkServed
  <1> QED
    BY <1>12, <1>13, DoesCopyFromSpan

LEMMA RemoveRangeDoes ==
    ASSUME DequeAssumption, DequeInv, NEW d \in Names, Alive(d), NEW idx \in Nat, NEW count \in Nat,
           tda_deque_remove_range(d, idx, count)
    PROVE  SeqsSpec!Does(call')
  <1>1. PICK q, ok : q = deques[d] /\ Whole(q) /\ ok = TRUE
    BY AliveWhole
  <1>2. PICK p, s : p = (IF count = 0 THEN q ELSE Closed(q, idx, count)) /\ s = Contents(q)
    OBVIOUS
  <1>3. PICK c : c = [op |-> "remove_range", idx |-> idx, n |-> count]
    OBVIOUS
  <1>4. idx + count <= q.len /\ EndsOk(c, d, p)
    BY <1>1, <1>2, <1>3 DEF tda_deque_remove_range
  <1>5. OnRing(q) /\ q.len \in Nat /\ q.len \in 0 .. q.cap
    BY <1>1, WholeIs
  <1>6. /\ Sound(q, p) /\ p.len = q.len - count
        /\ \A i \in 0 .. p.len - 1 : ElemAt(p, i) = IF i < idx THEN ElemAt(q, i) ELSE ElemAt(q, i + count)
    <2>1. CASE count = 0
      <3>1. p = q /\ p.len = q.len - count
        BY <1>2, <1>5, <2>1
      <3>2. \A i \in 0 .. p.len - 1 : i + count = i
        BY <2>1
      <3>3. Sound(q, q)
        BY <1>1, <1>5, InPlaceItself DEF Sound, Whole
      <3> QED
        BY <3>1, <3>2, <3>3
    <2>2. CASE count # 0
      <3>1. p = Closed(q, idx, count)
        BY <1>2, <2>2
      <3> QED
        BY <1>1, <1>4, <3>1, ClosedIs
    <2> QED
      BY <2>1, <2>2
  <1>7. PICK t : t = SeqsSpec!Cut(s, idx, count)
    OBVIOUS
  <1>8. Contents(p) = t
    BY <1>1, <1>2, <1>4, <1>6, <1>7, ContentsCut
  <1>9. Ended(c, d, ok, t)
    BY <1>1, <1>4, <1>5, <1>6, <1>8, SoundOkServed
  <1>10. Ended(c, d, ok, SeqsSpec!Cut(Seqs[d], idx, count)) /\ ok
    BY <1>1, <1>2, <1>7, <1>9, SeqsAre
  <1> QED
    BY <1>3, <1>10, DoesRemoveRange

LEMMA RemoveDoes ==
    ASSUME DequeAssumption, DequeInv, NEW d \in Names, Alive(d), NEW idx \in Nat, tda_deque_remove(d, idx)
    PROVE  SeqsSpec!Does(call')
  <1>1. PICK count \in Nat : count = 1
    OBVIOUS
  <1>2. tda_deque_remove_range(d, idx, count)
    BY <1>1 DEF tda_deque_remove
  <1> QED
    BY <1>2, RemoveRangeDoes

\* A call that has been refused memory.
LEMMA RefusedServed ==
    ASSUME DequeAssumption, DequeInv, NEW d \in Names, NEW q, q = deques[d], NEW r, Refused(q, r), NEW c,
           NEW ok, ok = r.ok, Ends(c, d, r.q, r.heap, ok), NEW t
    PROVE  Ended(c, d, ok, t)
  <1>1. PICK h : h = r.heap
    OBVIOUS
  <1>2. ~ok /\ Ends(c, d, deques[d], h, ok)
    BY <1>1 DEF Refused
  <1> QED
    BY <1>2, EndsRefused

LEMMA PushBackDoes ==
    ASSUME DequeAssumption, DequeInv, NEW d \in Names, Alive(d), NEW v \in Vals(deques[d]), tda_deque_push_back(d, v)
    PROVE  SeqsSpec!Does(call')
  <1>1. PICK q : q = deques[d] /\ Whole(q)
    BY AliveWhole
  <1>2. PICK c : c = [op |-> "push_back", val |-> v]
    OBVIOUS
  <1>3. PICK r \in ReserveOne(q, heap) :
            Ends(c, d, IF ~r.ok THEN r.q
                       ELSE [r.q EXCEPT !.len = @ + 1, !.ring[SlotOf(r.q, r.q.len)] = Src(q, r.q, v)], r.heap, r.ok)
    BY <1>1, <1>2 DEF tda_deque_push_back
  <1>4. Refused(q, r) \/ Grown(q, r, q.len + 1)
    BY <1>1, <1>3, ReserveOneOutcomes
  <1>5. PICK ok, h, s, y, t : ok = r.ok /\ h = r.heap /\ s = Seqs[d] /\ y = SeqsSpec!ValOf(d, v) /\ t = Append(s, y)
    OBVIOUS
  <1>6. Ended(c, d, ok, t)
    <2>1. CASE Refused(q, r)
      <3>1. Ends(c, d, r.q, r.heap, ok)
        BY <1>3, <1>5, <2>1 DEF Refused
      <3> QED
        BY <1>1, <1>5, <2>1, <3>1, RefusedServed
    <2>2. CASE Grown(q, r, q.len + 1)
      <3>1. PICK g, n : g = r.q /\ n = q.len + 1 /\ n \in Nat
        BY <1>1, WholeIs
      <3>2. /\ Whole(g) /\ g.len = q.len /\ g.cap >= n /\ r.ok
            /\ \A i \in 0 .. q.len - 1 : ElemAt(g, i) = ElemAt(q, i) /\ ElemAt(g, i) \in Elem
        BY <1>1, <2>2, <3>1, GrownIs
      <3>3. PICK x : x = Src(q, g, v) /\ x \in Elem
        BY <1>1, <3>2, SrcIn
      <3>4. x = y
        BY <1>1, <1>5, <3>2, <3>3, SrcIs
      <3>5. PICK m, p : m = WithLen(g, n) /\ p = WithSlot(m, SlotOf(g, g.len), x)
        OBVIOUS
      <3>6. Sound(g, p) /\ p.len = n /\ \A i \in 0 .. g.len : ElemAt(p, i) = IF i = g.len THEN x ELSE ElemAt(g, i)
        BY <3>1, <3>2, <3>3, <3>5, PushedBack
      <3>7. Ends(c, d, p, h, ok)
        BY <1>3, <1>5, <3>1, <3>2, <3>3, <3>5 DEF WithLen, WithSlot
      <3>8. s = Contents(g)
        BY <1>1, <1>5, <3>2, WholeIs, SeqsAre, SameContents
      <3>9. p.len = g.len + 1 /\ t = Append(s, x)
        BY <1>5, <3>1, <3>2, <3>4, <3>6
      <3>10. Contents(p) = t
        <4>1. Whole(g) /\ \A i \in 0 .. g.len : ElemAt(p, i) = IF i = g.len THEN x ELSE ElemAt(g, i)
          BY <3>2, <3>6
        <4> QED
          BY <3>8, <3>9, <4>1, ContentsAppended
      <3> QED
        BY <1>5, <3>2, <3>6, <3>7, <3>10, WholeIs, SoundServed
    <2> QED
      BY <1>4, <2>1, <2>2
  <1>7. Ended(c, d, ok, Append(Seqs[d], SeqsSpec!ValOf(d, v)))
    BY <1>5, <1>6
  <1> QED
    BY <1>2, <1>7, DoesPushBack

LEMMA PushFrontDoes ==
    ASSUME DequeAssumption, DequeInv, NEW d \in Names, Alive(d), NEW v \in Vals(deques[d]), tda_deque_push_front(d, v)
    PROVE  SeqsSpec!Does(call')
  <1>1. PICK q : q = deques[d] /\ Whole(q)
    BY AliveWhole
  <1>2. PICK c : c = [op |-> "push_front", val |-> v]
    OBVIOUS
  <1>3. PICK r \in ReserveOne(q, heap) :
            Ends(c, d, IF ~r.ok THEN r.q
                       ELSE [r.q EXCEPT !.head = SlotBack(r.q, r.q.head, 1), !.len = @ + 1,
                                        !.ring[SlotBack(r.q, r.q.head, 1)] = Src(q, r.q, v)], r.heap, r.ok)
    BY <1>1, <1>2 DEF tda_deque_push_front
  <1>4. Refused(q, r) \/ Grown(q, r, q.len + 1)
    BY <1>1, <1>3, ReserveOneOutcomes
  <1>5. PICK ok, h, s, y, t : ok = r.ok /\ h = r.heap /\ s = Seqs[d] /\ y = SeqsSpec!ValOf(d, v) /\ t = <<y>> \o s
    OBVIOUS
  <1>6. Ended(c, d, ok, t)
    <2>1. CASE Refused(q, r)
      <3>1. Ends(c, d, r.q, r.heap, ok)
        BY <1>3, <1>5, <2>1 DEF Refused
      <3> QED
        BY <1>1, <1>5, <2>1, <3>1, RefusedServed
    <2>2. CASE Grown(q, r, q.len + 1)
      <3>1. PICK g, n : g = r.q /\ n = q.len + 1 /\ n \in Nat
        BY <1>1, WholeIs
      <3>2. /\ Whole(g) /\ g.len = q.len /\ g.cap >= n /\ r.ok
            /\ \A i \in 0 .. q.len - 1 : ElemAt(g, i) = ElemAt(q, i) /\ ElemAt(g, i) \in Elem
        BY <1>1, <2>2, <3>1, GrownIs
      <3>3. PICK x : x = Src(q, g, v) /\ x \in Elem
        BY <1>1, <3>2, SrcIn
      <3>4. x = y
        BY <1>1, <1>5, <3>2, <3>3, SrcIs
      <3>5. PICK head : head = SlotBack(g, g.head, 1)
        OBVIOUS
      <3>6. PICK m, o, p : m = WithHead(g, head) /\ o = WithLen(m, n) /\ p = WithSlot(o, head, x)
        OBVIOUS
      <3>7. /\ Sound(g, p) /\ p.len = n /\ ElemAt(p, 0) = x
            /\ \A i \in 0 .. g.len - 1 : ElemAt(p, i + 1) = ElemAt(g, i)
        BY <3>1, <3>2, <3>3, <3>5, <3>6, PushedFront
      <3>8. Ends(c, d, p, h, ok)
        BY <1>3, <1>5, <3>1, <3>2, <3>3, <3>5, <3>6 DEF WithHead, WithLen, WithSlot
      <3>9. s = Contents(g)
        BY <1>1, <1>5, <3>2, WholeIs, SeqsAre, SameContents
      <3>10. p.len = g.len + 1 /\ t = <<x>> \o s
        BY <1>5, <3>1, <3>2, <3>4, <3>7
      <3>11. Contents(p) = t
        <4>1. Whole(g) /\ ElemAt(p, 0) = x /\ \A i \in 0 .. g.len - 1 : ElemAt(p, i + 1) = ElemAt(g, i)
          BY <3>2, <3>7
        <4> QED
          BY <3>9, <3>10, <4>1, ContentsPushed
      <3> QED
        BY <1>5, <3>2, <3>7, <3>8, <3>11, WholeIs, SoundServed
    <2> QED
      BY <1>4, <2>1, <2>2
  <1>7. Ended(c, d, ok, <<SeqsSpec!ValOf(d, v)>> \o Seqs[d])
    BY <1>5, <1>6
  <1> QED
    BY <1>2, <1>7, DoesPushFront

\* An elem put into the gap that a call has opened for it.
LEMMA OpenedServed ==
    ASSUME DequeAssumption, DequeInv, NEW d \in Names, Alive(d), NEW q, q = deques[d], NEW idx \in 0 .. q.len,
           NEW count \in Nat, NEW r, NEW s, Opened(q, s, r, idx, count), NEW b, b = s.q,
           NEW p, Sound(b, p), Around(b, p, idx, count), NEW x, Long(x, count),
           \A i \in 1 .. count : ElemAt(p, idx + i - 1) = x[i],
           NEW c, NEW h, NEW ok, ok, Ends(c, d, p, h, ok), NEW t, t = SeqsSpec!Spliced(Seqs[d], idx, x)
    PROVE  Ended(c, d, ok, t)
  <1>1. Whole(q) /\ q.len \in Nat
    BY AliveWhole, WholeIs
  <1>2. PICK g : g = r.q
    OBVIOUS
  <1>3. /\ Whole(b) /\ idx \in 0 .. b.len
        /\ b.len = q.len /\ \A i \in 0 .. q.len - 1 : ElemAt(b, i) = ElemAt(q, i)
    BY <1>2, GapOutcome
  <1>4. PICK a : a = Contents(b)
    OBVIOUS
  <1>5. a = Seqs[d]
    BY <1>1, <1>3, <1>4, SeqsAre, SameContents
  <1>6. t = SeqsSpec!Spliced(a, idx, x)
    BY <1>5
  <1>7. Contents(p) = t
    BY <1>3, <1>4, <1>6, ContentsSpliced
  <1>8. OnRing(b)
    BY <1>3, WholeIs
  <1> QED
    BY <1>7, <1>8, SoundServed

LEMMA InsertDoes ==
    ASSUME DequeAssumption, DequeInv, NEW d \in Names, Alive(d), NEW idx \in Nat, NEW v \in Vals(deques[d]),
           tda_deque_insert(d, idx, v)
    PROVE  SeqsSpec!Does(call')
  <1>1. PICK q : q = deques[d] /\ Whole(q) /\ idx \in 0 .. q.len
    BY AliveWhole, WholeIs DEF tda_deque_insert
  <1>2. PICK count \in Nat : count = 1
    OBVIOUS
  <1>3. PICK c : c = [op |-> "insert", idx |-> idx, val |-> v]
    OBVIOUS
  <1>4. PICK r \in OpenGap(q, heap, idx, count) :
            Ends(c, d, IF r.ok THEN Inserted(q, r.q, idx, v) ELSE r.q, r.heap, r.ok)
    BY <1>1, <1>2, <1>3 DEF tda_deque_insert
  <1>5. Refused(q, r) \/ \E s : Opened(q, s, r, idx, count)
    BY <1>1, <1>4, OpenGapOutcomes
  <1>6. PICK ok, h, y, x, t : /\ ok = r.ok /\ h = r.heap /\ y = SeqsSpec!ValOf(d, v) /\ x = <<y>>
                              /\ t = SeqsSpec!Spliced(Seqs[d], idx, x)
    OBVIOUS
  <1>7. Ended(c, d, ok, t)
    <2>1. CASE Refused(q, r)
      <3>1. Ends(c, d, r.q, r.heap, ok)
        BY <1>4, <1>6, <2>1 DEF Refused
      <3> QED
        BY <1>1, <1>6, <2>1, <3>1, RefusedServed
    <2>2. CASE \E s : Opened(q, s, r, idx, count)
      <3>1. PICK s : Opened(q, s, r, idx, count)
        BY <2>2
      <3>2. PICK b, g : b = s.q /\ g = r.q
        OBVIOUS
      <3>3. /\ r.ok /\ Whole(b) /\ idx \in 0 .. b.len /\ b.len + count <= b.cap /\ Gapped(b, g, idx, count)
            /\ b.len = q.len /\ \A i \in 0 .. q.len - 1 : ElemAt(b, i) = ElemAt(q, i)
        BY <1>1, <3>1, <3>2, GapOutcome
      <3>4. PICK p : p = Inserted(q, g, idx, v)
        OBVIOUS
      <3>5. /\ Sound(b, p) /\ Around(b, p, idx, count)
            /\ ElemAt(p, idx) = IF v.alias THEN ElemAt(b, v.at) ELSE v.at
        BY <1>1, <1>2, <3>3, <3>4, InsertedIs
      <3>6. ElemAt(p, idx) = y
        <4>1. v.alias => ElemAt(b, v.at) = ElemAt(q, v.at)
          BY <1>1, <3>3 DEF Vals
        <4> QED
          BY <1>1, <1>6, <3>5, <4>1, ValIs
      <3>7. Long(x, count) /\ x[1] = y
        BY <1>2, <1>6, OneLong
      <3>8. \A i \in 1 .. count : ElemAt(p, idx + i - 1) = x[i]
        <4>1. \A i \in 1 .. count : i = 1 /\ idx + i - 1 = idx
          BY <1>1, <1>2
        <4> QED
          BY <3>6, <3>7, <4>1
      <3>9. ok /\ Ends(c, d, p, h, ok)
        BY <1>4, <1>6, <3>2, <3>3, <3>4
      <3> QED
        BY <1>1, <1>6, <3>1, <3>2, <3>5, <3>7, <3>8, <3>9, OpenedServed
    <2> QED
      BY <1>5, <2>1, <2>2
  <1>8. Ended(c, d, ok, SeqsSpec!Spliced(Seqs[d], idx, <<SeqsSpec!ValOf(d, v)>>))
    BY <1>6, <1>7
  <1> QED
    BY <1>3, <1>8, DoesInsert

LEMMA InsertSpanDoes ==
    ASSUME DequeAssumption, DequeInv, NEW d \in Names, Alive(d), NEW idx \in Nat, NEW src \in Spans,
           tda_deque_insert_span(d, idx, src)
    PROVE  SeqsSpec!Does(call')
  <1>1. PICK q : q = deques[d] /\ Whole(q) /\ idx \in 0 .. q.len
    BY AliveWhole, WholeIs DEF tda_deque_insert_span
  <1>2. PICK c : c = [op |-> "insert_span", idx |-> idx, src |-> src]
    OBVIOUS
  <1>3. PICK r \in InsertRaw(q, heap, idx, src) : Ends(c, d, r.q, r.heap, r.ok)
    BY <1>1, <1>2 DEF tda_deque_insert_span
  <1>4. PICK count : count = Len(src) /\ count \in Nat /\ src \in [1 .. count -> Elem]
    BY SpansAre
  <1>5. Long(src, count)
    BY <1>4 DEF Long
  <1>6. PICK ok, h, t : ok = r.ok /\ h = r.heap /\ t = SeqsSpec!Spliced(Seqs[d], idx, src)
    OBVIOUS
  <1>7. Ended(c, d, ok, t)
    <2>1. CASE src = <<>>
      <3>1. r = Outcome(q, heap, TRUE)
        BY <1>3, <2>1 DEF InsertRaw
      <3>2. r.q = q /\ r.ok = TRUE
        BY <3>1 DEF Outcome
      <3>3. ok /\ Ends(c, d, q, h, ok)
        BY <1>3, <1>6, <3>2
      <3>4. count = 0
        BY <1>4, <2>1
      <3>5. OnRing(q) /\ q.len \in Nat /\ q.len <= q.cap
        BY <1>1, WholeIs
      <3>6. Around(q, q, idx, count)
        BY <3>4, <3>5 DEF Around
      <3>7. \A i \in 1 .. count : ElemAt(q, idx + i - 1) = src[i]
        BY <3>4
      <3>8. PICK a : a = Contents(q)
        OBVIOUS
      <3>9. t = SeqsSpec!Spliced(a, idx, src)
        BY <1>1, <1>6, <3>8, SeqsAre
      <3>10. Contents(q) = t
        BY <1>1, <1>4, <1>5, <3>6, <3>7, <3>8, <3>9, ContentsSpliced
      <3> QED
        BY <3>3, <3>5, <3>10, EndsServed
    <2>2. CASE src # <<>>
      <3>1. PICK o \in OpenGap(q, heap, idx, count) :
                r = IF o.ok THEN [o EXCEPT !.q = CopyRangeIn(o.q, idx, src)] ELSE o
        BY <1>3, <1>4, <2>2 DEF InsertRaw
      <3>2. Refused(q, o) \/ \E s : Opened(q, s, o, idx, count)
        BY <1>1, <1>4, <3>1, OpenGapOutcomes
      <3>3. CASE Refused(q, o)
        <4>1. r = o
          BY <3>1, <3>3 DEF Refused
        <4>2. Refused(q, r) /\ Ends(c, d, r.q, r.heap, ok)
          BY <1>3, <1>6, <3>3, <4>1
        <4> QED
          BY <1>1, <1>6, <4>2, RefusedServed
      <3>4. CASE \E s : Opened(q, s, o, idx, count)
        <4>1. PICK s : Opened(q, s, o, idx, count)
          BY <3>4
        <4>2. PICK b, g : b = s.q /\ g = o.q
          OBVIOUS
        <4>3. o.ok /\ Whole(b) /\ idx \in 0 .. b.len /\ b.len + count <= b.cap /\ Gapped(b, g, idx, count)
          BY <1>1, <1>4, <4>1, <4>2, GapOutcome
        <4>4. PICK p : p = CopyRangeIn(g, idx, src)
          OBVIOUS
        <4>5. r.q = p /\ r.ok
          <5>1. IsOutcome(s) /\ o = [s EXCEPT !.q = Gap(s.q, idx, count)]
            BY <4>1 DEF Grown, Opened
          <5> QED
            BY <3>1, <4>2, <4>3, <4>4, <5>1 DEF IsOutcome, Outcome
        <4>6. /\ Sound(b, p) /\ Around(b, p, idx, count)
              /\ \A i \in 1 .. count : ElemAt(p, idx + i - 1) = src[i]
          BY <1>4, <4>3, <4>4, SpanInserted
        <4>7. ok /\ Ends(c, d, p, h, ok)
          BY <1>3, <1>6, <4>5
        <4> QED
          BY <1>1, <1>4, <1>5, <1>6, <4>1, <4>2, <4>6, <4>7, OpenedServed
      <3> QED
        BY <3>2, <3>3, <3>4
    <2> QED
      BY <2>1, <2>2
  <1>8. Ended(c, d, ok, SeqsSpec!Spliced(Seqs[d], idx, src))
    BY <1>6, <1>7
  <1> QED
    BY <1>2, <1>8, DoesInsertSpan

LEMMA ExtendDoes ==
    ASSUME DequeAssumption, DequeInv, NEW d \in Names, Alive(d), NEW src \in Spans, tda_deque_extend(d, src)
    PROVE  SeqsSpec!Does(call')
  <1>1. PICK idx : idx = deques[d].len /\ idx \in Nat
    BY AliveDeque
  <1> QED
    BY <1>1, InsertSpanDoes DEF tda_deque_extend

LEMMA ResizeDoes ==
    ASSUME DequeAssumption, DequeInv, NEW d \in Names, Alive(d), NEW n \in Sizes, tda_deque_resize(d, n)
    PROVE  SeqsSpec!Does(call')
  <1>1. PICK q : q = deques[d] /\ Whole(q)
    BY AliveWhole
  <1>2. PICK c : c = [op |-> "resize", n |-> n]
    OBVIOUS
  <1>3. PICK r \in IF n > q.cap THEN ReserveFor(q, heap, n) ELSE {Outcome(q, heap, TRUE)} :
            Ends(c, d, IF r.ok THEN Resized(r.q, n) ELSE r.q, r.heap, r.ok)
    BY <1>1, <1>2 DEF tda_deque_resize
  <1>4. n \in Nat /\ q.cap \in Nat /\ q.len \in Nat /\ q.len <= q.cap /\ Zero \in Elem
    BY <1>1, WholeIs DEF Sizes, DequeAssumption
  <1>5. (Refused(q, r) /\ n > q.cap) \/ Grown(q, r, n)
    <2>1. CASE n > q.cap
      <3>1. r \in ReserveFor(q, heap, n)
        BY <1>3, <2>1
      <3>2. Refused(q, r) \/ Grown(q, r, n)
        BY <1>1, <3>1, ReserveForOutcomes
      <3> QED
        BY <2>1, <3>2
    <2>2. CASE ~(n > q.cap)
      <3>1. r = Outcome(q, heap, TRUE)
        BY <1>3, <2>2
      <3>2. n <= q.cap
        BY <1>4, <2>2
      <3> QED
        BY <1>1, <3>1, <3>2, AsItIs
    <2> QED
      BY <2>1, <2>2
  <1>6. PICK ok, h, s, t : ok = r.ok /\ h = r.heap /\ s = Seqs[d] /\ t = SeqsSpec!Sized(s, n)
    OBVIOUS
  <1>7. Len(s) = q.len
    BY <1>1, <1>6, SeqsAre, WholeContents
  <1>8. (n <= Len(s) => ok) /\ Ended(c, d, ok, t)
    <2>1. CASE Refused(q, r) /\ n > q.cap
      <3>1. Ends(c, d, r.q, r.heap, ok)
        BY <1>3, <1>6, <2>1 DEF Refused
      <3>2. ~(n <= Len(s))
        BY <1>4, <1>7, <2>1
      <3>3. Ended(c, d, ok, t)
        BY <1>1, <1>6, <2>1, <3>1, RefusedServed
      <3> QED
        BY <3>2, <3>3
    <2>2. CASE Grown(q, r, n)
      <3>1. PICK g : g = r.q
        OBVIOUS
      <3>2. /\ Whole(g) /\ g.len = q.len /\ g.cap >= n /\ g.cap \in Nat /\ r.ok
            /\ \A i \in 0 .. q.len - 1 : ElemAt(g, i) = ElemAt(q, i)
        BY <1>1, <1>4, <2>2, <3>1, GrownIs
      <3>3. n \in 0 .. g.cap
        BY <1>4, <3>2
      <3>4. PICK p : p = Resized(g, n)
        OBVIOUS
      <3>5. /\ Sound(g, p) /\ p.len = n
            /\ \A i \in 0 .. n - 1 : ElemAt(p, i) = IF i < g.len THEN ElemAt(g, i) ELSE Zero
        BY <1>4, <3>2, <3>3, <3>4, ResizedIs
      <3>6. ok /\ Ends(c, d, p, h, ok)
        BY <1>3, <1>6, <3>1, <3>2, <3>4
      <3>7. s = Contents(g)
        BY <1>1, <1>4, <1>6, <3>2, SeqsAre, SameContents
      <3>8. Contents(p) = t
        BY <1>4, <1>6, <3>2, <3>5, <3>7, ContentsSized
      <3>9. Ended(c, d, ok, t)
        BY <3>2, <3>5, <3>6, <3>8, WholeIs, SoundServed
      <3> QED
        BY <3>6, <3>9
    <2> QED
      BY <1>5, <2>1, <2>2
  <1>9. (n <= Len(Seqs[d]) => ok) /\ Ended(c, d, ok, SeqsSpec!Sized(Seqs[d], n))
    BY <1>6, <1>8
  <1> QED
    BY <1>2, <1>9, DoesResize

\* A call that gives the deque more room, or less, and moves no elem.
LEMMA RoomDoes ==
    ASSUME DequeAssumption, DequeInv, NEW d \in Names, Alive(d), NEW q, q = deques[d], NEW n,
           NEW r, Refused(q, r) \/ Grown(q, r, n),
           NEW c, c = [op |-> "reserve"] \/ c = [op |-> "shrink_to_fit"], Ends(c, d, r.q, r.heap, r.ok)
    PROVE  SeqsSpec!Does(call')
  <1>1. Whole(q) /\ q.len \in Nat
    BY AliveWhole, WholeIs
  <1>2. PICK p, h, ok : p = r.q /\ h = r.heap /\ ok = r.ok
    OBVIOUS
  <1>3. OnRing(p) /\ p.len <= p.cap /\ p.len = q.len /\ \A i \in 0 .. q.len - 1 : ElemAt(p, i) = ElemAt(q, i)
    <2>1. CASE Refused(q, r)
      <3>1. p = q
        BY <1>2, <2>1 DEF Refused
      <3> QED
        BY <1>1, <3>1, WholeIs
    <2>2. CASE Grown(q, r, n)
      BY <1>2, <2>2, DequeFields DEF Grown, Good
    <2> QED
      BY <2>1, <2>2
  <1>4. Contents(p) = Contents(deques[d])
    BY <1>1, <1>3, SameContents
  <1>5. Ends(c, d, p, h, ok)
    BY <1>2
  <1>6. Seqs' = Seqs /\ call' = Made(c, d, ok)
    BY <1>3, <1>4, <1>5, EndsSame
  <1> QED
    BY <1>6, DoesRoom

LEMMA ReserveDoes ==
    ASSUME DequeAssumption, DequeInv, NEW d \in Names, Alive(d), NEW cap \in Sizes, tda_deque_reserve(d, cap)
    PROVE  SeqsSpec!Does(call')
  <1>1. PICK q, c : q = deques[d] /\ c = [op |-> "reserve"]
    OBVIOUS
  <1>2. PICK r \in ReserveOutcomes(q, heap, cap) : Ends(c, d, r.q, r.heap, r.ok)
    BY <1>1 DEF tda_deque_reserve
  <1>3. Refused(q, r) \/ Grown(q, r, cap)
    BY <1>1, <1>2, ReserveOutcomesAre
  <1> QED
    BY <1>1, <1>2, <1>3, RoomDoes

LEMMA ShrinkToFitDoes ==
    ASSUME DequeAssumption, DequeInv, NEW d \in Names, Alive(d), tda_deque_shrink_to_fit(d)
    PROVE  SeqsSpec!Does(call')
  <1>1. PICK q, c : q = deques[d] /\ c = [op |-> "shrink_to_fit"]
    OBVIOUS
  <1>2. /\ IsDeque(q) /\ q.al \in Als /\ q.len \in Nat /\ q.len <= q.cap /\ q.cap \in Nat
        /\ q.cap <= SizeMax /\ SizeMax \in Nat
    BY <1>1, AliveDeque, DequeFields
  <1>3. PICK r \in IF q.len = q.cap THEN {Outcome(q, heap, TRUE)}
                   ELSE IF q.len = 0 THEN {ReleaseData(q, heap)} ELSE Relocate(q, heap, q.len) :
              Ends(c, d, r.q, r.heap, r.ok)
    BY <1>1 DEF tda_deque_shrink_to_fit
  <1>4. CASE r = Outcome(q, heap, TRUE)
    <2>1. PICK n : n = q.cap /\ n <= q.cap
      BY <1>2
    <2>2. Grown(q, r, n)
      BY <1>1, <1>4, <2>1, AsItIs
    <2> QED
      BY <1>1, <1>3, <2>2, RoomDoes
  <1>5. CASE q.len = 0 /\ r = ReleaseData(q, heap)
    <2>1. PICK p, h, ok : p = Empty(q.al) /\ h = r.heap /\ ok = r.ok
      OBVIOUS
    <2>2. r.q = p
      BY <1>5, <2>1 DEF ReleaseData, Outcome
    <2>3. IsDeque(p) /\ p.len = 0
      BY <1>2, <2>1, EmptyIsDeque
    <2>4. OnRing(p) /\ p.len <= p.cap
      BY <2>3, DequeFields
    <2>5. Contents(p) = Contents(deques[d])
      BY <1>1, <1>5, <2>3, NoContents
    <2>6. Ends(c, d, p, h, ok)
      BY <1>3, <2>1, <2>2
    <2>7. Seqs' = Seqs /\ call' = Made(c, d, ok)
      BY <2>4, <2>5, <2>6, EndsSame
    <2> QED
      BY <1>1, <2>7, DoesRoom
  <1>6. CASE q.len # 0 /\ r \in Relocate(q, heap, q.len)
    <2>1. PICK cap : cap = q.len
      OBVIOUS
    <2>2. cap \in Sizes /\ cap > 0 /\ q.len <= cap
      BY <1>2, <1>6, <2>1 DEF Sizes
    <2>3. r \in Relocate(q, heap, cap)
      BY <1>6, <2>1
    <2>4. Refused(q, r) \/ Grown(q, r, cap)
      BY <1>2, <2>2, <2>3, RelocateOutcomes
    <2> QED
      BY <1>1, <1>3, <2>4, RoomDoes
  <1> QED
    BY <1>3, <1>4, <1>5, <1>6

\* A call that only reads.
LEMMA Unmoved ==
    ASSUME DequeInv, NEW d \in Names, NEW q, q = deques[d], Whole(q), NEW c, EndsOk(c, d, q), NEW ok, ok = TRUE
    PROVE  Seqs' = Seqs /\ call' = Made(c, d, ok)
  <1>1. PICK h : h = heap
    OBVIOUS
  <1>2. Ends(c, d, q, h, ok) /\ OnRing(q) /\ q.len <= q.cap /\ Contents(q) = Contents(deques[d])
    BY <1>1, WholeIs DEF EndsOk
  <1> QED
    BY <1>2, EndsSame

LEMMA GetDoes ==
    ASSUME DequeAssumption, DequeInv, NEW d \in Names, Alive(d), NEW idx \in Nat, tda_deque_get(d, idx)
    PROVE  SeqsSpec!Does(call')
  <1>1. PICK q, ok : q = deques[d] /\ Whole(q) /\ ok = TRUE
    BY AliveWhole
  <1>2. PICK out, c : out = ElemAt(q, idx) /\ c = [op |-> "get", idx |-> idx, out |-> out]
    OBVIOUS
  <1>3. idx \in 0 .. q.len - 1 /\ EndsOk(c, d, q)
    BY <1>1, <1>2, WholeIs DEF tda_deque_get
  <1>4. Seqs' = Seqs /\ call' = Made(c, d, ok)
    BY <1>1, <1>3, Unmoved
  <1>5. out = Seqs[d][idx + 1]
    BY <1>1, <1>2, <1>3, SeqsAre, WholeContents
  <1> QED
    BY <1>2, <1>4, <1>5, DoesGet

LEMMA EndsDo ==
    ASSUME DequeAssumption, DequeInv, NEW d \in Names, Alive(d), tda_deque_front(d) \/ tda_deque_back(d)
    PROVE  SeqsSpec!Does(call')
  <1>1. PICK n : n = deques[d].len /\ n \in Nat
    BY AliveDeque
  <1>2. PICK idx \in Nat : tda_deque_get(d, idx)
    BY <1>1 DEF tda_deque_front, tda_deque_back
  <1> QED
    BY <1>2, GetDoes

\* A call that answers with the elems, one after the other.
LEMMA AnswerDoes ==
    ASSUME DequeInv, NEW d \in Names, NEW q, q = deques[d], Whole(q), NEW out, out = Contents(q),
           NEW c, c = [op |-> "copy_to_span", out |-> out], EndsOk(c, d, q)
    PROVE  SeqsSpec!Does(call')
  <1>1. PICK ok : ok = TRUE
    OBVIOUS
  <1>2. Seqs' = Seqs /\ call' = Made(c, d, ok)
    BY <1>1, Unmoved
  <1>3. out = Seqs[d]
    BY SeqsAre
  <1> QED
    BY <1>2, <1>3, DoesAnswer

LEMMA CopyToSpanDoes ==
    ASSUME DequeAssumption, DequeInv, NEW d \in Names, Alive(d), tda_deque_copy_to_span(d)
    PROVE  SeqsSpec!Does(call')
  <1>1. PICK q : q = deques[d] /\ Whole(q)
    BY AliveWhole
  <1>2. PICK cap, dst : cap = q.len /\ dst = CopyOut(q, cap)
    OBVIOUS
  <1>3. PICK out, c : out = [i \in 1 .. q.len |-> dst[i - 1]] /\ c = [op |-> "copy_to_span", out |-> out]
    OBVIOUS
  <1>4. OnRing(q) /\ q.len \in Nat /\ q.len <= q.cap /\ HoldsElems(q) /\ cap \in Nat
    BY <1>1, <1>2, WholeIs
  <1>5. \A i \in 0 .. q.len - 1 : i < cap => dst[i] = ElemAt(q, i)
    BY <1>2, <1>4, CopiedOut
  <1>6. \A i \in 1 .. q.len : dst[i - 1] = ElemAt(q, i - 1)
    BY <1>2, <1>4, <1>5
  <1>7. out = Contents(q)
    BY <1>3, <1>6 DEF Contents
  <1>8. EndsOk(c, d, q)
    BY <1>1, <1>2, <1>3 DEF tda_deque_copy_to_span
  <1> QED
    BY <1>1, <1>3, <1>7, <1>8, AnswerDoes

LEMMA ToSpansDoes ==
    ASSUME DequeAssumption, DequeInv, NEW d \in Names, Alive(d), tda_deque_to_spans(d)
    PROVE  SeqsSpec!Does(call')
  <1>1. PICK q : q = deques[d] /\ Whole(q)
    BY AliveWhole
  <1>2. PICK n, m, len : n = FirstRun(q) /\ len = q.len /\ m = len - n
    OBVIOUS
  <1>3. PICK s, t : s = [i \in 1 .. n |-> q.ring[q.head + i - 1]] /\ t = [i \in 1 .. m |-> q.ring[i - 1]]
    OBVIOUS
  <1>4. PICK out, c : out = s \o t /\ c = [op |-> "copy_to_span", out |-> out]
    OBVIOUS
  <1>5. OnRing(q) /\ len \in Nat /\ q.cap \in Nat /\ len <= q.cap
    BY <1>1, <1>2, WholeIs
  <1>6. q.head \in Nat /\ q.head <= q.cap
    <2>1. PICK cap, head : cap = q.cap /\ head = q.head
      OBVIOUS
    <2>2. cap \in Nat /\ head \in Heads(cap)
      BY <1>5, <2>1 DEF OnRing
    <2>3. head \in Nat /\ (cap > 0 => head < cap) /\ (cap = 0 => head = 0)
      BY <2>2, HeadsAre
    <2> QED
      BY <2>1, <2>2, <2>3
  <1>7. n = (IF q.cap - q.head < len THEN q.cap - q.head ELSE len)
    BY <1>2 DEF FirstRun, RunFrom
  <1>8. n \in Nat /\ m \in Nat /\ len = n + m
    BY <1>2, <1>5, <1>6, <1>7
  <1>9. Long(s, n) /\ Long(t, m)
    BY <1>3, <1>8 DEF Long
  <1>10. Joins(out, len, s, n, t)
    <2>1. out = s \o t /\ len = n + m
      BY <1>4, <1>8
    <2> QED
      BY <1>9, <2>1, JoinedIs
  <1>11. ASSUME NEW i \in 0 .. len - 1 PROVE out[i + 1] = ElemAt(q, i)
    <2>1. PICK j : j = i + 1 /\ j \in 1 .. len /\ i = j - 1
      BY <1>5
    <2>2. ElemAt(q, i) = q.ring[IF i < q.cap - q.head THEN q.head + i ELSE i - (q.cap - q.head)]
      BY DEF ElemAt, SlotOf
    <2>3. CASE j <= n
      <3>1. j \in 1 .. n /\ i < q.cap - q.head /\ q.head + j - 1 = q.head + i
        BY <1>5, <1>6, <1>7, <1>8, <2>1, <2>3
      <3>2. out[j] = s[j] /\ s[j] = q.ring[q.head + j - 1]
        BY <1>3, <1>10, <3>1 DEF Joins
      <3> QED
        BY <2>1, <2>2, <3>1, <3>2
    <2>4. CASE j > n
      <3>1. /\ n = q.cap - q.head /\ ~(i < q.cap - q.head) /\ j - n \in 1 .. m
            /\ (j - n) - 1 = i - (q.cap - q.head)
        BY <1>5, <1>6, <1>7, <1>8, <2>1, <2>4
      <3>2. out[j] = t[j - n]
        BY <1>10, <2>1, <2>4 DEF Joins
      <3>3. t[j - n] = q.ring[(j - n) - 1]
        BY <1>3, <3>1
      <3> QED
        BY <2>1, <2>2, <3>1, <3>2, <3>3
    <2> QED
      BY <1>8, <2>1, <2>3, <2>4
  <1>12. Reads(q, out)
    BY <1>2, <1>5, <1>10, <1>11 DEF Reads, Joins
  <1>13. out = Contents(q)
    BY <1>12, ReadsContents
  <1>14. EndsOk(c, d, q)
    BY <1>1, <1>2, <1>3, <1>4 DEF tda_deque_to_spans
  <1> QED
    BY <1>1, <1>4, <1>13, <1>14, AnswerDoes

LEMMA FprintDoes ==
    ASSUME DequeAssumption, DequeInv, NEW d \in Names, Alive(d), tda_deque_fprint(d)
    PROVE  SeqsSpec!Does(call')
  <1>1. PICK q : q = deques[d] /\ Whole(q)
    BY AliveWhole
  <1>2. PICK out, c : out = Contents(q) /\ c = [op |-> "copy_to_span", out |-> out]
    OBVIOUS
  <1>3. EndsOk(c, d, q)
    BY <1>1, <1>2 DEF tda_deque_fprint
  <1> QED
    BY <1>1, <1>2, <1>3, AnswerDoes

\* Two deques are told apart by their elems alone, wherever their seams lie.
LEMMA EqIs ==
    ASSUME NEW a, Whole(a), NEW b, Whole(b)
    PROVE  EqImpl(a, b) <=> Contents(a) = Contents(b)
  <1>1. PICK s, t, n, m : s = Contents(a) /\ t = Contents(b) /\ n = a.len /\ m = b.len
    OBVIOUS
  <1>2. n \in Nat /\ Len(s) = n /\ \A i \in 0 .. n - 1 : s[i + 1] = ElemAt(a, i)
    BY <1>1, WholeContents
  <1>3. m \in Nat /\ Len(t) = m /\ \A i \in 0 .. m - 1 : t[i + 1] = ElemAt(b, i)
    BY <1>1, WholeContents
  <1>4. EqImpl(a, b) => s = t
    <2>1. SUFFICES ASSUME EqImpl(a, b) PROVE s = t
      OBVIOUS
    <2>2. b.len = a.len /\ a.len \in Nat /\ \A i \in 0 .. a.len - 1 : ElemAt(b, i) = ElemAt(a, i)
      BY <1>1, <1>2, <2>1 DEF EqImpl
    <2> QED
      BY <1>1, <2>2, SameContents
  <1>5. s = t => EqImpl(a, b)
    <2>1. SUFFICES ASSUME s = t PROVE EqImpl(a, b)
      OBVIOUS
    <2>2. n = m
      BY <1>2, <1>3, <2>1
    <2>3. \A i \in 0 .. n - 1 : ElemAt(a, i) = ElemAt(b, i)
      BY <1>2, <1>3, <2>1, <2>2
    <2> QED
      BY <1>1, <2>2, <2>3 DEF EqImpl
  <1> QED
    BY <1>1, <1>4, <1>5

LEMMA EqDoes ==
    ASSUME DequeAssumption, DequeInv, NEW d \in Names, NEW e \in Names, tda_deque_eq(d, e)
    PROVE  SeqsSpec!Does(call')
  <1>1. Alive(d) /\ Alive(e)
    BY DEF tda_deque_eq
  <1>2. PICK q, p, ok : q = deques[d] /\ p = deques[e] /\ ok = TRUE
    OBVIOUS
  <1>3. Whole(q) /\ Whole(p)
    BY <1>1, <1>2, AliveWhole
  <1>4. PICK out, c : out = (d = e \/ EqImpl(q, p)) /\ c = [op |-> "eq", from |-> e, out |-> out]
    OBVIOUS
  <1>5. EndsOk(c, d, q)
    BY <1>2, <1>4 DEF tda_deque_eq
  <1>6. Seqs' = Seqs /\ call' = Made(c, d, ok)
    BY <1>2, <1>3, <1>5, Unmoved
  <1>7. EqImpl(q, p) <=> Contents(q) = Contents(p)
    BY <1>3, EqIs
  <1>8. Seqs[d] = Contents(q) /\ Seqs[e] = Contents(p)
    BY <1>2, SeqsAre
  <1>9. (d = e \/ EqImpl(q, p)) <=> Seqs[d] = Seqs[e]
    BY <1>7, <1>8
  <1>10. out = (Seqs[d] = Seqs[e])
    BY <1>4, <1>9, Zenon
  <1> QED
    BY <1>4, <1>6, <1>10, DoesEq

\* A walk has met the elems from the first on, in their order: all of them after n turns, or
\* those up to the one it broke off at.
Met(q, t, n, stop) ==
    /\ Walked(q, t) /\ Long(t.met, t.idx) /\ (t.brk \/ t.idx = n) /\ (stop = {} => ~t.brk)
    /\ \A i \in 0 .. t.idx - 1 : t.met[i + 1] = ElemAt(q, i)

LEMMA MetTurn ==
    ASSUME NEW q, Whole(q), NEW stop, NEW n \in 0 .. q.len - 1, NEW m, m = n + 1, NEW t, Met(q, t, n, stop)
    PROVE  Met(q, WalkTurn(t, stop), m, stop)
  <1>1. q.len \in Nat /\ t.q = q /\ Walked(q, WalkTurn(t, stop)) /\ Walked(q, t)
    BY WholeIs, WalkTurnKeeps DEF Met, Walked
  <1>2. CASE t.brk
    <2>1. WalkTurn(t, stop) = t
      BY <1>2 DEF WalkTurn
    <2> QED
      BY <1>2, <2>1 DEF Met
  <1>3. CASE ~t.brk
    <2>1. t.idx = n /\ n \in Nat /\ ~(t.idx >= t.q.len)
      BY <1>1, <1>3 DEF Met
    <2>2. PICK x, s, met, brk : /\ x = ElemAt(q, n) /\ s = t.met /\ met = Append(s, x) /\ brk = (x \in stop)
      OBVIOUS
    <2>3. WalkTurn(t, stop) = [t EXCEPT !.met = met, !.brk = brk, !.idx = m]
      BY <1>1, <1>3, <2>1, <2>2 DEF WalkTurn
    <2>4. PICK u : u = WalkTurn(t, stop)
      OBVIOUS
    <2>5. u = [q |-> q, met |-> met, brk |-> brk, idx |-> m]
      BY <1>1, <2>3, <2>4 DEF Walked
    <2>6. u.met = met /\ u.idx = m /\ u.brk = brk
      BY <2>5
    <2>7. Long(s, n)
      BY <2>1, <2>2 DEF Met
    <2>8. EndsIn(met, m, s, n, x)
      BY <2>2, <2>7, AppendedIs
    <2>9. Long(met, m) /\ met[m] = x /\ \A i \in 1 .. n : met[i] = s[i]
      BY <2>8 DEF EndsIn
    <2>10. ASSUME NEW i \in 0 .. m - 1 PROVE met[i + 1] = ElemAt(q, i)
      <3>1. CASE i = n
        BY <2>2, <2>9, <3>1
      <3>2. CASE i # n
        <4>1. i \in 0 .. n - 1 /\ i + 1 \in 1 .. n
          BY <2>1, <3>2
        <4>2. s[i + 1] = ElemAt(q, i)
          BY <2>1, <2>2, <4>1 DEF Met
        <4> QED
          BY <2>9, <4>1, <4>2
      <3> QED
        BY <3>1, <3>2
    <2>11. stop = {} => ~brk
      BY <2>2
    <2> QED
      BY <1>1, <2>4, <2>6, <2>9, <2>10, <2>11 DEF Met
  <1> QED
    BY <1>2, <1>3

LEMMA WalkMeets ==
    ASSUME NEW q, Whole(q), NEW stop
    PROVE  Met(q, Walk(q, stop), q.len, stop)
  <1> DEFINE f == CHOOSE f : Walks(f, q.len, q, stop)
             base == [q |-> q, met |-> <<>>, brk |-> FALSE, idx |-> 0]
             T == {i \in Nat : i <= q.len /\ ~Met(q, f[i], i, stop)}
  <1>1. q.len \in Nat
    BY WholeIs
  <1>2. Walks(f, q.len, q, stop)
    BY <1>1, WalksExist
  <1>3. Walk(q, stop) = f[q.len]
    BY DEF Walk, Walks
  <1> HIDE DEF f
  <1>4. Met(q, base, 0, stop)
    <2>1. Long(<<>>, 0)
      BY NoneLong
    <2> QED
      BY <1>1, <2>1 DEF Met, Walked
  <1> HIDE DEF base
  <1>5. \A i \in 0 .. q.len : f[i] = IF i = 0 THEN base ELSE WalkTurn(f[i - 1], stop)
    BY <1>2 DEF Walks, base
  <1>6. T = {}
    <2>1. SUFFICES ASSUME T # {} PROVE FALSE
      OBVIOUS
    <2>2. PICK i \in T : \A j \in T : i <= j
      BY <2>1, LeastNat
    <2>3. i \in 0 .. q.len /\ ~Met(q, f[i], i, stop)
      BY <1>1
    <2>4. i # 0
      BY <1>1, <1>4, <1>5, <2>3
    <2>5. PICK j \in Nat : i = j + 1 /\ j = i - 1 /\ j \in 0 .. q.len - 1
      BY <1>1, <2>3, <2>4
    <2>6. Met(q, f[j], j, stop)
      BY <1>1, <2>2, <2>5
    <2>7. f[i] = WalkTurn(f[j], stop)
      BY <1>5, <2>3, <2>4, <2>5
    <2>8. PICK t : t = f[j]
      OBVIOUS
    <2> QED
      BY <2>3, <2>5, <2>6, <2>7, <2>8, MetTurn
  <1> QED
    BY <1>1, <1>3, <1>6

LEMMA ForEachDoes ==
    ASSUME DequeAssumption, DequeInv, NEW d \in Names, Alive(d), TDA_DEQUE_FOR_EACH_AS(d)
    PROVE  SeqsSpec!Does(call')
  <1>1. PICK q : q = deques[d] /\ Whole(q)
    BY AliveWhole
  <1>2. PICK stop, t, out, c : /\ stop = {} /\ t = Walk(q, stop) /\ out = t.met
                               /\ c = [op |-> "copy_to_span", out |-> out]
    OBVIOUS
  <1>3. Met(q, t, q.len, stop)
    BY <1>1, <1>2, WalkMeets
  <1>4. t.idx = q.len
    BY <1>2, <1>3 DEF Met
  <1>5. Reads(q, out)
    BY <1>1, <1>2, <1>3, <1>4, WholeIs DEF Met, Reads
  <1>6. out = Contents(q)
    BY <1>5, ReadsContents
  <1>7. EndsOk(c, d, q)
    BY <1>1, <1>2 DEF TDA_DEQUE_FOR_EACH_AS
  <1> QED
    BY <1>1, <1>2, <1>6, <1>7, AnswerDoes

LEMMA ForEachMutDoes ==
    ASSUME DequeAssumption, DequeInv, NEW d \in Names, Alive(d), NEW e, NEW v \in Vals(deques[d]), ~v.alias,
           TDA_DEQUE_FOR_EACH_MUT_AS(d, e, v)
    PROVE  SeqsSpec!Does(call')
  <1>1. PICK q : q = deques[d] /\ Whole(q)
    BY AliveWhole
  <1>2. PICK stop, t : stop = {e} /\ t = Walk(q, stop)
    OBVIOUS
  <1>3. Met(q, t, q.len, stop)
    BY <1>1, <1>2, WalkMeets
  <1>4. Walked(q, t) /\ Len(t.met) = t.idx
    BY <1>3, LongIs DEF Met
  <1>5. PICK idx : idx = t.idx - 1
    OBVIOUS
  <1>6. PICK c : c = [op |-> "set", idx |-> idx, val |-> v]
    OBVIOUS
  <1>7. t.brk /\ EndsOk(c, d, [t.q EXCEPT !.ring[SlotOf(t.q, t.idx - 1)] = v.at])
    BY <1>1, <1>2, <1>4, <1>5, <1>6 DEF TDA_DEQUE_FOR_EACH_MUT_AS
  <1>8. t.q = q /\ idx \in 0 .. q.len - 1
    BY <1>1, <1>4, <1>5, <1>7, WholeIs DEF Walked
  <1>9. PICK x : x = v.at /\ x \in Elem
    BY DEF Vals
  <1>10. x = SeqsSpec!ValOf(d, v)
    BY <1>1, <1>9, ValIs
  <1>11. PICK p : p = WithSlot(q, SlotOf(q, idx), x)
    OBVIOUS
  <1>12. EndsOk(c, d, p)
    BY <1>5, <1>7, <1>8, <1>9, <1>11 DEF WithSlot
  <1> QED
    BY <1>1, <1>6, <1>8, <1>9, <1>10, <1>11, <1>12, SetOneDoes

\* The loop of Kept.
Keeping(g, n, s, keep) ==
    g = [i \in 0 .. n |-> IF i = 0 THEN <<>> ELSE IF s[i] \in keep THEN Append(g[i - 1], s[i]) ELSE g[i - 1]]

\* one elem more, kept or not
KeptNext(t, x, keep) == IF x \in keep THEN Append(t, x) ELSE t

LEMMA KeepingExists ==
    ASSUME NEW s, NEW keep, NEW k \in Nat
    PROVE  \E g : Keeping(g, k, s, keep)
  <1> DEFINE T == {n \in Nat : ~ \E g : Keeping(g, n, s, keep)}
  <1>1. SUFFICES ASSUME T # {} PROVE FALSE
    OBVIOUS
  <1>2. PICK n \in T : \A m \in T : n <= m
    BY <1>1, LeastNat
  <1>3. n # 0
    <2>1. PICK g : g = [i \in 0 .. 0 |-> <<>>]
      OBVIOUS
    <2>2. Keeping(g, 0, s, keep)
      BY <2>1 DEF Keeping
    <2> QED
      BY <2>2
  <1>4. PICK f : Keeping(f, n - 1, s, keep)
    <2>1. n - 1 \in Nat /\ ~(n <= n - 1)
      BY <1>3
    <2> QED
      BY <1>2, <2>1
  <1>5. f = [i \in 0 .. n - 1 |-> IF i = 0 THEN <<>> ELSE KeptNext(f[i - 1], s[i], keep)]
    BY <1>4 DEF Keeping, KeptNext
  <1> DEFINE g == [i \in 0 .. n |-> IF i < n THEN f[i] ELSE KeptNext(f[n - 1], s[n], keep)]
  <1>6. \A i \in 0 .. n - 1 : g[i] = f[i]
    BY <1>3
  <1>7. g[n] = KeptNext(f[n - 1], s[n], keep)
    BY <1>3
  <1>8. ASSUME NEW i \in 0 .. n
        PROVE  g[i] = IF i = 0 THEN <<>> ELSE KeptNext(g[i - 1], s[i], keep)
    <2>1. CASE i = n
      BY <1>3, <1>6, <1>7, <2>1
    <2>2. CASE i # n
      <3>1. i \in 0 .. n - 1 /\ (i # 0 => i - 1 \in 0 .. n - 1)
        BY <1>3, <2>2
      <3>2. f[i] = IF i = 0 THEN <<>> ELSE KeptNext(f[i - 1], s[i], keep)
        BY <1>5, <3>1
      <3> HIDE DEF g
      <3> QED
        BY <1>6, <3>1, <3>2
    <2> QED
      BY <2>1, <2>2
  <1>9. g = [i \in 0 .. n |-> g[i]]
    OBVIOUS
  <1> HIDE DEF g
  <1>10. g = [i \in 0 .. n |-> IF i = 0 THEN <<>> ELSE KeptNext(g[i - 1], s[i], keep)]
    BY <1>8, <1>9
  <1>11. Keeping(g, n, s, keep)
    BY <1>10 DEF Keeping, KeptNext
  <1> QED
    BY <1>2, <1>11

\* after i turns the loop of retain has t at the front, and the elems from i on where they were
Keeps(q, p, i, t) ==
    /\ Retained(q, p, i) /\ Long(t, p.kept)
    /\ \A j \in 0 .. p.kept - 1 : t[j + 1] = ElemAt(p.q, j)
    /\ \A j \in i .. q.len - 1 : ElemAt(p.q, j) = ElemAt(q, j)

LEMMA KeepsStep ==
    ASSUME NEW q, Whole(q), NEW keep, NEW i \in 0 .. q.len - 1, NEW k, k = i + 1, NEW p, NEW t, Keeps(q, p, i, t),
           NEW u, u = KeptNext(t, ElemAt(q, i), keep), NEW r, r = RetainStep(p, i, keep)
    PROVE  Keeps(q, r, k, u)
  <1>1. q.len \in Nat /\ q.cap \in Nat /\ q.len <= q.cap /\ Retained(q, p, i)
    BY WholeIs DEF Keeps
  <1>2. Retained(q, r, k)
    BY <1>1, RetainStepKeeps
  <1>3. PICK b, n, x : b = p.q /\ n = p.kept /\ x = ElemAt(b, i)
    OBVIOUS
  <1>4. b.len = q.len /\ n \in 0 .. i /\ n \in Nat /\ Whole(b) /\ i \in 0 .. b.len - 1
    BY <1>1, <1>3 DEF Retained
  <1>5. /\ Long(t, n) /\ (\A j \in 0 .. n - 1 : t[j + 1] = ElemAt(b, j))
        /\ (\A j \in i .. q.len - 1 : ElemAt(b, j) = ElemAt(q, j)) /\ x = ElemAt(q, i)
    BY <1>1, <1>3 DEF Keeps
  <1>6. CASE x \notin keep
    <2>1. r = p /\ u = t
      BY <1>3, <1>5, <1>6 DEF RetainStep, KeptNext
    <2>2. \A j \in k .. q.len - 1 : ElemAt(b, j) = ElemAt(q, j)
      BY <1>1, <1>5
    <2> QED
      BY <1>2, <1>3, <1>5, <2>1, <2>2 DEF Keeps
  <1>7. CASE x \in keep
    <2>1. PICK m, l : m = WithSlot(b, SlotOf(b, n), x) /\ l = n + 1
      OBVIOUS
    <2>2. r.q = m /\ r.kept = l
      BY <1>3, <1>7, <2>1 DEF RetainStep, MoveElem, WithSlot
    <2>3. n \in 0 .. b.len - 1
      BY <1>1, <1>4
    <2>4. x \in Elem
      BY <1>3, <1>4 DEF Whole, HoldsElems
    <2>5. Sets(b, m, n, x)
      BY <1>4, <2>1, <2>3, <2>4, SetSound
    <2>6. u = Append(t, x)
      BY <1>5, <1>7 DEF KeptNext
    <2>7. EndsIn(u, l, t, n, x)
      BY <1>5, <2>1, <2>6, AppendedIs
    <2>8. Long(u, l) /\ u[l] = x /\ \A j \in 1 .. n : u[j] = t[j]
      BY <2>7 DEF EndsIn
    <2>9. ASSUME NEW j \in 0 .. l - 1 PROVE u[j + 1] = ElemAt(m, j)
      <3>1. j \in 0 .. b.len - 1
        BY <1>1, <1>4, <2>1
      <3>2. ElemAt(m, j) = IF j = n THEN x ELSE ElemAt(b, j)
        BY <2>5, <3>1 DEF Sets
      <3>3. CASE j = n
        BY <2>1, <2>8, <3>2, <3>3
      <3>4. CASE j # n
        <4>1. j \in 0 .. n - 1 /\ j + 1 \in 1 .. n
          BY <1>4, <2>1, <3>4
        <4> QED
          BY <1>5, <2>8, <3>2, <3>4, <4>1
      <3> QED
        BY <3>3, <3>4
    <2>10. ASSUME NEW j \in k .. q.len - 1 PROVE ElemAt(m, j) = ElemAt(q, j)
      <3>1. j \in 0 .. b.len - 1 /\ j # n /\ j \in i .. q.len - 1
        BY <1>1, <1>4
      <3> QED
        BY <1>5, <2>5, <3>1 DEF Sets
    <2> QED
      BY <1>2, <2>2, <2>8, <2>9, <2>10 DEF Keeps
  <1> QED
    BY <1>6, <1>7

LEMMA LoopKeeps ==
    ASSUME NEW q, Whole(q), NEW keep, NEW s, s = Contents(q)
    PROVE  Keeps(q, RetainLoop(q, keep), q.len, SeqsSpec!Kept(s, keep))
  <1> DEFINE f == CHOOSE f : Retains(f, q.len, q, keep)
             g == CHOOSE g : Keeping(g, q.len, s, keep)
             base == [q |-> q, kept |-> 0]
             T == {i \in Nat : i <= q.len /\ ~Keeps(q, f[i], i, g[i])}
  <1>1. q.len \in Nat /\ q.cap \in Nat /\ InPlace(q, q)
    BY WholeIs, InPlaceItself
  <1>2. Len(s) = q.len /\ \A i \in 0 .. q.len - 1 : s[i + 1] = ElemAt(q, i)
    BY WholeContents
  <1>3. Retains(f, q.len, q, keep) /\ Keeping(g, q.len, s, keep)
    BY <1>1, RetainsExist, KeepingExists
  <1>4. RetainLoop(q, keep) = f[q.len]
    BY DEF RetainLoop, Retains
  <1>5. SeqsSpec!Kept(s, keep) = g[q.len]
    BY <1>2 DEF SeqsSpec!Kept, Keeping
  <1> HIDE DEF f, g
  <1>6. base.q = q /\ base.kept = 0
    OBVIOUS
  <1> HIDE DEF base
  <1>7. \A i \in 0 .. q.len : f[i] = IF i = 0 THEN base ELSE RetainStep(f[i - 1], i - 1, keep)
    BY <1>3 DEF Retains, base
  <1>8. \A i \in 0 .. q.len : g[i] = IF i = 0 THEN <<>> ELSE KeptNext(g[i - 1], s[i], keep)
    BY <1>3 DEF Keeping, KeptNext
  <1>9. Keeps(q, base, 0, <<>>)
    <2>1. Retained(q, base, 0)
      BY <1>1, <1>6 DEF Retained
    <2>2. Long(<<>>, 0)
      BY NoneLong
    <2> QED
      BY <1>1, <1>6, <2>1, <2>2 DEF Keeps
  <1>10. T = {}
    <2>1. SUFFICES ASSUME T # {} PROVE FALSE
      OBVIOUS
    <2>2. PICK i \in T : \A j \in T : i <= j
      BY <2>1, LeastNat
    <2>3. i \in 0 .. q.len /\ ~Keeps(q, f[i], i, g[i])
      BY <1>1
    <2>4. i # 0
      <3>1. SUFFICES ASSUME i = 0 PROVE FALSE
        OBVIOUS
      <3>2. f[i] = base /\ g[i] = <<>>
        BY <1>7, <1>8, <2>3, <3>1
      <3> QED
        BY <1>9, <2>3, <3>1, <3>2
    <2>5. PICK j \in Nat : i = j + 1 /\ j = i - 1 /\ j \in 0 .. q.len - 1
      BY <1>1, <2>3, <2>4
    <2>6. Keeps(q, f[j], j, g[j])
      BY <1>1, <2>2, <2>5
    <2>7. f[i] = RetainStep(f[j], j, keep)
      BY <1>7, <2>3, <2>4, <2>5
    <2>8. g[i] = KeptNext(g[j], ElemAt(q, j), keep)
      BY <1>2, <1>8, <2>3, <2>4, <2>5
    <2>9. PICK p, t, r, u : p = f[j] /\ t = g[j] /\ r = f[i] /\ u = g[i]
      OBVIOUS
    <2>10. Keeps(q, r, i, u)
      BY <2>5, <2>6, <2>7, <2>8, <2>9, KeepsStep
    <2> QED
      BY <2>3, <2>9, <2>10
  <1> QED
    BY <1>1, <1>4, <1>5, <1>10

LEMMA RetainDoes ==
    ASSUME DequeAssumption, DequeInv, NEW d \in Names, Alive(d), NEW keep, tda_deque_retain(d, keep)
    PROVE  SeqsSpec!Does(call')
  <1>1. PICK q, ok : q = deques[d] /\ Whole(q) /\ ok = TRUE
    BY AliveWhole
  <1>2. PICK r, s, t : r = RetainLoop(q, keep) /\ s = Contents(q) /\ t = SeqsSpec!Kept(s, keep)
    OBVIOUS
  <1>3. Keeps(q, r, q.len, t)
    BY <1>1, <1>2, LoopKeeps
  <1>4. PICK b, n : b = r.q /\ n = r.kept
    OBVIOUS
  <1>5. b.len = q.len /\ n \in 0 .. b.len /\ n \in Nat /\ Whole(b) /\ OnRing(b)
    BY <1>3, <1>4 DEF Keeps, Retained, Whole
  <1>6. PICK p, c : p = WithLen(b, n) /\ c = [op |-> "retain", keep |-> keep]
    OBVIOUS
  <1>7. Sound(b, p) /\ p.len = n /\ \A i \in 0 .. n - 1 : ElemAt(p, i) = ElemAt(b, i)
    BY <1>5, <1>6, Shortened
  <1>8. Reads(p, t)
    BY <1>3, <1>4, <1>5, <1>7 DEF Keeps, Reads
  <1>9. Contents(p) = t
    BY <1>8, ReadsContents
  <1>10. EndsOk(c, d, p)
    BY <1>1, <1>2, <1>4, <1>6 DEF tda_deque_retain, WithLen
  <1>11. Ended(c, d, ok, t)
    BY <1>1, <1>5, <1>7, <1>9, <1>10, SoundOkServed
  <1>12. Ended(c, d, ok, SeqsSpec!Kept(Seqs[d], keep)) /\ ok
    BY <1>1, <1>2, <1>11, SeqsAre
  <1> QED
    BY <1>6, <1>12, DoesRetain

\* What init_impl leaves in 'out' is the sequence it is given, t, or what was there if it is refused.
LEMMA InitImplServed ==
    ASSUME DequeAssumption, DequeInv, NEW d \in Names, NEW al \in Als, NEW len \in Nat,
           NEW cap \in Sizes, len <= cap, NEW ring \in [0 .. cap - 1 -> Slot], NEW t, Long(t, len),
           \A i \in 0 .. len - 1 : t[i + 1] = ring[i], NEW r \in InitImpl(al, heap, len, cap, ring),
           NEW c, NEW ok, ok = r.ok, Ends(c, d, IF r.ok THEN r.q ELSE deques[d], r.heap, ok)
    PROVE  Ended(c, d, ok, t)
  <1>1. PICK h : h = r.heap
    OBVIOUS
  <1>2. cap \in Nat
    BY DEF Sizes, DequeAssumption
  <1>3. PICK q, nil : nil = Empty(al) /\ q = WithLen(nil, len)
    OBVIOUS
  <1>4. IsDeque(nil) /\ OnRing(nil) /\ nil.len = 0 /\ nil.len <= nil.cap
    BY <1>3, EmptyIsDeque, DequeFields
  <1>5. InPlace(nil, q) /\ q.len = len
    BY <1>3, <1>4, LenChanges
  <1>6. Shaped(q)
    BY <1>5 DEF InPlace
  <1>7. CASE ~r.ok
    <2>1. ~ok /\ Ends(c, d, deques[d], h, ok)
      BY <1>1, <1>7
    <2> QED
      BY <2>1, EndsRefused
  <1>8. CASE cap = 0 /\ r = Outcome(q, heap, TRUE)
    <2>1. r.q = q /\ r.ok = TRUE /\ len = 0
      BY <1>2, <1>8 DEF Outcome
    <2>2. q = nil
      BY <1>3, <1>4, <2>1 DEF WithLen, OnRing, Shaped
    <2>3. ok /\ Ends(c, d, nil, h, ok)
      BY <1>1, <2>1, <2>2
    <2>4. t = Contents(nil)
      BY <1>4, <2>1, NoneLong, NoContents
    <2> QED
      BY <1>4, <2>3, <2>4, EndsServed
  <1>9. CASE cap # 0 /\ OnNewBlock(q, r, cap, ring)
    <2>1. PICK p : p = r.q
      OBVIOUS
    <2>2. r.ok /\ Shaped(p) /\ p.cap = cap /\ p.head = 0 /\ p.len = len /\ p.ring = ring
      BY <1>5, <1>9, <2>1 DEF OnNewBlock
    <2>3. 0 \in Heads(cap)
      BY <1>2, HeadFits
    <2>4. OnRing(p) /\ p.len <= p.cap
      BY <1>2, <2>2, <2>3 DEF OnRing
    <2>5. ASSUME NEW i \in 0 .. p.len - 1 PROVE t[i + 1] = ElemAt(p, i)
      <3>1. SlotOf(p, i) = i
        BY <1>2, <2>2 DEF SlotOf
      <3> QED
        BY <2>2, <3>1 DEF ElemAt
    <2>6. Reads(p, t)
      BY <2>2, <2>5 DEF Reads
    <2>7. t = Contents(p)
      BY <2>6, ReadsContents
    <2>8. ok /\ Ends(c, d, p, h, ok)
      BY <1>1, <2>1, <2>2
    <2> QED
      BY <2>4, <2>7, <2>8, EndsServed
  <1>10. \/ cap = 0 /\ r = Outcome(q, heap, TRUE)
         \/ r = Outcome(q, heap, FALSE)
         \/ cap # 0 /\ r \in Replaced(q, heap, cap, ring)
    BY <1>3 DEF InitImpl, WithLen
  <1>11. CASE r = Outcome(q, heap, FALSE)
    BY <1>7, <1>11 DEF Outcome
  <1>12. CASE cap # 0 /\ r \in Replaced(q, heap, cap, ring)
    <2>1. Refused(q, r) \/ OnNewBlock(q, r, cap, ring)
      BY <1>6, <1>12, ReplacedOutcomes
    <2> QED
      BY <1>7, <1>9, <1>12, <2>1 DEF Refused
  <1> QED
    BY <1>8, <1>10, <1>11, <1>12

LEMMA MakeDoes ==
    ASSUME DequeAssumption, DequeInv, NEW d \in Names, NEW al \in Als, NEW src \in Spans, NEW cap \in Sizes,
           tda_deque_make(d, al, src, cap)
    PROVE  SeqsSpec!Does(call')
  <1>1. PICK n : n = Len(src) /\ n \in Nat /\ src \in [1 .. n -> Elem]
    BY SpansAre
  <1>2. PICK ring, c : /\ ring = [s \in 0 .. cap - 1 |-> IF s < n THEN src[s + 1] ELSE Garbage]
                       /\ c = [op |-> "make", src |-> src]
    OBVIOUS
  <1>3. n <= cap /\ \E r \in InitImpl(al, heap, n, cap, ring) :
                        Ends(c, d, IF r.ok THEN r.q ELSE deques[d], r.heap, r.ok)
    BY <1>1, <1>2 DEF tda_deque_make
  <1>4. PICK r \in InitImpl(al, heap, n, cap, ring) : Ends(c, d, IF r.ok THEN r.q ELSE deques[d], r.heap, r.ok)
    BY <1>3
  <1>5. cap \in Nat
    BY DEF Sizes, DequeAssumption
  <1>6. ASSUME NEW s \in 0 .. cap - 1, s < n PROVE ring[s] = src[s + 1] /\ ring[s] \in Elem
    <2>1. s + 1 \in 1 .. n
      BY <1>1, <1>6
    <2> QED
      BY <1>1, <1>2, <1>6, <2>1
  <1>7. ring \in [0 .. cap - 1 -> Slot]
    BY <1>2, <1>6 DEF Slot
  <1>8. \A i \in 0 .. n - 1 : src[i + 1] = ring[i]
    BY <1>1, <1>3, <1>5, <1>6
  <1>9. Long(src, n)
    BY <1>1 DEF Long
  <1>10. PICK ok : ok = r.ok
    OBVIOUS
  <1>11. Ended(c, d, ok, src)
    BY <1>1, <1>3, <1>4, <1>7, <1>8, <1>9, <1>10, InitImplServed
  <1> QED
    BY <1>2, <1>11, DoesMake

LEMMA CopyWithDoes ==
    ASSUME DequeAssumption, DequeInv, NEW d \in Names, NEW al \in Als, NEW e \in Names, tda_deque_copy_with(d, al, e)
    PROVE  SeqsSpec!Does(call')
  <1>1. Alive(e)
    BY DEF tda_deque_copy_with
  <1>2. PICK q, c : q = deques[e] /\ c = [op |-> "copy", from |-> e]
    OBVIOUS
  <1>3. IsDeque(q) /\ Whole(q) /\ q.cap \in Nat /\ q.cap <= SizeMax /\ SizeMax \in Nat
    BY <1>1, <1>2, AliveDeque, AliveWhole, DequeFields
  <1>4. PICK len \in Nat : len = q.len
    BY <1>3, WholeIs
  <1>5. len \in Sizes /\ len <= len
    BY <1>3, <1>4, WholeIs DEF Sizes
  <1>6. PICK ring, t : ring = CopyOut(q, len) /\ t = Contents(q)
    OBVIOUS
  <1>7. OnRing(q) /\ q.len <= q.cap /\ HoldsElems(q)
    BY <1>3, WholeIs
  <1>8. /\ ring \in [0 .. len - 1 -> Slot]
        /\ \A i \in 0 .. q.len - 1 : i < len => ring[i] = ElemAt(q, i)
    BY <1>6, <1>7, CopiedOut
  <1>9. Long(t, len) /\ \A i \in 0 .. len - 1 : t[i + 1] = ElemAt(q, i)
    BY <1>3, <1>4, <1>6, WholeContents
  <1>10. \A i \in 0 .. len - 1 : t[i + 1] = ring[i]
    BY <1>4, <1>8, <1>9
  <1>11. PICK r \in InitImpl(al, heap, len, len, ring) :
            Ends(c, d, IF r.ok THEN r.q ELSE deques[d], r.heap, r.ok)
    BY <1>2, <1>4, <1>6 DEF tda_deque_copy_with
  <1>12. PICK ok : ok = r.ok
    OBVIOUS
  <1>13. Ended(c, d, ok, t)
    BY <1>5, <1>8, <1>9, <1>10, <1>11, <1>12, InitImplServed
  <1>14. Ended(c, d, ok, Seqs[e])
    BY <1>2, <1>6, <1>13, SeqsAre
  <1> QED
    BY <1>2, <1>14, DoesCopy

\* The elems of another deque, on whatever block there is for them.
LEMMA FilledServed ==
    ASSUME DequeInv, NEW d \in Names, NEW p, Whole(p), NEW q, OnRing(q), p.len <= q.cap, NEW o, o = Filled(q, p),
           NEW c, NEW h, NEW ok, ok, Ends(c, d, o, h, ok), NEW t, t = Contents(p)
    PROVE  Ended(c, d, ok, t)
  <1>1. Sound(q, o) /\ o.len = p.len /\ \A i \in 0 .. o.len - 1 : ElemAt(o, i) = ElemAt(p, i)
    BY FilledIs
  <1>2. p.len \in Nat /\ \A i \in 0 .. p.len - 1 : ElemAt(o, i) = ElemAt(p, i)
    BY <1>1, WholeIs
  <1>3. Contents(o) = t
    BY <1>1, <1>2, SameContents
  <1> QED
    BY <1>1, <1>3, SoundServed

LEMMA CopyAssignDoes ==
    ASSUME DequeAssumption, DequeInv, NEW d \in Names, NEW e \in Names, tda_deque_copy_assign(d, e)
    PROVE  SeqsSpec!Does(call')
  <1>1. Alive(d) /\ Alive(e)
    BY DEF tda_deque_copy_assign
  <1>2. PICK q, p : q = deques[d] /\ p = deques[e]
    OBVIOUS
  <1>3. PICK c : c = [op |-> "copy", from |-> e]
    OBVIOUS
  <1>4. PICK r \in IF d = e THEN {Outcome(q, heap, TRUE)}
                   ELSE IF p.len <= q.cap THEN {Outcome(q, heap, TRUE)}
                   ELSE Replaced(q, heap, p.len, Blank(p.len)) :
              Ends(c, d, IF d = e \/ ~r.ok THEN q ELSE Filled(r.q, p), r.heap, r.ok)
    BY <1>2, <1>3 DEF tda_deque_copy_assign, Filled
  <1>5. Whole(q) /\ OnRing(q) /\ Shaped(q) /\ q.cap \in Nat /\ q.len <= q.cap
    BY <1>1, <1>2, AliveDeque, AliveWhole DEF OnRing
  <1>6. Whole(p) /\ p.len \in Nat
    BY <1>1, <1>2, AliveWhole, WholeIs
  <1>7. PICK ok, h, t : ok = r.ok /\ h = r.heap /\ t = Contents(p)
    OBVIOUS
  <1>8. CASE d = e
    <2>1. r = Outcome(q, heap, TRUE)
      BY <1>4, <1>8
    <2>2. r.ok = TRUE
      BY <2>1 DEF Outcome
    <2>3. ok /\ Ends(c, d, q, h, ok) /\ t = Contents(q)
      BY <1>2, <1>4, <1>7, <1>8, <2>2
    <2>4. Ended(c, d, ok, t)
      BY <1>5, <2>3, EndsServed
    <2>5. Ended(c, d, ok, Seqs[e])
      BY <1>2, <1>7, <2>4, SeqsAre
    <2> QED
      BY <1>3, <2>5, DoesCopy
  <1>9. CASE d # e
    <2>1. Ended(c, d, ok, t)
      <3>1. CASE ~r.ok
        <4>1. ~ok /\ Ends(c, d, deques[d], h, ok)
          BY <1>2, <1>4, <1>7, <3>1
        <4> QED
          BY <4>1, EndsRefused
      <3>2. CASE r.ok /\ OnRing(r.q) /\ p.len <= r.q.cap
        <4>1. PICK g, o : g = r.q /\ o = Filled(g, p)
          OBVIOUS
        <4>2. ok /\ Ends(c, d, o, h, ok) /\ OnRing(g) /\ p.len <= g.cap
          BY <1>4, <1>7, <1>9, <3>2, <4>1
        <4> QED
          BY <1>6, <1>7, <4>1, <4>2, FilledServed
      <3>3. CASE p.len <= q.cap
        <4>1. r = Outcome(q, heap, TRUE)
          BY <1>4, <1>9, <3>3
        <4>2. r.ok = TRUE /\ r.q = q
          BY <4>1 DEF Outcome
        <4> QED
          BY <1>5, <3>2, <3>3, <4>2
      <3>4. CASE ~(p.len <= q.cap)
        <4>1. PICK cap : cap = p.len
          OBVIOUS
        <4>2. r \in Replaced(q, heap, cap, Blank(cap))
          BY <1>4, <1>9, <3>4, <4>1
        <4>3. Refused(q, r) \/ OnNewBlock(q, r, cap, Blank(cap))
          BY <1>5, <4>2, ReplacedOutcomes
        <4>4. CASE Refused(q, r)
          BY <3>1, <4>4 DEF Refused
        <4>5. CASE OnNewBlock(q, r, cap, Blank(cap))
          <5>1. PICK g : g = r.q
            OBVIOUS
          <5>2. /\ r.ok /\ Shaped(g) /\ g.cap = cap /\ g.head = 0 /\ g.len = q.len /\ g.ring = Blank(cap)
                /\ cap \in Nat /\ q.len \in Nat
            BY <1>5, <1>6, <4>1, <4>5, <5>1, WholeIs DEF OnNewBlock
          <5>3. 0 \in Heads(cap)
            BY <5>2, HeadFits
          <5>4. Blank(cap) \in [0 .. cap - 1 -> Slot]
            BY DEF Blank, Slot
          <5>5. OnRing(g)
            BY <5>2, <5>3, <5>4 DEF OnRing
          <5>6. p.len <= g.cap
            BY <1>6, <4>1, <5>2
          <5> QED
            BY <3>2, <5>1, <5>2, <5>5, <5>6
        <4> QED
          BY <4>3, <4>4, <4>5
      <3> QED
        BY <3>3, <3>4
    <2>2. Ended(c, d, ok, Seqs[e])
      BY <1>2, <1>7, <2>1, SeqsAre
    <2> QED
      BY <1>3, <2>2, DoesCopy
  <1> QED
    BY <1>8, <1>9

\* deques, or their contents, that change hands: the one d takes over leaves x, or t, behind at e
HandOver(d, e, x) == deques' = [deques EXCEPT ![d] = deques[e], ![e] = x]
SeqsHandOver(d, e, t) == Seqs' = [Seqs EXCEPT ![d] = Seqs[e], ![e] = t]

\* Contents change hands with their deques.
LEMMA HandsSeqs ==
    ASSUME DequeInv, NEW d \in Names, NEW e \in Names, NEW x, HandOver(d, e, x), NEW t, t = Contents(x)
    PROVE  SeqsHandOver(d, e, t)
  <1>1. deques = [f \in Names |-> deques[f]]
    BY DEF DequeInv
  <1>2. deques' = [f \in Names |-> IF f = e THEN x ELSE IF f = d THEN deques[e] ELSE deques[f]]
    BY <1>1 DEF HandOver
  <1>3. Seqs' = [f \in Names |-> Contents(deques'[f])]
    BY DEF Seqs, Contents, ElemAt, SlotOf
  <1>4. \A f \in Names : Contents(deques'[f]) = IF f = e THEN t ELSE IF f = d THEN Seqs[e] ELSE Seqs[f]
    BY <1>2, SeqsAre
  <1>5. Seqs' = [f \in Names |-> IF f = e THEN t ELSE IF f = d THEN Seqs[e] ELSE Seqs[f]]
    BY <1>3, <1>4
  <1>6. Seqs = [f \in Names |-> Seqs[f]]
    BY DEF Seqs
  <1> HIDE DEF Seqs
  <1> QED
    BY <1>5, <1>6 DEF SeqsHandOver

LEMMA MoveAssignDoes ==
    ASSUME DequeAssumption, DequeInv, NEW d \in Names, NEW e \in Names, tda_deque_move_assign(d, e)
    PROVE  SeqsSpec!Does(call')
  <1>1. call'.op = "move_assign" /\ call'.ok = TRUE /\ call'.d = d /\ call'.from = e
    BY DEF tda_deque_move_assign
  <1>2. Seqs' = IF d = e THEN Seqs ELSE [Seqs EXCEPT ![d] = Seqs[e], ![e] = <<>>]
    <2>1. CASE d = e
      <3>1. deques' = deques
        BY <2>1 DEF tda_deque_move_assign
      <3> QED
        BY <2>1, <3>1 DEF Seqs, Contents, ElemAt, SlotOf
    <2>2. CASE d # e
      <3>1. PICK x, t : x = Empty(deques[e].al) /\ t = <<>>
        OBVIOUS
      <3>2. HandOver(d, e, x)
        BY <2>2, <3>1 DEF tda_deque_move_assign, HandOver
      <3>3. x.len = 0
        BY <3>1 DEF Empty
      <3>4. t = Contents(x)
        BY <3>1, <3>3, NoContents
      <3>5. Seqs' = [Seqs EXCEPT ![d] = Seqs[e], ![e] = t]
        BY <3>2, <3>4, HandsSeqs DEF SeqsHandOver
      <3> QED
        BY <2>2, <3>1, <3>5
    <2> QED
      BY <2>1, <2>2
  <1> QED
    BY <1>1, <1>2 DEF SeqsSpec!Does, SeqsSpec!Exchange

LEMMA SwapDoes ==
    ASSUME DequeAssumption, DequeInv, NEW d \in Names, NEW e \in Names, tda_deque_swap(d, e)
    PROVE  SeqsSpec!Does(call')
  <1>1. call'.op = "swap" /\ call'.ok = TRUE /\ call'.d = d /\ call'.from = e
    BY DEF tda_deque_swap
  <1>2. PICK x, t : x = deques[d] /\ t = Contents(x)
    OBVIOUS
  <1>3. HandOver(d, e, x)
    BY <1>2 DEF tda_deque_swap, HandOver
  <1>4. t = Contents(x)
    BY <1>2
  <1>5. t = Seqs[d]
    BY <1>2, SeqsAre
  <1>6. SeqsHandOver(d, e, t)
    BY <1>3, <1>4, HandsSeqs
  <1>7. Seqs' = [Seqs EXCEPT ![d] = Seqs[e], ![e] = Seqs[d]]
    BY <1>5, <1>6 DEF SeqsHandOver
  <1> QED
    BY <1>1, <1>7 DEF SeqsSpec!Does, SeqsSpec!Exchange

LEMMA IntoDequeDoes ==
    ASSUME DequeAssumption, DequeInv, NEW d \in Names, NEW e \in Names, tda_queue_into_deque(d, e)
    PROVE  SeqsSpec!Does(call')
  <1>1. call'.op = "into" /\ call'.ok = TRUE /\ call'.d = e /\ call'.from = d
    BY DEF tda_queue_into_deque
  <1>2. Alive(d) /\ ~Alive(e) /\ d # e
    BY DEF tda_queue_into_deque
  <1>3. PICK x, t : x = Zeroed /\ t = <<>>
    OBVIOUS
  <1>4. x.len = 0
    BY <1>3 DEF Zeroed, Empty
  <1>5. t = Contents(x)
    BY <1>3, <1>4, NoContents
  <1>6. deques' = [deques EXCEPT ![d] = x, ![e] = deques[d]]
    BY <1>3 DEF tda_queue_into_deque
  <1>7. HandOver(e, d, x)
    BY <1>2, <1>6 DEF DequeInv, HandOver
  <1>8. Seqs' = [Seqs EXCEPT ![e] = Seqs[d], ![d] = t]
    BY <1>5, <1>7, HandsSeqs DEF SeqsHandOver
  <1> QED
    BY <1>1, <1>2, <1>3, <1>8 DEF SeqsSpec!Does, SeqsSpec!Exchange

LEMMA DeinitDoes ==
    ASSUME DequeAssumption, DequeInv, NEW d \in Names, tda_deque_deinit(d)
    PROVE  SeqsSpec!Does(call')
  <1>1. PICK p, t, c, ok : p = Zeroed /\ t = <<>> /\ c = [op |-> "deinit"] /\ ok = TRUE
    OBVIOUS
  <1>2. PICK h : Ends(c, d, p, h, ok)
    BY <1>1 DEF tda_deque_deinit
  <1>3. IsDeque(p) /\ p.len = 0
    BY <1>1, EmptyIsDeque DEF Zeroed
  <1>4. OnRing(p) /\ p.len <= p.cap
    BY <1>3, DequeFields
  <1>5. t = Contents(p)
    BY <1>1, <1>3, NoContents
  <1>6. Ended(c, d, ok, t)
    BY <1>1, <1>2, <1>4, <1>5, EndsServed
  <1>7. Ended(c, d, ok, <<>>) /\ ok
    BY <1>1, <1>6
  <1> QED
    BY <1>1, <1>7, DoesDeinit

-----------------------------------------------------------------------------
(* The deque and the queue implement the sequence.                          *)

LEMMA ModsDo ==
    ASSUME DequeAssumption, DequeInv, NEW d \in Names, Alive(d), Mods(d)
    PROVE  SeqsSpec!Does(call')
  <1>1. deques[d].len \in Nat /\ \A i \in 0 .. deques[d].len : i \in Nat
    BY AliveDeque
  <1>2. \A n \in Sizes : n \in Nat
    BY DEF Sizes, DequeAssumption
  <1>3. ASSUME NEW v \in Vals(deques[d]),
               \/ tda_deque_push_front(d, v) \/ tda_deque_push_back(d, v)
               \/ \E idx \in 0 .. deques[d].len : tda_deque_insert(d, idx, v) \/ tda_deque_set(d, idx, v)
        PROVE  SeqsSpec!Does(call')
    BY <1>1, <1>3, PushFrontDoes, PushBackDoes, InsertDoes, SetDoes
  <1>4. ASSUME NEW v \in Vals(deques[d]), ~v.alias,
               \/ tda_deque_front_mut(d, v) \/ tda_deque_back_mut(d, v)
               \/ \E e \in Elem : TDA_DEQUE_FOR_EACH_MUT_AS(d, e, v)
        PROVE  SeqsSpec!Does(call')
    BY <1>4, EndMutsDo, ForEachMutDoes
  <1>5. ASSUME NEW src \in Spans,
               \/ tda_deque_copy_from_span(d, src) \/ tda_deque_extend(d, src)
               \/ \E idx \in 0 .. deques[d].len : tda_deque_insert_span(d, idx, src)
        PROVE  SeqsSpec!Does(call')
    BY <1>1, <1>5, CopyFromSpanDoes, ExtendDoes, InsertSpanDoes
  <1>6. ASSUME \/ tda_deque_pop_front(d) \/ tda_deque_pop_back(d)
               \/ tda_deque_pop_front_to(d) \/ tda_deque_pop_back_to(d)
               \/ tda_deque_clear(d) \/ tda_deque_shrink_to_fit(d)
        PROVE  SeqsSpec!Does(call')
    BY <1>6, PopFrontDoes, PopBackDoes, PopFrontToDoes, PopBackToDoes, ClearDoes, ShrinkToFitDoes
  <1>7. ASSUME \/ tda_deque_front(d) \/ tda_deque_back(d)
               \/ tda_deque_copy_to_span(d) \/ tda_deque_to_spans(d) \/ tda_deque_fprint(d)
               \/ TDA_DEQUE_FOR_EACH_AS(d)
        PROVE  SeqsSpec!Does(call')
    BY <1>7, EndsDo, CopyToSpanDoes, ToSpansDoes, FprintDoes, ForEachDoes
  <1>8. ASSUME NEW i \in 0 .. deques[d].len, tda_deque_get(d, i) \/ tda_deque_remove(d, i)
        PROVE  SeqsSpec!Does(call')
    BY <1>1, <1>8, GetDoes, RemoveDoes
  <1>9. ASSUME NEW i \in 0 .. deques[d].len, NEW j \in 0 .. deques[d].len,
               tda_deque_remove_range(d, i, j) \/ tda_deque_swap_elems(d, i, j)
        PROVE  SeqsSpec!Does(call')
    BY <1>1, <1>9, RemoveRangeDoes, SwapElemsDoes
  <1>10. ASSUME NEW n \in Sizes, tda_deque_truncate(d, n) \/ tda_deque_reserve(d, n) \/ tda_deque_resize(d, n)
         PROVE  SeqsSpec!Does(call')
    BY <1>2, <1>10, TruncateDoes, ReserveDoes, ResizeDoes
  <1>11. ASSUME NEW keep, tda_deque_retain(d, keep)
         PROVE  SeqsSpec!Does(call')
    BY <1>11, RetainDoes
  <1> QED
    BY <1>3, <1>4, <1>5, <1>6, <1>7, <1>8, <1>9, <1>10, <1>11 DEF Mods

LEMMA LifetimeDoes ==
    ASSUME DequeAssumption, DequeInv, NEW d \in Names, Lifetime(d)
    PROVE  SeqsSpec!Does(call')
  BY MakeDoes, DeinitDoes DEF Lifetime

LEMMA PairsDo ==
    ASSUME DequeAssumption, DequeInv, NEW d \in Names, NEW e \in Names, Pairs(d, e)
    PROVE  SeqsSpec!Does(call')
  BY CopyWithDoes, CopyAssignDoes, MoveAssignDoes, SwapDoes, EqDoes DEF Pairs

\* The calls of a queue are the deque's.
LEMMA QueueModsDo ==
    ASSUME DequeAssumption, DequeInv, NEW d \in Names, Alive(d), QueueMods(d)
    PROVE  SeqsSpec!Does(call')
  <1>1. ASSUME NEW v \in Vals(deques[d]),
               tda_queue_push(d, v) \/ (~v.alias /\ (tda_queue_front_mut(d, v) \/ tda_queue_back_mut(d, v)))
        PROVE  SeqsSpec!Does(call')
    BY <1>1, PushBackDoes, EndMutsDo DEF tda_queue_push, tda_queue_front_mut, tda_queue_back_mut
  <1>2. ASSUME NEW src \in Spans, tda_queue_extend(d, src)
        PROVE  SeqsSpec!Does(call')
    BY <1>2, ExtendDoes DEF tda_queue_extend
  <1>3. ASSUME tda_queue_pop(d) \/ tda_queue_pop_to(d) \/ tda_queue_clear(d) \/ tda_queue_shrink_to_fit(d)
        PROVE  SeqsSpec!Does(call')
    BY <1>3, PopFrontDoes, PopFrontToDoes, ClearDoes, ShrinkToFitDoes
       DEF tda_queue_pop, tda_queue_pop_to, tda_queue_clear, tda_queue_shrink_to_fit
  <1>4. ASSUME NEW cap \in Sizes, tda_queue_reserve(d, cap)
        PROVE  SeqsSpec!Does(call')
    BY <1>4, ReserveDoes DEF tda_queue_reserve
  <1>5. ASSUME tda_queue_front(d) \/ tda_queue_back(d) \/ tda_queue_copy_to_span(d) \/ tda_queue_fprint(d)
        PROVE  SeqsSpec!Does(call')
    BY <1>5, EndsDo, CopyToSpanDoes, FprintDoes
       DEF tda_queue_front, tda_queue_back, tda_queue_copy_to_span, tda_queue_fprint
  <1> QED
    BY <1>1, <1>2, <1>3, <1>4, <1>5 DEF QueueMods

LEMMA QueueLifetimeDoes ==
    ASSUME DequeAssumption, DequeInv, NEW d \in Names, QueueLifetime(d)
    PROVE  SeqsSpec!Does(call')
  BY MakeDoes, DeinitDoes DEF QueueLifetime, tda_queue_make, tda_queue_deinit

LEMMA QueuePairsDo ==
    ASSUME DequeAssumption, DequeInv, NEW d \in Names, NEW e \in Names, QueuePairs(d, e)
    PROVE  SeqsSpec!Does(call')
  BY CopyWithDoes, CopyAssignDoes, MoveAssignDoes, SwapDoes, EqDoes
     DEF QueuePairs, tda_queue_copy_with, tda_queue_copy_assign, tda_queue_move_assign, tda_queue_swap, tda_queue_eq

LEMMA QueueNextDoes ==
    ASSUME DequeAssumption, DequeInv, QueueNext
    PROVE  SeqsSpec!Does(call')
  <1>1. ASSUME NEW d \in Names, NEW e \in Names, Calls(d, e)
        PROVE  SeqsSpec!Does(call')
    BY <1>1, PairsDo, QueuePairsDo, IntoDequeDoes DEF Calls
  <1>2. ASSUME NEW d \in Names, OwnCalls(d)
        PROVE  SeqsSpec!Does(call')
    BY <1>2, LifetimeDoes, ModsDo, QueueLifetimeDoes, QueueModsDo DEF OwnCalls
  <1> QED
    BY <1>1, <1>2 DEF QueueNext

LEMMA NextDoes ==
    ASSUME DequeAssumption, DequeInv, Next
    PROVE  SeqsSpec!Does(call')
  BY LifetimeDoes, PairsDo, ModsDo DEF Next

LEMMA InitSeqs ==
    ASSUME Init
    PROVE  SeqsSpec!Init
  <1>1. PICK x, t : x = Zeroed /\ t = <<>>
    OBVIOUS
  <1>2. x.len = 0
    BY <1>1 DEF Zeroed, Empty
  <1>3. t = Contents(x)
    BY <1>1, <1>2, NoContents
  <1>4. \A d \in Names : Contents(deques[d]) = t
    BY <1>1, <1>3 DEF Init
  <1>5. Seqs = [d \in Names |-> t]
    BY <1>4 DEF Seqs
  <1>6. call = [op |-> "none"]
    BY DEF Init
  <1> QED
    BY <1>1, <1>5, <1>6 DEF SeqsSpec!Init

\* tda_deque_* and tda_queue_*: whatever ring, seam and capacity a handle has, whatever was
\* allocated, moved or refused on the way, each call does to the elems, in order, what its name
\* says, answers what the sequence answers, and leaves every other handle's elems alone; a call
\* refused memory leaves all of them as they were.
THEOREM QueueImplementsSeq == QueueSpec => ImplementsSeq
  <1>1. QueueInit => SeqsSpec!Init
    BY InitSeqs DEF QueueInit
  <1>2. DequeInv /\ [QueueNext]_<<vars, kinds>> => [SeqsSpec!Does(call')]_<<Seqs, call>>
    <2>1. DequeInv /\ QueueNext => SeqsSpec!Does(call')
      BY DequeAssumption, QueueNextDoes
    <2>2. UNCHANGED <<vars, kinds>> => UNCHANGED <<Seqs, call>>
      BY DEF vars, Seqs, Contents, ElemAt, SlotOf
    <2> QED
      BY <2>1, <2>2
  <1> QED
    BY <1>1, <1>2, QueueInvariant, PTL
       DEF QueueSpec, ImplementsSeq, SeqsSpec!Spec, Seqs, Contents, ElemAt, SlotOf

\* The same of the deques alone.
THEOREM ImplementsSequence == Spec => ImplementsSeq
  <1>1. Init => DequeInv /\ SeqsSpec!Init
    BY InitInv, InitSeqs, DequeAssumption
  <1>2. DequeInv /\ [Next]_vars => DequeInv'
    BY NextKeeps, DequeAssumption
  <1>3. DequeInv /\ [Next]_vars => [SeqsSpec!Does(call')]_<<Seqs, call>>
    <2>1. DequeInv /\ Next => SeqsSpec!Does(call')
      BY DequeAssumption, NextDoes
    <2>2. UNCHANGED vars => UNCHANGED <<Seqs, call>>
      BY DEF vars, Seqs, Contents, ElemAt, SlotOf
    <2> QED
      BY <2>1, <2>2
  <1> QED
    BY <1>1, <1>2, <1>3, PTL DEF Spec, ImplementsSeq, SeqsSpec!Spec, Seqs, Contents, ElemAt, SlotOf
=============================================================================
