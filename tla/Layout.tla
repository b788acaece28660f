------------------------------- MODULE Layout -------------------------------
(***************************************************************************)
(* The size arithmetic of include/tda/core/align.h and core/layout.h, on    *)
(* size_t of any width: a sum or a product past SizeMax is Null, as when    *)
(* C23's ckd_add and ckd_mul answer true.  A layout is [size, align].       *)
(***************************************************************************)
EXTENDS Integers

CONSTANTS
    SizeMax,  \* SIZE_MAX
    Null      \* a null pointer, a refused request, an overflow

CkdAdd(a, b) == IF a + b <= SizeMax THEN a + b ELSE Null
CkdMul(a, b) == IF a * b <= SizeMax THEN a * b ELSE Null

Larger(a, b) == IF a > b THEN a ELSE b

\* a power of two: no odd number but 1 divides it
tda_layout_is_align(align) ==
    align > 0 /\ \A d \in 1 .. align : align % d = 0 => d = 1 \/ d % 2 = 0

\* bytes from 'addr' to the first address on 'align'
AlignPad(addr, align) == (-addr) % align

\* the smallest multiple of 'align' not below 'val'
AlignCkdUp(val, align) ==
    IF val > SizeMax - (align - 1) THEN Null ELSE ((val + (align - 1)) \div align) * align

LayoutCkdArray(elem, count) ==
    LET size == CkdMul(elem.size, count)
    IN  IF size = Null THEN Null ELSE [size |-> size, align |-> elem.align]

-----------------------------------------------------------------------------
(* How the nodes of src/ds/list.c and src/ds/hmap.c are laid out:           *)
(* a node's own fields, then what it carries, each part at the first offset *)
(* its alignment allows.  links is the layout of the fields, the others are *)
(* those of the caller's types; Null is a layout past SIZE_MAX, on which    *)
(* the containers refuse to be built.                                       *)

\* 'self' with 'field' put after it, and where the field starts
LayoutCkdExtend(self, field) ==
    LET offset == CkdAdd(self.size, AlignPad(self.size, field.align))
        size == IF offset = Null THEN Null ELSE CkdAdd(offset, field.size)
    IN  IF size = Null THEN Null
        ELSE [size |-> size, align |-> Larger(self.align, field.align), offset |-> offset]

\* the size 'self' takes in an array
LayoutCkdPad(self) == CkdAdd(self.size, AlignPad(self.size, self.align))

\* unchecked: a sum past SIZE_MAX wraps around
AlignUp(val, align) == (((val + (align - 1)) % (SizeMax + 1)) \div align) * align

\* where elem_of finds the elem of a node, worked out apart from the node's layout
ElemOffset(links, elem) == AlignUp(links.size, elem.align)

\* ckd_node_layout: the size and the alignment of a list's node
ListNode(links, elem) ==
    LET whole == LayoutCkdExtend(links, elem)
        size == IF whole = Null THEN Null ELSE LayoutCkdPad(whole)
    IN  IF size = Null THEN Null ELSE [size |-> size, align |-> whole.align]

\* tda_hmap_init_raw_: a map's node, and where its key and its value are.  A set has a
\* value of size zero, which is not placed and stands right past the key
MapNode(links, key, val) ==
    LET with_key == LayoutCkdExtend(links, key)
        whole == IF with_key = Null THEN Null
                 ELSE IF val.size > 0 THEN LayoutCkdExtend(with_key, val)
                 ELSE [with_key EXCEPT !.offset = @ + key.size]
        size == IF whole = Null THEN Null ELSE LayoutCkdPad(whole)
    IN  IF size = Null THEN Null
        ELSE [size |-> size, align |-> whole.align, key_offset |-> with_key.offset,
              val_offset |-> whole.offset]

-----------------------------------------------------------------------------
(* What a node has to be.                                                   *)

\* a part lies after 'from', aligned, and ends by 'end'
Lies(offset, part, from, end) ==
    offset >= from /\ offset % part.align = 0 /\ offset + part.size <= end

\* the least size in which parts fit, each after the one before it and none less aligned than
\* the node, or Null when there is none
LeastSize(links, first, second) ==
    LET align == Larger(links.align, Larger(first.align, second.align))
        fit == {n \in 0 .. SizeMax :
                   /\ n % align = 0
                   /\ \E at, after \in 0 .. n : /\ Lies(at, first, links.size, n)
                                                /\ Lies(after, second, at + first.size, n)}
    IN  IF fit = {} THEN Null ELSE CHOOSE n \in fit : \A m \in fit : n <= m

\* a node holds its parts and is no longer than it must be; there is none only if none fits
NodePromise(links, key, val, list, map, elem_offset) ==
    LET none == [size |-> 0, align |-> 1]
        size == LeastSize(links, key, val)
        list_size == LeastSize(links, key, none)
    IN  /\ IF size = Null THEN map = Null
           ELSE /\ map # Null /\ map.size = size
                /\ map.align >= Larger(links.align, Larger(key.align, val.align))
                /\ Lies(map.key_offset, key, links.size, map.val_offset)
                /\ Lies(map.val_offset, val, map.key_offset + key.size, map.size)
        /\ IF list_size = Null THEN list = Null
           ELSE /\ list # Null /\ list.size = list_size
                /\ list.align >= Larger(links.align, key.align)
                /\ Lies(elem_offset, key, links.size, list.size)
=============================================================================
