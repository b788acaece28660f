---------------------------- MODULE BitSetProofs ----------------------------
(***************************************************************************)
(* Proofs about the bitset, for every width of a word, every SIZE_MAX and   *)
(* any number of handles and allocators.                                    *)
(***************************************************************************)
EXTENDS BitSet, LayoutProofs

-----------------------------------------------------------------------------
(* Words.                                                                   *)

\* The words of nbits bits hold them all, and one word fewer would not.
LEMMA WordsForCovers ==
    ASSUME BitSetAssumption, NEW n \in Nat
    PROVE  /\ WordsFor(n) \in Nat
           /\ WordsFor(n) * WordBits >= n
           /\ WordsFor(n) = 0 <=> n = 0
  <1> DEFINE W == WordBits
             q == n \div W
             r == n % W
  <1>1. W \in Nat \ {0}
    BY DEF BitSetAssumption
  <1>2. q \in Nat /\ r \in 0 .. W - 1 /\ n = W * q + r
    BY <1>1
  <1>3. WordsFor(n) = IF r # 0 THEN q + 1 ELSE q
    BY <1>2 DEF WordsFor
  <1> HIDE DEF W, q, r
  <1>4. WordsFor(n) \in Nat
    BY <1>2, <1>3
  <1>5. W * q \in Nat /\ W * q = q * W /\ (q + 1) * W = q * W + W
    BY <1>1, <1>2
  <1>6. WordsFor(n) * W >= n
    BY <1>1, <1>2, <1>3, <1>5
  <1>7. q = 0 /\ r = 0 <=> n = 0
    <2>1. CASE q = 0
      BY <1>1, <1>2, <2>1
    <2>2. CASE q # 0
      BY <1>1, <1>2, <1>5, <2>2, ArrayHasSize
    <2> QED
      BY <2>1, <2>2
  <1>8. WordsFor(n) = 0 <=> n = 0
    BY <1>2, <1>3, <1>7
  <1> QED
    BY <1>4, <1>6, <1>8 DEF W

\* An index below nbits lies in a word of the set and, in the last word, below its tail.
LEMMA IndexInWords ==
    ASSUME BitSetAssumption, NEW n \in Nat, NEW idx \in 0 .. n - 1
    PROVE  /\ WordOf(idx) \in 0 .. WordsFor(n) - 1
           /\ BitOf(idx) \in WordOnes
           /\ WordOf(idx) = WordsFor(n) - 1 => BitOf(idx) \in TailMask(n)
  <1> DEFINE W == WordBits
             q == n \div W
             r == n % W
             w == idx \div W
             b == idx % W
  <1>1. W \in Nat \ {0}
    BY DEF BitSetAssumption
  <1>2. q \in Nat /\ r \in 0 .. W - 1 /\ n = W * q + r
    BY <1>1
  <1>3. w \in Nat /\ b \in 0 .. W - 1 /\ idx = W * w + b
    BY <1>1
  <1>4. WordsFor(n) = IF r # 0 THEN q + 1 ELSE q
    BY <1>2 DEF WordsFor
  <1>5. WordOf(idx) = w /\ BitOf(idx) = b /\ WordOnes = 0 .. W - 1
    BY DEF WordOf, BitOf, WordOnes
  <1>6. TailMask(n) = IF r = 0 THEN 0 .. W - 1 ELSE 0 .. r - 1
    BY <1>5 DEF TailMask
  <1> HIDE DEF W, q, r, w, b
  <1>7. w <= q
    <2>1. SUFFICES ASSUME q < w PROVE FALSE
      BY <1>2, <1>3
    <2>2. W * q + W <= W * w /\ W * q \in Nat /\ W * w \in Nat
      BY <1>1, <1>2, <1>3, <2>1, SlotsApart
    <2> QED
      BY <1>1, <1>2, <1>3, <2>2
  <1>8. w = q => r # 0 /\ b < r
    BY <1>1, <1>2, <1>3
  <1>9. w \in 0 .. WordsFor(n) - 1
    BY <1>2, <1>3, <1>4, <1>7, <1>8
  <1>10. w = WordsFor(n) - 1 => b \in TailMask(n)
    <2>1. CASE r = 0
      BY <1>3, <1>6, <2>1
    <2>2. CASE r # 0
      BY <1>2, <1>3, <1>4, <1>6, <1>8, <2>2
    <2> QED
      BY <2>1, <2>2
  <1> QED
    BY <1>3, <1>5, <1>9, <1>10

-----------------------------------------------------------------------------
(* The words and the block of one bitset.                                   *)

\* What is known of the fields of a bitset, and what makes one.
LEMMA BitSetFields ==
    ASSUME BitSetAssumption, NEW q, IsBitSet(q)
    PROVE  /\ q = [al |-> q.al, data |-> q.data, nbits |-> q.nbits, words |-> q.words]
           /\ q.al \in Als \cup {Null} /\ q.data \in Nat \cup {Null}
           /\ q.nbits \in Sizes /\ q.nbits \in Nat
           /\ q.words \in [0 .. WordsFor(q.nbits) - 1 -> SUBSET WordOnes]
           /\ DOMAIN q.words = 0 .. WordsFor(q.nbits) - 1
           /\ NWords(q) = WordsFor(q.nbits) /\ NWords(q) \in Nat
           /\ (q.data = Null) <=> (NWords(q) = 0)
           /\ q.al = Null => q = Zeroed
           /\ BlockOf(q) = [id |-> q.data, al |-> q.al, nwords |-> WordsFor(q.nbits)]
  <1>1. q \in [al : Als \cup {Null}, data : Nat \cup {Null}, nbits : Sizes,
             words : [0 .. WordsFor(q.nbits) - 1 -> SUBSET WordOnes]]
    BY DEF IsBitSet
  <1>2. /\ q = [al |-> q.al, data |-> q.data, nbits |-> q.nbits, words |-> q.words]
        /\ q.al \in Als \cup {Null} /\ q.data \in Nat \cup {Null}
        /\ q.nbits \in Sizes
        /\ q.words \in [0 .. WordsFor(q.nbits) - 1 -> SUBSET WordOnes]
        /\ DOMAIN q.words = 0 .. WordsFor(q.nbits) - 1
    BY <1>1
  <1>3. q.nbits \in Nat
    BY <1>2 DEF Sizes, BitSetAssumption
  <1>4. WordsFor(q.nbits) \in Nat
    BY <1>3, WordsForCovers
  <1>5. Cardinality(0 .. WordsFor(q.nbits) - 1) = WordsFor(q.nbits)
    BY <1>4, FS_Interval
  <1>6. NWords(q) = WordsFor(q.nbits)
    BY <1>2, <1>5 DEF NWords
  <1>7. (q.data = Null) <=> (NWords(q) = 0)
    BY <1>6 DEF IsBitSet
  <1>8. q.al = Null => q = Zeroed
    BY DEF IsBitSet
  <1> QED
    BY <1>2, <1>3, <1>4, <1>6, <1>7, <1>8 DEF BlockOf

LEMMA FieldsMakeBitSet ==
    ASSUME NEW al \in Als, Null \notin Als, NEW data \in Nat \cup {Null}, NEW n \in Sizes,
           NEW words \in [0 .. WordsFor(n) - 1 -> SUBSET WordOnes],
           (data = Null) <=> (WordsFor(n) = 0)
    PROVE  IsBitSet([al |-> al, data |-> data, nbits |-> n, words |-> words])
  BY DEF IsBitSet

\* The zeroed handle, and the empty bitset a move leaves behind.
LEMMA EmptyIsBitSet ==
    ASSUME BitSetAssumption, NEW al \in Als \cup {Null}
    PROVE  /\ IsBitSet(Empty(al)) /\ Empty(al).data = Null /\ Empty(al).al = al
           /\ NWords(Empty(al)) = 0
  <1>1. 0 \in Sizes /\ 0 \in Nat /\ 0 % WordBits = 0 /\ 0 \div WordBits = 0
    BY DEF Sizes, BitSetAssumption
  <1>2. WordsFor(0) = 0
    BY <1>1 DEF WordsFor
  <1>3. 0 .. WordsFor(0) - 1 = {}
    BY <1>2
  <1>4. [w \in {} |-> {}] \in [{} -> SUBSET WordOnes]
    OBVIOUS
  <1>5. /\ Empty(al) = [al |-> al, data |-> Null, nbits |-> 0, words |-> [w \in {} |-> {}]]
        /\ Empty(al).nbits = 0 /\ Empty(al).data = Null /\ Empty(al).al = al
        /\ DOMAIN Empty(al).words = {}
    BY DEF Empty
  <1>6. al = Null => Empty(al) = Zeroed
    BY DEF Zeroed
  <1>7. IsBitSet(Empty(al))
    BY <1>1, <1>2, <1>3, <1>4, <1>5, <1>6 DEF IsBitSet
  <1> QED
    BY <1>5, <1>7, FS_EmptySet DEF NWords

-----------------------------------------------------------------------------
(* The invariant.  WordsSound counts the blocks; what an operation needs    *)
(* and keeps is that no two bitsets have a block of the same number.        *)

Owners == {d \in Names : bitsets[d].data # Null}

TailOK(q) == NWords(q) > 0 => q.words[NWords(q) - 1] \subseteq TailMask(q.nbits)

HeldApart ==
    /\ heap = {BlockOf(bitsets[d]) : d \in Owners}
    /\ \A d, e \in Owners : bitsets[d].data = bitsets[e].data => d = e

BitSetInv ==
    /\ bitsets = [d \in Names |-> bitsets[d]]
    /\ TypeOK /\ TailClear /\ HeldApart

LEMMA BlockFields ==
    ASSUME NEW q
    PROVE  BlockOf(q).id = q.data /\ BlockOf(q).al = q.al /\ BlockOf(q).nwords = NWords(q)
  BY DEF BlockOf

\* The blocks that are out are finitely many, and their numbers are numbers.
LEMMA HeapFinite ==
    ASSUME BitSetAssumption, BitSetInv
    PROVE  IsFiniteSet(heap) /\ \A b \in heap : b.id \in Nat
  <1> DEFINE f == [d \in Owners |-> BlockOf(bitsets[d])]
  <1>1. IsFiniteSet(Owners)
    BY FS_Subset DEF Owners, BitSetAssumption
  <1>2. \A d, e \in Owners : f[d] = f[e] => d = e
    BY BlockFields DEF BitSetInv, HeldApart
  <1>3. f = [d \in Owners |-> f[d]] /\ heap = {f[d] : d \in Owners}
    BY DEF BitSetInv, HeldApart
  <1> HIDE DEF f
  <1>4. IsFiniteSet(heap)
    BY <1>1, <1>2, <1>3, OneEach
  <1>5. ASSUME NEW b \in heap PROVE b.id \in Nat
    <2>1. PICK d \in Owners : b = BlockOf(bitsets[d])
      BY DEF BitSetInv, HeldApart
    <2>2. d \in Names /\ bitsets[d].data # Null /\ b.id = bitsets[d].data
      BY <2>1, BlockFields DEF Owners
    <2> QED
      BY <2>2, BitSetFields DEF BitSetInv, TypeOK
  <1> QED
    BY <1>4, <1>5

\* A block that an allocator serves is one that is not out.
LEMMA FreshIdIsFresh ==
    ASSUME BitSetAssumption, BitSetInv
    PROVE  FreshId(heap) \in Nat /\ \A b \in heap : b.id # FreshId(heap)
  <1>1. \E id \in 1 .. Cardinality(heap) + 1 : \A b \in heap : b.id # id
    BY HeapFinite, FreshNumber
  <1>2. /\ FreshId(heap) \in 1 .. Cardinality(heap) + 1
        /\ \A b \in heap : b.id # FreshId(heap)
    BY <1>1 DEF FreshId
  <1>3. Cardinality(heap) \in Nat
    BY HeapFinite, FS_CardinalityType
  <1> QED
    BY <1>2, <1>3

\* the heap once the bitset p has become q
HeapWith(p, q) == (heap \ {BlockOf(p)}) \cup IF q.data = Null THEN {} ELSE {BlockOf(q)}

\* A step that leaves d a sound bitset, on its own block, a fresh one or none, keeps all.
LEMMA OneChanges ==
    ASSUME BitSetAssumption, BitSetInv, NEW d \in Names, NEW q, IsBitSet(q), TailOK(q),
           q.data \in {Null, bitsets[d].data} \/ \A b \in heap : b.id # q.data,
           bitsets' = [bitsets EXCEPT ![d] = q], heap' = HeapWith(bitsets[d], q)
    PROVE  BitSetInv'
  <1>1. bitsets'[d] = q /\ \A e \in Names : e # d => bitsets'[e] = bitsets[e]
    BY DEF BitSetInv
  <1>2. (bitsets = [e \in Names |-> bitsets[e]])'
    BY DEF BitSetInv
  <1>3. TypeOK'
    BY <1>1 DEF BitSetInv, TypeOK
  <1>4. TailClear'
    BY <1>1 DEF BitSetInv, TailClear, TailOK
  <1>5. \A e \in Names : e # d => (e \in Owners' <=> e \in Owners)
    BY <1>1 DEF Owners
  <1>6. d \in Owners' <=> q.data # Null
    BY <1>1 DEF Owners
  <1>7. ASSUME NEW e \in Owners, e # d PROVE bitsets[e].data # q.data /\ BlockOf(bitsets[e]) \in heap'
    <2>1. BlockOf(bitsets[e]) \in heap /\ BlockOf(bitsets[e]).id = bitsets[e].data
      BY BlockFields DEF BitSetInv, HeldApart
    <2>2. e \in Names /\ bitsets[e].data # Null
      BY DEF Owners
    <2>3. bitsets[e].data # bitsets[d].data
      BY <1>7, <2>2 DEF BitSetInv, HeldApart, Owners
    <2>4. BlockOf(bitsets[e]) # BlockOf(bitsets[d])
      BY <2>3, BlockFields
    <2> QED
      BY <2>1, <2>2, <2>3, <2>4 DEF HeapWith
  <1>8. ASSUME NEW b \in heap' PROVE \E e \in Owners' : b = BlockOf(bitsets'[e])
    <2>1. CASE b \in heap /\ b # BlockOf(bitsets[d])
      <3>1. PICK e \in Owners : b = BlockOf(bitsets[e])
        BY <2>1 DEF BitSetInv, HeldApart
      <3>2. e # d /\ e \in Names
        BY <2>1, <3>1 DEF Owners
      <3> QED
        BY <1>1, <1>5, <3>1, <3>2
    <2>2. CASE b = BlockOf(q) /\ q.data # Null
      BY <1>1, <1>6, <2>2
    <2> QED
      BY <1>8, <2>1, <2>2 DEF HeapWith
  <1>9. ASSUME NEW e \in Owners' PROVE BlockOf(bitsets'[e]) \in heap'
    <2>1. CASE e = d
      BY <1>1, <1>6, <2>1 DEF HeapWith
    <2>2. CASE e # d
      <3>1. e \in Names
        BY DEF Owners
      <3> QED
        BY <1>1, <1>5, <1>7, <2>2, <3>1
    <2> QED
      BY <2>1, <2>2
  <1>10. (heap = {BlockOf(bitsets[e]) : e \in Owners})'
    BY <1>8, <1>9 DEF BlockOf, NWords
  <1>11. ASSUME NEW e \in Owners', NEW f \in Owners', bitsets'[e].data = bitsets'[f].data PROVE e = f
    <2>1. e \in Names /\ f \in Names
      BY DEF Owners
    <2> QED
      BY <1>1, <1>5, <1>7, <1>11, <2>1 DEF BitSetInv, HeldApart
  <1>12. HeldApart'
    BY <1>10, <1>11 DEF HeldApart
  <1> QED
    BY <1>2, <1>3, <1>4, <1>12 DEF BitSetInv

\* A bitset on the block it had leaves the heap as it was.
LEMMA SameBlock ==
    ASSUME BitSetAssumption, BitSetInv, NEW d \in Names, NEW q, BlockOf(q) = BlockOf(bitsets[d])
    PROVE  HeapWith(bitsets[d], q) = heap
  <1>1. q.data = bitsets[d].data
    BY BlockFields
  <1>2. CASE q.data = Null
    <2>1. BlockOf(bitsets[d]) \notin heap
      BY <1>1, <1>2, BlockFields, HeapFinite DEF BitSetAssumption
    <2> QED
      BY <1>2, <2>1 DEF HeapWith
  <1>3. CASE q.data # Null
    <2>1. BlockOf(bitsets[d]) \in heap
      BY <1>1, <1>3 DEF BitSetInv, HeldApart, Owners
    <2> QED
      BY <1>3, <2>1 DEF HeapWith
  <1> QED
    BY <1>2, <1>3

\* A step that only writes words, with no bit past the tail, keeps all.
LEMMA WordsChange ==
    ASSUME BitSetAssumption, BitSetInv, NEW d \in Names, Alive(d),
           NEW ws \in [DOMAIN bitsets[d].words -> SUBSET WordOnes],
           NWords(bitsets[d]) > 0 => ws[NWords(bitsets[d]) - 1] \subseteq TailMask(bitsets[d].nbits),
           bitsets' = [bitsets EXCEPT ![d] = [bitsets[d] EXCEPT !.words = ws]], heap' = heap
    PROVE  BitSetInv'
  <1> DEFINE p == bitsets[d]
             q == [al |-> p.al, data |-> p.data, nbits |-> p.nbits, words |-> ws]
  <1>1. IsBitSet(p)
    BY DEF BitSetInv, TypeOK
  <1>2. /\ p = [al |-> p.al, data |-> p.data, nbits |-> p.nbits, words |-> p.words]
        /\ p.al \in Als /\ p.data \in Nat \cup {Null} /\ p.nbits \in Sizes
        /\ DOMAIN p.words = 0 .. WordsFor(p.nbits) - 1
        /\ NWords(p) = WordsFor(p.nbits)
        /\ (p.data = Null) <=> (WordsFor(p.nbits) = 0)
        /\ BlockOf(p) = [id |-> p.data, al |-> p.al, nwords |-> WordsFor(p.nbits)]
    BY <1>1, BitSetFields DEF Alive
  <1>3. q = [p EXCEPT !.words = ws]
    BY <1>2
  <1>4. IsBitSet(q)
    BY <1>2, FieldsMakeBitSet DEF BitSetAssumption
  <1>5. q.al = p.al /\ q.data = p.data /\ q.nbits = p.nbits /\ q.words = ws
    OBVIOUS
  <1> HIDE DEF q, p
  <1>6. BlockOf(q) = BlockOf(p) /\ NWords(q) = NWords(p)
    BY <1>2, <1>4, <1>5, BitSetFields
  <1>7. TailOK(q)
    BY <1>5, <1>6 DEF TailOK, p
  <1>8. heap' = HeapWith(p, q)
    BY <1>6, SameBlock DEF p
  <1>9. bitsets' = [bitsets EXCEPT ![d] = q]
    BY <1>3 DEF p
  <1> QED
    BY <1>4, <1>5, <1>7, <1>8, <1>9, OneChanges DEF p

\* What every operation on the words of d starts from.
LEMMA HasWords ==
    ASSUME BitSetAssumption, BitSetInv, NEW d \in Names
    PROVE  /\ bitsets[d].nbits \in Nat
           /\ bitsets[d].words \in [0 .. NWords(bitsets[d]) - 1 -> SUBSET WordOnes]
           /\ NWords(bitsets[d]) = WordsFor(bitsets[d].nbits) /\ NWords(bitsets[d]) \in Nat
           /\ DOMAIN bitsets[d].words = 0 .. NWords(bitsets[d]) - 1
           /\ NWords(bitsets[d]) > 0 =>
                bitsets[d].words[NWords(bitsets[d]) - 1] \subseteq TailMask(bitsets[d].nbits)
           /\ bitsets[d] = [al |-> bitsets[d].al, data |-> bitsets[d].data,
                            nbits |-> bitsets[d].nbits, words |-> bitsets[d].words]
  BY BitSetFields DEF BitSetInv, TypeOK, TailClear

LEMMA TailIsOnes == ASSUME BitSetAssumption, NEW n \in Nat PROVE TailMask(n) \subseteq WordOnes
  BY DEF TailMask, WordOnes, BitSetAssumption

-----------------------------------------------------------------------------
(* The operations on words.                                                 *)

\* A step that changes neither bitset nor block keeps all, as a call that only reads does.
LEMMA StutterKeeps ==
    ASSUME BitSetInv, bitsets' = bitsets, heap' = heap
    PROVE  BitSetInv'
  BY DEF BitSetInv, TypeOK, TailClear, HeldApart, Owners

LEMMA AnswersKeeps ==
    ASSUME BitSetInv, NEW d \in Names, NEW c, NEW out, Answers(c, d, out)
    PROVE  BitSetInv'
  <1>1. bitsets' = [bitsets EXCEPT ![d] = bitsets[d]] /\ heap' = heap
    BY DEF Answers, EndsOk, Ends
  <1>2. bitsets' = bitsets
    BY <1>1 DEF BitSetInv
  <1> QED
    BY <1>1, <1>2, StutterKeeps

\* One word that gains no bit but that of an index of the set.
LEMMA OneWord ==
    ASSUME BitSetAssumption, BitSetInv, NEW d \in Names, Alive(d),
           NEW idx \in 0 .. bitsets[d].nbits - 1, NEW word,
           word \subseteq bitsets[d].words[WordOf(idx)] \cup {BitOf(idx)},
           bitsets' = [bitsets EXCEPT ![d] = [bitsets[d] EXCEPT !.words[WordOf(idx)] = word]],
           heap' = heap
    PROVE  BitSetInv'
  <1> DEFINE p == bitsets[d]
             n == NWords(p)
             ws == [p.words EXCEPT ![WordOf(idx)] = word]
  <1>1. /\ p.nbits \in Nat /\ p.words \in [0 .. n - 1 -> SUBSET WordOnes]
        /\ n = WordsFor(p.nbits) /\ n \in Nat /\ DOMAIN p.words = 0 .. n - 1
        /\ n > 0 => p.words[n - 1] \subseteq TailMask(p.nbits)
    BY HasWords
  <1>2. /\ WordOf(idx) \in 0 .. n - 1 /\ BitOf(idx) \in WordOnes
        /\ WordOf(idx) = n - 1 => BitOf(idx) \in TailMask(p.nbits)
    BY <1>1, IndexInWords
  <1>3. word \in SUBSET WordOnes
    BY <1>1, <1>2
  <1>4. ws \in [DOMAIN p.words -> SUBSET WordOnes]
    BY <1>1, <1>3
  <1>5. n > 0 => ws[n - 1] \subseteq TailMask(p.nbits)
    <2>1. CASE WordOf(idx) = n - 1
      BY <1>1, <1>2, <2>1
    <2>2. CASE WordOf(idx) # n - 1
      BY <1>1, <2>2
    <2> QED
      BY <2>1, <2>2
  <1>6. bitsets' = [bitsets EXCEPT ![d] = [p EXCEPT !.words = ws]]
    OBVIOUS
  <1> HIDE DEF ws
  <1> QED
    BY <1>4, <1>5, <1>6, WordsChange

LEMMA OneBitKeeps ==
    ASSUME BitSetAssumption, BitSetInv, NEW d \in Names, Alive(d), OneBit(d)
    PROVE  BitSetInv'
  <1>1. PICK idx \in 0 .. bitsets[d].nbits - 1 :
            \/ tda_bitset_set(d, idx) \/ tda_bitset_reset(d, idx) \/ tda_bitset_flip(d, idx)
            \/ tda_bitset_test(d, idx)
            \/ \E on \in BOOLEAN : tda_bitset_set_to(d, idx, on)
    BY DEF OneBit
  <1>2. CASE tda_bitset_set(d, idx)
    <2>1. /\ bitsets' = [bitsets EXCEPT ![d] = [bitsets[d] EXCEPT !.words[WordOf(idx)] =
                            bitsets[d].words[WordOf(idx)] \cup {BitOf(idx)}]]
          /\ heap' = heap
      BY <1>2 DEF tda_bitset_set, EndsOk, Ends, SetBit
    <2> QED
      BY <2>1, OneWord
  <1>3. CASE tda_bitset_reset(d, idx)
    <2> DEFINE word == bitsets[d].words[WordOf(idx)] \ {BitOf(idx)}
    <2>1. /\ bitsets' = [bitsets EXCEPT ![d] = [bitsets[d] EXCEPT !.words[WordOf(idx)] = word]]
          /\ heap' = heap
      BY <1>3 DEF tda_bitset_reset, EndsOk, Ends, ResetBit
    <2>2. word \subseteq bitsets[d].words[WordOf(idx)] \cup {BitOf(idx)}
      OBVIOUS
    <2> HIDE DEF word
    <2> QED
      BY <2>1, <2>2, OneWord
  <1>4. CASE tda_bitset_flip(d, idx)
    <2> DEFINE word == SymDiff(bitsets[d].words[WordOf(idx)], {BitOf(idx)})
    <2>1. /\ bitsets' = [bitsets EXCEPT ![d] = [bitsets[d] EXCEPT !.words[WordOf(idx)] = word]]
          /\ heap' = heap
      BY <1>4 DEF tda_bitset_flip, EndsOk, Ends
    <2>2. word \subseteq bitsets[d].words[WordOf(idx)] \cup {BitOf(idx)}
      BY DEF SymDiff
    <2> HIDE DEF word
    <2> QED
      BY <2>1, <2>2, OneWord
  <1>5. CASE tda_bitset_test(d, idx)
    BY <1>5, AnswersKeeps DEF tda_bitset_test
  <1> QED
    BY <1>1, <1>2, <1>3, <1>4, <1>5 DEF tda_bitset_set_to

\* All words written at once, and the bits past the tail cleared after.
LEMMA ClearedKeeps ==
    ASSUME BitSetAssumption, BitSetInv, NEW d \in Names, Alive(d),
           NEW ws \in [DOMAIN bitsets[d].words -> SUBSET WordOnes],
           bitsets' = [bitsets EXCEPT ![d] = ClearTail([bitsets[d] EXCEPT !.words = ws])],
           heap' = heap
    PROVE  BitSetInv'
  <1> DEFINE p == bitsets[d]
             n == NWords(p)
             q == [p EXCEPT !.words = ws]
  <1>1. /\ p.nbits \in Nat /\ n \in Nat /\ DOMAIN p.words = 0 .. n - 1
        /\ p = [al |-> p.al, data |-> p.data, nbits |-> p.nbits, words |-> p.words]
    BY HasWords
  <1>2. q.words = ws /\ q.nbits = p.nbits
    BY <1>1
  <1>3. NWords(q) = n
    BY <1>2 DEF NWords
  <1>4. CASE n = 0
    <2>1. ClearTail(q) = q
      BY <1>3, <1>4 DEF ClearTail
    <2>2. bitsets' = [bitsets EXCEPT ![d] = [p EXCEPT !.words = ws]]
      BY <2>1
    <2>3. ~(n > 0)
      BY <1>4
    <2> HIDE DEF q
    <2> QED
      BY <2>2, <2>3, WordsChange
  <1>5. CASE n # 0
    <2> DEFINE cs == [ws EXCEPT ![n - 1] = ws[n - 1] \cap TailMask(p.nbits)]
    <2>1. n - 1 \in 0 .. n - 1
      BY <1>1, <1>5
    <2>2. ClearTail(q) = [q EXCEPT !.words[n - 1] = ws[n - 1] \cap TailMask(p.nbits)]
      BY <1>2, <1>3, <1>5 DEF ClearTail
    <2>3. ClearTail(q) = [p EXCEPT !.words = cs]
      BY <1>1, <2>2
    <2>4. cs \in [DOMAIN p.words -> SUBSET WordOnes] /\ cs[n - 1] \subseteq TailMask(p.nbits)
      BY <1>1, <2>1
    <2> HIDE DEF cs, q
    <2> QED
      BY <2>3, <2>4, WordsChange DEF q
  <1> QED
    BY <1>4, <1>5

LEMMA AllBitsKeeps ==
    ASSUME BitSetAssumption, BitSetInv, NEW d \in Names, Alive(d), AllBits(d)
    PROVE  BitSetInv'
  <1> DEFINE p == bitsets[d]
  <1>1. /\ p = [al |-> p.al, data |-> p.data, nbits |-> p.nbits, words |-> p.words]
        /\ p.words \in [DOMAIN p.words -> SUBSET WordOnes]
    BY HasWords
  <1>2. CASE tda_bitset_set_all(d)
    <2> DEFINE ws == [w \in DOMAIN p.words |-> WordOnes]
    <2>1. /\ bitsets' = [bitsets EXCEPT ![d] = ClearTail([p EXCEPT !.words = ws])]
          /\ heap' = heap
      BY <1>2 DEF tda_bitset_set_all, EndsOk, Ends, FillWords
    <2>2. ws \in [DOMAIN p.words -> SUBSET WordOnes]
      OBVIOUS
    <2> HIDE DEF ws
    <2> QED
      BY <2>1, <2>2, ClearedKeeps
  <1>3. CASE tda_bitset_reset_all(d)
    <2> DEFINE ws == [w \in DOMAIN p.words |-> {}]
    <2>1. bitsets' = [bitsets EXCEPT ![d] = [p EXCEPT !.words = ws]] /\ heap' = heap
      BY <1>3 DEF tda_bitset_reset_all, EndsOk, Ends, FillWords
    <2>2. /\ ws \in [DOMAIN p.words -> SUBSET WordOnes]
          /\ NWords(p) > 0 => ws[NWords(p) - 1] \subseteq TailMask(p.nbits)
      <3>1. NWords(p) \in Nat /\ DOMAIN p.words = 0 .. NWords(p) - 1
        BY HasWords
      <3>2. NWords(p) > 0 => ws[NWords(p) - 1] = {}
        BY <3>1
      <3> QED
        BY <3>2
    <2> HIDE DEF ws
    <2> QED
      BY <2>1, <2>2, WordsChange
  <1>4. CASE tda_bitset_flip_all(d)
    <2> DEFINE ws == [w \in DOMAIN p.words |-> WordOnes \ p.words[w]]
    <2>1. /\ bitsets' = [bitsets EXCEPT ![d] = ClearTail([p EXCEPT !.words = ws])]
          /\ heap' = heap
      BY <1>4 DEF tda_bitset_flip_all, EndsOk, Ends
    <2>2. ws \in [DOMAIN p.words -> SUBSET WordOnes]
      OBVIOUS
    <2> HIDE DEF ws
    <2> QED
      BY <2>1, <2>2, ClearedKeeps
  <1>5. CASE \/ tda_bitset_count(d) \/ tda_bitset_any(d) \/ tda_bitset_none(d)
             \/ tda_bitset_all(d) \/ tda_bitset_fprint(d)
    BY <1>5, AnswersKeeps
       DEF tda_bitset_count, tda_bitset_any, tda_bitset_none, tda_bitset_all, tda_bitset_fprint
  <1>6. CASE \E from \in Sizes, clear \in BOOLEAN :
                tda_bitset_find_next(d, from, clear) \/ tda_bitset_find_prev(d, from, clear)
    BY <1>6, AnswersKeeps DEF tda_bitset_find_next, tda_bitset_find_prev
  <1> QED
    BY <1>2, <1>3, <1>4, <1>5, <1>6 DEF AllBits

\* Two bitsets of one universe, word by word: no word gains a bit that neither had.
LEMMA PairKeeps ==
    ASSUME BitSetAssumption, BitSetInv, NEW d \in Names, NEW e \in Names, Alive(d),
           bitsets[d].nbits = bitsets[e].nbits, NEW ws, ws = [w \in DOMAIN bitsets[d].words |-> ws[w]],
           \A w \in DOMAIN bitsets[d].words : ws[w] \subseteq bitsets[d].words[w] \cup bitsets[e].words[w],
           bitsets' = [bitsets EXCEPT ![d] = [bitsets[d] EXCEPT !.words = ws]], heap' = heap
    PROVE  BitSetInv'
  <1> DEFINE p == bitsets[d]
             o == bitsets[e]
             n == NWords(p)
  <1>1. /\ p.words \in [0 .. n - 1 -> SUBSET WordOnes] /\ DOMAIN p.words = 0 .. n - 1 /\ n \in Nat
        /\ n > 0 => p.words[n - 1] \subseteq TailMask(p.nbits)
    BY HasWords
  <1>2. /\ o.words \in [0 .. n - 1 -> SUBSET WordOnes] /\ DOMAIN o.words = 0 .. n - 1
        /\ n > 0 => o.words[n - 1] \subseteq TailMask(p.nbits)
    BY HasWords
  <1>3. ws \in [DOMAIN p.words -> SUBSET WordOnes]
    <2>1. \A w \in DOMAIN p.words : ws[w] \in SUBSET WordOnes
      BY <1>1, <1>2
    <2> QED
      BY <2>1
  <1>4. n > 0 => ws[n - 1] \subseteq TailMask(p.nbits)
    <2>1. n > 0 => n - 1 \in DOMAIN p.words
      BY <1>1
    <2> QED
      BY <1>1, <1>2, <2>1
  <1> QED
    BY <1>3, <1>4, WordsChange

LEMMA PairsKeep ==
    ASSUME BitSetAssumption, BitSetInv, NEW d \in Names, NEW e \in Names, Alive(d), Pairs(d, e)
    PROVE  BitSetInv'
  <1> DEFINE p == bitsets[d].words
             o == bitsets[e].words
  <1>1. bitsets[d].nbits = bitsets[e].nbits
    BY DEF Pairs
  <1>2. CASE tda_bitset_union(d, e)
    <2> DEFINE ws == [w \in DOMAIN p |-> p[w] \cup o[w]]
    <2>1. bitsets' = [bitsets EXCEPT ![d] = [bitsets[d] EXCEPT !.words = ws]] /\ heap' = heap
      BY <1>2 DEF tda_bitset_union, EndsOk, Ends
    <2>2. ws = [w \in DOMAIN p |-> ws[w]] /\ \A w \in DOMAIN p : ws[w] \subseteq p[w] \cup o[w]
      OBVIOUS
    <2> HIDE DEF ws
    <2> QED
      BY <1>1, <2>1, <2>2, PairKeeps
  <1>3. CASE tda_bitset_intersection(d, e)
    <2> DEFINE ws == [w \in DOMAIN p |-> p[w] \cap o[w]]
    <2>1. bitsets' = [bitsets EXCEPT ![d] = [bitsets[d] EXCEPT !.words = ws]] /\ heap' = heap
      BY <1>3 DEF tda_bitset_intersection, EndsOk, Ends
    <2>2. ws = [w \in DOMAIN p |-> ws[w]] /\ \A w \in DOMAIN p : ws[w] \subseteq p[w] \cup o[w]
      OBVIOUS
    <2> HIDE DEF ws
    <2> QED
      BY <1>1, <2>1, <2>2, PairKeeps
  <1>4. CASE tda_bitset_difference(d, e)
    <2> DEFINE ws == [w \in DOMAIN p |-> p[w] \ o[w]]
    <2>1. bitsets' = [bitsets EXCEPT ![d] = [bitsets[d] EXCEPT !.words = ws]] /\ heap' = heap
      BY <1>4 DEF tda_bitset_difference, EndsOk, Ends
    <2>2. ws = [w \in DOMAIN p |-> ws[w]] /\ \A w \in DOMAIN p : ws[w] \subseteq p[w] \cup o[w]
      OBVIOUS
    <2> HIDE DEF ws
    <2> QED
      BY <1>1, <2>1, <2>2, PairKeeps
  <1>5. CASE tda_bitset_symmetric_difference(d, e)
    <2> DEFINE ws == [w \in DOMAIN p |-> SymDiff(p[w], o[w])]
    <2>1. bitsets' = [bitsets EXCEPT ![d] = [bitsets[d] EXCEPT !.words = ws]] /\ heap' = heap
      BY <1>5 DEF tda_bitset_symmetric_difference, EndsOk, Ends
    <2>2. ws = [w \in DOMAIN p |-> ws[w]] /\ \A w \in DOMAIN p : ws[w] \subseteq p[w] \cup o[w]
      BY DEF SymDiff
    <2> HIDE DEF ws
    <2> QED
      BY <1>1, <2>1, <2>2, PairKeeps
  <1>6. CASE tda_bitset_is_subset(d, e) \/ tda_bitset_intersects(d, e)
    BY <1>6, AnswersKeeps DEF tda_bitset_is_subset, tda_bitset_intersects
  <1> QED
    BY <1>2, <1>3, <1>4, <1>5, <1>6 DEF Pairs

-----------------------------------------------------------------------------
(* Lifetimes.                                                               *)

LEMMA CountWords ==
    ASSUME NEW q, NEW m \in Nat, DOMAIN q.words = 0 .. m - 1
    PROVE  NWords(q) = m
  BY FS_Interval DEF NWords

\* A block numbered null is not out: freeing it is a no-op.
LEMMA NullNotOut ==
    ASSUME BitSetAssumption, BitSetInv, NEW q, q.data = Null
    PROVE  heap \ {BlockOf(q)} = heap
  <1>1. BlockOf(q).id = Null
    BY BlockFields
  <1>2. BlockOf(q) \notin heap
    BY <1>1, HeapFinite DEF BitSetAssumption
  <1> QED
    BY <1>2

LEMMA DeadIsZeroed ==
    ASSUME BitSetAssumption, BitSetInv, NEW d \in Names, ~Alive(d)
    PROVE  bitsets[d] = Zeroed /\ bitsets[d].data = Null
  <1>1. bitsets[d] = Zeroed
    BY BitSetFields DEF BitSetInv, TypeOK, Alive
  <1> QED
    BY <1>1, EmptyIsBitSet DEF Zeroed

\* A bitset on a block of its own, fresh or none, with the words its bits need.
LEMMA OnNewBlock ==
    ASSUME BitSetAssumption, BitSetInv, NEW d \in Names, NEW q, q.al \in Als, q.nbits \in Sizes,
           q = [al |-> q.al, data |-> q.data, nbits |-> q.nbits, words |-> q.words],
           q.data = IF WordsFor(q.nbits) = 0 THEN Null ELSE FreshId(heap),
           q.words \in [0 .. WordsFor(q.nbits) - 1 -> SUBSET WordOnes], TailOK(q),
           bitsets' = [bitsets EXCEPT ![d] = q],
           heap' = (heap \ {BlockOf(bitsets[d])}) \cup
                       IF WordsFor(q.nbits) = 0 THEN {} ELSE {BlockOf(q)}
    PROVE  BitSetInv'
  <1>1. FreshId(heap) \in Nat /\ (\A b \in heap : b.id # FreshId(heap)) /\ Null \notin Nat
    BY FreshIdIsFresh DEF BitSetAssumption
  <1>2. q.data \in Nat \cup {Null} /\ (q.data = Null <=> WordsFor(q.nbits) = 0)
    BY <1>1
  <1>3. IsBitSet(q)
    BY <1>2, FieldsMakeBitSet DEF BitSetAssumption
  <1>4. heap' = HeapWith(bitsets[d], q)
    BY <1>2 DEF HeapWith
  <1>5. q.data \in {Null, bitsets[d].data} \/ \A b \in heap : b.id # q.data
    BY <1>1
  <1> HIDE DEF BitSetInv
  <1> QED
    BY <1>3, <1>4, <1>5, OneChanges

\* What init_nbits leaves: a refusal, or zero words on a new block.
LEMMA InitOutcomes ==
    ASSUME BitSetAssumption, BitSetInv, NEW al \in Als, NEW n \in Sizes,
           NEW r \in InitNbits(al, heap, n)
    PROVE  \/ ~r.ok /\ r.q = Zeroed /\ r.heap = heap
           \/ LET data == IF WordsFor(n) = 0 THEN Null ELSE FreshId(heap)
              IN  /\ r.ok
                  /\ r.q = [al |-> al, data |-> data, nbits |-> n,
                            words |-> [w \in 0 .. WordsFor(n) - 1 |-> {}]]
                  /\ r.heap = heap \cup IF WordsFor(n) = 0 THEN {}
                                        ELSE {[id |-> data, al |-> al, nwords |-> WordsFor(n)]}
  <1> DEFINE m == WordsFor(n)
             zeros == [w \in 0 .. m - 1 |-> {}]
             nil == [w \in {} |-> {}]
             q == [al |-> al, data |-> Null, nbits |-> n, words |-> nil]
             p == [al |-> al, data |-> FreshId(heap), nbits |-> n, words |-> zeros]
  <1>1. n \in Nat /\ m \in Nat
    BY WordsForCovers DEF Sizes, BitSetAssumption
  <1>2. [Empty(al) EXCEPT !.nbits = n] = q
    BY DEF Empty
  <1>3. CASE m = 0
    <2>1. r = Outcome(q, heap, TRUE)
      BY <1>2, <1>3 DEF InitNbits
    <2>2. zeros = [w \in {} |-> {}]
      BY <1>3
    <2> QED
      BY <1>3, <2>1, <2>2 DEF Outcome
  <1>4. CASE m # 0 /\ r = Outcome(Zeroed, heap, FALSE)
    BY <1>4 DEF Outcome
  <1>5. CASE m # 0 /\ r = Reblocked(q, heap, m, zeros)
    <2>1. [q EXCEPT !.data = FreshId(heap), !.words = zeros] = p
      <3> DEFINE t == [al |-> al, data |-> FreshId(heap), nbits |-> n, words |-> nil]
      <3> HIDE DEF zeros, nil
      <3>1. [q EXCEPT !.data = FreshId(heap), !.words = zeros]
            = [[q EXCEPT !.data = FreshId(heap)] EXCEPT !.words = zeros]
        OBVIOUS
      <3>2. [q EXCEPT !.data = FreshId(heap)] = t /\ [t EXCEPT !.words = zeros] = p
        OBVIOUS
      <3> QED
        BY <3>1, <3>2
    <2>2. r = Outcome(p, FreeBlock(q, heap) \cup {BlockOf(p)}, TRUE)
      BY <1>5, <2>1 DEF Reblocked
    <2>3. FreeBlock(q, heap) = heap
      BY NullNotOut DEF FreeBlock
    <2>4. NWords(p) = m
      BY <1>1, CountWords
    <2>5. BlockOf(p) = [id |-> FreshId(heap), al |-> al, nwords |-> m]
      BY <2>4 DEF BlockOf
    <2>6. r.ok /\ r.q = p /\ r.heap = heap \cup {BlockOf(p)}
      <3> HIDE DEF p
      <3> QED
        BY <2>2, <2>3 DEF Outcome
    <2> QED
      BY <1>5, <2>5, <2>6, Zenon
  <1> QED
    BY <1>2, <1>3, <1>4, <1>5 DEF InitNbits

LEMMA InitZeros ==
    ASSUME BitSetAssumption, BitSetInv, NEW al \in Als, NEW n \in Sizes,
           NEW r \in InitNbits(al, heap, n), r.ok
    PROVE  r.q.words = [w \in 0 .. WordsFor(n) - 1 |-> {}]
  <1> DEFINE zeros == [w \in 0 .. WordsFor(n) - 1 |-> {}]
  <1>1. PICK data : r.q = [al |-> al, data |-> data, nbits |-> n, words |-> zeros]
    BY InitOutcomes
  <1> HIDE DEF zeros
  <1>2. r.q.words = zeros
    BY <1>1
  <1> QED
    BY <1>2 DEF zeros

\* A new bitset, whatever it is filled with.
LEMMA InitKeeps ==
    ASSUME BitSetAssumption, BitSetInv, NEW d \in Names, ~Alive(d), NEW al \in Als, NEW n \in Sizes,
           NEW r \in InitNbits(al, heap, n), NEW words \in [0 .. WordsFor(n) - 1 -> SUBSET WordOnes],
           WordsFor(n) > 0 => words[WordsFor(n) - 1] \subseteq TailMask(n),
           bitsets' = [bitsets EXCEPT ![d] = IF r.ok THEN [r.q EXCEPT !.words = words] ELSE r.q],
           heap' = r.heap
    PROVE  BitSetInv'
  <1> DEFINE data == IF WordsFor(n) = 0 THEN Null ELSE FreshId(heap)
             q == [al |-> al, data |-> data, nbits |-> n, words |-> words]
  <1>1. bitsets[d] = Zeroed /\ heap \ {BlockOf(bitsets[d])} = heap
    BY DeadIsZeroed, NullNotOut
  <1>2. CASE ~r.ok
    <2>1. r.q = Zeroed /\ r.heap = heap
      BY <1>2, InitOutcomes
    <2>2. bitsets' = bitsets
      BY <1>1, <1>2, <2>1 DEF BitSetInv
    <2> QED
      BY <2>1, <2>2, StutterKeeps
  <1>3. CASE r.ok
    <2>1. /\ r.q = [al |-> al, data |-> data, nbits |-> n,
                    words |-> [w \in 0 .. WordsFor(n) - 1 |-> {}]]
          /\ r.heap = heap \cup IF WordsFor(n) = 0 THEN {}
                                ELSE {[id |-> data, al |-> al, nwords |-> WordsFor(n)]}
      BY <1>3, InitOutcomes
    <2>2. [r.q EXCEPT !.words = words] = q
      BY <2>1
    <2>3. n \in Nat /\ WordsFor(n) \in Nat
      BY WordsForCovers DEF Sizes, BitSetAssumption
    <2>4. NWords(q) = WordsFor(n)
      BY <2>3, CountWords
    <2>5. BlockOf(q) = [id |-> data, al |-> al, nwords |-> WordsFor(n)]
      BY <2>4 DEF BlockOf
    <2>6. bitsets' = [bitsets EXCEPT ![d] = q]
      BY <1>3, <2>2
    <2>7. heap' = (heap \ {BlockOf(bitsets[d])}) \cup IF WordsFor(n) = 0 THEN {} ELSE {BlockOf(q)}
      BY <1>1, <2>1, <2>5
    <2>8. q.al = al /\ q.data = data /\ q.nbits = n /\ q.words = words
      OBVIOUS
    <2>9. q = [al |-> q.al, data |-> q.data, nbits |-> q.nbits, words |-> q.words]
      BY <2>8
    <2>10. TailOK(q)
      BY <2>4, <2>8 DEF TailOK
    <2> HIDE DEF q
    <2> QED
      BY <2>6, <2>7, <2>8, <2>9, <2>10, OnNewBlock
  <1> QED
    BY <1>2, <1>3

LEMMA MakeKeeps ==
    ASSUME BitSetAssumption, BitSetInv, NEW d \in Names, NEW al \in Als, NEW n \in Sizes,
           NEW src \in SUBSET (0 .. n - 1), tda_bitset_make(d, al, n, src)
    PROVE  BitSetInv'
  <1>1. ~Alive(d) /\ n \in Nat
    BY DEF tda_bitset_make, Sizes, BitSetAssumption
  <1>2. PICK r \in InitNbits(al, heap, n) :
           /\ bitsets' = [bitsets EXCEPT ![d] = IF r.ok THEN SetBits(r.q, src) ELSE r.q]
           /\ heap' = r.heap
    BY DEF tda_bitset_make, Ends
  <1> DEFINE ones(w) == {BitOf(i) : i \in {j \in src : WordOf(j) = w}}
             words == [w \in 0 .. WordsFor(n) - 1 |-> ones(w)]
  <1>3. \A w : ones(w) \subseteq WordOnes /\ (w = WordsFor(n) - 1 => ones(w) \subseteq TailMask(n))
    BY <1>1, IndexInWords
  <1>4. words \in [0 .. WordsFor(n) - 1 -> SUBSET WordOnes]
    BY <1>3
  <1>5. WordsFor(n) > 0 => words[WordsFor(n) - 1] \subseteq TailMask(n)
    <2>1. WordsFor(n) \in Nat
      BY <1>1, WordsForCovers
    <2>2. WordsFor(n) > 0 => words[WordsFor(n) - 1] = ones(WordsFor(n) - 1)
      BY <2>1
    <2> QED
      BY <1>3, <2>2
  <1>6. r.ok => SetBits(r.q, src) = [r.q EXCEPT !.words = words]
    <2>1. SUFFICES ASSUME r.ok PROVE SetBits(r.q, src) = [r.q EXCEPT !.words = words]
      OBVIOUS
    <2> DEFINE zeros == [w \in 0 .. WordsFor(n) - 1 |-> {}]
    <2>2. r.q.words = zeros
      BY <2>1, InitZeros
    <2>3. [w \in DOMAIN zeros |-> zeros[w] \cup ones(w)] = words
      OBVIOUS
    <2> QED
      BY <2>2, <2>3 DEF SetBits
  <1> HIDE DEF words
  <1>7. bitsets' = [bitsets EXCEPT ![d] = IF r.ok THEN [r.q EXCEPT !.words = words] ELSE r.q]
    BY <1>2, <1>6
  <1> QED
    BY <1>1, <1>2, <1>4, <1>5, <1>7, InitKeeps

LEMMA CopyKeeps ==
    ASSUME BitSetAssumption, BitSetInv, NEW d \in Names, NEW al \in Als, NEW e \in Names,
           tda_bitset_copy_with(d, al, e)
    PROVE  BitSetInv'
  <1> DEFINE p == bitsets[e]
             n == p.nbits
             words == [w \in 0 .. WordsFor(n) - 1 |-> p.words[w]]
  <1>1. ~Alive(d)
    BY DEF tda_bitset_copy_with
  <1>2. PICK r \in InitNbits(al, heap, n) :
           /\ bitsets' = [bitsets EXCEPT ![d] = IF r.ok THEN CopyWords(r.q, p) ELSE r.q]
           /\ heap' = r.heap
    BY DEF tda_bitset_copy_with, Ends
  <1>3. /\ n \in Sizes /\ NWords(p) = WordsFor(n)
        /\ p.words \in [0 .. WordsFor(n) - 1 -> SUBSET WordOnes]
    BY BitSetFields DEF BitSetInv, TypeOK
  <1>4. words = p.words
    BY <1>3
  <1>5. WordsFor(n) > 0 => words[WordsFor(n) - 1] \subseteq TailMask(n)
    BY <1>3, <1>4, HasWords
  <1>6. r.ok => CopyWords(r.q, p) = [r.q EXCEPT !.words = words]
    <2>1. SUFFICES ASSUME r.ok PROVE CopyWords(r.q, p) = [r.q EXCEPT !.words = words]
      OBVIOUS
    <2>2. DOMAIN r.q.words = 0 .. WordsFor(n) - 1
      <3>1. r.q.words = [w \in 0 .. WordsFor(n) - 1 |-> {}]
        BY <1>3, <2>1, InitZeros, Zenon
      <3> QED
        BY <3>1
    <2> QED
      BY <2>2 DEF CopyWords
  <1> HIDE DEF words
  <1>7. bitsets' = [bitsets EXCEPT ![d] = IF r.ok THEN [r.q EXCEPT !.words = words] ELSE r.q]
    BY <1>2, <1>6
  <1>8. words \in [0 .. WordsFor(n) - 1 -> SUBSET WordOnes]
    BY <1>3, <1>4
  <1> HIDE DEF n
  <1> QED
    BY <1>1, <1>2, <1>3, <1>5, <1>7, <1>8, InitKeeps

LEMMA DeinitKeeps ==
    ASSUME BitSetAssumption, BitSetInv, NEW d \in Names, tda_bitset_deinit(d)
    PROVE  BitSetInv'
  <1>1. /\ bitsets' = [bitsets EXCEPT ![d] = Zeroed]
        /\ heap' = IF Alive(d) THEN heap \ {BlockOf(bitsets[d])} ELSE heap
    BY DEF tda_bitset_deinit, Ends, FreeBlock
  <1>2. IsBitSet(Zeroed) /\ Zeroed.data = Null /\ NWords(Zeroed) = 0
    BY EmptyIsBitSet DEF Zeroed
  <1>3. TailOK(Zeroed)
    BY <1>2 DEF TailOK
  <1>4. heap' = heap \ {BlockOf(bitsets[d])}
    BY <1>1, DeadIsZeroed, NullNotOut
  <1>5. heap' = HeapWith(bitsets[d], Zeroed)
    BY <1>2, <1>4 DEF HeapWith
  <1> QED
    BY <1>1, <1>2, <1>3, <1>5, OneChanges

LEMMA CopyAssignKeeps ==
    ASSUME BitSetAssumption, BitSetInv, NEW d \in Names, NEW e \in Names, tda_bitset_copy_assign(d, e)
    PROVE  BitSetInv'
  <1> DEFINE q == bitsets[d]
             p == bitsets[e]
             n == p.nbits
             full(data) == [al |-> q.al, data |-> data, nbits |-> n, words |-> p.words]
             same == Outcome(q, heap, TRUE)
             room == IF NWords(q) = NWords(p) THEN {same}
                     ELSE {Reblocked(q, heap, NWords(p), p.words)}
                          \cup IF NWords(p) > 0 THEN {Outcome(q, heap, FALSE)} ELSE {}
             filled(r) == IF r.ok THEN [r EXCEPT !.q = [CopyWords(@, p) EXCEPT !.nbits = p.nbits]] ELSE r
  <1>1. IsBitSet(q) /\ IsBitSet(p) /\ q.al \in Als
    BY BitSetFields DEF BitSetInv, TypeOK, tda_bitset_copy_assign, Alive
  <1>2. /\ q = [al |-> q.al, data |-> q.data, nbits |-> q.nbits, words |-> q.words]
        /\ DOMAIN q.words = 0 .. NWords(q) - 1 /\ NWords(q) \in Nat
        /\ q.data \in Nat \cup {Null} /\ (q.data = Null <=> NWords(q) = 0)
        /\ BlockOf(q) = [id |-> q.data, al |-> q.al, nwords |-> NWords(q)]
    BY <1>1, BitSetFields
  <1>3. /\ n \in Sizes /\ n \in Nat /\ NWords(p) = WordsFor(n) /\ NWords(p) \in Nat
        /\ p.words \in [0 .. WordsFor(n) - 1 -> SUBSET WordOnes]
        /\ NWords(p) > 0 => p.words[NWords(p) - 1] \subseteq TailMask(n)
    BY <1>1, BitSetFields, HasWords
  <1>4. \A data : /\ full(data).al = q.al /\ full(data).data = data /\ full(data).nbits = n
                  /\ full(data).words = p.words
                  /\ NWords(full(data)) = WordsFor(n) /\ TailOK(full(data))
                  /\ BlockOf(full(data)) = [id |-> data, al |-> q.al, nwords |-> WordsFor(n)]
    <2>1. SUFFICES ASSUME NEW data
                   PROVE  /\ full(data).al = q.al /\ full(data).data = data /\ full(data).nbits = n
                          /\ full(data).words = p.words
                          /\ NWords(full(data)) = WordsFor(n) /\ TailOK(full(data))
                          /\ BlockOf(full(data)) = [id |-> data, al |-> q.al, nwords |-> WordsFor(n)]
      OBVIOUS
    <2>2. /\ full(data).al = q.al /\ full(data).data = data /\ full(data).nbits = n
          /\ full(data).words = p.words
      OBVIOUS
    <2> HIDE DEF full
    <2>3. NWords(full(data)) = WordsFor(n)
      BY <1>3, <2>2, CountWords
    <2>4. TailOK(full(data))
      BY <1>3, <2>2, <2>3 DEF TailOK
    <2>5. BlockOf(full(data)) = [id |-> data, al |-> q.al, nwords |-> WordsFor(n)]
      BY <2>2, <2>3 DEF BlockOf
    <2> QED
      BY <2>2, <2>3, <2>4, <2>5
  <1>5. PICK r \in IF d = e THEN {same} ELSE {filled(s) : s \in room} :
           bitsets' = [bitsets EXCEPT ![d] = r.q] /\ heap' = r.heap
    BY DEF tda_bitset_copy_assign, Ends
  <1>6. CASE r.q = q /\ r.heap = heap
    <2>1. bitsets' = bitsets
      BY <1>5, <1>6 DEF BitSetInv
    <2> QED
      BY <1>5, <1>6, <2>1, StutterKeeps
  <1>7. CASE NWords(q) = NWords(p) /\ r = filled(same)
    <2>1. same.ok /\ same.q = q /\ same.heap = heap
      BY DEF Outcome
    <2>2. [w \in DOMAIN q.words |-> p.words[w]] = p.words
      BY <1>2, <1>3, <1>7
    <2>3. CopyWords(q, p) = [q EXCEPT !.words = p.words]
      BY <2>2 DEF CopyWords
    <2>4. [[q EXCEPT !.words = p.words] EXCEPT !.nbits = n] = full(q.data)
      <3> DEFINE u == [al |-> q.al, data |-> q.data, nbits |-> q.nbits, words |-> p.words]
      <3>1. [q EXCEPT !.words = p.words] = u
        BY <1>2
      <3>2. [u EXCEPT !.nbits = n] = full(q.data)
        OBVIOUS
      <3> QED
        BY <3>1, <3>2
    <2>5. r.q = full(q.data) /\ r.heap = heap
      BY <1>7, <2>1, <2>3, <2>4 DEF Outcome
    <2>6. IsBitSet(full(q.data))
      BY <1>1, <1>2, <1>3, <1>7, FieldsMakeBitSet DEF BitSetAssumption
    <2>7. BlockOf(full(q.data)) = BlockOf(q)
      BY <1>2, <1>3, <1>4, <1>7
    <2>8. heap' = HeapWith(q, full(q.data))
      BY <1>5, <2>5, <2>7, SameBlock
    <2>9. TailOK(full(q.data)) /\ full(q.data).data = q.data
      BY <1>4
    <2> HIDE DEF full
    <2> QED
      BY <1>5, <2>5, <2>6, <2>8, <2>9, OneChanges
  <1>8. CASE NWords(q) # NWords(p) /\ r = filled(Reblocked(q, heap, NWords(p), p.words))
    <2> DEFINE data == IF WordsFor(n) = 0 THEN Null ELSE FreshId(heap)
               t == [al |-> q.al, data |-> data, nbits |-> q.nbits, words |-> p.words]
               freed == (heap \ {BlockOf(q)}) \cup IF WordsFor(n) = 0 THEN {} ELSE {BlockOf(t)}
    <2>1. [q EXCEPT !.data = data, !.words = p.words] = t
      <3> DEFINE u == [al |-> q.al, data |-> data, nbits |-> q.nbits, words |-> q.words]
      <3> HIDE DEF data
      <3>1. [q EXCEPT !.data = data, !.words = p.words] = [[q EXCEPT !.data = data] EXCEPT !.words = p.words]
        OBVIOUS
      <3>2. [q EXCEPT !.data = data] = u
        BY <1>2
      <3>3. [u EXCEPT !.words = p.words] = t
        OBVIOUS
      <3> QED
        BY <3>1, <3>2, <3>3
    <2>2. Reblocked(q, heap, NWords(p), p.words) = Outcome(t, freed, TRUE)
      BY <1>3, <2>1 DEF Reblocked, FreeBlock
    <2>3. BlockOf(t) = BlockOf(full(data))
      <3>1. t.words = p.words /\ t.data = data /\ t.al = q.al
        OBVIOUS
      <3>2. NWords(t) = WordsFor(n)
        BY <1>3, <3>1, CountWords
      <3> QED
        BY <1>4, <3>1, <3>2 DEF BlockOf
    <2>4. CopyWords(t, p) = t
      <3>1. t.words = p.words
        OBVIOUS
      <3>2. [w \in DOMAIN p.words |-> p.words[w]] = p.words
        BY <1>3
      <3>3. CopyWords(t, p) = [t EXCEPT !.words = p.words]
        BY <3>1, <3>2 DEF CopyWords
      <3> HIDE DEF data
      <3> QED
        BY <3>3
    <2>5. [t EXCEPT !.nbits = n] = full(data)
      <3> HIDE DEF data
      <3> QED
        OBVIOUS
    <2>6. r.q = full(data) /\ r.heap = freed
      <3> DEFINE s == Outcome(t, freed, TRUE)
      <3>1. s.ok /\ s.q = t /\ s.heap = freed
        <4> HIDE DEF t, freed
        <4> QED
          BY DEF Outcome
      <3>2. r = [s EXCEPT !.q = full(data)]
        BY <1>8, <2>2, <2>4, <2>5, <3>1
      <3> HIDE DEF full, t, freed, data
      <3> QED
        BY <3>2 DEF Outcome
    <2>7. /\ full(data).al \in Als /\ full(data).nbits \in Sizes
          /\ full(data) = [al |-> full(data).al, data |-> full(data).data,
                           nbits |-> full(data).nbits, words |-> full(data).words]
          /\ full(data).data = IF WordsFor(full(data).nbits) = 0 THEN Null ELSE FreshId(heap)
          /\ full(data).words \in [0 .. WordsFor(full(data).nbits) - 1 -> SUBSET WordOnes]
          /\ TailOK(full(data))
      BY <1>1, <1>3, <1>4
    <2>8. heap' = (heap \ {BlockOf(q)}) \cup
                      IF WordsFor(full(data).nbits) = 0 THEN {} ELSE {BlockOf(full(data))}
      BY <1>4, <1>5, <2>3, <2>6
    <2>9. bitsets' = [bitsets EXCEPT ![d] = full(data)]
      BY <1>5, <2>6
    <2> HIDE DEF full, data
    <2> QED
      BY <2>7, <2>8, <2>9, OnNewBlock
  <1>9. same.q = q /\ same.heap = heap
    BY DEF Outcome
  <1>10. filled(Outcome(q, heap, FALSE)).q = q /\ filled(Outcome(q, heap, FALSE)).heap = heap
    BY DEF Outcome
  <1> HIDE DEF filled, same
  <1> QED
    BY <1>5, <1>6, <1>7, <1>8, <1>9, <1>10

\* The block of the target goes back, and the source's changes hands.
LEMMA MoveAssignKeeps ==
    ASSUME BitSetAssumption, BitSetInv, NEW d \in Names, NEW e \in Names, tda_bitset_move_assign(d, e)
    PROVE  BitSetInv'
  <1>1. CASE d = e
    BY <1>1, StutterKeeps DEF tda_bitset_move_assign
  <1>2. CASE d # e
    <2> DEFINE left == Empty(bitsets[e].al)
    <2>1. /\ bitsets' = [bitsets EXCEPT ![d] = bitsets[e], ![e] = left]
          /\ heap' = heap \ {BlockOf(bitsets[d])}
      BY <1>2, DeadIsZeroed, NullNotOut DEF tda_bitset_move_assign, FreeBlock
    <2>2. /\ bitsets'[d] = bitsets[e] /\ bitsets'[e] = left
          /\ \A x \in Names : x # d /\ x # e => bitsets'[x] = bitsets[x]
          /\ bitsets' = [x \in Names |-> bitsets'[x]]
      BY <1>2, <2>1 DEF BitSetInv
    <2>3. IsBitSet(left) /\ left.data = Null /\ NWords(left) = 0
      BY EmptyIsBitSet, BitSetFields DEF BitSetInv, TypeOK
    <2> HIDE DEF left
    <2>4. TypeOK'
      BY <2>2, <2>3 DEF BitSetInv, TypeOK
    <2>5. TailClear'
      BY <2>2, <2>3 DEF BitSetInv, TailClear
    <2>6. /\ e \notin Owners' /\ (d \in Owners' <=> e \in Owners)
          /\ \A x \in Names : x # d /\ x # e => (x \in Owners' <=> x \in Owners)
      BY <2>2, <2>3 DEF Owners
    <2>7. ASSUME NEW x \in Owners, x # d
          PROVE  BlockOf(bitsets[x]) \in heap /\ BlockOf(bitsets[x]) # BlockOf(bitsets[d])
      <3>1. x \in Names /\ bitsets[x].data # Null
        BY DEF Owners
      <3>2. bitsets[x].data # bitsets[d].data
        BY <2>7, <3>1 DEF BitSetInv, HeldApart, Owners
      <3> QED
        BY <3>2, BlockFields DEF BitSetInv, HeldApart
    <2>8. ASSUME NEW b \in heap' PROVE \E x \in Owners' : b = BlockOf(bitsets'[x])
      <3>1. PICK x \in Owners : b = BlockOf(bitsets[x])
        BY <2>1 DEF BitSetInv, HeldApart
      <3>2. x \in Names /\ x # d
        BY <2>1, <3>1 DEF Owners
      <3>3. CASE x = e
        BY <2>2, <2>6, <3>1, <3>3
      <3>4. CASE x # e
        BY <2>2, <2>6, <3>1, <3>2, <3>4
      <3> QED
        BY <3>3, <3>4
    <2>9. ASSUME NEW x \in Owners' PROVE BlockOf(bitsets'[x]) \in heap'
      <3>1. x \in Names /\ x # e
        BY <2>6 DEF Owners
      <3>2. CASE x = d
        BY <1>2, <2>1, <2>2, <2>6, <2>7, <3>2
      <3>3. CASE x # d
        BY <2>1, <2>2, <2>6, <2>7, <3>1, <3>3
      <3> QED
        BY <3>2, <3>3
    <2>10. (heap = {BlockOf(bitsets[x]) : x \in Owners})'
      BY <2>8, <2>9 DEF BlockOf, NWords
    <2>11. ASSUME NEW x \in Owners', NEW y \in Owners', bitsets'[x].data = bitsets'[y].data
           PROVE  x = y
      <3>1. x \in Names /\ y \in Names /\ x # e /\ y # e
        BY <2>6 DEF Owners
      <3> QED
        BY <2>2, <2>6, <2>11, <3>1 DEF BitSetInv, HeldApart
    <2> QED
      BY <2>2, <2>4, <2>5, <2>10, <2>11 DEF BitSetInv, HeldApart
  <1> QED
    BY <1>1, <1>2

LEMMA SwapKeeps ==
    ASSUME BitSetAssumption, BitSetInv, NEW d \in Names, NEW e \in Names, tda_bitset_swap(d, e)
    PROVE  BitSetInv'
  <1> DEFINE other(x) == IF x = d THEN e ELSE IF x = e THEN d ELSE x
  <1>1. bitsets' = [bitsets EXCEPT ![d] = bitsets[e], ![e] = bitsets[d]] /\ heap' = heap
    BY DEF tda_bitset_swap
  <1>2. /\ \A x \in Names : other(x) \in Names /\ other(other(x)) = x /\ bitsets'[x] = bitsets[other(x)]
        /\ bitsets' = [x \in Names |-> bitsets'[x]]
    BY <1>1 DEF BitSetInv
  <1> HIDE DEF other
  <1>3. TypeOK' /\ TailClear'
    BY <1>2 DEF BitSetInv, TypeOK, TailClear
  <1>4. \A x \in Names : x \in Owners' <=> other(x) \in Owners
    BY <1>2 DEF Owners
  <1>5. ASSUME NEW b \in heap' PROVE \E x \in Owners' : b = BlockOf(bitsets'[x])
    <2>1. PICK x \in Owners : b = BlockOf(bitsets[x])
      BY <1>1 DEF BitSetInv, HeldApart
    <2>2. x \in Names
      BY DEF Owners
    <2> QED
      BY <1>2, <1>4, <2>1, <2>2
  <1>6. ASSUME NEW x \in Owners' PROVE BlockOf(bitsets'[x]) \in heap'
    <2>1. x \in Names
      BY DEF Owners
    <2>2. other(x) \in Owners /\ bitsets'[x] = bitsets[other(x)]
      BY <1>2, <1>4, <2>1
    <2>3. BlockOf(bitsets[other(x)]) \in heap
      BY <2>2 DEF BitSetInv, HeldApart
    <2> QED
      BY <1>1, <2>2, <2>3
  <1>7. (heap = {BlockOf(bitsets[x]) : x \in Owners})'
    BY <1>5, <1>6 DEF BlockOf, NWords
  <1>8. ASSUME NEW x \in Owners', NEW y \in Owners', bitsets'[x].data = bitsets'[y].data
        PROVE  x = y
    <2>1. x \in Names /\ y \in Names
      BY DEF Owners
    <2>2. /\ other(x) \in Owners /\ bitsets'[x] = bitsets[other(x)]
          /\ other(y) \in Owners /\ bitsets'[y] = bitsets[other(y)]
      BY <1>2, <1>4, <2>1
    <2>3. other(x) = other(y)
      BY <1>8, <2>2 DEF BitSetInv, HeldApart
    <2> QED
      BY <1>2, <2>1, <2>3
  <1> QED
    BY <1>2, <1>3, <1>7, <1>8 DEF BitSetInv, HeldApart

-----------------------------------------------------------------------------
(* The specification.                                                       *)

LEMMA InitHolds ==
    ASSUME BitSetAssumption, Init
    PROVE  BitSetInv
  <1>1. \A d \in Names : bitsets[d] = Zeroed
    BY DEF Init
  <1>2. IsBitSet(Zeroed) /\ Zeroed.data = Null /\ NWords(Zeroed) = 0
    BY EmptyIsBitSet DEF Zeroed
  <1>3. Owners = {} /\ heap = {}
    BY <1>1, <1>2 DEF Owners, Init
  <1>4. HeldApart
    BY <1>3 DEF HeldApart
  <1>5. bitsets = [d \in Names |-> bitsets[d]]
    BY DEF Init
  <1> QED
    BY <1>1, <1>2, <1>4, <1>5 DEF BitSetInv, TypeOK, TailClear

LEMMA NextKeeps ==
    ASSUME BitSetAssumption, BitSetInv, [Next]_vars
    PROVE  BitSetInv'
  <1>1. CASE UNCHANGED vars
    BY <1>1, StutterKeeps DEF vars
  <1>2. CASE Lifetime
    <2>1. PICK d \in Names, e \in Names :
            \/ \E al \in Als, n \in Sizes : \E src \in SUBSET (0 .. n - 1) : tda_bitset_make(d, al, n, src)
            \/ tda_bitset_deinit(d)
            \/ \E al \in Als : tda_bitset_copy_with(d, al, e)
            \/ tda_bitset_copy_assign(d, e) \/ tda_bitset_move_assign(d, e) \/ tda_bitset_swap(d, e)
      BY <1>2 DEF Lifetime
    <2> QED
      BY <2>1, MakeKeeps, DeinitKeeps, CopyKeeps, CopyAssignKeeps, MoveAssignKeeps, SwapKeeps
  <1>3. CASE \E d \in Names : Alive(d) /\ (OneBit(d) \/ AllBits(d))
    BY <1>3, OneBitKeeps, AllBitsKeeps
  <1>4. CASE \E d, e \in Names : Alive(d) /\ Alive(e) /\ (Pairs(d, e) \/ tda_bitset_eq(d, e))
    BY <1>4, PairsKeep, AnswersKeeps DEF tda_bitset_eq
  <1> QED
    BY <1>1, <1>2, <1>3, <1>4 DEF Next

\* The invariant gives what the runs check.
LEMMA InvImpliesWordsSound ==
    ASSUME BitSetAssumption, BitSetInv
    PROVE  WordsSound
  <1> DEFINE f == [d \in Owners |-> BlockOf(bitsets[d])]
  <1>1. IsFiniteSet(Owners)
    BY FS_Subset DEF Owners, BitSetAssumption
  <1>2. \A d, e \in Owners : f[d] = f[e] => d = e
    BY BlockFields DEF BitSetInv, HeldApart
  <1>3. f = [d \in Owners |-> f[d]] /\ heap = {f[d] : d \in Owners}
    BY DEF BitSetInv, HeldApart
  <1> HIDE DEF f
  <1>4. Cardinality(heap) = Cardinality(Owners)
    BY <1>1, <1>2, <1>3, OneEach
  <1>5. ASSUME NEW d \in Names PROVE NWords(bitsets[d]) * WordBits >= bitsets[d].nbits
    BY HasWords, WordsForCovers
  <1>6. BlocksOwned
    BY <1>4, <1>5 DEF BlocksOwned, BitSetInv, HeldApart, Owners
  <1> QED
    BY <1>6 DEF WordsSound, BitSetInv

\* Each bitset has a sound block of its own: the invariant of tda_bitset_* for every width of
\* a word, every number of bits and any number of handles.
THEOREM BitSetInvariant == Spec => []BitSetInv
  <1>1. Init => BitSetInv
    BY BitSetAssumption, InitHolds
  <1>2. BitSetInv /\ [Next]_vars => BitSetInv'
    BY BitSetAssumption, NextKeeps
  <1> QED
    BY <1>1, <1>2, PTL DEF Spec

\* The words of a bitset are as many as its bits need and in a block held once, and no bit
\* past the last live one is set, after any calls of tda_bitset_*, refused ones included.
THEOREM BitSetWordsSound == Spec => []WordsSound
  <1>1. BitSetInv => WordsSound
    BY BitSetAssumption, InvImpliesWordsSound
  <1> QED
    BY <1>1, BitSetInvariant, PTL
=============================================================================
