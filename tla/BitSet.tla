------------------------------- MODULE BitSet ------------------------------
(***************************************************************************)
(* The fixed-size bitset of src/ds/bitset.c: nbits bits in words of         *)
(* WordBits.  A word is the set of its one bits, so that | & &~ and ^ are   *)
(* the set operations and a mask is a range of bits.                        *)
(*                                                                         *)
(* bitsets maps each handle to its tda_BitSet; a zeroed handle has no       *)
(* allocator.  heap is the set of blocks the allocators have out, call the  *)
(* last call made.  An allocator may refuse any request.                    *)
(***************************************************************************)
EXTENDS Layout, Sequences, FiniteSetsExt, Functions, TLC

CONSTANTS
    Names,    \* the handles
    Als,      \* the allocators
    WordBits  \* bits in a word

ASSUME BitSetAssumption ==
    /\ IsFiniteSet(Names)
    /\ Null \notin Als /\ Null \notin Nat /\ SizeMax \in Nat \ {0} /\ WordBits \in Nat \ {0}

VARIABLES bitsets, heap, call

vars == <<bitsets, heap, call>>

Sizes == 0 .. SizeMax
WordOnes == 0 .. WordBits - 1

-----------------------------------------------------------------------------
(* Words.  q is a tda_BitSet.                                               *)

WordsFor(nbits) == nbits \div WordBits + (IF nbits % WordBits # 0 THEN 1 ELSE 0)

Empty(al) == [al |-> al, data |-> Null, nbits |-> 0, words |-> [w \in {} |-> {}]]
Zeroed == Empty(Null)

WordOf(idx) == idx \div WordBits
BitOf(idx) == idx % WordBits

\* the live bits of the last word
TailMask(nbits) == LET rem == nbits % WordBits IN IF rem = 0 THEN WordOnes ELSE 0 .. rem - 1

NWords(q) == Cardinality(DOMAIN q.words)

ClearTail(q) ==
    IF NWords(q) = 0 THEN q ELSE [q EXCEPT !.words[NWords(q) - 1] = @ \cap TailMask(q.nbits)]

\* the indices of the one bits
Members(q) == UNION {{w * WordBits + b : b \in q.words[w]} : w \in DOMAIN q.words}

WordFrom(word, from) == word \cap (BitOf(from) .. WordBits - 1)
WordUpto(word, upto) == word \cap (0 .. BitOf(upto))

IdxOfFirstOne(w, word) == w * WordBits + Min(word)
IdxOfLastOne(w, word) == w * WordBits + Max(word)

\* one memcpy over the words of dst; the number of bits is not part of it
CopyWords(dst, src) == [dst EXCEPT !.words = [w \in DOMAIN @ |-> src.words[w]]]

\* word w of the set, or of its complement
WordAsSeen(q, w, clear) == SymDiff(q.words[w], IF clear THEN WordOnes ELSE {})

\* broken: a one found past the universe is taken for a hit
FindNextPast(q, clear, from) ==
    LET walk[w \in DOMAIN q.words] ==
            LET seen == WordAsSeen(q, w, clear)
                word == IF w = WordOf(from) THEN WordFrom(seen, from) ELSE seen
            IN  IF word # {} THEN IdxOfFirstOne(w, word)
                ELSE IF w + 1 = NWords(q) THEN Null ELSE walk[w + 1]
    IN  IF from >= q.nbits THEN Null ELSE walk[WordOf(from)]

\* up from the word of 'from': the first one bit seen, unless it lies past the universe
FindNextImpl(q, clear, from) ==
    LET walk[w \in DOMAIN q.words] ==
            LET seen == WordAsSeen(q, w, clear)
                word == IF w = WordOf(from) THEN WordFrom(seen, from) ELSE seen
                idx == IdxOfFirstOne(w, word)
            IN  IF word # {} THEN IF idx >= q.nbits THEN Null ELSE idx
                ELSE IF w + 1 = NWords(q) THEN Null ELSE walk[w + 1]
    IN  IF from >= q.nbits THEN Null ELSE walk[WordOf(from)]

\* down from the word of 'from', or of the last bit
FindPrevImpl(q, clear, from) ==
    LET start == IF from >= q.nbits THEN q.nbits - 1 ELSE from
        walk[w \in DOMAIN q.words] ==
            LET seen == WordAsSeen(q, w, clear)
                word == IF w = WordOf(start) THEN WordUpto(seen, start) ELSE seen
            IN  IF word # {} THEN IdxOfLastOne(w, word)
                ELSE IF w = 0 THEN Null ELSE walk[w - 1]
    IN  IF q.nbits = 0 THEN Null ELSE walk[WordOf(start)]

\* the indices in turn, each looked for past the one before
Walk(q) ==
    LET walk[from \in 0 .. q.nbits] ==
            LET idx == FindNextImpl(q, FALSE, from)
            IN  IF idx = Null THEN <<>> ELSE <<idx>> \o walk[idx + 1]
    IN  walk[0]

-----------------------------------------------------------------------------
(* Blocks.  An outcome is [q, heap, ok].                                    *)

Outcome(q, h, ok) == [q |-> q, heap |-> h, ok |-> ok]

FreshId(h) == CHOOSE id \in 1 .. Cardinality(h) + 1 : \A b \in h : b.id # id

BlockOf(q) == [id |-> q.data, al |-> q.al, nwords |-> NWords(q)]

\* tda_dealloc: sized, and null is a no-op
FreeBlock(q, h) == h \ {BlockOf(q)}

\* q with a block of n words in place of its own
Reblocked(q, h, n, words) ==
    LET p == [q EXCEPT !.data = IF n = 0 THEN Null ELSE FreshId(h), !.words = words]
    IN  Outcome(p, FreeBlock(q, h) \cup IF n = 0 THEN {} ELSE {BlockOf(p)}, TRUE)

InitNbits(al, h, nbits) ==
    LET q == [Empty(al) EXCEPT !.nbits = nbits]
        n == WordsFor(nbits)
    IN  IF n = 0 THEN {Outcome(q, h, TRUE)}
        ELSE {Outcome(Zeroed, h, FALSE), Reblocked(q, h, n, [w \in 0 .. n - 1 |-> {}])}

-----------------------------------------------------------------------------
(* The calls.                                                               *)

Init == bitsets = [d \in Names |-> Zeroed] /\ heap = {} /\ call = [op |-> "none"]

Alive(d) == bitsets[d].al # Null

Ends(c, d, q, h, ok) ==
    /\ bitsets' = [bitsets EXCEPT ![d] = q]
    /\ heap' = h
    /\ call' = c @@ [d |-> d, from |-> d, ok |-> ok]

EndsOk(c, d, q) == Ends(c, d, q, heap, TRUE)

\* a call that only reads: its answer is out
Answers(c, d, out) == EndsOk(c @@ [out |-> out], d, bitsets[d])

SetBit(q, idx) == [q EXCEPT !.words[WordOf(idx)] = @ \cup {BitOf(idx)}]
ResetBit(q, idx) == [q EXCEPT !.words[WordOf(idx)] = @ \ {BitOf(idx)}]

\* the indices of src set one by one: each adds its bit to its word
SetBits(q, src) ==
    [q EXCEPT !.words = [w \in DOMAIN @ |-> @[w] \cup {BitOf(i) : i \in {j \in src : WordOf(j) = w}}]]

\* init_nbits, init_len and from_span
tda_bitset_make(d, al, nbits, src) ==
    /\ ~Alive(d) /\ src \subseteq 0 .. nbits - 1
    /\ \E r \in InitNbits(al, heap, nbits) :
          Ends([op |-> "make", n |-> nbits, src |-> src], d,
               IF r.ok THEN SetBits(r.q, src) ELSE r.q, r.heap, r.ok)

tda_bitset_deinit(d) ==
    Ends([op |-> "deinit"], d, Zeroed, IF Alive(d) THEN FreeBlock(bitsets[d], heap) ELSE heap, TRUE)

\* copy and copy_with
tda_bitset_copy_with(d, al, e) ==
    /\ ~Alive(d) /\ Alive(e)
    /\ \E r \in InitNbits(al, heap, bitsets[e].nbits) :
          Ends([op |-> "copy", from |-> e], d,
               IF r.ok THEN CopyWords(r.q, bitsets[e]) ELSE r.q, r.heap, r.ok)

\* broken: the number of words is compared, and the number of bits taken for the same
CopyAssignKeepsBits(d, e) ==
    LET q == bitsets[d]
        p == bitsets[e]
    IN  /\ Alive(d) /\ Alive(e)
        /\ \E r \in IF NWords(q) = NWords(p) THEN {Outcome([q EXCEPT !.words = p.words], heap, TRUE)}
                    ELSE {Outcome(q, heap, FALSE),
                          Reblocked([q EXCEPT !.nbits = p.nbits], heap, NWords(p), p.words)} :
              Ends([op |-> "copy", from |-> e], d, r.q, r.heap, r.ok)

\* realloc to other's words, where 0 hands the block back and is no failure
tda_bitset_copy_assign(d, e) ==
    LET q == bitsets[d]
        p == bitsets[e]
        same == Outcome(q, heap, TRUE)
        room == IF NWords(q) = NWords(p) THEN {same}
                ELSE {Reblocked(q, heap, NWords(p), p.words)}
                     \cup IF NWords(p) > 0 THEN {Outcome(q, heap, FALSE)} ELSE {}
        filled(r) == IF r.ok THEN [r EXCEPT !.q = [CopyWords(@, p) EXCEPT !.nbits = p.nbits]] ELSE r
    IN  /\ Alive(d) /\ Alive(e)
        /\ \E r \in IF d = e THEN {same} ELSE {filled(s) : s \in room} :
              Ends([op |-> "copy", from |-> e], d, r.q, r.heap, r.ok)

tda_bitset_move_assign(d, e) ==
    /\ Alive(e)
    /\ bitsets' = IF d = e THEN bitsets
                  ELSE [bitsets EXCEPT ![d] = bitsets[e], ![e] = Empty(bitsets[e].al)]
    /\ heap' = IF d # e /\ Alive(d) THEN FreeBlock(bitsets[d], heap) ELSE heap
    /\ call' = [op |-> "move_assign", from |-> e, d |-> d, ok |-> TRUE]

tda_bitset_swap(d, e) ==
    /\ Alive(d) /\ Alive(e)
    /\ bitsets' = [bitsets EXCEPT ![d] = bitsets[e], ![e] = bitsets[d]]
    /\ call' = [op |-> "swap", from |-> e, d |-> d, ok |-> TRUE]
    /\ UNCHANGED heap

tda_bitset_set(d, idx) == EndsOk([op |-> "set", idx |-> idx], d, SetBit(bitsets[d], idx))

tda_bitset_reset(d, idx) == EndsOk([op |-> "reset", idx |-> idx], d, ResetBit(bitsets[d], idx))

tda_bitset_flip(d, idx) ==
    EndsOk([op |-> "flip", idx |-> idx], d,
           [bitsets[d] EXCEPT !.words[WordOf(idx)] = SymDiff(@, {BitOf(idx)})])

tda_bitset_set_to(d, idx, on) == IF on THEN tda_bitset_set(d, idx) ELSE tda_bitset_reset(d, idx)

\* every word filled with one byte
FillWords(q, word) == [q EXCEPT !.words = [w \in DOMAIN @ |-> word]]

tda_bitset_set_all(d) ==
    EndsOk([op |-> "set_all"], d, ClearTail(FillWords(bitsets[d], WordOnes)))

tda_bitset_reset_all(d) == EndsOk([op |-> "reset_all"], d, FillWords(bitsets[d], {}))

tda_bitset_flip_all(d) ==
    EndsOk([op |-> "flip_all"], d,
           ClearTail([bitsets[d] EXCEPT !.words = [w \in DOMAIN @ |-> WordOnes \ @[w]]]))

tda_bitset_union(d, e) ==
    EndsOk([op |-> "union", from |-> e], d,
           [bitsets[d] EXCEPT !.words = [w \in DOMAIN @ |-> @[w] \cup bitsets[e].words[w]]])

tda_bitset_intersection(d, e) ==
    EndsOk([op |-> "intersection", from |-> e], d,
           [bitsets[d] EXCEPT !.words = [w \in DOMAIN @ |-> @[w] \cap bitsets[e].words[w]]])

tda_bitset_difference(d, e) ==
    EndsOk([op |-> "difference", from |-> e], d,
           [bitsets[d] EXCEPT !.words = [w \in DOMAIN @ |-> @[w] \ bitsets[e].words[w]]])

tda_bitset_symmetric_difference(d, e) ==
    EndsOk([op |-> "symmetric_difference", from |-> e], d,
           [bitsets[d] EXCEPT !.words = [w \in DOMAIN @ |-> SymDiff(@[w], bitsets[e].words[w])]])

tda_bitset_test(d, idx) ==
    Answers([op |-> "test", idx |-> idx], d, BitOf(idx) \in bitsets[d].words[WordOf(idx)])

\* whole words are counted
tda_bitset_count(d) ==
    LET q == bitsets[d]
    IN  Answers([op |-> "count"], d, MapThenSumSet(LAMBDA w : Cardinality(q.words[w]), DOMAIN q.words))

AnyWord(q) == \E w \in DOMAIN q.words : q.words[w] # {}

tda_bitset_any(d) == Answers([op |-> "any"], d, AnyWord(bitsets[d]))
tda_bitset_none(d) == Answers([op |-> "none"], d, ~AnyWord(bitsets[d]))

tda_bitset_all(d) ==
    LET q == bitsets[d]
        want(w) == IF w + 1 = NWords(q) THEN TailMask(q.nbits) ELSE WordOnes
    IN  Answers([op |-> "all"], d, \A w \in DOMAIN q.words : q.words[w] = want(w))

\* find_next and find_next_clear
tda_bitset_find_next(d, from, clear) ==
    Answers([op |-> "find_next", idx |-> from, clear |-> clear], d, FindNextImpl(bitsets[d], clear, from))

\* find_prev and find_prev_clear
tda_bitset_find_prev(d, from, clear) ==
    Answers([op |-> "find_prev", idx |-> from, clear |-> clear], d, FindPrevImpl(bitsets[d], clear, from))

\* fprint and print
tda_bitset_fprint(d) == Answers([op |-> "fprint"], d, Walk(bitsets[d]))

tda_bitset_eq(d, e) ==
    Answers([op |-> "eq", from |-> e], d,
            d = e \/ (bitsets[d].nbits = bitsets[e].nbits /\ bitsets[d].words = bitsets[e].words))

tda_bitset_is_subset(d, e) ==
    Answers([op |-> "is_subset", from |-> e], d,
            \A w \in DOMAIN bitsets[d].words : bitsets[d].words[w] \ bitsets[e].words[w] = {})

tda_bitset_intersects(d, e) ==
    Answers([op |-> "intersects", from |-> e], d,
            \E w \in DOMAIN bitsets[d].words : bitsets[d].words[w] \cap bitsets[e].words[w] # {})

Lifetime ==
    \E d, e \in Names :
        \/ \E al \in Als, n \in Sizes : \E src \in SUBSET (0 .. n - 1) : tda_bitset_make(d, al, n, src)
        \/ tda_bitset_deinit(d)
        \/ \E al \in Als : tda_bitset_copy_with(d, al, e)
        \/ tda_bitset_copy_assign(d, e) \/ tda_bitset_move_assign(d, e) \/ tda_bitset_swap(d, e)

OneBit(d) ==
    \E idx \in 0 .. bitsets[d].nbits - 1 :
        \/ tda_bitset_set(d, idx) \/ tda_bitset_reset(d, idx) \/ tda_bitset_flip(d, idx)
        \/ tda_bitset_test(d, idx)
        \/ \E on \in BOOLEAN : tda_bitset_set_to(d, idx, on)

AllBits(d) ==
    \/ tda_bitset_set_all(d) \/ tda_bitset_reset_all(d) \/ tda_bitset_flip_all(d)
    \/ tda_bitset_count(d) \/ tda_bitset_any(d) \/ tda_bitset_none(d) \/ tda_bitset_all(d)
    \/ tda_bitset_fprint(d)
    \/ \E from \in Sizes, clear \in BOOLEAN :
          tda_bitset_find_next(d, from, clear) \/ tda_bitset_find_prev(d, from, clear)

\* two bitsets of one universe
Pairs(d, e) ==
    /\ bitsets[d].nbits = bitsets[e].nbits
    /\ \/ tda_bitset_union(d, e) \/ tda_bitset_intersection(d, e)
       \/ tda_bitset_difference(d, e) \/ tda_bitset_symmetric_difference(d, e)
       \/ tda_bitset_is_subset(d, e) \/ tda_bitset_intersects(d, e)

Next ==
    \/ Lifetime
    \/ \E d \in Names : Alive(d) /\ (OneBit(d) \/ AllBits(d))
    \/ \E d, e \in Names : Alive(d) /\ Alive(e) /\ (Pairs(d, e) \/ tda_bitset_eq(d, e))

Spec == Init /\ [][Next]_vars

-----------------------------------------------------------------------------
(* Properties.                                                              *)

\* a tda_BitSet: as many words as its bits need, in a block unless there are none
IsBitSet(q) ==
    /\ q \in [al : Als \cup {Null}, data : Nat \cup {Null}, nbits : Sizes,
             words : [0 .. WordsFor(q.nbits) - 1 -> SUBSET WordOnes]]
    /\ (q.data = Null) = (WordsFor(q.nbits) = 0)
    /\ q.al = Null => q = Zeroed

TypeOK == \A d \in Names : IsBitSet(bitsets[d])

\* each block out is held once, by the bitset that asked for it, with the words it needs
BlocksOwned ==
    LET owners == {d \in Names : bitsets[d].data # Null}
    IN  /\ TypeOK
        /\ heap = {BlockOf(bitsets[d]) : d \in owners}
        /\ Cardinality(heap) = Cardinality(owners)
        /\ \A d \in Names : NWords(bitsets[d]) * WordBits >= bitsets[d].nbits

TailClear ==
    \A d \in Names :
        LET q == bitsets[d]
        IN  NWords(q) > 0 => q.words[NWords(q) - 1] \subseteq TailMask(q.nbits)

\* There are as many words as the bits need, however near SIZE_MAX their number, in a block
\* held once; and the bits above the last live one, which count, any, eq and find_next read
\* along with the others, are clear after every call, copies between universes of one word
\* count included.
WordsSound == BlocksOwned /\ TailClear

Sets == INSTANCE BitSetSpec WITH
            nbits <- [d \in Names |-> bitsets[d].nbits], members <- [d \in Names |-> Members(bitsets[d])]

\* A bitset is a set of the indices below nbits: every call does to the set what its name
\* says, and every scan, up or down, over the set or its complement, from any index and
\* across words, answers from that set alone.
ImplementsBitSet == Sets!Spec
=============================================================================
