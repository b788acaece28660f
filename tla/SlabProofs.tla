----------------------------- MODULE SlabProofs -----------------------------
(***************************************************************************)
(* Proofs about the slab, for every table of classes a chunk has room for,  *)
(* every memory behind the parent and every order of requests and frees.    *)
(***************************************************************************)
EXTENDS Slab, LayoutProofs

-----------------------------------------------------------------------------
(* Lists threaded through the memory.                                       *)

\* l lists the n addresses of S in the order in which the links reach them from head
Lists(l, n, mem, head, S) ==
    /\ \A i, j \in 1 .. n : l[i] = l[j] => i = j
    /\ S \subseteq {l[i] : i \in 1 .. n}
    /\ head = IF n = 0 THEN Null ELSE l[1]
    /\ \A i \in 1 .. n : mem[l[i]] = IF i = n THEN Null ELSE l[i + 1]

Listed(mem, head, S) == \E n \in Nat : \E l \in [1 .. n -> S] : Lists(l, n, mem, head, S)

\* The empty list lists nothing.
LEMMA ListedNone == ASSUME NEW mem PROVE Listed(mem, Null, {})
  <1>1. PICK n \in Nat : n = 0
    OBVIOUS
  <1>2. PICK l : l = [i \in 1 .. n |-> Null]
    OBVIOUS
  <1>3. 1 .. n = {} /\ l \in [1 .. n -> {}]
    BY <1>1, <1>2
  <1>4. Lists(l, n, mem, Null, {})
    BY <1>1, <1>3 DEF Lists
  <1> QED
    BY <1>3, <1>4 DEF Listed

\* A list is the same while the links of its members are.
LEMMA ListedFrame ==
    ASSUME NEW mem, NEW with, NEW head, NEW S, Listed(mem, head, S), \A a \in S : with[a] = mem[a]
    PROVE  Listed(with, head, S)
  <1>1. PICK n \in Nat : \E l \in [1 .. n -> S] : Lists(l, n, mem, head, S)
    BY DEF Listed
  <1>2. PICK l \in [1 .. n -> S] : Lists(l, n, mem, head, S)
    BY <1>1
  <1>3. \A i \in 1 .. n : with[l[i]] = mem[l[i]]
    BY <1>2
  <1>4. Lists(l, n, with, head, S)
    BY <1>2, <1>3 DEF Lists
  <1> QED
    BY <1>4 DEF Listed

\* A block freed is linked before the others.
LEMMA ListedPush ==
    ASSUME NEW mem, NEW with, NEW head, NEW S, Listed(mem, head, S), NEW a, a \notin S,
           \A c \in S : with[c] = mem[c], with[a] = head
    PROVE  Listed(with, a, S \cup {a})
  <1>1. PICK n \in Nat : \E l \in [1 .. n -> S] : Lists(l, n, mem, head, S)
    BY DEF Listed
  <1>2. PICK l \in [1 .. n -> S] : Lists(l, n, mem, head, S)
    BY <1>1
  <1>3. PICK m \in Nat : m = n + 1
    OBVIOUS
  <1> DEFINE k == [i \in 1 .. m |-> IF i = 1 THEN a ELSE l[i - 1]]
  <1>4. \A i \in 1 .. m : i # 1 => i - 1 \in 1 .. n /\ k[i] = l[i - 1] /\ l[i - 1] \in S
    BY <1>2, <1>3
  <1>5. 1 \in 1 .. m /\ k[1] = a
    BY <1>3
  <1>6. k \in [1 .. m -> S \cup {a}]
    BY <1>4
  <1> HIDE DEF k
  <1>7. \A i, j \in 1 .. m : k[i] = k[j] => i = j
    BY <1>2, <1>4, <1>5 DEF Lists
  <1>8. ASSUME NEW c \in S PROVE \E i \in 1 .. m : c = k[i]
    <2>1. PICK j \in 1 .. n : c = l[j]
      BY <1>2 DEF Lists
    <2>2. j + 1 \in 1 .. m /\ j + 1 # 1 /\ (j + 1) - 1 = j
      BY <1>3
    <2> QED
      BY <1>4, <2>1, <2>2
  <1>9. ASSUME NEW i \in 1 .. m PROVE with[k[i]] = IF i = m THEN Null ELSE k[i + 1]
    <2>1. i # m => i + 1 \in 1 .. m /\ i + 1 # 1 /\ (i + 1) - 1 = i
      BY <1>3
    <2>2. CASE i = 1
      <3>1. head = IF n = 0 THEN Null ELSE l[1]
        BY <1>2 DEF Lists
      <3> QED
        BY <1>3, <1>4, <1>5, <2>1, <2>2, <3>1
    <2>3. CASE i # 1
      <3>1. i - 1 \in 1 .. n /\ k[i] = l[i - 1] /\ with[k[i]] = mem[l[i - 1]]
        BY <1>4, <2>3
      <3>2. mem[l[i - 1]] = IF i - 1 = n THEN Null ELSE l[(i - 1) + 1]
        BY <1>2, <3>1 DEF Lists
      <3>3. (i - 1) + 1 = i /\ (i - 1 = n <=> i = m)
        BY <1>3
      <3> QED
        BY <1>4, <2>1, <3>1, <3>2, <3>3
    <2> QED
      BY <2>2, <2>3
  <1>10. Lists(k, m, with, a, S \cup {a})
    BY <1>3, <1>5, <1>7, <1>8, <1>9 DEF Lists
  <1> QED
    BY <1>6, <1>10 DEF Listed

\* The head is a member, and its link leads to the list of the others.
LEMMA ListedPop ==
    ASSUME NEW mem, NEW head, NEW S, Listed(mem, head, S), head # Null
    PROVE  head \in S /\ Listed(mem, mem[head], S \ {head})
  <1>1. PICK n \in Nat : \E l \in [1 .. n -> S] : Lists(l, n, mem, head, S)
    BY DEF Listed
  <1>2. PICK l \in [1 .. n -> S] : Lists(l, n, mem, head, S)
    BY <1>1
  <1>3. n # 0 /\ head = l[1] /\ 1 \in 1 .. n /\ head \in S
    BY <1>2 DEF Lists
  <1>4. PICK m \in Nat : m = n - 1
    BY <1>3
  <1> DEFINE k == [i \in 1 .. m |-> l[i + 1]]
  <1>5. \A i \in 1 .. m : i + 1 \in 1 .. n /\ i + 1 # 1 /\ k[i] = l[i + 1]
    BY <1>4
  <1>6. k \in [1 .. m -> S \ {head}]
    <2>1. \A i \in 1 .. m : l[i + 1] \in S \ {head}
      BY <1>2, <1>3, <1>5 DEF Lists
    <2> QED
      BY <2>1
  <1> HIDE DEF k
  <1>7. ASSUME NEW i \in 1 .. m, NEW j \in 1 .. m, k[i] = k[j] PROVE i = j
    BY <1>2, <1>5, <1>7 DEF Lists
  <1>8. ASSUME NEW c \in S \ {head} PROVE \E i \in 1 .. m : c = k[i]
    <2>1. PICK j \in 1 .. n : c = l[j]
      BY <1>2 DEF Lists
    <2>2. j # 1 /\ j - 1 \in 1 .. m /\ (j - 1) + 1 = j
      BY <1>3, <1>4, <2>1
    <2> QED
      BY <1>5, <2>1, <2>2
  <1>9. ASSUME NEW i \in 1 .. m PROVE mem[k[i]] = IF i = m THEN Null ELSE k[i + 1]
    <2>1. mem[l[i + 1]] = IF i + 1 = n THEN Null ELSE l[(i + 1) + 1]
      BY <1>2, <1>5 DEF Lists
    <2>2. i # m => i + 1 \in 1 .. m
      OBVIOUS
    <2> QED
      BY <1>4, <1>5, <2>1, <2>2
  <1>10. mem[head] = IF m = 0 THEN Null ELSE k[1]
    <2>1. mem[l[1]] = IF 1 = n THEN Null ELSE l[1 + 1]
      BY <1>2, <1>3 DEF Lists
    <2>2. m # 0 => 1 \in 1 .. m
      OBVIOUS
    <2> QED
      BY <1>3, <1>4, <1>5, <2>1, <2>2
  <1>11. Lists(k, m, mem, mem[head], S \ {head})
    BY <1>7, <1>8, <1>9, <1>10 DEF Lists
  <1> QED
    BY <1>3, <1>6, <1>11 DEF Listed

\* What the assumption says of the memory behind the parent.
LEMMA WordsAre ==
    ASSUME SlabAssumption
    PROVE  /\ IsFiniteSet(Words) /\ Words \subseteq Nat \ {0} /\ Null \notin Words
           /\ Cardinality(Words) \in Nat
  BY FS_CardinalityType DEF SlabAssumption

\* the walk of tda_slab_deinit: the address it is at after each turn
IsWalk(f, mem, head) ==
    f = [i \in 0 .. Cardinality(Words) |->
            IF i = 0 THEN head ELSE LET a == f[i - 1] IN IF a \in Words THEN mem[a] ELSE a]

\* The walk, unfolded once.
LEMMA WalkIs ==
    ASSUME NEW f, NEW mem, NEW head, IsWalk(f, mem, head), NEW i \in 0 .. Cardinality(Words)
    PROVE  f[i] = IF i = 0 THEN head ELSE IF f[i - 1] \in Words THEN mem[f[i - 1]] ELSE f[i - 1]
  <1> DEFINE g == [j \in 0 .. Cardinality(Words) |->
                      IF j = 0 THEN head ELSE LET a == f[j - 1] IN IF a \in Words THEN mem[a] ELSE a]
  <1>1. g[i] = IF i = 0 THEN head ELSE IF f[i - 1] \in Words THEN mem[f[i - 1]] ELSE f[i - 1]
    OBVIOUS
  <1>2. f = g
    BY DEF IsWalk
  <1> HIDE DEF g
  <1> QED
    BY <1>1, <1>2

\* the walk f passes the n members l of a list and stays at its end
Passes(f, n, l) == \A i \in 0 .. Cardinality(Words) : f[i] = IF i < n THEN l[i + 1] ELSE Null

\* So does every walk along a list: by the first turn that does not.
LEMMA WalkPasses ==
    ASSUME SlabAssumption, NEW mem, NEW head, NEW S \in SUBSET Words, NEW n \in Nat,
           NEW l \in [1 .. n -> S], Lists(l, n, mem, head, S), NEW f, IsWalk(f, mem, head)
    PROVE  Passes(f, n, l)
  <1> DEFINE N == {i \in 0 .. Cardinality(Words) : f[i] # IF i < n THEN l[i + 1] ELSE Null}
  <1>1. SUFFICES ASSUME N # {} PROVE FALSE
    BY DEF Passes
  <1>2. N \subseteq Nat
    BY WordsAre
  <1>3. PICK i \in N : \A j \in N : i <= j
    BY <1>1, <1>2, LeastNat
  <1>4. /\ i \in 0 .. Cardinality(Words) /\ i \in Nat
        /\ ~(f[i] = IF i < n THEN l[i + 1] ELSE Null)
    BY <1>2
  <1>5. i # 0
    <2>1. f[0] = head /\ 0 + 1 = 1
      BY <1>4, WordsAre, WalkIs
    <2> QED
      BY <1>4, <2>1 DEF Lists
  <1>6. i - 1 \notin N /\ i - 1 \in 0 .. Cardinality(Words)
    <2>1. i - 1 \in Nat /\ ~(i <= i - 1) /\ i - 1 \in 0 .. Cardinality(Words)
      BY <1>4, <1>5, WordsAre
    <2> HIDE DEF N
    <2> QED
      BY <1>3, <2>1
  <1>7. f[i - 1] = IF i - 1 < n THEN l[(i - 1) + 1] ELSE Null
    BY <1>6
  <1>8. f[i] = IF f[i - 1] \in Words THEN mem[f[i - 1]] ELSE f[i - 1]
    BY <1>4, <1>5, WalkIs
  <1> HIDE DEF N
  <1>9. CASE i - 1 < n
    <2>1. i \in 1 .. n /\ (i - 1) + 1 = i /\ (i < n <=> i # n)
      BY <1>4, <1>5, <1>9
    <2>2. f[i - 1] = l[i] /\ l[i] \in Words
      BY <1>7, <1>9, <2>1
    <2>3. mem[l[i]] = IF i = n THEN Null ELSE l[i + 1]
      BY <2>1 DEF Lists
    <2> QED
      BY <1>4, <1>8, <2>1, <2>2, <2>3
  <1>10. CASE ~(i - 1 < n)
    <2>1. ~(i < n)
      BY <1>4, <1>10
    <2> QED
      BY <1>4, <1>7, <1>8, <1>10, <2>1, WordsAre
  <1> QED
    BY <1>9, <1>10

\* What the walk along a list reaches.
LEMMA ListedChain ==
    ASSUME SlabAssumption, NEW mem, NEW head, NEW S \in SUBSET Words, Listed(mem, head, S)
    PROVE  Chain(mem, head) = S \cup {Null}
  <1>1. PICK n \in Nat : \E l \in [1 .. n -> S] : Lists(l, n, mem, head, S)
    BY DEF Listed
  <1>2. PICK l \in [1 .. n -> S] : Lists(l, n, mem, head, S)
    BY <1>1
  <1>3. PICK c \in Nat : c = Cardinality(Words)
    BY WordsAre
  <1>4. n <= c
    <2>1. l \in Injection(1 .. n, Words)
      BY <1>2 DEF Lists, Injection, IsInjective
    <2>2. Cardinality(1 .. n) <= Cardinality(Words)
      BY <2>1, WordsAre, FS_Injection, Zenon
    <2>3. Cardinality(1 .. n) = n
      BY FS_Interval
    <2> QED
      BY <1>3, <2>2, <2>3
  <1> DEFINE g == [i \in 0 .. c |-> IF i < n THEN l[i + 1] ELSE Null]
  <1>5. ASSUME NEW i \in 0 .. c
        PROVE  g[i] = IF i = 0 THEN head ELSE LET a == g[i - 1] IN IF a \in Words THEN mem[a] ELSE a
    <2>1. CASE i = 0
      BY <1>2, <2>1 DEF Lists
    <2>2. CASE i # 0 /\ i <= n
      <3>1. i - 1 \in 0 .. c /\ i - 1 < n /\ (i - 1) + 1 = i /\ i \in 1 .. n /\ (i < n <=> i # n)
        BY <2>2
      <3>2. g[i - 1] = l[i] /\ l[i] \in Words
        BY <1>2, <3>1
      <3>3. mem[l[i]] = IF i = n THEN Null ELSE l[i + 1]
        BY <1>2, <3>1 DEF Lists
      <3> QED
        BY <2>2, <3>1, <3>2, <3>3
    <2>3. CASE ~(i <= n)
      <3>1. i - 1 \in 0 .. c /\ ~(i - 1 < n) /\ ~(i < n) /\ i # 0
        BY <2>3
      <3>2. g[i - 1] = Null /\ g[i] = Null
        BY <3>1
      <3> QED
        BY <3>1, <3>2, WordsAre
    <2> QED
      BY <2>1, <2>2, <2>3
  <1>6. g = [i \in 0 .. c |-> g[i]]
    OBVIOUS
  <1>7. IsWalk(g, mem, head)
    <2> HIDE DEF g
    <2> QED
      BY <1>3, <1>5, <1>6 DEF IsWalk
  <1> HIDE DEF g
  <1>8. Chain(mem, head) = LET f == CHOOSE f : IsWalk(f, mem, head) IN {f[i] : i \in 0 .. Cardinality(Words)}
    BY DEF Chain, IsWalk
  <1>9. PICK f : IsWalk(f, mem, head) /\ Chain(mem, head) = {f[i] : i \in 0 .. Cardinality(Words)}
    BY <1>7, <1>8
  <1>10. \A i \in 0 .. c : f[i] = IF i < n THEN l[i + 1] ELSE Null
    <2>1. Passes(f, n, l)
      BY <1>2, <1>9, WalkPasses, Zenon
    <2> QED
      BY <1>3, <2>1 DEF Passes
  <1>11. ASSUME NEW a \in S PROVE \E i \in 0 .. c : a = f[i]
    <2>1. PICK j \in 1 .. n : a = l[j]
      BY <1>2 DEF Lists
    <2>2. j - 1 \in 0 .. c /\ j - 1 < n /\ (j - 1) + 1 = j
      BY <1>4
    <2> QED
      BY <1>10, <2>1, <2>2
  <1>12. \E i \in 0 .. c : f[i] = Null
    BY <1>4, <1>10
  <1>13. \A i \in 0 .. c : f[i] \in S \cup {Null}
    <2>1. \A i \in 0 .. c : i < n => i + 1 \in 1 .. n
      OBVIOUS
    <2> QED
      BY <1>2, <1>10, <2>1
  <1>14. {f[i] : i \in 0 .. c} = S \cup {Null}
    BY <1>11, <1>12, <1>13, ZenonT(40)
  <1> QED
    BY <1>3, <1>9, <1>14

-----------------------------------------------------------------------------
(* The classes.                                                             *)

IsLayout(l) == l.size \in Nat \ {0} /\ l.align \in Nat \ {0} /\ tda_layout_is_align(l.align)

\* What the assumption says of the classes and the chunks.
LEMMA ClassNat ==
    ASSUME SlabAssumption
    PROVE  /\ Len(ClassSizes) \in Nat /\ ClassCount \notin Classes /\ Classes \subseteq Nat
           /\ ChunkRoom \in Nat /\ ChunkBytes = ChunkRoom + 1
           /\ \A i \in Classes : ClassSizes[i] \in Nat \ {0} /\ ClassSizes[i] <= ChunkRoom
  BY DEF SlabAssumption, Classes, ClassCount, ChunkRoom

\* class_of finds a class that serves the layout, or none.
LEMMA ClassOfIs ==
    ASSUME SlabAssumption, NEW l
    PROVE  ClassOf(l) # ClassCount => ClassOf(l) \in Classes /\ ClassServes(ClassOf(l), l)
  <1> DEFINE S == {i \in 1 .. ClassCount : i = ClassCount \/ ClassServes(i, l)}
             P(i) == /\ i = ClassCount \/ ClassServes(i, l)
                     /\ \A j \in 1 .. i - 1 : ~ClassServes(j, l)
  <1>1. ClassCount \in Nat /\ ClassCount \in S /\ S \subseteq Nat
    BY ClassNat DEF ClassCount
  <1>2. PICK k \in S : \A i \in S : k <= i
    BY <1>1, LeastNat
  <1>3. \A j \in 1 .. k - 1 : j \notin S /\ j \in 1 .. ClassCount
    BY <1>1, <1>2
  <1>4. k \in 1 .. ClassCount /\ P(k)
    BY <1>2, <1>3
  <1>5. ClassOf(l) = CHOOSE i \in 1 .. ClassCount : P(i)
    BY DEF ClassOf
  <1> HIDE DEF P
  <1>6. ClassOf(l) \in 1 .. ClassCount /\ P(ClassOf(l))
    BY <1>4, <1>5
  <1>7. \A i \in 1 .. ClassCount : i # ClassCount => i \in Classes
    BY ClassNat DEF Classes, ClassCount
  <1> QED
    BY <1>6, <1>7 DEF P

\* The largest power of two that divides a class does divide it.
LEMMA LowestBitIs ==
    ASSUME SlabAssumption, NEW n \in Nat \ {0}
    PROVE  /\ LowestBit(n) \in 1 .. n /\ tda_layout_is_align(LowestBit(n))
           /\ n % LowestBit(n) = 0
  <1> DEFINE S == {p \in 1 .. n : tda_layout_is_align(p) /\ n % p = 0}
             T == {n - p : p \in S}
  <1>1. 1 \in S
    <2>1. tda_layout_is_align(1)
      BY DEF tda_layout_is_align
    <2> QED
      BY <2>1
  <1>2. T \subseteq Nat /\ T # {}
    BY <1>1
  <1>3. PICK t \in T : \A u \in T : t <= u
    BY <1>2, LeastNat
  <1>4. PICK p \in S : t = n - p
    BY <1>3
  <1>5. ASSUME NEW q \in S PROVE n - q \in T /\ q \in Nat /\ n - p <= n - q
    <2>1. n - q \in T
      OBVIOUS
    <2>2. n - q \in Nat /\ q \in Nat
      OBVIOUS
    <2> HIDE DEF T
    <2> QED
      BY <1>3, <1>4, <2>1, <2>2
  <1>6. \A q \in S : p >= q
    BY <1>4, <1>5
  <1>7. Max(S) \in S
    <2> HIDE DEF S
    <2> QED
      BY <1>4, <1>6 DEF Max
  <1> QED
    BY <1>7 DEF LowestBit

\* A block cut at a multiple of its class from the start of a chunk is as aligned as any
\* layout the class serves asks.
LEMMA CutAligned ==
    ASSUME SlabAssumption, NEW l, IsLayout(l), NEW i \in Classes, ClassServes(i, l),
           NEW k \in Nat, k % ChunkAlign = 0, NEW a \in Nat, k <= a, (a - k) % ClassSizes[i] = 0
    PROVE  a % l.align = 0
  <1>1. PICK c \in Nat \ {0} : c = ClassSizes[i]
    BY ClassNat
  <1>2. PICK p \in Nat \ {0} :
            p = LowestBit(c) /\ tda_layout_is_align(p) /\ c % p = 0
    <2>1. LowestBit(c) \in 1 .. c /\ tda_layout_is_align(LowestBit(c)) /\ c % LowestBit(c) = 0
      BY LowestBitIs, Zenon
    <2>2. LowestBit(c) \in Nat \ {0}
      BY <2>1
    <2> QED
      BY <2>1, <2>2
  <1>3. PICK n \in Nat \ {0} : n = l.align
    BY DEF IsLayout
  <1>4. n <= p /\ tda_layout_is_align(n)
    BY <1>1, <1>2, <1>3 DEF ClassServes, IsLayout
  <1>5. p % n = 0
    BY <1>2, <1>4, AlignDivides
  <1>6. ChunkAlign \in Nat \ {0} /\ tda_layout_is_align(ChunkAlign) /\ p <= ChunkAlign
    <2>1. ChunkAlign \in Nat /\ tda_layout_is_align(ChunkAlign) /\ LowestBit(ClassSizes[i]) <= ChunkAlign
      BY DEF SlabAssumption, Classes
    <2> QED
      BY <1>1, <1>2, <2>1
  <1>7. ChunkAlign % p = 0
    BY <1>2, <1>6, AlignDivides
  <1>8. k % n = 0
    <2>1. k % p = 0
      BY <1>2, <1>6, <1>7, ModTrans
    <2> QED
      BY <1>2, <1>3, <1>5, <2>1, ModTrans, SMTT(30)
  <1>9. a - k \in Int /\ (a - k) % n = 0
    <2>1. a - k \in Int /\ (a - k) % c = 0
      BY <1>1
    <2>2. (a - k) % p = 0
      BY <1>1, <1>2, <2>1, ModTrans
    <2> QED
      BY <1>2, <1>3, <1>5, <2>1, <2>2, ModTrans
  <1>10. PICK d \in Int : d = a - k
    BY <1>9
  <1>11. (k + d) % n = 0 /\ k + d = a
    <2>1. k \in Int /\ d % n = 0 /\ k + d = a
      BY <1>9, <1>10
    <2>2. (k + d) % n = 0
      BY <1>8, <2>1, SumMod, Zenon
    <2> QED
      BY <2>1, <2>2
  <1> QED
    BY <1>3, <1>11

-----------------------------------------------------------------------------
(* The inductive invariant.  s is the slab, hd what the callers hold and K  *)
(* the first addresses of the chunks.                                       *)

Block == [addr : Words, size : Nat \ {0}, align : Nat \ {0}]
ClassRec == [free_head : Pointer, carve : Pointer, carve_end : Pointer]
SlabRec ==
    [parent : BOOLEAN, chunks : Pointer, chunk_count : Nat, small_blocks : Nat, large_blocks : Nat,
     classes : [Classes -> ClassRec], mem : [Words -> Pointer \cup {Garbage}],
     lent : SUBSET Block, carved : [Classes -> SUBSET Words]]

SmallOf(hd) == {b \in hd : Small(b)}
LargeOf(hd) == {b \in hd : ~Small(b)}
AddrsOf(hd) == {b.addr : b \in hd}

\* m words at a and n words at c do not meet
Away(a, m, c, n) == a + m <= c \/ c + n <= a

HeldOK(hd) == hd \subseteq Block /\ IsFiniteSet(hd) /\ \A b \in hd : tda_layout_is_align(b.align)

\* the chunks are the parent's blocks, apart
ChunksOK(K) ==
    /\ K \subseteq Words /\ IsFiniteSet(K)
    /\ \A k \in K : /\ k % ChunkAlign = 0 /\ k .. k + ChunkBytes - 1 \subseteq Words
                    /\ \A j \in K : j # k => Away(j, ChunkBytes, k, ChunkBytes)

\* so are the large blocks, which lie apart from the chunks too
LargeOK(hd, K) ==
    \A b \in LargeOf(hd) :
        /\ b.addr % b.align = 0
        /\ \A k \in K : Away(b.addr, b.size, k, ChunkBytes)
        /\ \A c \in LargeOf(hd) : b # c => Away(b.addr, b.size, c.addr, c.size)

LentOK(s, hd, K) ==
    /\ s.lent = LargeOf(hd) \cup {ChunkBlock(k) : k \in K}
    /\ s.chunk_count = Cardinality(K)
    /\ s.chunk_count * ChunkBytes + SizesOf(LargeOf(hd)) = SizesOf(s.lent)

\* a block of class i at a lies in the room of chunk k, at a multiple of its class
CutFrom(a, i, k) ==
    k <= a /\ a + ClassSizes[i] <= k + ChunkRoom /\ (a - k) % ClassSizes[i] = 0

\* class i carves from chunk k
CarvesFrom(cls, i, k) ==
    /\ cls.carve_end = k + ChunkRoom /\ k <= cls.carve /\ cls.carve <= cls.carve_end
    /\ (cls.carve - k) % ClassSizes[i] = 0

\* the blocks cut and the rests to carve share the chunks out
CutOK(s, K) ==
    \A i \in Classes :
        /\ \A a \in s.carved[i] : \E k \in K : CutFrom(a, i, k)
        /\ s.classes[i].carve # Null => \E k \in K : CarvesFrom(s.classes[i], i, k)
        /\ \A j \in Classes :
              /\ \A a \in s.carved[i], d \in s.carved[j] :
                    (i = j /\ a = d) \/ Away(a, ClassSizes[i], d, ClassSizes[j])
              /\ s.classes[j].carve # Null =>
                    \A a \in s.carved[i] :
                        a + ClassSizes[i] <= s.classes[j].carve \/ s.classes[j].carve_end <= a
              /\ i # j /\ s.classes[i].carve # Null /\ s.classes[j].carve # Null =>
                    s.classes[i].carve_end # s.classes[j].carve_end

\* a small block held was cut for its class, and is held once
SmallOK(s, hd) ==
    \A b \in SmallOf(hd) :
        /\ b.addr \in s.carved[ClassOf(LayoutOf(b))]
        /\ \A c \in SmallOf(hd) : b.addr = c.addr => b = c

CountsOK(s, hd) ==
    /\ s.small_blocks = Cardinality(SmallOf(hd))
    /\ s.large_blocks = Cardinality(LargeOf(hd))

Links(K) == {k + ChunkRoom : k \in K}

ListsOK(s, hd, K) ==
    /\ \A i \in Classes : Listed(s.mem, s.classes[i].free_head, s.carved[i] \ AddrsOf(hd))
    /\ Listed(s.mem, s.chunks, Links(K))

SlabOK(s, hd, K) ==
    /\ s \in SlabRec /\ HeldOK(hd) /\ ChunksOK(K) /\ LargeOK(hd, K) /\ LentOK(s, hd, K)
    /\ CutOK(s, K) /\ SmallOK(s, hd) /\ CountsOK(s, hd) /\ ListsOK(s, hd, K)

\* ListsExact and DeallocFindsClass are not inductive: that a block freed or cut is on no list,
\* that a link is not overwritten, and that a free finds a block cut for its class, need to
\* know where in the chunks the blocks lie.
SlabInv ==
    /\ \E K : SlabOK(slab, blocks, K)
    /\ ~slab.parent => slab = Inert /\ blocks = {}

-----------------------------------------------------------------------------
(* Where things lie.                                                        *)

\* Two stretches of words share none just when one ends before the other begins.
LEMMA ExtentsAway ==
    ASSUME NEW a \in Nat, NEW m \in Nat \ {0}, NEW c \in Nat, NEW n \in Nat \ {0}
    PROVE  (a .. a + m - 1) \cap (c .. c + n - 1) = {} <=> Away(a, m, c, n)
  <1>1. ASSUME Away(a, m, c, n) PROVE (a .. a + m - 1) \cap (c .. c + n - 1) = {}
    BY <1>1 DEF Away
  <1>2. ASSUME ~Away(a, m, c, n) PROVE (a .. a + m - 1) \cap (c .. c + n - 1) # {}
    <2>1. CASE a <= c
      BY <1>2, <2>1 DEF Away
    <2>2. CASE c <= a
      BY <1>2, <2>2 DEF Away
    <2> QED
      BY <2>1, <2>2
  <1> QED
    BY <1>1, <1>2

\* Away is symmetric, and what is away from a stretch is away from its parts.
LEMMA AwayParts ==
    ASSUME NEW a \in Nat, NEW m \in Nat, NEW c \in Nat, NEW n \in Nat, Away(a, m, c, n)
    PROVE  /\ Away(c, n, a, m)
           /\ \A d, p \in Nat : c <= d /\ d + p <= c + n => Away(a, m, d, p) /\ Away(d, p, a, m)
  BY DEF Away

\* What lies apart from a stretch lies apart from its beginning.
LEMMA AwayShorter ==
    ASSUME NEW a \in Nat, NEW m \in Nat, NEW c \in Nat, NEW n \in Nat, Away(a, m, c, n),
           NEW p \in Nat, p <= m, NEW q \in Nat, q <= n
    PROVE  Away(a, p, c, q)
  BY DEF Away

\* What the parent answers with lies apart from what it has out.
LEMMA ParentRoomIs ==
    ASSUME SlabAssumption, NEW lent \in SUBSET Block, NEW size \in Nat \ {0},
           NEW align, NEW a \in ParentRoom(lent, size, align)
    PROVE  /\ a \in Words /\ a % align = 0 /\ a .. a + size - 1 \subseteq Words
           /\ \A b \in lent : Away(b.addr, b.size, a, size)
  <1>1. /\ a \in ParentAddrs /\ a % align = 0 /\ a .. a + size - 1 \subseteq Words
        /\ \A b \in lent : Extent(b) \cap (a .. a + size - 1) = {}
    BY DEF ParentRoom
  <1>2. a \in Words
    BY <1>1 DEF SlabAssumption
  <1>3. ASSUME NEW b \in lent PROVE Away(b.addr, b.size, a, size)
    <2>1. b.addr \in Nat /\ b.size \in Nat \ {0} /\ a \in Nat
      BY <1>2, WordsAre DEF Block
    <2>2. (b.addr .. b.addr + b.size - 1) \cap (a .. a + size - 1) = {}
      BY <1>1 DEF Extent
    <2> QED
      BY <2>1, <2>2, ExtentsAway, Zenon
  <1> QED
    BY <1>1, <1>2, <1>3

\* The fields of a block, and its layout.
LEMMA BlockIs ==
    ASSUME SlabAssumption, NEW b \in Block
    PROVE  /\ b.addr \in Nat \ {0} /\ b.addr \in Words /\ b.size \in Nat \ {0} /\ b.align \in Nat \ {0}
           /\ LayoutOf(b).size = b.size /\ LayoutOf(b).align = b.align
  BY WordsAre DEF Block, LayoutOf

\* The fields of the block a chunk is to the parent.
LEMMA ChunkBlockIs ==
    ASSUME SlabAssumption, NEW k \in Words
    PROVE  /\ ChunkBlock(k) \in Block /\ ChunkBlock(k).addr = k /\ ChunkBlock(k).size = ChunkBytes
           /\ ChunkBlock(k).align = ChunkAlign
  <1>1. ChunkBytes \in Nat \ {0} /\ ChunkAlign \in Nat \ {0}
    BY DEF SlabAssumption, tda_layout_is_align
  <1> QED
    BY <1>1 DEF ChunkBlock, Block

\* A chunk and its link lie in the memory behind the parent.
LEMMA ChunkIs ==
    ASSUME SlabAssumption, NEW K, ChunksOK(K), NEW k \in K
    PROVE  /\ k \in Nat /\ k \in Words /\ k + ChunkRoom \in Words /\ k + ChunkRoom \in Nat
           /\ ChunkBlock(k) \in Block /\ ChunkBlock(k).addr = k /\ ChunkBlock(k).size = ChunkBytes
  <1>1. k \in Words /\ k .. k + ChunkBytes - 1 \subseteq Words /\ k \in Nat
    BY WordsAre DEF ChunksOK
  <1>2. k + ChunkRoom \in k .. k + ChunkBytes - 1 /\ k + ChunkRoom \in Nat
    BY <1>1, ClassNat
  <1> QED
    BY <1>1, <1>2, ChunkBlockIs

\* The links of the chunks are words of the memory.
LEMMA LinksAre ==
    ASSUME SlabAssumption, NEW K, ChunksOK(K)
    PROVE  Links(K) \in SUBSET Words
  BY ChunkIs DEF Links

\* A block cut lies in a chunk, before the link of any.
LEMMA CarvedIs ==
    ASSUME SlabAssumption, NEW s \in SlabRec, NEW K, ChunksOK(K), CutOK(s, K), NEW i \in Classes,
           NEW a \in s.carved[i]
    PROVE  /\ a \in Nat /\ a \in Words /\ a \notin Links(K)
           /\ \E k \in K : CutFrom(a, i, k) /\ k \in Nat
  <1>1. PICK k \in K : CutFrom(a, i, k)
    BY DEF CutOK
  <1>2. a \in Words /\ a \in Nat
    BY WordsAre DEF SlabRec
  <1>3. ClassSizes[i] \in Nat \ {0} /\ ChunkRoom \in Nat /\ ChunkBytes = ChunkRoom + 1
    BY ClassNat
  <1>4. k <= a /\ a + ClassSizes[i] <= k + ChunkRoom
    BY <1>1 DEF CutFrom
  <1>5. ASSUME NEW j \in K PROVE a # j + ChunkRoom
    <2>1. j \in Nat /\ k \in Nat
      BY ChunkIs
    <2>2. j = k \/ Away(j, ChunkBytes, k, ChunkBytes)
      BY DEF ChunksOK
    <2> QED
      BY <1>2, <1>3, <1>4, <2>1, <2>2 DEF Away
  <1>6. k \in Nat
    BY ChunkIs
  <1> QED
    BY <1>1, <1>2, <1>5, <1>6 DEF Links

\* No block is cut for two classes.
LEMMA CarvedOnce ==
    ASSUME SlabAssumption, NEW s \in SlabRec, NEW K, ChunksOK(K), CutOK(s, K), NEW i \in Classes,
           NEW j \in Classes, i # j, NEW a \in s.carved[i]
    PROVE  a \notin s.carved[j]
  <1>1. a \in Nat
    BY CarvedIs
  <1>2. ClassSizes[i] \in Nat \ {0} /\ ClassSizes[j] \in Nat \ {0}
    BY ClassNat
  <1>3. \A d \in s.carved[j] : Away(a, ClassSizes[i], d, ClassSizes[j])
    BY DEF CutOK
  <1> QED
    BY <1>1, <1>2, <1>3, SMTT(30) DEF Away

\* A large block lies apart from every block cut from a chunk.
LEMMA LargeAwayCarved ==
    ASSUME SlabAssumption, NEW s \in SlabRec, NEW hd, HeldOK(hd), NEW K, ChunksOK(K), CutOK(s, K),
           LargeOK(hd, K), NEW b \in LargeOf(hd), NEW i \in Classes, NEW a \in s.carved[i]
    PROVE  Away(b.addr, b.size, a, ClassSizes[i]) /\ a # b.addr
  <1>1. PICK k \in K : CutFrom(a, i, k) /\ k \in Nat
    BY CarvedIs
  <1>2. ClassSizes[i] \in Nat \ {0} /\ ChunkRoom \in Nat /\ ChunkBytes = ChunkRoom + 1 /\ a \in Nat
    BY ClassNat, CarvedIs
  <1>3. k <= a /\ a + ClassSizes[i] <= k + ChunkRoom
    BY <1>1 DEF CutFrom
  <1>4. b \in Block
    BY DEF HeldOK, LargeOf
  <1>5. b.addr \in Nat /\ b.size \in Nat \ {0}
    BY <1>4, BlockIs
  <1>6. Away(b.addr, b.size, k, ChunkBytes)
    BY DEF LargeOK
  <1>7. a + ClassSizes[i] <= k + ChunkBytes
    BY <1>1, <1>2, <1>3
  <1>8. Away(b.addr, b.size, a, ClassSizes[i])
    BY <1>1, <1>2, <1>3, <1>5, <1>6, <1>7, AwayParts
  <1>9. a # b.addr
    BY <1>2, <1>5, <1>8 DEF Away
  <1> QED
    BY <1>8, <1>9

\* A small block held lies in a block cut for its class.
LEMMA SmallIs ==
    ASSUME SlabAssumption, NEW s, NEW hd, NEW K, SlabOK(s, hd, K), NEW b \in SmallOf(hd)
    PROVE  \E i \in Classes :
              /\ i = ClassOf(LayoutOf(b)) /\ b.addr \in s.carved[i] /\ b.size <= ClassSizes[i]
              /\ b.addr % b.align = 0
  <1>1. b \in hd /\ Small(b) /\ b \in Block /\ tda_layout_is_align(b.align)
    BY DEF SlabOK, HeldOK, SmallOf
  <1>2. PICK i : i = ClassOf(LayoutOf(b))
    OBVIOUS
  <1>3. i \in Classes /\ ClassServes(i, LayoutOf(b))
    BY <1>1, <1>2, ClassOfIs DEF Small
  <1>4. b.addr \in s.carved[i]
    BY <1>2 DEF SlabOK, SmallOK
  <1>5. PICK k \in K : CutFrom(b.addr, i, k) /\ k \in Nat
    BY <1>3, <1>4, CarvedIs DEF SlabOK
  <1>6. /\ LayoutOf(b).size = b.size /\ LayoutOf(b).align = b.align
        /\ b.addr \in Nat /\ b.size \in Nat \ {0} /\ b.align \in Nat \ {0}
    BY <1>1, BlockIs
  <1>7. IsLayout(LayoutOf(b)) /\ b.size <= ClassSizes[i]
    BY <1>1, <1>3, <1>6, ClassNat DEF IsLayout, ClassServes
  <1>8. k % ChunkAlign = 0
    BY DEF SlabOK, ChunksOK
  <1>9. k <= b.addr /\ (b.addr - k) % ClassSizes[i] = 0
    BY <1>5 DEF CutFrom
  <1>10. b.addr % LayoutOf(b).align = 0
    BY <1>3, <1>5, <1>6, <1>7, <1>8, <1>9, CutAligned
  <1> QED
    BY <1>2, <1>3, <1>4, <1>6, <1>7, <1>10

\* The blocks held are on their alignments and lie apart.
LEMMA HeldApart ==
    ASSUME SlabAssumption, NEW s, NEW hd, NEW K, SlabOK(s, hd, K), NEW b \in hd
    PROVE  /\ b.addr % b.align = 0
           /\ \A c \in hd : b # c => Away(b.addr, b.size, c.addr, c.size)
  <1>1. hd \subseteq Block /\ s \in SlabRec /\ HeldOK(hd) /\ ChunksOK(K) /\ CutOK(s, K) /\ LargeOK(hd, K)
    BY DEF SlabOK, HeldOK
  <1>2. \A c \in hd : c \in SmallOf(hd) \/ c \in LargeOf(hd)
    BY DEF SmallOf, LargeOf
  <1>3. b.addr % b.align = 0
    BY <1>1, <1>2, SmallIs DEF LargeOK
  <1>4. ASSUME NEW c \in SmallOf(hd), NEW d \in LargeOf(hd)
        PROVE  Away(c.addr, c.size, d.addr, d.size)
    <2>1. PICK i \in Classes : c.addr \in s.carved[i] /\ c.size <= ClassSizes[i]
      BY SmallIs
    <2>2. Away(d.addr, d.size, c.addr, ClassSizes[i])
      BY <1>1, <2>1, LargeAwayCarved
    <2>3. c \in Block /\ d \in Block
      BY <1>1 DEF SmallOf, LargeOf
    <2>4. c.addr \in Nat /\ c.size \in Nat /\ d.addr \in Nat /\ d.size \in Nat /\ ClassSizes[i] \in Nat
      BY <2>3, BlockIs, ClassNat
    <2> QED
      BY <2>1, <2>2, <2>4, SMTT(30) DEF Away
  <1>5. ASSUME NEW c \in SmallOf(hd), NEW d \in SmallOf(hd), c # d
        PROVE  Away(c.addr, c.size, d.addr, d.size)
    <2>1. PICK i \in Classes : c.addr \in s.carved[i] /\ c.size <= ClassSizes[i]
      BY SmallIs
    <2>2. PICK j \in Classes : d.addr \in s.carved[j] /\ d.size <= ClassSizes[j]
      BY SmallIs
    <2>3. c.addr # d.addr
      BY <1>5 DEF SlabOK, SmallOK
    <2>4. Away(c.addr, ClassSizes[i], d.addr, ClassSizes[j])
      BY <1>1, <2>1, <2>2, <2>3 DEF CutOK
    <2>5. c \in Block /\ d \in Block
      BY <1>1 DEF SmallOf
    <2>6. /\ c.addr \in Nat /\ c.size \in Nat /\ d.addr \in Nat /\ d.size \in Nat
          /\ ClassSizes[i] \in Nat /\ ClassSizes[j] \in Nat
      BY <2>5, BlockIs, ClassNat
    <2> QED
      BY <2>1, <2>2, <2>4, <2>6, AwayShorter, Zenon
  <1>6. ASSUME NEW c \in hd, b # c PROVE Away(b.addr, b.size, c.addr, c.size)
    <2>1. CASE b \in LargeOf(hd) /\ c \in LargeOf(hd)
      BY <1>1, <1>6, <2>1 DEF LargeOK
    <2>2. CASE b \in LargeOf(hd) /\ c \in SmallOf(hd)
      BY <1>4, <2>2 DEF Away
    <2>3. CASE b \in SmallOf(hd) /\ c \in LargeOf(hd)
      BY <1>4, <2>3
    <2>4. CASE b \in SmallOf(hd) /\ c \in SmallOf(hd)
      BY <1>5, <1>6, <2>4
    <2> QED
      BY <1>2, <2>1, <2>2, <2>3, <2>4
  <1> QED
    BY <1>3, <1>6

\* An owner does not reach the links of the lists.
LEMMA HeldClear ==
    ASSUME SlabAssumption, NEW s, NEW hd, NEW K, SlabOK(s, hd, K), NEW b \in hd
    PROVE  /\ \A i \in Classes : \A a \in s.carved[i] : a \notin AddrsOf(hd) => a \notin Extent(b)
           /\ \A a \in Links(K) : a \notin Extent(b)
  <1>1. hd \subseteq Block /\ s \in SlabRec /\ HeldOK(hd) /\ ChunksOK(K) /\ CutOK(s, K) /\ LargeOK(hd, K)
    BY DEF SlabOK, HeldOK
  <1>2. b.addr \in Nat /\ b.size \in Nat \ {0}
    BY <1>1, BlockIs
  <1>3. ChunkRoom \in Nat /\ ChunkBytes = ChunkRoom + 1 /\ \A i \in Classes : ClassSizes[i] \in Nat \ {0}
    BY ClassNat
  <1>4. CASE Small(b)
    <2>1. PICK i \in Classes : b.addr \in s.carved[i] /\ b.size <= ClassSizes[i]
      BY <1>4, SmallIs DEF SmallOf
    <2>2. ASSUME NEW j \in Classes, NEW a \in s.carved[j], a \notin AddrsOf(hd) PROVE a \notin Extent(b)
      <3>1. a # b.addr /\ a \in Nat
        BY <1>1, <2>2, CarvedIs DEF AddrsOf
      <3>2. Away(a, ClassSizes[j], b.addr, ClassSizes[i])
        BY <1>1, <2>1, <3>1 DEF CutOK
      <3> QED
        BY <1>2, <1>3, <2>1, <3>1, <3>2, SMTT(30) DEF Away, Extent
    <2>3. PICK k \in K : CutFrom(b.addr, i, k) /\ k \in Nat
      BY <1>1, <2>1, CarvedIs
    <2>4. k <= b.addr /\ b.addr + b.size <= k + ChunkRoom
      BY <1>2, <1>3, <2>1, <2>3 DEF CutFrom
    <2>5. ASSUME NEW j \in K PROVE j + ChunkRoom \notin Extent(b)
      <3>1. j \in Nat /\ (j = k \/ Away(j, ChunkBytes, k, ChunkBytes))
        BY <1>1, ChunkIs DEF ChunksOK
      <3> QED
        BY <1>2, <1>3, <2>3, <2>4, <3>1 DEF Away, Extent
    <2> QED
      BY <2>2, <2>5 DEF Links
  <1>5. CASE ~Small(b)
    <2>1. b \in LargeOf(hd)
      BY <1>5 DEF LargeOf
    <2>2. ASSUME NEW j \in Classes, NEW a \in s.carved[j] PROVE a \notin Extent(b)
      <3>1. Away(b.addr, b.size, a, ClassSizes[j]) /\ a \in Nat
        BY <1>1, <2>1, LargeAwayCarved, CarvedIs
      <3> QED
        BY <1>2, <1>3, <3>1 DEF Away, Extent
    <2>3. ASSUME NEW j \in K PROVE j + ChunkRoom \notin Extent(b)
      <3>1. j \in Nat /\ Away(b.addr, b.size, j, ChunkBytes)
        BY <1>1, <2>1, ChunkIs DEF LargeOK
      <3> QED
        BY <1>2, <1>3, <3>1 DEF Away, Extent
    <2> QED
      BY <2>2, <2>3 DEF Links
  <1> QED
    BY <1>4, <1>5

-----------------------------------------------------------------------------
(* What the owner of a block writes.                                        *)

\* What is cut is the same while the cuts and the carving grounds are.
LEMMA CutKept ==
    ASSUME NEW s, NEW t, NEW K, CutOK(s, K), t.carved = s.carved,
           \A i \in Classes : /\ t.classes[i].carve = s.classes[i].carve
                              /\ t.classes[i].carve_end = s.classes[i].carve_end
    PROVE  CutOK(t, K)
  <1>1. ASSUME NEW i \in Classes, NEW k, CarvesFrom(s.classes[i], i, k) PROVE CarvesFrom(t.classes[i], i, k)
    BY <1>1 DEF CarvesFrom
  <1> QED
    BY <1>1 DEF CutOK

\* An owner that writes over its block disturbs no link.
LEMMA WriteKeeps ==
    ASSUME SlabAssumption, NEW s, NEW hd, NEW K, SlabOK(s, hd, K), NEW b \in hd
    PROVE  SlabOK(WrittenBy(s, b), hd, K) /\ WrittenBy(s, b).parent = s.parent
  <1> DEFINE m == [a \in Words |-> IF a \in Extent(b) THEN Garbage ELSE s.mem[a]]
  <1>1. s \in SlabRec /\ HeldOK(hd) /\ ChunksOK(K) /\ CutOK(s, K)
    BY DEF SlabOK
  <1>2. m \in [Words -> Pointer \cup {Garbage}]
    BY <1>1 DEF SlabRec
  <1>3. PICK t : t = [s EXCEPT !.mem = m]
    OBVIOUS
  <1>4. \A a \in Words : a \notin Extent(b) => m[a] = s.mem[a]
    OBVIOUS
  <1>5. WrittenBy(s, b) = t
    BY <1>3 DEF WrittenBy
  <1> HIDE DEF m
  <1>6. /\ t \in SlabRec /\ t.mem = m /\ t.parent = s.parent /\ t.chunks = s.chunks
        /\ t.chunk_count = s.chunk_count /\ t.small_blocks = s.small_blocks
        /\ t.large_blocks = s.large_blocks /\ t.classes = s.classes /\ t.lent = s.lent
        /\ t.carved = s.carved
    BY <1>1, <1>2, <1>3 DEF SlabRec
  <1>7. CutOK(t, K)
    BY <1>1, <1>6, CutKept
  <1>8. ASSUME NEW i \in Classes
        PROVE  Listed(t.mem, t.classes[i].free_head, t.carved[i] \ AddrsOf(hd))
    <2>1. Listed(s.mem, s.classes[i].free_head, s.carved[i] \ AddrsOf(hd))
      BY DEF SlabOK, ListsOK
    <2>2. \A a \in s.carved[i] \ AddrsOf(hd) : m[a] = s.mem[a]
      BY <1>1, <1>4, HeldClear, CarvedIs
    <2>3. Listed(m, s.classes[i].free_head, s.carved[i] \ AddrsOf(hd))
      BY <2>1, <2>2, ListedFrame, Zenon
    <2> QED
      BY <1>6, <2>3
  <1>9. Listed(t.mem, t.chunks, Links(K))
    <2>1. \A a \in Links(K) : m[a] = s.mem[a]
      <3>1. \A a \in Links(K) : a \in Words /\ a \notin Extent(b)
        BY <1>1, HeldClear, LinksAre
      <3> QED
        BY <1>4, <3>1
    <2>2. Listed(m, s.chunks, Links(K))
      BY <2>1, ListedFrame, Zenon DEF SlabOK, ListsOK
    <2> QED
      BY <1>6, <2>2
  <1>10. SlabOK(t, hd, K)
    BY <1>6, <1>7, <1>8, <1>9 DEF SlabOK, LentOK, SmallOK, CountsOK, ListsOK
  <1> QED
    BY <1>5, <1>6, <1>10

-----------------------------------------------------------------------------
(* A new chunk.                                                             *)

\* What the parent has out is finite, and has a size.
LEMMA LentFinite ==
    ASSUME SlabAssumption, NEW s, NEW hd, NEW K, SlabOK(s, hd, K)
    PROVE  /\ IsFiniteSet(s.lent) /\ (\A b \in s.lent : b.size \in Nat) /\ SizesOf(s.lent) \in Nat
           /\ IsFiniteSet(LargeOf(hd)) /\ (\A b \in LargeOf(hd) : b.size \in Nat)
           /\ SizesOf(LargeOf(hd)) \in Nat /\ s.chunk_count \in Nat
           /\ IsFiniteSet(SmallOf(hd))
  <1>1. HeldOK(hd) /\ ChunksOK(K) /\ LentOK(s, hd, K) /\ s \in SlabRec
    BY DEF SlabOK
  <1>2. IsFiniteSet(LargeOf(hd)) /\ IsFiniteSet(SmallOf(hd))
    BY <1>1, FS_Subset DEF HeldOK, LargeOf, SmallOf
  <1>3. PICK f : f = [k \in K |-> ChunkBlock(k)]
    OBVIOUS
  <1>4. /\ IsFiniteSet(K) /\ f = [k \in K |-> f[k]]
        /\ \A j, k \in K : f[j] = f[k] => j = k
    <2>1. \A k \in K : f[k].addr = k
      BY <1>1, <1>3, ChunkIs
    <2> QED
      BY <1>1, <1>3, <2>1 DEF ChunksOK
  <1>5. IsFiniteSet({f[k] : k \in K})
    BY <1>4, OneEach
  <1>6. s.lent = LargeOf(hd) \cup {f[k] : k \in K}
    BY <1>1, <1>3 DEF LentOK
  <1>7. IsFiniteSet(s.lent)
    <2>1. IsFiniteSet(LargeOf(hd) \cup {f[k] : k \in K})
      BY <1>2, <1>5, FS_Union, Zenon
    <2> QED
      BY <1>6, <2>1
  <1>8. (\A b \in s.lent : b.size \in Nat) /\ (\A b \in LargeOf(hd) : b.size \in Nat)
    BY <1>1 DEF SlabRec, Block, HeldOK, LargeOf
  <1>9. s.chunk_count \in Nat
    BY <1>1 DEF SlabRec
  <1>10. SizesOf(s.lent) \in Nat /\ SizesOf(LargeOf(hd)) \in Nat
    BY <1>2, <1>7, <1>8, SizesTake, Zenon
  <1> QED
    BY <1>2, <1>7, <1>8, <1>9, <1>10

\* t is s with a chunk at base for class i to carve
ChunkAdded(s, t, i, base) ==
    /\ t \in SlabRec /\ t.parent = s.parent /\ t.chunks = base + ChunkRoom
    /\ t.chunk_count = s.chunk_count + 1 /\ t.small_blocks = s.small_blocks
    /\ t.large_blocks = s.large_blocks /\ t.carved = s.carved
    /\ t.lent = s.lent \cup {ChunkBlock(base)}
    /\ t.mem = [s.mem EXCEPT ![base + ChunkRoom] = s.chunks]
    /\ t.classes[i] = [free_head |-> s.classes[i].free_head, carve |-> base,
                       carve_end |-> base + ChunkRoom]
    /\ \A j \in Classes : j # i => t.classes[j] = s.classes[j]

\* The fields after a chunk is added.
LEMMA AddChunkIs ==
    ASSUME SlabAssumption, NEW s \in SlabRec, NEW i \in Classes, NEW base \in Words,
           base + ChunkRoom \in Words, NEW t, t = AddChunk(s, i, base)
    PROVE  ChunkAdded(s, t, i, base)
  <1>1. PICK link : link = base + ChunkRoom
    OBVIOUS
  <1>2. t = [s EXCEPT !.mem[link] = s.chunks, !.chunks = link, !.chunk_count = @ + 1,
                      !.classes[i].carve = base, !.classes[i].carve_end = link,
                      !.lent = @ \cup {ChunkBlock(base)}]
    BY <1>1 DEF AddChunk
  <1>3. PICK cls : cls = [s.classes EXCEPT ![i] = [free_head |-> s.classes[i].free_head,
                                                   carve |-> base, carve_end |-> link]]
    OBVIOUS
  <1>4. PICK m : m = [s.mem EXCEPT ![link] = s.chunks]
    OBVIOUS
  <1>5. PICK lent : lent = s.lent \cup {ChunkBlock(base)}
    OBVIOUS
  <1>6. s.classes \in [Classes -> ClassRec] /\ s.classes[i] \in ClassRec
    BY DEF SlabRec
  <1>7. cls \in [Classes -> ClassRec]
    BY <1>1, <1>3, <1>6 DEF ClassRec, Pointer
  <1>8. m \in [Words -> Pointer \cup {Garbage}]
    BY <1>4 DEF SlabRec
  <1>9. lent \in SUBSET Block
    BY <1>5, ChunkBlockIs DEF SlabRec
  <1>10. [s.classes EXCEPT ![i].carve = base, ![i].carve_end = link] = cls
    BY <1>3, <1>6 DEF ClassRec
  <1>11. t = [s EXCEPT !.mem = m, !.chunks = link, !.chunk_count = @ + 1, !.classes = cls, !.lent = lent]
    BY <1>2, <1>4, <1>5, <1>10, ZenonT(40) DEF SlabRec
  <1>12. link \in Pointer /\ s.chunk_count + 1 \in Nat
    BY <1>1 DEF Pointer, SlabRec
  <1>13. /\ t \in SlabRec /\ t.parent = s.parent /\ t.chunks = link
         /\ t.chunk_count = s.chunk_count + 1 /\ t.small_blocks = s.small_blocks
         /\ t.large_blocks = s.large_blocks /\ t.carved = s.carved
         /\ t.lent = lent /\ t.mem = m /\ t.classes = cls
    BY <1>7, <1>8, <1>9, <1>11, <1>12, ZenonT(40) DEF SlabRec
  <1>14. /\ cls[i] = [free_head |-> s.classes[i].free_head, carve |-> base, carve_end |-> link]
         /\ \A j \in Classes : j # i => cls[j] = s.classes[j]
    BY <1>3, <1>6
  <1> QED
    BY <1>1, <1>4, <1>5, <1>13, <1>14 DEF ChunkAdded

\* A new chunk, linked to the older ones, is sound and has room to carve.
LEMMA AddChunkKeeps ==
    ASSUME NEW s, NEW hd, NEW K, SlabOK(s, hd, K), NEW i \in Classes,
           NEW base \in ParentRoom(s.lent, ChunkBytes, ChunkAlign), NEW t, t = AddChunk(s, i, base)
    PROVE  /\ SlabOK(t, hd, K \cup {base}) /\ t.parent = s.parent
           /\ t.classes[i].free_head = s.classes[i].free_head
           /\ CanCarve(t.classes[i], ClassSizes[i])
  <1> USE SlabAssumption
  <1> DEFINE link == base + ChunkRoom
             L == K \cup {base}
  <1>1. /\ s \in SlabRec /\ HeldOK(hd) /\ ChunksOK(K) /\ CutOK(s, K) /\ LargeOK(hd, K)
        /\ LentOK(s, hd, K) /\ s.lent \in SUBSET Block
    BY DEF SlabOK, SlabRec
  <1>2. ChunkRoom \in Nat /\ ChunkBytes = ChunkRoom + 1 /\ ChunkBytes \in Nat \ {0}
        /\ \A j \in Classes : ClassSizes[j] \in Nat \ {0} /\ ClassSizes[j] <= ChunkRoom
    BY ClassNat
  <1>3. /\ base \in Words /\ base % ChunkAlign = 0 /\ base .. base + ChunkBytes - 1 \subseteq Words
        /\ \A b \in s.lent : Away(b.addr, b.size, base, ChunkBytes)
    BY <1>1, <1>2, ParentRoomIs
  <1>4. base \in Nat /\ link \in Words /\ link \in Nat /\ base # Null /\ link # Null
    <2>1. base \in Nat /\ link \in base .. base + ChunkBytes - 1
      BY <1>2, <1>3, WordsAre
    <2> QED
      BY <1>3, <2>1, WordsAre
  <1>5. \A k \in K : /\ ChunkBlock(k) \in s.lent /\ Away(k, ChunkBytes, base, ChunkBytes)
                     /\ Away(base, ChunkBytes, k, ChunkBytes) /\ k # base /\ k \in Nat
    <2>1. ASSUME NEW k \in K
          PROVE  /\ ChunkBlock(k) \in s.lent /\ Away(k, ChunkBytes, base, ChunkBytes)
                 /\ Away(base, ChunkBytes, k, ChunkBytes) /\ k # base /\ k \in Nat
      <3>1. ChunkBlock(k) \in s.lent
        BY <1>1 DEF LentOK
      <3>2. k \in Nat /\ ChunkBlock(k).addr = k /\ ChunkBlock(k).size = ChunkBytes
        BY <1>1, ChunkIs
      <3>3. Away(k, ChunkBytes, base, ChunkBytes)
        BY <1>3, <3>1, <3>2
      <3> QED
        BY <1>2, <1>4, <3>1, <3>2, <3>3 DEF Away
    <2> QED
      BY <2>1
  <1>6. base \notin K /\ IsFiniteSet(L) /\ Cardinality(L) = Cardinality(K) + 1 /\ ChunksOK(L)
    <2>1. base \notin K /\ IsFiniteSet(K)
      BY <1>1, <1>5 DEF ChunksOK
    <2>2. IsFiniteSet(L) /\ Cardinality(L) = Cardinality(K) + 1
      BY <2>1, FS_AddElement
    <2> QED
      BY <1>1, <1>3, <1>5, <2>1, <2>2 DEF ChunksOK
  <1>7. LargeOK(hd, L)
    <2>1. ASSUME NEW b \in LargeOf(hd) PROVE Away(b.addr, b.size, base, ChunkBytes)
      BY <1>1, <1>3 DEF LentOK
    <2> QED
      BY <1>1, <2>1 DEF LargeOK
  <1>8. /\ t \in SlabRec /\ t.parent = s.parent /\ t.chunks = link
        /\ t.chunk_count = s.chunk_count + 1 /\ t.small_blocks = s.small_blocks
        /\ t.large_blocks = s.large_blocks /\ t.carved = s.carved
        /\ t.lent = s.lent \cup {ChunkBlock(base)}
        /\ t.mem = [s.mem EXCEPT ![link] = s.chunks]
        /\ t.classes[i] = [free_head |-> s.classes[i].free_head, carve |-> base, carve_end |-> link]
        /\ \A j \in Classes : j # i => t.classes[j] = s.classes[j]
    <2>1. ChunkAdded(s, t, i, base)
      BY <1>1, <1>3, <1>4, AddChunkIs
    <2> QED
      BY <2>1 DEF ChunkAdded
  <1>9. LentOK(t, hd, L)
    <2>1. t.lent = LargeOf(hd) \cup {ChunkBlock(k) : k \in L}
      BY <1>1, <1>8 DEF LentOK
    <2>2. t.chunk_count = Cardinality(L)
      BY <1>1, <1>6, <1>8 DEF LentOK
    <2>3. t.chunk_count * ChunkBytes + SizesOf(LargeOf(hd)) = SizesOf(t.lent)
      <3>1. ChunkBlock(base).size = ChunkBytes /\ ChunkBlock(base).addr = base
        BY <1>3, ChunkBlockIs
      <3>2. ChunkBlock(base) \notin s.lent
        <4>1. ~Away(base, ChunkBytes, base, ChunkBytes)
          BY <1>2, <1>4 DEF Away
        <4> QED
          BY <1>3, <3>1, <4>1
      <3>3. IsFiniteSet(s.lent) /\ \A b \in s.lent : b.size \in Nat
        BY LentFinite
      <3>4. SizesOf(t.lent) = SizesOf(s.lent) + ChunkBytes /\ SizesOf(s.lent) \in Nat
        <4>1. PICK c : c = ChunkBlock(base)
          OBVIOUS
        <4>2. c \notin s.lent /\ c.size = ChunkBytes /\ ChunkBytes \in Nat /\ c.size \in Nat
          BY <1>2, <3>1, <3>2, <4>1
        <4>3. SizesOf(s.lent \cup {c}) = SizesOf(s.lent) + c.size /\ SizesOf(s.lent) \in Nat
          BY <3>3, <4>2, SizesAdd
        <4> QED
          BY <1>8, <4>1, <4>2, <4>3
      <3>5. s.chunk_count \in Nat
        BY <1>1 DEF SlabRec
      <3>6. (s.chunk_count + 1) * ChunkBytes = s.chunk_count * ChunkBytes + ChunkBytes
        BY <1>2, <3>5
      <3>7. SizesOf(LargeOf(hd)) \in Nat
        BY LentFinite
      <3>8. s.chunk_count * ChunkBytes \in Nat
        BY <1>2, <3>5
      <3> QED
        BY <1>1, <1>2, <1>8, <3>4, <3>6, <3>7, <3>8 DEF LentOK
    <2> QED
      BY <2>1, <2>2, <2>3 DEF LentOK
  <1>10. CutOK(t, L)
    <2> DEFINE old == s.classes
               new == t.classes
    <2>1. ASSUME NEW j \in Classes, NEW a \in s.carved[j]
          PROVE  /\ \E k \in L : CutFrom(a, j, k)
                 /\ a \in Nat /\ (a + ClassSizes[j] <= base \/ link <= a)
      <3>1. PICK k \in K : CutFrom(a, j, k) /\ k \in Nat
        BY <1>1, CarvedIs
      <3>2. a \in Nat /\ k <= a /\ a + ClassSizes[j] <= k + ChunkRoom
        BY <1>1, <3>1, CarvedIs DEF CutFrom
      <3>3. Away(k, ChunkBytes, base, ChunkBytes)
        BY <1>5
      <3> QED
        BY <1>2, <1>4, <3>1, <3>2, <3>3, SMTT(30) DEF Away
    <2>2. ASSUME NEW j \in Classes, new[j].carve # Null
          PROVE  /\ \E k \in L : CarvesFrom(new[j], j, k)
                 /\ j # i => new[j].carve_end # link
      <3>1. CASE j = i
        <4>1. (base - base) % ClassSizes[i] = 0
          BY <1>2, <1>4
        <4>2. CarvesFrom(new[i], i, base)
          BY <1>2, <1>4, <1>8, <4>1 DEF CarvesFrom
        <4> QED
          BY <3>1, <4>2
      <3>2. CASE j # i
        <4>1. new[j] = old[j]
          BY <1>8, <3>2
        <4>2. PICK k \in K : CarvesFrom(old[j], j, k)
          BY <1>1, <2>2, <4>1 DEF CutOK
        <4>3. old[j].carve_end = k + ChunkRoom /\ k # base /\ k \in Nat
          BY <1>5, <4>2 DEF CarvesFrom
        <4> QED
          BY <1>2, <1>4, <4>1, <4>2, <4>3
      <3> QED
        BY <3>1, <3>2
    <2>3. ASSUME NEW j \in Classes, NEW p \in Classes
          PROVE  /\ \A a \in t.carved[j], d \in t.carved[p] :
                       (j = p /\ a = d) \/ Away(a, ClassSizes[j], d, ClassSizes[p])
                 /\ new[p].carve # Null =>
                       \A a \in t.carved[j] : a + ClassSizes[j] <= new[p].carve \/ new[p].carve_end <= a
                 /\ j # p /\ new[j].carve # Null /\ new[p].carve # Null =>
                       new[j].carve_end # new[p].carve_end
      <3>1. \A a \in t.carved[j], d \in t.carved[p] :
               (j = p /\ a = d) \/ Away(a, ClassSizes[j], d, ClassSizes[p])
        BY <1>1, <1>8 DEF CutOK
      <3>2. ASSUME new[p].carve # Null, NEW a \in t.carved[j]
            PROVE  a + ClassSizes[j] <= new[p].carve \/ new[p].carve_end <= a
        <4>1. a \in s.carved[j]
          BY <1>8
        <4>2. CASE p = i
          <5>1. new[p].carve = base /\ new[p].carve_end = link
            BY <1>8, <4>2
          <5> QED
            BY <2>1, <4>1, <5>1
        <4>3. CASE p # i
          <5>1. new[p] = old[p]
            BY <1>8, <4>3
          <5> QED
            BY <1>1, <3>2, <4>1, <5>1 DEF CutOK
        <4> QED
          BY <4>2, <4>3
      <3>3. ASSUME j # p, new[j].carve # Null, new[p].carve # Null
            PROVE  new[j].carve_end # new[p].carve_end
        <4>1. CASE j = i
          <5>1. new[j].carve_end = link
            BY <1>8, <4>1
          <5> QED
            BY <2>2, <3>3, <4>1, <5>1
        <4>2. CASE p = i
          <5>1. new[p].carve_end = link
            BY <1>8, <4>2
          <5> QED
            BY <2>2, <3>3, <4>2, <5>1
        <4>3. CASE j # i /\ p # i
          <5>1. new[j] = old[j] /\ new[p] = old[p]
            BY <1>8, <4>3
          <5> QED
            BY <1>1, <3>3, <5>1 DEF CutOK
        <4> QED
          BY <4>1, <4>2, <4>3
      <3> QED
        BY <3>1, <3>2, <3>3
    <2> QED
      BY <1>8, <2>1, <2>2, <2>3 DEF CutOK
  <1>11. ListsOK(t, hd, L)
    <2>1. \A a \in Words : a # link => t.mem[a] = s.mem[a]
      BY <1>1, <1>8 DEF SlabRec
    <2>2. t.mem[link] = s.chunks
      BY <1>1, <1>4, <1>8 DEF SlabRec
    <2>3. ASSUME NEW j \in Classes
          PROVE  Listed(t.mem, t.classes[j].free_head, t.carved[j] \ AddrsOf(hd))
      <3>1. t.classes[j].free_head = s.classes[j].free_head
        BY <1>8
      <3>2. \A a \in s.carved[j] \ AddrsOf(hd) : t.mem[a] = s.mem[a]
        <4>1. ASSUME NEW a \in s.carved[j] PROVE a \in Words /\ a # link
          <5>1. a \in Words /\ CutOK(t, L) /\ t.carved = s.carved
            BY <1>1, <1>8, <1>10, CarvedIs
          <5>2. a \notin Links(L)
            BY <1>6, <1>8, <5>1, CarvedIs
          <5> QED
            BY <5>1, <5>2 DEF Links
        <4> QED
          BY <2>1, <4>1
      <3>3. Listed(s.mem, s.classes[j].free_head, s.carved[j] \ AddrsOf(hd))
        BY DEF SlabOK, ListsOK
      <3>4. Listed(t.mem, s.classes[j].free_head, s.carved[j] \ AddrsOf(hd))
        BY <3>2, <3>3, ListedFrame, Zenon
      <3> QED
        BY <1>8, <3>1, <3>4
    <2>4. Listed(t.mem, t.chunks, Links(L))
      <3>1. \A a \in Links(K) : a # link /\ a \in Words
        <4>1. \A k \in K : k + ChunkRoom # link
          BY <1>2, <1>4, <1>5
        <4> QED
          BY <1>1, <4>1, LinksAre DEF Links
      <3>2. \A a \in Links(K) : t.mem[a] = s.mem[a]
        BY <2>1, <3>1
      <3>3. Listed(s.mem, s.chunks, Links(K)) /\ link \notin Links(K)
        BY <3>1 DEF SlabOK, ListsOK
      <3> HIDE DEF link
      <3>4. Listed(t.mem, link, Links(K) \cup {link})
        BY <2>2, <3>2, <3>3, ListedPush, Zenon
      <3>5. Links(L) = Links(K) \cup {link}
        BY DEF Links, link
      <3> QED
        BY <1>8, <3>4, <3>5
    <2> QED
      BY <2>3, <2>4 DEF ListsOK
  <1>12. SmallOK(t, hd) /\ CountsOK(t, hd)
    BY <1>8 DEF SlabOK, SmallOK, CountsOK
  <1>13. CanCarve(t.classes[i], ClassSizes[i])
    BY <1>2, <1>4, <1>8 DEF CanCarve
  <1> QED
    BY <1>1, <1>6, <1>7, <1>8, <1>9, <1>10, <1>11, <1>12, <1>13 DEF SlabOK

-----------------------------------------------------------------------------
(* Blocks handed out.                                                       *)

\* The head of a list is a member, or Null.
LEMMA HeadIs ==
    ASSUME NEW mem, NEW head, NEW S, Listed(mem, head, S)
    PROVE  head \in S \cup {Null}
  BY ListedPop

\* One block more among those held.
LEMMA HeldGrows ==
    ASSUME NEW hd, HeldOK(hd), NEW c \in Block, tda_layout_is_align(c.align)
    PROVE  /\ HeldOK(hd \cup {c}) /\ AddrsOf(hd \cup {c}) = AddrsOf(hd) \cup {c.addr}
           /\ Small(c) => SmallOf(hd \cup {c}) = SmallOf(hd) \cup {c} /\ LargeOf(hd \cup {c}) = LargeOf(hd)
           /\ ~Small(c) => SmallOf(hd \cup {c}) = SmallOf(hd) /\ LargeOf(hd \cup {c}) = LargeOf(hd) \cup {c}
  <1>1. IsFiniteSet(hd \cup {c})
    BY FS_AddElement DEF HeldOK
  <1>2. HeldOK(hd \cup {c})
    BY <1>1 DEF HeldOK
  <1> QED
    BY <1>2 DEF AddrsOf, SmallOf, LargeOf

\* A block of class i, of those cut and not held, is handed out.
LEMMA SmallTaken ==
    ASSUME NEW s, NEW hd, NEW K, SlabOK(s, hd, K), NEW i \in Classes,
           NEW t \in SlabRec, CutOK(t, K), t.lent = s.lent, t.chunk_count = s.chunk_count,
           t.small_blocks = s.small_blocks + 1, t.large_blocks = s.large_blocks,
           \A j \in Classes : s.carved[j] \subseteq t.carved[j],
           NEW c \in Block, tda_layout_is_align(c.align), ClassOf(LayoutOf(c)) = i,
           c.addr \in t.carved[i], c.addr \notin AddrsOf(hd), ListsOK(t, hd \cup {c}, K)
    PROVE  SlabOK(t, hd \cup {c}, K) /\ c \notin hd
  <1> USE SlabAssumption
  <1>1. /\ HeldOK(hd) /\ ChunksOK(K) /\ LargeOK(hd, K) /\ LentOK(s, hd, K) /\ SmallOK(s, hd)
        /\ CountsOK(s, hd)
    BY DEF SlabOK
  <1>2. c \notin hd /\ Small(c)
    BY ClassNat DEF AddrsOf, Small
  <1>3. /\ HeldOK(hd \cup {c}) /\ SmallOf(hd \cup {c}) = SmallOf(hd) \cup {c}
        /\ LargeOf(hd \cup {c}) = LargeOf(hd)
    BY <1>1, <1>2, HeldGrows
  <1>4. LargeOK(hd \cup {c}, K) /\ LentOK(t, hd \cup {c}, K)
    BY <1>1, <1>3 DEF LargeOK, LentOK
  <1>5. SmallOK(t, hd \cup {c})
    <2>1. \A b \in SmallOf(hd) : /\ ClassOf(LayoutOf(b)) \in Classes /\ b.addr # c.addr
                                 /\ b.addr \in t.carved[ClassOf(LayoutOf(b))]
      <3>1. ASSUME NEW b \in SmallOf(hd)
            PROVE  /\ ClassOf(LayoutOf(b)) \in Classes /\ b.addr # c.addr
                   /\ b.addr \in t.carved[ClassOf(LayoutOf(b))]
        <4>1. b \in hd /\ Small(b)
          BY DEF SmallOf
        <4>2. ClassOf(LayoutOf(b)) \in Classes
          BY <4>1, ClassOfIs DEF Small
        <4>3. b.addr # c.addr
          BY <4>1 DEF AddrsOf
        <4>4. b.addr \in s.carved[ClassOf(LayoutOf(b))]
          BY <1>1 DEF SmallOK
        <4> QED
          BY <4>2, <4>3, <4>4
      <3> QED
        BY <3>1
    <2> QED
      BY <1>1, <1>3, <2>1 DEF SmallOK
  <1>6. CountsOK(t, hd \cup {c})
    <2>1. IsFiniteSet(SmallOf(hd)) /\ c \notin SmallOf(hd)
      BY <1>2, LentFinite DEF SmallOf
    <2>2. Cardinality(SmallOf(hd) \cup {c}) = Cardinality(SmallOf(hd)) + 1
      BY <2>1, FS_AddElement
    <2> QED
      BY <1>1, <1>3, <2>2 DEF CountsOK
  <1> QED
    BY <1>1, <1>2, <1>3, <1>4, <1>5, <1>6 DEF SlabOK

\* slab_alloc from the list of class i
Popped(s, i) ==
    [s EXCEPT !.classes[i].free_head = s.mem[s.classes[i].free_head], !.small_blocks = @ + 1]

\* t is s with the head taken off the list of class i
HeadTaken(s, t, i) ==
    /\ t \in SlabRec /\ t.parent = s.parent /\ t.chunks = s.chunks
    /\ t.chunk_count = s.chunk_count /\ t.small_blocks = s.small_blocks + 1
    /\ t.large_blocks = s.large_blocks /\ t.carved = s.carved /\ t.lent = s.lent
    /\ t.mem = s.mem
    /\ t.classes[i] = [free_head |-> s.mem[s.classes[i].free_head], carve |-> s.classes[i].carve,
                       carve_end |-> s.classes[i].carve_end]
    /\ \A j \in Classes : j # i => t.classes[j] = s.classes[j]

\* The fields after the head of a list is taken.
LEMMA HeadTakenIs ==
    ASSUME SlabAssumption, NEW s \in SlabRec, NEW i \in Classes,
           s.mem[s.classes[i].free_head] \in Pointer,
           NEW t, t = Popped(s, i)
    PROVE  HeadTaken(s, t, i)
  <1>1. PICK next \in Pointer : next = s.mem[s.classes[i].free_head]
    OBVIOUS
  <1>2. s.classes \in [Classes -> ClassRec] /\ s.classes[i] \in ClassRec
    BY DEF SlabRec
  <1>3. PICK cls : cls = [s.classes EXCEPT ![i] = [free_head |-> next, carve |-> s.classes[i].carve,
                                                   carve_end |-> s.classes[i].carve_end]]
    OBVIOUS
  <1>4. cls \in [Classes -> ClassRec]
    BY <1>2, <1>3 DEF ClassRec
  <1>5. [s.classes EXCEPT ![i].free_head = next] = cls
    BY <1>2, <1>3 DEF ClassRec
  <1>6. t = [s EXCEPT !.classes = cls, !.small_blocks = @ + 1]
    <2>1. t = [s EXCEPT !.classes[i].free_head = next, !.small_blocks = @ + 1]
      BY <1>1 DEF Popped
    <2> QED
      BY <1>5, <2>1 DEF SlabRec
  <1>7. /\ t \in SlabRec /\ t.parent = s.parent /\ t.chunks = s.chunks
        /\ t.chunk_count = s.chunk_count /\ t.small_blocks = s.small_blocks + 1
        /\ t.large_blocks = s.large_blocks /\ t.carved = s.carved /\ t.lent = s.lent
        /\ t.mem = s.mem /\ t.classes = cls
    <2>1. s.small_blocks + 1 \in Nat
      BY DEF SlabRec
    <2> QED
      BY <1>4, <1>6, <2>1 DEF SlabRec
  <1>8. /\ cls[i] = [free_head |-> next, carve |-> s.classes[i].carve,
                     carve_end |-> s.classes[i].carve_end]
        /\ \A j \in Classes : j # i => cls[j] = s.classes[j]
    BY <1>2, <1>3
  <1> QED
    BY <1>1, <1>7, <1>8 DEF HeadTaken

\* c is a block at a that a free of it finds class i for
BlockFor(c, i, a) ==
    c \in Block /\ tda_layout_is_align(c.align) /\ ClassOf(LayoutOf(c)) = i /\ c.addr = a

\* The last block freed is handed out.
LEMMA FreedTaken ==
    ASSUME SlabAssumption, NEW s, NEW hd, NEW K, SlabOK(s, hd, K), NEW i \in Classes,
           s.classes[i].free_head # Null,
           NEW t, t = Popped(s, i), NEW c, BlockFor(c, i, s.classes[i].free_head)
    PROVE  SlabOK(t, hd \cup {c}, K) /\ c \notin hd /\ t.parent = s.parent
  <1>0. /\ c \in Block /\ tda_layout_is_align(c.align) /\ ClassOf(LayoutOf(c)) = i
        /\ c.addr = s.classes[i].free_head
    BY DEF BlockFor
  <1>1. s \in SlabRec /\ HeldOK(hd) /\ ChunksOK(K) /\ CutOK(s, K) /\ ListsOK(s, hd, K)
    BY DEF SlabOK
  <1>2. PICK head : head = s.classes[i].free_head
    OBVIOUS
  <1> DEFINE S == s.carved[i] \ AddrsOf(hd)
  <1>3. head \in S /\ Listed(s.mem, s.mem[head], S \ {head})
    <2>1. Listed(s.mem, head, S) /\ head # Null
      BY <1>1, <1>2 DEF ListsOK
    <2> QED
      BY <2>1, ListedPop, Zenon
  <1>4. s.mem[head] \in Pointer
    <2>1. s.mem[head] \in (S \ {head}) \cup {Null}
      BY <1>3, HeadIs, Zenon
    <2>2. S \subseteq Words
      BY <1>1 DEF SlabRec
    <2> QED
      BY <2>1, <2>2 DEF Pointer
  <1>5. HeadTaken(s, t, i)
    BY <1>1, <1>2, <1>4, HeadTakenIs
  <1>6. /\ t \in SlabRec /\ t.parent = s.parent /\ t.chunks = s.chunks
        /\ t.chunk_count = s.chunk_count /\ t.small_blocks = s.small_blocks + 1
        /\ t.large_blocks = s.large_blocks /\ t.carved = s.carved /\ t.lent = s.lent
        /\ t.mem = s.mem
        /\ \A j \in Classes : /\ t.classes[j].carve = s.classes[j].carve
                              /\ t.classes[j].carve_end = s.classes[j].carve_end
                              /\ t.classes[j].free_head =
                                    IF j = i THEN s.mem[head] ELSE s.classes[j].free_head
    BY <1>2, <1>5 DEF HeadTaken
  <1>7. CutOK(t, K)
    BY <1>1, <1>6, CutKept
  <1>8. AddrsOf(hd \cup {c}) = AddrsOf(hd) \cup {head}
    <2>1. AddrsOf(hd \cup {c}) = AddrsOf(hd) \cup {c.addr}
      BY <1>0, <1>1, HeldGrows, Zenon
    <2> QED
      BY <1>0, <1>2, <2>1
  <1>9. ListsOK(t, hd \cup {c}, K)
    <2>1. ASSUME NEW j \in Classes
          PROVE  Listed(t.mem, t.classes[j].free_head, t.carved[j] \ AddrsOf(hd \cup {c}))
      <3>1. CASE j = i
        <4>1. t.carved[j] \ AddrsOf(hd \cup {c}) = S \ {head}
          BY <1>6, <1>8, <3>1
        <4>2. t.classes[j].free_head = s.mem[head]
          BY <1>6, <3>1
        <4> HIDE DEF S
        <4> QED
          BY <1>3, <1>6, <4>1, <4>2
      <3>2. CASE j # i
        <4>1. head \notin s.carved[j]
          BY <1>1, <1>3, <3>2, CarvedOnce
        <4>2. t.carved[j] \ AddrsOf(hd \cup {c}) = s.carved[j] \ AddrsOf(hd)
          BY <1>6, <1>8, <4>1
        <4>3. Listed(s.mem, s.classes[j].free_head, s.carved[j] \ AddrsOf(hd))
          BY <1>1 DEF ListsOK
        <4>4. t.classes[j].free_head = s.classes[j].free_head
          BY <1>6, <3>2
        <4> QED
          BY <1>6, <4>2, <4>3, <4>4
      <3> QED
        BY <3>1, <3>2
    <2> QED
      BY <1>1, <1>6, <2>1 DEF ListsOK
  <1>10. c.addr \in t.carved[i] /\ c.addr \notin AddrsOf(hd)
    BY <1>0, <1>2, <1>3, <1>6
  <1>11. SlabOK(t, hd \cup {c}, K) /\ c \notin hd
    <2>1. \A j \in Classes : s.carved[j] \subseteq t.carved[j]
      BY <1>6
    <2>2. CutOK(t, K) /\ t \in SlabRec /\ t.lent = s.lent /\ t.chunk_count = s.chunk_count
          /\ t.small_blocks = s.small_blocks + 1 /\ t.large_blocks = s.large_blocks
      BY <1>6, <1>7
    <2> QED
      BY <1>0, <1>9, <1>10, <2>1, <2>2, SmallTaken
  <1> QED
    BY <1>6, <1>11

\* slab_alloc from the chunk class i carves
CutOff(s, i) ==
    [s EXCEPT !.classes[i].carve = @ + ClassSizes[i],
              !.carved[i] = @ \cup {s.classes[i].carve}, !.small_blocks = @ + 1]

\* t is s with a block cut for class i
BlockCut(s, t, i) ==
    /\ t \in SlabRec /\ t.parent = s.parent /\ t.chunks = s.chunks
    /\ t.chunk_count = s.chunk_count /\ t.small_blocks = s.small_blocks + 1
    /\ t.large_blocks = s.large_blocks /\ t.lent = s.lent /\ t.mem = s.mem
    /\ t.classes[i] = [free_head |-> s.classes[i].free_head,
                       carve |-> s.classes[i].carve + ClassSizes[i],
                       carve_end |-> s.classes[i].carve_end]
    /\ t.carved[i] = s.carved[i] \cup {s.classes[i].carve}
    /\ \A j \in Classes : j # i => t.classes[j] = s.classes[j] /\ t.carved[j] = s.carved[j]

\* The fields after a block is cut.
LEMMA CutOffIs ==
    ASSUME SlabAssumption, NEW s \in SlabRec, NEW i \in Classes, s.classes[i].carve \in Words,
           s.classes[i].carve + ClassSizes[i] \in Words, NEW t, t = CutOff(s, i)
    PROVE  BlockCut(s, t, i)
  <1>1. PICK a \in Words : a = s.classes[i].carve
    OBVIOUS
  <1>2. PICK d \in Words : d = a + ClassSizes[i]
    BY <1>1
  <1>3. /\ s.classes \in [Classes -> ClassRec] /\ s.classes[i] \in ClassRec
        /\ s.carved \in [Classes -> SUBSET Words] /\ s.small_blocks \in Nat
    BY DEF SlabRec
  <1>4. PICK cls : cls = [s.classes EXCEPT ![i] = [free_head |-> s.classes[i].free_head,
                                                   carve |-> d,
                                                   carve_end |-> s.classes[i].carve_end]]
    OBVIOUS
  <1>5. PICK cut : cut = [s.carved EXCEPT ![i] = s.carved[i] \cup {a}]
    OBVIOUS
  <1>6. cls \in [Classes -> ClassRec]
    BY <1>3, <1>4 DEF ClassRec, Pointer
  <1>7. cut \in [Classes -> SUBSET Words]
    BY <1>3, <1>5
  <1>8. [s.classes EXCEPT ![i].carve = d] = cls
    <2>1. PICK c \in ClassRec : c = s.classes[i]
      BY <1>3
    <2>2. [c EXCEPT !.carve = d] = [free_head |-> c.free_head, carve |-> d, carve_end |-> c.carve_end]
      <3>1. PICK head, from, end : c = [free_head |-> head, carve |-> from, carve_end |-> end]
        BY DEF ClassRec
      <3> QED
        BY <3>1, SMTT(30)
    <2> QED
      BY <1>3, <1>4, <2>1, <2>2
  <1>9. t = [s EXCEPT !.classes = cls, !.carved = cut, !.small_blocks = @ + 1]
    <2>1. t = [s EXCEPT !.classes[i].carve = d, !.carved[i] = @ \cup {a}, !.small_blocks = @ + 1]
      BY <1>1, <1>2 DEF CutOff
    <2>2. t = [s EXCEPT !.classes = [s.classes EXCEPT ![i].carve = d], !.carved = cut,
                        !.small_blocks = @ + 1]
      BY <1>5, <2>1 DEF SlabRec
    <2> QED
      BY <1>8, <2>2
  <1>10. s.small_blocks + 1 \in Nat
    BY <1>3
  <1>11. /\ t \in SlabRec /\ t.parent = s.parent /\ t.chunks = s.chunks
         /\ t.chunk_count = s.chunk_count /\ t.small_blocks = s.small_blocks + 1
         /\ t.large_blocks = s.large_blocks /\ t.lent = s.lent /\ t.mem = s.mem
         /\ t.classes = cls /\ t.carved = cut
    BY <1>6, <1>7, <1>9, <1>10 DEF SlabRec
  <1>12. /\ cls[i] = [free_head |-> s.classes[i].free_head, carve |-> d,
                      carve_end |-> s.classes[i].carve_end]
         /\ cut[i] = s.carved[i] \cup {a}
         /\ \A j \in Classes : j # i => cls[j] = s.classes[j] /\ cut[j] = s.carved[j]
    BY <1>3, <1>4, <1>5
  <1> QED
    BY <1>1, <1>2, <1>11, <1>12 DEF BlockCut

\* The block cut lies in its chunk, apart from the blocks cut before and from what other
\* classes carve.
LEMMA CutOffKeepsCut ==
    ASSUME SlabAssumption, NEW s \in SlabRec, NEW K, ChunksOK(K), CutOK(s, K), NEW i \in Classes,
           CanCarve(s.classes[i], ClassSizes[i]), NEW t, BlockCut(s, t, i)
    PROVE  CutOK(t, K) /\ \A j \in Classes : s.classes[i].carve \notin s.carved[j]
  <1>1. PICK a : a = s.classes[i].carve
    OBVIOUS
  <1>2. PICK e : e = s.classes[i].carve_end
    OBVIOUS
  <1>3. PICK k \in K : CarvesFrom(s.classes[i], i, k)
    BY DEF CutOK, CanCarve
  <1>4. /\ ChunkRoom \in Nat /\ ChunkBytes = ChunkRoom + 1
        /\ \A j \in Classes : ClassSizes[j] \in Nat \ {0}
    BY ClassNat
  <1>5. PICK n \in Nat \ {0} : n = ClassSizes[i]
    BY <1>4
  <1>6. k \in Nat /\ k \in Words /\ k .. k + ChunkBytes - 1 \subseteq Words
    BY ChunkIs DEF ChunksOK
  <1>7. a # Null /\ e = k + ChunkRoom /\ k <= a /\ a <= e /\ (a - k) % n = 0
    BY <1>1, <1>2, <1>3, <1>5 DEF CarvesFrom, CanCarve
  <1>8. a \in Nat /\ a + n <= e /\ e \in Nat
    <2>1. a \in Pointer
      BY <1>1 DEF SlabRec, ClassRec
    <2>2. a \in Nat
      BY <1>7, <2>1, WordsAre DEF Pointer
    <2>3. e - a >= n
      BY <1>1, <1>2, <1>5 DEF CanCarve
    <2> QED
      BY <1>4, <1>5, <1>6, <1>7, <2>2, <2>3
  <1>9. (a + n - k) % n = 0
    <2>1. (a - k) \in Int /\ n \in Int /\ n % n = 0 /\ (a - k) + n = a + n - k
      BY <1>6, <1>8
    <2>2. ((a - k) + n) % n = 0
      BY <1>7, <2>1, SumMod, Zenon
    <2> QED
      BY <2>1, <2>2
  <1>10. /\ t.classes[i].carve = a + n /\ t.classes[i].carve_end = e
         /\ t.carved[i] = s.carved[i] \cup {a}
         /\ \A j \in Classes : j # i => t.classes[j] = s.classes[j] /\ t.carved[j] = s.carved[j]
    BY <1>1, <1>2, <1>5 DEF BlockCut
  <1>11. CutFrom(a, i, k)
    BY <1>5, <1>7, <1>8 DEF CutFrom
  <1>12. CarvesFrom(t.classes[i], i, k)
    BY <1>5, <1>6, <1>7, <1>8, <1>9, <1>10, SMTT(30) DEF CarvesFrom
  <1>13. ASSUME NEW j \in Classes, NEW d \in s.carved[j]
         PROVE  /\ d \in Nat /\ Away(d, ClassSizes[j], a, n) /\ Away(a, n, d, ClassSizes[j])
                /\ d # a /\ (d + ClassSizes[j] <= a + n \/ e <= d)
    <2>1. d \in Nat /\ ClassSizes[j] \in Nat \ {0}
      BY <1>4, CarvedIs
    <2>2. d + ClassSizes[j] <= a \/ e <= d
      BY <1>1, <1>2, <1>7 DEF CutOK
    <2> QED
      BY <1>8, <2>1, <2>2 DEF Away
  <1>14. ASSUME NEW j \in Classes, j # i, s.classes[j].carve # Null
         PROVE  a + n <= s.classes[j].carve \/ s.classes[j].carve_end <= a
    <2>1. PICK p \in K : CarvesFrom(s.classes[j], j, p)
      BY <1>14 DEF CutOK
    <2>2. p \in Nat /\ s.classes[j].carve_end = p + ChunkRoom /\ p <= s.classes[j].carve
      BY <2>1, ChunkIs DEF CarvesFrom
    <2>3. s.classes[j].carve_end # e
      BY <1>1, <1>2, <1>7, <1>14 DEF CutOK
    <2>4. Away(p, ChunkBytes, k, ChunkBytes)
      BY <1>7, <2>2, <2>3 DEF ChunksOK
    <2>5. s.classes[j].carve \in Nat
      <3>1. s.classes[j].carve \in Pointer
        BY DEF SlabRec, ClassRec
      <3> QED
        BY <1>14, <3>1, WordsAre DEF Pointer
    <2>6. PICK c \in Nat : c = s.classes[j].carve
      BY <2>5
    <2>7. PICK f \in Nat : f = s.classes[j].carve_end /\ f = p + ChunkRoom
      BY <1>4, <2>2
    <2>8. a + n <= c \/ f <= a
      BY <1>4, <1>6, <1>7, <1>8, <2>2, <2>4, <2>6, <2>7 DEF Away
    <2> QED
      BY <2>6, <2>7, <2>8
  <1>15. ASSUME NEW j \in Classes
         PROVE  /\ \A d \in t.carved[j] : \E q \in K : CutFrom(d, j, q)
                /\ t.classes[j].carve # Null => \E q \in K : CarvesFrom(t.classes[j], j, q)
                /\ t.classes[j].carve_end = s.classes[j].carve_end
                /\ t.classes[j].carve # Null => s.classes[j].carve # Null
    <2>1. CASE j = i
      BY <1>1, <1>2, <1>7, <1>10, <1>11, <1>12, <2>1, ZenonT(40) DEF CutOK
    <2>2. CASE j # i
      BY <1>10, <2>2 DEF CutOK
    <2> QED
      BY <2>1, <2>2
  <1>16. ASSUME NEW j \in Classes, NEW p \in Classes, NEW x \in t.carved[j], NEW d \in t.carved[p]
         PROVE  (j = p /\ x = d) \/ Away(x, ClassSizes[j], d, ClassSizes[p])
    <2>1. CASE x \in s.carved[j] /\ d \in s.carved[p]
      BY <2>1 DEF CutOK
    <2>2. CASE x \in s.carved[j] /\ d \notin s.carved[p]
      <3>1. p = i /\ d = a
        BY <1>10, <2>2
      <3> QED
        BY <1>5, <1>13, <2>2, <3>1
    <2>3. CASE x \notin s.carved[j] /\ d \in s.carved[p]
      <3>1. j = i /\ x = a
        BY <1>10, <2>3
      <3> QED
        BY <1>5, <1>13, <2>3, <3>1
    <2>4. CASE x \notin s.carved[j] /\ d \notin s.carved[p]
      BY <1>10, <2>4, SMTT(30)
    <2> QED
      BY <2>1, <2>2, <2>3, <2>4
  <1>17. ASSUME NEW j \in Classes, NEW p \in Classes, NEW x \in t.carved[j], t.classes[p].carve # Null
         PROVE  x + ClassSizes[j] <= t.classes[p].carve \/ t.classes[p].carve_end <= x
    <2>1. CASE x \in s.carved[j]
      <3>1. CASE p = i
        BY <1>10, <1>13, <2>1, <3>1
      <3>2. CASE p # i
        BY <1>10, <1>17, <2>1, <3>2 DEF CutOK
      <3> QED
        BY <3>1, <3>2
    <2>2. CASE x \notin s.carved[j]
      <3>1. j = i /\ x = a
        BY <1>10, <2>2
      <3>2. CASE p = i
        BY <1>5, <1>8, <1>10, <3>1, <3>2
      <3>3. CASE p # i
        BY <1>5, <1>10, <1>14, <1>17, <3>1, <3>3
      <3> QED
        BY <3>2, <3>3
    <2> QED
      BY <2>1, <2>2
  <1>18. ASSUME NEW j \in Classes, NEW p \in Classes, j # p, t.classes[j].carve # Null,
                t.classes[p].carve # Null
         PROVE  t.classes[j].carve_end # t.classes[p].carve_end
    BY <1>15, <1>18 DEF CutOK
  <1>19. CutOK(t, K)
    BY <1>15, <1>16, <1>17, <1>18 DEF CutOK
  <1> QED
    BY <1>1, <1>13, <1>19

\* class i has room to carve
Ready(s, hd, K, i) ==
    SlabOK(s, hd, K) /\ i \in Classes /\ CanCarve(s.classes[i], ClassSizes[i])

\* A block cut from the chunk is handed out.
LEMMA FreshTaken ==
    ASSUME NEW s, NEW hd, NEW K, NEW i, Ready(s, hd, K, i),
           NEW t, t = CutOff(s, i), NEW c, BlockFor(c, i, s.classes[i].carve)
    PROVE  SlabOK(t, hd \cup {c}, K) /\ c \notin hd /\ t.parent = s.parent
  <1> USE SlabAssumption
  <1>a. SlabOK(s, hd, K) /\ i \in Classes /\ CanCarve(s.classes[i], ClassSizes[i])
    BY DEF Ready
  <1>b. /\ c \in Block /\ tda_layout_is_align(c.align) /\ ClassOf(LayoutOf(c)) = i
        /\ c.addr = s.classes[i].carve
    BY DEF BlockFor
  <1>1. s \in SlabRec /\ HeldOK(hd) /\ ChunksOK(K) /\ CutOK(s, K) /\ ListsOK(s, hd, K) /\ SmallOK(s, hd)
        /\ LargeOK(hd, K)
    BY <1>a DEF SlabOK
  <1>2. PICK a : a = s.classes[i].carve
    OBVIOUS
  <1>3. a \in Words /\ a + ClassSizes[i] \in Words
    <2>1. PICK k \in K : CarvesFrom(s.classes[i], i, k)
      BY <1>a, <1>1 DEF CutOK, CanCarve
    <2>2. /\ s.classes[i].carve_end = k + ChunkRoom /\ k <= a /\ a <= k + ChunkRoom
          /\ (k + ChunkRoom) - a >= ClassSizes[i]
      BY <1>a, <1>2, <2>1 DEF CarvesFrom, CanCarve
    <2>3. k \in Nat /\ k .. k + ChunkBytes - 1 \subseteq Words
      BY <1>a, <1>1, ChunkIs DEF ChunksOK
    <2>4. ChunkRoom \in Nat /\ ChunkBytes = ChunkRoom + 1 /\ ClassSizes[i] \in Nat \ {0}
      BY <1>a, ClassNat
    <2>5. a \in Nat
      <3>1. a \in Pointer /\ a # Null
        BY <1>a, <1>1, <1>2 DEF SlabRec, ClassRec, CanCarve
      <3> QED
        BY <3>1, WordsAre DEF Pointer
    <2>6. a \in k .. k + ChunkBytes - 1 /\ a + ClassSizes[i] \in k .. k + ChunkBytes - 1
      BY <2>2, <2>3, <2>4, <2>5, SMTT(30)
    <2> QED
      BY <2>3, <2>6
  <1>4. BlockCut(s, t, i)
    BY <1>a, <1>1, <1>2, <1>3, CutOffIs
  <1>5. CutOK(t, K) /\ \A j \in Classes : a \notin s.carved[j]
    BY <1>a, <1>1, <1>2, <1>4, CutOffKeepsCut
  <1>6. /\ t \in SlabRec /\ t.parent = s.parent /\ t.chunks = s.chunks
        /\ t.chunk_count = s.chunk_count /\ t.small_blocks = s.small_blocks + 1
        /\ t.large_blocks = s.large_blocks /\ t.lent = s.lent /\ t.mem = s.mem
        /\ \A j \in Classes : /\ t.classes[j].free_head = s.classes[j].free_head
                              /\ t.carved[j] = IF j = i THEN s.carved[j] \cup {a} ELSE s.carved[j]
    <2>1. ASSUME NEW j \in Classes
          PROVE  /\ t.classes[j].free_head = s.classes[j].free_head
                 /\ t.carved[j] = IF j = i THEN s.carved[j] \cup {a} ELSE s.carved[j]
      <3>1. CASE j = i
        BY <1>a, <1>2, <1>4, <3>1 DEF BlockCut
      <3>2. CASE j # i
        BY <1>4, <3>2 DEF BlockCut
      <3> QED
        BY <3>1, <3>2
    <2> QED
      BY <1>4, <2>1 DEF BlockCut
  <1>7. a \notin AddrsOf(hd)
    <2>1. ASSUME NEW b \in hd PROVE b.addr # a
      <3>1. CASE Small(b)
        <4>1. b \in SmallOf(hd) /\ ClassOf(LayoutOf(b)) \in Classes
          BY <3>1, ClassOfIs DEF SmallOf, Small
        <4>2. b.addr \in s.carved[ClassOf(LayoutOf(b))]
          BY <1>a, <1>1, <4>1 DEF SmallOK
        <4> QED
          BY <1>a, <1>5, <4>1, <4>2
      <3>2. CASE ~Small(b)
        <4>1. b \in LargeOf(hd) /\ a \in t.carved[i]
          BY <1>a, <1>6, <3>2 DEF LargeOf
        <4> QED
          BY <1>a, <1>1, <1>5, <1>6, <4>1, LargeAwayCarved
      <3> QED
        BY <3>1, <3>2
    <2> QED
      BY <2>1 DEF AddrsOf
  <1>8. AddrsOf(hd \cup {c}) = AddrsOf(hd) \cup {a}
    <2>1. AddrsOf(hd \cup {c}) = AddrsOf(hd) \cup {c.addr}
      BY <1>a, <1>b, <1>1, HeldGrows, Zenon
    <2> QED
      BY <1>b, <1>2, <2>1
  <1>9. ListsOK(t, hd \cup {c}, K)
    <2>1. ASSUME NEW j \in Classes
          PROVE  Listed(t.mem, t.classes[j].free_head, t.carved[j] \ AddrsOf(hd \cup {c}))
      <3>1. t.carved[j] \ AddrsOf(hd \cup {c}) = s.carved[j] \ AddrsOf(hd)
        BY <1>5, <1>6, <1>8
      <3>2. Listed(s.mem, s.classes[j].free_head, s.carved[j] \ AddrsOf(hd))
        BY <1>1 DEF ListsOK
      <3>3. t.classes[j].free_head = s.classes[j].free_head
        BY <1>6
      <3> QED
        BY <1>6, <3>1, <3>2, <3>3
    <2> QED
      BY <1>a, <1>1, <1>6, <2>1 DEF ListsOK
  <1>10. c.addr \in t.carved[i] /\ c.addr \notin AddrsOf(hd)
    BY <1>a, <1>b, <1>2, <1>6, <1>7
  <1>11. SlabOK(t, hd \cup {c}, K) /\ c \notin hd
    <2>1. \A j \in Classes : s.carved[j] \subseteq t.carved[j]
      BY <1>6
    <2>2. CutOK(t, K) /\ t \in SlabRec /\ t.lent = s.lent /\ t.chunk_count = s.chunk_count
          /\ t.small_blocks = s.small_blocks + 1 /\ t.large_blocks = s.large_blocks
      BY <1>5, <1>6
    <2> QED
      BY <1>a, <1>b, <1>9, <1>10, <2>1, <2>2, SmallTaken
  <1> QED
    BY <1>6, <1>11

\* slab_alloc from the parent
LentMore(s, c) == [s EXCEPT !.large_blocks = @ + 1, !.lent = @ \cup {c}]

\* A block the parent answers for is handed out beside those held.
LEMMA LargeTaken ==
    ASSUME NEW s, NEW hd, NEW K, SlabOK(s, hd, K), NEW c, IsLayout(LayoutOf(c)),
           c \in [addr : ParentRoom(s.lent, c.size, c.align), size : Nat \ {0}, align : Nat \ {0}],
           ~Small(c), NEW t, t = LentMore(s, c)
    PROVE  SlabOK(t, hd \cup {c}, K) /\ c \notin hd /\ t.parent = s.parent
  <1> USE SlabAssumption
  <1>1. /\ s \in SlabRec /\ HeldOK(hd) /\ ChunksOK(K) /\ CutOK(s, K) /\ ListsOK(s, hd, K)
        /\ SmallOK(s, hd) /\ LargeOK(hd, K) /\ LentOK(s, hd, K) /\ CountsOK(s, hd)
        /\ s.lent \in SUBSET Block
    BY DEF SlabOK, SlabRec
  <1>2. /\ c.addr \in Words /\ c.addr % c.align = 0
        /\ \A b \in s.lent : Away(b.addr, b.size, c.addr, c.size)
    BY <1>1, ParentRoomIs
  <1>3. c \in Block /\ tda_layout_is_align(c.align)
    BY <1>2 DEF Block, IsLayout, LayoutOf
  <1>4. c.addr \in Nat /\ c.size \in Nat \ {0}
    BY <1>3, BlockIs
  <1>5. c \notin s.lent
    <2>1. ~Away(c.addr, c.size, c.addr, c.size)
      BY <1>4 DEF Away
    <2> QED
      BY <1>2, <2>1
  <1>6. c \notin LargeOf(hd) /\ c \notin hd
    BY <1>1, <1>5 DEF LentOK, LargeOf
  <1>7. /\ HeldOK(hd \cup {c}) /\ AddrsOf(hd \cup {c}) = AddrsOf(hd) \cup {c.addr}
        /\ SmallOf(hd \cup {c}) = SmallOf(hd) /\ LargeOf(hd \cup {c}) = LargeOf(hd) \cup {c}
    BY <1>1, <1>3, HeldGrows
  <1>8. PICK lent : lent = s.lent \cup {c}
    OBVIOUS
  <1>9. lent \in SUBSET Block /\ s.large_blocks + 1 \in Nat
    BY <1>1, <1>3, <1>8 DEF SlabRec
  <1>10. /\ t \in SlabRec /\ t.parent = s.parent /\ t.chunks = s.chunks
         /\ t.chunk_count = s.chunk_count /\ t.small_blocks = s.small_blocks
         /\ t.large_blocks = s.large_blocks + 1 /\ t.lent = lent /\ t.mem = s.mem
         /\ t.classes = s.classes /\ t.carved = s.carved
    <2>1. t = [s EXCEPT !.large_blocks = @ + 1, !.lent = lent]
      BY <1>1, <1>8 DEF SlabRec, LentMore
    <2> QED
      BY <1>1, <1>9, <2>1 DEF SlabRec
  <1>11. LargeOK(hd \cup {c}, K)
    <2>1. ASSUME NEW b \in LargeOf(hd)
          PROVE  Away(b.addr, b.size, c.addr, c.size) /\ Away(c.addr, c.size, b.addr, b.size)
      <3>1. Away(b.addr, b.size, c.addr, c.size)
        BY <1>1, <1>2 DEF LentOK
      <3> QED
        BY <3>1 DEF Away
    <2>2. ASSUME NEW k \in K PROVE Away(c.addr, c.size, k, ChunkBytes)
      <3>1. ChunkBlock(k) \in s.lent /\ ChunkBlock(k).addr = k /\ ChunkBlock(k).size = ChunkBytes
        BY <1>1, ChunkIs DEF LentOK
      <3>2. Away(k, ChunkBytes, c.addr, c.size)
        BY <1>2, <3>1
      <3> QED
        BY <3>2 DEF Away
    <2> QED
      BY <1>1, <1>2, <1>7, <2>1, <2>2 DEF LargeOK
  <1>12. LentOK(t, hd \cup {c}, K)
    <2>1. t.lent = LargeOf(hd \cup {c}) \cup {ChunkBlock(k) : k \in K}
      BY <1>1, <1>7, <1>8, <1>10 DEF LentOK
    <2>2. SizesOf(lent) = SizesOf(s.lent) + c.size
      <3>1. IsFiniteSet(s.lent) /\ (\A b \in s.lent : b.size \in Nat) /\ c.size \in Nat
        BY <1>4, LentFinite
      <3> QED
        BY <1>5, <1>8, <3>1, SizesAdd
    <2>3. SizesOf(LargeOf(hd \cup {c})) = SizesOf(LargeOf(hd)) + c.size
      <3>1. IsFiniteSet(LargeOf(hd)) /\ (\A b \in LargeOf(hd) : b.size \in Nat) /\ c.size \in Nat
        BY <1>4, LentFinite
      <3> QED
        BY <1>6, <1>7, <3>1, SizesAdd
    <2>4. /\ SizesOf(LargeOf(hd)) \in Nat /\ SizesOf(s.lent) \in Nat /\ c.size \in Nat
          /\ s.chunk_count * ChunkBytes \in Nat
      <3>1. s.chunk_count \in Nat /\ ChunkBytes \in Nat
        BY LentFinite, ClassNat
      <3> QED
        BY <1>4, <3>1, LentFinite
    <2>5. t.chunk_count * ChunkBytes + SizesOf(LargeOf(hd \cup {c})) = SizesOf(t.lent)
      <3>1. s.chunk_count * ChunkBytes + SizesOf(LargeOf(hd)) = SizesOf(s.lent)
        BY <1>1 DEF LentOK
      <3> QED
        BY <1>10, <2>2, <2>3, <2>4, <3>1
    <2> QED
      BY <1>1, <1>10, <2>1, <2>5 DEF LentOK
  <1>13. CutOK(t, K)
    BY <1>1, <1>10, CutKept
  <1>14. SmallOK(t, hd \cup {c})
    BY <1>1, <1>7, <1>10 DEF SmallOK
  <1>15. CountsOK(t, hd \cup {c})
    <2>1. IsFiniteSet(LargeOf(hd))
      BY LentFinite
    <2>2. Cardinality(LargeOf(hd) \cup {c}) = Cardinality(LargeOf(hd)) + 1
      BY <1>6, <2>1, FS_AddElement
    <2> QED
      BY <1>1, <1>7, <1>10, <2>2 DEF CountsOK
  <1>16. ListsOK(t, hd \cup {c}, K)
    <2>1. ASSUME NEW j \in Classes PROVE s.carved[j] \ AddrsOf(hd \cup {c}) = s.carved[j] \ AddrsOf(hd)
      <3>1. c.addr \notin s.carved[j]
        <4>1. ASSUME c.addr \in s.carved[j] PROVE FALSE
          <5>1. PICK k \in K : CutFrom(c.addr, j, k) /\ k \in Nat
            BY <1>1, <4>1, CarvedIs
          <5>2. ChunkBlock(k) \in s.lent /\ ChunkBlock(k).addr = k /\ ChunkBlock(k).size = ChunkBytes
            BY <1>1, ChunkIs DEF LentOK
          <5>3. Away(k, ChunkBytes, c.addr, c.size)
            BY <1>2, <5>2
          <5>4. ClassSizes[j] \in Nat \ {0} /\ ChunkRoom \in Nat /\ ChunkBytes = ChunkRoom + 1
            BY ClassNat
          <5>5. k <= c.addr /\ c.addr + ClassSizes[j] <= k + ChunkRoom
            BY <5>1 DEF CutFrom
          <5> QED
            BY <1>4, <5>1, <5>3, <5>4, <5>5 DEF Away
        <4> QED
          BY <4>1
      <3> QED
        BY <1>7, <3>1
    <2> QED
      BY <1>1, <1>10, <2>1 DEF ListsOK
  <1> QED
    BY <1>1, <1>6, <1>7, <1>10, <1>11, <1>12, <1>13, <1>14, <1>15, <1>16 DEF SlabOK

-----------------------------------------------------------------------------
(* Blocks given back.                                                       *)

\* One block less among those held.
LEMMA HeldShrinks ==
    ASSUME SlabAssumption, NEW s, NEW hd, NEW K, SlabOK(s, hd, K), NEW b \in hd
    PROVE  /\ HeldOK(hd \ {b}) /\ AddrsOf(hd \ {b}) = AddrsOf(hd) \ {b.addr} /\ b.addr \in AddrsOf(hd)
           /\ SmallOf(hd \ {b}) = SmallOf(hd) \ {b} /\ LargeOf(hd \ {b}) = LargeOf(hd) \ {b}
  <1>1. HeldOK(hd) /\ b \in Block
    BY DEF SlabOK, HeldOK
  <1>2. IsFiniteSet(hd \ {b})
    BY <1>1, FS_Subset DEF HeldOK
  <1>3. \A c \in hd : c # b => c.addr # b.addr
    <2>1. ASSUME NEW c \in hd, c # b PROVE c.addr # b.addr
      <3>1. Away(b.addr, b.size, c.addr, c.size)
        BY <2>1, HeldApart
      <3>2. c \in Block
        BY <1>1 DEF HeldOK
      <3>3. b.addr \in Nat /\ b.size \in Nat \ {0} /\ c.addr \in Nat /\ c.size \in Nat \ {0}
        BY <1>1, <3>2, BlockIs
      <3> QED
        BY <3>1, <3>3 DEF Away
    <2> QED
      BY <2>1
  <1> QED
    BY <1>1, <1>2, <1>3 DEF HeldOK, AddrsOf, SmallOf, LargeOf

\* slab_dealloc to the list of class i
Pushed(s, b, i) ==
    [s EXCEPT !.mem[b.addr] = s.classes[i].free_head, !.classes[i].free_head = b.addr,
              !.small_blocks = @ - 1]

\* t is s with b put before the others on the list of class i
HeadPut(s, t, b, i) ==
    /\ t \in SlabRec /\ t.parent = s.parent /\ t.chunks = s.chunks
    /\ t.chunk_count = s.chunk_count /\ t.small_blocks = s.small_blocks - 1
    /\ t.large_blocks = s.large_blocks /\ t.carved = s.carved /\ t.lent = s.lent
    /\ t.mem[b.addr] = s.classes[i].free_head
    /\ \A a \in Words : a # b.addr => t.mem[a] = s.mem[a]
    /\ t.classes[i] = [free_head |-> b.addr, carve |-> s.classes[i].carve,
                       carve_end |-> s.classes[i].carve_end]
    /\ \A j \in Classes : j # i => t.classes[j] = s.classes[j]

\* The fields after a block is put at the head of its list.
LEMMA HeadPutIs ==
    ASSUME SlabAssumption, NEW s \in SlabRec, NEW i \in Classes, NEW b, b.addr \in Words,
           s.small_blocks - 1 \in Nat, NEW t, t = Pushed(s, b, i)
    PROVE  HeadPut(s, t, b, i)
  <1>1. PICK a \in Words : a = b.addr
    OBVIOUS
  <1>2. s.classes \in [Classes -> ClassRec] /\ s.classes[i] \in ClassRec
        /\ s.mem \in [Words -> Pointer \cup {Garbage}]
    BY DEF SlabRec
  <1>3. PICK c \in ClassRec : c = s.classes[i]
    BY <1>2
  <1>4. PICK d : d = [free_head |-> a, carve |-> c.carve, carve_end |-> c.carve_end]
    OBVIOUS
  <1>5. PICK cls : cls = [s.classes EXCEPT ![i] = d]
    OBVIOUS
  <1>6. PICK m : m = [s.mem EXCEPT ![a] = c.free_head]
    OBVIOUS
  <1>7. d \in ClassRec
    BY <1>4 DEF ClassRec, Pointer
  <1>8. cls \in [Classes -> ClassRec] /\ m \in [Words -> Pointer \cup {Garbage}]
    <2>1. c.free_head \in Pointer
      BY DEF ClassRec
    <2> QED
      BY <1>2, <1>5, <1>6, <1>7, <2>1
  <1>9. [s.classes EXCEPT ![i].free_head = a] = cls
    <2>1. [c EXCEPT !.free_head = a] = d
      <3>1. PICK head, from, end : c = [free_head |-> head, carve |-> from, carve_end |-> end]
        BY DEF ClassRec
      <3> QED
        BY <1>4, <3>1
    <2> QED
      BY <1>2, <1>3, <1>5, <2>1
  <1>10. t = [s EXCEPT !.mem = m, !.classes = cls, !.small_blocks = @ - 1]
    <2>1. t = [s EXCEPT !.mem[a] = c.free_head, !.classes[i].free_head = a, !.small_blocks = @ - 1]
      BY <1>1, <1>3 DEF Pushed
    <2>2. t = [s EXCEPT !.mem = m, !.classes = [s.classes EXCEPT ![i].free_head = a],
                        !.small_blocks = @ - 1]
      BY <1>6, <2>1 DEF SlabRec
    <2> QED
      BY <1>9, <2>2
  <1>11. /\ t \in SlabRec /\ t.parent = s.parent /\ t.chunks = s.chunks
         /\ t.chunk_count = s.chunk_count /\ t.small_blocks = s.small_blocks - 1
         /\ t.large_blocks = s.large_blocks /\ t.carved = s.carved /\ t.lent = s.lent
         /\ t.mem = m /\ t.classes = cls
    BY <1>8, <1>10 DEF SlabRec
  <1>12. /\ cls[i] = d /\ \A j \in Classes : j # i => cls[j] = s.classes[j]
         /\ m[a] = c.free_head /\ \A e \in Words : e # a => m[e] = s.mem[e]
    BY <1>2, <1>5, <1>6
  <1> QED
    BY <1>1, <1>3, <1>4, <1>11, <1>12 DEF HeadPut

\* A small block goes back to the list of its class.
LEMMA SmallFreed ==
    ASSUME SlabAssumption, NEW s, NEW hd, NEW K, SlabOK(s, hd, K), NEW b \in SmallOf(hd),
           NEW i, i = ClassOf(LayoutOf(b)), NEW t, t = Pushed(s, b, i)
    PROVE  SlabOK(t, hd \ {b}, K) /\ t.parent = s.parent
  <1>1. /\ s \in SlabRec /\ HeldOK(hd) /\ ChunksOK(K) /\ CutOK(s, K) /\ ListsOK(s, hd, K)
        /\ SmallOK(s, hd) /\ LargeOK(hd, K) /\ LentOK(s, hd, K) /\ CountsOK(s, hd)
    BY DEF SlabOK
  <1>2. b \in hd /\ Small(b)
    BY DEF SmallOf
  <1>3. i \in Classes /\ b.addr \in s.carved[i]
    BY <1>1, <1>2, ClassOfIs DEF SmallOK, Small
  <1>4. b.addr \in Words /\ b.addr \notin Links(K)
    BY <1>1, <1>3, CarvedIs
  <1>5. /\ HeldOK(hd \ {b}) /\ AddrsOf(hd \ {b}) = AddrsOf(hd) \ {b.addr} /\ b.addr \in AddrsOf(hd)
        /\ SmallOf(hd \ {b}) = SmallOf(hd) \ {b} /\ LargeOf(hd \ {b}) = LargeOf(hd) \ {b}
    BY <1>2, HeldShrinks
  <1>6. LargeOf(hd \ {b}) = LargeOf(hd)
    BY <1>2, <1>5 DEF LargeOf
  <1>7. /\ Cardinality(SmallOf(hd \ {b})) = Cardinality(SmallOf(hd)) - 1
        /\ Cardinality(SmallOf(hd \ {b})) \in Nat
    <2>1. IsFiniteSet(SmallOf(hd))
      BY LentFinite
    <2> QED
      BY <1>5, <2>1, Smaller
  <1>8. s.small_blocks - 1 \in Nat
    BY <1>1, <1>7 DEF CountsOK
  <1>9. HeadPut(s, t, b, i)
    BY <1>1, <1>3, <1>4, <1>8, HeadPutIs
  <1>10. /\ t \in SlabRec /\ t.parent = s.parent /\ t.chunks = s.chunks
         /\ t.chunk_count = s.chunk_count /\ t.small_blocks = s.small_blocks - 1
         /\ t.large_blocks = s.large_blocks /\ t.carved = s.carved /\ t.lent = s.lent
         /\ t.mem[b.addr] = s.classes[i].free_head
         /\ \A a \in Words : a # b.addr => t.mem[a] = s.mem[a]
         /\ t.classes[i].free_head = b.addr
         /\ \A j \in Classes : /\ t.classes[j].carve = s.classes[j].carve
                               /\ t.classes[j].carve_end = s.classes[j].carve_end
                               /\ j # i => t.classes[j].free_head = s.classes[j].free_head
    <2>1. ASSUME NEW j \in Classes
          PROVE  /\ t.classes[j].carve = s.classes[j].carve
                 /\ t.classes[j].carve_end = s.classes[j].carve_end
                 /\ j # i => t.classes[j].free_head = s.classes[j].free_head
      <3>1. CASE j = i
        BY <1>9, <3>1 DEF HeadPut
      <3>2. CASE j # i
        BY <1>9, <3>2 DEF HeadPut
      <3> QED
        BY <3>1, <3>2
    <2> QED
      BY <1>9, <2>1 DEF HeadPut
  <1>11. CutOK(t, K)
    BY <1>1, <1>10, CutKept
  <1>12. LargeOK(hd \ {b}, K) /\ LentOK(t, hd \ {b}, K)
    BY <1>1, <1>6, <1>10 DEF LargeOK, LentOK
  <1>13. SmallOK(t, hd \ {b})
    BY <1>1, <1>5, <1>10 DEF SmallOK
  <1>14. CountsOK(t, hd \ {b})
    BY <1>1, <1>6, <1>7, <1>10 DEF CountsOK
  <1>15. ListsOK(t, hd \ {b}, K)
    <2>1. ASSUME NEW j \in Classes
          PROVE  Listed(t.mem, t.classes[j].free_head, t.carved[j] \ AddrsOf(hd \ {b}))
      <3> DEFINE S == s.carved[j] \ AddrsOf(hd)
      <3>1. \A a \in S : t.mem[a] = s.mem[a]
        <4>1. \A a \in S : a \in Words /\ a # b.addr
          BY <1>1, <1>5, CarvedIs
        <4> QED
          BY <1>10, <4>1
      <3>2. Listed(s.mem, s.classes[j].free_head, S)
        BY <1>1 DEF ListsOK
      <3>3. CASE j = i
        <4>1. PICK a, head : a = b.addr /\ head = s.classes[j].free_head
          OBVIOUS
        <4>2. a \in s.carved[j] /\ a \in AddrsOf(hd) /\ t.carved[j] = s.carved[j]
          BY <1>3, <1>5, <1>10, <3>3, <4>1
        <4>3. AddrsOf(hd \ {b}) = AddrsOf(hd) \ {a}
          BY <1>5, <4>1
        <4>4. t.carved[j] \ AddrsOf(hd \ {b}) = S \cup {a} /\ a \notin S
          BY <4>2, <4>3
        <4>5. t.mem[a] = head /\ t.classes[j].free_head = a /\ Listed(s.mem, head, S)
          BY <1>10, <3>2, <3>3, <4>1
        <4> HIDE DEF S
        <4>6. PICK T : T = S
          OBVIOUS
        <4>7. PICK m, with : m = s.mem /\ with = t.mem
          OBVIOUS
        <4>8. /\ Listed(m, head, T) /\ a \notin T /\ with[a] = head
              /\ \A d \in T : with[d] = m[d]
          BY <3>1, <4>4, <4>5, <4>6, <4>7
        <4>9. Listed(with, a, T \cup {a})
          BY <4>8, ListedPush, Zenon
        <4> QED
          BY <4>4, <4>5, <4>6, <4>7, <4>9
      <3>4. CASE j # i
        <4>1. b.addr \notin s.carved[j]
          BY <1>1, <1>3, <3>4, CarvedOnce
        <4>2. t.carved[j] \ AddrsOf(hd \ {b}) = S
          BY <1>5, <1>10, <4>1
        <4>3. t.classes[j].free_head = s.classes[j].free_head
          BY <1>10, <3>4
        <4> HIDE DEF S
        <4>4. Listed(t.mem, s.classes[j].free_head, S)
          BY <3>1, <3>2, ListedFrame, Zenon
        <4> QED
          BY <4>2, <4>3, <4>4
      <3> QED
        BY <3>3, <3>4
    <2>2. Listed(t.mem, t.chunks, Links(K))
      <3>1. \A a \in Links(K) : t.mem[a] = s.mem[a]
        BY <1>1, <1>4, <1>10, LinksAre
      <3>2. Listed(s.mem, s.chunks, Links(K))
        BY <1>1 DEF ListsOK
      <3>3. Listed(t.mem, s.chunks, Links(K))
        BY <3>1, <3>2, ListedFrame, Zenon
      <3> QED
        BY <1>10, <3>3
    <2> QED
      BY <2>1, <2>2 DEF ListsOK
  <1> QED
    BY <1>1, <1>5, <1>10, <1>11, <1>12, <1>13, <1>14, <1>15 DEF SlabOK

\* slab_dealloc to the parent
LentLess(s, b) == [s EXCEPT !.large_blocks = @ - 1, !.lent = @ \ {b}]

\* A large block goes back to the parent.
LEMMA LargeFreed ==
    ASSUME SlabAssumption, NEW s, NEW hd, NEW K, SlabOK(s, hd, K), NEW b \in LargeOf(hd),
           NEW t, t = LentLess(s, b)
    PROVE  SlabOK(t, hd \ {b}, K) /\ t.parent = s.parent /\ t.lent = s.lent \ {b}
  <1>1. /\ s \in SlabRec /\ HeldOK(hd) /\ ChunksOK(K) /\ CutOK(s, K) /\ ListsOK(s, hd, K)
        /\ SmallOK(s, hd) /\ LargeOK(hd, K) /\ LentOK(s, hd, K) /\ CountsOK(s, hd)
    BY DEF SlabOK
  <1>2. b \in hd /\ ~Small(b) /\ b \in Block
    BY <1>1 DEF LargeOf, HeldOK
  <1>3. /\ HeldOK(hd \ {b}) /\ AddrsOf(hd \ {b}) = AddrsOf(hd) \ {b.addr}
        /\ SmallOf(hd \ {b}) = SmallOf(hd) \ {b} /\ LargeOf(hd \ {b}) = LargeOf(hd) \ {b}
    BY <1>2, HeldShrinks
  <1>4. SmallOf(hd \ {b}) = SmallOf(hd)
    BY <1>2, <1>3 DEF SmallOf
  <1>5. b \in s.lent /\ \A k \in K : b # ChunkBlock(k)
    <2>1. ASSUME NEW k \in K PROVE b # ChunkBlock(k)
      <3>1. Away(b.addr, b.size, k, ChunkBytes)
        BY <1>1 DEF LargeOK
      <3>2. ChunkBlock(k).addr = k /\ ChunkBlock(k).size = ChunkBytes
        BY <1>1, ChunkIs
      <3>3. b.addr \in Nat /\ b.size \in Nat \ {0}
        BY <1>2, BlockIs
      <3> QED
        BY <3>1, <3>2, <3>3 DEF Away
    <2> QED
      BY <1>1, <2>1 DEF LentOK
  <1>6. PICK lent : lent = s.lent \ {b}
    OBVIOUS
  <1>7. IsFiniteSet(LargeOf(hd)) /\ IsFiniteSet(s.lent)
    BY LentFinite
  <1>8. /\ Cardinality(LargeOf(hd \ {b})) = Cardinality(LargeOf(hd)) - 1
        /\ Cardinality(LargeOf(hd \ {b})) \in Nat
    BY <1>3, <1>7, Smaller
  <1>9. s.large_blocks - 1 \in Nat
    BY <1>1, <1>8 DEF CountsOK
  <1>10. /\ t \in SlabRec /\ t.parent = s.parent /\ t.chunks = s.chunks
         /\ t.chunk_count = s.chunk_count /\ t.small_blocks = s.small_blocks
         /\ t.large_blocks = s.large_blocks - 1 /\ t.lent = lent /\ t.mem = s.mem
         /\ t.classes = s.classes /\ t.carved = s.carved
    <2>1. t = [s EXCEPT !.large_blocks = @ - 1, !.lent = lent]
      BY <1>1, <1>6 DEF SlabRec, LentLess
    <2>2. lent \in SUBSET Block
      BY <1>1, <1>6 DEF SlabRec
    <2> QED
      BY <1>1, <1>9, <2>1, <2>2 DEF SlabRec
  <1>11. LentOK(t, hd \ {b}, K)
    <2>1. t.lent = LargeOf(hd \ {b}) \cup {ChunkBlock(k) : k \in K}
      BY <1>1, <1>3, <1>5, <1>6, <1>10 DEF LentOK
    <2>2. SizesOf(s.lent) = b.size + SizesOf(lent) /\ SizesOf(lent) \in Nat
      <3>1. \A c \in s.lent : c.size \in Nat
        BY LentFinite
      <3>2. SizesOf(s.lent) = b.size + SizesOf(s.lent \ {b}) /\ SizesOf(s.lent \ {b}) \in Nat
        BY <1>5, <1>7, <3>1, SizesTake
      <3> QED
        BY <1>6, <3>2
    <2>3. /\ SizesOf(LargeOf(hd)) = b.size + SizesOf(LargeOf(hd \ {b}))
          /\ SizesOf(LargeOf(hd \ {b})) \in Nat
      <3>1. \A c \in LargeOf(hd) : c.size \in Nat
        BY LentFinite
      <3>2. /\ SizesOf(LargeOf(hd)) = b.size + SizesOf(LargeOf(hd) \ {b})
            /\ SizesOf(LargeOf(hd) \ {b}) \in Nat
        BY <1>7, <3>1, SizesTake
      <3> QED
        BY <1>3, <3>2
    <2>4. b.size \in Nat /\ s.chunk_count * ChunkBytes \in Nat
      <3>1. s.chunk_count \in Nat /\ ChunkBytes \in Nat
        BY LentFinite, ClassNat
      <3> QED
        BY <1>2, <3>1, BlockIs
    <2>5. t.chunk_count * ChunkBytes + SizesOf(LargeOf(hd \ {b})) = SizesOf(t.lent)
      <3>1. s.chunk_count * ChunkBytes + SizesOf(LargeOf(hd)) = SizesOf(s.lent)
        BY <1>1 DEF LentOK
      <3>2. PICK m \in Nat : m = s.chunk_count * ChunkBytes
        BY <2>4
      <3>3. PICK x \in Nat, y \in Nat : x = SizesOf(LargeOf(hd \ {b})) /\ y = SizesOf(lent)
        BY <2>2, <2>3
      <3>4. m + (b.size + x) = b.size + y
        BY <2>2, <2>3, <3>1, <3>2, <3>3
      <3>5. m + x = y
        BY <2>4, <3>4
      <3>6. s.chunk_count * ChunkBytes + SizesOf(LargeOf(hd \ {b})) = SizesOf(lent)
        BY <3>2, <3>3, <3>5
      <3> QED
        BY <1>10, <3>6
    <2> QED
      BY <1>1, <1>10, <2>1, <2>5 DEF LentOK
  <1>12. CutOK(t, K)
    BY <1>1, <1>10, CutKept
  <1>13. LargeOK(hd \ {b}, K) /\ SmallOK(t, hd \ {b}) /\ CountsOK(t, hd \ {b})
    BY <1>1, <1>3, <1>4, <1>8, <1>10 DEF LargeOK, SmallOK, CountsOK
  <1>14. ListsOK(t, hd \ {b}, K)
    <2>1. ASSUME NEW j \in Classes PROVE s.carved[j] \ AddrsOf(hd \ {b}) = s.carved[j] \ AddrsOf(hd)
      <3>1. b.addr \notin s.carved[j]
        BY <1>1, LargeAwayCarved
      <3> QED
        BY <1>3, <3>1
    <2> QED
      BY <1>1, <1>10, <2>1 DEF ListsOK
  <1> QED
    BY <1>1, <1>3, <1>6, <1>10, <1>11, <1>12, <1>13, <1>14 DEF SlabOK

\* A small block resized within its class stays where it is.
LEMMA SmallResized ==
    ASSUME SlabAssumption, NEW s, NEW hd, NEW K, SlabOK(s, hd, K), NEW b \in SmallOf(hd),
           NEW c \in Block, c.addr = b.addr, c.align = b.align,
           ClassOf(LayoutOf(c)) = ClassOf(LayoutOf(b))
    PROVE  SlabOK(s, (hd \ {b}) \cup {c}, K)
  <1> DEFINE less == hd \ {b}
  <1>1. /\ s \in SlabRec /\ HeldOK(hd) /\ ChunksOK(K) /\ CutOK(s, K) /\ ListsOK(s, hd, K)
        /\ SmallOK(s, hd) /\ LargeOK(hd, K) /\ LentOK(s, hd, K) /\ CountsOK(s, hd)
    BY DEF SlabOK
  <1>2. b \in hd /\ Small(b) /\ Small(c) /\ tda_layout_is_align(c.align)
    BY <1>1 DEF SmallOf, Small, HeldOK
  <1>3. /\ HeldOK(less) /\ AddrsOf(less) = AddrsOf(hd) \ {b.addr} /\ b.addr \in AddrsOf(hd)
        /\ SmallOf(less) = SmallOf(hd) \ {b} /\ LargeOf(less) = LargeOf(hd) \ {b}
    BY <1>2, HeldShrinks
  <1>4. PICK rest : rest = less
    OBVIOUS
  <1>5. /\ HeldOK(rest \cup {c}) /\ AddrsOf(rest \cup {c}) = AddrsOf(rest) \cup {c.addr}
        /\ SmallOf(rest \cup {c}) = SmallOf(rest) \cup {c} /\ LargeOf(rest \cup {c}) = LargeOf(rest)
    BY <1>2, <1>3, <1>4, HeldGrows
  <1>6. AddrsOf(rest \cup {c}) = AddrsOf(hd)
    <2>1. PICK A : A = AddrsOf(hd)
      OBVIOUS
    <2>2. AddrsOf(rest) = A \ {b.addr} /\ b.addr \in A
      BY <1>3, <1>4, <2>1
    <2>3. (A \ {b.addr}) \cup {c.addr} = A
      BY <2>2
    <2> QED
      BY <1>5, <2>1, <2>2, <2>3
  <1>7. LargeOf(rest \cup {c}) = LargeOf(hd)
    BY <1>2, <1>3, <1>4, <1>5 DEF LargeOf
  <1>8. SmallOf(rest \cup {c}) = (SmallOf(hd) \ {b}) \cup {c}
    BY <1>3, <1>4, <1>5
  <1>9. LargeOK(rest \cup {c}, K) /\ LentOK(s, rest \cup {c}, K)
    BY <1>1, <1>7 DEF LargeOK, LentOK
  <1>10. SmallOK(s, rest \cup {c})
    BY <1>1, <1>8 DEF SmallOK
  <1>11. c \notin SmallOf(hd) \ {b}
    BY <1>1 DEF SmallOK
  <1>12. Cardinality((SmallOf(hd) \ {b}) \cup {c}) = Cardinality(SmallOf(hd))
    <2>1. IsFiniteSet(SmallOf(hd))
      BY LentFinite
    <2>2. /\ IsFiniteSet(SmallOf(hd) \ {b}) /\ Cardinality(SmallOf(hd)) \in Nat
          /\ Cardinality(SmallOf(hd) \ {b}) = Cardinality(SmallOf(hd)) - 1
      BY <2>1, Smaller
    <2>3. Cardinality((SmallOf(hd) \ {b}) \cup {c}) = Cardinality(SmallOf(hd) \ {b}) + 1
      BY <1>11, <2>2, FS_AddElement
    <2> QED
      BY <2>2, <2>3
  <1>13. CountsOK(s, rest \cup {c})
    BY <1>1, <1>7, <1>8, <1>12 DEF CountsOK
  <1>14. ListsOK(s, rest \cup {c}, K)
    BY <1>1, <1>6 DEF ListsOK
  <1>15. SlabOK(s, rest \cup {c}, K)
    BY <1>1, <1>5, <1>9, <1>10, <1>13, <1>14 DEF SlabOK
  <1> QED
    BY <1>4, <1>15

\* the parent has c out for b
LentFor(s, b, c) == [s EXCEPT !.lent = (@ \ {b}) \cup {c}]

\* t is sound with c held for b
Replaced(t, hd, b, c, K, s) ==
    /\ SlabOK(t, (hd \ {b}) \cup {c}, K) /\ t.parent = s.parent
    /\ c \notin hd \ {b}

\* A large block the parent resizes or moves is given back and taken anew.
LEMMA LargeReplaced ==
    ASSUME NEW s, NEW hd, NEW K, SlabOK(s, hd, K), NEW b \in LargeOf(hd),
           NEW c, IsLayout(LayoutOf(c)), ~Small(c),
           c \in [addr : ParentRoom(s.lent \ {b}, c.size, c.align),
                  size : Nat \ {0}, align : Nat \ {0}],
           NEW t, t = LentFor(s, b, c)
    PROVE  Replaced(t, hd, b, c, K, s)
  <1> USE SlabAssumption
  <1>1. s \in SlabRec /\ CountsOK(s, hd)
    BY DEF SlabOK
  <1>2. PICK u : u = LentLess(s, b)
    OBVIOUS
  <1>3. SlabOK(u, hd \ {b}, K) /\ u.parent = s.parent /\ u.lent = s.lent \ {b}
    BY <1>2, LargeFreed
  <1>4. PICK v : v = LentMore(u, c)
    OBVIOUS
  <1>5. SlabOK(v, (hd \ {b}) \cup {c}, K) /\ c \notin hd \ {b} /\ v.parent = u.parent
    <2>1. c \in [addr : ParentRoom(u.lent, c.size, c.align), size : Nat \ {0}, align : Nat \ {0}]
      BY <1>3
    <2>2. PICK rest : rest = hd \ {b}
      OBVIOUS
    <2>3. SlabOK(u, rest, K)
      BY <1>3, <2>2
    <2>4. SlabOK(v, rest \cup {c}, K) /\ c \notin rest /\ v.parent = u.parent
      BY <1>4, <2>1, <2>3, LargeTaken, Zenon
    <2> QED
      BY <2>2, <2>4
  <1>6. v = t
    <2>1. PICK n : n = s.large_blocks - 1
      OBVIOUS
    <2>2. n + 1 = s.large_blocks
      BY <1>1, <2>1 DEF SlabRec
    <2>3. u = [s EXCEPT !.large_blocks = n, !.lent = s.lent \ {b}]
      BY <1>2, <2>1 DEF LentLess
    <2>4. v = [s EXCEPT !.large_blocks = n + 1, !.lent = (s.lent \ {b}) \cup {c}]
      BY <1>1, <1>4, <2>3 DEF LentMore, SlabRec
    <2>5. [s EXCEPT !.large_blocks = s.large_blocks, !.lent = (s.lent \ {b}) \cup {c}] = t
      BY <1>1 DEF SlabRec, LentFor
    <2> QED
      BY <2>2, <2>4, <2>5
  <1> QED
    BY <1>3, <1>5, <1>6 DEF Replaced

-----------------------------------------------------------------------------
(* The operations.                                                          *)

\* a layout that may be asked for, and the block at a for it
Asked(l) == l \in [size : Nat \ {0}, align : Nat \ {0}] /\ tda_layout_is_align(l.align)
BlockAs(c, a, l) == c = [addr |-> a, size |-> l.size, align |-> l.align]

\* Whatever slab_alloc answers with, the slab and the block are sound.
LEMMA AllocKeeps ==
    ASSUME NEW s, NEW hd, NEW K, SlabOK(s, hd, K), NEW l, Asked(l),
           NEW r, r \in SlabAlloc(s, l), NEW c, BlockAs(c, r.addr, l)
    PROVE  /\ \E L : SlabOK(r.slab, hd \cup {c}, L)
           /\ c \notin hd /\ r.slab.parent = s.parent
  <1> USE SlabAssumption
  <1>1. PICK d : d = c
    OBVIOUS
  <1>2. /\ LayoutOf(d) = l /\ IsLayout(LayoutOf(d)) /\ d.addr = r.addr /\ d.size = l.size
        /\ d.align = l.align /\ d = [addr |-> r.addr, size |-> l.size, align |-> l.align]
        /\ l.size \in Nat \ {0} /\ l.align \in Nat \ {0} /\ tda_layout_is_align(l.align)
    BY <1>1 DEF LayoutOf, IsLayout, Asked, BlockAs
  <1>3. PICK i : i = ClassOf(l)
    OBVIOUS
  <1>4. CASE i = ClassCount
    <2>1. r \in AllocLarge(s, l)
      BY <1>3, <1>4 DEF SlabAlloc
    <2>2. PICK a \in ParentRoom(s.lent, l.size, l.align) :
             r = [addr |-> a, slab |-> LentMore(s, [addr |-> a, size |-> l.size, align |-> l.align])]
      BY <2>1 DEF AllocLarge, LentMore
    <2>3. r.slab = LentMore(s, d) /\ d.addr = a
      BY <1>2, <2>2
    <2>4. d \in [addr : ParentRoom(s.lent, d.size, d.align), size : Nat \ {0}, align : Nat \ {0}]
      BY <1>2, <2>3
    <2>5. ~Small(d)
      BY <1>2, <1>3, <1>4 DEF Small
    <2>6. PICK t : t = r.slab
      OBVIOUS
    <2>7. t = LentMore(s, d) /\ IsLayout(LayoutOf(d))
      BY <1>2, <2>3, <2>6
    <2>8. SlabOK(t, hd \cup {d}, K) /\ d \notin hd /\ t.parent = s.parent
      BY <2>4, <2>5, <2>7, LargeTaken, Zenon
    <2> QED
      BY <1>1, <2>6, <2>8
  <1>5. CASE i # ClassCount
    <2>1. i \in Classes /\ r \in AllocSmall(s, i)
      BY <1>3, <1>5, ClassOfIs DEF SlabAlloc
    <2>2. ASSUME NEW u, NEW L, SlabOK(u, hd, L)
          PROVE  /\ u.classes[i].free_head \in Pointer /\ u.classes[i].carve \in Pointer
                 /\ u \in SlabRec
      BY <2>1, <2>2 DEF SlabOK, SlabRec, ClassRec
    <2>3. ASSUME r.addr \in Pointer, r.addr # Null PROVE d \in Block
      BY <1>2, <2>3 DEF Block, Pointer
    <2>4. CASE s.classes[i].free_head # Null
      <3>1. r = [addr |-> s.classes[i].free_head, slab |-> Popped(s, i)]
        BY <2>1, <2>4 DEF AllocSmall, Popped
      <3>2. r.addr = s.classes[i].free_head /\ r.slab = Popped(s, i)
        BY <3>1
      <3>3. d \in Block
        BY <2>2, <2>3, <2>4, <3>2
      <3>4. PICK t : t = r.slab
        OBVIOUS
      <3>5. t = Popped(s, i) /\ BlockFor(d, i, s.classes[i].free_head)
        BY <1>2, <1>3, <3>2, <3>3, <3>4 DEF BlockFor
      <3>6. SlabOK(t, hd \cup {d}, K) /\ d \notin hd /\ t.parent = s.parent
        BY <2>1, <2>4, <3>5, FreedTaken, ZenonT(40)
      <3> QED
        BY <1>1, <3>4, <3>6
    <2>5. CASE s.classes[i].free_head = Null
      <3>1. PICK q \in Carve(s, i) : r = [q EXCEPT !.slab.small_blocks = @ + 1]
        BY <2>1, <2>5 DEF AllocSmall
      <3>2. PICK u \in WithRoom(s, i) :
               q = [addr |-> u.classes[i].carve,
                    slab |-> [u EXCEPT !.classes[i].carve = @ + ClassSizes[i],
                                       !.carved[i] = @ \cup {u.classes[i].carve}]]
        BY <3>1 DEF Carve
      <3>3. PICK L : /\ SlabOK(u, hd, L) /\ u.parent = s.parent /\ u.classes[i].free_head = Null
                     /\ CanCarve(u.classes[i], ClassSizes[i])
        <4>1. CASE CanCarve(s.classes[i], ClassSizes[i])
          <5>1. u = s
            BY <3>2, <4>1 DEF WithRoom
          <5> QED
            BY <2>5, <4>1, <5>1
        <4>2. CASE ~CanCarve(s.classes[i], ClassSizes[i])
          <5>1. PICK base \in ParentRoom(s.lent, ChunkBytes, ChunkAlign) : u = AddChunk(s, i, base)
            BY <3>2, <4>2 DEF WithRoom
          <5>2. /\ SlabOK(u, hd, K \cup {base}) /\ u.parent = s.parent
                /\ u.classes[i].free_head = s.classes[i].free_head
                /\ CanCarve(u.classes[i], ClassSizes[i])
            BY <2>1, <5>1, AddChunkKeeps, SMTT(30)
          <5> QED
            BY <2>5, <5>2
        <4> QED
          BY <4>1, <4>2
      <3>4. r.addr = u.classes[i].carve /\ r.slab = CutOff(u, i) /\ r.slab.parent = u.parent
        <4>1. PICK v : v = [u EXCEPT !.classes[i].carve = @ + ClassSizes[i],
                                     !.carved[i] = @ \cup {u.classes[i].carve}]
          OBVIOUS
        <4>2. q = [addr |-> u.classes[i].carve, slab |-> v]
          BY <3>2, <4>1
        <4>3. r.addr = u.classes[i].carve /\ r.slab = [v EXCEPT !.small_blocks = @ + 1]
          BY <3>1, <4>2
        <4>4. PICK cls : cls = [u.classes EXCEPT ![i].carve = @ + ClassSizes[i]]
          OBVIOUS
        <4>5. PICK cut : cut = [u.carved EXCEPT ![i] = @ \cup {u.classes[i].carve}]
          OBVIOUS
        <4>6. u \in SlabRec
          BY <2>2, <3>3
        <4>7. v = [u EXCEPT !.classes = cls, !.carved = cut]
          BY <4>1, <4>4, <4>5, <4>6 DEF SlabRec
        <4>8. CutOff(u, i) = [u EXCEPT !.classes = cls, !.carved = cut, !.small_blocks = @ + 1]
          BY <4>4, <4>5, <4>6 DEF SlabRec, CutOff
        <4>9. [v EXCEPT !.small_blocks = @ + 1] =
                 [u EXCEPT !.classes = cls, !.carved = cut, !.small_blocks = @ + 1]
          BY <4>6, <4>7 DEF SlabRec
        <4>10. [v EXCEPT !.small_blocks = @ + 1].parent = u.parent
          BY <4>6, <4>7 DEF SlabRec
        <4> QED
          BY <4>3, <4>8, <4>9, <4>10
      <3>5. d \in Block
        BY <2>2, <2>3, <3>3, <3>4 DEF CanCarve
      <3>6. SlabOK(r.slab, hd \cup {d}, L) /\ d \notin hd /\ r.slab.parent = u.parent
        <4>1. PICK t : t = r.slab
          OBVIOUS
        <4>2. t = CutOff(u, i) /\ BlockFor(d, i, u.classes[i].carve)
          BY <1>2, <1>3, <3>4, <3>5, <4>1 DEF BlockFor
        <4>3. Ready(u, hd, L, i)
          BY <2>1, <3>3 DEF Ready
        <4>4. SlabOK(t, hd \cup {d}, L) /\ d \notin hd
          BY <4>2, <4>3, FreshTaken, Zenon
        <4> QED
          BY <3>4, <4>1, <4>4
      <3> QED
        BY <1>1, <3>3, <3>6
    <2> QED
      BY <2>4, <2>5
  <1> QED
    BY <1>4, <1>5

\* A free gives the block back to its class, or to the parent.
LEMMA DeallocKeeps ==
    ASSUME NEW s, NEW hd, NEW K, SlabOK(s, hd, K), NEW b \in hd, NEW t, t = SlabDealloc(s, b)
    PROVE  SlabOK(t, hd \ {b}, K) /\ t.parent = s.parent
  <1> USE SlabAssumption
  <1>1. CASE Small(b)
    <2>1. PICK i : i = ClassOf(LayoutOf(b))
      OBVIOUS
    <2>2. t = Pushed(s, b, i)
      BY <1>1, <2>1 DEF SlabDealloc, Pushed, Small
    <2>3. b \in SmallOf(hd)
      BY <1>1 DEF SmallOf
    <2> QED
      BY <2>1, <2>2, <2>3, SmallFreed
  <1>2. CASE ~Small(b)
    <2>1. t = LentLess(s, b)
      BY <1>2 DEF SlabDealloc, LentLess, Small
    <2>2. b \in LargeOf(hd)
      BY <1>2 DEF LargeOf
    <2> QED
      BY <2>1, <2>2, LargeFreed
  <1> QED
    BY <1>1, <1>2

\* A slab that holds nothing is sound.
LEMMA InertOK ==
    ASSUME NEW t, t = Inert \/ t = [Inert EXCEPT !.parent = TRUE]
    PROVE  SlabOK(t, {}, {}) /\ (t = Inert => ~t.parent) /\ (t # Inert => t.parent)
  <1> USE SlabAssumption
  <1>1. PICK none : none = [free_head |-> Null, carve |-> Null, carve_end |-> Null]
    OBVIOUS
  <1>2. none \in ClassRec /\ Null \in Pointer
    BY <1>1 DEF ClassRec, Pointer
  <1>3. PICK z : z = Inert
    OBVIOUS
  <1>4. /\ z \in SlabRec /\ z.parent = FALSE /\ z.chunks = Null /\ z.chunk_count = 0
        /\ z.small_blocks = 0 /\ z.large_blocks = 0 /\ z.classes = [i \in Classes |-> none]
        /\ z.mem = [a \in Words |-> Garbage] /\ z.lent = {} /\ z.carved = [i \in Classes |-> {}]
    <2>1. /\ [i \in Classes |-> none] \in [Classes -> ClassRec]
          /\ [i \in Classes |-> {}] \in [Classes -> SUBSET Words]
          /\ [a \in Words |-> Garbage] \in [Words -> Pointer \cup {Garbage}]
          /\ {} \in SUBSET Block
      BY <1>2
    <2> QED
      BY <1>1, <1>2, <1>3, <2>1 DEF Inert, SlabRec
  <1>5. /\ t \in SlabRec /\ t.chunks = Null /\ t.chunk_count = 0
        /\ t.small_blocks = 0 /\ t.large_blocks = 0 /\ t.classes = [i \in Classes |-> none]
        /\ t.lent = {} /\ t.carved = [i \in Classes |-> {}]
        /\ (t = Inert => ~t.parent) /\ (t # Inert => t.parent)
    <2>1. CASE t = z
      BY <1>3, <1>4, <2>1
    <2>2. CASE t = [z EXCEPT !.parent = TRUE]
      <3>1. t \in SlabRec /\ t.parent = TRUE
        BY <1>4, <2>2 DEF SlabRec
      <3>2. /\ t.chunks = z.chunks /\ t.chunk_count = z.chunk_count /\ t.small_blocks = z.small_blocks
            /\ t.large_blocks = z.large_blocks /\ t.classes = z.classes /\ t.lent = z.lent
            /\ t.carved = z.carved
        BY <1>4, <2>2 DEF SlabRec
      <3> QED
        BY <1>3, <1>4, <3>1, <3>2
    <2> QED
      BY <1>3, <2>1, <2>2
  <1>6. IsFiniteSet({}) /\ Cardinality({}) = 0
    BY FS_EmptySet
  <1>7. HeldOK({}) /\ ChunksOK({}) /\ LargeOf({}) = {} /\ SmallOf({}) = {} /\ AddrsOf({}) = {}
        /\ Links({}) = {}
    BY <1>6 DEF HeldOK, ChunksOK, LargeOf, SmallOf, AddrsOf, Links
  <1>8. LargeOK({}, {}) /\ SmallOK(t, {})
    BY <1>7 DEF LargeOK, SmallOK
  <1>9. CountsOK(t, {})
    BY <1>5, <1>6, <1>7 DEF CountsOK
  <1>10. LentOK(t, {}, {})
    <2>1. 0 * ChunkBytes + 0 = 0 /\ SizesOf({}) = 0
      BY ClassNat, SizesOfNone
    <2>2. {ChunkBlock(k) : k \in {}} = {}
      OBVIOUS
    <2> QED
      BY <1>5, <1>6, <1>7, <2>1, <2>2 DEF LentOK
  <1>11. \A i \in Classes : t.carved[i] = {} /\ t.classes[i].carve = Null /\ t.classes[i].free_head = Null
    BY <1>1, <1>5
  <1>12. CutOK(t, {})
    BY <1>11 DEF CutOK
  <1>13. ListsOK(t, {}, {})
    <2>1. \A i \in Classes : t.carved[i] \ AddrsOf({}) = {}
      BY <1>11
    <2>2. Listed(t.mem, Null, {})
      BY ListedNone
    <2> QED
      BY <1>5, <1>7, <1>11, <2>1, <2>2 DEF ListsOK
  <1>14. SlabOK(t, {}, {})
    BY <1>5, <1>7, <1>8, <1>9, <1>10, <1>12, <1>13 DEF SlabOK
  <1> QED
    BY <1>5, <1>14

\* What tda_slab_deinit gives back, with no large block held, is all the parent has out.
LEMMA DeinitGivesAll ==
    ASSUME NEW s, NEW hd, NEW K, SlabOK(s, hd, K), LargeOf(hd) = {}
    PROVE  s.lent \ {ChunkBlock(a - ChunkRoom) : a \in Chain(s.mem, s.chunks) \cap Words} = {}
  <1> USE SlabAssumption
  <1>1. ChunksOK(K) /\ s.lent = {ChunkBlock(k) : k \in K} /\ Listed(s.mem, s.chunks, Links(K))
    BY DEF SlabOK, LentOK, ListsOK
  <1>2. Chain(s.mem, s.chunks) = Links(K) \cup {Null}
    BY <1>1, LinksAre, ListedChain
  <1>3. ASSUME NEW k \in K
        PROVE  \E a \in Chain(s.mem, s.chunks) \cap Words : ChunkBlock(a - ChunkRoom) = ChunkBlock(k)
    <2>1. k + ChunkRoom \in Chain(s.mem, s.chunks) \cap Words
      BY <1>1, <1>2, ChunkIs DEF Links
    <2>2. (k + ChunkRoom) - ChunkRoom = k
      BY <1>1, ChunkIs, ClassNat
    <2> QED
      BY <2>1, <2>2
  <1> QED
    BY <1>1, <1>3

-----------------------------------------------------------------------------
(* Every step keeps the invariant.                                          *)

\* The layouts asked for are sound, and so is the layout of a block resized to one's size.
LEMMA LayoutsAre ==
    ASSUME SlabAssumption, NEW l \in Layouts
    PROVE  l \in [size : Nat \ {0}, align : Nat \ {0}] /\ tda_layout_is_align(l.align)
  BY DEF SlabAssumption

\* The fields of a block held, and of the same block with another size.
LEMMA HeldIs ==
    ASSUME SlabAssumption, NEW s, NEW hd, NEW K, SlabOK(s, hd, K), NEW b \in hd, NEW n \in Nat \ {0}
    PROVE  /\ b \in Block /\ tda_layout_is_align(b.align) /\ b.align \in Nat \ {0}
           /\ b = [addr |-> b.addr, size |-> b.size, align |-> b.align]
           /\ [b EXCEPT !.size = n] = [addr |-> b.addr, size |-> n, align |-> b.align]
           /\ [b EXCEPT !.size = n] \in Block
           /\ LayoutOf([b EXCEPT !.size = n]) = ResizedLayout(b, n)
           /\ ResizedLayout(b, n) \in [size : Nat \ {0}, align : Nat \ {0}]
  <1>1. b \in Block /\ tda_layout_is_align(b.align)
    BY DEF SlabOK, HeldOK
  <1>2. PICK a \in Words, m \in Nat \ {0}, e \in Nat \ {0} : b = [addr |-> a, size |-> m, align |-> e]
    BY <1>1 DEF Block
  <1> QED
    BY <1>1, <1>2 DEF Block, LayoutOf, ResizedLayout

\* the parent may have the large block b at a with n words
StaysAt(s, b, n, a) == StaysLarge(b, n) /\ a \in ParentRoom(s.lent \ {b}, n, b.align)


\* t is sound with c held beside hd
Given(t, hd, c, s) == (\E L : SlabOK(t, hd \cup {c}, L)) /\ t.parent = s.parent /\ c \notin hd

\* tda_alloc on the slab s
LEMMA GiveKeeps ==
    ASSUME NEW s, NEW hd, NEW K, SlabOK(s, hd, K), NEW l, Asked(l),
           NEW r, r \in SlabAlloc(s, l), NEW c, BlockAs(c, r.addr, l),
           NEW t, t = WrittenBy(r.slab, c)
    PROVE  Given(t, hd, c, s)
  <1>1. PICK L : SlabOK(r.slab, hd \cup {c}, L) /\ c \notin hd /\ r.slab.parent = s.parent
    <2>1. (\E L : SlabOK(r.slab, hd \cup {c}, L)) /\ c \notin hd /\ r.slab.parent = s.parent
      BY AllocKeeps, Zenon
    <2> QED
      BY <2>1
  <1>2. PICK d : d = c
    OBVIOUS
  <1>3. PICK u, with : u = r.slab /\ with = hd \cup {d}
    OBVIOUS
  <1>4. SlabOK(u, with, L) /\ d \in with
    BY <1>1, <1>2, <1>3
  <1>5. SlabOK(WrittenBy(u, d), with, L) /\ WrittenBy(u, d).parent = u.parent
    BY <1>4, SlabAssumption, WriteKeeps
  <1> QED
    BY <1>1, <1>2, <1>3, <1>5 DEF Given

\* ReallocInPlace for a small block
LEMMA SameClassKeeps ==
    ASSUME NEW s, NEW hd, NEW K, SlabOK(s, hd, K), NEW b \in hd, NEW n \in Nat \ {0},
           ~StaysLarge(b, n), SameClass(b, n), NEW c, c = [b EXCEPT !.size = n],
           NEW t, t = WrittenBy(s, c)
    PROVE  SlabOK(t, (hd \ {b}) \cup {c}, K) /\ t.parent = s.parent
  <1> USE SlabAssumption
  <1>1. PICK d : d = c
    OBVIOUS
  <1>2. /\ d \in Block /\ d.addr = b.addr /\ d.align = b.align
        /\ LayoutOf(d) = ResizedLayout(b, n)
    <2>1. PICK e : e = [addr |-> b.addr, size |-> n, align |-> b.align]
      OBVIOUS
    <2>2. d = e /\ d \in Block /\ LayoutOf(d) = ResizedLayout(b, n)
      BY <1>1, <2>1, HeldIs
    <2> QED
      BY <2>1, <2>2
  <1>3. ClassOf(LayoutOf(d)) = ClassOf(LayoutOf(b)) /\ b \in SmallOf(hd)
    BY <1>2 DEF SameClass, StaysLarge, SmallOf, Small
  <1>4. SlabOK(s, (hd \ {b}) \cup {d}, K)
    BY <1>2, <1>3, SmallResized
  <1>5. PICK with : with = (hd \ {b}) \cup {d}
    OBVIOUS
  <1>6. SlabOK(WrittenBy(s, d), with, K) /\ WrittenBy(s, d).parent = s.parent
    <2>1. SlabOK(s, with, K) /\ d \in with
      BY <1>4, <1>5
    <2> QED
      BY <2>1, WriteKeeps
  <1> QED
    BY <1>1, <1>5, <1>6

\* ReallocInPlace for a large block, and ReallocRemaps
LEMMA StaysLargeKeeps ==
    ASSUME NEW s, NEW hd, NEW K, SlabOK(s, hd, K), NEW b \in hd, NEW n \in Nat \ {0},
           NEW a, StaysAt(s, b, n, a), NEW c, BlockAs(c, a, ResizedLayout(b, n)),
           NEW t, t = WrittenBy(LentFor(s, b, c), c)
    PROVE  Replaced(t, hd, b, c, K, s)
  <1> USE SlabAssumption
  <1>1. PICK d : d = c
    OBVIOUS
  <1>2. /\ tda_layout_is_align(b.align) /\ b.align \in Nat \ {0}
        /\ d = [addr |-> a, size |-> n, align |-> b.align] /\ LayoutOf(d) = ResizedLayout(b, n)
    <2>1. d = [addr |-> a, size |-> n, align |-> b.align]
      BY <1>1 DEF BlockAs, ResizedLayout
    <2>2. LayoutOf(d) = ResizedLayout(b, n)
      BY <2>1 DEF LayoutOf, ResizedLayout
    <2> QED
      BY <2>1, <2>2, HeldIs
  <1>3. IsLayout(LayoutOf(d)) /\ ~Small(d) /\ b \in LargeOf(hd)
    BY <1>2 DEF StaysAt, IsLayout, Small, StaysLarge, ResizedLayout, LargeOf
  <1>4. d \in [addr : ParentRoom(s.lent \ {b}, d.size, d.align), size : Nat \ {0}, align : Nat \ {0}]
    BY <1>1, <1>2 DEF StaysAt
  <1>5. PICK u : u = LentFor(s, b, d)
    OBVIOUS
  <1>6. SlabOK(u, (hd \ {b}) \cup {d}, K) /\ u.parent = s.parent /\ d \notin hd \ {b}
    <2>1. Replaced(u, hd, b, d, K, s)
      BY <1>3, <1>4, <1>5, LargeReplaced, Zenon
    <2> QED
      BY <2>1 DEF Replaced
  <1>7. PICK with : with = (hd \ {b}) \cup {d}
    OBVIOUS
  <1>8. SlabOK(WrittenBy(u, d), with, K) /\ WrittenBy(u, d).parent = u.parent
    <2>1. SlabOK(u, with, K) /\ d \in with
      BY <1>6, <1>7
    <2> QED
      BY <2>1, WriteKeeps
  <1>9. t = WrittenBy(u, d)
    BY <1>1, <1>5
  <1> QED
    BY <1>1, <1>6, <1>7, <1>8, <1>9 DEF Replaced

\* A block of those held fits beside the others.
LEMMA HeldFits ==
    ASSUME NEW s, NEW hd, NEW K, SlabOK(s, hd, K), NEW c \in hd, NEW S, S \subseteq hd, c \notin S
    PROVE  AllocatorSpec!Fits(c, S)
  <1>1. /\ c.addr % c.align = 0
        /\ \A d \in hd : c # d => Away(c.addr, c.size, d.addr, d.size)
    BY SlabAssumption, HeldApart
  <1>2. \A d \in S : AllocatorSpec!Apart(c, d)
    BY <1>1 DEF Away, AllocatorSpec!Apart
  <1>3. c.size > 0
    <2>1. c \in Block
      BY DEF SlabOK, HeldOK
    <2>2. c.size \in Nat \ {0}
      BY <2>1 DEF Block
    <2> QED
      BY <2>2
  <1> QED
    BY <1>1, <1>2, <1>3 DEF AllocatorSpec!Fits

\* A sound slab with a parent, whatever is held, satisfies the invariant.
LEMMA SlabInvNext ==
    ASSUME NEW L, SlabOK(slab', blocks', L), slab'.parent
    PROVE  SlabInv'
  BY DEF SlabInv

\* A block is held only by a slab with a parent.
LEMMA HeldHasParent == ASSUME SlabInv, NEW b \in blocks PROVE slab.parent
  BY DEF SlabInv

\* tda_slab_init starts with nothing.
LEMMA InitKeeps == ASSUME SlabInv, tda_slab_init PROVE SlabInv' /\ blocks' = blocks
  <1>1. blocks = {} /\ blocks' = {} /\ slab' = [Inert EXCEPT !.parent = TRUE]
    BY DEF SlabInv, tda_slab_init
  <1>2. PICK t : t = slab'
    OBVIOUS
  <1>3. SlabOK(t, {}, {}) /\ (t = Inert => ~t.parent) /\ (t # Inert => t.parent)
    BY <1>1, <1>2, InertOK
  <1>4. SlabOK(slab', blocks', {}) /\ (~slab'.parent => slab' = Inert)
    BY <1>1, <1>2, <1>3
  <1> QED
    BY <1>1, <1>4 DEF SlabInv

\* tda_slab_deinit leaves the inert slab: nothing stays with the parent.
LEMMA DeinitKeeps == ASSUME SlabInv, tda_slab_deinit PROVE SlabInv' /\ blocks' = {}
  <1>1. PICK K : SlabOK(slab, blocks, K)
    BY DEF SlabInv
  <1>2. PICK rest : rest = slab.lent \ {ChunkBlock(a - ChunkRoom) :
                                            a \in Chain(slab.mem, slab.chunks) \cap Words}
    OBVIOUS
  <1>3. LargeOf(blocks) = {}
    BY DEF tda_slab_deinit, LargeOf, Small
  <1>4. rest = {}
    BY <1>1, <1>2, <1>3, DeinitGivesAll
  <1>5. slab' = Inert /\ blocks' = {}
    <2>1. slab' = [Inert EXCEPT !.lent = {}] /\ blocks' = {}
      BY <1>2, <1>4 DEF tda_slab_deinit
    <2>2. PICK z : z = Inert
      OBVIOUS
    <2>3. z \in SlabRec
      BY <2>2, InertOK DEF SlabOK
    <2>4. z.lent = {}
      BY <2>2 DEF Inert
    <2>5. [z EXCEPT !.lent = {}] = z
      BY <2>3, <2>4 DEF SlabRec
    <2> QED
      BY <2>1, <2>2, <2>5
  <1>6. SlabOK(slab', blocks', {})
    BY <1>5, InertOK
  <1> QED
    BY <1>5, <1>6 DEF SlabInv

\* tda_alloc is a give.
LEMMA AllocStep ==
    ASSUME SlabInv, NEW l \in Layouts, tda_alloc(l)
    PROVE  SlabInv' /\ AllocatorSpec!Give
  <1>1. PICK K : SlabOK(slab, blocks, K)
    BY DEF SlabInv
  <1>2. slab.parent /\ Asked(l)
    BY SlabAssumption, LayoutsAre DEF tda_alloc, Asked
  <1>3. PICK r, b : /\ r \in SlabAlloc(slab, l) /\ BlockAs(b, r.addr, l)
                    /\ slab' = WrittenBy(r.slab, b) /\ blocks' = blocks \cup {b}
    BY DEF tda_alloc, BlockAs
  <1>4. PICK t : t = WrittenBy(r.slab, b)
    OBVIOUS
  <1>5. (\E L : SlabOK(t, blocks \cup {b}, L)) /\ t.parent = slab.parent /\ b \notin blocks
    <2>1. Given(t, blocks, b, slab)
      BY <1>1, <1>2, <1>3, <1>4, GiveKeeps, Zenon
    <2> QED
      BY <2>1 DEF Given
  <1>6. PICK L : SlabOK(slab', blocks', L)
    BY <1>3, <1>4, <1>5
  <1>7. SlabInv'
    BY <1>2, <1>3, <1>4, <1>5, <1>6, SlabInvNext
  <1>8. AllocatorSpec!Fits(b, blocks)
    <2>1. b \in blocks' /\ blocks \subseteq blocks'
      BY <1>3
    <2> QED
      BY <1>5, <1>6, <2>1, HeldFits
  <1> QED
    BY <1>3, <1>5, <1>7, <1>8 DEF AllocatorSpec!Give

\* tda_dealloc takes one block back.
LEMMA DeallocStep ==
    ASSUME SlabInv, NEW b \in blocks, tda_dealloc(b)
    PROVE  SlabInv' /\ blocks' \subseteq blocks
  <1>1. PICK K : SlabOK(slab, blocks, K)
    BY DEF SlabInv
  <1>2. PICK t : t = SlabDealloc(slab, b)
    OBVIOUS
  <1>3. SlabOK(t, blocks \ {b}, K) /\ t.parent = slab.parent
    BY <1>1, <1>2, DeallocKeeps
  <1>4. slab' = t /\ blocks' = blocks \ {b} /\ slab.parent
    BY <1>2, HeldHasParent DEF tda_dealloc
  <1> QED
    BY <1>3, <1>4, SlabInvNext

\* A realloc in place is a resize: the block keeps its address, beside the others.
LEMMA InPlaceStep ==
    ASSUME SlabInv, NEW b \in blocks, NEW n \in Nat \ {0}, ReallocInPlace(b, n)
    PROVE  SlabInv' /\ AllocatorSpec!Resize
  <1>1. PICK K : SlabOK(slab, blocks, K)
    BY DEF SlabInv
  <1>2. PICK c : c = [b EXCEPT !.size = n]
    OBVIOUS
  <1>3. slab.parent /\ blocks' = (blocks \ {b}) \cup {c}
    BY <1>2, HeldHasParent DEF ReallocInPlace
  <1>4. /\ c = [addr |-> b.addr, size |-> n, align |-> b.align]
        /\ c.addr = b.addr /\ c.align = b.align
    <2>1. c = [addr |-> b.addr, size |-> n, align |-> b.align]
      BY <1>1, <1>2, SlabAssumption, HeldIs
    <2> QED
      BY <2>1
  <1>5. SlabOK(slab', blocks', K) /\ slab'.parent = slab.parent
    <2>1. CASE StaysLarge(b, n)
      <3>1. /\ b.addr \in ParentRoom(slab.lent \ {b}, n, b.align)
            /\ slab' = WrittenBy(LentFor(slab, b, c), c)
        BY <1>2, <2>1 DEF ReallocInPlace, LentFor
      <3>2. BlockAs(c, b.addr, ResizedLayout(b, n))
        BY <1>4 DEF BlockAs, ResizedLayout
      <3>3. PICK t, a : t = slab' /\ a = b.addr
        OBVIOUS
      <3>4. SlabOK(t, (blocks \ {b}) \cup {c}, K) /\ t.parent = slab.parent
        <4>1. t = WrittenBy(LentFor(slab, b, c), c) /\ BlockAs(c, a, ResizedLayout(b, n))
              /\ StaysAt(slab, b, n, a)
          BY <2>1, <3>1, <3>2, <3>3 DEF StaysAt
        <4>2. Replaced(t, blocks, b, c, K, slab)
          BY <1>1, <4>1, StaysLargeKeeps, Zenon
        <4> QED
          BY <4>2 DEF Replaced
      <3> QED
        BY <1>3, <3>3, <3>4
    <2>2. CASE ~StaysLarge(b, n)
      <3>1. SameClass(b, n) /\ slab' = WrittenBy(slab, c)
        BY <1>2, <2>2 DEF ReallocInPlace
      <3>2. PICK t : t = slab'
        OBVIOUS
      <3>3. SlabOK(t, (blocks \ {b}) \cup {c}, K) /\ t.parent = slab.parent
        BY <1>1, <1>2, <2>2, <3>1, <3>2, SameClassKeeps
      <3> QED
        BY <1>3, <3>2, <3>3
    <2> QED
      BY <2>1, <2>2
  <1>6. SlabInv'
    BY <1>3, <1>5, SlabInvNext
  <1>7. c \notin blocks \ {b}
    <2>1. PICK rest : rest = blocks \ {b}
      OBVIOUS
    <2>2. AddrsOf(rest) = AddrsOf(blocks) \ {b.addr}
      BY <1>1, <2>1, SlabAssumption, HeldShrinks
    <2> QED
      BY <1>4, <2>1, <2>2 DEF AddrsOf
  <1>8. AllocatorSpec!Fits(c, blocks \ {b})
    <2>1. c \in blocks' /\ blocks \ {b} \subseteq blocks'
      BY <1>3
    <2> QED
      BY <1>5, <1>7, <2>1, HeldFits
  <1>9. c \in blocks'
    BY <1>3
  <1> QED
    BY <1>3, <1>4, <1>6, <1>8, <1>9 DEF AllocatorSpec!Resize

\* slab_remap is a move.
LEMMA RemapStep ==
    ASSUME SlabInv, NEW b \in blocks, NEW n \in Nat \ {0}, ReallocRemaps(b, n)
    PROVE  SlabInv' /\ AllocatorSpec!Move
  <1>1. PICK K : SlabOK(slab, blocks, K)
    BY DEF SlabInv
  <1>2. PICK a, c :
           /\ a \in ParentRoom(slab.lent, n, b.align)
           /\ c = [b EXCEPT !.addr = a, !.size = n] /\ StaysLarge(b, n)
           /\ slab' = WrittenBy(LentFor(slab, b, c), c)
           /\ blocks' = (blocks \ {b}) \cup {c}
    BY DEF ReallocRemaps, LentFor
  <1>3. c = [addr |-> a, size |-> n, align |-> b.align] /\ slab.parent
    <2>1. b = [addr |-> b.addr, size |-> b.size, align |-> b.align]
      BY <1>1, SlabAssumption, HeldIs
    <2> QED
      BY <1>2, <2>1, HeldHasParent
  <1>4. BlockAs(c, a, ResizedLayout(b, n)) /\ c.addr = a /\ c.size = n /\ c.align = b.align
    BY <1>3 DEF BlockAs, ResizedLayout
  <1>5. a \in ParentRoom(slab.lent \ {b}, n, b.align)
    BY <1>2 DEF ParentRoom
  <1>6. PICK t : t = slab'
    OBVIOUS
  <1>7. SlabOK(t, (blocks \ {b}) \cup {c}, K) /\ t.parent = slab.parent /\ c \notin blocks \ {b}
    <2>1. t = WrittenBy(LentFor(slab, b, c), c) /\ StaysAt(slab, b, n, a)
      BY <1>2, <1>5, <1>6 DEF StaysAt
    <2>2. Replaced(t, blocks, b, c, K, slab)
      BY <1>1, <1>4, <2>1, StaysLargeKeeps, Zenon
    <2> QED
      BY <2>2 DEF Replaced
  <1>8. SlabInv'
    BY <1>2, <1>3, <1>6, <1>7, SlabInvNext
  <1>9. Away(b.addr, b.size, c.addr, c.size) /\ b # c
    <2>1. b \in LargeOf(blocks)
      BY <1>2 DEF StaysLarge, LargeOf, Small
    <2>2. b \in slab.lent /\ slab.lent \in SUBSET Block
      BY <1>1, <2>1 DEF SlabOK, LentOK, SlabRec
    <2>3. Away(b.addr, b.size, a, n)
      BY <1>2, <2>2, SlabAssumption, ParentRoomIs
    <2>4. b.addr \in Nat /\ b.size \in Nat \ {0}
      BY <2>2, SlabAssumption, BlockIs
    <2> QED
      BY <1>4, <2>3, <2>4 DEF Away
  <1>10. AllocatorSpec!Fits(c, blocks)
    <2>1. AllocatorSpec!Fits(c, blocks \ {b})
      <3>1. c \in (blocks \ {b}) \cup {c} /\ blocks \ {b} \subseteq (blocks \ {b}) \cup {c}
        OBVIOUS
      <3> QED
        BY <1>7, <3>1, HeldFits
    <2>2. AllocatorSpec!Apart(c, b)
      BY <1>9 DEF Away, AllocatorSpec!Apart
    <2> QED
      BY <2>1, <2>2 DEF AllocatorSpec!Fits
  <1>11. c \in blocks' \ blocks
    BY <1>2, <1>7, <1>9
  <1> QED
    BY <1>2, <1>4, <1>8, <1>10, <1>11 DEF AllocatorSpec!Move

\* A realloc by a new block and a copy is a move.
LEMMA MoveStep ==
    ASSUME SlabInv, NEW b \in blocks, NEW n \in Nat \ {0}, ReallocMoves(b, n)
    PROVE  SlabInv' /\ AllocatorSpec!Move
  <1>1. PICK K : SlabOK(slab, blocks, K)
    BY DEF SlabInv
  <1>2. PICK r, c : /\ r \in SlabAlloc(slab, ResizedLayout(b, n))
                    /\ c = [b EXCEPT !.addr = r.addr, !.size = n]
                    /\ slab' = SlabDealloc(WrittenBy(r.slab, c), b)
                    /\ blocks' = (blocks \ {b}) \cup {c}
    BY DEF ReallocMoves
  <1>3. c = [addr |-> r.addr, size |-> n, align |-> b.align] /\ slab.parent
    <2>1. b = [addr |-> b.addr, size |-> b.size, align |-> b.align]
      BY <1>1, SlabAssumption, HeldIs
    <2> QED
      BY <1>2, <2>1, HeldHasParent
  <1>4. PICK l : l = ResizedLayout(b, n)
    OBVIOUS
  <1>5. Asked(l) /\ BlockAs(c, r.addr, l) /\ c.align = b.align
    <2>1. ResizedLayout(b, n) \in [size : Nat \ {0}, align : Nat \ {0}] /\ tda_layout_is_align(b.align)
      BY <1>1, SlabAssumption, HeldIs
    <2> QED
      BY <1>3, <1>4, <2>1 DEF Asked, BlockAs, ResizedLayout
  <1>6. PICK u : u = WrittenBy(r.slab, c)
    OBVIOUS
  <1>7. (\E L : SlabOK(u, blocks \cup {c}, L)) /\ u.parent = slab.parent /\ c \notin blocks
    <2>1. r \in SlabAlloc(slab, l)
      BY <1>2, <1>4
    <2>2. Given(u, blocks, c, slab)
      BY <1>1, <1>5, <1>6, <2>1, GiveKeeps, Zenon
    <2> QED
      BY <2>2 DEF Given
  <1>8. PICK L, with : SlabOK(u, with, L) /\ with = blocks \cup {c}
    BY <1>7
  <1>9. AllocatorSpec!Fits(c, blocks)
    <2>1. c \in with /\ blocks \subseteq with
      BY <1>8
    <2> QED
      BY <1>7, <1>8, <2>1, HeldFits
  <1>10. PICK t : t = SlabDealloc(u, b)
    OBVIOUS
  <1>11. SlabOK(t, with \ {b}, L) /\ t.parent = u.parent
    BY <1>8, <1>10, DeallocKeeps
  <1>12. with \ {b} = (blocks \ {b}) \cup {c} /\ c \in blocks' \ blocks
    BY <1>2, <1>7, <1>8
  <1>13. SlabInv'
    <2>1. slab' = t /\ blocks' = with \ {b}
      BY <1>2, <1>6, <1>10, <1>12
    <2> QED
      BY <1>3, <1>7, <1>11, <2>1, SlabInvNext
  <1> QED
    BY <1>2, <1>5, <1>9, <1>12, <1>13 DEF AllocatorSpec!Move

-----------------------------------------------------------------------------
(* The invariant holds.                                                     *)

\* What a step is to the clients: nothing, or a step of the abstract allocator.
LEMMA SlabStep == ASSUME SlabInv, [Next]_vars PROVE SlabInv' /\ [AllocatorSpec!Next]_blocks
  <1>1. CASE tda_slab_init
    <2>1. SlabInv' /\ blocks' = blocks
      BY <1>1, InitKeeps
    <2> QED
      BY <2>1
  <1>2. CASE tda_slab_deinit
    <2>1. SlabInv' /\ blocks' = {}
      BY <1>2, DeinitKeeps
    <2> QED
      BY <2>1 DEF AllocatorSpec!Next, AllocatorSpec!TakeBack
  <1>3. ASSUME NEW l \in Layouts, tda_alloc(l) PROVE SlabInv' /\ [AllocatorSpec!Next]_blocks
    <2>1. SlabInv' /\ AllocatorSpec!Give
      BY <1>3, AllocStep
    <2> QED
      BY <2>1 DEF AllocatorSpec!Next
  <1>4. ASSUME NEW b \in blocks, tda_dealloc(b) PROVE SlabInv' /\ [AllocatorSpec!Next]_blocks
    <2>1. SlabInv' /\ blocks' \subseteq blocks
      BY <1>4, DeallocStep
    <2> QED
      BY <2>1 DEF AllocatorSpec!Next, AllocatorSpec!TakeBack
  <1>5. ASSUME NEW b \in blocks, NEW l \in Layouts,
               ReallocInPlace(b, l.size) \/ ReallocRemaps(b, l.size) \/ ReallocMoves(b, l.size)
        PROVE  SlabInv' /\ [AllocatorSpec!Next]_blocks
    <2>1. PICK n \in Nat \ {0} : n = l.size
      BY SlabAssumption, LayoutsAre
    <2>2. CASE ReallocInPlace(b, n)
      <3>1. SlabInv' /\ AllocatorSpec!Resize
        BY <2>2, InPlaceStep
      <3> QED
        BY <3>1 DEF AllocatorSpec!Next
    <2>3. CASE ReallocRemaps(b, n)
      <3>1. SlabInv' /\ AllocatorSpec!Move
        BY <2>3, RemapStep
      <3> QED
        BY <3>1 DEF AllocatorSpec!Next
    <2>4. CASE ReallocMoves(b, n)
      <3>1. SlabInv' /\ AllocatorSpec!Move
        BY <2>4, MoveStep
      <3> QED
        BY <3>1 DEF AllocatorSpec!Next
    <2> QED
      BY <1>5, <2>1, <2>2, <2>3, <2>4
  <1>6. CASE UNCHANGED vars
    <2>1. slab' = slab /\ blocks' = blocks
      BY <1>6 DEF vars
    <2> QED
      BY <2>1 DEF SlabInv
  <1> QED
    BY <1>1, <1>2, <1>3, <1>4, <1>5, <1>6 DEF Next

\* In every behaviour of every slab the blocks held, the lists and the rests to carve share the
\* chunks out, and the chunks and the large blocks are what the parent has out.
THEOREM SlabInvariant == Spec => []SlabInv
  <1>1. Init => SlabInv
    <2>1. SUFFICES ASSUME Init PROVE SlabInv
      OBVIOUS
    <2>2. SlabOK(slab, {}, {}) /\ slab = Inert /\ blocks = {}
      BY <2>1, InertOK DEF Init
    <2> QED
      BY <2>2 DEF SlabInv
  <1>2. SlabInv /\ [Next]_vars => SlabInv'
    BY SlabStep
  <1> QED
    BY <1>1, <1>2, PTL DEF Spec

\* The fields are sound, each class's list holds the blocks cut for it and held by nobody, and
\* the chunk list the chunks the parent has out: nothing is lost or handed out twice, and
\* tda_slab_deinit gives every chunk back.
THEOREM SlabListsExact == Spec => []ListsExact
  <1>1. ASSUME SlabInv PROVE ListsExact
    <2> USE SlabAssumption
    <2>1. PICK K : SlabOK(slab, blocks, K)
      BY <1>1 DEF SlabInv
    <2>2. slab \in SlabRec /\ HeldOK(blocks) /\ ChunksOK(K) /\ LentOK(slab, blocks, K)
          /\ CutOK(slab, K) /\ ListsOK(slab, blocks, K)
      BY <2>1 DEF SlabOK
    <2>3. TypeOK
      <3>1. ASSUME NEW i \in Classes, slab.classes[i].carve # Null
            PROVE  slab.classes[i].carve <= slab.classes[i].carve_end
        BY <2>2, <3>1 DEF CutOK, CarvesFrom
      <3> QED
        BY <2>2, <3>1 DEF TypeOK, SlabRec, ClassRec, HeldOK, Block
    <2>4. ASSUME NEW i \in Classes
          PROVE  Chain(slab.mem, slab.classes[i].free_head) =
                     {Null} \cup (slab.carved[i] \ {b.addr : b \in blocks})
      <3>1. PICK S : S = slab.carved[i] \ {b.addr : b \in blocks}
        OBVIOUS
      <3>2. S \in SUBSET Words /\ Listed(slab.mem, slab.classes[i].free_head, S)
        BY <2>2, <3>1 DEF SlabRec, ListsOK, AddrsOf
      <3>3. Chain(slab.mem, slab.classes[i].free_head) = S \cup {Null}
        BY <3>2, ListedChain
      <3> QED
        BY <3>1, <3>3
    <2>5. Chain(slab.mem, slab.chunks) = Links(K) \cup {Null}
      BY <2>2, LinksAre, ListedChain DEF ListsOK
    <2>6. Links(K) \in SUBSET Words /\ Null \notin Links(K)
      BY <2>2, LinksAre, WordsAre
    <2>7. PICK C : C = Chain(slab.mem, slab.chunks)
      OBVIOUS
    <2>8. slab.lent = {b \in blocks : ~Small(b)} \cup {ChunkBlock(a - ChunkRoom) : a \in C \ {Null}}
      <3>1. C \ {Null} = Links(K)
        BY <2>5, <2>6, <2>7
      <3>2. \A k \in K : (k + ChunkRoom) - ChunkRoom = k
        BY <2>2, ChunkIs, ClassNat
      <3>3. {a - ChunkRoom : a \in Links(K)} = K
        BY <3>2 DEF Links
      <3>4. {ChunkBlock(a - ChunkRoom) : a \in Links(K)} = {ChunkBlock(k) : k \in K}
        BY <3>3
      <3> QED
        BY <2>2, <3>1, <3>4 DEF LentOK, LargeOf
    <2>9. Cardinality(C) = slab.chunk_count + 1
      <3>1. PICK f : f = [k \in K |-> k + ChunkRoom]
        OBVIOUS
      <3>2. \A j, k \in K : f[j] = f[k] => j = k
        <4>1. \A k \in K : k \in Nat /\ f[k] = k + ChunkRoom
          BY <2>2, <3>1, ChunkIs
        <4> QED
          BY <4>1, ClassNat
      <3>3. IsFiniteSet(K) /\ f = [k \in K |-> f[k]] /\ {f[k] : k \in K} = Links(K)
        BY <2>2, <3>1 DEF ChunksOK, Links
      <3>4. IsFiniteSet({f[k] : k \in K}) /\ Cardinality({f[k] : k \in K}) = Cardinality(K)
        BY <3>2, <3>3, OneEach
      <3>5. IsFiniteSet(Links(K)) /\ Cardinality(Links(K)) = slab.chunk_count
        BY <2>2, <3>3, <3>4 DEF LentOK
      <3>6. Cardinality(Links(K) \cup {Null}) = Cardinality(Links(K)) + 1
        BY <2>6, <3>5, FS_AddElement
      <3> QED
        BY <2>5, <2>7, <3>5, <3>6
    <2> QED
      BY <2>3, <2>4, <2>7, <2>8, <2>9 DEF ListsExact, FreeListsExact, ChunksReached
  <1> QED
    BY <1>1, SlabInvariant, PTL

\* A free finds from the layout alone the class its block was cut for, whatever the block was
\* resized to; and the counts of tda_slab_stats are those of the blocks held and of what the
\* parent has out.
THEOREM SlabFindsClass == Spec => []DeallocFindsClass
  <1>1. ASSUME SlabInv PROVE DeallocFindsClass
    <2>1. PICK K : SlabOK(slab, blocks, K)
      BY <1>1 DEF SlabInv
    <2>2. SmallOK(slab, blocks) /\ CountsOK(slab, blocks) /\ LentOK(slab, blocks, K)
      BY <2>1 DEF SlabOK
    <2>3. /\ tda_slab_stats.small_blocks = slab.small_blocks
          /\ tda_slab_stats.large_blocks = slab.large_blocks
          /\ tda_slab_stats.chunk_bytes = slab.chunk_count * ChunkBytes
      BY DEF tda_slab_stats
    <2>4. \A b \in blocks : Small(b) => b.addr \in slab.carved[ClassOf(LayoutOf(b))]
      BY <2>2 DEF SmallOK, SmallOf
    <2>5. /\ slab.small_blocks = Cardinality({b \in blocks : Small(b)})
          /\ slab.large_blocks = Cardinality({b \in blocks : ~Small(b)})
      BY <2>2 DEF CountsOK, SmallOf, LargeOf
    <2>6. slab.chunk_count * ChunkBytes + SizesOf({b \in blocks : ~Small(b)}) = SizesOf(slab.lent)
      BY <2>2 DEF LentOK, LargeOf
    <2>7. slab.chunk_count * ChunkBytes
             + MapThenSumSet(LAMBDA b : b.size, {b \in blocks : ~Small(b)})
             = MapThenSumSet(LAMBDA b : b.size, slab.lent)
      BY <2>6 DEF SizesOf
    <2> QED
      BY <2>3, <2>4, <2>5, <2>7 DEF DeallocFindsClass
  <1> QED
    BY <1>1, SlabInvariant, PTL

\* Every slab keeps the hook contract of alloc.h, on a parent that keeps it.
THEOREM SlabImplementsAllocator == Spec => ImplementsAllocator
  <1>1. Init => AllocatorSpec!Init
    BY DEF Init, AllocatorSpec!Init
  <1>2. SlabInv /\ [Next]_vars => [AllocatorSpec!Next]_blocks
    BY SlabStep
  <1> QED
    BY <1>1, <1>2, SlabInvariant, PTL DEF Spec, ImplementsAllocator, AllocatorSpec!Spec
=============================================================================
