---------------------------- MODULE LayoutProofs ----------------------------
(***************************************************************************)
(* Facts about the size arithmetic of core/align.h and core/layout.h that   *)
(* the other proofs share: alignments, multiples and the slots of an array; *)
(* and, for the containers' blocks, a number not in use and the count of a  *)
(* set that is in one-to-one correspondence with another; and sums of sizes.*)
(***************************************************************************)
EXTENDS Layout, FiniteSetsExt, FiniteSetTheorems, TLAPS

\* A set of naturals has a least element.
LEMMA LeastNat ==
    ASSUME NEW T, T \subseteq Nat, T # {}
    PROVE  \E x \in T : \A y \in T : x <= y
  <1>1. \E x \in T : \A y \in T : ~ (<<y, x>> \in OpToRel(<, Nat))
    BY NatLessThanWellFounded, WFMin, Zenon
  <1>2. PICK x \in T : \A y \in T : ~ (<<y, x>> \in OpToRel(<, Nat))
    BY <1>1
  <1>3. ASSUME NEW y \in T PROVE x <= y
    <2>1. <<y, x>> \in Nat \X Nat /\ <<y, x>>[1] = y /\ <<y, x>>[2] = x
      OBVIOUS
    <2>2. ~(y < x)
      BY <1>2, <2>1 DEF OpToRel
    <2> QED
      BY <2>1, <2>2
  <1> QED
    BY <1>3

\* AlignPad is a count below the alignment (tda_align_pad).
LEMMA AlignPadNat ==
    ASSUME NEW a \in Nat, NEW n \in Nat \ {0}
    PROVE  AlignPad(a, n) \in Nat
  BY DEF AlignPad

\* A multiple of n leaves nothing.
LEMMA MultipleMod == ASSUME NEW n \in Nat \ {0}, NEW k \in Int PROVE (n * k) % n = 0
  OBVIOUS

\* The address AlignPad moves to is on the alignment.
LEMMA AlignPadLands ==
    ASSUME NEW a \in Nat, NEW n \in Nat \ {0}
    PROVE  (a + AlignPad(a, n)) % n = 0
  <1> DEFINE m == -a
             q == m \div n
  <1>1. m \in Int /\ q \in Int /\ -q \in Int
    OBVIOUS
  <1>2. m = n * q + (m % n)
    BY <1>1
  <1>3. a + (m % n) = n * (-q)
    BY <1>1, <1>2
  <1>4. (n * (-q)) % n = 0
    BY <1>1, MultipleMod, Zenon
  <1> QED
    BY <1>3, <1>4 DEF AlignPad

\* A number with nothing left over n is a multiple of it.
LEMMA ModIsMultiple ==
    ASSUME NEW n \in Nat \ {0}, NEW a \in Int, a % n = 0
    PROVE  \E k \in Int : a = n * k
  <1>1. a \div n \in Int /\ a = n * (a \div n) + (a % n)
    OBVIOUS
  <1>2. a = n * (a \div n)
    BY <1>1
  <1> QED
    BY <1>1, <1>2, Zenon

\* Multiples add up, and a multiple of a multiple is one.
LEMMA SumMod ==
    ASSUME NEW n \in Nat \ {0}, NEW a \in Int, NEW b \in Int, a % n = 0, b % n = 0
    PROVE  (a + b) % n = 0
  <1>1. PICK k \in Int : a = n * k
    BY ModIsMultiple
  <1>2. PICK j \in Int : b = n * j
    BY ModIsMultiple
  <1>3. a + b = n * (k + j) /\ k + j \in Int
    BY <1>1, <1>2
  <1> QED
    BY <1>3, MultipleMod

LEMMA TimesMod ==
    ASSUME NEW n \in Nat \ {0}, NEW a \in Int, NEW i \in Int, a % n = 0
    PROVE  (a * i) % n = 0
  <1>1. PICK k \in Int : a = n * k
    BY ModIsMultiple
  <1>2. a * i = n * (k * i) /\ k * i \in Int
    BY <1>1
  <1> QED
    BY <1>2, MultipleMod

\* An address on an alignment is on every alignment that divides it.
LEMMA ModTrans ==
    ASSUME NEW m \in Nat \ {0}, NEW n \in Nat \ {0}, NEW a \in Int, a % m = 0, m % n = 0
    PROVE  a % n = 0
  <1>1. PICK k \in Int : a = m * k
    BY ModIsMultiple
  <1>2. m \in Int
    OBVIOUS
  <1>3. (m * k) % n = 0
    BY <1>2, TimesMod, Zenon
  <1> QED
    BY <1>1, <1>3

\* tda_align_ckd_up, when it does not overflow, gives a multiple of the alignment that is
\* no smaller than the value.
LEMMA AlignCkdUpCovers ==
    ASSUME NEW v \in Nat, NEW n \in Nat \ {0}, SizeMax \in Nat, AlignCkdUp(v, n) # Null
    PROVE  /\ AlignCkdUp(v, n) \in Nat
           /\ AlignCkdUp(v, n) >= v
           /\ AlignCkdUp(v, n) % n = 0
  <1> DEFINE q == (v + (n - 1)) \div n
             r == (v + (n - 1)) % n
  <1>1. v + (n - 1) \in Nat
    OBVIOUS
  <1>2. q \in Nat /\ r \in 0 .. n - 1 /\ v + (n - 1) = n * q + r
    BY <1>1
  <1>3. AlignCkdUp(v, n) = q * n
    BY DEF AlignCkdUp
  <1>4. q * n = n * q /\ n * q \in Nat
    BY <1>2
  <1>5. q \in Int
    BY <1>2
  <1>6. (n * q) % n = 0
    BY <1>5, MultipleMod, Zenon
  <1> QED
    BY <1>2, <1>3, <1>4, <1>6

\* As many whole slots as fit do fit.
LEMMA DivFits ==
    ASSUME NEW x \in Nat, NEW s \in Nat \ {0}
    PROVE  x \div s \in Nat /\ s * (x \div s) <= x
  <1>1. x = s * (x \div s) + (x % s) /\ x % s \in 0 .. s - 1 /\ x \div s \in Nat
    OBVIOUS
  <1> QED
    BY <1>1

\* A slot of an array ends where a later one starts, or before.
LEMMA SlotsApart ==
    ASSUME NEW s \in Nat, NEW i \in Nat, NEW j \in Nat, i < j
    PROVE  s * i \in Nat /\ s * j \in Nat /\ s * i + s <= s * j
  <1>1. j - i - 1 \in Nat
    OBVIOUS
  <1>2. s * (j - i - 1) >= 0
    BY <1>1
  <1>3. s * (j - i - 1) = s * j - s * i - s
    BY <1>1
  <1> QED
    BY <1>2, <1>3

\* An array of something takes room.
LEMMA ArrayHasSize ==
    ASSUME NEW s \in Nat \ {0}, NEW n \in Nat \ {0}
    PROVE  s * n \in Nat \ {0}
  <1>1. 0 \in Nat /\ 0 < n /\ s * 0 = 0
    OBVIOUS
  <1>2. s * n \in Nat /\ s * 0 + s <= s * n
    BY <1>1, SlotsApart
  <1> QED
    BY <1>1, <1>2

-----------------------------------------------------------------------------
(* Alignments.                                                              *)

\* Half of an alignment above 1 is an alignment.
LEMMA AlignHalf ==
    ASSUME NEW p \in Nat, tda_layout_is_align(p), p # 1
    PROVE  \E h \in Nat \ {0} : p = 2 * h /\ h < p /\ tda_layout_is_align(h)
  <1>1. p > 0 /\ p \in 1 .. p
    BY DEF tda_layout_is_align
  <1>2. p % p = 0
    <2>1. p \in Nat \ {0} /\ 1 \in Int /\ p * 1 = p
      BY <1>1
    <2> QED
      BY <2>1, MultipleMod
  <1>3. p % 2 = 0
    BY <1>1, <1>2 DEF tda_layout_is_align
  <1>4. PICK h \in Nat \ {0} : p = 2 * h /\ h < p
    BY <1>1, <1>3
  <1>5. ASSUME NEW d \in 1 .. h, h % d = 0 PROVE d = 1 \/ d % 2 = 0
    <2>1. d \in Nat \ {0} /\ d \in 1 .. p /\ h \in Int /\ 2 \in Int
      BY <1>4
    <2>2. (h * 2) % d = 0
      BY <1>5, <2>1, TimesMod, Zenon
    <2>3. p % d = 0
      BY <1>4, <2>2
    <2> QED
      BY <2>1, <2>3 DEF tda_layout_is_align
  <1>6. tda_layout_is_align(h)
    BY <1>5 DEF tda_layout_is_align
  <1> QED
    BY <1>4, <1>6, Zenon

\* The larger of two alignments is a multiple of the smaller: by the least alignment that
\* fails to divide a larger one, whose half would fail too.
LEMMA AlignDivides ==
    ASSUME NEW p \in Nat, NEW q \in Nat, tda_layout_is_align(p), tda_layout_is_align(q), p <= q
    PROVE  q % p = 0
  <1> DEFINE Fails(a) == \E b \in Nat : /\ tda_layout_is_align(a) /\ tda_layout_is_align(b)
                                        /\ a <= b /\ b % a # 0
             T == {a \in Nat : Fails(a)}
  <1>1. SUFFICES ASSUME T # {} PROVE FALSE
    <2>1. T = {} => ~Fails(p)
      OBVIOUS
    <2> QED
      BY <2>1
  <1>2. PICK a \in T : \A c \in T : a <= c
    BY <1>1, LeastNat
  <1>3. PICK b \in Nat : /\ tda_layout_is_align(a) /\ tda_layout_is_align(b)
                         /\ a <= b /\ b % a # 0
    BY DEF T
  <1>4. a # 1
    BY <1>3
  <1>5. b # 1
    BY <1>3, <1>4 DEF tda_layout_is_align
  <1>6. PICK h \in Nat \ {0} : a = 2 * h /\ h < a /\ tda_layout_is_align(h)
    BY <1>3, <1>4, AlignHalf
  <1>7. PICK k \in Nat \ {0} : b = 2 * k /\ k < b /\ tda_layout_is_align(k)
    BY <1>3, <1>5, AlignHalf
  <1>8. h <= k /\ h \notin T
    BY <1>2, <1>3, <1>6, <1>7
  <1>9. k % h = 0
    BY <1>6, <1>7, <1>8
  <1>10. PICK j \in Int : k = h * j
    BY <1>9, ModIsMultiple
  <1>11. b = a * j /\ a \in Nat \ {0}
    BY <1>6, <1>7, <1>10
  <1> QED
    BY <1>3, <1>11, MultipleMod

-----------------------------------------------------------------------------
(* Blocks that are out.                                                     *)

\* One of the numbers up to one more than there are blocks is that of no block.
LEMMA FreshNumber ==
    ASSUME NEW h, IsFiniteSet(h)
    PROVE  \E id \in 1 .. Cardinality(h) + 1 : \A b \in h : b.id # id
  <1> DEFINE T == {b.id : b \in h}
             f == [b \in h |-> b.id]
             n == Cardinality(h)
  <1>1. f \in Surjection(h, T)
    BY DEF Surjection
  <1>2. IsFiniteSet(T) /\ Cardinality(T) <= n
    BY <1>1, FS_Surjection, Zenon
  <1>3. n \in Nat /\ Cardinality(T) \in Nat
    BY <1>2, FS_CardinalityType
  <1>4. Cardinality(1 .. n + 1) = n + 1
    BY <1>3, FS_Interval
  <1>5. ~(1 .. n + 1 \subseteq T)
    <2>1. SUFFICES ASSUME 1 .. n + 1 \in SUBSET T PROVE FALSE
      OBVIOUS
    <2>2. Cardinality(1 .. n + 1) <= Cardinality(T)
      BY <1>2, <2>1, FS_Subset, Zenon
    <2> QED
      BY <1>2, <1>3, <1>4, <2>2
  <1> QED
    BY <1>5

\* There are as many of what differs from holder to holder as there are holders.
LEMMA OneEach ==
    ASSUME NEW S, IsFiniteSet(S), NEW f, f = [x \in S |-> f[x]],
           \A x, y \in S : f[x] = f[y] => x = y
    PROVE  IsFiniteSet({f[x] : x \in S}) /\ Cardinality({f[x] : x \in S}) = Cardinality(S)
  <1> DEFINE T == {f[x] : x \in S}
  <1>1. f \in Surjection(S, T)
    BY DEF Surjection
  <1>2. f \in Injection(S, T)
    BY <1>1 DEF Injection, IsInjective, Surjection
  <1> QED
    BY <1>1, <1>2, FS_Surjection, Zenon
-----------------------------------------------------------------------------
(* Sums of sizes.                                                           *)

SizesOf(S) == MapThenSumSet(LAMBDA b : b.size, S)

OneOf(S) == CHOOSE x \in S : TRUE

\* f gives the sum of the sizes of every part of S
IsSum(f, S) == f = [T \in SUBSET S |-> IF T = {} THEN 0 ELSE OneOf(T).size + f[T \ {OneOf(T)}]]

\* What a sum is, unfolded once.
LEMMA SumIs ==
    ASSUME NEW f, NEW S, IsSum(f, S), NEW T \in SUBSET S
    PROVE  f[T] = IF T = {} THEN 0 ELSE OneOf(T).size + f[T \ {OneOf(T)}]
  <1>1. f = [R \in SUBSET S |-> IF R = {} THEN 0 ELSE OneOf(R).size + f[R \ {OneOf(R)}]]
    BY DEF IsSum
  <1> DEFINE g == [R \in SUBSET S |-> IF R = {} THEN 0 ELSE OneOf(R).size + f[R \ {OneOf(R)}]]
  <1>2. g[T] = IF T = {} THEN 0 ELSE OneOf(T).size + f[T \ {OneOf(T)}]
    OBVIOUS
  <1>3. f = g
    BY <1>1
  <1> HIDE DEF g
  <1> QED
    BY <1>2, <1>3

\* A set that is not empty has an element to take.
LEMMA OneOfIn == ASSUME NEW S, S # {} PROVE OneOf(S) \in S
  BY DEF OneOf

\* Without one of its elements a finite set is smaller.
LEMMA Smaller ==
    ASSUME NEW S, IsFiniteSet(S), NEW x \in S
    PROVE  /\ IsFiniteSet(S \ {x}) /\ Cardinality(S) \in Nat
           /\ Cardinality(S \ {x}) = Cardinality(S) - 1 /\ Cardinality(S \ {x}) \in Nat
  BY FS_RemoveElement, FS_CardinalityType

\* The sum of a set does not depend on what it is a part of.
LEMMA SumsAgree ==
    ASSUME NEW f, NEW g, NEW U, NEW V, IsSum(f, U), IsSum(g, V),
           NEW W, IsFiniteSet(W), W \subseteq U, W \subseteq V
    PROVE  f[W] = g[W]
  <1> DEFINE Bad(X) == IsFiniteSet(X) /\ X \subseteq U /\ X \subseteq V /\ f[X] # g[X]
             N == {n \in Nat : \E X : Bad(X) /\ Cardinality(X) = n}
  <1>1. SUFFICES ASSUME Bad(W) PROVE FALSE
    OBVIOUS
  <1>2. Cardinality(W) \in Nat
    BY FS_CardinalityType
  <1>3. N # {}
    BY <1>1, <1>2
  <1>4. PICK n \in N : \A m \in N : n <= m
    BY <1>3, LeastNat
  <1>5. PICK X : Bad(X) /\ Cardinality(X) = n
    OBVIOUS
  <1>6. X # {}
    BY <1>5, SumIs
  <1> DEFINE x == OneOf(X)
  <1>7. x \in X
    BY <1>6, OneOfIn
  <1>8. f[X] = x.size + f[X \ {x}] /\ g[X] = x.size + g[X \ {x}]
    BY <1>5, <1>6, SumIs
  <1>9. IsFiniteSet(X \ {x}) /\ Cardinality(X \ {x}) = n - 1 /\ Cardinality(X \ {x}) \in Nat
    BY <1>5, <1>7, Smaller
  <1>10. Bad(X \ {x})
    BY <1>5, <1>8, <1>9
  <1>11. Cardinality(X \ {x}) \in N /\ n \in Nat
    BY <1>9, <1>10
  <1> HIDE DEF N, Bad, x
  <1> QED
    BY <1>4, <1>9, <1>11

\* A finite set has a sum: by the smallest that has none.
LEMMA SumExists == ASSUME NEW S, IsFiniteSet(S) PROVE \E f : IsSum(f, S)
  <1> DEFINE Bad(X) == IsFiniteSet(X) /\ ~ \E f : IsSum(f, X)
             N == {n \in Nat : \E X : Bad(X) /\ Cardinality(X) = n}
  <1>1. SUFFICES ASSUME Bad(S) PROVE FALSE
    OBVIOUS
  <1>2. Cardinality(S) \in Nat
    BY FS_CardinalityType
  <1>3. N # {}
    BY <1>1, <1>2
  <1>4. PICK n \in N : \A m \in N : n <= m
    BY <1>3, LeastNat
  <1>5. PICK X : Bad(X) /\ Cardinality(X) = n
    OBVIOUS
  <1> DEFINE h(T) == CHOOSE f : IsSum(f, T)
             g == [T \in SUBSET X |-> IF T = {} THEN 0 ELSE OneOf(T).size + h(T \ {OneOf(T)})[T \ {OneOf(T)}]]
  <1>6. ASSUME NEW T \in SUBSET X, T # {}
        PROVE  LET U == T \ {OneOf(T)} IN U \in SUBSET X /\ IsFiniteSet(U) /\ IsSum(h(U), U)
    <2> DEFINE U == T \ {OneOf(T)}
    <2>1. OneOf(T) \in T /\ U \in SUBSET X
      BY <1>6, OneOfIn
    <2>2. IsFiniteSet(T) /\ Cardinality(T) <= Cardinality(X)
      BY <1>5, FS_Subset
    <2>3. IsFiniteSet(U) /\ Cardinality(U) \in Nat /\ Cardinality(U) = Cardinality(T) - 1
          /\ Cardinality(T) \in Nat
      BY <2>1, <2>2, Smaller
    <2>4. Cardinality(U) \notin N
      <3>1. Cardinality(U) < n /\ n \in Nat
        BY <1>5, <2>2, <2>3
      <3> HIDE DEF N, U
      <3> QED
        BY <1>4, <2>3, <3>1
    <2>5. ~Bad(U)
      BY <2>3, <2>4
    <2>6. \E f : IsSum(f, U)
      BY <2>3, <2>5
    <2>7. IsSum(h(U), U)
      BY <2>6
    <2> QED
      BY <2>1, <2>3, <2>7
  <1>7. ASSUME NEW T \in SUBSET X, T # {} PROVE h(T \ {OneOf(T)})[T \ {OneOf(T)}] = g[T \ {OneOf(T)}]
    <2> DEFINE U == T \ {OneOf(T)}
               V == U \ {OneOf(U)}
    <2>1. U \in SUBSET X /\ IsFiniteSet(U) /\ IsSum(h(U), U)
      BY <1>6, <1>7
    <2>2. CASE U = {}
      <3>1. h(U)[U] = 0
        BY <2>1, <2>2, SumIs
      <3>2. g[U] = 0
        BY <2>1, <2>2
      <3> QED
        BY <3>1, <3>2
    <2>3. CASE U # {}
      <3>1. V \in SUBSET X /\ IsFiniteSet(V) /\ IsSum(h(V), V)
        BY <1>6, <2>1, <2>3
      <3>2. h(U)[U] = OneOf(U).size + h(U)[V]
        BY <2>1, <2>3, SumIs
      <3>3. h(U)[V] = h(V)[V]
        <4>1. V \subseteq U /\ V \subseteq V
          OBVIOUS
        <4> HIDE DEF h, V
        <4> QED
          BY <2>1, <3>1, <4>1, SumsAgree
      <3>4. g[U] = OneOf(U).size + h(V)[V]
        BY <2>1, <2>3
      <3> HIDE DEF g, h
      <3> QED
        BY <3>2, <3>3, <3>4
    <2> QED
      BY <2>2, <2>3
  <1>8. \A T \in SUBSET X : g[T] = IF T = {} THEN 0 ELSE OneOf(T).size + g[T \ {OneOf(T)}]
    <2>1. \A T \in SUBSET X :
            g[T] = IF T = {} THEN 0 ELSE OneOf(T).size + h(T \ {OneOf(T)})[T \ {OneOf(T)}]
      OBVIOUS
    <2> HIDE DEF g, h
    <2> QED
      BY <1>7, <2>1
  <1>9. g = [T \in SUBSET X |-> g[T]]
    OBVIOUS
  <1> HIDE DEF g
  <1>10. g = [T \in SUBSET X |-> IF T = {} THEN 0 ELSE OneOf(T).size + g[T \ {OneOf(T)}]]
    BY <1>8, <1>9
  <1> QED
    BY <1>5, <1>10 DEF IsSum

\* Any sum of a larger set gives the sum of its parts.
LEMMA SizesAre ==
    ASSUME NEW S, IsFiniteSet(S), NEW f, NEW U, S \subseteq U, IsSum(f, U)
    PROVE  SizesOf(S) = f[S]
  <1>1. SizesOf(S) = (CHOOSE h : IsSum(h, S))[S]
    BY DEF SizesOf, MapThenSumSet, MapThenFoldSet, IsSum, OneOf
  <1>2. \E h : IsSum(h, S)
    BY SumExists
  <1>3. IsSum(CHOOSE h : IsSum(h, S), S)
    BY <1>2
  <1> DEFINE h == CHOOSE h : IsSum(h, S)
  <1>4. IsSum(h, S) /\ SizesOf(S) = h[S]
    BY <1>1, <1>3
  <1> HIDE DEF h
  <1> QED
    BY <1>4, SumsAgree

\* SizesOf, unfolded once.
LEMMA SizesStep ==
    ASSUME NEW S, IsFiniteSet(S)
    PROVE  SizesOf(S) = IF S = {} THEN 0 ELSE OneOf(S).size + SizesOf(S \ {OneOf(S)})
  <1>1. PICK f : IsSum(f, S)
    BY SumExists
  <1>2. SizesOf(S) = f[S] /\ f[S] = IF S = {} THEN 0 ELSE OneOf(S).size + f[S \ {OneOf(S)}]
    BY <1>1, SizesAre, SumIs
  <1>3. IsFiniteSet(S \ {OneOf(S)})
    BY FS_Subset
  <1>4. SizesOf(S \ {OneOf(S)}) = f[S \ {OneOf(S)}]
    BY <1>1, <1>3, SizesAre
  <1> QED
    BY <1>2, <1>4

\* No block has no size.
LEMMA SizesOfNone == SizesOf({}) = 0
  <1>1. IsFiniteSet({})
    BY FS_EmptySet
  <1> QED
    BY <1>1, SizesStep, Zenon

\* The sum of sizes is a natural number, and any block may be taken out first: by the
\* smallest set of which this fails.
LEMMA SizesTake ==
    ASSUME NEW S, IsFiniteSet(S), \A b \in S : b.size \in Nat
    PROVE  /\ SizesOf(S) \in Nat
           /\ \A y \in S : SizesOf(S) = y.size + SizesOf(S \ {y}) /\ SizesOf(S \ {y}) \in Nat
  <1> DEFINE Sized(X) == IsFiniteSet(X) /\ \A b \in X : b.size \in Nat
             Good(X) == SizesOf(X) \in Nat /\ \A y \in X : SizesOf(X) = y.size + SizesOf(X \ {y})
             Bad(X) == Sized(X) /\ ~Good(X)
             N == {n \in Nat : \E X : Bad(X) /\ Cardinality(X) = n}
  <1>1. ASSUME NEW T, Bad(T) PROVE FALSE
    <2>1. Cardinality(T) \in Nat
      BY <1>1, FS_CardinalityType
    <2>2. N # {}
      BY <1>1, <2>1
    <2>3. PICK n \in N : \A m \in N : n <= m
      BY <2>2, LeastNat
    <2>4. PICK X : Bad(X) /\ Cardinality(X) = n
      OBVIOUS
    <2> DEFINE x == OneOf(X)
    <2>5. n \in Nat /\ Sized(X) /\ ~Good(X)
      BY <2>4
    <2>6. \A Y : Sized(Y) /\ Cardinality(Y) < n => Good(Y)
      <3>1. SUFFICES ASSUME NEW Y, Sized(Y), Cardinality(Y) < n, ~Good(Y) PROVE FALSE
        OBVIOUS
      <3>2. Cardinality(Y) \in N
        BY <3>1, FS_CardinalityType
      <3> HIDE DEF N
      <3> QED
        BY <2>3, <2>5, <3>1, <3>2, FS_CardinalityType
    <2> HIDE DEF Good
    <2>7. ASSUME NEW Y, Sized(Y), Cardinality(Y) <= n, NEW y \in Y
          PROVE  Sized(Y \ {y}) /\ Cardinality(Y \ {y}) < n /\ Good(Y \ {y})
      <3>1. Sized(Y \ {y}) /\ Cardinality(Y \ {y}) < n
        <4>1. /\ IsFiniteSet(Y \ {y}) /\ Cardinality(Y) \in Nat
              /\ Cardinality(Y \ {y}) = Cardinality(Y) - 1
          BY <2>7, Smaller
        <4> QED
          BY <2>5, <2>7, <4>1
      <3> QED
        BY <2>6, <3>1
    <2>8. X # {}
      <3>1. Good({})
        BY SizesOfNone DEF Good
      <3> QED
        BY <2>5, <3>1
    <2>9. x \in X /\ SizesOf(X) = x.size + SizesOf(X \ {x}) /\ x.size \in Nat
      BY <2>5, <2>8, SizesStep, OneOfIn
    <2>10. Sized(X \ {x}) /\ Cardinality(X \ {x}) < n /\ Good(X \ {x})
      BY <2>4, <2>5, <2>7, <2>9
    <2> HIDE DEF x
    <2>11. ASSUME NEW y \in X PROVE SizesOf(X) = y.size + SizesOf(X \ {y})
      <3>1. CASE y = x
        BY <2>9, <3>1
      <3>2. CASE y # x
        <4>1. x \in X \ {y} /\ y \in X \ {x} /\ y.size \in Nat
          BY <2>5, <2>9, <3>2
        <4>2. Good(X \ {y})
          BY <2>4, <2>5, <2>7
        <4>3. SizesOf(X \ {y}) = x.size + SizesOf((X \ {y}) \ {x})
          BY <4>1, <4>2 DEF Good
        <4>4. SizesOf(X \ {x}) = y.size + SizesOf((X \ {x}) \ {y})
          BY <2>10, <4>1 DEF Good
        <4>5. (X \ {y}) \ {x} = (X \ {x}) \ {y}
          OBVIOUS
        <4>6. SizesOf(X \ {y}) \in Nat /\ SizesOf(X \ {x}) \in Nat
          BY <2>10, <4>2 DEF Good
        <4>7. Good((X \ {x}) \ {y})
          <5>1. Cardinality(X \ {x}) <= n
            BY <2>5, <2>10, FS_CardinalityType
          <5> QED
            BY <2>7, <2>10, <4>1, <5>1
        <4>8. SizesOf((X \ {x}) \ {y}) \in Nat
          BY <4>7 DEF Good
        <4>9. SizesOf((X \ {y}) \ {x}) = SizesOf((X \ {x}) \ {y})
          BY <4>5
        <4> QED
          BY <2>9, <4>1, <4>3, <4>4, <4>8, <4>9
      <3> QED
        BY <3>1, <3>2
    <2>12. SizesOf(X) \in Nat
      BY <2>9, <2>10 DEF Good
    <2> QED
      BY <2>5, <2>11, <2>12 DEF Good
  <1>2. \A T : Sized(T) => Good(T)
    BY <1>1
  <1>3. Good(S)
    BY <1>2
  <1>4. ASSUME NEW y \in S PROVE SizesOf(S \ {y}) \in Nat
    <2>1. Sized(S \ {y})
      BY Smaller
    <2> QED
      BY <1>2, <2>1
  <1> QED
    BY <1>3, <1>4

\* A block more, and a block less.
LEMMA SizesAdd ==
    ASSUME NEW S, IsFiniteSet(S), \A b \in S : b.size \in Nat, NEW c, c \notin S, c.size \in Nat
    PROVE  SizesOf(S \cup {c}) = SizesOf(S) + c.size /\ SizesOf(S) \in Nat
  <1>1. IsFiniteSet(S \cup {c}) /\ \A b \in S \cup {c} : b.size \in Nat
    BY FS_AddElement
  <1>2. (S \cup {c}) \ {c} = S /\ c \in S \cup {c}
    OBVIOUS
  <1>3. SizesOf(S \cup {c}) = c.size + SizesOf((S \cup {c}) \ {c}) /\ SizesOf(S) \in Nat
    BY <1>1, <1>2, SizesTake
  <1>4. SizesOf((S \cup {c}) \ {c}) = SizesOf(S)
    BY <1>2
  <1> QED
    BY <1>3, <1>4
=============================================================================
