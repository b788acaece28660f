----------------------------- MODULE DebugProofs -----------------------------
(***************************************************************************)
(* Proofs about the debug allocator, for every hash, size of its table,     *)
(* length of its quarantine, set of layouts and number of requests: its     *)
(* table of live blocks keeps every block where a probe finds it, through   *)
(* growth and backward shift; the parent has out what the books say; no     *)
(* misuse goes unreported and no report is false; fault injection refuses   *)
(* exactly what it was told to, and no block written past its end goes back *)
(* unseen.                                                                  *)
(***************************************************************************)
EXTENDS Debug, LayoutProofs

-----------------------------------------------------------------------------
(* The table of live blocks.                                                *)

\* On a ring of n slots a number less than a turn off it is n away from its slot at most.
LEMMA RingMod ==
    ASSUME NEW n \in Nat \ {0}, NEW x \in Int, -n <= x, x < 2 * n
    PROVE  /\ x < 0 => x % n = x + n
           /\ ~(x < 0) => x % n = IF x < n THEN x ELSE x - n
  OBVIOUS

\* how many steps up the ring it is from h to i
Ahead(h, i, n) == IF i >= h THEN i - h ELSE i - h + n

\* Walking up from h each slot is passed once in a turn.
LEMMA AheadIs ==
    ASSUME NEW n \in Nat \ {0}, NEW h \in Slots(n)
    PROVE  /\ \A d \in Slots(n) : (h + d) % n \in Slots(n) /\ Ahead(h, (h + d) % n, n) = d
           /\ \A x \in Slots(n) : Ahead(h, x, n) \in Slots(n) /\ (h + Ahead(h, x, n)) % n = x
  <1>1. h \in 0 .. n - 1 /\ n \in Int
    BY DEF Slots
  <1>2. ASSUME NEW d \in 0 .. n - 1
        PROVE  (h + d) % n \in 0 .. n - 1 /\ Ahead(h, (h + d) % n, n) = d
    <2>1. (h + d) % n = IF h + d < n THEN h + d ELSE h + d - n
      <3>1. PICK s \in Int : s = h + d /\ -n <= s /\ s < 2 * n /\ ~(s < 0)
        BY <1>1
      <3>2. s % n = IF s < n THEN s ELSE s - n
        BY <3>1, RingMod, Zenon
      <3> QED
        BY <1>1, <3>1, <3>2
    <2> QED
      BY <1>1, <2>1 DEF Ahead
  <1>3. ASSUME NEW x \in 0 .. n - 1
        PROVE  Ahead(h, x, n) \in 0 .. n - 1 /\ (h + Ahead(h, x, n)) % n = x
    <2>1. Ahead(h, x, n) \in 0 .. n - 1
      BY <1>1 DEF Ahead
    <2>2. PICK d \in 0 .. n - 1 : d = Ahead(h, x, n)
      BY <2>1
    <2>3. (h + d) % n = IF h + d < n THEN h + d ELSE h + d - n
      <3>1. PICK s \in Int : s = h + d /\ -n <= s /\ s < 2 * n /\ ~(s < 0)
        BY <1>1
      <3>2. s % n = IF s < n THEN s ELSE s - n
        BY <3>1, RingMod, Zenon
      <3> QED
        BY <1>1, <3>1, <3>2
    <2> QED
      BY <1>1, <2>1, <2>2, <2>3 DEF Ahead
  <1> QED
    BY <1>2, <1>3 DEF Slots

\* a table with slots, one at most for each address
IsTable(t) ==
    /\ t = [slots |-> t.slots, cap |-> t.cap, len |-> t.len]
    /\ t.cap \in Nat \ {0}
    /\ t.slots \in [Slots(t.cap) -> BlockRecord \cup {Empty}]
    /\ \A i, j \in Slots(t.cap) :
          t.slots[i] # Empty /\ t.slots[j] # Empty /\ t.slots[i].addr = t.slots[j].addr => i = j

HomeOf(t, i) == TableHome(t, t.slots[i].addr)

\* no slot a probe passes on its way to a record is empty, 'hole' apart
Reached(t, hole) ==
    \A i, x \in Slots(t.cap) :
       t.slots[i] # Empty /\ Ahead(HomeOf(t, i), x, t.cap) < Ahead(HomeOf(t, i), i, t.cap)
       => t.slots[x] # Empty \/ x = hole

HasRoom(t) == \E e \in Slots(t.cap) : t.slots[e] = Empty

NoneAt(t, a) == \A i \in Slots(t.cap) : t.slots[i] # Empty => t.slots[i].addr # a

\* A record is no empty slot.
LEMMA RecordIs ==
    ASSUME NEW r \in BlockRecord
    PROVE  r # Empty /\ r.addr \in Addrs
  BY TableAssumption DEF BlockRecord

\* The home of an address is a slot.
LEMMA HomeIn ==
    ASSUME NEW t, IsTable(t), NEW a \in Addrs
    PROVE  TableHome(t, a) \in Slots(t.cap)
  <1>1. Hash[a] \in Nat /\ t.cap \in Nat \ {0}
    BY TableAssumption DEF IsTable
  <1>2. Hash[a] % t.cap \in 0 .. t.cap - 1
    BY <1>1
  <1> QED
    BY <1>2 DEF TableHome, Slots

LEMMA HomeOfIn ==
    ASSUME NEW t, IsTable(t), NEW i \in Slots(t.cap), t.slots[i] # Empty
    PROVE  t.slots[i] \in BlockRecord /\ HomeOf(t, i) \in Slots(t.cap)
  <1>1. t.slots[i] \in BlockRecord
    BY DEF IsTable
  <1> QED
    BY <1>1, RecordIs, HomeIn DEF HomeOf

\* A probe of a table with an empty slot stops, and at the first slot it may.
LEMMA ProbeIs ==
    ASSUME NEW t, IsTable(t), HasRoom(t), NEW a \in Addrs
    PROVE  /\ TableProbe(t, a) \in Slots(t.cap)
           /\ t.slots[TableProbe(t, a)] = Empty \/ t.slots[TableProbe(t, a)].addr = a
           /\ \A x \in Slots(t.cap) :
                 Ahead(TableHome(t, a), x, t.cap) < Ahead(TableHome(t, a), TableProbe(t, a), t.cap)
                 => t.slots[x] # Empty /\ t.slots[x].addr # a
  <1> DEFINE At(d) == (TableHome(t, a) + d) % t.cap
             Stops(d) == t.slots[At(d)] = Empty \/ t.slots[At(d)].addr = a
             First(d) == Stops(d) /\ \A e \in 0 .. d - 1 : ~Stops(e)
             D == {d \in Slots(t.cap) : Stops(d)}
  <1>1. TableProbe(t, a) = At(CHOOSE d \in Slots(t.cap) : First(d))
    BY DEF TableProbe
  <1>2. PICK n, h : n = t.cap /\ h = TableHome(t, a) /\ n \in Nat \ {0} /\ h \in Slots(n)
    BY HomeIn DEF IsTable
  <1>3. PICK e \in Slots(n) : t.slots[e] = Empty
    BY <1>2 DEF HasRoom
  <1>4. Ahead(h, e, n) \in D
    BY <1>2, <1>3, AheadIs
  <1>5. D \subseteq Nat
    BY DEF Slots
  <1> HIDE DEF D
  <1>6. PICK d \in D : \A c \in D : d <= c
    BY <1>4, <1>5, LeastNat, Zenon
  <1>7. d \in Slots(n) /\ Stops(d) /\ d \in 0 .. n - 1
    BY <1>2, <1>6 DEF D, Slots
  <1>8. ASSUME NEW c \in 0 .. d - 1 PROVE ~Stops(c)
    <2>1. c \in Slots(n) /\ ~(d <= c)
      BY <1>2, <1>7 DEF Slots
    <2>2. c \notin D
      BY <1>6, <2>1
    <2> QED
      BY <1>2, <2>1, <2>2 DEF D
  <1>9. First(d)
    BY <1>7, <1>8
  <1> HIDE DEF First
  <1>10. \E c \in Slots(n) : First(c)
    BY <1>7, <1>9
  <1>11. PICK c : c \in Slots(n) /\ First(c) /\ TableProbe(t, a) = At(c)
    BY <1>1, <1>2, <1>10
  <1>12. At(c) \in Slots(n) /\ Ahead(h, At(c), n) = c /\ Stops(c)
    BY <1>2, <1>11, AheadIs DEF First
  <1>13. ASSUME NEW x \in Slots(n), Ahead(h, x, n) < c
         PROVE  t.slots[x] # Empty /\ t.slots[x].addr # a
    <2>1. Ahead(h, x, n) \in 0 .. n - 1 /\ (h + Ahead(h, x, n)) % n = x /\ c \in 0 .. n - 1
      BY <1>2, <1>11, AheadIs DEF Slots
    <2>2. PICK b : b = Ahead(h, x, n)
      OBVIOUS
    <2>3. b \in 0 .. c - 1 /\ At(b) = x
      BY <1>2, <1>13, <2>1, <2>2
    <2>4. ~Stops(b)
      BY <1>11, <2>3 DEF First
    <2> QED
      BY <2>3, <2>4
  <1> QED
    BY <1>2, <1>11, <1>12, <1>13

\* A probe finds the record of an address where it is, and no record if there is none.
LEMMA ProbeFinds ==
    ASSUME NEW t, IsTable(t), HasRoom(t), Reached(t, -1), NEW a \in Addrs
    PROVE  /\ \A i \in Slots(t.cap) : t.slots[i] # Empty /\ t.slots[i].addr = a => TableProbe(t, a) = i
           /\ NoneAt(t, a) => t.slots[TableProbe(t, a)] = Empty
  <1>1. PICK p : p = TableProbe(t, a)
    OBVIOUS
  <1>2. PICK n, h : n = t.cap /\ h = TableHome(t, a) /\ n \in Nat \ {0} /\ h \in Slots(n)
    BY HomeIn DEF IsTable
  <1>3. /\ p \in Slots(n)
        /\ t.slots[p] = Empty \/ t.slots[p].addr = a
        /\ \A x \in Slots(n) : Ahead(h, x, n) < Ahead(h, p, n) => t.slots[x] # Empty /\ t.slots[x].addr # a
    BY <1>1, <1>2, ProbeIs
  <1>4. ASSUME NEW i \in Slots(n), t.slots[i] # Empty, t.slots[i].addr = a
        PROVE  p = i
    <2>1. HomeOf(t, i) = h
      BY <1>2, <1>4 DEF HomeOf
    <2>2. ~(Ahead(h, i, n) < Ahead(h, p, n))
      BY <1>3, <1>4
    <2>3. CASE Ahead(h, p, n) < Ahead(h, i, n)
      <3>1. p \in Int /\ p # -1
        BY <1>3 DEF Slots
      <3>2. t.slots[p] # Empty
        BY <1>2, <1>3, <1>4, <2>1, <2>3, <3>1 DEF Reached
      <3> QED
        BY <1>2, <1>3, <1>4, <3>2 DEF IsTable
    <2>4. CASE ~(Ahead(h, p, n) < Ahead(h, i, n))
      <3>1. n \in Int /\ h \in 0 .. n - 1 /\ p \in 0 .. n - 1 /\ i \in 0 .. n - 1
        BY <1>2, <1>3 DEF Slots
      <3> QED
        BY <2>2, <2>4, <3>1 DEF Ahead
    <2> QED
      BY <2>3, <2>4
  <1> QED
    BY <1>1, <1>2, <1>3, <1>4 DEF NoneAt

\* A table with fewer records than slots has an empty one.
LEMMA RoomIf ==
    ASSUME NEW t, IsTable(t), NEW S, IsFiniteSet(S), Records(t) \subseteq S, Cardinality(S) < t.cap
    PROVE  HasRoom(t)
  <1> DEFINE I == Slots(t.cap)
             f == t.slots
  <1>1. SUFFICES ASSUME ~HasRoom(t) PROVE FALSE
    OBVIOUS
  <1>2. t.cap \in Nat \ {0} /\ f = [i \in I |-> f[i]]
    BY DEF IsTable
  <1>3. \A i \in I : f[i] # Empty
    BY <1>1 DEF HasRoom
  <1>4. \A i, j \in I : f[i] = f[j] => i = j
    BY <1>3 DEF IsTable
  <1>5. IsFiniteSet(I) /\ Cardinality(I) = t.cap
    BY <1>2, FS_Interval DEF Slots
  <1>6. Records(t) = {f[i] : i \in I}
    BY <1>3 DEF Records
  <1> HIDE DEF f, I
  <1>7. Cardinality(Records(t)) = t.cap
    BY <1>2, <1>4, <1>5, <1>6, OneEach
  <1>8. Cardinality(Records(t)) <= Cardinality(S)
    BY FS_Subset, Zenon
  <1>9. Cardinality(S) \in Nat
    BY FS_CardinalityType
  <1> QED
    BY <1>2, <1>7, <1>8, <1>9

\* the table t with r in slot p, a record where a probe for it stops
Filled(t, p, r) == [t EXCEPT !.slots = [t.slots EXCEPT ![p] = r]]

PutAt(u, t, p, r) ==
    /\ u = [slots |-> u.slots, cap |-> t.cap, len |-> t.len] /\ u.cap = t.cap /\ u.len = t.len
    /\ u.slots \in [Slots(t.cap) -> BlockRecord \cup {Empty}]
    /\ u.slots[p] = r /\ \A i \in Slots(t.cap) : i # p => u.slots[i] = t.slots[i]

LEMMA FilledIs ==
    ASSUME NEW t, IsTable(t), NEW p \in Slots(t.cap), NEW r \in BlockRecord \cup {Empty}
    PROVE  PutAt(Filled(t, p, r), t, p, r)
  BY DEF IsTable, Filled, PutAt

\* A record put where a probe for its address stops keeps every other where it is found.
LEMMA PutKeeps ==
    ASSUME NEW t, IsTable(t), HasRoom(t), Reached(t, -1), NEW r \in BlockRecord, NoneAt(t, r.addr)
    PROVE  /\ IsTable(TablePut(t, r)) /\ Reached(TablePut(t, r), -1)
           /\ TablePut(t, r).cap = t.cap /\ TablePut(t, r).len = t.len
           /\ Records(TablePut(t, r)) = Records(t) \cup {r}
  <1>1. PICK p : p = TableProbe(t, r.addr)
    OBVIOUS
  <1>2. r.addr \in Addrs /\ r # Empty
    BY RecordIs
  <1>3. PICK n, h : n = t.cap /\ h = TableHome(t, r.addr) /\ n \in Nat \ {0} /\ h \in Slots(n)
    BY <1>2, HomeIn DEF IsTable
  <1>4. /\ p \in Slots(n)
        /\ \A x \in Slots(n) : Ahead(h, x, n) < Ahead(h, p, n) => t.slots[x] # Empty
    BY <1>1, <1>2, <1>3, ProbeIs
  <1>5. t.slots[p] = Empty
    BY <1>1, <1>2, ProbeFinds
  <1>6. PICK u : u = Filled(t, p, r)
    OBVIOUS
  <1>7. TablePut(t, r) = u
    BY <1>1, <1>6 DEF TablePut, Filled, IsTable
  <1>8. /\ u.cap = n /\ u.len = t.len /\ u = [slots |-> u.slots, cap |-> n, len |-> t.len]
        /\ u.slots \in [Slots(n) -> BlockRecord \cup {Empty}]
        /\ u.slots[p] = r /\ \A i \in Slots(n) : i # p => u.slots[i] = t.slots[i]
    <2>1. p \in Slots(t.cap) /\ r \in BlockRecord \cup {Empty}
      BY <1>3, <1>4
    <2>2. PutAt(u, t, p, r)
      BY <1>6, <2>1, FilledIs
    <2> QED
      BY <1>3, <2>2 DEF PutAt
  <1>9. IsTable(u)
    <2>1. ASSUME NEW i \in Slots(n), NEW j \in Slots(n), u.slots[i] # Empty, u.slots[j] # Empty,
                 u.slots[i].addr = u.slots[j].addr
          PROVE  i = j
      <3>1. CASE i = p /\ j # p
        BY <1>3, <1>8, <2>1, <3>1 DEF NoneAt
      <3>2. CASE i # p /\ j = p
        BY <1>3, <1>8, <2>1, <3>2 DEF NoneAt
      <3>3. CASE i # p /\ j # p
        BY <1>3, <1>8, <2>1, <3>3 DEF IsTable
      <3> QED
        BY <3>1, <3>2, <3>3
    <2> QED
      BY <1>3, <1>8, <2>1 DEF IsTable
  <1>10. \A a : TableHome(u, a) = TableHome(t, a)
    BY <1>3, <1>8 DEF TableHome
  <1>11. Reached(u, -1)
    <2>1. SUFFICES ASSUME NEW i \in Slots(n), NEW x \in Slots(n), u.slots[i] # Empty,
                          Ahead(HomeOf(u, i), x, n) < Ahead(HomeOf(u, i), i, n), u.slots[x] = Empty
                   PROVE  FALSE
      BY <1>8 DEF Reached
    <2>2. x # p /\ t.slots[x] = Empty
      BY <1>2, <1>8, <2>1
    <2>3. CASE i = p
      <3>1. HomeOf(u, i) = h
        BY <1>3, <1>8, <1>10, <2>3 DEF HomeOf
      <3> QED
        BY <1>4, <2>1, <2>2, <2>3, <3>1
    <2>4. CASE i # p
      <3>1. HomeOf(u, i) = HomeOf(t, i) /\ t.slots[i] # Empty
        BY <1>8, <1>10, <2>1, <2>4 DEF HomeOf
      <3>2. x # -1
        BY <1>3 DEF Slots
      <3> QED
        BY <1>3, <2>1, <2>2, <3>1, <3>2 DEF Reached
    <2> QED
      BY <2>3, <2>4
  <1>12. Records(u) = Records(t) \cup {r}
    BY <1>2, <1>3, <1>4, <1>5, <1>8 DEF Records
  <1> QED
    BY <1>3, <1>7, <1>8, <1>9, <1>11, <1>12

-----------------------------------------------------------------------------
(* Growth.                                                                  *)

\* The walk of TableGrown, up to slot n.
Grows(f, n, t) ==
    f = [i \in 0 .. n |-> IF i = 0 THEN Bare(t)
                          ELSE IF t.slots[i - 1] = Empty THEN f[i - 1]
                          ELSE TablePut(f[i - 1], t.slots[i - 1])]

LEMMA GrowsExists ==
    ASSUME NEW t, NEW k \in Nat
    PROVE  \E f : Grows(f, k, t)
  <1> DEFINE T == {n \in Nat : ~ \E f : Grows(f, n, t)}
             Next1(u, i) == IF t.slots[i - 1] = Empty THEN u ELSE TablePut(u, t.slots[i - 1])
  <1>1. SUFFICES ASSUME T # {} PROVE FALSE
    OBVIOUS
  <1>2. PICK n \in T : \A m \in T : n <= m
    BY <1>1, LeastNat
  <1>3. n # 0
    <2>1. PICK f : f = [i \in 0 .. 0 |-> Bare(t)]
      OBVIOUS
    <2> HIDE DEF T
    <2>2. f = [i \in 0 .. 0 |-> IF i = 0 THEN Bare(t)
                                ELSE IF t.slots[i - 1] = Empty THEN f[i - 1]
                                ELSE TablePut(f[i - 1], t.slots[i - 1])]
      BY <2>1
    <2>3. Grows(f, 0, t)
      BY <2>2 DEF Grows
    <2> QED
      BY <2>3 DEF T
  <1>4. PICK f : Grows(f, n - 1, t)
    <2>1. n - 1 \in Nat /\ ~(n <= n - 1)
      BY <1>3
    <2> QED
      BY <1>2, <2>1
  <1>5. f = [i \in 0 .. n - 1 |-> IF i = 0 THEN Bare(t) ELSE Next1(f[i - 1], i)]
    BY <1>4 DEF Grows
  <1> HIDE DEF Next1
  <1> DEFINE g == [i \in 0 .. n |-> IF i < n THEN f[i] ELSE Next1(f[n - 1], n)]
  <1>6. (\A i \in 0 .. n - 1 : g[i] = f[i]) /\ g[n] = Next1(f[n - 1], n)
    BY <1>3
  <1>7. ASSUME NEW i \in 0 .. n
        PROVE  g[i] = IF i = 0 THEN Bare(t) ELSE Next1(g[i - 1], i)
    <2>1. CASE i = n
      BY <1>3, <1>6, <2>1
    <2>2. CASE i # n
      <3>1. i \in 0 .. n - 1 /\ (i # 0 => i - 1 \in 0 .. n - 1)
        BY <1>3, <2>2
      <3>2. f[i] = IF i = 0 THEN Bare(t) ELSE Next1(f[i - 1], i)
        BY <1>5, <3>1
      <3> HIDE DEF g
      <3> QED
        BY <1>6, <3>1, <3>2
    <2> QED
      BY <2>1, <2>2
  <1>8. g = [i \in 0 .. n |-> g[i]]
    OBVIOUS
  <1> HIDE DEF g
  <1>9. g = [i \in 0 .. n |-> IF i = 0 THEN Bare(t) ELSE Next1(g[i - 1], i)]
    BY <1>7, <1>8
  <1>10. Grows(g, n, t)
    BY <1>9 DEF Grows, Next1
  <1> QED
    BY <1>2, <1>10

\* A table the allocator keeps: none yet, or one that is half full at most, every record where
\* a probe finds it and counted.
Sound(t) ==
    \/ t = NewTable
    \/ /\ IsTable(t) /\ Reached(t, -1) /\ IsFiniteSet(Records(t))
       /\ t.len = Cardinality(Records(t)) /\ 2 * t.len <= t.cap

LEMMA NewTableIs ==
    NewTable.cap = 0 /\ NewTable.len = 0 /\ Records(NewTable) = {} /\ IsFiniteSet({})
    /\ Cardinality({}) = 0
  <1>1. Slots(0) = {}
    BY DEF Slots
  <1>2. NewTable.cap = 0 /\ NewTable.len = 0
    BY DEF NewTable
  <1>3. Records(NewTable) = {}
    BY <1>1, <1>2 DEF Records
  <1> QED
    BY <1>2, <1>3, FS_EmptySet

LEMMA SoundIs ==
    ASSUME NEW t, Sound(t)
    PROVE  /\ IsFiniteSet(Records(t)) /\ t.len = Cardinality(Records(t)) /\ t.len \in Nat
           /\ t.cap \in Nat /\ 2 * t.len <= t.cap /\ Records(t) \subseteq BlockRecord
           /\ t.cap = 0 => t = NewTable
           /\ t.cap # 0 => IsTable(t) /\ Reached(t, -1) /\ HasRoom(t)
  <1>1. CASE t = NewTable
    BY <1>1, NewTableIs
  <1>2. CASE /\ IsTable(t) /\ Reached(t, -1) /\ IsFiniteSet(Records(t))
             /\ t.len = Cardinality(Records(t)) /\ 2 * t.len <= t.cap
    <2>1. t.cap \in Nat \ {0} /\ t.len \in Nat
      BY <1>2, FS_CardinalityType DEF IsTable
    <2>2. Records(t) \subseteq BlockRecord
      BY <1>2 DEF IsTable, Records
    <2>3. Cardinality(Records(t)) < t.cap
      BY <1>2, <2>1
    <2>4. HasRoom(t)
      BY <1>2, <2>3, RoomIf
    <2> QED
      BY <1>2, <2>1, <2>2, <2>4
  <1> QED
    BY <1>1, <1>2 DEF Sound

\* What a table has after twice its slots have taken the first n of its own.
Rehashed(t, u, n) ==
    /\ IsTable(u) /\ Reached(u, -1) /\ u.len = t.len
    /\ u.cap = (IF t.cap = 0 THEN TableMinCap ELSE 2 * t.cap)
    /\ Records(u) = {t.slots[i] : i \in 0 .. n - 1} \ {Empty}

LEMMA BareIs ==
    ASSUME NEW t, t.cap \in Nat, t.len \in Nat
    PROVE  Rehashed(t, Bare(t), 0)
  <1>1. PICK u, c : u = Bare(t) /\ c = IF t.cap = 0 THEN TableMinCap ELSE 2 * t.cap
    OBVIOUS
  <1>2. c \in Nat \ {0}
    BY <1>1, TableAssumption
  <1>3. u = [slots |-> [i \in Slots(c) |-> Empty], cap |-> c, len |-> t.len]
    BY <1>1 DEF Bare
  <1>4. u.slots = [i \in Slots(c) |-> Empty] /\ u.cap = c /\ u.len = t.len
    BY <1>3
  <1>5. IsTable(u) /\ Reached(u, -1)
    BY <1>2, <1>3, <1>4 DEF IsTable, Reached
  <1>6. Records(u) = {}
    BY <1>4 DEF Records
  <1>7. {t.slots[i] : i \in 0 .. 0 - 1} = {}
    OBVIOUS
  <1> QED
    BY <1>1, <1>4, <1>5, <1>6, <1>7 DEF Rehashed

\* One slot more.
LEMMA RehashStep ==
    ASSUME NEW t, Sound(t), t.cap # 0, NEW n \in 0 .. t.cap - 1, NEW u, Rehashed(t, u, n)
    PROVE  Rehashed(t, IF t.slots[n] = Empty THEN u ELSE TablePut(u, t.slots[n]), n + 1)
  <1>1. /\ IsTable(t) /\ IsFiniteSet(Records(t)) /\ Cardinality(Records(t)) \in Nat
        /\ 2 * Cardinality(Records(t)) <= t.cap /\ t.cap \in Nat \ {0}
    BY SoundIs
  <1>2. /\ IsTable(u) /\ Reached(u, -1) /\ u.len = t.len /\ u.cap = 2 * t.cap
        /\ Records(u) = {t.slots[i] : i \in 0 .. n - 1} \ {Empty}
    BY DEF Rehashed
  <1>3. 0 .. (n + 1) - 1 = 0 .. n - 1 \cup {n}
    OBVIOUS
  <1>4. CASE t.slots[n] = Empty
    <2>1. {t.slots[i] : i \in 0 .. (n + 1) - 1} \ {Empty} = {t.slots[i] : i \in 0 .. n - 1} \ {Empty}
      BY <1>3, <1>4
    <2> QED
      BY <1>4, <2>1 DEF Rehashed
  <1>5. CASE t.slots[n] # Empty
    <2>1. PICK r : r = t.slots[n]
      OBVIOUS
    <2>2. n \in Slots(t.cap) /\ \A i \in 0 .. n - 1 : i \in Slots(t.cap) /\ i # n
      BY <1>1 DEF Slots
    <2>3. r \in BlockRecord
      BY <1>1, <1>5, <2>1, <2>2 DEF IsTable
    <2>4. NoneAt(u, r.addr)
      <3>1. SUFFICES ASSUME NEW j \in Slots(u.cap), u.slots[j] # Empty, u.slots[j].addr = r.addr
                     PROVE  FALSE
        BY DEF NoneAt
      <3>2. u.slots[j] \in Records(u)
        BY <3>1 DEF Records
      <3>3. PICK i \in 0 .. n - 1 : u.slots[j] = t.slots[i]
        BY <1>2, <3>2
      <3>4. i \in Slots(t.cap) /\ i # n /\ t.slots[i] # Empty /\ t.slots[n] # Empty
            /\ t.slots[i].addr = t.slots[n].addr
        BY <1>5, <2>1, <2>2, <3>1, <3>3
      <3> QED
        BY <1>1, <2>2, <3>4 DEF IsTable
    <2>5. HasRoom(u)
      <3>1. Records(u) \subseteq Records(t)
        BY <1>2, <2>2 DEF Records
      <3>2. Cardinality(Records(t)) < u.cap
        BY <1>1, <1>2
      <3> QED
        BY <1>1, <1>2, <3>1, <3>2, RoomIf
    <2>6. /\ IsTable(TablePut(u, r)) /\ Reached(TablePut(u, r), -1)
          /\ TablePut(u, r).cap = u.cap /\ TablePut(u, r).len = u.len
          /\ Records(TablePut(u, r)) = Records(u) \cup {r}
      BY <1>2, <2>3, <2>4, <2>5, PutKeeps
    <2>7. Records(u) \cup {r} = {t.slots[i] : i \in 0 .. (n + 1) - 1} \ {Empty}
      BY <1>2, <1>3, <1>5, <2>1
    <2>8. u.cap = (IF t.cap = 0 THEN TableMinCap ELSE 2 * t.cap)
      BY DEF Rehashed
    <2>9. Rehashed(t, TablePut(u, r), n + 1)
      BY <1>2, <2>6, <2>7, <2>8 DEF Rehashed
    <2> QED
      BY <1>5, <2>1, <2>9
  <1> QED
    BY <1>4, <1>5

\* A grown table has the records it had.
LEMMA GrownIs ==
    ASSUME NEW t, Sound(t)
    PROVE  Rehashed(t, TableGrown(t), t.cap)
  <1>1. t.cap \in Nat /\ t.len \in Nat
    BY SoundIs
  <1> DEFINE f == CHOOSE f : Grows(f, t.cap, t)
             T == {n \in Nat : n <= t.cap /\ ~Rehashed(t, f[n], n)}
  <1>2. Grows(f, t.cap, t)
    BY <1>1, GrowsExists
  <1>3. TableGrown(t) = f[t.cap]
    BY DEF TableGrown, Grows
  <1> HIDE DEF f
  <1>4. \A n \in 0 .. t.cap : f[n] = IF n = 0 THEN Bare(t)
                                     ELSE IF t.slots[n - 1] = Empty THEN f[n - 1]
                                     ELSE TablePut(f[n - 1], t.slots[n - 1])
    BY <1>2 DEF Grows
  <1>5. T = {}
    <2>1. SUFFICES ASSUME T # {} PROVE FALSE
      OBVIOUS
    <2>2. PICK n \in T : \A m \in T : n <= m
      BY <2>1, LeastNat
    <2>3. n \in 0 .. t.cap /\ ~Rehashed(t, f[n], n)
      BY <1>1
    <2>4. n # 0
      BY <1>1, <1>4, <2>3, BareIs
    <2>5. PICK m \in Nat : n = m + 1 /\ m = n - 1 /\ m \in 0 .. t.cap - 1
      BY <1>1, <2>3, <2>4
    <2>6. Rehashed(t, f[m], m) /\ t.cap # 0
      BY <1>1, <2>2, <2>5
    <2>7. PICK u : u = f[m]
      OBVIOUS
    <2>8. f[n] = IF t.slots[m] = Empty THEN u ELSE TablePut(u, t.slots[m])
      BY <1>4, <2>3, <2>4, <2>5, <2>7
    <2>9. Rehashed(t, f[n], m + 1)
      BY <2>5, <2>6, <2>7, <2>8, RehashStep
    <2> QED
      BY <2>3, <2>5, <2>9
  <1>6. Rehashed(t, f[t.cap], t.cap)
    BY <1>1, <1>5
  <1> QED
    BY <1>3, <1>6

\* A new record is added, after growth when the table has no room for it, and nothing else
\* changes.
LEMMA InsertIs ==
    ASSUME NEW t, Sound(t), NEW r \in BlockRecord, \A x \in Records(t) : x.addr # r.addr,
           NEW grows \in BOOLEAN, NEW v \in TableInsert(t, r, grows)
    PROVE  Sound(v) /\ Records(v) = Records(t) \cup {r}
  <1>1. /\ t.cap \in Nat /\ t.len \in Nat /\ IsFiniteSet(Records(t)) /\ t.len = Cardinality(Records(t))
        /\ 2 * t.len <= t.cap /\ Records(t) \subseteq BlockRecord
    BY SoundIs
  <1>2. PICK u : u = IF TableFull(t) THEN TableGrown(t) ELSE t
    OBVIOUS
  <1>3. v = [TablePut(u, r) EXCEPT !.len = @ + 1]
    BY <1>2 DEF TableInsert
  <1>4. /\ IsTable(u) /\ Reached(u, -1) /\ Records(u) = Records(t) /\ u.len = t.len
        /\ 2 * (u.len + 1) <= u.cap
    <2>1. CASE ~TableFull(t)
      <3>1. 2 * (t.len + 1) <= t.cap /\ t.cap # 0
        BY <1>1, <2>1 DEF TableFull
      <3> QED
        BY <1>2, <2>1, <3>1, SoundIs
    <2>2. CASE TableFull(t)
      <3>1. Rehashed(t, u, t.cap)
        BY <1>2, <2>2, GrownIs
      <3>2. {t.slots[i] : i \in 0 .. t.cap - 1} \ {Empty} = Records(t)
        BY DEF Records, Slots
      <3>3. 2 * (t.len + 1) <= u.cap
        <4>1. CASE t.cap = 0
          BY <1>1, <3>1, <4>1, TableAssumption DEF Rehashed
        <4>2. CASE t.cap # 0
          <5>1. u.cap = 2 * t.cap
            BY <3>1, <4>2 DEF Rehashed
          <5> QED
            BY <1>1, <4>2, <5>1
        <4> QED
          BY <4>1, <4>2
      <3> QED
        BY <3>1, <3>2, <3>3 DEF Rehashed
    <2> QED
      BY <2>1, <2>2
  <1>5. HasRoom(u)
    <2>1. u.cap \in Nat
      BY <1>4 DEF IsTable
    <2>2. Cardinality(Records(t)) < u.cap
      BY <1>1, <1>4, <2>1
    <2> QED
      BY <1>1, <1>4, <2>2, RoomIf
  <1>6. NoneAt(u, r.addr)
    BY <1>4 DEF NoneAt, Records
  <1>7. PICK w : w = TablePut(u, r)
    OBVIOUS
  <1>8. /\ IsTable(w) /\ Reached(w, -1) /\ w.cap = u.cap /\ w.len = u.len
        /\ Records(w) = Records(u) \cup {r}
    BY <1>4, <1>5, <1>6, <1>7, PutKeeps
  <1>9. /\ v = [slots |-> w.slots, cap |-> w.cap, len |-> w.len + 1]
        /\ v.slots = w.slots /\ v.cap = w.cap /\ v.len = w.len + 1
    BY <1>3, <1>7, <1>8 DEF IsTable
  <1>10. IsTable(v) /\ Reached(v, -1) /\ Records(v) = Records(w)
    <2>1. IsTable(v)
      BY <1>8, <1>9 DEF IsTable
    <2>2. \A i : HomeOf(v, i) = HomeOf(w, i)
      BY <1>9 DEF HomeOf, TableHome
    <2>3. Reached(v, -1)
      BY <1>8, <1>9, <2>2 DEF Reached
    <2> QED
      BY <1>9, <2>1, <2>3 DEF Records
  <1>11. IsFiniteSet(Records(v)) /\ v.len = Cardinality(Records(v))
    <2>1. r \notin Records(t)
      OBVIOUS
    <2>2. IsFiniteSet(Records(t) \cup {r}) /\ Cardinality(Records(t) \cup {r}) = Cardinality(Records(t)) + 1
      BY <1>1, <2>1, FS_AddElement
    <2>3. Records(v) = Records(t) \cup {r}
      BY <1>4, <1>8, <1>10
    <2> QED
      BY <1>1, <1>4, <1>8, <1>9, <2>2, <2>3
  <1>12. 2 * v.len <= v.cap
    BY <1>4, <1>8, <1>9
  <1> QED
    BY <1>4, <1>8, <1>10, <1>11, <1>12 DEF Sound

-----------------------------------------------------------------------------
(* The backward shift.                                                      *)

\* What lies on the way from one slot of a ring to another.
LEMMA Around ==
    ASSUME NEW n \in Nat \ {0}, NEW k \in Slots(n), NEW m \in Slots(n), NEW h \in Slots(n),
           NEW i \in Slots(n), NEW j \in Slots(n)
    PROVE  /\ (i - h) % n = Ahead(h, i, n)
           /\ Ahead(k, i, n) \in 0 .. n - 1
           /\ Ahead(k, i, n) = Ahead(k, h, n) => i = h
           /\ Ahead(k, h, n) < Ahead(k, i, n) /\ Ahead(k, i, n) < Ahead(k, j, n)
                 /\ Ahead(m, h, n) < Ahead(m, j, n) => Ahead(m, i, n) < Ahead(m, j, n)
           /\ Ahead(k, j, n) < Ahead(k, h, n) /\ Ahead(k, h, n) < Ahead(k, i, n)
                 /\ Ahead(m, h, n) < Ahead(m, j, n) => Ahead(m, i, n) < Ahead(m, j, n)
           /\ h # i => (Ahead(m, i, n) >= Ahead(h, i, n) <=> Ahead(m, h, n) < Ahead(m, i, n))
  <1>1. n \in Int /\ k \in 0 .. n - 1 /\ m \in 0 .. n - 1 /\ h \in 0 .. n - 1 /\ i \in 0 .. n - 1
        /\ j \in 0 .. n - 1
    BY DEF Slots
  <1>2. (i - h) % n = Ahead(h, i, n)
    <2>1. PICK s \in Int : /\ s = i - h /\ -n <= s /\ s < 2 * n
                            /\ s < n /\ (s < 0 <=> ~(i >= h))
      BY <1>1
    <2>2. (s < 0 => s % n = s + n) /\ (~(s < 0) => s % n = IF s < n THEN s ELSE s - n)
      BY <2>1, RingMod, Zenon
    <2> QED
      BY <1>1, <2>1, <2>2 DEF Ahead
  <1>3. Ahead(k, i, n) \in 0 .. n - 1 /\ (Ahead(k, i, n) = Ahead(k, h, n) => i = h)
    BY <1>1 DEF Ahead
  <1>4. Ahead(k, h, n) < Ahead(k, i, n) /\ Ahead(k, i, n) < Ahead(k, j, n)
           /\ Ahead(m, h, n) < Ahead(m, j, n) => Ahead(m, i, n) < Ahead(m, j, n)
    BY <1>1, SMTT(30) DEF Ahead
  <1>5. Ahead(k, j, n) < Ahead(k, h, n) /\ Ahead(k, h, n) < Ahead(k, i, n)
           /\ Ahead(m, h, n) < Ahead(m, j, n) => Ahead(m, i, n) < Ahead(m, j, n)
    BY <1>1, SMTT(30) DEF Ahead
  <1>6. h # i => (Ahead(m, i, n) >= Ahead(h, i, n) <=> Ahead(m, h, n) < Ahead(m, i, n))
    BY <1>1, SMTT(30) DEF Ahead
  <1> QED
    BY <1>2, <1>3, <1>4, <1>5, <1>6

\* a probe for the record in slot i passes x
Passes(t, i, x) == Ahead(HomeOf(t, i), x, t.cap) < Ahead(HomeOf(t, i), i, t.cap)

\* The shift, d steps above the slot k of the record taken from t: every record is reached but
\* for the hole, the hole is not on the way to a record below that step, and an empty slot
\* is still to come.
Shifting(s, t, k, d) ==
    /\ s = [t |-> s.t, hole |-> s.hole, done |-> s.done] /\ s.done \in BOOLEAN
    /\ IsTable(s.t) /\ s.t.cap = t.cap /\ s.t.len = t.len /\ Records(s.t) = Records(t)
    /\ s.done => Reached(s.t, -1)
    /\ ~s.done =>
          /\ s.hole \in Slots(t.cap) /\ s.t.slots[s.hole] = Empty
          /\ Reached(s.t, s.hole) /\ Ahead(k, s.hole, t.cap) <= d
          /\ \E e \in Slots(t.cap) : s.t.slots[e] = Empty /\ Ahead(k, e, t.cap) > d
          /\ \A j \in Slots(t.cap) :
                s.t.slots[j] # Empty /\ Ahead(k, j, t.cap) <= d => ~Passes(s.t, j, s.hole)

\* The hole is filled from slot i, and the hole is there.
LEMMA MovedIs ==
    ASSUME NEW t, IsTable(t), NEW i \in Slots(t.cap), NEW h \in Slots(t.cap), h # i,
           t.slots[i] # Empty, t.slots[h] = Empty
    PROVE  LET u == Moved(t, i, h)
           IN  /\ IsTable(u) /\ u.cap = t.cap /\ u.len = t.len /\ Records(u) = Records(t)
               /\ u.slots[h] = t.slots[i] /\ u.slots[i] = Empty
               /\ \A x \in Slots(t.cap) : x # h /\ x # i => u.slots[x] = t.slots[x]
  <1>1. PICK n, r : n = t.cap /\ r = t.slots[i] /\ r \in BlockRecord /\ n \in Nat \ {0}
    BY DEF IsTable
  <1>2. PICK u : u = Filled(Filled(t, h, r), i, Empty)
    OBVIOUS
  <1>3. PICK w : w = Filled(t, h, r)
    OBVIOUS
  <1>4. w = [slots |-> w.slots, cap |-> n, len |-> t.len] /\ w.cap = n /\ w.len = t.len
        /\ w.slots = [t.slots EXCEPT ![h] = r]
    BY <1>1, <1>3 DEF Filled, IsTable
  <1>5. /\ u = [slots |-> u.slots, cap |-> n, len |-> t.len] /\ u.cap = n /\ u.len = t.len
        /\ u.slots = [w.slots EXCEPT ![i] = Empty]
    <2>1. PICK k : k = [w.slots EXCEPT ![i] = Empty]
      OBVIOUS
    <2>2. u = [w EXCEPT !.slots = k]
      BY <1>2, <1>3, <2>1 DEF Filled
    <2>3. u = [slots |-> k, cap |-> n, len |-> t.len]
      BY <1>4, <2>2
    <2> QED
      BY <2>1, <2>3
  <1>6. Moved(t, i, h) = u
    <2>1. PICK k, l : k = [t.slots EXCEPT ![h] = r] /\ l = t.len
      OBVIOUS
    <2>2. t = [slots |-> t.slots, cap |-> n, len |-> l]
      BY <1>1, <2>1 DEF IsTable
    <2>3. Moved(t, i, h) = [slots |-> [k EXCEPT ![i] = Empty], cap |-> n, len |-> l]
      <3>1. PICK v : v = [t EXCEPT !.slots = k]
        OBVIOUS
      <3>2. v = [slots |-> k, cap |-> n, len |-> l] /\ v.slots = k
        BY <2>2, <3>1
      <3>3. Moved(t, i, h) = [v EXCEPT !.slots[i] = Empty]
        BY <1>1, <2>1, <3>1 DEF Moved
      <3>4. [v EXCEPT !.slots[i] = Empty] = [v EXCEPT !.slots = [k EXCEPT ![i] = Empty]]
        BY <3>2
      <3> QED
        BY <3>2, <3>3, <3>4
    <2> QED
      BY <1>4, <1>5, <2>1, <2>3
  <1>7. /\ w.slots \in [Slots(n) -> BlockRecord \cup {Empty}]
        /\ w.slots[h] = r /\ \A x \in Slots(n) : x # h => w.slots[x] = t.slots[x]
    BY <1>1, <1>4 DEF IsTable
  <1>8. /\ u.slots \in [Slots(n) -> BlockRecord \cup {Empty}] /\ u.slots[i] = Empty
        /\ \A x \in Slots(n) : x # i => u.slots[x] = w.slots[x]
    BY <1>1, <1>5, <1>7
  <1>9. /\ u.slots[h] = r /\ \A x \in Slots(n) : x # h /\ x # i => u.slots[x] = t.slots[x]
    BY <1>1, <1>7, <1>8
  <1>10. ASSUME NEW x \in Slots(n), NEW y \in Slots(n), u.slots[x] # Empty, u.slots[y] # Empty,
                u.slots[x].addr = u.slots[y].addr
         PROVE  x = y
    <2>1. x # i /\ y # i
      BY <1>8, <1>10
    <2>2. CASE x = h /\ y # h
      BY <1>1, <1>9, <1>10, <2>1, <2>2 DEF IsTable
    <2>3. CASE x # h /\ y = h
      BY <1>1, <1>9, <1>10, <2>1, <2>3 DEF IsTable
    <2>4. CASE x # h /\ y # h
      BY <1>1, <1>9, <1>10, <2>1, <2>4 DEF IsTable
    <2> QED
      BY <2>2, <2>3, <2>4
  <1>11. IsTable(u)
    BY <1>1, <1>5, <1>8, <1>10 DEF IsTable
  <1>12. Records(u) = Records(t)
    BY <1>1, <1>5, <1>8, <1>9 DEF Records
  <1> QED
    BY <1>1, <1>5, <1>6, <1>8, <1>9, <1>11, <1>12

\* One step up the run.
LEMMA ShiftStepKeeps ==
    ASSUME NEW t, t.cap \in Nat \ {0}, NEW k \in Slots(t.cap), NEW d \in 0 .. t.cap - 2,
           NEW s, Shifting(s, t, k, d)
    PROVE  Shifting(ShiftStep(s, (k + (d + 1)) % t.cap), t, k, d + 1)
  <1>1. PICK n, i : n = t.cap /\ i = (k + (d + 1)) % n
    OBVIOUS
  <1>2. n \in Nat \ {0} /\ k \in Slots(n) /\ d \in Nat /\ d + 1 \in Nat /\ d + 1 \in Slots(n)
    BY <1>1 DEF Slots
  <1>3. i \in Slots(n) /\ Ahead(k, i, n) = d + 1
    BY <1>1, <1>2, AheadIs
  <1>4. /\ s = [t |-> s.t, hole |-> s.hole, done |-> s.done] /\ s.done \in BOOLEAN
        /\ IsTable(s.t) /\ s.t.cap = n /\ s.t.len = t.len /\ Records(s.t) = Records(t)
    BY <1>1 DEF Shifting
  <1>5. PICK u, h : u = s.t /\ h = s.hole
    OBVIOUS
  <1>6. CASE s.done
    <2>1. ShiftStep(s, i) = s
      BY <1>4, <1>6 DEF ShiftStep
    <2> QED
      BY <1>1, <1>6, <2>1 DEF Shifting
  <1>7. ASSUME ~s.done
        PROVE  /\ h \in Slots(n) /\ u.slots[h] = Empty
               /\ Reached(u, h) /\ Ahead(k, h, n) <= d
               /\ \E e \in Slots(n) : u.slots[e] = Empty /\ Ahead(k, e, n) > d
               /\ \A j \in Slots(n) : u.slots[j] # Empty /\ Ahead(k, j, n) <= d => ~Passes(u, j, h)
               /\ h # i
    BY <1>1, <1>2, <1>3, <1>5, <1>7 DEF Shifting
  <1>8. CASE ~s.done /\ u.slots[i] = Empty
    <2>1. PICK v : v = [s EXCEPT !.done = TRUE]
      OBVIOUS
    <2>2. ShiftStep(s, i) = v
      BY <1>5, <1>8, <2>1 DEF ShiftStep
    <2>3. v = [t |-> v.t, hole |-> v.hole, done |-> v.done] /\ v.t = u /\ v.done = TRUE
      BY <1>4, <1>5, <2>1
    <2>4. Reached(u, -1)
      <3>1. SUFFICES ASSUME NEW j \in Slots(n), NEW x \in Slots(n), u.slots[j] # Empty,
                            Passes(u, j, x), u.slots[x] = Empty
                     PROVE  FALSE
        BY <1>4, <1>5 DEF Reached, Passes
      <3>2. x = h
        BY <1>4, <1>5, <1>7, <1>8, <3>1 DEF Reached, Passes
      <3>3. Ahead(k, j, n) > d
        <4>1. Ahead(k, j, n) \in Int
          BY <1>2, Around
        <4>2. ~(Ahead(k, j, n) <= d)
          BY <1>7, <1>8, <3>1, <3>2
        <4> QED
          BY <1>2, <4>1, <4>2
      <3>4. HomeOf(u, j) \in Slots(n)
        BY <1>4, <1>5, <3>1, HomeOfIn
      <3>5. j # i
        BY <1>8, <3>1
      <3>6. Ahead(k, j, n) \in Int /\ Ahead(k, j, n) # d + 1
        BY <1>2, <1>3, <3>5, Around
      <3>7. Ahead(k, h, n) < Ahead(k, i, n) /\ Ahead(k, i, n) < Ahead(k, j, n)
        <4>1. Ahead(k, h, n) \in Int
          BY <1>2, <1>7, <1>8, Around
        <4> QED
          BY <1>2, <1>3, <1>7, <1>8, <3>3, <3>6, <4>1
      <3>8. Passes(u, j, i)
        BY <1>2, <1>3, <1>4, <1>5, <1>7, <1>8, <3>1, <3>2, <3>4, <3>7, Around DEF Passes
      <3> QED
        BY <1>3, <1>4, <1>5, <1>7, <1>8, <3>1, <3>8 DEF Reached, Passes
    <2> QED
      BY <1>1, <1>4, <1>5, <2>2, <2>3, <2>4 DEF Shifting
  <1>9. CASE ~s.done /\ u.slots[i] # Empty
    <2>1. PICK m : m = HomeOf(u, i) /\ m \in Slots(n)
      BY <1>3, <1>4, <1>5, <1>9, HomeOfIn
    <2>2. MovesBack(u, i, h) <=> Passes(u, i, h)
      <3>1. /\ (i - m) % n = Ahead(m, i, n) /\ (i - h) % n = Ahead(h, i, n)
            /\ Ahead(m, i, n) >= Ahead(h, i, n) <=> Ahead(m, h, n) < Ahead(m, i, n)
        BY <1>2, <1>3, <1>7, <1>9, <2>1, Around
      <3> QED
        BY <1>4, <1>5, <2>1, <3>1 DEF MovesBack, Passes, HomeOf
    <2>3. PICK e \in Slots(n) : u.slots[e] = Empty /\ Ahead(k, e, n) > d
      BY <1>7, <1>9
    <2>4. Ahead(k, e, n) > d + 1 /\ e # i /\ e # h /\ Ahead(k, e, n) \in Int
      <3>1. e # i /\ Ahead(k, e, n) \in Int /\ Ahead(k, h, n) \in Int
        BY <1>2, <1>7, <1>9, <2>3, Around
      <3>2. Ahead(k, e, n) # d + 1
        BY <1>2, <1>3, <2>3, <3>1, Around
      <3> QED
        BY <1>2, <1>7, <1>9, <2>3, <3>1, <3>2
    <2>5. CASE ~MovesBack(u, i, h)
      <3>1. ShiftStep(s, i) = s
        BY <1>5, <1>9, <2>5 DEF ShiftStep
      <3>2. \A j \in Slots(n) : u.slots[j] # Empty /\ Ahead(k, j, n) <= d + 1 => ~Passes(u, j, h)
        <4>1. SUFFICES ASSUME NEW j \in Slots(n), u.slots[j] # Empty, Ahead(k, j, n) <= d + 1
                       PROVE  ~Passes(u, j, h)
          OBVIOUS
        <4>2. CASE j = i
          BY <2>2, <2>5, <4>2
        <4>3. CASE j # i
          <5>1. Ahead(k, j, n) \in Int /\ Ahead(k, j, n) # d + 1
            BY <1>2, <1>3, <4>3, Around
          <5> QED
            BY <1>2, <1>7, <1>9, <4>1, <5>1
        <4> QED
          BY <4>2, <4>3
      <3>3. Ahead(k, h, n) <= d + 1
        <4>1. Ahead(k, h, n) \in Int
          BY <1>2, <1>7, <1>9, Around
        <4> QED
          BY <1>2, <1>7, <1>9, <4>1
      <3> QED
        BY <1>1, <1>4, <1>5, <1>7, <1>9, <2>3, <2>4, <3>1, <3>2, <3>3 DEF Shifting
    <2>6. CASE MovesBack(u, i, h)
      <3>1. PICK w : w = Moved(u, i, h)
        OBVIOUS
      <3>2. /\ IsTable(w) /\ w.cap = n /\ w.len = t.len /\ Records(w) = Records(t)
            /\ w.slots[h] = u.slots[i] /\ w.slots[i] = Empty
            /\ \A x \in Slots(n) : x # h /\ x # i => w.slots[x] = u.slots[x]
        BY <1>3, <1>4, <1>5, <1>7, <1>9, <3>1, MovedIs
      <3>3. PICK v : v = [t |-> w, hole |-> i, done |-> FALSE]
        OBVIOUS
      <3>4. ShiftStep(s, i) = v
        BY <1>5, <1>9, <2>6, <3>1, <3>3 DEF ShiftStep
      <3>5. HomeOf(w, h) = m /\ \A x \in Slots(n) : x # h /\ x # i => HomeOf(w, x) = HomeOf(u, x)
        BY <1>4, <1>5, <2>1, <3>2 DEF HomeOf, TableHome
      <3>6. Passes(u, i, h)
        BY <2>2, <2>6
      <3>7. ASSUME NEW x \in Slots(n), Passes(w, h, x)
            PROVE  Passes(u, i, x) /\ x # h /\ x # i
        <4>1. /\ Ahead(m, x, n) < Ahead(m, h, n) /\ Ahead(m, h, n) < Ahead(m, i, n)
              /\ Ahead(m, x, n) \in Int /\ Ahead(m, h, n) \in Int /\ Ahead(m, i, n) \in Int
          BY <1>2, <1>3, <1>4, <1>5, <1>7, <1>9, <2>1, <3>2, <3>5, <3>6, <3>7, Around DEF Passes
        <4>2. Ahead(m, x, n) < Ahead(m, i, n)
          BY <4>1
        <4> QED
          BY <1>4, <1>5, <2>1, <4>1, <4>2 DEF Passes
      <3>8. Reached(w, i)
        <4>1. SUFFICES ASSUME NEW j \in Slots(n), NEW x \in Slots(n), w.slots[j] # Empty,
                              Passes(w, j, x), w.slots[x] = Empty, x # i
                       PROVE  FALSE
          BY <3>2 DEF Reached, Passes
        <4>2. j # i
          BY <3>2, <4>1
        <4>3. x # h /\ u.slots[x] = Empty
          BY <1>9, <3>2, <4>1
        <4>4. CASE j = h
          <5>1. Passes(u, i, x)
            BY <3>7, <4>1, <4>4
          <5> QED
            BY <1>3, <1>4, <1>5, <1>7, <1>9, <4>1, <4>3, <5>1 DEF Reached, Passes
        <4>5. CASE j # h
          <5>1. Passes(u, j, x) /\ u.slots[j] # Empty
            BY <1>4, <1>5, <3>2, <3>5, <4>1, <4>2, <4>5 DEF Passes
          <5> QED
            BY <1>4, <1>5, <1>7, <1>9, <4>1, <4>3, <5>1 DEF Reached, Passes
        <4> QED
          BY <4>4, <4>5
      <3>9. ASSUME NEW j \in Slots(n), w.slots[j] # Empty, Ahead(k, j, n) <= d + 1, Passes(w, j, i)
            PROVE  FALSE
        <4>1. j # i
          BY <3>2, <3>9
        <4>2. CASE j = h
          BY <1>3, <3>7, <3>9, <4>2
        <4>3. CASE j # h
          <5>1. Passes(u, j, i) /\ u.slots[j] # Empty
            BY <1>4, <1>5, <3>2, <3>5, <3>9, <4>1, <4>3 DEF Passes
          <5>2. HomeOf(u, j) \in Slots(n)
            BY <1>4, <1>5, <5>1, HomeOfIn
          <5>3. Ahead(k, j, n) \in Int /\ Ahead(k, j, n) # d + 1
            BY <1>2, <1>3, <4>1, Around
          <5>4. Ahead(k, j, n) < Ahead(k, i, n) /\ Ahead(k, i, n) < Ahead(k, e, n)
            BY <1>2, <1>3, <2>4, <3>9, <5>3
          <5>5. Passes(u, j, e)
            BY <1>2, <1>3, <1>4, <1>5, <2>3, <3>9, <5>1, <5>2, <5>4, Around DEF Passes
          <5> QED
            BY <1>4, <1>5, <1>7, <1>9, <2>3, <2>4, <5>1, <5>5 DEF Reached, Passes
        <4> QED
          BY <4>2, <4>3
      <3>10. w.slots[e] = Empty
        BY <2>3, <2>4, <3>2
      <3>11. v = [t |-> v.t, hole |-> v.hole, done |-> v.done] /\ v.t = w /\ v.hole = i /\ v.done = FALSE
        BY <3>3
      <3>12. Ahead(k, i, n) <= d + 1 /\ w.slots[i] = Empty /\ i \in Slots(n)
        BY <1>2, <1>3, <3>2
      <3>13. \E c \in Slots(n) : w.slots[c] = Empty /\ Ahead(k, c, n) > d + 1
        BY <2>3, <2>4, <3>10
      <3>14. \A j \in Slots(n) : w.slots[j] # Empty /\ Ahead(k, j, n) <= d + 1 => ~Passes(w, j, i)
        BY <3>9
      <3>15. Shifting(v, t, k, d + 1)
        BY <1>1, <3>2, <3>8, <3>11, <3>12, <3>13, <3>14 DEF Shifting
      <3> QED
        BY <1>1, <3>4, <3>15
    <2> QED
      BY <2>5, <2>6
  <1> QED
    BY <1>1, <1>4, <1>5, <1>6, <1>8, <1>9

\* The walk of ShiftBack, up to n steps from the hole.
Shifts(f, n, t, hole) ==
    f = [d \in Slots(n) |-> IF d = 0 THEN [t |-> t, hole |-> hole, done |-> FALSE]
                            ELSE ShiftStep(f[d - 1], (hole + d) % t.cap)]

LEMMA ShiftsExists ==
    ASSUME NEW t, NEW hole, NEW k \in Nat
    PROVE  \E f : Shifts(f, k, t, hole)
  <1> DEFINE T == {n \in Nat : ~ \E f : Shifts(f, n, t, hole)}
             First == [t |-> t, hole |-> hole, done |-> FALSE]
             Next1(s, d) == ShiftStep(s, (hole + d) % t.cap)
  <1>1. SUFFICES ASSUME T # {} PROVE FALSE
    OBVIOUS
  <1>2. PICK n \in T : \A m \in T : n <= m
    BY <1>1, LeastNat
  <1>3. n # 0
    <2>1. PICK f : f = [d \in Slots(0) |-> First]
      OBVIOUS
    <2> HIDE DEF T, First, Next1
    <2>2. Slots(0) = {}
      BY DEF Slots
    <2>3. f = [d \in Slots(0) |-> IF d = 0 THEN First ELSE Next1(f[d - 1], d)]
      BY <2>1, <2>2
    <2>4. Shifts(f, 0, t, hole)
      BY <2>3 DEF Shifts, First, Next1
    <2> QED
      BY <2>4 DEF T
  <1>4. PICK f : Shifts(f, n - 1, t, hole)
    <2>1. n - 1 \in Nat /\ ~(n <= n - 1)
      BY <1>3
    <2> QED
      BY <1>2, <2>1
  <1>5. f = [d \in Slots(n - 1) |-> IF d = 0 THEN First ELSE Next1(f[d - 1], d)]
    BY <1>4 DEF Shifts
  <1> HIDE DEF Next1, First
  <1> DEFINE g == [d \in Slots(n) |-> IF d < n - 1 THEN f[d]
                                      ELSE IF d = 0 THEN First ELSE Next1(f[d - 1], d)]
  <1>6. n \in Nat \ {0} /\ Slots(n) = 0 .. n - 1 /\ Slots(n - 1) = 0 .. n - 2
    BY <1>3 DEF Slots
  <1>7. \A d \in Slots(n - 1) : g[d] = f[d]
    BY <1>6
  <1>8. ASSUME NEW d \in Slots(n)
        PROVE  g[d] = IF d = 0 THEN First ELSE Next1(g[d - 1], d)
    <2>1. d # 0 => d - 1 \in Slots(n - 1)
      BY <1>6
    <2>2. CASE d = n - 1
      <3>1. g[d] = IF d = 0 THEN First ELSE Next1(f[d - 1], d)
        BY <1>6, <2>2
      <3> HIDE DEF g
      <3> QED
        BY <1>7, <2>1, <3>1
    <2>3. CASE d # n - 1
      <3>1. d \in Slots(n - 1)
        BY <1>6, <2>3
      <3>2. f[d] = IF d = 0 THEN First ELSE Next1(f[d - 1], d)
        BY <1>5, <3>1
      <3> HIDE DEF g
      <3> QED
        BY <1>7, <2>1, <3>1, <3>2
    <2> QED
      BY <2>2, <2>3
  <1>9. g = [d \in Slots(n) |-> g[d]]
    OBVIOUS
  <1> HIDE DEF g
  <1>10. g = [d \in Slots(n) |-> IF d = 0 THEN First ELSE Next1(g[d - 1], d)]
    BY <1>8, <1>9
  <1>11. Shifts(g, n, t, hole)
    BY <1>10 DEF Shifts, Next1, First
  <1> QED
    BY <1>2, <1>11

\* Once around, every record is reached again.
LEMMA ShiftBackKeeps ==
    ASSUME NEW t, t.cap \in Nat \ {0}, NEW k \in Slots(t.cap),
           Shifting([t |-> t, hole |-> k, done |-> FALSE], t, k, 0)
    PROVE  LET u == ShiftBack(t, k)
           IN  IsTable(u) /\ Reached(u, -1) /\ Records(u) = Records(t) /\ u.cap = t.cap /\ u.len = t.len
  <1> DEFINE f == CHOOSE f : Shifts(f, t.cap, t, k)
             T == {d \in Nat : d < t.cap /\ ~Shifting(f[d], t, k, d)}
  <1>1. Shifts(f, t.cap, t, k)
    BY ShiftsExists
  <1>2. ShiftBack(t, k) = f[t.cap - 1].t
    BY DEF ShiftBack, Shifts
  <1> HIDE DEF f
  <1>3. \A d \in Slots(t.cap) : f[d] = IF d = 0 THEN [t |-> t, hole |-> k, done |-> FALSE]
                                       ELSE ShiftStep(f[d - 1], (k + d) % t.cap)
    BY <1>1 DEF Shifts
  <1>4. T = {}
    <2>1. SUFFICES ASSUME T # {} PROVE FALSE
      OBVIOUS
    <2>2. PICK d \in T : \A m \in T : d <= m
      BY <2>1, LeastNat
    <2>3. d \in Slots(t.cap) /\ d \in Nat /\ d < t.cap /\ ~Shifting(f[d], t, k, d)
      BY DEF Slots
    <2>4. d # 0
      <3>1. 0 \in Slots(t.cap)
        BY DEF Slots
      <3>2. f[0] = [t |-> t, hole |-> k, done |-> FALSE]
        BY <1>3, <3>1
      <3> QED
        BY <2>3, <3>2
    <2>5. PICK c \in Nat : d = c + 1 /\ c = d - 1 /\ c \in 0 .. t.cap - 2
      BY <2>3, <2>4
    <2>6. Shifting(f[c], t, k, c)
      BY <2>2, <2>3, <2>5
    <2>7. PICK s : s = f[c]
      OBVIOUS
    <2>8. f[d] = ShiftStep(s, (k + (c + 1)) % t.cap)
      BY <1>3, <2>3, <2>4, <2>5, <2>7
    <2>9. Shifting(f[d], t, k, c + 1)
      BY <2>5, <2>6, <2>7, <2>8, ShiftStepKeeps
    <2> QED
      BY <2>3, <2>5, <2>9
  <1>5. t.cap - 1 \in Nat /\ t.cap - 1 < t.cap /\ t.cap - 1 \in Int
    OBVIOUS
  <1>6. PICK d, s : d = t.cap - 1 /\ s = f[d] /\ Shifting(s, t, k, d)
    BY <1>4, <1>5
  <1>7. s.done
    <2>1. SUFFICES ASSUME ~s.done PROVE FALSE
      OBVIOUS
    <2>2. PICK e \in Slots(t.cap) : Ahead(k, e, t.cap) > d
      BY <1>6, <2>1 DEF Shifting
    <2>3. Ahead(k, e, t.cap) \in 0 .. t.cap - 1
      BY Around
    <2> QED
      BY <1>6, <2>2, <2>3
  <1>8. ShiftBack(t, k) = s.t
    BY <1>2, <1>6
  <1> QED
    BY <1>6, <1>7, <1>8 DEF Shifting

\* The record of an address is taken, and every other one is still found.
LEMMA TakeIs ==
    ASSUME NEW t, Sound(t), NEW r \in Records(t)
    PROVE  Sound(TableTake(t, r.addr)) /\ Records(TableTake(t, r.addr)) = Records(t) \ {r}
  <1>1. /\ IsFiniteSet(Records(t)) /\ t.len = Cardinality(Records(t)) /\ t.len \in Nat
        /\ 2 * t.len <= t.cap /\ r \in BlockRecord /\ r # Empty /\ r.addr \in Addrs
    BY SoundIs, RecordIs
  <1>2. t.cap # 0
    BY NewTableIs, SoundIs
  <1>3. IsTable(t) /\ Reached(t, -1) /\ HasRoom(t) /\ t.cap \in Nat \ {0}
    BY <1>2, SoundIs
  <1>4. PICK n, k : n = t.cap /\ k \in Slots(n) /\ t.slots[k] = r
    BY DEF Records
  <1>5. TableProbe(t, r.addr) = k
    BY <1>1, <1>3, <1>4, ProbeFinds
  <1>6. PICK u : u = [t EXCEPT !.slots[k] = Empty, !.len = @ - 1]
    OBVIOUS
  <1>7. TableTake(t, r.addr) = ShiftBack(u, k)
    BY <1>5, <1>6 DEF TableTake
  <1>8. /\ u = [slots |-> u.slots, cap |-> n, len |-> t.len - 1] /\ u.cap = n /\ u.len = t.len - 1
        /\ u.slots = [t.slots EXCEPT ![k] = Empty]
    BY <1>3, <1>4, <1>6 DEF IsTable
  <1>9. /\ u.slots \in [Slots(n) -> BlockRecord \cup {Empty}]
        /\ u.slots[k] = Empty /\ \A x \in Slots(n) : x # k => u.slots[x] = t.slots[x]
    BY <1>3, <1>4, <1>8 DEF IsTable
  <1>10. IsTable(u)
    BY <1>3, <1>4, <1>8, <1>9 DEF IsTable
  <1>11. \A x \in Slots(n) : x # k => HomeOf(u, x) = HomeOf(t, x)
    BY <1>4, <1>8, <1>9 DEF HomeOf, TableHome
  <1>12. Reached(u, k)
    <2>1. SUFFICES ASSUME NEW i \in Slots(n), NEW x \in Slots(n), u.slots[i] # Empty,
                          Passes(u, i, x), u.slots[x] = Empty, x # k
                   PROVE  FALSE
      BY <1>8 DEF Reached, Passes
    <2>2. i # k /\ t.slots[i] # Empty /\ t.slots[x] = Empty
      BY <1>9, <2>1
    <2>3. Passes(t, i, x) /\ x # -1
      BY <1>4, <1>8, <1>11, <2>1, <2>2 DEF Passes, Slots
    <2> QED
      BY <1>3, <1>4, <2>2, <2>3 DEF Reached, Passes
  <1>13. Records(u) = Records(t) \ {r}
    <2>1. ASSUME NEW x \in Slots(n), x # k, t.slots[x] # Empty PROVE t.slots[x] # r
      BY <1>1, <1>3, <1>4, <2>1 DEF IsTable
    <2> QED
      BY <1>4, <1>8, <1>9, <2>1 DEF Records
  <1>14. PICK s : s = [t |-> u, hole |-> k, done |-> FALSE]
    OBVIOUS
  <1>15. Shifting(s, u, k, 0)
    <2>1. s = [t |-> s.t, hole |-> s.hole, done |-> s.done] /\ s.t = u /\ s.hole = k /\ s.done = FALSE
      BY <1>14
    <2>2. Ahead(k, k, n) = 0
      BY <1>4 DEF Ahead, Slots
    <2>3. \A j \in Slots(n) : Ahead(k, j, n) \in 0 .. n - 1 /\ (Ahead(k, j, n) = Ahead(k, k, n) => j = k)
      BY <1>3, <1>4, Around
    <2>4. PICK e \in Slots(n) : t.slots[e] = Empty
      BY <1>3, <1>4 DEF HasRoom
    <2>5. u.slots[e] = Empty /\ Ahead(k, e, n) > 0
      BY <1>1, <1>4, <1>9, <2>2, <2>3, <2>4
    <2>6. \A j \in Slots(n) : u.slots[j] # Empty => ~(Ahead(k, j, n) <= 0)
      BY <1>9, <2>2, <2>3
    <2>7. Ahead(k, k, n) <= 0
      BY <2>2
    <2> QED
      BY <1>4, <1>8, <1>9, <1>10, <1>12, <2>1, <2>5, <2>6, <2>7 DEF Shifting
  <1>16. PICK v : v = ShiftBack(u, k)
    OBVIOUS
  <1>17. IsTable(v) /\ Reached(v, -1) /\ Records(v) = Records(u) /\ v.cap = n /\ v.len = t.len - 1
    BY <1>3, <1>4, <1>8, <1>14, <1>15, <1>16, ShiftBackKeeps
  <1>18. IsFiniteSet(Records(v)) /\ v.len = Cardinality(Records(v))
    <2>1. /\ IsFiniteSet(Records(t) \ {r}) /\ Cardinality(Records(t) \ {r}) = Cardinality(Records(t)) - 1
      BY <1>1, Smaller
    <2> QED
      BY <1>1, <1>13, <1>17, <2>1
  <1>19. 2 * v.len <= v.cap
    BY <1>1, <1>3, <1>4, <1>17
  <1> QED
    BY <1>7, <1>13, <1>16, <1>17, <1>18, <1>19 DEF Sound

-----------------------------------------------------------------------------
(* The table and the blocks.                                                *)

\* the block a record is of
BlockOf(r) == [addr |-> r.addr, size |-> r.size, align |-> r.align]

\* The table records exactly the blocks of B, no two at one address.
Holds(t, B) ==
    /\ Sound(t) /\ B = {BlockOf(r) : r \in Records(t)}
    /\ \A x, y \in B : x.addr = y.addr => x = y

\* Two records have two addresses.
LEMMA RecordsApart ==
    ASSUME NEW t, Sound(t), NEW x \in Records(t), NEW y \in Records(t), x.addr = y.addr
    PROVE  x = y
  <1>1. t.cap # 0
    BY NewTableIs, SoundIs
  <1>2. IsTable(t)
    BY <1>1, SoundIs
  <1>3. PICK i, j : /\ i \in Slots(t.cap) /\ j \in Slots(t.cap) /\ x = t.slots[i] /\ y = t.slots[j]
                    /\ x # Empty /\ y # Empty
    BY DEF Records
  <1> QED
    BY <1>2, <1>3 DEF IsTable

LEMMA BlockOfIs ==
    ASSUME NEW r \in BlockRecord
    PROVE  /\ BlockOf(r).addr = r.addr /\ BlockOf(r).size = r.size /\ BlockOf(r).align = r.align
           /\ BlockOf(r) \in [addr : Addrs, size : Nat, align : Nat]
  BY DEF BlockRecord, BlockOf

\* Looking an address up answers with the record of the block there, and with nothing when
\* there is none.
LEMMA FindIs ==
    ASSUME NEW t, NEW B, Holds(t, B), NEW a \in Addrs
    PROVE  /\ TableFind(t, a) # Empty <=> a \in AddrsOf(B)
           /\ \A b \in B : b.addr = a => TableFind(t, a) \in Records(t) /\ BlockOf(TableFind(t, a)) = b
  <1>1. Sound(t) /\ B = {BlockOf(r) : r \in Records(t)} /\ Records(t) \subseteq BlockRecord
    BY SoundIs DEF Holds
  <1>2. ASSUME NEW b \in B, b.addr = a
        PROVE  TableFind(t, a) # Empty /\ TableFind(t, a) \in Records(t) /\ BlockOf(TableFind(t, a)) = b
    <2>1. PICK r \in Records(t) : b = BlockOf(r)
      BY <1>1
    <2>2. r \in BlockRecord /\ r.addr = a /\ r # Empty
      BY <1>1, <1>2, <2>1, BlockOfIs, RecordIs
    <2>3. t.cap # 0
      BY <1>1, NewTableIs, SoundIs
    <2>4. IsTable(t) /\ HasRoom(t) /\ Reached(t, -1)
      BY <1>1, <2>3, SoundIs
    <2>5. PICK i \in Slots(t.cap) : t.slots[i] = r
      BY DEF Records
    <2>6. TableProbe(t, a) = i
      BY <2>2, <2>4, <2>5, ProbeFinds
    <2>7. TableFind(t, a) = r
      BY <2>3, <2>5, <2>6 DEF TableFind
    <2> QED
      BY <2>1, <2>2, <2>7
  <1>3. ASSUME TableFind(t, a) # Empty PROVE a \in AddrsOf(B)
    <2>1. t.cap # 0
      BY <1>3 DEF TableFind
    <2>2. IsTable(t) /\ HasRoom(t) /\ Reached(t, -1)
      BY <1>1, <2>1, SoundIs
    <2>3. ~NoneAt(t, a)
      BY <1>3, <2>1, <2>2, ProbeFinds DEF TableFind
    <2>4. PICK i \in Slots(t.cap) : t.slots[i] # Empty /\ t.slots[i].addr = a
      BY <2>3 DEF NoneAt
    <2>5. t.slots[i] \in Records(t)
      BY <2>4 DEF Records
    <2>6. BlockOf(t.slots[i]) \in B /\ BlockOf(t.slots[i]).addr = a
      BY <1>1, <2>4, <2>5, BlockOfIs
    <2> QED
      BY <2>6 DEF AddrsOf
  <1> QED
    BY <1>2, <1>3 DEF AddrsOf

LEMMA InsertHolds ==
    ASSUME NEW t, NEW B, Holds(t, B), NEW r \in BlockRecord, r.addr \notin AddrsOf(B),
           NEW grows \in BOOLEAN, NEW v \in TableInsert(t, r, grows)
    PROVE  Holds(v, B \cup {BlockOf(r)})
  <1>1. Sound(t) /\ B = {BlockOf(x) : x \in Records(t)} /\ Records(t) \subseteq BlockRecord
        /\ \A x, y \in B : x.addr = y.addr => x = y
    BY SoundIs DEF Holds
  <1>2. \A b \in B : b.addr # r.addr
    BY DEF AddrsOf
  <1>3. \A x \in Records(t) : x.addr # r.addr
    BY <1>1, <1>2, BlockOfIs
  <1>4. Sound(v) /\ Records(v) = Records(t) \cup {r}
    BY <1>1, <1>3, InsertIs
  <1>5. BlockOf(r).addr = r.addr
    BY BlockOfIs
  <1>6. B \cup {BlockOf(r)} = {BlockOf(x) : x \in Records(v)}
    BY <1>1, <1>4
  <1>7. \A x, y \in B \cup {BlockOf(r)} : x.addr = y.addr => x = y
    BY <1>1, <1>2, <1>5
  <1> QED
    BY <1>4, <1>6, <1>7 DEF Holds

LEMMA TakeHolds ==
    ASSUME NEW t, NEW B, Holds(t, B), NEW b \in B
    PROVE  Holds(TableTake(t, b.addr), B \ {b})
  <1>1. Sound(t) /\ B = {BlockOf(x) : x \in Records(t)} /\ Records(t) \subseteq BlockRecord
        /\ \A x, y \in B : x.addr = y.addr => x = y
    BY SoundIs DEF Holds
  <1>2. PICK r \in Records(t) : b = BlockOf(r)
    BY <1>1
  <1>3. r.addr = b.addr
    BY <1>1, <1>2, BlockOfIs
  <1>4. PICK v : v = TableTake(t, r.addr)
    OBVIOUS
  <1>5. Sound(v) /\ Records(v) = Records(t) \ {r}
    BY <1>1, <1>4, TakeIs
  <1>6. ASSUME NEW x \in Records(t), x # r PROVE BlockOf(x) # b
    <2>1. x.addr # r.addr
      BY <1>1, <1>6, RecordsApart
    <2> QED
      BY <1>1, <1>2, <2>1, BlockOfIs
  <1>7. B \ {b} = {BlockOf(x) : x \in Records(v)}
    BY <1>1, <1>2, <1>5, <1>6
  <1> QED
    BY <1>1, <1>3, <1>4, <1>5, <1>7 DEF Holds

-----------------------------------------------------------------------------
(* What the helpers leave alone.                                            *)

IsDebug(d) ==
    d = [parent |-> d.parent, table |-> d.table, quarantine |-> d.quarantine,
         quarantine_head |-> d.quarantine_head, quarantine_len |-> d.quarantine_len,
         live_bytes |-> d.live_bytes, peak_bytes |-> d.peak_bytes, requests |-> d.requests,
         fail_after |-> d.fail_after, break_at |-> d.break_at, lent |-> d.lent,
         torn |-> d.torn, stop |-> d.stop]

\* e has the counters of d, and has stopped if d has, at no break of its own
Frame(d, e) ==
    /\ IsDebug(e) /\ e.parent = d.parent /\ e.requests = d.requests
    /\ e.fail_after = d.fail_after /\ e.break_at = d.break_at
    /\ e.stop = "break" => d.stop = "break"
    /\ d.stop # Running => e.stop # Running

LEMMA FrameItself == ASSUME NEW d, IsDebug(d) PROVE Frame(d, d)
  BY DEF Frame

LEMMA FrameTrans == ASSUME NEW d, NEW e, NEW f, Frame(d, e), Frame(e, f) PROVE Frame(d, f)
  BY DEF Frame

LEMMA ReportFrames ==
    ASSUME NEW d, IsDebug(d), NEW what, what # Running, what # "break"
    PROVE  Frame(d, Report(d, what)) /\ Report(d, what).stop = what
  BY DEF IsDebug, Frame, Report

\* One block leaves the quarantine.
LEMMA ReleaseOldestFrames ==
    ASSUME NEW d, IsDebug(d)
    PROVE  /\ Frame(d, ReleaseOldest(d))
           /\ ReleaseOldest(d).quarantine_len \in {d.quarantine_len, d.quarantine_len - 1}
           /\ d.stop = Running => ReleaseOldest(d).quarantine_len = d.quarantine_len - 1
  <1> DEFINE freed == Quarantined(d, 0)
  <1>1. PICK e : e = [d EXCEPT !.quarantine_head = (@ + 1) % QuarantineLen, !.quarantine_len = @ - 1]
    OBVIOUS
  <1>2. Frame(d, e) /\ e.stop = d.stop /\ e.quarantine_len = d.quarantine_len - 1
    BY <1>1 DEF IsDebug, Frame
  <1> HIDE DEF freed
  <1>3. CASE d.stop # Running
    <2>1. ReleaseOldest(d) = d
      BY <1>3 DEF ReleaseOldest
    <2> QED
      BY <1>3, <2>1, FrameItself
  <1>4. CASE d.stop = Running /\ freed.addr \in d.torn
    <2>1. ReleaseOldest(d) = Report(e, "after free")
      BY <1>1, <1>4 DEF ReleaseOldest, freed
    <2>2. IsDebug(e) /\ "after free" # Running /\ "after free" # "break"
      BY <1>2 DEF Frame, Running
    <2>3. Frame(e, Report(e, "after free"))
      BY <2>2, ReportFrames
    <2>4. Report(e, "after free").quarantine_len = e.quarantine_len
      BY <2>2 DEF IsDebug, Report
    <2> QED
      BY <1>2, <2>1, <2>3, <2>4, FrameTrans
  <1>5. CASE d.stop = Running /\ freed.addr \notin d.torn
    <2>1. PICK f : f = [e EXCEPT !.lent = @ \ {WithGuard(freed)}]
      OBVIOUS
    <2>2. ReleaseOldest(d) = f
      BY <1>1, <1>5, <2>1 DEF ReleaseOldest, freed
    <2>3. Frame(e, f) /\ f.quarantine_len = e.quarantine_len
      BY <1>2, <2>1 DEF IsDebug, Frame
    <2> QED
      BY <1>2, <2>2, <2>3, FrameTrans
  <1> QED
    BY <1>3, <1>4, <1>5

\* The walk of Released, up to n blocks.
Releases(f, n, d) == f = [i \in 0 .. n |-> IF i = 0 THEN d ELSE ReleaseOldest(f[i - 1])]

LEMMA ReleasesExists ==
    ASSUME NEW d, NEW k \in Nat
    PROVE  \E f : Releases(f, k, d)
  <1> DEFINE T == {n \in Nat : ~ \E f : Releases(f, n, d)}
  <1>1. SUFFICES ASSUME T # {} PROVE FALSE
    OBVIOUS
  <1>2. PICK n \in T : \A m \in T : n <= m
    BY <1>1, LeastNat
  <1>3. n # 0
    <2>1. PICK f : f = [i \in 0 .. 0 |-> d]
      OBVIOUS
    <2>2. f = [i \in 0 .. 0 |-> IF i = 0 THEN d ELSE ReleaseOldest(f[i - 1])]
      BY <2>1
    <2>3. Releases(f, 0, d)
      BY <2>2 DEF Releases
    <2> QED
      BY <2>3
  <1>4. PICK f : Releases(f, n - 1, d)
    <2>1. n - 1 \in Nat /\ ~(n <= n - 1)
      BY <1>3
    <2> QED
      BY <1>2, <2>1
  <1>5. f = [i \in 0 .. n - 1 |-> IF i = 0 THEN d ELSE ReleaseOldest(f[i - 1])]
    BY <1>4 DEF Releases
  <1> DEFINE g == [i \in 0 .. n |-> IF i < n THEN f[i] ELSE ReleaseOldest(f[n - 1])]
  <1>6. (\A i \in 0 .. n - 1 : g[i] = f[i]) /\ g[n] = ReleaseOldest(f[n - 1])
    BY <1>3
  <1>7. ASSUME NEW i \in 0 .. n
        PROVE  g[i] = IF i = 0 THEN d ELSE ReleaseOldest(g[i - 1])
    <2>1. CASE i = n
      BY <1>3, <1>6, <2>1
    <2>2. CASE i # n
      <3>1. i \in 0 .. n - 1 /\ (i # 0 => i - 1 \in 0 .. n - 1)
        BY <1>3, <2>2
      <3>2. f[i] = IF i = 0 THEN d ELSE ReleaseOldest(f[i - 1])
        BY <1>5, <3>1
      <3> HIDE DEF g
      <3> QED
        BY <1>6, <3>1, <3>2
    <2> QED
      BY <2>1, <2>2
  <1>8. g = [i \in 0 .. n |-> g[i]]
    OBVIOUS
  <1> HIDE DEF g
  <1>9. g = [i \in 0 .. n |-> IF i = 0 THEN d ELSE ReleaseOldest(g[i - 1])]
    BY <1>7, <1>8
  <1>10. Releases(g, n, d)
    BY <1>9 DEF Releases
  <1> QED
    BY <1>2, <1>10

\* As many blocks leave the quarantine as there are in it, or fewer.
LEMMA ReleasedFrames ==
    ASSUME DebugAssumption, NEW d, IsDebug(d), d.quarantine_len \in 0 .. QuarantineLen
    PROVE  /\ Frame(d, Released(d, d.quarantine_len))
           /\ Released(d, d.quarantine_len).quarantine_len \in 0 .. QuarantineLen
  <1> DEFINE f == CHOOSE f : Releases(f, QuarantineLen, d)
             Within(i) == /\ Frame(d, f[i])
                          /\ f[i].quarantine_len \in d.quarantine_len - i .. d.quarantine_len
             T == {i \in Nat : i <= QuarantineLen /\ ~Within(i)}
  <1>1. QuarantineLen \in Nat /\ d.quarantine_len \in Nat
    BY DEF DebugAssumption
  <1>2. Releases(f, QuarantineLen, d)
    BY <1>1, ReleasesExists
  <1>3. Released(d, d.quarantine_len) = f[d.quarantine_len]
    BY DEF Released, Releases
  <1> HIDE DEF f
  <1>4. \A i \in 0 .. QuarantineLen : f[i] = IF i = 0 THEN d ELSE ReleaseOldest(f[i - 1])
    BY <1>2 DEF Releases
  <1>5. T = {}
    <2>1. SUFFICES ASSUME T # {} PROVE FALSE
      OBVIOUS
    <2>2. PICK i \in T : \A j \in T : i <= j
      BY <2>1, LeastNat
    <2>3. i \in 0 .. QuarantineLen /\ ~Within(i)
      BY <1>1
    <2>4. i # 0
      BY <1>1, <1>4, <2>3, FrameItself
    <2>5. PICK j \in Nat : i = j + 1 /\ j = i - 1 /\ j \in 0 .. QuarantineLen
      BY <1>1, <2>3, <2>4
    <2>6. Frame(d, f[j]) /\ f[j].quarantine_len \in d.quarantine_len - j .. d.quarantine_len
      BY <1>1, <2>2, <2>5
    <2>7. PICK e : e = f[j]
      OBVIOUS
    <2>8. f[i] = ReleaseOldest(e)
      BY <1>4, <2>3, <2>4, <2>5, <2>7
    <2>9. IsDebug(e)
      BY <2>6, <2>7 DEF Frame
    <2>10. Frame(e, f[i]) /\ f[i].quarantine_len \in {e.quarantine_len, e.quarantine_len - 1}
      BY <2>8, <2>9, ReleaseOldestFrames
    <2>11. Frame(d, f[i])
      BY <2>6, <2>7, <2>10, FrameTrans
    <2>12. f[i].quarantine_len \in d.quarantine_len - i .. d.quarantine_len
      BY <1>1, <2>5, <2>6, <2>7, <2>10
    <2> QED
      BY <2>3, <2>11, <2>12
  <1>6. Within(d.quarantine_len)
    BY <1>1, <1>5
  <1> QED
    BY <1>1, <1>3, <1>6

\* A block waits in the quarantine, after the oldest has left a full one.
LEMMA QuarantinePushFrames ==
    ASSUME DebugAssumption, NEW d, IsDebug(d), d.quarantine_len \in 0 .. QuarantineLen,
           d.stop = Running, NEW b
    PROVE  /\ Frame(d, QuarantinePush(d, b))
           /\ QuarantinePush(d, b).quarantine_len \in 0 .. QuarantineLen
  <1>1. PICK e : e = IF d.quarantine_len = QuarantineLen THEN ReleaseOldest(d) ELSE d
    OBVIOUS
  <1>2. Frame(d, e) /\ e.quarantine_len \in 0 .. QuarantineLen - 1
    <2>1. CASE d.quarantine_len = QuarantineLen
      BY <1>1, <2>1, ReleaseOldestFrames DEF DebugAssumption
    <2>2. CASE d.quarantine_len # QuarantineLen
      BY <1>1, <2>2, FrameItself DEF DebugAssumption
    <2> QED
      BY <2>1, <2>2
  <1> DEFINE slot == (e.quarantine_head + e.quarantine_len) % QuarantineLen
             ring == [e.quarantine EXCEPT ![slot] = b]
  <1>3. QuarantinePush(d, b) = [e EXCEPT !.quarantine_len = @ + 1, !.quarantine[slot] = b]
    BY <1>1 DEF QuarantinePush
  <1>4. QuarantinePush(d, b) = [e EXCEPT !.quarantine_len = @ + 1, !.quarantine = ring]
    BY <1>2, <1>3 DEF Frame, IsDebug
  <1> HIDE DEF ring, slot
  <1>5. Frame(e, QuarantinePush(d, b)) /\ QuarantinePush(d, b).quarantine_len = e.quarantine_len + 1
    BY <1>2, <1>4 DEF Frame, IsDebug
  <1> QED
    BY <1>2, <1>5, FrameTrans DEF DebugAssumption

\* What a bad pointer or layout is told is never a break, and a block that passes the
\* check is in the table.
LEMMA CheckedEntryIs ==
    ASSUME NEW d, NEW a, NEW l
    PROVE  /\ CheckedEntry(d, a, l) # "break"
           /\ CheckedEntry(d, a, l) = Running => TableFind(d.table, a) # Empty
  BY DEF CheckedEntry, Running

LEMMA RemapFrames ==
    ASSUME NEW d, IsDebug(d), d.stop = Running, NEW a, NEW l
    PROVE  /\ Frame(d, DebugRemap(d, a, l))
           /\ DebugRemap(d, a, l).quarantine_len = d.quarantine_len
           /\ DebugRemap(d, a, l).stop = CheckedEntry(d, a, l)
  <1>1. PICK w : w = CheckedEntry(d, a, l)
    OBVIOUS
  <1>2. DebugRemap(d, a, l) = [d EXCEPT !.stop = w]
    BY <1>1 DEF DebugRemap
  <1>3. w # "break"
    BY <1>1, CheckedEntryIs
  <1> QED
    BY <1>1, <1>2, <1>3 DEF IsDebug, Frame

LEMMA DeallocFrames ==
    ASSUME DebugAssumption, NEW d, IsDebug(d), d.quarantine_len \in 0 .. QuarantineLen,
           d.stop = Running, NEW a, NEW l
    PROVE  /\ Frame(d, DebugDealloc(d, a, l))
           /\ DebugDealloc(d, a, l).quarantine_len \in 0 .. QuarantineLen
           /\ a \in d.torn => DebugDealloc(d, a, l).stop # Running
  <1>1. PICK w : w = CheckedEntry(d, a, l)
    OBVIOUS
  <1>2. CASE w # Running
    <2>1. DebugDealloc(d, a, l) = Report(d, w)
      BY <1>1, <1>2 DEF DebugDealloc
    <2>2. w # "break"
      BY <1>1, CheckedEntryIs
    <2>3. Report(d, w).quarantine_len = d.quarantine_len
      BY DEF IsDebug, Report
    <2> QED
      BY <1>2, <2>1, <2>2, <2>3, ReportFrames
  <1>3. CASE w = Running /\ a \in d.torn
    <2>1. DebugDealloc(d, a, l) = Report(d, "past end")
      BY <1>1, <1>3 DEF DebugDealloc
    <2>2. "past end" # Running /\ "past end" # "break"
      BY DEF Running
    <2>3. Report(d, "past end").quarantine_len = d.quarantine_len
      BY DEF IsDebug, Report
    <2> QED
      BY <2>1, <2>2, <2>3, ReportFrames
  <1>4. CASE w = Running /\ a \notin d.torn
    <2>1. PICK t, b : t = TableTake(d.table, a) /\ b = [addr |-> a, size |-> l.size, align |-> l.align]
      OBVIOUS
    <2>2. PICK e : e = [d EXCEPT !.table = t, !.live_bytes = @ - l.size]
      OBVIOUS
    <2>3. DebugDealloc(d, a, l) = QuarantinePush(e, b)
      BY <1>1, <1>4, <2>1, <2>2 DEF DebugDealloc
    <2>4. Frame(d, e) /\ e.quarantine_len = d.quarantine_len /\ e.stop = d.stop
      BY <2>2 DEF IsDebug, Frame
    <2>5. /\ Frame(e, QuarantinePush(e, b))
          /\ QuarantinePush(e, b).quarantine_len \in 0 .. QuarantineLen
      BY <2>4, QuarantinePushFrames DEF Frame
    <2> QED
      BY <1>4, <2>3, <2>4, <2>5, FrameTrans
  <1> QED
    BY <1>2, <1>3, <1>4

\* An alloc counts its request, and no more than one.
Counted(d) == [d EXCEPT !.requests = @ + 1]

LEMMA CountedFields ==
    ASSUME NEW d, IsDebug(d)
    PROVE  /\ IsDebug(Counted(d)) /\ Counted(d).parent = d.parent /\ Counted(d).requests = d.requests + 1
           /\ Counted(d).fail_after = d.fail_after /\ Counted(d).break_at = d.break_at
           /\ Counted(d).quarantine_len = d.quarantine_len /\ Counted(d).stop = d.stop
           /\ Counted(d).table = d.table /\ Counted(d).torn = d.torn
  BY DEF IsDebug, Counted

\* What the parent answers is recorded, or reported when it has it out already; a block
\* that is handed out is not one the table or the quarantine knows.
LEMMA RecordedFrames ==
    ASSUME NEW d, IsDebug(d), d.stop = Running, NEW l, NEW a, NEW r \in Recorded(d, l, a)
    PROVE  /\ Frame(d, r.debug) /\ r.debug.quarantine_len = d.quarantine_len
           /\ r.addr = Null \/ /\ r.addr = a /\ TableFind(d.table, a) = Empty
                               /\ r.debug.torn = d.torn \ {a} /\ r.debug.stop = Running
  <1> DEFINE rec == [addr |-> a, size |-> l.size, align |-> l.align, serial |-> d.requests]
             live == d.live_bytes + l.size
             loan == [addr |-> a, size |-> CkdParentLayout(l).size, align |-> l.align]
             known == TableFind(d.table, a) # Empty \/ a \in AddrsOf(Quarantine(d))
             With(t) == [d EXCEPT !.table = t, !.live_bytes = live, !.peak_bytes = Larger(@, live),
                                  !.torn = @ \ {a}, !.lent = @ \cup {loan}]
             Grow(grows) == {With(t) : t \in TableInsert(d.table, rec, grows)}
             repeats == [debug |-> Report(d, "parent repeats"), addr |-> Null, answered |-> TRUE]
             refusal == [debug |-> d, addr |-> Null, answered |-> TRUE]
  <1>1. Recorded(d, l, a) =
            IF known THEN {repeats}
            ELSE {[debug |-> e, addr |-> a, answered |-> TRUE] : e \in Grow(TRUE)}
                 \cup IF Grow(FALSE) # {} THEN {} ELSE {refusal}
    BY DEF Recorded
  <1>2. ASSUME NEW t
        PROVE  /\ Frame(d, With(t)) /\ With(t).quarantine_len = d.quarantine_len
               /\ With(t).torn = d.torn \ {a} /\ With(t).stop = d.stop
    <2>1. PICK p, s, k : p = Larger(d.peak_bytes, live) /\ s = d.torn \ {a} /\ k = d.lent \cup {loan}
      OBVIOUS
    <2> HIDE DEF live, loan
    <2>2. With(t) = [d EXCEPT !.table = t, !.live_bytes = live, !.peak_bytes = p, !.torn = s, !.lent = k]
      BY <2>1 DEF IsDebug
    <2> HIDE DEF With
    <2>3. /\ Frame(d, With(t)) /\ With(t).quarantine_len = d.quarantine_len
          /\ With(t).torn = s /\ With(t).stop = d.stop
      BY <2>2 DEF IsDebug, Frame
    <2> QED
      BY <2>1, <2>3
  <1> HIDE DEF With, rec
  <1>3. \/ r = repeats \/ r = refusal
        \/ ~known /\ \E t : r = [debug |-> With(t), addr |-> a, answered |-> TRUE]
    <2>1. CASE known
      BY <1>1, <2>1
    <2>2. CASE ~known
      <3>1. r \in {[debug |-> e, addr |-> a, answered |-> TRUE] : e \in Grow(TRUE)} \/ r = refusal
        BY <1>1, <2>2
      <3> QED
        BY <2>2, <3>1
    <2> QED
      BY <2>1, <2>2
  <1>4. CASE r = repeats
    <2>1. "parent repeats" # Running /\ "parent repeats" # "break"
      BY DEF Running
    <2>2. Report(d, "parent repeats").quarantine_len = d.quarantine_len
      BY DEF IsDebug, Report
    <2> QED
      BY <1>4, <2>1, <2>2, ReportFrames
  <1>5. CASE r = refusal
    BY <1>5, FrameItself
  <1>6. CASE ~known /\ \E t : r = [debug |-> With(t), addr |-> a, answered |-> TRUE]
    <2>1. PICK t : r.debug = With(t) /\ r.addr = a
      BY <1>6
    <2> QED
      BY <1>2, <1>6, <2>1
  <1> QED
    BY <1>3, <1>4, <1>5, <1>6

LEMMA AllocFrames ==
    ASSUME NEW d, IsDebug(d), d.stop = Running, NEW l, NEW a, NEW r \in DebugAlloc(d, l, a)
    PROVE  /\ IsDebug(r.debug) /\ r.debug.parent = d.parent /\ r.debug.requests = d.requests + 1
           /\ r.debug.fail_after = d.fail_after /\ r.debug.break_at = d.break_at
           /\ r.debug.quarantine_len = d.quarantine_len
           /\ r.debug.stop = "break" <=> d.break_at = d.requests + 1
           /\ r.addr = Null \/ /\ r.addr = a /\ TableFind(d.table, a) = Empty
                               /\ r.debug.torn = d.torn \ {a} /\ r.debug.stop = Running
  <1>1. PICK c : c = Counted(d)
    OBVIOUS
  <1>2. /\ IsDebug(c) /\ c.parent = d.parent /\ c.requests = d.requests + 1
        /\ c.fail_after = d.fail_after /\ c.break_at = d.break_at
        /\ c.quarantine_len = d.quarantine_len /\ c.stop = d.stop
        /\ c.table = d.table /\ c.torn = d.torn
    BY <1>1, CountedFields
  <1>3. \/ Breaks(c) /\ r.debug = Report(c, "break") /\ r.addr = Null
        \/ ~Breaks(c) /\ r.debug = c /\ r.addr = Null
        \/ ~Breaks(c) /\ r \in Recorded(c, l, a)
    BY <1>1 DEF DebugAlloc, Counted
  <1>4. CASE Breaks(c) /\ r.debug = Report(c, "break") /\ r.addr = Null
    <2>1. d.break_at = d.requests + 1
      BY <1>2, <1>4 DEF Breaks
    <2>2. r.debug = [c EXCEPT !.stop = "break"]
      BY <1>4 DEF Report
    <2>3. /\ IsDebug(r.debug) /\ r.debug.parent = c.parent /\ r.debug.requests = c.requests
          /\ r.debug.fail_after = c.fail_after /\ r.debug.break_at = c.break_at
          /\ r.debug.quarantine_len = c.quarantine_len /\ r.debug.stop = "break"
      BY <1>2, <2>2 DEF IsDebug
    <2> QED
      BY <1>2, <1>4, <2>1, <2>3
  <1>5. CASE ~Breaks(c) /\ r.debug = c /\ r.addr = Null
    <2>1. d.break_at # d.requests + 1
      BY <1>2, <1>5 DEF Breaks
    <2> QED
      BY <1>2, <1>5, <2>1 DEF Running
  <1>6. CASE ~Breaks(c) /\ r \in Recorded(c, l, a)
    <2>1. d.break_at # d.requests + 1
      BY <1>2, <1>6 DEF Breaks
    <2>2. Frame(c, r.debug) /\ r.debug.quarantine_len = c.quarantine_len
      BY <1>2, <1>6, RecordedFrames
    <2>3. r.addr = Null \/ /\ r.addr = a /\ TableFind(c.table, a) = Empty
                           /\ r.debug.torn = c.torn \ {a} /\ r.debug.stop = Running
      BY <1>2, <1>6, RecordedFrames
    <2> QED
      BY <1>2, <2>1, <2>2, <2>3 DEF Frame, Running
  <1> QED
    BY <1>3, <1>4, <1>5, <1>6

-----------------------------------------------------------------------------
(* The injection.                                                           *)

\* The budget fail_after has left is the number of requests up to the one it is set for, as
\* far as the counter goes.
Injects ==
    /\ budget \in Nat \cup {Null}
    /\ budget = Null => debug.fail_after = CountMax
    /\ budget = 0 => debug.fail_after <= debug.requests
    /\ budget \in Nat \ {0} => debug.fail_after = FailAt(budget)

\* The requests due up to the break end at the serial it is set for; when none are due that
\* serial is behind.
Awaits ==
    /\ due = Null => debug.break_at <= debug.requests
    /\ due \in Nat \ {0} => debug.break_at = debug.requests + due

\* InjectionExact is not inductive: it says of the next request, and of the break that has
\* come, only what Injects and Awaits say of all the requests that are to come.
InjectionInv ==
    /\ IsDebug(debug) /\ debug.quarantine_len \in 0 .. QuarantineLen
    /\ debug.requests \in 0 .. MaxRequests /\ debug.fail_after \in Nat /\ debug.break_at \in Nat
    /\ due \in Nat \cup {Null} /\ (debug.stop = "break" <=> due = 0)
    /\ Runs => Injects /\ Awaits

LEMMA InitInjects == ASSUME DebugAssumption, Init PROVE InjectionInv
  <1>1. IsDebug(debug) /\ debug.stop = Running
    BY DEF Init, IsDebug
  <1>2. debug.quarantine_len = 0 /\ debug.requests = 0 /\ debug.fail_after = CountMax /\ debug.break_at = 0
    BY DEF Init
  <1>3. budget = Null /\ due = Null
    BY DEF Init
  <1> QED
    BY <1>1, <1>2, <1>3 DEF InjectionInv, Injects, Awaits, DebugAssumption, Running

\* A step whose debug has the counters of the one before keeps the invariant.
LEMMA FrameKeeps ==
    ASSUME DebugAssumption, InjectionInv, Runs, Frame(debug, debug'),
           debug'.quarantine_len \in 0 .. QuarantineLen, budget' = budget, due' = due
    PROVE  InjectionInv'
  <1>1. debug'.stop # "break" /\ due' # 0
    BY DEF Frame, InjectionInv, Runs, Running
  <1>2. FailAt(budget)' = FailAt(budget)
    BY DEF Frame, FailAt
  <1>3. Injects'
    BY <1>2 DEF InjectionInv, Injects, Frame
  <1>4. Awaits'
    BY DEF InjectionInv, Awaits, Frame
  <1> QED
    BY <1>1, <1>3, <1>4 DEF InjectionInv, Frame

\* A request, answered or not, takes one off the budget and off those due up to the break.
LEMMA RequestKeeps ==
    ASSUME DebugAssumption, InjectionInv, Runs, debug.requests < MaxRequests,
           IsDebug(debug'), debug'.quarantine_len \in 0 .. QuarantineLen,
           debug'.requests = debug.requests + 1, debug'.fail_after = debug.fail_after,
           debug'.break_at = debug.break_at,
           debug'.stop = "break" <=> debug.break_at = debug.requests + 1,
           budget' = Spent(budget), due' = Spent(due)
    PROVE  InjectionInv'
  <1>1. /\ debug.requests \in 0 .. MaxRequests /\ debug.fail_after \in Nat /\ debug.break_at \in Nat
        /\ MaxRequests \in Nat /\ CountMax \in Nat /\ MaxRequests < CountMax /\ Null \notin Nat
    BY DEF InjectionInv, DebugAssumption
  <1>2. Injects /\ Awaits /\ due \in Nat \cup {Null} /\ due # 0
    BY DEF InjectionInv, Runs, Running
  <1>3. due' \in Nat \cup {Null} /\ (debug'.stop = "break" <=> due' = 0) /\ Awaits'
    <2>1. CASE due = Null
      <3>1. due' = Null /\ debug.break_at <= debug.requests
        BY <1>2, <2>1 DEF Awaits, Spent
      <3>2. debug.break_at # debug.requests + 1 /\ debug'.break_at <= debug'.requests
        BY <1>1, <3>1
      <3> QED
        BY <1>1, <3>1, <3>2 DEF Awaits
    <2>2. CASE due \in Nat \ {0}
      <3>1. PICK n \in Nat : due = n + 1 /\ due' = n
        <4>1. due - 1 \in Nat /\ due = (due - 1) + 1 /\ due' = due - 1
          BY <1>1, <2>2 DEF Spent
        <4> QED
          BY <4>1
      <3>2. debug.break_at = debug.requests + (n + 1)
        BY <1>2, <2>2, <3>1 DEF Awaits
      <3>3. debug.requests \in Nat /\ debug'.break_at = debug'.requests + n
        BY <1>1, <3>2
      <3>4. debug'.stop = "break" <=> n = 0
        BY <3>2, <3>3
      <3> QED
        BY <1>1, <3>1, <3>3, <3>4 DEF Awaits
    <2> QED
      BY <1>2, <2>1, <2>2
  <1>4. debug'.requests \in 0 .. MaxRequests
    BY <1>1
  <1>5. Injects'
    <2>1. CASE budget = Null
      BY <1>1, <1>2, <2>1 DEF Injects, Spent
    <2>2. CASE budget = 0
      BY <1>1, <1>2, <2>2 DEF Injects, Spent
    <2>3. CASE budget \in Nat \ {0}
      <3>1. PICK n \in Nat : budget = n + 1 /\ budget' = n
        <4>1. budget - 1 \in Nat /\ budget = (budget - 1) + 1 /\ budget' = budget - 1
          BY <1>1, <2>3 DEF Spent
        <4> QED
          BY <4>1
      <3>2. debug.fail_after = FailAt(n + 1)
        BY <1>2, <2>3, <3>1 DEF Injects
      <3>3. debug.requests + (n + 1) = debug'.requests + n
        BY <1>1, <3>1
      <3>4. debug'.fail_after = FailAt(n)'
        BY <3>2, <3>3 DEF FailAt
      <3>5. n = 0 => debug'.fail_after <= debug'.requests
        BY <1>1, <1>4, <3>4 DEF FailAt
      <3> QED
        BY <1>1, <3>1, <3>4, <3>5 DEF Injects
    <2> QED
      BY <1>2, <2>1, <2>2, <2>3 DEF Injects
  <1> QED
    BY <1>1, <1>3, <1>4, <1>5 DEF InjectionInv

LEMMA FlushKeeps ==
    ASSUME DebugAssumption, InjectionInv, tda_debug_flush_quarantine
    PROVE  InjectionInv'
  <1>1. Runs /\ debug' = Released(debug, debug.quarantine_len) /\ budget' = budget /\ due' = due
    BY DEF tda_debug_flush_quarantine
  <1>2. Frame(debug, debug') /\ debug'.quarantine_len \in 0 .. QuarantineLen
    BY <1>1, ReleasedFrames DEF InjectionInv
  <1> QED
    BY <1>1, <1>2, FrameKeeps

LEMMA DeinitKeeps ==
    ASSUME DebugAssumption, InjectionInv, tda_debug_deinit
    PROVE  InjectionInv'
  <1>1. PICK d : d = Released(debug, debug.quarantine_len)
    OBVIOUS
  <1>2. Frame(debug, d) /\ d.quarantine_len \in 0 .. QuarantineLen
    BY <1>1, ReleasedFrames DEF InjectionInv
  <1>3. Runs /\ budget' = budget /\ due' = due
    BY DEF tda_debug_deinit
  <1>4. CASE d.stop # Running
    <2>1. debug' = d
      BY <1>1, <1>4 DEF tda_debug_deinit
    <2> QED
      BY <1>2, <1>3, <2>1, FrameKeeps
  <1>5. CASE d.stop = Running
    <2>1. debug' = [d EXCEPT !.parent = FALSE, !.table = NewTable, !.live_bytes = 0,
                             !.peak_bytes = 0, !.requests = 0, !.fail_after = 0, !.break_at = 0]
      BY <1>1, <1>5 DEF tda_debug_deinit
    <2>2. IsDebug(d)
      BY <1>2 DEF Frame
    <2>3. /\ IsDebug(debug') /\ debug'.parent = FALSE /\ debug'.requests = 0
          /\ debug'.fail_after = 0 /\ debug'.break_at = 0 /\ debug'.stop = Running
          /\ debug'.quarantine_len = d.quarantine_len
      BY <1>5, <2>1, <2>2 DEF IsDebug
    <2> QED
      BY <1>2, <1>3, <2>3 DEF InjectionInv, Runs, Running, DebugAssumption
  <1> QED
    BY <1>4, <1>5

LEMMA FailAfterKeeps ==
    ASSUME DebugAssumption, InjectionInv, NEW count \in FailAfter, tda_debug_fail_after(count)
    PROVE  InjectionInv'
  <1>1. /\ CountMax \in Nat /\ count \in Nat /\ Null \notin Nat /\ debug.requests \in Nat
        /\ debug.requests \in 0 .. MaxRequests /\ MaxRequests \in Nat /\ MaxRequests < CountMax
    BY DEF DebugAssumption, InjectionInv
  <1>2. PICK n : n = FailAt(count)
    OBVIOUS
  <1>3. n \in Nat /\ (count = 0 => n <= debug.requests)
    BY <1>1, <1>2 DEF FailAt
  <1>4. /\ Runs /\ debug' = [debug EXCEPT !.fail_after = n] /\ budget' = count /\ due' = due
    BY <1>2 DEF tda_debug_fail_after
  <1>5. /\ IsDebug(debug') /\ debug'.fail_after = n /\ debug'.requests = debug.requests
        /\ debug'.break_at = debug.break_at /\ debug'.quarantine_len = debug.quarantine_len
        /\ debug'.stop = debug.stop /\ debug'.parent = debug.parent
    BY <1>4 DEF IsDebug, InjectionInv
  <1>6. debug'.fail_after = FailAt(count)'
    BY <1>2, <1>5 DEF FailAt
  <1>7. Injects /\ Awaits
    BY <1>4 DEF InjectionInv
  <1>8. Injects'
    BY <1>1, <1>3, <1>4, <1>5, <1>6, <1>7 DEF Injects
  <1>9. Awaits'
    BY <1>4, <1>5, <1>7 DEF Awaits
  <1> QED
    BY <1>3, <1>4, <1>5, <1>8, <1>9 DEF InjectionInv

LEMMA BreakAtKeeps ==
    ASSUME DebugAssumption, InjectionInv, NEW serial \in BreakAt, tda_debug_break_at(serial)
    PROVE  InjectionInv'
  <1>1. serial \in Nat /\ debug.requests \in Nat /\ Null \notin Nat
    BY DEF DebugAssumption, InjectionInv
  <1>2. /\ Runs /\ debug' = [debug EXCEPT !.break_at = serial] /\ budget' = budget
        /\ due' = IF serial > debug.requests THEN serial - debug.requests ELSE Null
    BY DEF tda_debug_break_at
  <1>3. /\ IsDebug(debug') /\ debug'.fail_after = debug.fail_after
        /\ debug'.requests = debug.requests /\ debug'.break_at = serial
        /\ debug'.quarantine_len = debug.quarantine_len /\ debug'.stop = Running
    BY <1>2 DEF IsDebug, InjectionInv, Runs
  <1>4. FailAt(budget)' = FailAt(budget)
    BY <1>2, <1>3 DEF FailAt
  <1>5. Injects
    BY <1>2 DEF InjectionInv
  <1>6. Injects'
    BY <1>2, <1>3, <1>4, <1>5 DEF Injects
  <1>7. due' \in Nat \cup {Null} /\ due' # 0
    BY <1>1, <1>2
  <1>8. Awaits'
    <2>1. CASE serial > debug.requests
      BY <1>1, <1>2, <1>3, <2>1 DEF Awaits
    <2>2. CASE ~(serial > debug.requests)
      BY <1>1, <1>2, <1>3, <2>2 DEF Awaits
    <2> QED
      BY <2>1, <2>2
  <1> QED
    BY <1>1, <1>3, <1>6, <1>7, <1>8 DEF InjectionInv, Running

LEMMA AllocKeeps ==
    ASSUME DebugAssumption, InjectionInv, NEW l, NEW a, tda_alloc(l, a)
    PROVE  InjectionInv'
  <1>1. /\ Runs /\ debug.requests < MaxRequests /\ budget' = Spent(budget) /\ due' = Spent(due)
    BY DEF tda_alloc
  <1>2. PICK r \in DebugAlloc(debug, l, a) : debug' = r.debug
    BY DEF tda_alloc
  <1>3. IsDebug(debug) /\ debug.stop = Running /\ debug.quarantine_len \in 0 .. QuarantineLen
    BY <1>1 DEF InjectionInv, Runs
  <1>4. /\ IsDebug(debug') /\ debug'.requests = debug.requests + 1
        /\ debug'.fail_after = debug.fail_after /\ debug'.break_at = debug.break_at
        /\ debug'.quarantine_len = debug.quarantine_len
        /\ debug'.stop = "break" <=> debug.break_at = debug.requests + 1
    BY <1>2, <1>3, AllocFrames
  <1> QED
    BY <1>1, <1>3, <1>4, RequestKeeps

LEMMA DeallocKeeps ==
    ASSUME DebugAssumption, InjectionInv, Runs, NEW a, NEW l,
           debug' \in {DebugDealloc(debug, a, l), DebugRemap(debug, a, l)},
           budget' = budget, due' = due
    PROVE  InjectionInv'
  <1>1. IsDebug(debug) /\ debug.stop = Running /\ debug.quarantine_len \in 0 .. QuarantineLen
    BY DEF InjectionInv, Runs
  <1>2. Frame(debug, debug') /\ debug'.quarantine_len \in 0 .. QuarantineLen
    BY <1>1, DeallocFrames, RemapFrames
  <1> QED
    BY <1>2, FrameKeeps

\* What tda_realloc does when the new block has come.
LEMMA ReallocKeeps ==
    ASSUME DebugAssumption, InjectionInv, NEW b, NEW size, NEW a, tda_realloc(b, size, a)
    PROVE  InjectionInv'
  <1>1. Runs /\ debug.requests < MaxRequests /\ budget' = Spent(budget) /\ due' = Spent(due)
    BY DEF tda_realloc
  <1>2. PICK r \in DebugAlloc(debug, [size |-> size, align |-> b.align], a) :
           IF r.addr = Null THEN debug' = r.debug
           ELSE debug' = DebugDealloc(r.debug, b.addr, LayoutOf(b))
    BY DEF tda_realloc
  <1>3. IsDebug(debug) /\ debug.stop = Running /\ debug.quarantine_len \in 0 .. QuarantineLen
    BY <1>1 DEF InjectionInv, Runs
  <1>4. PICK e : e = r.debug
    OBVIOUS
  <1>5. /\ IsDebug(e) /\ e.requests = debug.requests + 1
        /\ e.fail_after = debug.fail_after /\ e.break_at = debug.break_at
        /\ e.quarantine_len = debug.quarantine_len
        /\ e.stop = "break" <=> debug.break_at = debug.requests + 1
        /\ r.addr = Null \/ e.stop = Running
    BY <1>2, <1>3, <1>4, AllocFrames
  <1>6. /\ IsDebug(debug') /\ debug'.requests = e.requests
        /\ debug'.fail_after = e.fail_after /\ debug'.break_at = e.break_at
        /\ debug'.quarantine_len \in 0 .. QuarantineLen
        /\ debug'.stop = "break" <=> e.stop = "break"
    <2>1. CASE r.addr = Null
      BY <1>2, <1>3, <1>4, <1>5, <2>1
    <2>2. CASE r.addr # Null
      <3>1. debug' = DebugDealloc(e, b.addr, LayoutOf(b))
        BY <1>2, <1>4, <2>2
      <3>2. Frame(e, debug') /\ debug'.quarantine_len \in 0 .. QuarantineLen
        BY <1>3, <1>5, <2>2, <3>1, DeallocFrames
      <3>3. e.stop # "break" /\ debug'.stop # "break"
        BY <1>5, <2>2, <3>2 DEF Frame, Running
      <3> QED
        BY <3>2, <3>3 DEF Frame
    <2> QED
      BY <2>1, <2>2
  <1>7. /\ debug'.requests = debug.requests + 1
        /\ debug'.fail_after = debug.fail_after /\ debug'.break_at = debug.break_at
        /\ debug'.stop = "break" <=> debug.break_at = debug.requests + 1
    BY <1>5, <1>6
  <1> QED
    BY <1>1, <1>6, <1>7, RequestKeeps

LEMMA WriteKeeps ==
    ASSUME DebugAssumption, InjectionInv, Runs, NEW S, debug' = [debug EXCEPT !.torn = S],
           budget' = budget, due' = due
    PROVE  InjectionInv'
  <1>1. Frame(debug, debug') /\ debug'.quarantine_len = debug.quarantine_len
    BY DEF InjectionInv, IsDebug, Frame
  <1> QED
    BY <1>1, FrameKeeps DEF InjectionInv

\* What keeps the injection exact is kept by every call and every misuse.
THEOREM DebugInvariant == Spec => []InjectionInv
  <1>1. Init => InjectionInv
    BY InitInjects, DebugAssumption
  <1>2. InjectionInv /\ [Next]_vars => InjectionInv'
    <2> SUFFICES ASSUME InjectionInv, [Next]_vars PROVE InjectionInv'
      OBVIOUS
    <2> USE DebugAssumption
    <2>1. CASE tda_debug_deinit
      BY <2>1, DeinitKeeps
    <2>2. CASE tda_debug_flush_quarantine
      BY <2>2, FlushKeeps
    <2>3. CASE \E count \in FailAfter : tda_debug_fail_after(count)
      BY <2>3, FailAfterKeeps
    <2>4. CASE \E serial \in BreakAt : tda_debug_break_at(serial)
      BY <2>4, BreakAtKeeps
    <2>5. CASE \E l \in Layouts, a \in Addrs : tda_alloc(l, a)
      BY <2>5, AllocKeeps
    <2>6. CASE \E l \in Layouts, a \in Addrs : UseStray(a, l)
      <3>1. PICK l, a : UseStray(a, l)
        BY <2>6
      <3>2. /\ Runs /\ debug' \in {DebugDealloc(debug, a, l), DebugRemap(debug, a, l)}
            /\ budget' = budget /\ due' = due
        BY <3>1 DEF UseStray
      <3> QED
        BY <3>2, DeallocKeeps
    <2>7. CASE \E b \in blocks : tda_dealloc(b)
      <3>1. PICK b : tda_dealloc(b)
        BY <2>7
      <3>2. /\ Runs /\ debug' = DebugDealloc(debug, b.addr, LayoutOf(b))
            /\ budget' = budget /\ due' = due
        BY <3>1 DEF tda_dealloc
      <3> QED
        BY <3>2, DeallocKeeps
    <2>8. CASE \E b \in blocks : WritePastEnd(b)
      <3>1. PICK b : WritePastEnd(b)
        BY <2>8
      <3>2. PICK S : S = debug.torn \cup {b.addr}
        OBVIOUS
      <3>3. Runs /\ debug' = [debug EXCEPT !.torn = S] /\ budget' = budget /\ due' = due
        BY <3>1, <3>2 DEF WritePastEnd
      <3> QED
        BY <3>3, WriteKeeps
    <2>9. CASE \E b \in blocks : \E l \in Layouts, a \in Addrs : tda_realloc(b, l.size, a)
      BY <2>9, ReallocKeeps
    <2>10. CASE \E b \in blocks : \E l \in Layouts : UseWrongLayout(b, l)
      <3>1. PICK b, l : UseWrongLayout(b, l)
        BY <2>10
      <3>2. /\ Runs /\ debug' \in {DebugDealloc(debug, b.addr, l), DebugRemap(debug, b.addr, l)}
            /\ budget' = budget /\ due' = due
        BY <3>1 DEF UseWrongLayout
      <3> QED
        BY <3>2, DeallocKeeps
    <2>11. CASE \E a \in Addrs : WriteAfterFree(a)
      <3>1. PICK a : WriteAfterFree(a)
        BY <2>11
      <3>2. PICK S : S = debug.torn \cup {a}
        OBVIOUS
      <3>3. Runs /\ debug' = [debug EXCEPT !.torn = S] /\ budget' = budget /\ due' = due
        BY <3>1, <3>2 DEF WriteAfterFree
      <3> QED
        BY <3>3, WriteKeeps
    <2>12. CASE UNCHANGED vars
      BY <2>12 DEF vars, InjectionInv, Runs, Injects, Awaits, FailAt, IsDebug
    <2> QED
      BY <2>1, <2>2, <2>3, <2>4, <2>5, <2>6, <2>7, <2>8, <2>9, <2>10, <2>11, <2>12 DEF Next
  <1> QED
    BY <1>1, <1>2, PTL DEF Spec

\* While the program runs, each request up to the number given is let through and each one
\* after it is refused, however large the number, whenever it was given and whatever came
\* in between; and the program breaks at the request it was last told to break at, and at no
\* other.
THEOREM DebugInjection == Spec => []InjectionExact
  <1>1. InjectionInv => InjectionExact
    <2> SUFFICES ASSUME InjectionInv PROVE InjectionExact
      OBVIOUS
    <2>1. ASSUME Runs PROVE Refuses(Counted(debug)) <=> budget = 0
      <3>1. /\ debug.requests \in 0 .. MaxRequests /\ MaxRequests \in Nat /\ CountMax \in Nat
            /\ MaxRequests < CountMax /\ debug.fail_after \in Nat /\ Null \notin Nat /\ Injects
        BY <2>1, DebugAssumption DEF InjectionInv, DebugAssumption
      <3>2. Counted(debug).requests = debug.requests + 1 /\ Counted(debug).fail_after = debug.fail_after
        BY CountedFields DEF InjectionInv
      <3>3. Refuses(Counted(debug)) <=> debug.requests + 1 > debug.fail_after
        BY <3>2 DEF Refuses
      <3>4. debug.requests + 1 > debug.fail_after <=> budget = 0
        BY <3>1 DEF Injects, FailAt
      <3> QED
        BY <3>3, <3>4
    <2>2. debug.stop = "break" <=> due = 0
      BY DEF InjectionInv
    <2> QED
      BY <2>1, <2>2 DEF InjectionExact, Counted
  <1> QED
    BY <1>1, DebugInvariant, PTL
-----------------------------------------------------------------------------
(* Overruns.                                                                *)

\* what OverrunStops says of a step
Seen == \A b \in blocks \ blocks' : b.addr \in debug.torn => debug'.stop # Running

LEMMA DeallocSees ==
    ASSUME DebugAssumption, InjectionInv, NEW b, tda_dealloc(b)
    PROVE  Seen
  <1>1. /\ debug' = DebugDealloc(debug, b.addr, LayoutOf(b)) /\ blocks \ blocks' \subseteq {b}
        /\ IsDebug(debug) /\ debug.quarantine_len \in 0 .. QuarantineLen /\ debug.stop = Running
    BY DEF tda_dealloc, InjectionInv, Runs
  <1>2. b.addr \in debug.torn => debug'.stop # Running
    BY <1>1, DeallocFrames
  <1> QED
    BY <1>1, <1>2 DEF Seen

\* The new block lies elsewhere, as the table knows the old one, so the bytes behind the old
\* one are still torn when it is freed.
LEMMA ReallocSees ==
    ASSUME DebugAssumption, InjectionInv, NEW b, NEW size, NEW a, tda_realloc(b, size, a)
    PROVE  Seen
  <1>1. /\ Runs /\ DebugRemap(debug, b.addr, LayoutOf(b)) = debug
        /\ IsDebug(debug) /\ debug.quarantine_len \in 0 .. QuarantineLen /\ debug.stop = Running
    BY DEF tda_realloc, InjectionInv, Runs
  <1>2. TableFind(debug.table, b.addr) # Empty
    <2>1. CheckedEntry(debug, b.addr, LayoutOf(b)) = Running
      BY <1>1, RemapFrames
    <2> QED
      BY <2>1, CheckedEntryIs
  <1>3. PICK r \in DebugAlloc(debug, [size |-> size, align |-> b.align], a) :
           IF r.addr = Null THEN UNCHANGED blocks
           ELSE /\ debug' = DebugDealloc(r.debug, b.addr, LayoutOf(b))
                /\ blocks \ blocks' \subseteq {b}
    BY DEF tda_realloc
  <1>4. CASE r.addr = Null
    BY <1>3, <1>4 DEF Seen
  <1>5. CASE r.addr # Null
    <2>1. /\ IsDebug(r.debug) /\ r.debug.quarantine_len = debug.quarantine_len
          /\ TableFind(debug.table, a) = Empty
          /\ r.debug.torn = debug.torn \ {a} /\ r.debug.stop = Running
      BY <1>1, <1>3, <1>5, AllocFrames
    <2>2. a # b.addr
      BY <1>2, <2>1
    <2>3. b.addr \in r.debug.torn => DebugDealloc(r.debug, b.addr, LayoutOf(b)).stop # Running
      BY <1>1, <2>1, DeallocFrames
    <2>4. b.addr \in debug.torn => debug'.stop # Running
      BY <1>3, <1>5, <2>1, <2>2, <2>3
    <2> QED
      BY <1>3, <1>5, <2>4 DEF Seen
  <1> QED
    BY <1>4, <1>5

\* A block whose guard has been written over never leaves its holder without a report,
\* whether it is freed by the caller or at the end of tda_realloc, whatever the table holds.
THEOREM DebugOverrunStops == Spec => OverrunStops
  <1>1. ASSUME InjectionInv, Next PROVE Seen
    <2> USE <1>1, DebugAssumption
    <2>1. CASE \E b \in blocks : tda_dealloc(b)
      BY <2>1, DeallocSees
    <2>2. CASE \E b \in blocks : \E l \in Layouts, a \in Addrs : tda_realloc(b, l.size, a)
      BY <2>2, ReallocSees
    <2>3. CASE \E l \in Layouts, a \in Addrs : tda_alloc(l, a)
      <3>1. PICK l, a : tda_alloc(l, a)
        BY <2>3
      <3>2. blocks \ blocks' = {}
        BY <3>1 DEF tda_alloc
      <3> QED
        BY <3>2 DEF Seen
    <2>4. CASE UNCHANGED blocks
      BY <2>4 DEF Seen
    <2> QED
      BY <2>1, <2>2, <2>3, <2>4
      DEF Next, tda_debug_deinit, tda_debug_flush_quarantine, tda_debug_fail_after,
          tda_debug_break_at, UseStray, UseWrongLayout, WritePastEnd, WriteAfterFree
  <1>2. ASSUME InjectionInv, [Next]_vars PROVE [Seen]_vars
    BY <1>1, <1>2
  <1>3. Spec => []InjectionInv
    BY DebugInvariant
  <1>4. InjectionInv /\ [Next]_vars => [Seen]_vars
    BY <1>2
  <1>5. OverrunStops <=> [][Seen]_vars
    BY DEF OverrunStops, Seen
  <1> QED
    BY <1>3, <1>4, <1>5, PTL DEF Spec


-----------------------------------------------------------------------------
(* The books of the allocator.                                              *)

LEMMA HoldsCounts ==
    ASSUME NEW t, NEW B, Holds(t, B)
    PROVE  /\ IsFiniteSet(B) /\ t.len = Cardinality(B) /\ 2 * t.len <= t.cap
           /\ B \subseteq [addr : Addrs, size : Nat, align : Nat]
  <1>1. Sound(t) /\ B = {BlockOf(x) : x \in Records(t)} /\ Records(t) \subseteq BlockRecord
        /\ IsFiniteSet(Records(t)) /\ t.len = Cardinality(Records(t)) /\ 2 * t.len <= t.cap
    BY SoundIs DEF Holds
  <1>2. PICK f : f = [r \in Records(t) |-> BlockOf(r)]
    OBVIOUS
  <1>3. f = [r \in Records(t) |-> f[r]] /\ B = {f[r] : r \in Records(t)}
    BY <1>1, <1>2
  <1>4. \A x, y \in Records(t) : f[x] = f[y] => x = y
    <2>1. SUFFICES ASSUME NEW x \in Records(t), NEW y \in Records(t), f[x] = f[y] PROVE x = y
      OBVIOUS
    <2>2. x.addr = y.addr
      BY <1>1, <1>2, <2>1, BlockOfIs
    <2> QED
      BY <1>1, <2>2, RecordsApart
  <1>5. IsFiniteSet(B) /\ Cardinality(B) = Cardinality(Records(t))
    BY <1>1, <1>3, <1>4, OneEach
  <1>6. B \subseteq [addr : Addrs, size : Nat, align : Nat]
    BY <1>1, BlockOfIs
  <1> QED
    BY <1>1, <1>5, <1>6

\* the fields, whatever the callers do
Typed(d) ==
    /\ IsDebug(d) /\ d.parent \in BOOLEAN /\ d.stop \in Reports \cup {Running}
    /\ d.quarantine \in [Slots(QuarantineLen) -> Block \cup {Null}]
    /\ d.quarantine_head \in Slots(QuarantineLen) /\ d.quarantine_len \in 0 .. QuarantineLen
    /\ d.live_bytes \in Nat /\ d.peak_bytes \in Nat /\ d.live_bytes <= d.peak_bytes
    /\ d.requests \in Nat /\ d.fail_after \in 0 .. CountMax

\* the blocks freed at h, and no other, wait in the quarantine, the oldest first
Waits(d, h) ==
    /\ Len(h) = d.quarantine_len
    /\ \A i \in 1 .. Len(h) : Quarantined(d, i - 1) \in Block /\ Quarantined(d, i - 1).addr = h[i]
    /\ \A i, j \in 1 .. Len(h) : h[i] = h[j] => i = j

In(h, a) == \E i \in 1 .. Len(h) : h[i] = a

\* what is torn is a live block or a waiting one, by a misuse there was
Explained(S, B, h, m) ==
    \A a \in S :
       \/ a \in AddrsOf(B) /\ "past end" \in m
       \/ In(h, a) /\ "after free" \in m

\* What is true of a running allocator with the blocks B out, those at h freed last, and the
\* misuses m: no address is both, the parent has out what is one or the other, and what has
\* been written where it must not be is one or the other, by a misuse there was.
Books(d, B, h, m) ==
    /\ Waits(d, h)
    /\ B \subseteq Block /\ \A x, y \in B : x.addr = y.addr => x = y
    /\ \A b \in B : ~In(h, b.addr)
    /\ d.lent = {WithGuard(b) : b \in B \cup Quarantine(d)}
    /\ Explained(d.torn, B, h, m)

\* the table records the blocks, and their bytes are counted
Tabled(d, B) == Holds(d.table, B) /\ d.live_bytes = SizesOf(B)

\* e is d after a step that looks at the quarantine only
Same(d, e) ==
    /\ Typed(e) /\ e.table = d.table /\ e.live_bytes = d.live_bytes /\ e.peak_bytes = d.peak_bytes
    /\ e.parent = d.parent /\ e.requests = d.requests /\ e.torn = d.torn

LEMMA SameTrans == ASSUME NEW d, NEW e, NEW f, Same(d, e), Same(e, f) PROVE Same(d, f)
  BY DEF Same

\* The books tell of a history by what it holds.
LEMMA BooksOf ==
    ASSUME NEW d, NEW B, NEW h, NEW m, Books(d, B, h, m), NEW g, Len(g) = Len(h),
           \A i \in 1 .. Len(h) : g[i] = h[i]
    PROVE  Books(d, B, g, m)
  <1>1. \A a : In(g, a) <=> In(h, a)
    BY DEF In
  <1>2. Waits(d, g)
    BY DEF Books, Waits
  <1> QED
    BY <1>1, <1>2 DEF Books, Explained

\* The books do not look at the table, the counters or the parent, and what is torn may
\* change as long as a misuse explains it.
LEMMA BooksKept ==
    ASSUME NEW d, NEW B, NEW h, NEW m, Books(d, B, h, m), NEW n,
           NEW e, e.quarantine = d.quarantine, e.quarantine_head = d.quarantine_head,
           e.quarantine_len = d.quarantine_len, e.lent = d.lent,
           Explained(e.torn, B, h, n)
    PROVE  Books(e, B, h, n)
  <1>1. \A i : Quarantined(e, i) = Quarantined(d, i)
    BY DEF Quarantined
  <1>2. Quarantine(e) = Quarantine(d)
    BY <1>1 DEF Quarantine
  <1>3. Waits(e, h)
    <2>1. Waits(d, h)
      BY DEF Books
    <2> QED
      BY <1>1, <2>1 DEF Waits
  <1> QED
    BY <1>2, <1>3 DEF Books

\* The quarantine, counted from one.
LEMMA QuarantineFrom ==
    ASSUME NEW d, NEW n \in Nat, d.quarantine_len = n
    PROVE  Quarantine(d) = {Quarantined(d, i - 1) : i \in 1 .. n}
  <1> DEFINE Q(i) == Quarantined(d, i)
  <1>1. Quarantine(d) = {Q(i) : i \in 0 .. n - 1}
    BY DEF Quarantine
  <1> HIDE DEF Q
  <1>2. ASSUME NEW i \in 0 .. n - 1 PROVE Q(i) \in {Q(k - 1) : k \in 1 .. n}
    <2>1. PICK k \in 1 .. n : k - 1 = i
      <3>1. i + 1 \in 1 .. n /\ (i + 1) - 1 = i
        OBVIOUS
      <3> QED
        BY <3>1
    <2> QED
      BY <2>1
  <1>3. ASSUME NEW k \in 1 .. n PROVE Q(k - 1) \in {Q(i) : i \in 0 .. n - 1}
    <2>1. PICK i \in 0 .. n - 1 : k - 1 = i
      OBVIOUS
    <2> QED
      BY <2>1
  <1>4. Quarantine(d) = {Q(k - 1) : k \in 1 .. n}
    BY <1>1, <1>2, <1>3
  <1> QED
    BY <1>4 DEF Q

\* The quarantine is what waits.
LEMMA QuarantineIs ==
    ASSUME DebugAssumption, NEW d, Typed(d), NEW h, Waits(d, h)
    PROVE  /\ Quarantine(d) = {Quarantined(d, i - 1) : i \in 1 .. Len(h)}
           /\ Quarantine(d) \subseteq Block
           /\ \A a : a \in AddrsOf(Quarantine(d)) <=> In(h, a)
  <1>1. Len(h) \in Nat /\ Len(h) = d.quarantine_len
    BY DEF Waits, Typed
  <1>2. Quarantine(d) = {Quarantined(d, i - 1) : i \in 1 .. Len(h)}
    BY <1>1, QuarantineFrom
  <1>3. Quarantine(d) \subseteq Block
    BY <1>2 DEF Waits
  <1>4. ASSUME NEW a PROVE a \in AddrsOf(Quarantine(d)) <=> In(h, a)
    BY <1>2 DEF AddrsOf, In, Waits
  <1> QED
    BY <1>2, <1>3, <1>4

\* The addresses the parent has out.
LEMMA LentIs ==
    ASSUME DebugAssumption, NEW d, Typed(d), NEW B, NEW h, NEW m, Books(d, B, h, m)
    PROVE  \A a : a \in AddrsOf(d.lent) <=> a \in AddrsOf(B) \/ In(h, a)
  <1>1. \A b : WithGuard(b).addr = b.addr
    BY DEF WithGuard
  <1>2. Waits(d, h) /\ d.lent = {WithGuard(b) : b \in B \cup Quarantine(d)}
    BY DEF Books
  <1>3. \A a : a \in AddrsOf(Quarantine(d)) <=> In(h, a)
    BY <1>2, QuarantineIs
  <1> QED
    BY <1>1, <1>2, <1>3 DEF AddrsOf

\* Where the i-th waiting block is, and after the oldest has left.
LEMMA PlaceIs ==
    ASSUME DebugAssumption, NEW d, Typed(d)
    PROVE  /\ QuarantineLen \in Nat \ {0}
           /\ \A i \in Slots(QuarantineLen) :
                 (d.quarantine_head + i) % QuarantineLen \in Slots(QuarantineLen)
           /\ \A i, j \in Slots(QuarantineLen) :
                 (d.quarantine_head + i) % QuarantineLen = (d.quarantine_head + j) % QuarantineLen
                 => i = j
           /\ (d.quarantine_head + 1) % QuarantineLen \in Slots(QuarantineLen)
           /\ \A i \in Slots(QuarantineLen) :
                 i + 1 \in Slots(QuarantineLen)
                 => (((d.quarantine_head + 1) % QuarantineLen) + i) % QuarantineLen
                    = (d.quarantine_head + (i + 1)) % QuarantineLen
  <1>1. PICK n, h : /\ n = QuarantineLen /\ h = d.quarantine_head
                    /\ n \in Nat \ {0} /\ n \in Int /\ h \in 0 .. n - 1 /\ h \in Slots(n)
    BY DEF DebugAssumption, Typed, Slots
  <1>2. \A i \in Slots(n) : (h + i) % n \in Slots(n) /\ Ahead(h, (h + i) % n, n) = i
    BY <1>1, AheadIs
  <1>3. (h + 1) % n = IF h + 1 < n THEN h + 1 ELSE 0
    <2>1. PICK s \in Int : s = h + 1 /\ -n <= s /\ s < 2 * n /\ ~(s < 0)
      BY <1>1
    <2>2. s % n = IF s < n THEN s ELSE s - n
      BY <1>1, <2>1, RingMod, Zenon
    <2> QED
      BY <1>1, <2>1, <2>2
  <1>4. ASSUME NEW i \in Slots(n), i + 1 \in Slots(n)
        PROVE  (((h + 1) % n) + i) % n = (h + (i + 1)) % n
    <2>1. i \in 0 .. n - 2
      BY <1>1, <1>4 DEF Slots
    <2>2. CASE h + 1 < n
      <3>1. ((h + 1) % n) + i = h + (i + 1)
        <4>1. (h + 1) % n = h + 1
          BY <1>3, <2>2
        <4>2. (h + 1) + i = h + (i + 1)
          BY <1>1, <2>1
        <4> QED
          BY <4>1, <4>2
      <3> QED
        BY <3>1
    <2>3. CASE ~(h + 1 < n)
      <3>1. PICK s \in Int : s = h + (i + 1) /\ -n <= s /\ s < 2 * n /\ ~(s < 0) /\ s = n + i
        BY <1>1, <2>1, <2>3
      <3>2. s % n = i
        <4>1. s % n = IF s < n THEN s ELSE s - n
          BY <1>1, <3>1, RingMod, Zenon
        <4> QED
          BY <1>1, <2>1, <3>1, <4>1
      <3>3. ((h + 1) % n) + i = i
        BY <1>1, <1>3, <2>1, <2>3
      <3>4. i % n = i
        <4>1. i \in Int /\ -n <= i /\ i < 2 * n /\ ~(i < 0) /\ i < n
          BY <1>1, <2>1
        <4> QED
          BY <1>1, <4>1, RingMod, Zenon
      <3> QED
        BY <3>1, <3>2, <3>3, <3>4
    <2> QED
      BY <2>2, <2>3
  <1>5. (h + 1) % n \in Slots(n)
    BY <1>1, <1>3 DEF Slots
  <1> QED
    BY <1>1, <1>2, <1>4, <1>5

LEMMA ReportSame ==
    ASSUME NEW d, Typed(d), NEW what \in Reports
    PROVE  /\ Same(d, Report(d, what)) /\ Report(d, what).stop = what
           /\ Report(d, what).quarantine_len = d.quarantine_len
  <1>1. PICK e : e = Report(d, what)
    OBVIOUS
  <1>2. e = [parent |-> d.parent, table |-> d.table, quarantine |-> d.quarantine,
             quarantine_head |-> d.quarantine_head, quarantine_len |-> d.quarantine_len,
             live_bytes |-> d.live_bytes, peak_bytes |-> d.peak_bytes, requests |-> d.requests,
             fail_after |-> d.fail_after, break_at |-> d.break_at, lent |-> d.lent,
             torn |-> d.torn, stop |-> what]
    BY <1>1 DEF Report, Typed, IsDebug
  <1>3. IsDebug(e)
    BY <1>2 DEF IsDebug
  <1>4. /\ e.parent = d.parent /\ e.table = d.table /\ e.quarantine = d.quarantine
        /\ e.quarantine_head = d.quarantine_head /\ e.quarantine_len = d.quarantine_len
        /\ e.live_bytes = d.live_bytes /\ e.peak_bytes = d.peak_bytes /\ e.requests = d.requests
        /\ e.fail_after = d.fail_after /\ e.torn = d.torn /\ e.stop = what
    BY <1>2
  <1> QED
    BY <1>1, <1>3, <1>4 DEF Same, Typed

\* d has become r with its counters kept: it runs and the books are B, g and m, or it has
\* stopped for a misuse there was
Went(d, r, B, g, m) ==
    /\ Same(d, r)
    /\ r.stop # Running => r.stop \in m
    /\ r.stop = Running => Books(r, B, g, m)

\* The oldest leaves, to the parent or with a report of the one misuse that could have torn it.
LEMMA ReleaseOldestBooks ==
    ASSUME DebugAssumption, NEW d, Typed(d), d.stop = Running, NEW B, NEW h, NEW m,
           Books(d, B, h, m), Len(h) # 0,
           NEW g, Len(g) = Len(h) - 1, \A i \in 1 .. Len(g) : g[i] = h[i + 1],
           NEW r, r = ReleaseOldest(d)
    PROVE  Went(d, r, B, g, m)
  <1> DEFINE freed == Quarantined(d, 0)
             head == (d.quarantine_head + 1) % QuarantineLen
  <1>1. /\ Waits(d, h) /\ IsDebug(d) /\ Len(h) = d.quarantine_len /\ Len(h) \in Nat \ {0}
        /\ d.quarantine_len \in 0 .. QuarantineLen
    <2>1. Waits(d, h) /\ IsDebug(d) /\ d.quarantine_len \in 0 .. QuarantineLen
      BY DEF Books, Typed
    <2>2. Len(h) = d.quarantine_len
      BY <2>1 DEF Waits
    <2> QED
      BY <2>1, <2>2 DEF DebugAssumption
  <1>2. PICK e : e = [d EXCEPT !.quarantine_head = (@ + 1) % QuarantineLen, !.quarantine_len = @ - 1]
    OBVIOUS
  <1>3. /\ head \in Slots(QuarantineLen) /\ QuarantineLen \in Nat \ {0}
        /\ \A i \in Slots(QuarantineLen) :
              i + 1 \in Slots(QuarantineLen)
              => (head + i) % QuarantineLen = (d.quarantine_head + (i + 1)) % QuarantineLen
    BY PlaceIs
  <1>4. /\ e = [parent |-> d.parent, table |-> d.table, quarantine |-> d.quarantine,
                quarantine_head |-> head, quarantine_len |-> d.quarantine_len - 1,
                live_bytes |-> d.live_bytes, peak_bytes |-> d.peak_bytes, requests |-> d.requests,
                fail_after |-> d.fail_after, break_at |-> d.break_at, lent |-> d.lent,
                torn |-> d.torn, stop |-> d.stop]
    BY <1>1, <1>2 DEF IsDebug
  <1> HIDE DEF head
  <1>5. /\ e.quarantine = d.quarantine /\ e.quarantine_head = head
        /\ e.quarantine_len = d.quarantine_len - 1 /\ e.lent = d.lent /\ e.torn = d.torn /\ e.stop = d.stop
        /\ Same(d, e)
    BY <1>1, <1>3, <1>4 DEF Same, Typed, IsDebug
  <1>6. ASSUME NEW i \in 1 .. Len(g) PROVE Quarantined(e, i - 1) = Quarantined(d, (i + 1) - 1)
    <2>1. PICK j : j = i - 1 /\ j + 1 = (i + 1) - 1 /\ j \in Slots(QuarantineLen) /\ j + 1 \in Slots(QuarantineLen)
      <3>1. i - 1 \in Slots(QuarantineLen) /\ (i - 1) + 1 \in Slots(QuarantineLen)
            /\ (i - 1) + 1 = (i + 1) - 1
        BY <1>1, <1>3, <1>6 DEF Slots
      <3> QED
        BY <3>1
    <2>2. (head + j) % QuarantineLen = (d.quarantine_head + (j + 1)) % QuarantineLen
      BY <1>3, <2>1
    <2> QED
      BY <1>5, <2>1, <2>2 DEF Quarantined
  <1>7. \A i \in 1 .. Len(g) : i + 1 \in 1 .. Len(h)
    BY <1>1
  <1>8. /\ freed \in Block /\ freed.addr = h[1] /\ 1 \in 1 .. Len(h)
    BY <1>1 DEF Waits
  <1>9. Quarantine(d) = {freed} \cup Quarantine(e)
    <2>1. Quarantine(d) = {Quarantined(d, i - 1) : i \in 1 .. Len(h)}
      BY <1>1, QuarantineIs
    <2>2. Quarantine(e) = {Quarantined(e, i - 1) : i \in 1 .. Len(g)}
      <3>1. Len(g) \in Nat /\ e.quarantine_len = Len(g)
        BY <1>1, <1>5
      <3> QED
        BY <3>1, QuarantineFrom
    <2>3. \A i \in 1 .. Len(h) : i = 1 \/ (i - 1 \in 1 .. Len(g) /\ (i - 1) + 1 = i)
      BY <1>1
    <2>4. Quarantine(e) = {Quarantined(d, (i + 1) - 1) : i \in 1 .. Len(g)}
      BY <1>6, <2>2
    <2>5. Quarantined(d, 1 - 1) = freed
      OBVIOUS
    <2> HIDE DEF freed
    <2>6. {freed} \cup Quarantine(e) \subseteq Quarantine(d)
      BY <1>7, <1>8, <2>1, <2>4, <2>5
    <2>7. ASSUME NEW i \in 1 .. Len(h) PROVE Quarantined(d, i - 1) \in {freed} \cup Quarantine(e)
      BY <2>3, <2>4, <2>5
    <2> QED
      BY <2>1, <2>6, <2>7
  <1>10. Waits(e, g)
    <2>1. Len(g) = e.quarantine_len
      BY <1>1, <1>5
    <2>2. ASSUME NEW i \in 1 .. Len(g)
          PROVE  Quarantined(e, i - 1) \in Block /\ Quarantined(e, i - 1).addr = g[i]
      <3>1. PICK k : k = i + 1 /\ k \in 1 .. Len(h)
        BY <1>7
      <3>2. Quarantined(d, k - 1) \in Block /\ Quarantined(d, k - 1).addr = h[k]
        BY <1>1, <3>1 DEF Waits
      <3> QED
        BY <1>6, <3>1, <3>2
    <2>3. ASSUME NEW i \in 1 .. Len(g), NEW j \in 1 .. Len(g), g[i] = g[j] PROVE i = j
      <3>1. h[i + 1] = h[j + 1] /\ i + 1 \in 1 .. Len(h) /\ j + 1 \in 1 .. Len(h)
        BY <1>7, <2>3
      <3>2. i + 1 = j + 1
        BY <1>1, <3>1 DEF Waits
      <3> QED
        BY <3>2
    <2> QED
      BY <2>1, <2>2, <2>3 DEF Waits
  <1>11. \A a : In(h, a) <=> a = h[1] \/ In(g, a)
    <2>1. \A i \in 1 .. Len(h) : i = 1 \/ (i - 1 \in 1 .. Len(g) /\ (i - 1) + 1 = i)
      BY <1>1
    <2>2. ASSUME NEW a, In(h, a) PROVE a = h[1] \/ In(g, a)
      <3>1. PICK i \in 1 .. Len(h) : h[i] = a
        BY <2>2 DEF In
      <3>2. CASE i # 1
        <4>1. PICK j \in 1 .. Len(g) : j + 1 = i
          BY <2>1, <3>2
        <4> QED
          BY <3>1, <4>1 DEF In
      <3> QED
        BY <3>1, <3>2
    <2>3. ASSUME NEW a, In(g, a) PROVE In(h, a)
      BY <1>7, <2>3 DEF In
    <2>4. In(h, h[1])
      BY <1>8 DEF In
    <2> QED
      BY <2>2, <2>3, <2>4
  <1>12. ~In(g, h[1])
    BY <1>1, <1>7, <1>8 DEF In, Waits
  <1> HIDE DEF freed
  <1>13. CASE freed.addr \in d.torn
    <2>1. ReleaseOldest(d) = Report(e, "after free")
      BY <1>2, <1>13 DEF ReleaseOldest, freed
    <2>2. "after free" # Running /\ "after free" \in Reports
      BY DEF Reports, Running
    <2>3. /\ Same(d, Report(e, "after free")) /\ Report(e, "after free").stop = "after free"
          /\ Report(e, "after free").quarantine_len = d.quarantine_len - 1
      <3>1. Typed(e)
        BY <1>5 DEF Same
      <3>2. Same(e, Report(e, "after free"))
        BY <2>2, <3>1, ReportSame
      <3>3. Report(e, "after free").stop = "after free"
            /\ Report(e, "after free").quarantine_len = e.quarantine_len
        BY <2>2, <3>1, ReportSame
      <3> QED
        BY <1>5, <3>2, <3>3, SameTrans
    <2>4. "after free" \in m
      <3>1. ~(freed.addr \in AddrsOf(B))
        BY <1>8, <1>11 DEF Books, AddrsOf
      <3> QED
        BY <1>13, <3>1 DEF Books, Explained
    <2> QED
      BY <2>1, <2>2, <2>3, <2>4 DEF Went
  <1>14. CASE freed.addr \notin d.torn
    <2>1. PICK f, L : L = d.lent \ {WithGuard(freed)} /\ f = [e EXCEPT !.lent = L]
      OBVIOUS
    <2>2. ReleaseOldest(d) = f
      <3>1. f = [e EXCEPT !.lent = @ \ {WithGuard(freed)}]
        BY <1>5, <2>1
      <3> QED
        BY <1>2, <1>14, <3>1 DEF ReleaseOldest, freed
    <2>3. /\ Same(d, f) /\ f.quarantine = e.quarantine /\ f.quarantine_head = e.quarantine_head
          /\ f.quarantine_len = e.quarantine_len /\ f.lent = L /\ f.torn = d.torn /\ f.stop = Running
      BY <1>5, <2>1 DEF Same, Typed, IsDebug
    <2>4. Quarantine(f) = Quarantine(e) /\ Waits(f, g)
      BY <1>10, <2>3 DEF Quarantine, Quarantined, Waits
    <2>5. L = {WithGuard(b) : b \in B \cup Quarantine(f)}
      <3>1. d.lent = {WithGuard(b) : b \in B \cup Quarantine(d)}
        BY DEF Books
      <3>2. Quarantine(d) = {freed} \cup Quarantine(f)
        BY <1>9, <2>4
      <3>3. ASSUME NEW b \in B \cup Quarantine(f) PROVE WithGuard(b) # WithGuard(freed)
        <4>1. b.addr # freed.addr
          <5>1. CASE b \in B
            BY <1>8, <1>11, <5>1 DEF Books
          <5>2. CASE b \in Quarantine(f)
            <6>1. b.addr \in AddrsOf(Quarantine(f))
              BY <5>2 DEF AddrsOf
            <6>2. Typed(f)
              BY <2>3 DEF Same
            <6>3. In(g, b.addr)
              BY <2>4, <6>1, <6>2, QuarantineIs
            <6> QED
              BY <1>8, <1>12, <6>3
          <5> QED
            BY <3>3, <5>1, <5>2
        <4>2. WithGuard(b).addr = b.addr /\ WithGuard(freed).addr = freed.addr
          BY DEF WithGuard
        <4> QED
          BY <4>1, <4>2
      <3> QED
        BY <2>1, <3>1, <3>2, <3>3
    <2>6. \A a \in d.torn : a # h[1]
      BY <1>8, <1>14
    <2>7. /\ B \subseteq Block /\ \A x, y \in B : x.addr = y.addr => x = y
          /\ \A b \in B : ~In(g, b.addr)
          /\ Explained(d.torn, B, g, m)
      BY <1>11, <2>6 DEF Books, Explained
    <2>8. Books(f, B, g, m)
      BY <2>3, <2>4, <2>5, <2>7 DEF Books
    <2> QED
      BY <1>5, <2>2, <2>3, <2>8 DEF Went
  <1> QED
    BY <1>13, <1>14 DEF Went

\* The first n blocks of a quarantine leave it.
LEMMA ReleasedBooks ==
    ASSUME DebugAssumption, NEW d, Typed(d), d.stop = Running, NEW B, NEW h \in Seq(Addrs), NEW m,
           Books(d, B, h, m)
    PROVE  Went(d, Released(d, d.quarantine_len), B, <<>>, m)
  <1> DEFINE f == CHOOSE f : Releases(f, QuarantineLen, d)
             Good(i) == /\ Same(d, f[i])
                        /\ f[i].stop # Running => f[i].stop \in m
                        /\ f[i].stop = Running =>
                              \E g \in Seq(Addrs) : Books(f[i], B, g, m) /\ Len(g) = Len(h) - i
             T == {i \in Nat : i <= d.quarantine_len /\ ~Good(i)}
  <1>1. /\ QuarantineLen \in Nat /\ d.quarantine_len \in Nat /\ d.quarantine_len <= QuarantineLen
        /\ Len(h) = d.quarantine_len
    <2>1. /\ QuarantineLen \in Nat /\ d.quarantine_len \in 0 .. QuarantineLen /\ Waits(d, h)
      BY DEF DebugAssumption, Typed, Books
    <2>2. Len(h) = d.quarantine_len
      BY <2>1 DEF Waits
    <2> QED
      BY <2>1, <2>2
  <1>2. Releases(f, QuarantineLen, d)
    BY <1>1, ReleasesExists
  <1>3. Released(d, d.quarantine_len) = f[d.quarantine_len]
    BY DEF Released, Releases
  <1> HIDE DEF f
  <1>4. \A i \in 0 .. QuarantineLen : f[i] = IF i = 0 THEN d ELSE ReleaseOldest(f[i - 1])
    BY <1>2 DEF Releases
  <1>5. T = {}
    <2>1. SUFFICES ASSUME T # {} PROVE FALSE
      OBVIOUS
    <2>2. PICK i \in T : \A j \in T : i <= j
      BY <2>1, LeastNat
    <2>3. i \in 0 .. QuarantineLen /\ i <= d.quarantine_len /\ ~Good(i)
      BY <1>1
    <2>4. i # 0
      <3>1. f[0] = d
        BY <1>1, <1>4
      <3>2. Same(d, d)
        BY DEF Same
      <3>3. Good(0)
        BY <1>1, <3>1, <3>2
      <3> QED
        BY <2>3, <3>3
    <2>5. PICK j \in Nat : i = j + 1 /\ j = i - 1 /\ j \in 0 .. QuarantineLen /\ j < d.quarantine_len
      BY <1>1, <2>3, <2>4
    <2>6. Good(j)
      BY <1>1, <2>2, <2>5
    <2>7. PICK e : e = f[j]
      OBVIOUS
    <2>8. f[i] = ReleaseOldest(e)
      BY <1>4, <2>3, <2>4, <2>5, <2>7
    <2>9. CASE e.stop # Running
      <3>1. f[i] = e
        BY <2>8, <2>9 DEF ReleaseOldest
      <3>2. Good(i)
        BY <2>6, <2>7, <2>9, <3>1
      <3> QED
        BY <2>3, <3>2
    <2>10. CASE e.stop = Running
      <3>1. PICK g \in Seq(Addrs) : Books(e, B, g, m) /\ Len(g) = Len(h) - j
        BY <2>6, <2>7, <2>10
      <3>2. Len(g) # 0 /\ g # <<>>
        BY <1>1, <2>5, <3>1
      <3>3. PICK k : /\ k = Tail(g) /\ k \in Seq(Addrs) /\ Len(k) = Len(g) - 1
                     /\ \A x \in 1 .. Len(k) : k[x] = g[x + 1]
        <4>1. g \in Seq(Addrs) /\ g # <<>>
          BY <3>1, <3>2
        <4>2. Tail(g) \in Seq(Addrs)
          BY <4>1
        <4>3. Len(Tail(g)) = Len(g) - 1 /\ \A x \in 1 .. Len(Tail(g)) : Tail(g)[x] = g[x + 1]
          BY <4>1
        <4> QED
          BY <4>2, <4>3
      <3>4. Typed(e) /\ Same(d, e)
        BY <2>6, <2>7 DEF Same
      <3>5. /\ Same(e, f[i])
            /\ f[i].stop # Running => f[i].stop \in m
            /\ f[i].stop = Running => Books(f[i], B, k, m)
        <4>1. Books(e, B, g, m) /\ Len(g) # 0 /\ Typed(e) /\ Len(k) = Len(g) - 1
          BY <3>1, <3>2, <3>3, <3>4
        <4>2. \A x \in 1 .. Len(k) : k[x] = g[x + 1]
          BY <3>3
        <4>3. PICK q : q = ReleaseOldest(e)
          OBVIOUS
        <4>4. Went(e, q, B, k, m)
          BY <2>10, <4>1, <4>2, <4>3, ReleaseOldestBooks
        <4> QED
          BY <2>8, <4>3, <4>4 DEF Went
      <3>6. Len(k) = Len(h) - i
        BY <1>1, <2>5, <3>1, <3>3
      <3>7. Same(d, f[i])
        BY <3>4, <3>5, SameTrans
      <3>8. Good(i)
        BY <3>3, <3>5, <3>6, <3>7
      <3> QED
        BY <2>3, <3>8
    <2> QED
      BY <2>9, <2>10
  <1>6. Good(d.quarantine_len)
    BY <1>1, <1>5
  <1>7. ASSUME f[d.quarantine_len].stop = Running PROVE Books(f[d.quarantine_len], B, <<>>, m)
    <2>1. PICK e : e = f[d.quarantine_len]
      OBVIOUS
    <2>2. PICK g \in Seq(Addrs) : Books(e, B, g, m) /\ Len(g) = 0
      BY <1>1, <1>6, <1>7, <2>1
    <2>3. Len(<<>>) = Len(g) /\ \A i \in 1 .. Len(g) : <<>>[i] = g[i]
      BY <2>2
    <2>4. Books(e, B, <<>>, m)
      BY <2>2, <2>3, BooksOf
    <2> QED
      BY <2>1, <2>4
  <1> QED
    BY <1>3, <1>6, <1>7 DEF Went

\* e is d with b put behind the blocks that wait
Pushed(d, b, e) ==
    LET slot == (d.quarantine_head + d.quarantine_len) % QuarantineLen
    IN  e = [parent |-> d.parent, table |-> d.table, quarantine |-> [d.quarantine EXCEPT ![slot] = b],
             quarantine_head |-> d.quarantine_head, quarantine_len |-> d.quarantine_len + 1,
             live_bytes |-> d.live_bytes, peak_bytes |-> d.peak_bytes, requests |-> d.requests,
             fail_after |-> d.fail_after, break_at |-> d.break_at, lent |-> d.lent,
             torn |-> d.torn, stop |-> d.stop]

\* A live block goes into a quarantine that has a place for it.
LEMMA PushedBooks ==
    ASSUME DebugAssumption, NEW d, Typed(d), NEW B, NEW h \in Seq(Addrs), NEW m,
           Books(d, B, h, m), d.quarantine_len < QuarantineLen,
           NEW b \in B, b.addr \in Addrs, b.addr \notin d.torn,
           NEW e, Pushed(d, b, e)
    PROVE  Books(e, B \ {b}, Append(h, b.addr), m)
  <1>1. /\ Waits(d, h) /\ IsDebug(d) /\ Len(h) = d.quarantine_len /\ Len(h) \in Nat
        /\ Len(h) \in Slots(QuarantineLen) /\ b \in Block
    <2>1. Waits(d, h) /\ IsDebug(d) /\ d.quarantine_len \in 0 .. QuarantineLen /\ b \in Block
      BY DEF Books, Typed
    <2>2. Len(h) = d.quarantine_len
      BY <2>1 DEF Waits
    <2> QED
      BY <2>1, <2>2 DEF DebugAssumption, Slots
  <1>2. PICK slot, ring : /\ slot = (d.quarantine_head + d.quarantine_len) % QuarantineLen
                          /\ ring = [d.quarantine EXCEPT ![slot] = b]
    OBVIOUS
  <1>3. slot \in Slots(QuarantineLen)
    BY <1>1, <1>2, PlaceIs
  <1>5. /\ e.quarantine = ring /\ e.quarantine_head = d.quarantine_head
        /\ e.quarantine_len = d.quarantine_len + 1 /\ e.lent = d.lent /\ e.torn = d.torn
    BY <1>2 DEF Pushed
  <1>6. ring[slot] = b /\ \A i \in Slots(QuarantineLen) : i # slot => ring[i] = d.quarantine[i]
    BY <1>2, <1>3 DEF Typed
  <1>7. PICK g : /\ g = Append(h, b.addr) /\ Len(g) = Len(h) + 1 /\ g[Len(g)] = b.addr
                 /\ \A i \in 1 .. Len(h) : g[i] = h[i]
    <2>1. /\ Len(Append(h, b.addr)) = Len(h) + 1
          /\ Append(h, b.addr)[Len(h) + 1] = b.addr
          /\ \A i \in 1 .. Len(h) : Append(h, b.addr)[i] = h[i]
      OBVIOUS
    <2> QED
      BY <2>1
  <1>8. Quarantined(e, Len(g) - 1) = b
    <2>1. Len(g) - 1 = d.quarantine_len
      BY <1>1, <1>7
    <2> QED
      BY <1>2, <1>5, <1>6, <2>1 DEF Quarantined
  <1>9. ASSUME NEW i \in 1 .. Len(h) PROVE Quarantined(e, i - 1) = Quarantined(d, i - 1)
    <2>1. PICK j : j = i - 1 /\ j \in Slots(QuarantineLen) /\ j # d.quarantine_len
      <3>1. i - 1 \in Slots(QuarantineLen) /\ i - 1 # d.quarantine_len
        BY <1>1, <1>9 DEF Slots
      <3> QED
        BY <3>1
    <2>2. /\ (d.quarantine_head + j) % QuarantineLen \in Slots(QuarantineLen)
          /\ (d.quarantine_head + j) % QuarantineLen # slot
      BY <1>1, <1>2, <2>1, PlaceIs
    <2> QED
      BY <1>5, <1>6, <2>1, <2>2 DEF Quarantined
  <1>10. 1 .. Len(g) = 1 .. Len(h) \cup {Len(g)} /\ Len(g) \in Nat /\ Len(g) \notin 1 .. Len(h)
    BY <1>1, <1>7
  <1>11. ~In(h, b.addr)
    BY DEF Books
  <1>12. Waits(e, g)
    <2>1. Len(g) = e.quarantine_len
      BY <1>1, <1>5, <1>7
    <2>2. ASSUME NEW i \in 1 .. Len(g) PROVE Quarantined(e, i - 1) \in Block /\ Quarantined(e, i - 1).addr = g[i]
      BY <1>1, <1>7, <1>8, <1>9, <1>10 DEF Waits
    <2>3. ASSUME NEW i \in 1 .. Len(g), NEW j \in 1 .. Len(g), g[i] = g[j] PROVE i = j
      <3>1. CASE i \in 1 .. Len(h) /\ j \in 1 .. Len(h)
        BY <1>1, <1>7, <2>3, <3>1 DEF Waits
      <3>2. CASE i = Len(g) /\ j \in 1 .. Len(h)
        BY <1>7, <1>11, <2>3, <3>2 DEF In
      <3>3. CASE i \in 1 .. Len(h) /\ j = Len(g)
        BY <1>7, <1>11, <2>3, <3>3 DEF In
      <3> QED
        BY <1>10, <3>1, <3>2, <3>3
    <2> QED
      BY <2>1, <2>2, <2>3 DEF Waits
  <1>13. \A a : In(g, a) <=> In(h, a) \/ a = b.addr
    BY <1>7, <1>10 DEF In
  <1>14. Quarantine(e) = Quarantine(d) \cup {b}
    <2>1. Quarantine(d) = {Quarantined(d, i - 1) : i \in 1 .. Len(h)}
      BY <1>1, QuarantineIs
    <2>2. Quarantine(e) = {Quarantined(e, i - 1) : i \in 1 .. Len(g)}
      <3>1. Len(g) \in Nat /\ e.quarantine_len = Len(g)
        BY <1>1, <1>5, <1>7
      <3> QED
        BY <3>1, QuarantineFrom
    <2>3. Quarantine(e) \subseteq Quarantine(d) \cup {b}
      BY <1>8, <1>9, <1>10, <2>1, <2>2
    <2>4. b \in Quarantine(e)
      BY <1>8, <1>10, <2>2
    <2>5. Quarantine(d) \subseteq Quarantine(e)
      BY <1>9, <1>10, <2>1, <2>2
    <2> QED
      BY <2>3, <2>4, <2>5
  <1>15. e.lent = {WithGuard(x) : x \in (B \ {b}) \cup Quarantine(e)}
    <2>1. d.lent = {WithGuard(x) : x \in B \cup Quarantine(d)}
      BY DEF Books
    <2>2. (B \ {b}) \cup Quarantine(e) = B \cup Quarantine(d)
      BY <1>14
    <2> QED
      BY <1>5, <2>1, <2>2
  <1>16. \A x \in B \ {b} : ~In(g, x.addr)
    BY <1>13 DEF Books
  <1>17. \A a \in e.torn : \/ a \in AddrsOf(B \ {b}) /\ "past end" \in m
                           \/ In(g, a) /\ "after free" \in m
    <2>1. ASSUME NEW a \in d.torn PROVE \/ a \in AddrsOf(B \ {b}) /\ "past end" \in m
                                        \/ In(g, a) /\ "after free" \in m
      <3>1. a # b.addr
        OBVIOUS
      <3>2. a \in AddrsOf(B) => a \in AddrsOf(B \ {b})
        BY <3>1 DEF AddrsOf
      <3> QED
        BY <1>13, <3>2 DEF Books, Explained
    <2> QED
      BY <1>5, <2>1
  <1>18. B \ {b} \subseteq Block /\ \A x, y \in B \ {b} : x.addr = y.addr => x = y
    BY DEF Books
  <1> QED
    BY <1>7, <1>12, <1>15, <1>16, <1>17, <1>18 DEF Books, Explained

LEMMA PushedSame ==
    ASSUME DebugAssumption, NEW d, Typed(d), d.quarantine_len < QuarantineLen,
           NEW b \in Block, NEW e, Pushed(d, b, e)
    PROVE  Same(d, e) /\ e.stop = d.stop
  <1>1. PICK slot, ring, n : /\ slot = (d.quarantine_head + d.quarantine_len) % QuarantineLen
                             /\ ring = [d.quarantine EXCEPT ![slot] = b]
                             /\ n = d.quarantine_len + 1
    OBVIOUS
  <1>2. e = [parent |-> d.parent, table |-> d.table, quarantine |-> ring,
             quarantine_head |-> d.quarantine_head, quarantine_len |-> n,
             live_bytes |-> d.live_bytes, peak_bytes |-> d.peak_bytes, requests |-> d.requests,
             fail_after |-> d.fail_after, break_at |-> d.break_at, lent |-> d.lent,
             torn |-> d.torn, stop |-> d.stop]
    BY <1>1 DEF Pushed
  <1>3. ring \in [Slots(QuarantineLen) -> Block \cup {Null}] /\ n \in 0 .. QuarantineLen
    <2>1. ring \in [Slots(QuarantineLen) -> Block \cup {Null}]
      BY <1>1 DEF Typed
    <2>2. d.quarantine_len \in 0 .. QuarantineLen /\ QuarantineLen \in Nat
      BY DEF Typed, DebugAssumption
    <2> QED
      BY <1>1, <2>1, <2>2
  <1>4. IsDebug(e)
    BY <1>2 DEF IsDebug
  <1>5. /\ e.parent = d.parent /\ e.table = d.table /\ e.quarantine = ring
        /\ e.quarantine_head = d.quarantine_head /\ e.quarantine_len = n
        /\ e.live_bytes = d.live_bytes /\ e.peak_bytes = d.peak_bytes /\ e.requests = d.requests
        /\ e.fail_after = d.fail_after /\ e.torn = d.torn /\ e.stop = d.stop
    BY <1>2
  <1> QED
    BY <1>3, <1>4, <1>5 DEF Same, Typed

\* the addresses freed last, once a follows h
FreedLast(h, a) ==
    LET g == Append(h, a)
    IN  IF Len(g) > QuarantineLen THEN Tail(g) ELSE g

\* A live block goes into the quarantine, and the oldest leaves it if it was full.
LEMMA QuarantinePushBooks ==
    ASSUME DebugAssumption, NEW d, Typed(d), d.stop = Running, NEW B, NEW h \in Seq(Addrs), NEW m,
           Books(d, B, h, m), NEW b \in B, b.addr \notin d.torn, NEW r, r = QuarantinePush(d, b)
    PROVE  Went(d, r, B \ {b}, FreedLast(h, b.addr), m)
  <1>1. /\ QuarantineLen \in Nat \ {0} /\ d.quarantine_len \in 0 .. QuarantineLen /\ Waits(d, h)
        /\ b \in Block
    BY DEF DebugAssumption, Typed, Books
  <1>2. Len(h) = d.quarantine_len /\ Len(h) \in Nat
    BY <1>1 DEF Waits
  <1>3. PICK a \in Addrs : a = b.addr
    BY <1>1 DEF Block
  <1>4. PICK g : g = Append(h, a)
    OBVIOUS
  <1>5. g \in Seq(Addrs) /\ Len(g) = Len(h) + 1 /\ g[Len(h) + 1] = a /\ \A i \in 1 .. Len(h) : g[i] = h[i]
    BY <1>4
  <1>6. PICK e : e = IF d.quarantine_len = QuarantineLen THEN ReleaseOldest(d) ELSE d
    OBVIOUS
  <1>7. ASSUME Typed(e) PROVE Pushed(e, b, r)
    <2>1. PICK slot, ring : /\ slot = (e.quarantine_head + e.quarantine_len) % QuarantineLen
                            /\ ring = [e.quarantine EXCEPT ![slot] = b]
      OBVIOUS
    <2>2. r = [e EXCEPT !.quarantine_len = @ + 1, !.quarantine[slot] = b]
      BY <1>6, <2>1 DEF QuarantinePush
    <2>3. r = [e EXCEPT !.quarantine_len = @ + 1, !.quarantine = ring]
      BY <1>7, <2>1, <2>2 DEF Typed, IsDebug
    <2>4. r = [parent |-> e.parent, table |-> e.table, quarantine |-> ring,
               quarantine_head |-> e.quarantine_head, quarantine_len |-> e.quarantine_len + 1,
               live_bytes |-> e.live_bytes, peak_bytes |-> e.peak_bytes, requests |-> e.requests,
               fail_after |-> e.fail_after, break_at |-> e.break_at, lent |-> e.lent,
               torn |-> e.torn, stop |-> e.stop]
      BY <1>7, <2>3 DEF Typed, IsDebug
    <2> QED
      BY <2>1, <2>4 DEF Pushed
  <1>8. CASE d.quarantine_len # QuarantineLen
    <2>1. e = d /\ d.quarantine_len < QuarantineLen
      BY <1>1, <1>6, <1>8
    <2>2. Pushed(d, b, r)
      BY <1>7, <2>1
    <2>3. Same(d, r) /\ r.stop = Running
      BY <1>1, <2>1, <2>2, PushedSame
    <2>4. Books(r, B \ {b}, Append(h, b.addr), m)
      BY <1>3, <2>1, <2>2, PushedBooks
    <2>5. FreedLast(h, b.addr) = Append(h, b.addr)
      <3>1. ~(Len(g) > QuarantineLen)
        BY <1>1, <1>2, <1>5, <2>1
      <3> QED
        BY <1>3, <1>4, <3>1 DEF FreedLast
    <2> QED
      BY <2>3, <2>4, <2>5 DEF Went
  <1>9. CASE d.quarantine_len = QuarantineLen
    <2>1. e = ReleaseOldest(d) /\ Len(h) # 0 /\ h # <<>>
      BY <1>1, <1>2, <1>6, <1>9
    <2>2. PICK k : /\ k \in Seq(Addrs) /\ Len(k) = Len(h) - 1
                   /\ \A i \in 1 .. Len(k) : k[i] = h[i + 1]
      <3>1. Tail(h) \in Seq(Addrs)
        BY <2>1
      <3>2. Len(Tail(h)) = Len(h) - 1 /\ \A i \in 1 .. Len(Tail(h)) : Tail(h)[i] = h[i + 1]
        BY <2>1
      <3> QED
        BY <3>1, <3>2
    <2>3. Went(d, e, B, k, m) /\ e.quarantine_len = d.quarantine_len - 1
      <3>1. Went(d, e, B, k, m)
        BY <2>1, <2>2, ReleaseOldestBooks
      <3>2. IsDebug(d)
        BY DEF Typed
      <3> QED
        BY <2>1, <3>1, <3>2, ReleaseOldestFrames
    <2>4. Typed(e) /\ Same(d, e) /\ e.torn = d.torn /\ e.quarantine_len < QuarantineLen
      BY <1>1, <1>9, <2>3 DEF Went, Same
    <2>5. Pushed(e, b, r)
      BY <1>7, <2>4
    <2>6. Same(e, r) /\ r.stop = e.stop
      BY <1>1, <2>4, <2>5, PushedSame
    <2>7. Same(d, r)
      BY <2>4, <2>6, SameTrans
    <2>8. CASE e.stop # Running
      BY <2>3, <2>6, <2>7, <2>8 DEF Went
    <2>9. CASE e.stop = Running
      <3>1. Books(e, B, k, m)
        BY <2>3, <2>9 DEF Went
      <3>2. PICK p : p = Append(k, b.addr)
        OBVIOUS
      <3>3. Books(r, B \ {b}, p, m)
        BY <1>3, <2>2, <2>4, <2>5, <3>1, <3>2, PushedBooks
      <3>4. Len(p) = Len(k) + 1 /\ p[Len(k) + 1] = a /\ \A i \in 1 .. Len(k) : p[i] = k[i]
        BY <1>3, <2>2, <3>2
      <3>5. PICK q : q = Tail(g)
        OBVIOUS
      <3>6. Len(q) = Len(g) - 1 /\ \A i \in 1 .. Len(q) : q[i] = g[i + 1]
        <4>1. g # <<>>
          BY <1>2, <1>5
        <4>2. Len(Tail(g)) = Len(g) - 1
          BY <1>5, <4>1
        <4>3. \A i \in 1 .. Len(Tail(g)) : Tail(g)[i] = g[i + 1]
          BY <1>5, <4>1, <4>2, SMTT(30)
        <4> QED
          BY <3>5, <4>2, <4>3
      <3>7. Len(q) = Len(p)
        BY <1>2, <1>5, <2>2, <3>4, <3>6, SMTT(30)
      <3>8. ASSUME NEW i \in 1 .. Len(p) PROVE q[i] = p[i]
        <4>1. CASE i = Len(k) + 1
          <5>1. i \in 1 .. Len(q) /\ i + 1 = Len(h) + 1 /\ p[i] = a
            BY <1>2, <2>2, <3>4, <3>7, <4>1
          <5> QED
            BY <1>5, <3>6, <5>1
        <4>2. CASE i # Len(k) + 1
          <5>1. i \in 1 .. Len(k) /\ i + 1 \in 1 .. Len(h)
            BY <1>2, <2>2, <3>4, <4>2
          <5> QED
            BY <1>5, <2>2, <3>4, <3>6, <3>7, <5>1
        <4> QED
          BY <4>1, <4>2
      <3>9. Books(r, B \ {b}, q, m)
        BY <3>3, <3>7, <3>8, BooksOf
      <3>10. FreedLast(h, b.addr) = q
        <4>1. Len(g) > QuarantineLen
          BY <1>1, <1>2, <1>5, <1>9
        <4> QED
          BY <1>3, <1>4, <3>5, <4>1 DEF FreedLast
      <3> QED
        BY <2>6, <2>7, <2>9, <3>9, <3>10 DEF Went
    <2> QED
      BY <2>8, <2>9
  <1> QED
    BY <1>8, <1>9

-----------------------------------------------------------------------------
(* The requests.                                                            *)

\* a block of the layout l at a
BlockAt(l, a) == [addr |-> a, size |-> l.size, align |-> l.align]

Known(d, B, h, a) ==
    /\ TableFind(d.table, a) # Empty <=> a \in AddrsOf(B)
    /\ a \in AddrsOf(Quarantine(d)) <=> In(h, a)
    /\ a \in AddrsOf(d.lent) <=> a \in AddrsOf(B) \/ In(h, a)
    /\ \A b \in B : b.addr = a => LayoutOf(TableFind(d.table, a)) = LayoutOf(b)

\* What is known of a once the table and the quarantine have been asked.
LEMMA KnownIs ==
    ASSUME DebugAssumption, NEW d, Typed(d), NEW B, NEW h, NEW m, Books(d, B, h, m),
           Tabled(d, B), NEW a \in Addrs
    PROVE  Known(d, B, h, a)
  <1>1. Holds(d.table, B) /\ Waits(d, h)
    BY DEF Tabled, Books
  <1>2. /\ TableFind(d.table, a) # Empty <=> a \in AddrsOf(B)
        /\ \A b \in B : b.addr = a => BlockOf(TableFind(d.table, a)) = b
    BY <1>1, FindIs
  <1>3. a \in AddrsOf(Quarantine(d)) <=> In(h, a)
    BY <1>1, QuarantineIs
  <1>4. a \in AddrsOf(d.lent) <=> a \in AddrsOf(B) \/ In(h, a)
    BY LentIs
  <1>5. ASSUME NEW b \in B, b.addr = a PROVE LayoutOf(TableFind(d.table, a)) = LayoutOf(b)
    <2>1. PICK r : r = TableFind(d.table, a)
      OBVIOUS
    <2>2. BlockOf(r) = b
      BY <1>2, <1>5, <2>1
    <2>3. r.size = b.size /\ r.align = b.align
      BY <2>2 DEF BlockOf
    <2> QED
      BY <2>1, <2>3 DEF LayoutOf
  <1> QED
    BY <1>2, <1>3, <1>4, <1>5 DEF Known

\* d has answered r: it has stopped at an address it had out, or has no room to record the
\* block and is as it was, or has the block out.
Answers(d, B, h, m, l, a, r) ==
    /\ Typed(r.debug) /\ r.debug.parent = d.parent /\ r.answered = TRUE
    /\ \/ r.addr = Null /\ r.debug.stop = "parent repeats" /\ a \in AddrsOf(d.lent)
       \/ r.addr = Null /\ r.debug = d /\ a \notin AddrsOf(d.lent)
       \/ /\ r.addr = a /\ a \notin AddrsOf(d.lent) /\ r.debug.stop = Running
          /\ Books(r.debug, B \cup {BlockAt(l, a)}, h, m) /\ Tabled(r.debug, B \cup {BlockAt(l, a)})

\* e is d with the block of layout l at a recorded in the table t
Added(d, l, a, t, e) ==
    LET live == d.live_bytes + l.size
    IN  e = [parent |-> d.parent, table |-> t, quarantine |-> d.quarantine,
             quarantine_head |-> d.quarantine_head, quarantine_len |-> d.quarantine_len,
             live_bytes |-> live, peak_bytes |-> Larger(d.peak_bytes, live),
             requests |-> d.requests, fail_after |-> d.fail_after, break_at |-> d.break_at,
             lent |-> d.lent \cup {WithGuard(BlockAt(l, a))}, torn |-> d.torn \ {a},
             stop |-> d.stop]

\* A recorded block is in the books.
LEMMA AddedBooks ==
    ASSUME DebugAssumption, NEW d, Typed(d), d.stop = Running, NEW B, NEW h, NEW m,
           Books(d, B, h, m), Tabled(d, B), NEW l \in [size : Nat \ {0}, align : Nat \ {0}],
           NEW a \in Addrs, a \notin AddrsOf(d.lent), NEW grows \in BOOLEAN,
           NEW t \in TableInsert(d.table, [addr |-> a, size |-> l.size, align |-> l.align,
                                           serial |-> d.requests], grows),
           NEW e, Added(d, l, a, t, e)
    PROVE  /\ Typed(e) /\ e.parent = d.parent /\ e.stop = Running
           /\ Books(e, B \cup {BlockAt(l, a)}, h, m) /\ Tabled(e, B \cup {BlockAt(l, a)})
  <1>1. PICK b : b = BlockAt(l, a)
    OBVIOUS
  <1>2. /\ b \in Block /\ b.addr = a /\ b.size = l.size /\ b.size \in Nat
    BY <1>1 DEF BlockAt, Block
  <1>3. PICK live, peak, lent : /\ live = d.live_bytes + l.size /\ peak = Larger(d.peak_bytes, live)
                                /\ lent = d.lent \cup {WithGuard(b)}
    OBVIOUS
  <1>4. e = [parent |-> d.parent, table |-> t, quarantine |-> d.quarantine,
             quarantine_head |-> d.quarantine_head, quarantine_len |-> d.quarantine_len,
             live_bytes |-> live, peak_bytes |-> peak,
             requests |-> d.requests, fail_after |-> d.fail_after, break_at |-> d.break_at,
             lent |-> lent, torn |-> d.torn \ {a}, stop |-> d.stop]
    BY <1>1, <1>3 DEF Added
  <1>5. IsDebug(e)
    BY <1>4 DEF IsDebug
  <1>6. /\ e.parent = d.parent /\ e.table = t /\ e.quarantine = d.quarantine
        /\ e.quarantine_head = d.quarantine_head /\ e.quarantine_len = d.quarantine_len
        /\ e.live_bytes = live /\ e.peak_bytes = peak /\ e.requests = d.requests
        /\ e.fail_after = d.fail_after /\ e.lent = lent /\ e.torn = d.torn \ {a}
        /\ e.stop = Running
    BY <1>4
  <1>7. live \in Nat /\ peak \in Nat /\ live <= peak
    BY <1>3 DEF Typed, Larger
  <1>8. Typed(e)
    BY <1>5, <1>6, <1>7 DEF Typed
  <1>9. a \notin AddrsOf(B) /\ ~In(h, a)
    <2>1. Known(d, B, h, a)
      BY KnownIs
    <2> QED
      BY <2>1 DEF Known
  <1>10. Holds(t, B \cup {b})
    <2>1. PICK r : r = [addr |-> a, size |-> l.size, align |-> l.align, serial |-> d.requests]
      OBVIOUS
    <2>2. r \in BlockRecord /\ r.addr = a /\ BlockOf(r) = b
      BY <1>1, <2>1 DEF BlockRecord, Typed, BlockOf, BlockAt
    <2>3. Holds(d.table, B) /\ t \in TableInsert(d.table, r, grows)
      BY <2>1 DEF Tabled
    <2> QED
      BY <1>9, <2>2, <2>3, InsertHolds
  <1>11. b \notin B
    BY <1>2, <1>9 DEF AddrsOf
  <1>12. live = SizesOf(B \cup {b})
    <2>1. Holds(d.table, B) /\ d.live_bytes = SizesOf(B)
      BY DEF Tabled
    <2>2. IsFiniteSet(B) /\ B \subseteq [addr : Addrs, size : Nat, align : Nat]
      BY <2>1, HoldsCounts
    <2>3. \A x \in B : x.size \in Nat
      BY <2>2
    <2>4. SizesOf(B \cup {b}) = SizesOf(B) + b.size
      BY <1>2, <1>11, <2>2, <2>3, SizesAdd
    <2> QED
      BY <1>2, <1>3, <2>1, <2>4
  <1>13. Tabled(e, B \cup {b})
    BY <1>6, <1>10, <1>12 DEF Tabled
  <1>14. Waits(e, h) /\ Quarantine(e) = Quarantine(d)
    <2>1. \A i : Quarantined(e, i) = Quarantined(d, i)
      BY <1>6 DEF Quarantined
    <2>2. Waits(e, h)
      <3>1. Waits(d, h) /\ e.quarantine_len = d.quarantine_len
        BY <1>6 DEF Books
      <3> QED
        BY <2>1, <3>1 DEF Waits
    <2> QED
      BY <1>6, <2>1, <2>2 DEF Quarantine
  <1>15. lent = {WithGuard(x) : x \in (B \cup {b}) \cup Quarantine(e)}
    <2>1. d.lent = {WithGuard(x) : x \in B \cup Quarantine(d)}
      BY DEF Books
    <2> QED
      BY <1>3, <1>14, <2>1
  <1>16. /\ B \cup {b} \subseteq Block /\ \A x, y \in B \cup {b} : x.addr = y.addr => x = y
         /\ \A x \in B \cup {b} : ~In(h, x.addr)
    BY <1>2, <1>9 DEF Books, AddrsOf
  <1>17. \A c \in e.torn : \/ c \in AddrsOf(B \cup {b}) /\ "past end" \in m
                           \/ In(h, c) /\ "after free" \in m
    BY <1>6 DEF Books, AddrsOf, Explained
  <1>18. Books(e, B \cup {b}, h, m)
    BY <1>6, <1>14, <1>15, <1>16, <1>17 DEF Books, Explained
  <1> QED
    BY <1>1, <1>6, <1>8, <1>13, <1>18

LEMMA RecordedBooks ==
    ASSUME DebugAssumption, NEW d, Typed(d), d.stop = Running, NEW B, NEW h, NEW m,
           Books(d, B, h, m), Tabled(d, B), NEW l \in [size : Nat \ {0}, align : Nat \ {0}],
           CkdParentLayout(l) # Null, NEW a \in Addrs, NEW r \in Recorded(d, l, a)
    PROVE  Answers(d, B, h, m, l, a, r)
  <1> DEFINE rec == [addr |-> a, size |-> l.size, align |-> l.align, serial |-> d.requests]
             live == d.live_bytes + l.size
             loan == [addr |-> a, size |-> CkdParentLayout(l).size, align |-> l.align]
             known == TableFind(d.table, a) # Empty \/ a \in AddrsOf(Quarantine(d))
             With(t) == [d EXCEPT !.table = t, !.live_bytes = live, !.peak_bytes = Larger(@, live),
                                  !.torn = @ \ {a}, !.lent = @ \cup {loan}]
             Grow(grows) == {With(t) : t \in TableInsert(d.table, rec, grows)}
             repeats == [debug |-> Report(d, "parent repeats"), addr |-> Null, answered |-> TRUE]
             refusal == [debug |-> d, addr |-> Null, answered |-> TRUE]
  <1>1. Recorded(d, l, a) =
            IF known THEN {repeats}
            ELSE {[debug |-> e, addr |-> a, answered |-> TRUE] : e \in Grow(TRUE)}
                 \cup IF Grow(FALSE) # {} THEN {} ELSE {refusal}
    BY DEF Recorded
  <1>2. known <=> a \in AddrsOf(d.lent)
    <2>1. Known(d, B, h, a)
      BY KnownIs
    <2> QED
      BY <2>1 DEF Known
  <1>3. loan = WithGuard(BlockAt(l, a))
    <2>1. CkdAdd(l.size, GuardSize) # Null
      BY DEF CkdParentLayout
    <2>2. CkdAdd(l.size, GuardSize) = l.size + GuardSize
      BY <2>1 DEF CkdAdd
    <2>3. CkdParentLayout(l).size = l.size + GuardSize
      BY <2>1, <2>2 DEF CkdParentLayout
    <2> QED
      BY <2>3 DEF WithGuard, BlockAt
  <1> HIDE DEF loan, live
  <1>4. ASSUME NEW t PROVE Added(d, l, a, t, With(t))
    <2>1. PICK p, s, k : /\ p = Larger(d.peak_bytes, live) /\ s = d.torn \ {a}
                         /\ k = d.lent \cup {loan}
      OBVIOUS
    <2>2. With(t) = [d EXCEPT !.table = t, !.live_bytes = live, !.peak_bytes = p, !.torn = s, !.lent = k]
      BY <2>1 DEF IsDebug, Typed
    <2> HIDE DEF With
    <2>3. With(t) = [parent |-> d.parent, table |-> t, quarantine |-> d.quarantine,
             quarantine_head |-> d.quarantine_head, quarantine_len |-> d.quarantine_len,
             live_bytes |-> live, peak_bytes |-> p,
             requests |-> d.requests, fail_after |-> d.fail_after, break_at |-> d.break_at,
             lent |-> k, torn |-> s, stop |-> d.stop]
      BY <2>2 DEF IsDebug, Typed
    <2> QED
      BY <1>3, <2>1, <2>3 DEF Added, live
  <1> HIDE DEF With
  <1>5. CASE known
    <2>1. r = repeats
      BY <1>1, <1>5
    <2>2. "parent repeats" \in Reports
      BY DEF Reports
    <2>3. Same(d, Report(d, "parent repeats")) /\ Report(d, "parent repeats").stop = "parent repeats"
      BY <2>2, ReportSame
    <2>4. r.debug = Report(d, "parent repeats") /\ r.addr = Null /\ r.answered = TRUE
      BY <2>1
    <2> QED
      BY <1>2, <1>5, <2>3, <2>4 DEF Answers, Same
  <1>6. CASE ~known
    <2>1. r = refusal \/ \E t \in TableInsert(d.table, rec, TRUE) :
                            r = [debug |-> With(t), addr |-> a, answered |-> TRUE]
      <3>1. r \in {[debug |-> e, addr |-> a, answered |-> TRUE] : e \in Grow(TRUE)} \/ r = refusal
        BY <1>1, <1>6
      <3> QED
        BY <3>1
    <2>2. CASE r = refusal
      BY <1>2, <1>6, <2>2 DEF Answers
    <2>3. CASE r # refusal
      <3>1. PICK t \in TableInsert(d.table, rec, TRUE) :
                   r = [debug |-> With(t), addr |-> a, answered |-> TRUE]
        BY <2>1, <2>3
      <3>2. PICK e : e = With(t)
        OBVIOUS
      <3>3. Added(d, l, a, t, e)
        BY <1>4, <3>2
      <3>4. /\ Typed(e) /\ e.parent = d.parent /\ e.stop = Running
            /\ Books(e, B \cup {BlockAt(l, a)}, h, m) /\ Tabled(e, B \cup {BlockAt(l, a)})
        BY <1>2, <1>6, <3>1, <3>3, AddedBooks
      <3>5. r.debug = e /\ r.addr = a /\ r.answered = TRUE
        BY <3>1, <3>2
      <3> QED
        BY <1>2, <1>6, <3>4, <3>5 DEF Answers
    <2> QED
      BY <2>2, <2>3
  <1> QED
    BY <1>5, <1>6

LEMMA CountedTyped ==
    ASSUME NEW d, Typed(d), NEW c, c = Counted(d)
    PROVE  /\ Typed(c) /\ c.parent = d.parent /\ c.stop = d.stop /\ c.lent = d.lent
           /\ c.requests = d.requests + 1 /\ c.break_at = d.break_at
           /\ \A B, h, m : Books(d, B, h, m) => Books(c, B, h, m)
           /\ \A B : Tabled(d, B) => Tabled(c, B)
  <1>1. PICK n : n = d.requests + 1
    OBVIOUS
  <1>2. c = [parent |-> d.parent, table |-> d.table, quarantine |-> d.quarantine,
             quarantine_head |-> d.quarantine_head, quarantine_len |-> d.quarantine_len,
             live_bytes |-> d.live_bytes, peak_bytes |-> d.peak_bytes, requests |-> n,
             fail_after |-> d.fail_after, break_at |-> d.break_at, lent |-> d.lent,
             torn |-> d.torn, stop |-> d.stop]
    BY <1>1 DEF Counted, Typed, IsDebug
  <1>3. IsDebug(c)
    BY <1>2 DEF IsDebug
  <1>4. /\ c.parent = d.parent /\ c.table = d.table /\ c.quarantine = d.quarantine
        /\ c.quarantine_head = d.quarantine_head /\ c.quarantine_len = d.quarantine_len
        /\ c.live_bytes = d.live_bytes /\ c.peak_bytes = d.peak_bytes /\ c.requests = n
        /\ c.fail_after = d.fail_after /\ c.break_at = d.break_at /\ c.lent = d.lent
        /\ c.torn = d.torn /\ c.stop = d.stop
    BY <1>2
  <1>5. Typed(c)
    <2>1. n \in Nat
      BY <1>1 DEF Typed
    <2> QED
      BY <1>3, <1>4, <2>1 DEF Typed
  <1>8. ASSUME NEW B, NEW h, NEW m, Books(d, B, h, m) PROVE Books(c, B, h, m)
    <2>1. Explained(c.torn, B, h, m)
      BY <1>4, <1>8 DEF Books
    <2> QED
      BY <1>4, <1>8, <2>1, BooksKept
  <1>9. \A B : Tabled(d, B) => Tabled(c, B)
    BY <1>4 DEF Tabled
  <1> QED
    BY <1>1, <1>4, <1>5, <1>8, <1>9

\* What a request comes to: a break it was set for, an answer out of the books, a refusal,
\* or a block.
Requested(d, B, h, m, l, a, r) ==
    /\ Typed(r.debug) /\ r.debug.parent = d.parent
    /\ \/ r.addr = Null /\ ~r.answered /\ r.debug.stop = "break"
       \/ /\ r.addr = Null /\ r.debug.stop = Running
          /\ r.answered => a \notin AddrsOf(d.lent)
          /\ Books(r.debug, B, h, m) /\ Tabled(r.debug, B)
       \/ r.addr = Null /\ r.debug.stop = "parent repeats" /\ r.answered /\ a \in AddrsOf(d.lent)
       \/ /\ r.addr = a /\ r.answered /\ a \notin AddrsOf(d.lent) /\ r.debug.stop = Running
          /\ Books(r.debug, B \cup {BlockAt(l, a)}, h, m) /\ Tabled(r.debug, B \cup {BlockAt(l, a)})

LEMMA AllocBooks ==
    ASSUME DebugAssumption, NEW d, Typed(d), d.stop = Running, NEW B, NEW h, NEW m,
           Books(d, B, h, m), Tabled(d, B), NEW l \in [size : Nat \ {0}, align : Nat \ {0}],
           NEW a \in Addrs, NEW r \in DebugAlloc(d, l, a)
    PROVE  Requested(d, B, h, m, l, a, r)
  <1>1. PICK c : c = Counted(d)
    OBVIOUS
  <1>2. /\ Typed(c) /\ c.parent = d.parent /\ c.stop = Running /\ c.lent = d.lent
        /\ c.requests = d.requests + 1 /\ c.break_at = d.break_at
        /\ Books(c, B, h, m) /\ Tabled(c, B)
    BY <1>1, CountedTyped
  <1>3. \/ /\ Breaks(c)
           /\ r = [debug |-> Report(c, "break"), addr |-> Null, answered |-> FALSE]
        \/ r = [debug |-> c, addr |-> Null, answered |-> FALSE]
        \/ CkdParentLayout(l) # Null /\ r \in Recorded(c, l, a)
    BY <1>1 DEF DebugAlloc, Counted
  <1>4. CASE Breaks(c) /\ r = [debug |-> Report(c, "break"), addr |-> Null, answered |-> FALSE]
    <2>1. r.debug = Report(c, "break") /\ r.addr = Null /\ r.answered = FALSE
      BY <1>4
    <2>2. "break" \in Reports
      BY DEF Reports
    <2>3. Same(c, r.debug) /\ r.debug.stop = "break"
      BY <1>2, <2>1, <2>2, ReportSame
    <2> QED
      BY <1>2, <2>1, <2>3 DEF Requested, Same
  <1>5. CASE r = [debug |-> c, addr |-> Null, answered |-> FALSE]
    <2>1. r.debug = c /\ r.addr = Null /\ r.answered = FALSE
      BY <1>5
    <2> QED
      BY <1>2, <2>1 DEF Requested
  <1>6. CASE CkdParentLayout(l) # Null /\ r \in Recorded(c, l, a)
    <2>1. Answers(c, B, h, m, l, a, r)
      BY <1>2, <1>6, RecordedBooks
    <2> QED
      BY <1>2, <2>1 DEF Answers, Requested
  <1> QED
    BY <1>3, <1>4, <1>5, <1>6

-----------------------------------------------------------------------------
(* The frees.                                                               *)

\* What a free or a look at an address comes to.
Checked(d, B, h, a, l) ==
    /\ CheckedEntry(d, a, l) \in Reports \cup {Running}
    /\ \A b \in B : b.addr = a =>
          CheckedEntry(d, a, l) = IF LayoutOf(b) = l THEN Running ELSE "layout"
    /\ a \notin AddrsOf(B) =>
          CheckedEntry(d, a, l) = IF In(h, a) THEN "freed twice" ELSE "not ours"

LEMMA CheckIs ==
    ASSUME DebugAssumption, NEW d, Typed(d), NEW B, NEW h, NEW m, Books(d, B, h, m),
           Tabled(d, B), NEW a \in Addrs, NEW l
    PROVE  Checked(d, B, h, a, l)
  <1>1. /\ TableFind(d.table, a) # Empty <=> a \in AddrsOf(B)
        /\ a \in AddrsOf(Quarantine(d)) <=> In(h, a)
        /\ \A b \in B : b.addr = a => LayoutOf(TableFind(d.table, a)) = LayoutOf(b)
    <2>1. Known(d, B, h, a)
      BY KnownIs
    <2> QED
      BY <2>1 DEF Known
  <1>2. ASSUME NEW b \in B, b.addr = a
        PROVE  CheckedEntry(d, a, l) = IF LayoutOf(b) = l THEN Running ELSE "layout"
    <2>1. TableFind(d.table, a) # Empty /\ LayoutOf(TableFind(d.table, a)) = LayoutOf(b)
      BY <1>1, <1>2 DEF AddrsOf
    <2> QED
      BY <2>1 DEF CheckedEntry
  <1>3. ASSUME a \notin AddrsOf(B)
        PROVE  CheckedEntry(d, a, l) = IF In(h, a) THEN "freed twice" ELSE "not ours"
    <2>1. TableFind(d.table, a) = Empty
      BY <1>1, <1>3
    <2> QED
      BY <1>1, <2>1 DEF CheckedEntry
  <1>4. CheckedEntry(d, a, l) \in Reports \cup {Running}
    BY DEF CheckedEntry, Reports
  <1> QED
    BY <1>2, <1>3, <1>4 DEF Checked

\* e is d after a free or a look that stopped it, or did nothing
LEMMA RemapSame ==
    ASSUME NEW d, Typed(d), NEW w \in Reports \cup {Running}, NEW e, e = Report(d, w)
    PROVE  Typed(e) /\ e.parent = d.parent /\ e.stop = w
  <1>1. e = [parent |-> d.parent, table |-> d.table, quarantine |-> d.quarantine,
             quarantine_head |-> d.quarantine_head, quarantine_len |-> d.quarantine_len,
             live_bytes |-> d.live_bytes, peak_bytes |-> d.peak_bytes, requests |-> d.requests,
             fail_after |-> d.fail_after, break_at |-> d.break_at, lent |-> d.lent,
             torn |-> d.torn, stop |-> w]
    BY DEF Report, Typed, IsDebug
  <1>2. IsDebug(e)
    BY <1>1 DEF IsDebug
  <1>3. /\ e.parent = d.parent /\ e.table = d.table /\ e.quarantine = d.quarantine
        /\ e.quarantine_head = d.quarantine_head /\ e.quarantine_len = d.quarantine_len
        /\ e.live_bytes = d.live_bytes /\ e.peak_bytes = d.peak_bytes /\ e.requests = d.requests
        /\ e.fail_after = d.fail_after /\ e.stop = w
    BY <1>1
  <1> QED
    BY <1>2, <1>3 DEF Typed

\* What a free comes to: a misuse there was, or one block less.
Frees(d, B, h, m, b, r) ==
    /\ Typed(r) /\ r.parent = d.parent
    /\ r.stop # Running => r.stop \in m
    /\ r.stop = Running =>
          Books(r, B \ {b}, FreedLast(h, b.addr), m) /\ Tabled(r, B \ {b})

LEMMA DeallocBooks ==
    ASSUME DebugAssumption, NEW d, Typed(d), d.stop = Running, NEW B, NEW h \in Seq(Addrs), NEW m,
           Books(d, B, h, m), Tabled(d, B), NEW b \in B,
           NEW r, r = DebugDealloc(d, b.addr, LayoutOf(b))
    PROVE  Frees(d, B, h, m, b, r)
  <1>1. PICK a, l : a \in Addrs /\ a = b.addr /\ l = LayoutOf(b)
    <2>1. b \in Block
      BY DEF Books
    <2> QED
      BY <2>1 DEF Block
  <1>2. CheckedEntry(d, a, l) = Running
    <2>1. Checked(d, B, h, a, l)
      BY <1>1, CheckIs
    <2> QED
      BY <1>1, <2>1 DEF Checked
  <1>3. b \in Block /\ b = [addr |-> a, size |-> l.size, align |-> l.align] /\ l.size = b.size
    BY <1>1 DEF Books, Block, LayoutOf
  <1>4. CASE a \in d.torn
    <2>1. r = Report(d, "past end")
      BY <1>1, <1>2, <1>4 DEF DebugDealloc
    <2>2. "past end" \in m
      <3>1. ~In(h, a) /\ Explained(d.torn, B, h, m)
        BY <1>1, SMTT(30) DEF Books
      <3> QED
        BY <1>4, <3>1 DEF Explained
    <2>3. "past end" \in Reports /\ "past end" # Running
      BY DEF Reports, Running
    <2>4. Typed(r) /\ r.parent = d.parent /\ r.stop = "past end"
      BY <2>1, <2>3, RemapSame
    <2> QED
      BY <2>2, <2>3, <2>4 DEF Frees
  <1>5. CASE a \notin d.torn
    <2>1. PICK t, n : t = TableTake(d.table, a) /\ n = d.live_bytes - l.size
      OBVIOUS
    <2>2. PICK e : e = [d EXCEPT !.table = t, !.live_bytes = n]
      OBVIOUS
    <2>3. r = QuarantinePush(e, b)
      <3>1. e = [d EXCEPT !.table = TableTake(d.table, a), !.live_bytes = @ - l.size]
        BY <2>1, <2>2 DEF Typed, IsDebug
      <3> QED
        BY <1>1, <1>2, <1>3, <1>5, <3>1 DEF DebugDealloc
    <2>4. Holds(t, B \ {b}) /\ n = SizesOf(B \ {b}) /\ n \in Nat /\ n <= d.live_bytes
      <3>1. Holds(d.table, B) /\ d.live_bytes = SizesOf(B)
        BY DEF Tabled
      <3>2. IsFiniteSet(B) /\ B \subseteq [addr : Addrs, size : Nat, align : Nat]
        BY <3>1, HoldsCounts
      <3>3. \A x \in B : x.size \in Nat
        BY <3>2
      <3>4. SizesOf(B) = b.size + SizesOf(B \ {b}) /\ SizesOf(B \ {b}) \in Nat
        BY <3>2, <3>3, SizesTake
      <3>5. Holds(t, B \ {b})
        BY <1>1, <2>1, <3>1, TakeHolds
      <3> QED
        BY <1>3, <2>1, <3>1, <3>3, <3>4, <3>5
    <2>5. e = [parent |-> d.parent, table |-> t, quarantine |-> d.quarantine,
             quarantine_head |-> d.quarantine_head, quarantine_len |-> d.quarantine_len,
             live_bytes |-> n, peak_bytes |-> d.peak_bytes, requests |-> d.requests,
             fail_after |-> d.fail_after, break_at |-> d.break_at, lent |-> d.lent,
             torn |-> d.torn, stop |-> d.stop]
      BY <2>2 DEF Typed, IsDebug
    <2>6. IsDebug(e)
      BY <2>5 DEF IsDebug
    <2>7. /\ e.parent = d.parent /\ e.table = t /\ e.quarantine = d.quarantine
          /\ e.quarantine_head = d.quarantine_head /\ e.quarantine_len = d.quarantine_len
          /\ e.live_bytes = n /\ e.peak_bytes = d.peak_bytes /\ e.requests = d.requests
          /\ e.fail_after = d.fail_after /\ e.lent = d.lent /\ e.torn = d.torn /\ e.stop = Running
      BY <2>5
    <2>8. Typed(e)
      BY <2>4, <2>6, <2>7 DEF Typed
    <2>9. Books(e, B, h, m)
      <3>1. Explained(e.torn, B, h, m)
        BY <2>7 DEF Books
      <3> QED
        BY <2>7, <3>1, BooksKept
    <2>10. Went(e, r, B \ {b}, FreedLast(h, b.addr), m)
      BY <1>1, <1>5, <2>3, <2>7, <2>8, <2>9, QuarantinePushBooks
    <2>11. Typed(r) /\ r.parent = d.parent /\ r.table = t /\ r.live_bytes = n
      BY <2>7, <2>10 DEF Went, Same
    <2> QED
      BY <2>4, <2>10, <2>11 DEF Went, Frees, Tabled
  <1> QED
    BY <1>4, <1>5

-----------------------------------------------------------------------------
(* The invariant.                                                           *)

\* Once the allocator has given up its parent its table is empty, whatever is still out.
BooksInv(d, B, h, m) ==
    /\ Typed(d) /\ B \subseteq Block /\ h \in Seq(Addrs)
    /\ d.stop # Running => d.stop \in m \cup {"break"}
    /\ d.stop = Running => Books(d, B, h, m) /\ m \cap AtOnce = {}
    /\ d.parent /\ d.stop = Running => Tabled(d, B)

DebugInv == BooksInv(debug, blocks, history, misuse)

LEMMA InitBooks == ASSUME DebugAssumption, Init PROVE DebugInv
  <1>1. IsDebug(debug)
    BY DEF Init, IsDebug
  <1>2. /\ debug.parent = TRUE /\ debug.table = NewTable
        /\ debug.quarantine = [i \in 0 .. QuarantineLen - 1 |-> Null]
        /\ debug.quarantine_head = 0 /\ debug.quarantine_len = 0
        /\ debug.live_bytes = 0 /\ debug.peak_bytes = 0 /\ debug.requests = 0
        /\ debug.fail_after = CountMax /\ debug.lent = {} /\ debug.torn = {} /\ debug.stop = Running
        /\ blocks = {} /\ misuse = {} /\ history = <<>>
    BY DEF Init
  <1>3. Typed(debug)
    BY <1>1, <1>2 DEF Typed, Slots, DebugAssumption
  <1>4. Len(history) = 0 /\ history \in Seq(Addrs) /\ \A a : ~In(history, a)
    BY <1>2 DEF In
  <1>5. Waits(debug, history)
    BY <1>2, <1>4 DEF Waits
  <1>6. Quarantine(debug) = {}
    BY <1>2 DEF Quarantine
  <1>7. Books(debug, blocks, history, misuse)
    BY <1>2, <1>4, <1>5, <1>6 DEF Books, Explained
  <1>8. Tabled(debug, blocks)
    <2>1. Sound(NewTable) /\ Records(NewTable) = {}
      BY NewTableIs DEF Sound
    <2>2. Holds(NewTable, {})
      BY <2>1 DEF Holds
    <2> QED
      BY <1>2, <2>2, SizesOfNone DEF Tabled
  <1> QED
    BY <1>2, <1>3, <1>4, <1>7, <1>8 DEF DebugInv, BooksInv

\* What holds while the program runs.
LEMMA RunsBooks ==
    ASSUME DebugInv, Runs
    PROVE  /\ Typed(debug) /\ debug.stop = Running /\ debug.parent = TRUE /\ blocks \subseteq Block
           /\ history \in Seq(Addrs) /\ Books(debug, blocks, history, misuse)
           /\ Tabled(debug, blocks) /\ misuse \cap AtOnce = {}
  BY DEF DebugInv, BooksInv, Runs, Typed

\* The invariant, of the state a step leads to.
LEMMA BooksInvIs ==
    ASSUME DebugInv, NEW d, NEW B, NEW h, NEW m, Typed(d), B \subseteq Block, h \in Seq(Addrs),
           d.stop # Running => d.stop \in m \cup {"break"},
           d.stop = Running => Books(d, B, h, m),
           d.stop = Running => m \cap AtOnce = {},
           d.parent /\ d.stop = Running => Tabled(d, B),
           debug' = d, blocks' = B, history' = h, misuse' = m
    PROVE  DebugInv'
  BY DEF DebugInv, BooksInv

LEMMA FlushStays ==
    ASSUME DebugAssumption, DebugInv, tda_debug_flush_quarantine
    PROVE  DebugInv'
  <1>1. /\ Runs /\ debug' = Released(debug, debug.quarantine_len) /\ history' = <<>>
        /\ blocks' = blocks /\ misuse' = misuse
    BY DEF tda_debug_flush_quarantine
  <1>2. PICK d : d = debug'
    OBVIOUS
  <1>3. Went(debug, d, blocks, <<>>, misuse)
    BY <1>1, <1>2, RunsBooks, ReleasedBooks
  <1>4. Tabled(d, blocks)
    BY <1>1, <1>3, RunsBooks DEF Went, Same, Tabled
  <1>5. <<>> \in Seq(Addrs)
    OBVIOUS
  <1> QED
    BY <1>1, <1>2, <1>3, <1>4, <1>5, RunsBooks, BooksInvIs DEF Went, Same

LEMMA DeinitStays ==
    ASSUME DebugAssumption, DebugInv, tda_debug_deinit
    PROVE  DebugInv'
  <1>1. /\ Runs /\ history' = <<>> /\ blocks' = blocks /\ misuse' = misuse
    BY DEF tda_debug_deinit
  <1>2. PICK d : d = Released(debug, debug.quarantine_len)
    OBVIOUS
  <1>3. Went(debug, d, blocks, <<>>, misuse)
    BY <1>1, <1>2, RunsBooks, ReleasedBooks
  <1>4. <<>> \in Seq(Addrs)
    OBVIOUS
  <1>5. CASE d.stop # Running
    <2>1. debug' = d
      BY <1>2, <1>5 DEF tda_debug_deinit
    <2> QED
      BY <1>1, <1>3, <1>4, <1>5, <2>1, RunsBooks, BooksInvIs DEF Went, Same
  <1>6. CASE d.stop = Running
    <2>1. Typed(d) /\ Books(d, blocks, <<>>, misuse)
      BY <1>3, <1>6 DEF Went, Same
    <2>2. PICK e : e = debug'
      OBVIOUS
    <2>3. e = [d EXCEPT !.parent = FALSE, !.table = NewTable, !.live_bytes = 0,
                        !.peak_bytes = 0, !.requests = 0, !.fail_after = 0, !.break_at = 0]
      BY <1>2, <1>6, <2>2 DEF tda_debug_deinit
    <2>4. e = [parent |-> FALSE, table |-> NewTable, quarantine |-> d.quarantine,
               quarantine_head |-> d.quarantine_head, quarantine_len |-> d.quarantine_len,
               live_bytes |-> 0, peak_bytes |-> 0, requests |-> 0,
               fail_after |-> 0, break_at |-> 0, lent |-> d.lent,
               torn |-> d.torn, stop |-> d.stop]
      BY <2>1, <2>3 DEF Typed, IsDebug
    <2>5. IsDebug(e)
      BY <2>4 DEF IsDebug
    <2>6. /\ e.parent = FALSE /\ e.quarantine = d.quarantine
          /\ e.quarantine_head = d.quarantine_head /\ e.quarantine_len = d.quarantine_len
          /\ e.live_bytes = 0 /\ e.peak_bytes = 0 /\ e.requests = 0
          /\ e.fail_after = 0 /\ e.lent = d.lent /\ e.torn = d.torn /\ e.stop = Running
      BY <1>6, <2>4
    <2>7. Typed(e)
      <3>1. 0 \in 0 .. CountMax /\ 0 \in Nat /\ 0 <= 0
        BY DEF DebugAssumption
      <3>2. /\ d.quarantine \in [Slots(QuarantineLen) -> Block \cup {Null}]
            /\ d.quarantine_head \in Slots(QuarantineLen)
            /\ d.quarantine_len \in 0 .. QuarantineLen
        BY <2>1 DEF Typed
      <3> QED
        BY <2>5, <2>6, <3>1, <3>2 DEF Typed
    <2>8. Books(e, blocks, <<>>, misuse)
      <3>1. Explained(e.torn, blocks, <<>>, misuse)
        BY <2>1, <2>6 DEF Books
      <3> QED
        BY <2>1, <2>6, <3>1, BooksKept
    <2> QED
      BY <1>1, <1>4, <2>2, <2>6, <2>7, <2>8, RunsBooks, BooksInvIs
  <1> QED
    BY <1>5, <1>6

\* A step that sets a field the books do not look at, or writes where it must not.
LEMMA FieldBooks ==
    ASSUME DebugAssumption, DebugInv, Runs, NEW e, debug' = e, IsDebug(e), NEW m, misuse' = m,
           blocks' = blocks, history' = history,
           e.parent = debug.parent, e.table = debug.table, e.quarantine = debug.quarantine,
           e.quarantine_head = debug.quarantine_head, e.quarantine_len = debug.quarantine_len,
           e.live_bytes = debug.live_bytes, e.peak_bytes = debug.peak_bytes,
           e.requests = debug.requests, e.fail_after \in 0 .. CountMax, e.lent = debug.lent,
           e.stop = debug.stop, Explained(e.torn, blocks, history, m),
           m \cap AtOnce = {}
    PROVE  DebugInv'
  <1>1. /\ Typed(debug) /\ debug.stop = Running /\ debug.parent = TRUE /\ blocks \subseteq Block
        /\ history \in Seq(Addrs) /\ Books(debug, blocks, history, misuse) /\ Tabled(debug, blocks)
    BY RunsBooks
  <1>2. Typed(e)
    BY <1>1 DEF Typed
  <1>3. Books(e, blocks, history, m)
    BY <1>1, BooksKept
  <1>4. Tabled(e, blocks)
    BY <1>1 DEF Tabled
  <1> QED
    BY <1>1, <1>2, <1>3, <1>4, BooksInvIs

LEMMA FailAfterStays ==
    ASSUME DebugAssumption, DebugInv, NEW count \in FailAfter, tda_debug_fail_after(count)
    PROVE  DebugInv'
  <1>1. PICK n : n = FailAt(count)
    OBVIOUS
  <1>2. /\ Runs /\ debug' = [debug EXCEPT !.fail_after = n]
        /\ blocks' = blocks /\ history' = history /\ misuse' = misuse
    BY <1>1 DEF tda_debug_fail_after
  <1>3. /\ Typed(debug) /\ Books(debug, blocks, history, misuse)
        /\ misuse \cap AtOnce = {}
    BY <1>2, RunsBooks
  <1>4. n \in 0 .. CountMax
    <2>1. count \in Nat /\ CountMax \in Nat /\ debug.requests \in Nat
      BY <1>3 DEF DebugAssumption, Typed
    <2> QED
      BY <1>1, <2>1 DEF FailAt
  <1>5. PICK e : e = debug'
    OBVIOUS
  <1>6. e = [parent |-> debug.parent, table |-> debug.table, quarantine |-> debug.quarantine,
             quarantine_head |-> debug.quarantine_head, quarantine_len |-> debug.quarantine_len,
             live_bytes |-> debug.live_bytes, peak_bytes |-> debug.peak_bytes,
             requests |-> debug.requests, fail_after |-> n, break_at |-> debug.break_at,
             lent |-> debug.lent, torn |-> debug.torn, stop |-> debug.stop]
    BY <1>2, <1>3, <1>5 DEF Typed, IsDebug
  <1>7. IsDebug(e)
    BY <1>6 DEF IsDebug
  <1>8. /\ e.parent = debug.parent /\ e.table = debug.table /\ e.quarantine = debug.quarantine
        /\ e.quarantine_head = debug.quarantine_head /\ e.quarantine_len = debug.quarantine_len
        /\ e.live_bytes = debug.live_bytes /\ e.peak_bytes = debug.peak_bytes
        /\ e.requests = debug.requests /\ e.fail_after = n /\ e.lent = debug.lent
        /\ e.torn = debug.torn /\ e.stop = debug.stop
    BY <1>6
  <1>9. Explained(e.torn, blocks, history, misuse)
    BY <1>3, <1>8 DEF Books
  <1> QED
    BY <1>2, <1>3, <1>4, <1>5, <1>7, <1>8, <1>9, FieldBooks

LEMMA BreakAtStays ==
    ASSUME DebugAssumption, DebugInv, NEW serial \in BreakAt, tda_debug_break_at(serial)
    PROVE  DebugInv'
  <1>1. /\ Runs /\ debug' = [debug EXCEPT !.break_at = serial] /\ misuse' = misuse
        /\ blocks' = blocks /\ history' = history
    BY DEF tda_debug_break_at
  <1>2. /\ Typed(debug) /\ Books(debug, blocks, history, misuse)
        /\ misuse \cap AtOnce = {}
    BY <1>1, RunsBooks
  <1>3. PICK e : e = debug'
    OBVIOUS
  <1>4. e = [parent |-> debug.parent, table |-> debug.table, quarantine |-> debug.quarantine,
             quarantine_head |-> debug.quarantine_head, quarantine_len |-> debug.quarantine_len,
             live_bytes |-> debug.live_bytes, peak_bytes |-> debug.peak_bytes,
             requests |-> debug.requests, fail_after |-> debug.fail_after, break_at |-> serial,
             lent |-> debug.lent, torn |-> debug.torn, stop |-> debug.stop]
    BY <1>1, <1>2, <1>3 DEF Typed, IsDebug
  <1>5. IsDebug(e)
    BY <1>4 DEF IsDebug
  <1>6. /\ e.parent = debug.parent /\ e.table = debug.table /\ e.quarantine = debug.quarantine
        /\ e.quarantine_head = debug.quarantine_head /\ e.quarantine_len = debug.quarantine_len
        /\ e.live_bytes = debug.live_bytes /\ e.peak_bytes = debug.peak_bytes
        /\ e.requests = debug.requests /\ e.fail_after = debug.fail_after /\ e.lent = debug.lent
        /\ e.torn = debug.torn /\ e.stop = debug.stop
    BY <1>4
  <1>7. debug.fail_after \in 0 .. CountMax
    BY <1>2 DEF Typed
  <1>8. Explained(e.torn, blocks, history, misuse)
    BY <1>2, <1>6 DEF Books
  <1> QED
    BY <1>1, <1>2, <1>3, <1>5, <1>6, <1>7, <1>8, FieldBooks

\* A block is written where it must not be.
LEMMA WriteStays ==
    ASSUME DebugAssumption, DebugInv, Runs, NEW a, NEW what \in {"past end", "after free"},
           what = "past end" => a \in AddrsOf(blocks),
           what = "after free" => a \in AddrsOf(Quarantine(debug)),
           debug' = [debug EXCEPT !.torn = @ \cup {a}], misuse' = misuse \cup {what},
           blocks' = blocks, history' = history
    PROVE  DebugInv'
  <1>1. /\ Typed(debug) /\ Books(debug, blocks, history, misuse)
        /\ misuse \cap AtOnce = {}
    BY RunsBooks
  <1>2. PICK e, s, m : e = debug' /\ s = debug.torn \cup {a} /\ m = misuse \cup {what}
    OBVIOUS
  <1>3. e = [debug EXCEPT !.torn = s]
    BY <1>1, <1>2 DEF Typed, IsDebug
  <1>4. e = [parent |-> debug.parent, table |-> debug.table, quarantine |-> debug.quarantine,
             quarantine_head |-> debug.quarantine_head, quarantine_len |-> debug.quarantine_len,
             live_bytes |-> debug.live_bytes, peak_bytes |-> debug.peak_bytes,
             requests |-> debug.requests, fail_after |-> debug.fail_after,
             break_at |-> debug.break_at, lent |-> debug.lent, torn |-> s, stop |-> debug.stop]
    BY <1>1, <1>3 DEF Typed, IsDebug
  <1>5. IsDebug(e)
    BY <1>4 DEF IsDebug
  <1>6. /\ e.parent = debug.parent /\ e.table = debug.table /\ e.quarantine = debug.quarantine
        /\ e.quarantine_head = debug.quarantine_head /\ e.quarantine_len = debug.quarantine_len
        /\ e.live_bytes = debug.live_bytes /\ e.peak_bytes = debug.peak_bytes
        /\ e.requests = debug.requests /\ e.fail_after = debug.fail_after /\ e.lent = debug.lent
        /\ e.torn = s /\ e.stop = debug.stop
    BY <1>4
  <1>7. debug.fail_after \in 0 .. CountMax
    BY <1>1 DEF Typed
  <1>8. Explained(e.torn, blocks, history, m)
    <2>1. Waits(debug, history) /\ Explained(debug.torn, blocks, history, misuse)
      BY <1>1 DEF Books
    <2>2. a \in AddrsOf(Quarantine(debug)) <=> In(history, a)
      BY <1>1, <2>1, QuarantineIs
    <2> QED
      BY <1>2, <1>6, <2>1, <2>2 DEF Explained
  <1>9. m \cap AtOnce = {}
    BY <1>1, <1>2 DEF AtOnce
  <1> QED
    <2>1. debug' = e /\ misuse' = m
      BY <1>2
    <2> QED
      BY <1>5, <1>6, <1>7, <1>8, <1>9, <2>1, FieldBooks

LEMMA AllocStays ==
    ASSUME DebugAssumption, DebugInv, NEW l \in Layouts, NEW a \in Addrs, tda_alloc(l, a)
    PROVE  DebugInv'
  <1>1. Runs /\ history' = history
    BY DEF tda_alloc
  <1>2. PICK r \in DebugAlloc(debug, l, a) :
           /\ debug' = r.debug
           /\ blocks' = IF r.addr = Null THEN blocks ELSE blocks \cup {BlockAt(l, a)}
           /\ misuse' = misuse \cup IF r.answered /\ a \in AddrsOf(debug.lent)
                                    THEN {"parent repeats"} ELSE {}
    BY DEF tda_alloc, BlockAt
  <1>3. /\ Typed(debug) /\ debug.stop = Running /\ blocks \subseteq Block
        /\ history \in Seq(Addrs) /\ Books(debug, blocks, history, misuse)
        /\ Tabled(debug, blocks) /\ misuse \cap AtOnce = {}
    BY <1>1, RunsBooks
  <1>4. l \in [size : Nat \ {0}, align : Nat \ {0}]
    BY DEF DebugAssumption
  <1>5. PICK e : e = r.debug
    OBVIOUS
  <1>6. Requested(debug, blocks, history, misuse, l, a, r)
    BY <1>3, <1>4, AllocBooks
  <1>7. Typed(e)
    BY <1>5, <1>6 DEF Requested
  <1>8. CASE r.addr = Null /\ ~r.answered /\ e.stop = "break"
    <2>1. blocks' = blocks /\ misuse' = misuse
      BY <1>2, <1>8
    <2>2. "break" # Running
      BY DEF Running
    <2> QED
      BY <1>1, <1>2, <1>3, <1>5, <1>7, <1>8, <2>1, <2>2, BooksInvIs
  <1>9. CASE /\ r.addr = Null /\ e.stop = Running
             /\ r.answered => a \notin AddrsOf(debug.lent)
             /\ Books(e, blocks, history, misuse) /\ Tabled(e, blocks)
    <2>1. blocks' = blocks /\ misuse' = misuse
      BY <1>2, <1>9
    <2> QED
      BY <1>1, <1>2, <1>3, <1>5, <1>7, <1>9, <2>1, BooksInvIs
  <1>10. CASE /\ r.addr = Null /\ e.stop = "parent repeats" /\ r.answered
              /\ a \in AddrsOf(debug.lent)
    <2>1. PICK m : m = misuse \cup {"parent repeats"}
      OBVIOUS
    <2>2. blocks' = blocks /\ misuse' = m
      BY <1>2, <1>10, <2>1
    <2>3. "parent repeats" \in m /\ "parent repeats" # Running
      BY <2>1 DEF Running
    <2> QED
      BY <1>1, <1>2, <1>3, <1>5, <1>7, <1>10, <2>2, <2>3, BooksInvIs
  <1>11. CASE /\ r.addr = a /\ r.answered /\ a \notin AddrsOf(debug.lent) /\ e.stop = Running
              /\ Books(e, blocks \cup {BlockAt(l, a)}, history, misuse)
              /\ Tabled(e, blocks \cup {BlockAt(l, a)})
    <2>1. PICK B : B = blocks \cup {BlockAt(l, a)}
      OBVIOUS
    <2>2. a # Null
      BY DEF DebugAssumption
    <2>3. blocks' = B /\ misuse' = misuse
      BY <1>2, <1>11, <2>1, <2>2
    <2>4. B \subseteq Block
      BY <1>11, <2>1 DEF Books
    <2> QED
      BY <1>1, <1>2, <1>3, <1>5, <1>7, <1>11, <2>1, <2>3, <2>4, BooksInvIs
  <1> QED
    BY <1>5, <1>6, <1>8, <1>9, <1>10, <1>11 DEF Requested

\* The addresses freed last stay addresses.
LEMMA FreedLastIs ==
    ASSUME DebugAssumption, NEW h \in Seq(Addrs), NEW a \in Addrs
    PROVE  FreedLast(h, a) \in Seq(Addrs)
  <1>1. PICK g : g = Append(h, a)
    OBVIOUS
  <1>2. g \in Seq(Addrs) /\ g # <<>>
    BY <1>1
  <1>3. Tail(g) \in Seq(Addrs)
    BY <1>2
  <1> QED
    BY <1>1, <1>2, <1>3 DEF FreedLast

LEMMA DeallocStays ==
    ASSUME DebugAssumption, DebugInv, NEW b \in blocks, tda_dealloc(b)
    PROVE  DebugInv'
  <1>1. /\ Runs /\ debug' = DebugDealloc(debug, b.addr, LayoutOf(b)) /\ misuse' = misuse
        /\ blocks' = blocks \ {b} /\ history' = FreedLast(history, b.addr)
    BY DEF tda_dealloc, Freed, FreedLast
  <1>2. /\ Typed(debug) /\ debug.stop = Running /\ blocks \subseteq Block
        /\ history \in Seq(Addrs) /\ Books(debug, blocks, history, misuse)
        /\ Tabled(debug, blocks) /\ misuse \cap AtOnce = {}
    BY <1>1, RunsBooks
  <1>3. PICK e, B, h : e = debug' /\ B = blocks \ {b} /\ h = FreedLast(history, b.addr)
    OBVIOUS
  <1>4. Frees(debug, blocks, history, misuse, b, e)
    BY <1>1, <1>2, <1>3, DeallocBooks
  <1>5. h \in Seq(Addrs)
    BY <1>2, <1>3, FreedLastIs DEF Block
  <1>6. /\ Typed(e)
        /\ e.stop # Running => e.stop \in misuse
        /\ e.stop = Running => Books(e, B, h, misuse)
        /\ e.stop = Running => Tabled(e, B)
    BY <1>3, <1>4 DEF Frees
  <1> QED
    <2>1. /\ debug' = e /\ blocks' = B /\ history' = h /\ misuse' = misuse
          /\ B \subseteq Block
      BY <1>1, <1>2, <1>3
    <2> QED
      BY <1>2, <1>5, <1>6, <2>1, BooksInvIs

\* A block that stays at its address through a realloc cannot be: the new one has come to
\* an address the parent did not have out.
LEMMA ReallocStays ==
    ASSUME DebugAssumption, DebugInv, NEW b \in blocks, NEW k \in Layouts, NEW a \in Addrs,
           tda_realloc(b, k.size, a)
    PROVE  DebugInv'
  <1>1. /\ Typed(debug) /\ debug.stop = Running /\ blocks \subseteq Block
        /\ history \in Seq(Addrs) /\ Books(debug, blocks, history, misuse)
        /\ Tabled(debug, blocks) /\ misuse \cap AtOnce = {}
    BY RunsBooks DEF tda_realloc
  <1>2. PICK l : l = [size |-> k.size, align |-> b.align]
    OBVIOUS
  <1>3. /\ Runs /\ a \notin AddrsOf(debug.lent) /\ misuse' = misuse
    BY DEF tda_realloc
  <1>4. PICK r \in DebugAlloc(debug, l, a) :
           IF r.addr = Null
           THEN debug' = r.debug /\ UNCHANGED <<blocks, history>>
           ELSE /\ debug' = DebugDealloc(r.debug, b.addr, LayoutOf(b))
                /\ blocks' = (blocks \ {b}) \cup {[b EXCEPT !.addr = a, !.size = k.size]}
                /\ history' = FreedLast(history, b.addr)
    BY <1>2 DEF tda_realloc, Freed, FreedLast
  <1>5. l \in [size : Nat \ {0}, align : Nat \ {0}]
    <2>1. b \in Block /\ k \in [size : Nat \ {0}, align : Nat \ {0}]
      BY <1>1 DEF DebugAssumption
    <2> QED
      BY <1>2, <2>1 DEF Block
  <1>6. PICK e : e = r.debug
    OBVIOUS
  <1>7. Requested(debug, blocks, history, misuse, l, a, r)
    BY <1>1, <1>5, AllocBooks
  <1>8. Typed(e) /\ a # Null
    BY <1>6, <1>7 DEF Requested, DebugAssumption
  <1>9. CASE r.addr = Null /\ ~r.answered /\ e.stop = "break"
    <2>1. "break" # Running
      BY DEF Running
    <2>2. debug' = e /\ blocks' = blocks /\ history' = history
      BY <1>4, <1>6, <1>9
    <2> QED
      BY <1>1, <1>3, <1>8, <1>9, <2>1, <2>2, BooksInvIs
  <1>10. CASE /\ r.addr = Null /\ e.stop = Running
              /\ Books(e, blocks, history, misuse) /\ Tabled(e, blocks)
    <2>1. debug' = e /\ blocks' = blocks /\ history' = history
      BY <1>4, <1>6, <1>10
    <2> QED
      BY <1>1, <1>3, <1>8, <1>10, <2>1, BooksInvIs
  <1>11. CASE /\ r.addr = a /\ e.stop = Running
              /\ Books(e, blocks \cup {BlockAt(l, a)}, history, misuse)
              /\ Tabled(e, blocks \cup {BlockAt(l, a)})
    <2>1. PICK c, B : c = BlockAt(l, a) /\ B = blocks \cup {c}
      OBVIOUS
    <2>2. PICK f : f = debug'
      OBVIOUS
    <2>3. f = DebugDealloc(e, b.addr, LayoutOf(b)) /\ history' = FreedLast(history, b.addr)
      BY <1>4, <1>6, <1>8, <1>11, <2>2
    <2>4. Frees(e, B, history, misuse, b, f)
      BY <1>1, <1>8, <1>11, <2>1, <2>3, DeallocBooks
    <2>5. c # b
      <3>1. Known(debug, blocks, history, a)
        BY <1>1, KnownIs
      <3>2. a \notin AddrsOf(blocks)
        BY <1>3, <3>1 DEF Known
      <3> QED
        BY <2>1, <3>2 DEF AddrsOf, BlockAt
    <2>6. blocks' = B \ {b}
      <3>1. PICK n : n = k.size
        OBVIOUS
      <3>2. [b EXCEPT !.addr = a, !.size = n] = [addr |-> a, size |-> n, align |-> b.align]
        <4>1. b \in [addr : Addrs, size : Nat \ {0}, align : Nat \ {0}]
          BY <1>1 DEF Block
        <4>2. PICK w : w = [b EXCEPT !.addr = a]
          OBVIOUS
        <4>3. w = [addr |-> a, size |-> b.size, align |-> b.align]
          BY <4>1, <4>2
        <4>4. [b EXCEPT !.addr = a, !.size = n] = [w EXCEPT !.size = n]
          BY <4>1, <4>2
        <4> QED
          BY <4>3, <4>4
      <3>3. l.size = k.size /\ l.align = b.align
        BY <1>2
      <3>4. [b EXCEPT !.addr = a, !.size = k.size] = c
        BY <2>1, <3>1, <3>2, <3>3 DEF BlockAt
      <3>5. blocks' = (blocks \ {b}) \cup {c}
        BY <1>4, <1>8, <1>11, <3>4
      <3> QED
        BY <2>1, <2>5, <3>5
    <2>7. PICK C, h : C = B \ {b} /\ h = FreedLast(history, b.addr)
      OBVIOUS
    <2>8. h \in Seq(Addrs) /\ C \subseteq Block
      <3>1. B \subseteq Block
        BY <1>11, <2>1 DEF Books
      <3>2. b.addr \in Addrs
        BY <1>1 DEF Block
      <3> QED
        BY <1>1, <2>7, <3>1, <3>2, FreedLastIs
    <2>9. /\ Typed(f)
          /\ f.stop # Running => f.stop \in misuse
          /\ f.stop = Running => Books(f, C, h, misuse)
          /\ f.stop = Running => Tabled(f, C)
      BY <2>4, <2>7 DEF Frees
    <2>10. debug' = f /\ blocks' = C /\ history' = h /\ misuse' = misuse
      BY <1>3, <2>2, <2>3, <2>6, <2>7
    <2> QED
      BY <1>1, <2>8, <2>9, <2>10, BooksInvIs
  <1> QED
    BY <1>3, <1>6, <1>7, <1>9, <1>10, <1>11 DEF Requested

\* A call that is told of a misuse leaves the program stopped.
LEMMA BadCallStays ==
    ASSUME DebugAssumption, DebugInv, Runs, NEW a \in Addrs, NEW l, NEW what \in Reports,
           CheckedEntry(debug, a, l) = what, what # Running,
           debug' \in {DebugDealloc(debug, a, l), DebugRemap(debug, a, l)},
           misuse' = misuse \cup {what}, blocks' = blocks, history' = history
    PROVE  DebugInv'
  <1>1. PICK e, m : e = Report(debug, what) /\ m = misuse \cup {what}
    OBVIOUS
  <1>2. debug' = e
    BY <1>1 DEF DebugDealloc, DebugRemap, Report
  <1>3. /\ Typed(debug) /\ blocks \subseteq Block /\ history \in Seq(Addrs)
    BY RunsBooks
  <1>4. Typed(e) /\ e.stop = what
    BY <1>1, <1>3, RemapSame
  <1>5. what \in m /\ misuse' = m
    BY <1>1
  <1> QED
    BY <1>2, <1>3, <1>4, <1>5, BooksInvIs

LEMMA StrayStays ==
    ASSUME DebugAssumption, DebugInv, NEW a \in Addrs, NEW l, UseStray(a, l)
    PROVE  DebugInv'
  <1>1. PICK what : what = IF In(history, a) THEN "freed twice" ELSE "not ours"
    OBVIOUS
  <1>2. /\ Runs /\ a \notin AddrsOf(blocks) /\ misuse' = misuse \cup {what}
        /\ debug' \in {DebugDealloc(debug, a, l), DebugRemap(debug, a, l)}
        /\ blocks' = blocks /\ history' = history
    BY <1>1 DEF UseStray, In
  <1>3. Checked(debug, blocks, history, a, l)
    BY <1>2, RunsBooks, CheckIs
  <1>4. CheckedEntry(debug, a, l) = what
    BY <1>1, <1>2, <1>3 DEF Checked
  <1>5. what \in Reports /\ what # Running
    BY <1>1 DEF Reports, Running
  <1> QED
    BY <1>2, <1>4, <1>5, BadCallStays

LEMMA WrongLayoutStays ==
    ASSUME DebugAssumption, DebugInv, NEW b \in blocks, NEW l, UseWrongLayout(b, l)
    PROVE  DebugInv'
  <1>1. /\ Runs /\ LayoutOf(b) # l /\ misuse' = misuse \cup {"layout"}
        /\ debug' \in {DebugDealloc(debug, b.addr, l), DebugRemap(debug, b.addr, l)}
        /\ blocks' = blocks /\ history' = history
    BY DEF UseWrongLayout
  <1>2. PICK a \in Addrs : a = b.addr
    BY <1>1, RunsBooks DEF Block
  <1>3. Checked(debug, blocks, history, a, l)
    BY <1>1, RunsBooks, CheckIs
  <1>4. CheckedEntry(debug, a, l) = "layout"
    BY <1>1, <1>2, <1>3 DEF Checked
  <1>5. "layout" \in Reports /\ "layout" # Running
    BY DEF Reports, Running
  <1> QED
    BY <1>1, <1>2, <1>4, <1>5, BadCallStays

-----------------------------------------------------------------------------
(* The theorems.                                                            *)

\* Whatever the callers do, and whatever the parent answers, the table, the quarantine and
\* the loans stay as DebugInv says.
THEOREM DebugBooks == Spec => []DebugInv
  <1>1. Init => DebugInv
    BY DebugAssumption, InitBooks
  <1>2. ASSUME DebugInv, [Next]_vars PROVE DebugInv'
    <2> USE DebugAssumption
    <2>1. CASE tda_debug_deinit
      BY <1>2, <2>1, DeinitStays
    <2>2. CASE tda_debug_flush_quarantine
      BY <1>2, <2>2, FlushStays
    <2>3. CASE \E count \in FailAfter : tda_debug_fail_after(count)
      BY <1>2, <2>3, FailAfterStays
    <2>4. CASE \E serial \in BreakAt : tda_debug_break_at(serial)
      BY <1>2, <2>4, BreakAtStays
    <2>5. CASE \E l \in Layouts, a \in Addrs : tda_alloc(l, a)
      BY <1>2, <2>5, AllocStays
    <2>6. CASE \E l \in Layouts, a \in Addrs : UseStray(a, l)
      BY <1>2, <2>6, StrayStays
    <2>7. CASE \E b \in blocks : tda_dealloc(b)
      BY <1>2, <2>7, DeallocStays
    <2>8. CASE \E b \in blocks : \E l \in Layouts, a \in Addrs : tda_realloc(b, l.size, a)
      BY <1>2, <2>8, ReallocStays
    <2>9. CASE \E b \in blocks : \E l \in Layouts : UseWrongLayout(b, l)
      BY <1>2, <2>9, WrongLayoutStays
    <2>10. CASE \E b \in blocks : WritePastEnd(b)
      <3>1. PICK b \in blocks : WritePastEnd(b)
        BY <2>10
      <3>2. PICK a, what : a = b.addr /\ what = "past end"
        OBVIOUS
      <3>3. a \in AddrsOf(blocks) /\ what \in {"past end", "after free"} /\ what # "after free"
        BY <3>2 DEF AddrsOf
      <3>4. /\ Runs /\ debug' = [debug EXCEPT !.torn = @ \cup {a}] /\ misuse' = misuse \cup {what}
            /\ blocks' = blocks /\ history' = history
        BY <3>1, <3>2 DEF WritePastEnd
      <3> QED
        BY <1>2, <3>3, <3>4, WriteStays
    <2>11. CASE \E a \in Addrs : WriteAfterFree(a)
      <3>1. PICK a \in Addrs : WriteAfterFree(a)
        BY <2>11
      <3>2. PICK what : what = "after free"
        OBVIOUS
      <3>3. /\ Runs /\ debug' = [debug EXCEPT !.torn = @ \cup {a}] /\ misuse' = misuse \cup {what}
            /\ blocks' = blocks /\ history' = history /\ a \in AddrsOf(Quarantine(debug))
            /\ what \in {"past end", "after free"} /\ what # "past end"
        BY <3>1, <3>2 DEF WriteAfterFree
      <3> QED
        BY <1>2, <3>3, WriteStays
    <2>12. CASE UNCHANGED vars
      BY <1>2, <2>12 DEF vars, DebugInv
    <2> QED
      BY <1>2, <2>1, <2>2, <2>3, <2>4, <2>5, <2>6, <2>7, <2>8, <2>9, <2>10, <2>11, <2>12 DEF Next
  <1> QED
    BY <1>1, <1>2, PTL DEF Spec

\* The table records exactly the blocks the callers hold, where a probe finds each, and its
\* counts are theirs: for every hash and every order of inserts, growths and removals.
THEOREM DebugTableIsBlocks == Spec => []TableIsBlocks
  <1>1. ASSUME InjectionInv, DebugInv PROVE TableIsBlocks
    <2>1. Typed(debug) /\ blocks \subseteq Block
      BY <1>1 DEF DebugInv, BooksInv
    <2>2. TypeOK
      <3>1. 0 .. QuarantineLen - 1 = Slots(QuarantineLen)
        BY DEF Slots
      <3>2. debug.requests \in 0 .. MaxRequests
        BY <1>1 DEF InjectionInv
      <3>3. tda_debug_stats.live_bytes = debug.live_bytes /\ tda_debug_stats.peak_bytes = debug.peak_bytes
        BY DEF tda_debug_stats
      <3> QED
        BY <2>1, <3>1, <3>2, <3>3 DEF TypeOK, Typed
    <2>3. ASSUME Runs
          PROVE  /\ ProbesFind /\ tda_debug_fprint_leaks = blocks
                 /\ tda_debug_stats.live_blocks = Cardinality(blocks)
                 /\ tda_debug_stats.live_bytes = MapThenSumSet(LAMBDA b : b.size, blocks)
      <3>1. Holds(debug.table, blocks) /\ debug.live_bytes = SizesOf(blocks)
        BY <1>1, <2>3, RunsBooks DEF Tabled
      <3>2. 2 * debug.table.len <= debug.table.cap /\ debug.table.len = Cardinality(blocks)
        BY <3>1, HoldsCounts
      <3>3. \A a \in Addrs : TableFind(debug.table, a) # Empty <=> a \in AddrsOf(blocks)
        BY <3>1, FindIs
      <3>4. tda_debug_fprint_leaks = blocks
        BY <3>1 DEF tda_debug_fprint_leaks, Holds, BlockOf
      <3>5. /\ tda_debug_stats.live_blocks = debug.table.len
            /\ tda_debug_stats.live_bytes = debug.live_bytes
        BY DEF tda_debug_stats
      <3>6. SizesOf(blocks) = MapThenSumSet(LAMBDA b : b.size, blocks)
        BY DEF SizesOf
      <3> QED
        BY <3>1, <3>2, <3>3, <3>4, <3>5, <3>6 DEF ProbesFind
    <2> QED
      BY <2>2, <2>3 DEF TableIsBlocks
  <1> QED
    BY <1>1, DebugInvariant, DebugBooks, PTL

\* The parent has out the live blocks and those freed last, with their guards, and no other:
\* for every length of the ring and every layout.
THEOREM DebugParentIsOwed == Spec => []ParentIsOwed
  <1>1. ASSUME DebugInv PROVE ParentIsOwed
    <2>1. SUFFICES ASSUME debug.stop = Running
                   PROVE  /\ QuarantineIsHistory
                          /\ debug.lent = {[b EXCEPT !.size = @ + GuardSize] :
                                              b \in blocks \cup Quarantine(debug)}
      BY DEF ParentIsOwed
    <2>2. Typed(debug) /\ Books(debug, blocks, history, misuse)
      BY <1>1, <2>1 DEF DebugInv, BooksInv
    <2>3. Waits(debug, history) /\ blocks \subseteq Block
          /\ debug.lent = {WithGuard(b) : b \in blocks \cup Quarantine(debug)}
      BY <2>2 DEF Books
    <2>4. QuarantineIsHistory
      BY <2>3 DEF Waits, QuarantineIsHistory
    <2>5. Quarantine(debug) \subseteq Block
      BY <2>2, <2>3, DebugAssumption, QuarantineIs
    <2>6. ASSUME NEW b \in Block PROVE [b EXCEPT !.size = @ + GuardSize] = WithGuard(b)
      <3>1. PICK n : n = b.size + GuardSize
        OBVIOUS
      <3>2. [b EXCEPT !.size = n] = [addr |-> b.addr, size |-> n, align |-> b.align]
        BY DEF Block
      <3> QED
        BY <3>1, <3>2 DEF WithGuard
    <2> QED
      BY <2>3, <2>4, <2>5, <2>6
  <1> QED
    BY <1>1, DebugBooks, PTL

\* The program stops only for a misuse that happened, says which, and runs on past none that
\* the call in hand could have told.
THEOREM DebugReportsExact == Spec => []ReportsExact
  <1>1. ASSUME DebugInv PROVE ReportsExact
    <2>1. CASE debug.stop # Running
      BY <1>1, <2>1 DEF DebugInv, BooksInv, ReportsExact
    <2>2. CASE debug.stop = Running
      <3>1. Typed(debug) /\ Books(debug, blocks, history, misuse) /\ misuse \cap AtOnce = {}
        BY <1>1, <2>2 DEF DebugInv, BooksInv
      <3>2. Waits(debug, history) /\ Explained(debug.torn, blocks, history, misuse)
        BY <3>1 DEF Books
      <3>3. \A a : a \in AddrsOf(Quarantine(debug)) <=> In(history, a)
        BY <3>1, <3>2, DebugAssumption, QuarantineIs
      <3>4. AddrsOf(blocks \cup Quarantine(debug)) = AddrsOf(blocks) \cup AddrsOf(Quarantine(debug))
        BY DEF AddrsOf
      <3>5. debug.torn \subseteq AddrsOf(blocks \cup Quarantine(debug))
        BY <3>2, <3>3, <3>4 DEF Explained
      <3> QED
        BY <2>2, <3>1, <3>5 DEF ReportsExact
    <2> QED
      BY <2>1, <2>2
  <1> QED
    BY <1>1, DebugBooks, PTL
=============================================================================
