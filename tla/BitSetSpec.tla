---------------------------- MODULE BitSetSpec -----------------------------
(***************************************************************************)
(* What a bitset promises: a set of the indices below nbits.  Each call     *)
(* does to the set what its name says or, refused memory, changes nothing;  *)
(* each question is answered from the set alone.  call is the last call:    *)
(* its name op, the bitset d it is made on, another one 'from', its         *)
(* arguments, whether it was served and its answer out.                     *)
(***************************************************************************)
EXTENDS Integers, FiniteSets, Sequences

CONSTANTS
    Names,  \* the bitsets
    Null    \* the answer of a search that found nothing

VARIABLES nbits, members, call

Universe(d) == 0 .. nbits[d] - 1

Init ==
    /\ nbits = [d \in Names |-> 0]
    /\ members = [d \in Names |-> {}]
    /\ call = [op |-> "none"]

Becomes(d, n, s) == nbits' = [nbits EXCEPT ![d] = n] /\ members' = [members EXCEPT ![d] = s]

Build(c) ==
    \/ c.op \in {"make", "copy"} /\ ~c.ok /\ UNCHANGED <<nbits, members>>
    \/ c.op = "make" /\ c.ok /\ Becomes(c.d, c.n, c.src)
    \/ c.op = "copy" /\ c.ok /\ Becomes(c.d, nbits[c.from], members[c.from])
    \/ c.op = "deinit" /\ Becomes(c.d, 0, {})

\* a move leaves its source empty
Exchange(c) ==
    LET given(f, empty) == IF c.d = c.from THEN f ELSE [f EXCEPT ![c.d] = f[c.from], ![c.from] = empty]
    IN  \/ c.op = "move_assign" /\ nbits' = given(nbits, 0) /\ members' = given(members, {})
        \/ c.op = "swap" /\ nbits' = given(nbits, nbits[c.d]) /\ members' = given(members, members[c.d])

SymDifference(s, t) == (s \ t) \cup (t \ s)

Change(c, s) ==
    LET to(t) == Becomes(c.d, nbits[c.d], t)
    IN  \/ c.op = "set" /\ to(s \cup {c.idx})
        \/ c.op = "reset" /\ to(s \ {c.idx})
        \/ c.op = "flip" /\ to(SymDifference(s, {c.idx}))
        \/ c.op = "set_all" /\ to(Universe(c.d))
        \/ c.op = "reset_all" /\ to({})
        \/ c.op = "flip_all" /\ to(Universe(c.d) \ s)

Combine(c, s, t) ==
    LET to(u) == Becomes(c.d, nbits[c.d], u)
    IN  \/ c.op = "union" /\ to(s \cup t)
        \/ c.op = "intersection" /\ to(s \cap t)
        \/ c.op = "difference" /\ to(s \ t)
        \/ c.op = "symmetric_difference" /\ to(SymDifference(s, t))

\* the least, or the greatest, of the indices a search may stop at
Least(s) == IF s = {} THEN Null ELSE CHOOSE i \in s : \A j \in s : i <= j
Greatest(s) == IF s = {} THEN Null ELSE CHOOSE i \in s : \A j \in s : j <= i

Seen(c, s) == IF c.clear THEN Universe(c.d) \ s ELSE s

Answer(c, s) ==
    /\ UNCHANGED <<nbits, members>>
    /\ \/ c.op = "test" /\ c.out = (c.idx \in s)
       \/ c.op = "count" /\ c.out = Cardinality(s)
       \/ c.op = "any" /\ c.out = (s # {})
       \/ c.op = "none" /\ c.out = (s = {})
       \/ c.op = "all" /\ c.out = (s = Universe(c.d))
       \/ c.op = "find_next" /\ c.out = Least({i \in Seen(c, s) : i >= c.idx})
       \/ c.op = "find_prev" /\ c.out = Greatest({i \in Seen(c, s) : i <= c.idx})
       \/ /\ c.op = "fprint" /\ {c.out[i] : i \in DOMAIN c.out} = s
          /\ \A i, j \in DOMAIN c.out : i < j => c.out[i] < c.out[j]
       \/ c.op = "eq" /\ c.out = (nbits[c.d] = nbits[c.from] /\ s = members[c.from])
       \/ c.op = "is_subset" /\ c.out = (s \subseteq members[c.from])
       \/ c.op = "intersects" /\ c.out = (s \cap members[c.from] # {})

Does(c) ==
    \/ Build(c) \/ Exchange(c)
    \/ Change(c, members[c.d]) \/ Combine(c, members[c.d], members[c.from]) \/ Answer(c, members[c.d])

Spec == Init /\ [][Does(call')]_<<nbits, members, call>>
=============================================================================
