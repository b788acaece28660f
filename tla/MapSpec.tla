------------------------------ MODULE MapSpec ------------------------------
(***************************************************************************)
(* What a hash map promises, whatever it does with buckets and memory: each *)
(* map is a function from classes of equal keys to entries, the key as it   *)
(* was first stored and a value.  A call does what its name says or,        *)
(* refused memory, leaves every map as it was; only extend, and the set     *)
(* operations made of inserts, may stop part of the way.                    *)
(*                                                                         *)
(* call is the last call made: its name op, the map d it is made on, its    *)
(* arguments and whether it was served.                                     *)
(***************************************************************************)
EXTENDS Integers, Sequences, FiniteSetsExt, Functions

CONSTANTS
    Names,  \* the maps
    Class   \* the class of keys equal to each key

VARIABLES ents, call

\* m with the first n of the pairs kvs stored: an entry keeps its first key and takes the
\* last value given for it
PutFirst(m, kvs, n) ==
    LET at(c) == {i \in 1 .. n : Class[kvs[i][1]] = c}
    IN  [c \in DOMAIN m \cup {Class[kvs[i][1]] : i \in 1 .. n} |->
            IF at(c) = {} THEN m[c]
            ELSE [key |-> IF c \in DOMAIN m THEN m[c].key ELSE kvs[Min(at(c))][1],
                  val |-> kvs[Max(at(c))][2]]]

\* m without the classes cs
Dropped(m, cs) == Restrict(m, DOMAIN m \ cs)

\* m with the entries of o of the classes cs beside its own
Joined(m, o, cs) == [c \in DOMAIN m \cup cs |-> IF c \in DOMAIN m THEN m[c] ELSE o[c]]

-----------------------------------------------------------------------------
(* The calls.  c is the call made, m its map before it.                     *)

Init == ents = [d \in Names |-> <<>>] /\ call = [op |-> "none"]

Becomes(c, m) == ents' = [ents EXCEPT ![c.d] = m]
\* served, the map of c ends up as m; refused, nothing changes
MayEnd(c, m) == IF c.ok THEN Becomes(c, m) ELSE UNCHANGED ents
\* a call that needs no memory is never refused
MustEnd(c, m) == c.ok /\ Becomes(c, m)

Store(c, m) ==
    \/ c.op = "make" /\ MayEnd(c, PutFirst(<<>>, c.kvs, Len(c.kvs)))
    \* a key already there needs no memory
    \/ /\ c.op = "insert"
       /\ Class[c.key] \in DOMAIN m => c.ok
       /\ c.ok => (c.is_new = (Class[c.key] \notin DOMAIN m))
       /\ MayEnd(c, PutFirst(m, <<<<c.key, c.val>>>>, 1))
    \/ /\ c.op = "get_or_insert"
       /\ IF Class[c.key] \in DOMAIN m THEN MustEnd(c, m)
          ELSE MayEnd(c, PutFirst(m, <<<<c.key, c.val>>>>, 1))
    \* refused, the pairs before the failing one stay inserted
    \/ /\ c.op = "extend"
       /\ \E n \in 0 .. Len(c.kvs) : (n = Len(c.kvs)) = c.ok /\ Becomes(c, PutFirst(m, c.kvs, n))
    \/ c.op = "set_val" /\ MustEnd(c, [m EXCEPT ![c.class].val = c.val])

\* room is asked for or given back; no map changes, served or not
Room(c) == c.op \in {"reserve", "shrink_to_fit"} /\ UNCHANGED ents

\* out is the entry taken, with the key as it was stored, or whether there was one
Drop(c, m) ==
    \/ /\ c.op = "remove"
       /\ c.out = (Class[c.key] \in DOMAIN m)
       /\ MustEnd(c, Dropped(m, {Class[c.key]}))
    \/ /\ c.op = "take"
       /\ c.out = IF Class[c.key] \in DOMAIN m THEN {m[Class[c.key]]} ELSE {}
       /\ MustEnd(c, Dropped(m, {Class[c.key]}))
    \/ c.op = "remove_node" /\ MustEnd(c, Dropped(m, {c.class}))
    \/ c.op = "retain" /\ MustEnd(c, RestrictValues(m, LAMBDA e : <<e.key, e.val>> \in c.keep))
    \/ c.op \in {"clear", "deinit"} /\ MustEnd(c, <<>>)

\* a move leaves its source empty
Exchange(c) ==
    \/ c.op = "copy" /\ MayEnd(c, ents[c.from])
    \/ /\ c.op = "move_assign" /\ c.ok
       /\ ents' = IF c.d = c.from THEN ents
                  ELSE [ents EXCEPT ![c.d] = ents[c.from], ![c.from] = <<>>]
    \/ /\ c.op = "swap" /\ c.ok
       /\ ents' = [ents EXCEPT ![c.d] = ents[c.from], ![c.from] = ents[c.d]]

\* the set operations, on the keys alone.  Of those that insert, one that is refused has
\* dealt with some of the other's keys and not with the rest
SetOp(c, m) ==
    LET o == ents[c.from]
        both == DOMAIN m \cap DOMAIN o
    IN  \/ /\ c.op = "union"
           /\ \E cs \in SUBSET DOMAIN o : (c.ok => cs = DOMAIN o) /\ Becomes(c, Joined(m, o, cs))
        \/ c.op = "intersection" /\ MustEnd(c, Restrict(m, both))
        \/ c.op = "difference" /\ MustEnd(c, Dropped(m, DOMAIN o))
        \/ /\ c.op = "symmetric_difference"
           /\ \E cs \in SUBSET DOMAIN o :
                 /\ c.ok => cs = DOMAIN o
                 /\ Becomes(c, Dropped(Joined(m, o, cs), cs \cap both))

\* out is what is found under the key; a walk gives every entry once
Look(c, m) ==
    LET here == Class[c.key] \in DOMAIN m
    IN  \/ c.op = "get" /\ c.out = IF here THEN {m[Class[c.key]].val} ELSE {}
        \/ c.op = "find" /\ c.out = IF here THEN {m[Class[c.key]]} ELSE {}
        \/ c.op = "contains" /\ c.out = here
        \/ /\ c.op = "walk"
           /\ Len(c.out) = Cardinality(DOMAIN m)
           /\ {c.out[i] : i \in DOMAIN c.out} = {m[k] : k \in DOMAIN m}

\* keys are compared by class, values by what the caller takes for the same
Compare(c, m) ==
    LET o == ents[c.from]
    IN  \/ /\ c.op = "eq"
           /\ c.out = \/ c.d = c.from
                      \/ /\ DOMAIN m = DOMAIN o
                         /\ \A k \in DOMAIN m : <<m[k].val, o[k].val>> \in c.same
        \/ c.op = "same_keys" /\ c.out = (DOMAIN m = DOMAIN o)
        \/ c.op = "is_subset" /\ c.out = (DOMAIN m \subseteq DOMAIN o)
        \/ c.op = "intersects" /\ c.out = (DOMAIN m \cap DOMAIN o # {})

Read(c, m) == c.ok /\ (Look(c, m) \/ Compare(c, m)) /\ UNCHANGED ents

Does(c) ==
    LET m == ents[c.d]
    IN  Store(c, m) \/ Room(c) \/ Drop(c, m) \/ Exchange(c) \/ SetOp(c, m) \/ Read(c, m)

Spec == Init /\ [][Does(call')]_<<ents, call>>
=============================================================================
