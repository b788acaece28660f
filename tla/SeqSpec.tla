------------------------------ MODULE SeqSpec ------------------------------
(***************************************************************************)
(* What a sequence container promises, whatever it does with memory: each   *)
(* container is a sequence of elems, and each call either does what its     *)
(* name says to the sequence or, refused memory, leaves every sequence as   *)
(* it was.  Indices count from 0, as in the library.                        *)
(*                                                                         *)
(* call is the last call made: its name op, the container d it is made on,  *)
(* its arguments and whether it was served.  A value is an elem, or names   *)
(* an elem of the container it goes into: [alias |-> TRUE, at |-> index].   *)
(***************************************************************************)
EXTENDS Integers, Sequences

CONSTANTS
    Names,  \* the containers
    Zero    \* the elem whose bytes are all zero

VARIABLES seqs, call

\* the value an argument stands for when the call is made
ValOf(d, v) == IF v.alias THEN seqs[d][v.at + 1] ELSE v.at

\* s with t put before its elem at idx
Spliced(s, idx, t) == SubSeq(s, 1, idx) \o t \o SubSeq(s, idx + 1, Len(s))

\* s without the count elems from idx on
Cut(s, idx, count) == SubSeq(s, 1, idx) \o SubSeq(s, idx + count + 1, Len(s))

\* the first n elems of s, followed by zeros where s is shorter
Sized(s, n) == [i \in 1 .. n |-> IF i <= Len(s) THEN s[i] ELSE Zero]

\* s with its last elem in the place of the one at idx
SwapRemoved(s, idx) == [i \in 1 .. Len(s) - 1 |-> IF i = idx + 1 THEN s[Len(s)] ELSE s[i]]

\* the elems of s that are in keep, in their order
Kept(s, keep) ==
    LET kept[n \in 0 .. Len(s)] ==
            IF n = 0 THEN <<>> ELSE IF s[n] \in keep THEN Append(kept[n - 1], s[n]) ELSE kept[n - 1]
    IN  kept[Len(s)]

\* s with its elems at i and j exchanged
Exchanged(s, i, j) == [s EXCEPT ![i + 1] = s[j + 1], ![j + 1] = s[i + 1]]

-----------------------------------------------------------------------------
(* The calls.  c is the call made, s its container before it.               *)

Init == seqs = [d \in Names |-> <<>>] /\ call = [op |-> "none"]

\* served, the container of c ends up as t; refused, nothing changes
MayEnd(c, t) == seqs' = IF c.ok THEN [seqs EXCEPT ![c.d] = t] ELSE seqs
\* a call that needs no memory is never refused
MustEnd(c, t) == c.ok /\ seqs' = [seqs EXCEPT ![c.d] = t]

Grow(c, s) ==
    \/ c.op = "make" /\ MayEnd(c, c.src)
    \/ c.op = "push_front" /\ MayEnd(c, <<ValOf(c.d, c.val)>> \o s)
    \/ c.op = "push_back" /\ MayEnd(c, Append(s, ValOf(c.d, c.val)))
    \/ c.op = "insert" /\ MayEnd(c, Spliced(s, c.idx, <<ValOf(c.d, c.val)>>))
    \/ c.op = "insert_span" /\ MayEnd(c, Spliced(s, c.idx, c.src))
    \/ c.op = "resize" /\ (c.n <= Len(s) => c.ok) /\ MayEnd(c, Sized(s, c.n))
    \/ c.op = "copy" /\ MayEnd(c, seqs[c.from])

\* room is asked for or given back; no sequence changes, served or not
Room(c) == c.op \in {"reserve", "shrink_to_fit"} /\ UNCHANGED seqs

Shrink(c, s) ==
    \/ c.op = "pop_front" /\ c.out = Head(s) /\ MustEnd(c, Tail(s))
    \/ c.op = "pop_back" /\ c.out = s[Len(s)] /\ MustEnd(c, SubSeq(s, 1, Len(s) - 1))
    \/ c.op = "remove_range" /\ MustEnd(c, Cut(s, c.idx, c.n))
    \/ c.op = "swap_remove" /\ MustEnd(c, SwapRemoved(s, c.idx))
    \/ c.op = "into_raw" /\ c.out = s /\ MustEnd(c, <<>>)
    \/ c.op = "truncate" /\ MustEnd(c, IF c.n < Len(s) THEN SubSeq(s, 1, c.n) ELSE s)
    \/ c.op = "retain" /\ MustEnd(c, Kept(s, c.keep))
    \/ c.op \in {"clear", "deinit"} /\ MustEnd(c, <<>>)

Write(c, s) ==
    \/ c.op = "set" /\ MustEnd(c, [s EXCEPT ![c.idx + 1] = ValOf(c.d, c.val)])
    \/ c.op = "swap_elems" /\ MustEnd(c, Exchanged(s, c.idx, c.idx2))
    \/ c.op \in {"copy_from_span", "init_raw"} /\ MustEnd(c, c.src)

\* a move leaves its source empty
Exchange(c) ==
    \/ /\ c.op \in {"move_assign", "into"} /\ c.ok
       /\ seqs' = IF c.d = c.from THEN seqs
                  ELSE [seqs EXCEPT ![c.d] = seqs[c.from], ![c.from] = <<>>]
    \/ /\ c.op = "swap" /\ c.ok
       /\ seqs' = [seqs EXCEPT ![c.d] = seqs[c.from], ![c.from] = seqs[c.d]]

\* what is asked of a sequence, and answered
Read(c, s) ==
    /\ \/ c.op = "get" /\ c.out = s[c.idx + 1]
       \/ c.op = "copy_to_span" /\ c.out = s
       \/ c.op = "eq" /\ c.out = (s = seqs[c.from])
    /\ UNCHANGED seqs

Does(c) ==
    LET s == seqs[c.d]
    IN  Read(c, s) \/ Grow(c, s) \/ Room(c) \/ Shrink(c, s) \/ Write(c, s) \/ Exchange(c)

Spec == Init /\ [][Does(call')]_<<seqs, call>>
=============================================================================
