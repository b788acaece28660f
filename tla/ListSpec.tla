----------------------------- MODULE ListSpec ------------------------------
(***************************************************************************)
(* What a list promises beyond a sequence: the calls that relink nodes,     *)
(* within a list or from one into another.  Refused memory, both lists of   *)
(* the call are left as they were.                                          *)
(***************************************************************************)
EXTENDS SeqSpec, Order

LOCAL INSTANCE SequencesExt

\* two containers end up as t and u
BothEnd(c, t, u) == seqs' = IF c.ok THEN [seqs EXCEPT ![c.d] = t, ![c.from] = u] ELSE seqs

\* the elem goes to 'out' first, which may be an elem of the list
PopTo(c, s) ==
    LET written(e) == IF c.to = -1 THEN s ELSE [i \in DOMAIN s |-> IF i = c.to + 1 THEN e ELSE s[i]]
    IN  \/ c.op = "pop_front_to" /\ c.out = Head(s) /\ MustEnd(c, Tail(written(Head(s))))
        \/ c.op = "pop_back_to" /\ c.out = s[Len(s)] /\ MustEnd(c, SubSeq(written(s[Len(s)]), 1, Len(s) - 1))

\* the elem at idx2 of 'from' goes before the one at idx of d
SpliceNode(c, s, t) ==
    LET e == t[c.idx2 + 1]
    IN  IF c.d # c.from THEN BothEnd(c, Spliced(s, c.idx, <<e>>), Cut(t, c.idx2, 1))
        ELSE MustEnd(c, Spliced(Cut(s, c.idx2, 1), IF c.idx2 < c.idx THEN c.idx - 1 ELSE c.idx, <<e>>))

\* of two sorted lists one sorted list, equal elems of d first; no elem is lost whatever
\* the two were
Merge(c, s, t) ==
    IF InOrder(s) /\ InOrder(t) THEN BothEnd(c, StableSorted(s \o t), <<>>)
    ELSE IF c.ok THEN SameElems(seqs'[c.d], s \o t) /\ BothEnd(c, seqs'[c.d], <<>>)
    ELSE UNCHANGED seqs

\* the keys in order, and the first of a key: -1 is no node
Asks(c, s) ==
    /\ UNCHANGED seqs
    /\ \/ /\ c.op = "eq_by"
          /\ c.out = ([i \in DOMAIN s |-> Key[s[i]]] =
                      [i \in DOMAIN seqs[c.from] |-> Key[seqs[c.from][i]]])
       \/ /\ c.op = "find"
          /\ LET hits == {i \in DOMAIN s : Key[s[i]] = Key[c.key]}
             IN  IF hits = {} THEN c.out = -1
                 ELSE c.out + 1 \in hits /\ \A i \in hits : c.out + 1 <= i
       \/ c.op \in {"node_next", "node_prev"}
          /\ c.out = IF c.op = "node_next" THEN SubSeq(s, c.idx + 2, Len(s))
                     ELSE Reverse(SubSeq(s, 1, c.idx))

Relinks(c) ==
    LET s == seqs[c.d]
    IN  \/ PopTo(c, s) \/ Asks(c, s)
        \/ c.op = "reverse" /\ MustEnd(c, Reverse(s))
        \/ c.op = "sort" /\ MustEnd(c, StableSorted(s))
        \/ c.op = "splice_front" /\ BothEnd(c, seqs[c.from] \o s, <<>>)
        \/ c.op = "splice_back" /\ BothEnd(c, s \o seqs[c.from], <<>>)
        \/ c.op = "splice_node" /\ SpliceNode(c, s, seqs[c.from])
        \/ c.op = "merge" /\ Merge(c, s, seqs[c.from])

ListSpec == Init /\ [][Does(call') \/ Relinks(call')]_<<seqs, call>>
=============================================================================
