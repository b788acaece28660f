------------------------------- MODULE MCAlgo ------------------------------
(***************************************************************************)
(* Three keys, one of them with two elems that only their names tell apart, *)
(* in spans of up to four elems.  For the sorts also spans of eight, whose  *)
(* pivots are sampled in triples from eight elems on, and spans of seven    *)
(* with a fourth key whose first two pivots are bad, so that a depth limit  *)
(* of two runs out on the three elems left.                                 *)
(***************************************************************************)
EXTENDS Algo

MCShort == {"a", "b", "b2", "c"}
MCElem == MCShort \cup {"d"}
MCKey == [a |-> 1, b |-> 2, b2 |-> 2, c |-> 3, d |-> 4]

SeqsUpTo(S, n) == UNION {[1 .. k -> S] : k \in 0 .. n}

Long == {s \in [1 .. 8 -> {"a", "b", "b2", "c"}] :
            /\ s[1] = "b" /\ s[5] = "b2" /\ s[8] \in {"a", "c"} /\ s[3] # s[4] /\ s[6] = s[2]}

Deep == {s \in [1 .. 7 -> {"a", "b", "c", "d"}] :
            /\ {i \in 1 .. 7 : s[i] = "a"} = {1, 4} /\ Cardinality({i \in 1 .. 7 : s[i] = "b"}) = 2}

MCSpans == SeqsUpTo(MCShort, 4) \cup Long \cup Deep
MCSubs == SeqsUpTo(MCShort, 2) \cup {s \in [1 .. 3 -> MCShort] : s[1] = "b"}
MCPreds == {{}, {"b", "b2"}, {"a", "c"}, {"a", "b"}}

MCLinks == {[size |-> 4, align |-> 2], [size |-> 8, align |-> 4]}
MCTypes == {[size |-> s, align |-> a] : s \in {1, 3}, a \in {1}} \cup {[size |-> 6, align |-> 2]}
           \cup {[size |-> s, align |-> s] : s \in {2, 4, 8}} \cup {[size |-> 12, align |-> 4]}

MCScalars ==
    [int |-> -4 .. 3, float |-> Floats, char |-> -8 .. 7,
     cstr |-> {NullStr} \cup {[addr |-> a, text |-> t] : a \in 1 .. 2, t \in SeqsUpTo({-1, 1}, 1)}
                        \cup {[addr |-> 3, text |-> t] : t \in [1 .. 2 -> {-1, 1}]}]
=============================================================================
