------------------------------- MODULE Order -------------------------------
(***************************************************************************)
(* What it means for a sequence to be in order.  Elems are compared by key  *)
(* alone, as a tda_Cmp compares what it cares about, so that two elems may  *)
(* be equal in the order and still be told apart: that is what stability    *)
(* is about.                                                                *)
(***************************************************************************)
EXTENDS Integers, Sequences, FiniteSets

CONSTANTS
    Elem,  \* the elems
    Key    \* what the caller's comparison sees of each

ASSUME KeyAssumption == Key \in [Elem -> Int]

\* a goes before b
Less(a, b) == Key[a] < Key[b]

\* internal/order.h: the right one goes first only when it is strictly less
RightGoesFirst(left, right) == Less(right, left)

InOrder(s) == \A i, j \in DOMAIN s : i < j => ~Less(s[j], s[i])

Positions(s, e) == {i \in DOMAIN s : s[i] = e}

\* s and t hold the same elems, each as often
SameElems(s, t) ==
    Len(s) = Len(t) /\ \A i \in DOMAIN s : Cardinality(Positions(s, s[i])) = Cardinality(Positions(t, s[i]))

\* s in order, with the equal ones left in theirs: each elem goes after the lesser ones, and
\* after the equal ones before it
StableSorted(s) ==
    LET place == [i \in DOMAIN s |->
            Cardinality({j \in DOMAIN s : Less(s[j], s[i]) \/ (~Less(s[i], s[j]) /\ j <= i)})]
    IN  [r \in DOMAIN s |-> s[CHOOSE i \in DOMAIN s : place[i] = r]]
=============================================================================
