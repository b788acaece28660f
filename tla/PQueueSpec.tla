----------------------------- MODULE PQueueSpec ----------------------------
(***************************************************************************)
(* What a priority queue promises: it is a bag of elems and an order, and   *)
(* the elem it shows or gives up next is one that no other in the bag comes *)
(* before.  A call refused memory changes nothing.                          *)
(***************************************************************************)
EXTENDS Integers, Sequences, FiniteSets

CONSTANTS
    Names,  \* the queues
    Elem,   \* the elems
    Null    \* the order of a queue that is not there

VARIABLES bags, orders, call

Counted(s) == [x \in Elem |-> Cardinality({i \in DOMAIN s : s[i] = x})]
None == [x \in Elem |-> 0]
Joined(a, b) == [x \in Elem |-> a[x] + b[x]]

Init == bags = [d \in Names |-> None] /\ orders = [d \in Names |-> Null] /\ call = [op |-> "none"]

Becomes(d, bag, order) == bags' = [bags EXCEPT ![d] = bag] /\ orders' = [orders EXCEPT ![d] = order]

\* x is in the bag, and nothing there comes before it
Greatest(x, d) == bags[d][x] > 0 /\ \A y \in Elem : bags[d][y] > 0 => orders[d][x] >= orders[d][y]

Refused(c) == ~c.ok /\ c.op \in {"make", "copy", "push", "extend", "room"} /\ UNCHANGED <<bags, orders>>

Served(c, bag, order) ==
    \/ c.op = "make" /\ Becomes(c.d, Counted(c.src), c.order)
    \/ c.op = "copy" /\ Becomes(c.d, bags[c.from], orders[c.from])
    \/ c.op = "push" /\ Becomes(c.d, [bag EXCEPT ![c.val] = @ + 1], order)
    \/ c.op = "extend" /\ Becomes(c.d, Joined(bag, Counted(c.src)), order)
    \/ c.op = "room" /\ UNCHANGED <<bags, orders>>
    \/ c.op = "pop" /\ Greatest(c.out, c.d) /\ Becomes(c.d, [bag EXCEPT ![c.out] = @ - 1], order)
    \/ /\ c.op = "replace_top" /\ Greatest(c.out, c.d)
       /\ Becomes(c.d, [[bag EXCEPT ![c.out] = @ - 1] EXCEPT ![c.val] = @ + 1], order)
    \/ c.op = "top" /\ Greatest(c.out, c.d) /\ UNCHANGED <<bags, orders>>
    \/ c.op = "to_span" /\ Counted(c.out) = bag /\ UNCHANGED <<bags, orders>>
    \/ c.op = "into_vec" /\ Counted(c.out) = bag /\ Becomes(c.d, None, Null)
    \/ c.op = "deinit" /\ Becomes(c.d, None, Null)
    \/ c.op = "clear" /\ Becomes(c.d, None, order)

\* a move leaves its source empty, its order kept
Exchange(c) ==
    LET given(f, left) == IF c.d = c.from THEN f ELSE [f EXCEPT ![c.d] = f[c.from], ![c.from] = left]
    IN  \/ c.op = "move_assign" /\ bags' = given(bags, None) /\ orders' = given(orders, orders[c.from])
        \/ c.op = "swap" /\ bags' = given(bags, bags[c.d]) /\ orders' = given(orders, orders[c.d])

\* a vec that was a queue's is its caller's business
Elsewhere(c) == c.op = "vec_deinit" /\ UNCHANGED <<bags, orders>>

Does(c) ==
    \/ Elsewhere(c) \/ Refused(c)
    \/ c.ok /\ (Served(c, bags[c.d], orders[c.d]) \/ Exchange(c))

Spec == Init /\ [][Does(call')]_<<bags, orders, call>>
=============================================================================
