-------------------------------- MODULE List -------------------------------
(***************************************************************************)
(* The doubly linked list of src/ds/list.c, one node per elem.              *)
(*                                                                         *)
(* lists maps each handle to its tda_List; a zeroed handle has no           *)
(* allocator.  mem is the memory: the nodes the allocators have out, each   *)
(* with its links, its elem and the allocator it came from.  call is the    *)
(* last call made.  An allocator may refuse any request.                    *)
(*                                                                         *)
(* The helpers work on a world w = [mem, lists]; there lists also has the   *)
(* list Spare, the local one of a call that makes nodes apart.  What Spare  *)
(* holds when the call ends is lost.                                        *)
(***************************************************************************)
EXTENDS Layout, Order, SequencesExt

CONSTANTS
    Names,     \* the handles
    Spare,     \* the list a call keeps on its stack
    Als,       \* the allocators
    MaxSpan,   \* bound on the length of a caller's span
    MaxNodes   \* bound on the nodes of all lists: the allocators refuse more

ASSUME ListAssumption ==
    /\ Spare \notin Names /\ Null \notin Als /\ Null \notin Nat
    /\ MaxSpan \in Nat /\ MaxNodes \in Nat

VARIABLES lists, mem, call

vars == <<lists, mem, call>>

Spans == UNION {[1 .. n -> Elem] : n \in 0 .. MaxSpan}

\* tda_list_init
Empty(al) == [al |-> al, head |-> Null, tail |-> Null, len |-> 0]
Zeroed == Empty(Null)

World == [mem |-> mem, lists |-> lists @@ (Spare :> Zeroed)]

\* a step of a walk: the nodes there are, or the end
Places == 1 .. MaxNodes \cup {Null}

\* the nodes on the way along 'next' from a node on
Chain(m, from) ==
    LET walk[n \in Places, left \in 0 .. MaxNodes] ==
            IF left = 0 \/ n \notin DOMAIN m THEN <<>> ELSE <<n>> \o walk[m[n].next, left - 1]
    IN  walk[from, MaxNodes]

\* the nodes on the way along 'prev' from a node on
ChainBack(m, from) ==
    LET walk[n \in Places, left \in 0 .. MaxNodes] ==
            IF left = 0 \/ n \notin DOMAIN m THEN <<>> ELSE <<n>> \o walk[m[n].prev, left - 1]
    IN  walk[from, MaxNodes]

\* the elems along 'next'
ElemsFrom(m, from) ==
    LET walk[n \in Places, left \in 0 .. MaxNodes] ==
            IF left = 0 \/ n \notin DOMAIN m THEN <<>> ELSE <<m[n].elem>> \o walk[m[n].next, left - 1]
    IN  walk[from, MaxNodes]

Nodes(d) == Chain(mem, lists[d].head)
Contents(d) == ElemsFrom(mem, lists[d].head)

-----------------------------------------------------------------------------
(* Links.                                                                   *)

\* the chain first .. last of count nodes between prev and next; Null is that end
LinkChain(w, d, first, last, count, prev, next) ==
    LET ends == [w EXCEPT !.mem[first].prev = prev, !.mem[last].next = next,
                          !.lists[d].len = @ + count]
        left == IF prev # Null THEN [ends EXCEPT !.mem[prev].next = first]
                ELSE [ends EXCEPT !.lists[d].head = first]
    IN  IF next # Null THEN [left EXCEPT !.mem[next].prev = last]
        ELSE [left EXCEPT !.lists[d].tail = last]

LinkNode(w, d, node, prev, next) == LinkChain(w, d, node, node, 1, prev, next)

UnlinkNode(w, d, node) ==
    LET prev == w.mem[node].prev
        next == w.mem[node].next
        left == IF prev # Null THEN [w EXCEPT !.mem[prev].next = next]
                ELSE [w EXCEPT !.lists[d].head = next]
        right == IF next # Null THEN [left EXCEPT !.mem[next].prev = prev]
                 ELSE [left EXCEPT !.lists[d].tail = prev]
    IN  [right EXCEPT !.lists[d].len = @ - 1]

\* tda_dealloc takes back a node of the allocator it is given
DeallocNodes(w, d, nodes) ==
    [w EXCEPT !.mem = [n \in {n \in DOMAIN @ : n \in nodes => @[n].al # w.lists[d].al} |-> @[n]]]

RemoveNode(w, d, node) == DeallocNodes(UnlinkNode(w, d, node), d, {node})

SetEmpty(w, d) == [w EXCEPT !.lists[d] = Empty(@.al)]

ClearNodes(w, d) == SetEmpty(DeallocNodes(w, d, Range(Chain(w.mem, w.lists[d].head))), d)

Deinit(w, d) == [ClearNodes(w, d) EXCEPT !.lists[d] = Zeroed]

\* the node an insert before 'at' goes after
PrevOf(w, d, at) == IF at # Null THEN w.mem[at].prev ELSE w.lists[d].tail

\* the nodes of one list at an end of the other, which shares its allocator
SpliceNodes(w, d, src, front) ==
    LET l == w.lists[d]
        s == w.lists[src]
    IN  SetEmpty(LinkChain(w, d, s.head, s.tail, s.len, IF front THEN Null ELSE l.tail,
                           IF front THEN l.head ELSE Null), src)

-----------------------------------------------------------------------------
(* Nodes.  An outcome is [w, ok]: the world a helper leaves, its status.    *)

Outcome(w, ok) == [w |-> w, ok |-> ok]

FreshNode(m) == CHOOSE n \in 1 .. Cardinality(DOMAIN m) + 1 : n \notin DOMAIN m

AllocNode(w, d, n, e) ==
    [w EXCEPT !.mem = @ @@ (n :> [next |-> Null, prev |-> Null, elem |-> e, al |-> w.lists[d].al])]

InsertBetween(w, d, prev, next, e) ==
    LET n == FreshNode(w.mem)
    IN  {Outcome(w, FALSE)}
        \cup IF Cardinality(DOMAIN w.mem) = MaxNodes THEN {}
             ELSE {Outcome(LinkNode(AllocNode(w, d, n, e), d, n, prev, next), TRUE)}

\* a push of each elem of es in turn, until one is refused
PushAll(w, d, es) ==
    LET push(rs, e) ==
            UNION {IF r.ok THEN InsertBetween(r.w, d, r.w.lists[d].tail, Null, e) ELSE {r} : r \in rs}
    IN  FoldLeft(push, {Outcome(w, TRUE)}, es)

\* broken: a refused push leaves the nodes made before it
PushCopiesLeaks(w, d, es) == PushAll(w, d, es)

\* refused, the nodes made so far are freed
PushCopies(w, d, es) ==
    {IF r.ok THEN r ELSE Outcome(ClearNodes(r.w, d), FALSE) : r \in PushAll(w, d, es)}

\* an empty list on d's allocator, in the call's own variable
WithSpare(w, al) == [w EXCEPT !.lists[Spare] = Empty(al)]

\* broken: the nodes are copied whoever made them
NodesForCopies(w, d, src) ==
    {[w |-> r.w, ok |-> r.ok, from |-> Spare] :
        r \in PushCopies(WithSpare(w, w.lists[d].al), Spare, ElemsFrom(w.mem, w.lists[src].head))}

\* where the nodes for d come from: src itself, or a copy of it on the allocator of d
NodesFor(w, d, src) ==
    IF w.lists[d].al = w.lists[src].al THEN {[w |-> w, ok |-> TRUE, from |-> src]}
    ELSE {[w |-> r.w, ok |-> r.ok, from |-> Spare] :
             r \in PushCopies(WithSpare(w, w.lists[d].al), Spare,
                              ElemsFrom(w.mem, w.lists[src].head))}

\* a copy is dropped, and src emptied
ReleaseSource(w, src, from) == IF from = src THEN w ELSE ClearNodes(Deinit(w, from), src)

\* refused, neither list is touched
SpliceImpl(w, d, src, front) ==
    IF w.lists[src].len = 0 THEN {Outcome(w, TRUE)}
    ELSE {IF r.ok THEN Outcome(ReleaseSource(SpliceNodes(r.w, d, r.from, front), src, r.from), TRUE)
          ELSE Outcome(r.w, FALSE) : r \in NodesFor(w, d, src)}

\* n nodes on from a node, or Null past the end
Skip(m, from, n) ==
    LET walk[node \in Places, left \in 0 .. MaxNodes] ==
            IF node = Null \/ left = 0 THEN node ELSE walk[m[node].next, left - 1]
    IN  walk[from, n]

-----------------------------------------------------------------------------
(* Order.                                                                   *)

\* two chains, as the nodes along them, merged into one until one runs out
MergeChains(m, a, b) ==
    LET step(s, i) ==
            IF s.a = <<>> \/ s.b = <<>> THEN s
            ELSE IF RightGoesFirst(m[Head(s.a)].elem, m[Head(s.b)].elem)
            THEN [s EXCEPT !.out = Append(@, Head(s.b)), !.b = Tail(@)]
            ELSE [s EXCEPT !.out = Append(@, Head(s.a)), !.a = Tail(@)]
        end == FoldLeft(step, [out |-> <<>>, a |-> a, b |-> b], a \o b)
    IN  end.out \o end.a \o end.b

\* cut after the left half, each half sorted, the two merged
SortChain(m, chain) ==
    LET sort[c \in Seq(DOMAIN m)] ==
            LET half == Len(c) \div 2
            IN  IF Len(c) < 2 THEN c
                ELSE MergeChains(m, sort[SubSeq(c, 1, half)], sort[SubSeq(c, half + 1, Len(c))])
    IN  sort[chain]

\* d's nodes are the chain, linked along 'next' alone
WithChain(w, d, chain) ==
    LET next(n) ==
            LET i == CHOOSE i \in DOMAIN chain : chain[i] = n
            IN  IF i = Len(chain) THEN Null ELSE chain[i + 1]
    IN  [w EXCEPT !.lists[d].head = chain[1],
                  !.mem = [n \in DOMAIN @ |->
                              IF n \in Range(chain) THEN [@[n] EXCEPT !.next = next(n)] ELSE @[n]]]

\* every 'prev', and the tail, from the 'next' chain
RelinkPrev(w, d) ==
    LET step(s, n) == [w |-> [s.w EXCEPT !.mem[n].prev = s.prev], prev |-> n]
        end == FoldLeft(step, [w |-> w, prev |-> Null], Chain(w.mem, w.lists[d].head))
    IN  [end.w EXCEPT !.lists[d].tail = end.prev]

MergeInto(w, d, src) ==
    LET chain == MergeChains(w.mem, Chain(w.mem, w.lists[d].head), Chain(w.mem, w.lists[src].head))
        merged == [WithChain(w, d, chain) EXCEPT !.lists[d].len = @ + w.lists[src].len]
    IN  SetEmpty(RelinkPrev(merged, d), src)

-----------------------------------------------------------------------------
(* The calls.                                                               *)

Init == lists = [d \in Names |-> Zeroed] /\ mem = <<>> /\ call = [op |-> "none"]

Alive(d) == lists[d].al # Null

Ends(c, d, w, ok) ==
    /\ mem' = w.mem
    /\ lists' = [n \in Names |-> w.lists[n]]
    /\ call' = c @@ [d |-> d, ok |-> ok]

Own(e) == [alias |-> FALSE, at |-> e]

\* init, from_data and from_span: refused, the nodes made so far are released
tda_list_make(d, al, src) ==
    /\ ~Alive(d)
    /\ \E r \in PushAll([World EXCEPT !.lists[d] = Empty(al)], d, src) :
          Ends([op |-> "make", src |-> src], d, IF r.ok THEN r.w ELSE Deinit(r.w, d), r.ok)

tda_list_deinit(d) == Ends([op |-> "deinit"], d, IF Alive(d) THEN Deinit(World, d) ELSE World, TRUE)

\* copy and copy_with
tda_list_copy_with(d, al, e) ==
    /\ ~Alive(d) /\ Alive(e)
    /\ \E r \in PushCopies([World EXCEPT !.lists[d] = Empty(al)], d, Contents(e)) :
          Ends([op |-> "copy", from |-> e], d,
               IF r.ok THEN r.w ELSE [r.w EXCEPT !.lists[d] = Zeroed], r.ok)

\* the world with the elems of e over those of d, as far as both go
Overwritten(w, d, e) ==
    LET to == Nodes(d)
        from == Contents(e)
        put(m, i) == IF i > Len(from) THEN m ELSE [m EXCEPT ![to[i]].elem = from[i]]
    IN  [w EXCEPT !.mem = FoldLeft(put, @, [i \in DOMAIN to |-> i])]

\* the nodes past d's length are made up front, then the elems are copied and the rest freed
tda_list_copy_assign(d, e) ==
    LET src == Contents(e)
        missing == ElemsFrom(mem, Skip(mem, lists[e].head, lists[d].len))
        trimmed(w) == FoldLeft(LAMBDA v, n : RemoveNode(v, d, n), w,
                               Reverse(SubSeq(Nodes(d), Len(src) + 1, lists[d].len)))
        done(w) == IF w.lists[Spare].len > 0 THEN SpliceNodes(w, d, Spare, FALSE) ELSE w
        outcomes == {IF r.ok THEN Outcome(done(trimmed(Overwritten(r.w, d, e))), TRUE) ELSE r :
                        r \in PushCopies(WithSpare(World, lists[d].al), Spare, missing)}
    IN  /\ Alive(d) /\ Alive(e)
        /\ \E r \in IF d = e THEN {Outcome(World, TRUE)} ELSE outcomes :
              Ends([op |-> "copy", from |-> e], d, r.w, r.ok)

tda_list_move_assign(d, e) ==
    LET w == IF Alive(d) THEN Deinit(World, d) ELSE World
    IN  /\ Alive(e)
        /\ Ends([op |-> "move_assign", from |-> e], d,
                IF d = e THEN World
                ELSE [w EXCEPT !.lists[d] = lists[e], !.lists[e] = Empty(lists[e].al)], TRUE)

tda_list_swap(d, e) ==
    /\ Alive(d) /\ Alive(e)
    /\ Ends([op |-> "swap", from |-> e], d,
            [World EXCEPT !.lists[d] = lists[e], !.lists[e] = lists[d]], TRUE)

\* front_mut, back_mut and node_elem_mut: the caller writes the elem of a node
tda_list_node_elem_mut(d, i, e) ==
    Ends([op |-> "set", idx |-> i - 1, val |-> Own(e)], d, [World EXCEPT !.mem[Nodes(d)[i]].elem = e], TRUE)

tda_list_push_front(d, e) ==
    \E r \in InsertBetween(World, d, Null, lists[d].head, e) :
        Ends([op |-> "push_front", val |-> Own(e)], d, r.w, r.ok)

tda_list_push_back(d, e) ==
    \E r \in InsertBetween(World, d, lists[d].tail, Null, e) :
        Ends([op |-> "push_back", val |-> Own(e)], d, r.w, r.ok)

\* the nodes are made apart and linked in one go
tda_list_extend(d, src) ==
    LET made(r) == IF r.ok THEN Outcome(SpliceNodes(r.w, d, Spare, FALSE), TRUE)
                   ELSE Outcome(Deinit(r.w, Spare), FALSE)
    IN  \E r \in IF src = <<>> THEN {Outcome(World, TRUE)}
                 ELSE {made(p) : p \in PushAll(WithSpare(World, lists[d].al), Spare, src)} :
            Ends([op |-> "insert_span", idx |-> lists[d].len, src |-> src], d, r.w, r.ok)

tda_list_pop_front(d) ==
    /\ lists[d].len > 0
    /\ Ends([op |-> "pop_front", out |-> mem[lists[d].head].elem], d,
            RemoveNode(World, d, lists[d].head), TRUE)

tda_list_pop_back(d) ==
    /\ lists[d].len > 0
    /\ Ends([op |-> "pop_back", out |-> mem[lists[d].tail].elem], d,
            RemoveNode(World, d, lists[d].tail), TRUE)

\* 'out' is the caller's, or the elem of the i-th node; memmove, so that one too
PoppedTo(d, node, i) ==
    RemoveNode(IF i = 0 THEN World ELSE [World EXCEPT !.mem[Nodes(d)[i]].elem = mem[node].elem], d, node)

tda_list_pop_front_to(d, i) ==
    /\ lists[d].len > 0
    /\ Ends([op |-> "pop_front_to", to |-> i - 1, out |-> mem[lists[d].head].elem], d,
            PoppedTo(d, lists[d].head, i), TRUE)

tda_list_pop_back_to(d, i) ==
    /\ lists[d].len > 0
    /\ Ends([op |-> "pop_back_to", to |-> i - 1, out |-> mem[lists[d].tail].elem], d,
            PoppedTo(d, lists[d].tail, i), TRUE)

tda_list_insert_before(d, i, e) ==
    LET at == Nodes(d)[i]
    IN  \E r \in InsertBetween(World, d, mem[at].prev, at, e) :
            Ends([op |-> "insert", idx |-> i - 1, val |-> Own(e)], d, r.w, r.ok)

tda_list_insert_after(d, i, e) ==
    LET at == Nodes(d)[i]
    IN  \E r \in InsertBetween(World, d, at, mem[at].next, e) :
            Ends([op |-> "insert", idx |-> i, val |-> Own(e)], d, r.w, r.ok)

tda_list_remove_node(d, i) ==
    Ends([op |-> "remove_range", idx |-> i - 1, n |-> 1], d, RemoveNode(World, d, Nodes(d)[i]), TRUE)

\* 'next' is read before the node goes
tda_list_retain(d, keep) ==
    Ends([op |-> "retain", keep |-> keep], d,
         FoldLeft(LAMBDA w, n : IF mem[n].elem \in keep THEN w ELSE RemoveNode(w, d, n),
                  World, Nodes(d)), TRUE)

\* one turn of the safe walk: the node to go on from is taken before the body runs, and the
\* body drops the node it is on when the elem is in gone
SafeTurn(t, d, gone) ==
    [w |-> IF t.w.mem[t.node].elem \in gone THEN RemoveNode(t.w, d, t.node) ELSE t.w,
     node |-> t.w.mem[t.node].next]

\* a caller drops nodes as it walks: while there is a node, a turn
TDA_LIST_FOR_EACH_SAFE(d, gone) ==
    LET end == FoldLeft(LAMBDA t, n : IF t.node = Null THEN t ELSE SafeTurn(t, d, gone),
                        [w |-> World, node |-> lists[d].head], Nodes(d))
    IN  Ends([op |-> "retain", keep |-> Elem \ gone], d, end.w, TRUE)

tda_list_clear(d) == Ends([op |-> "clear"], d, ClearNodes(World, d), TRUE)

\* splice_front and splice_back
tda_list_splice(d, src, front) ==
    /\ d # src /\ Alive(src)
    /\ \E r \in SpliceImpl(World, d, src, front) :
          Ends([op |-> IF front THEN "splice_front" ELSE "splice_back", from |-> src], d, r.w, r.ok)

\* broken: the neighbour is read while the node is still linked
SpliceNodeStale(d, i, src, j) ==
    LET at == IF i > lists[d].len THEN Null ELSE Nodes(d)[i]
        node == Nodes(src)[j]
    IN  /\ Alive(src) /\ at # node /\ lists[d].al = lists[src].al
        /\ Ends([op |-> "splice_node", idx |-> i - 1, from |-> src, idx2 |-> j - 1], d,
                LinkNode(UnlinkNode(World, src, node), d, node, PrevOf(World, d, at), at), TRUE)

\* the j-th node of src before the i-th of d, or at the back.  Unlinked first, so that src
\* may be d; across allocators the elem is copied and the node released
tda_list_splice_node(d, i, src, j) ==
    LET at == IF i > lists[d].len THEN Null ELSE Nodes(d)[i]
        node == Nodes(src)[j]
        unlinked == UnlinkNode(World, src, node)
        outcomes ==
            IF lists[d].al = lists[src].al
            THEN {Outcome(LinkNode(unlinked, d, node, PrevOf(unlinked, d, at), at), TRUE)}
            ELSE {IF r.ok THEN Outcome(RemoveNode(r.w, src, node), TRUE) ELSE r :
                     r \in InsertBetween(World, d, PrevOf(World, d, at), at, mem[node].elem)}
    IN  /\ Alive(src) /\ at # node
        /\ \E r \in outcomes :
              Ends([op |-> "splice_node", idx |-> i - 1, from |-> src, idx2 |-> j - 1], d, r.w, r.ok)

tda_list_reverse(d) ==
    LET swapped(m, n) == [m EXCEPT ![n].next = m[n].prev, ![n].prev = m[n].next]
        l == lists[d]
    IN  Ends([op |-> "reverse"], d,
             [World EXCEPT !.mem = FoldLeft(swapped, @, Nodes(d)),
                           !.lists[d].head = l.tail, !.lists[d].tail = l.head], TRUE)

tda_list_sort(d) ==
    Ends([op |-> "sort"], d,
         IF lists[d].len < 2 THEN World
         ELSE RelinkPrev(WithChain(World, d, SortChain(mem, Nodes(d))), d), TRUE)

tda_list_merge(d, src) ==
    /\ d # src /\ Alive(src)
    /\ \E r \in IF lists[src].len = 0 THEN {[w |-> World, ok |-> TRUE, from |-> Spare]}
                ELSE NodesFor(World, d, src) :
          Ends([op |-> "merge", from |-> src], d,
               IF ~r.ok \/ lists[src].len = 0 THEN r.w
               ELSE ReleaseSource(MergeInto(r.w, d, r.from), src, r.from), r.ok)

tda_list_copy_from_span(d, src) ==
    /\ Len(src) = lists[d].len
    /\ Ends([op |-> "copy_from_span", src |-> src], d,
            [World EXCEPT !.mem = FoldLeft(LAMBDA m, i : [m EXCEPT ![Nodes(d)[i]].elem = src[i]], @,
                                           [i \in DOMAIN src |-> i])], TRUE)

\* a call that only reads: its answer is out
Answers(c, d, out) == Ends(c @@ [out |-> out], d, World, TRUE)

\* tda_elem_eq: the bytes, or what the caller's 'eq' sees of them
ElemEq(by_key, x, y) == IF by_key THEN Key[x] = Key[y] ELSE x = y

\* the two walked together while the first lasts
EqWalk(d, e, by_key) ==
    LET walk[a \in Places, b \in Places] ==
            \/ a \notin DOMAIN mem
            \/ b \in DOMAIN mem /\ ElemEq(by_key, mem[a].elem, mem[b].elem)
               /\ walk[mem[a].next, mem[b].next]
    IN  walk[lists[d].head, lists[e].head]

EqImpl(d, e, by_key) == d = e \/ (lists[d].len = lists[e].len /\ EqWalk(d, e, by_key))

tda_list_eq(d, e) == Alive(e) /\ Answers([op |-> "eq", from |-> e], d, EqImpl(d, e, FALSE))

tda_list_eq_by(d, e) == Alive(e) /\ Answers([op |-> "eq_by", from |-> e], d, EqImpl(d, e, TRUE))

\* the index of the node found, or -1
FindNode(d, e) ==
    LET walk[n \in Places, i \in 0 .. MaxNodes] ==
            IF n \notin DOMAIN mem THEN -1
            ELSE IF Key[mem[n].elem] = Key[e] THEN i ELSE walk[mem[n].next, i + 1]
    IN  walk[lists[d].head, 0]

\* find and find_mut
tda_list_find(d, e) == Answers([op |-> "find", key |-> e], d, FindNode(d, e))

tda_list_front(d) ==
    lists[d].len > 0 /\ Answers([op |-> "get", idx |-> 0], d, mem[lists[d].head].elem)

tda_list_back(d) ==
    lists[d].len > 0 /\ Answers([op |-> "get", idx |-> lists[d].len - 1], d, mem[lists[d].tail].elem)

\* the elems a walk on from the i-th node meets, and a walk back
tda_list_node_next(d, i) ==
    Answers([op |-> "node_next", idx |-> i - 1], d, ElemsFrom(mem, mem[Nodes(d)[i]].next))

tda_list_node_prev(d, i) ==
    LET back == ChainBack(mem, mem[Nodes(d)[i]].prev)
    IN  Answers([op |-> "node_prev", idx |-> i - 1], d, [j \in DOMAIN back |-> mem[back[j]].elem])

tda_list_copy_to_span(d) == Answers([op |-> "copy_to_span"], d, Contents(d))

\* the walk, indexed or not, that only reads: from the front, along 'next', to the end
TDA_LIST_FOR_EACH(d) == Answers([op |-> "copy_to_span"], d, ElemsFrom(mem, lists[d].head))

\* print and fprint make that walk: the elems in the order they are written in; nothing joins
\* or parts them but the brackets and the commas.  A stream that fails stops no elem after it
tda_list_fprint(d) == TDA_LIST_FOR_EACH(d)

Lifetime ==
    \E d, e \in Names :
        \/ \E al \in Als, src \in Spans : tda_list_make(d, al, src)
        \/ tda_list_deinit(d)
        \/ \E al \in Als : tda_list_copy_with(d, al, e)
        \/ tda_list_copy_assign(d, e) \/ tda_list_move_assign(d, e) \/ tda_list_swap(d, e)

Mods(d) ==
    \/ \E e \in Elem :
          \/ tda_list_push_front(d, e) \/ tda_list_push_back(d, e)
          \/ \E i \in 1 .. lists[d].len :
                \/ tda_list_node_elem_mut(d, i, e)
                \/ tda_list_insert_before(d, i, e) \/ tda_list_insert_after(d, i, e)
    \/ \E src \in Spans : tda_list_extend(d, src) \/ tda_list_copy_from_span(d, src)
    \/ tda_list_pop_front(d) \/ tda_list_pop_back(d)
    \/ \E i \in 0 .. lists[d].len : tda_list_pop_front_to(d, i) \/ tda_list_pop_back_to(d, i)
    \/ \E i \in 1 .. lists[d].len : tda_list_remove_node(d, i)
    \/ \E keep \in SUBSET Elem : tda_list_retain(d, keep) \/ TDA_LIST_FOR_EACH_SAFE(d, keep)
    \/ tda_list_clear(d)

Relinking(d) ==
    \/ tda_list_reverse(d) \/ tda_list_sort(d)
    \/ \E src \in Names :
          \/ \E front \in BOOLEAN : tda_list_splice(d, src, front)
          \/ tda_list_merge(d, src)
          \/ \E i \in 1 .. lists[d].len + 1, j \in 1 .. lists[src].len : tda_list_splice_node(d, i, src, j)

Reads(d) ==
    \/ \E e \in Names : tda_list_eq(d, e) \/ tda_list_eq_by(d, e)
    \/ \E e \in Elem : tda_list_find(d, e)
    \/ tda_list_front(d) \/ tda_list_back(d)
    \/ tda_list_copy_to_span(d) \/ TDA_LIST_FOR_EACH(d) \/ tda_list_fprint(d)
    \/ \E i \in 1 .. lists[d].len : tda_list_node_next(d, i) \/ tda_list_node_prev(d, i)

Next == Lifetime \/ \E d \in Names : Alive(d) /\ (Mods(d) \/ Relinking(d) \/ Reads(d))

Spec == Init /\ [][Next]_vars

-----------------------------------------------------------------------------
(* Properties.                                                              *)

\* The two directions of each list are each other's reverse, from end to end, and as long
\* as the list says; what ASSERT_LIST and ASSERT_NODE check, of every node.
LinksAgree ==
    \A d \in Names :
        LET chain == Nodes(d)
        IN  /\ ChainBack(mem, lists[d].tail) = Reverse(chain)
            /\ lists[d].len = Len(chain)
            /\ IF chain = <<>> THEN lists[d].head = Null /\ lists[d].tail = Null
               ELSE mem[Last(chain)].next = Null /\ mem[Head(chain)].prev = Null

\* Every node the allocators have out is in one list, once, and that list is on the
\* allocator the node came from: after splices, merges and copies across allocators,
\* refused at any node, none is leaked, shared or given back to another allocator.
NodesOwned ==
    /\ LinksAgree
    /\ \A d \in Names : \A n \in Range(Nodes(d)) : mem[n].al = lists[d].al
    /\ DOMAIN mem = UNION {Range(Nodes(d)) : d \in Names}
    /\ Cardinality(DOMAIN mem) = MapThenSumSet(LAMBDA d : lists[d].len, Names)
    /\ \A d \in Names : ~Alive(d) => lists[d] = Zeroed

\* A node in hand names the same elem for as long as the elem is in a list: no call but one
\* that writes elems changes the elem of a node that stays, and a splice or a merge between
\* lists on one allocator moves the very nodes and is never refused.
NodesStay ==
    [][/\ call'.op \in {"set", "copy", "copy_from_span", "pop_front_to", "pop_back_to"}
          \/ \A n \in DOMAIN mem \cap DOMAIN mem' : mem'[n].elem = mem[n].elem
       /\ call'.op \in {"splice_front", "splice_back", "splice_node", "merge"}
          /\ lists[call'.d].al = lists[call'.from].al => call'.ok /\ DOMAIN mem' = DOMAIN mem]_vars

Lists == INSTANCE ListSpec WITH seqs <- [d \in Names |-> Contents(d)], Zero <- Null

\* A list is a sequence: every call does to the elems, in order, what its name says, sort
\* and merge stably; a node moved within its own list lands before the one named; and a
\* call that is refused memory, at whichever of its nodes, leaves both lists as they were.
ImplementsList == Lists!ListSpec
=============================================================================
