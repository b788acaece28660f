-------------------------------- MODULE HMap --------------------------------
(***************************************************************************)
(* The hash map of src/ds/hmap.c: buckets, each a chain of nodes, each node *)
(* with its key, its value and the hash of its key.                         *)
(*                                                                         *)
(* maps maps each handle to its tda_HMap, with the contents of its bucket   *)
(* array as buckets, each the sequence of the numbers of the nodes linked   *)
(* from it; a zeroed handle has no allocator.  heap is what the allocators  *)
(* have out: nodes, by their number, and arrays, by number, allocator and   *)
(* length.  call is the last call made.  An allocator may refuse any        *)
(* request.  A program uses the code of the map for maps or for sets: kind  *)
(* says which the handles are.                                              *)
(*                                                                         *)
(* Keys are what the callers give; keys of one Class are equal under the    *)
(* map's eq and hash alike under each hasher.                               *)
(***************************************************************************)
EXTENDS Layout, SequencesExt

CONSTANTS
    Names,       \* the handles
    Als,         \* the allocators
    Keys,        \* the keys
    Class,       \* the class of keys equal to each key
    Vals,        \* the values
    Hashers,     \* the hashers
    Hash,        \* what each hasher makes of each key
    HashBits,    \* width of tda_Hash
    Multiplier,  \* FIB_MULTIPLIER
    BucketsBase, \* HMAP_BUCKETS_BASE
    PtrSize,     \* sizeof a bucket
    Keeps,       \* the sets of <<key, value>> the callers' predicates pass
    ValEqs,      \* the sets of <<value, value>> the callers' equalities pass
    Pairs,       \* the spans of key and value the callers pass
    Kinds        \* the kinds of table there are: "hmap", "hset"

Factor == 2
\* the values compared as bytes
SameVals == {<<v, v>> : v \in Vals}

ASSUME HMapAssumption ==
    /\ Null \notin Als /\ Null \notin Nat
    /\ Pairs \subseteq Seq(Keys \X Vals)
    /\ SizeMax \in Nat \ {0} /\ PtrSize \in Nat \ {0} /\ HashBits \in Nat
    /\ \A hasher \in Hashers, k, l \in Keys :
          /\ Hash[hasher][k] \in 0 .. 2^HashBits - 1
          /\ Class[k] = Class[l] => Hash[hasher][k] = Hash[hasher][l]
    /\ Multiplier % 2 = 1
    \* the two static_asserts
    /\ BucketsBase > 1 /\ \E n \in 1 .. HashBits : BucketsBase = 2^n
    \* no more buckets than hashes
    /\ SizeMax \div PtrSize <= 2^HashBits

VARIABLES maps, heap, call, kind

vars == <<maps, heap, call>>

Sizes == 0 .. SizeMax

-----------------------------------------------------------------------------
(* Chains and lookup.  m is a tda_HMap, h the heap.                         *)

\* tda_hmap_init: an empty map that owns no buckets
Empty(al, hasher) ==
    [al |-> al, hasher |-> hasher, data |-> Null, count |-> 0, len |-> 0, buckets |-> <<>>]
Zeroed == Empty(Null, Null)

\* the top log2(count) bits of the mixed hash
BucketIn(hash, count) == ((hash * Multiplier) % 2^HashBits) \div (2^HashBits \div count)

BucketOf(m, hash) == BucketIn(hash, m.count)

\* the nodes, chain by chain in the order of the buckets
NodesOf(m) == FlattenSeq([i \in 1 .. m.count |-> m.buckets[i - 1]])
NodeSet(m) == UNION {ToSet(m.buckets[b]) : b \in DOMAIN m.buckets}

HoldsKey(node, key, hash) == node.hash = hash /\ Class[node.key] = Class[key]

FindNode(m, h, key, hash) ==
    LET hits == IF m.count = 0 THEN <<>>
                ELSE SelectSeq(m.buckets[BucketOf(m, hash)],
                               LAMBDA p : HoldsKey(h.nodes[p], key, hash))
    IN  IF hits = <<>> THEN Null ELSE hits[1]

\* the node under key, if there is one
Find(m, h, key) == FindNode(m, h, key, Hash[m.hasher][key])

FirstFrom(m, idx) ==
    LET taken == {i \in idx .. m.count - 1 : m.buckets[i] # <<>>}
    IN  IF taken = {} THEN Null ELSE Head(m.buckets[Min(taken)])

\* down its chain, then on to the next bucket by the cached hash
NextNode(m, h, p) ==
    LET b == BucketOf(m, h.nodes[p].hash)
        chain == m.buckets[b]
        after == {i \in 2 .. Len(chain) : chain[i - 1] = p}
    IN  IF after # {} THEN chain[Min(after)] ELSE FirstFrom(m, b + 1)

\* the entry of the node p: its key as it was stored, and its value
EntryOf(h, p) == [key |-> h.nodes[p].key, val |-> h.nodes[p].val]

\* the entry of a node, or none
EntryIf(h, p) == IF p = Null THEN {} ELSE {EntryOf(h, p)}

\* the nodes in the order a walk with first_node and node_next visits them; one that does
\* not end at the last node is cut short after one node too many
Walk(m, h) ==
    LET at[i \in 0 .. m.len] ==
            IF i = 0 THEN FirstFrom(m, 0)
            ELSE IF at[i - 1] = Null THEN Null ELSE NextNode(m, h, at[i - 1])
    IN  SelectSeq([i \in 1 .. m.len + 1 |-> at[i - 1]], LAMBDA p : p # Null)

\* broken: the lengths are not compared
EqImplOneWay(a, b, h, same) ==
    \A p \in NodeSet(a) :
        LET found == Find(b, h, h.nodes[p].key)
        IN  found # Null /\ <<h.nodes[p].val, h.nodes[found].val>> \in same

\* equal lengths, and each entry of a found in b, searched with its own hasher, with a value
\* that is the same
EqImpl(a, b, h, same) ==
    /\ a.len = b.len
    /\ \A p \in NodeSet(a) :
          LET found == Find(b, h, h.nodes[p].key)
          IN  found # Null /\ <<h.nodes[p].val, h.nodes[found].val>> \in same

-----------------------------------------------------------------------------
(* Nodes and buckets.  An outcome is [m, heap, ok]: the map and the heap a  *)
(* helper leaves, and its status.                                           *)

Outcome(m, h, ok) == [m |-> m, heap |-> h, ok |-> ok]

\* what follows an outcome that is ok
Then(outcomes, next(_)) == UNION {IF r.ok THEN next(r) ELSE {r} : r \in outcomes}

FreshId(h) ==
    LET used == DOMAIN h.nodes \cup {a.id : a \in h.arrays}
    IN  CHOOSE id \in 1 .. Cardinality(used) + 1 : id \notin used

ArrayOf(m) == [id |-> m.data, al |-> m.al, count |-> m.count]

\* the node p put at the head of its bucket among count
LinkNode(buckets, h, p, count) ==
    [buckets EXCEPT ![BucketIn(h.nodes[p].hash, count)] = <<p>> \o @]

NoChains(count) == [i \in 0 .. count - 1 |-> <<>>]

\* each node linked into the new array in turn
Rehash(m, h, new_count) ==
    LET buckets == FoldLeft(LAMBDA bs, p : LinkNode(bs, h, p, new_count),
                            NoChains(new_count), NodesOf(m))
        grown == [m EXCEPT !.data = FreshId(h), !.count = new_count, !.buckets = buckets]
    IN  {Outcome(m, h, FALSE)}
        \cup IF LayoutCkdArray([size |-> PtrSize, align |-> 1], new_count) = Null THEN {}
             ELSE {Outcome(grown, [h EXCEPT !.arrays = (@ \ {ArrayOf(m)}) \cup {ArrayOf(grown)}],
                           TRUE)}

\* the smallest bucket count that holds len entries, or 0 when it passes SIZE_MAX
BucketsFor(len) ==
    LET counts == {BucketsBase * Factor^n : n \in 0 .. HashBits}
        fit == {c \in counts : len <= c /\ c <= SizeMax}
    IN  IF fit = {} THEN 0 ELSE Min(fit)

ReserveBuckets(m, h, cap) ==
    IF cap <= m.count THEN {Outcome(m, h, TRUE)}
    ELSE IF BucketsFor(cap) = 0 THEN {Outcome(m, h, FALSE)}
    ELSE Rehash(m, h, BucketsFor(cap))

\* broken: an entry too many before the buckets grow
ReserveOneLate(m, h) == ReserveBuckets(m, h, Larger(m.len, 1))

ReserveOne(m, h) == ReserveBuckets(m, h, m.len + 1)

\* the heap with a node of the map's allocator numbered id in it
AllocNode(m, h, id, key, val, hash) ==
    [h EXCEPT !.nodes = @ @@ (id :> [al |-> m.al, key |-> key, val |-> val, hash |-> hash])]

\* the buckets may have grown when the node is refused
AddNode(m, h, key, val, hash) ==
    LET add(r) ==
            LET id == FreshId(r.heap)
                h2 == AllocNode(m, r.heap, id, key, val, hash)
            IN  {Outcome(r.m, r.heap, FALSE),
                 Outcome([r.m EXCEPT !.buckets = LinkNode(@, h2, id, r.m.count), !.len = @ + 1],
                         h2, TRUE)}
    IN  Then(ReserveOne(m, h), add)

\* the nodes ps given back, each to the allocator of the map
FreeNodes(h, ps) == [h EXCEPT !.nodes = Restrict(@, DOMAIN @ \ ps)]

\* remove_at: the node p taken out of the chain of bucket b and given back
RemoveAtLink(m, h, b, p) ==
    Outcome([m EXCEPT !.len = @ - 1, !.buckets[b] = SelectSeq(@, LAMBDA q : q # p)],
            FreeNodes(h, {p}), TRUE)

\* the nodes and the array given back, and the map left owning nothing
ReleaseBuckets(m, h) ==
    Outcome(Empty(m.al, m.hasher),
            [FreeNodes(h, NodeSet(m)) EXCEPT !.arrays = @ \ {ArrayOf(m)}], TRUE)

\* deinit of an inert map is a no-op
Deinit(m, h) == IF m.al = Null THEN h ELSE ReleaseBuckets(m, h).heap

\* broken: a key already there gets a new node for its old one
InsertReplaces(m, h, key, val) ==
    LET hash == Hash[m.hasher][key]
        found == FindNode(m, h, key, hash)
        added == {r \in AddNode(m, h, h.nodes[found].key, val, hash) : r.ok}
    IN  IF found = Null THEN AddNode(m, h, key, val, hash)
        ELSE {RemoveAtLink(r.m, r.heap, BucketOf(r.m, hash), found) : r \in added}

\* a key already there has its value overwritten
InsertOutcomes(m, h, key, val) ==
    LET hash == Hash[m.hasher][key]
        found == FindNode(m, h, key, hash)
    IN  IF found # Null THEN {Outcome(m, [h EXCEPT !.nodes[found].val = val], TRUE)}
        ELSE AddNode(m, h, key, val, hash)

\* the pairs inserted in order, up to the first that is refused
ExtendOutcomes(m, h, kvs) ==
    FoldLeft(LAMBDA rs, kv : Then(rs, LAMBDA r : InsertOutcomes(r.m, r.heap, kv[1], kv[2])),
             {Outcome(m, h, TRUE)}, kvs)

\* a new map: one that fails on the way is released, and the handle left as it was
Fresh(outcomes) ==
    {IF r.ok THEN r ELSE Outcome(Zeroed, Deinit(r.m, r.heap), FALSE) : r \in outcomes}

\* a copy of m on al: each entry goes in under its cached hash, with no search
CopyOutcomes(m, h, al) ==
    LET node(p) == h.nodes[p]
    IN  Fresh(FoldLeft(LAMBDA rs, p :
                           Then(rs, LAMBDA r : AddNode(r.m, r.heap, node(p).key, node(p).val,
                                                       node(p).hash)),
                       ReserveBuckets(Empty(al, m.hasher), h, m.len), NodesOf(m)))

\* the entries whose nodes do not pass removed, bucket by bucket
Retained(m, h, passing) ==
    FoldLeft(LAMBDA r, p :
                 IF p \in passing THEN r
                 ELSE RemoveAtLink(r.m, r.heap, BucketOf(m, h.nodes[p].hash), p),
             Outcome(m, h, TRUE), NodesOf(m))

\* remove and take: nothing happens when the key is not there
Removed(m, h, key) ==
    LET p == Find(m, h, key)
    IN  IF p = Null THEN Outcome(m, h, TRUE)
        ELSE RemoveAtLink(m, h, BucketOf(m, Hash[m.hasher][key]), p)

\* every node given back, the array kept
Cleared(m, h) ==
    Outcome([m EXCEPT !.len = 0, !.buckets = NoChains(m.count)],
            FreeNodes(h, NodeSet(m)), TRUE)

-----------------------------------------------------------------------------
(* The calls.                                                               *)

Init ==
    /\ maps = [d \in Names |-> Zeroed]
    /\ heap = [nodes |-> [i \in {} |-> Null], arrays |-> {}]
    /\ call = [op |-> "none"]

Alive(d) == maps[d].al # Null

\* the call c, made on d, ends as r
Ends(c, d, r) ==
    /\ maps' = [maps EXCEPT ![d] = r.m]
    /\ heap' = r.heap
    /\ call' = c @@ [d |-> d, ok |-> r.ok]

\* init, init_cap and from_spans: 'out' takes the map if all is well
tda_hmap_make(d, al, hasher, kvs, cap) ==
    /\ ~Alive(d)
    /\ kvs # <<>> => cap = Len(kvs)
    /\ \E r \in Fresh(Then(ReserveBuckets(Empty(al, hasher), heap, cap),
                           LAMBDA r : ExtendOutcomes(r.m, r.heap, kvs))) :
          Ends([op |-> "make", kvs |-> kvs], d, r)

tda_hmap_deinit(d) == Ends([op |-> "deinit"], d, Outcome(Zeroed, Deinit(maps[d], heap), TRUE))

tda_hmap_copy_with(d, al, e) ==
    /\ ~Alive(d) /\ Alive(e)
    /\ \E r \in CopyOutcomes(maps[e], heap, al) : Ends([op |-> "copy", from |-> e], d, r)

\* the clone is built first, so a refusal leaves the target as it was
tda_hmap_copy_assign(d, e) ==
    /\ Alive(d) /\ Alive(e)
    /\ LET m == maps[d]
           outcomes == IF d = e THEN {Outcome(m, heap, TRUE)}
                       ELSE {IF r.ok THEN Outcome(r.m, Deinit(m, r.heap), TRUE)
                             ELSE Outcome(m, r.heap, FALSE) :
                                 r \in CopyOutcomes(maps[e], heap, m.al)}
       IN  \E r \in outcomes : Ends([op |-> "copy", from |-> e], d, r)

tda_hmap_move_assign(d, e) ==
    /\ Alive(e)
    /\ maps' = IF d = e THEN maps
               ELSE [maps EXCEPT ![d] = maps[e], ![e] = Empty(maps[e].al, maps[e].hasher)]
    /\ heap' = IF d = e THEN heap ELSE Deinit(maps[d], heap)
    /\ call' = [op |-> "move_assign", from |-> e, d |-> d, ok |-> TRUE]

\* broken: the allocators stay with the handles
SwapKeepsAls(d, e) ==
    /\ Alive(d) /\ Alive(e)
    /\ maps' = [maps EXCEPT ![d] = [maps[e] EXCEPT !.al = maps[d].al],
                            ![e] = [maps[d] EXCEPT !.al = maps[e].al]]
    /\ call' = [op |-> "swap", from |-> e, d |-> d, ok |-> TRUE]
    /\ UNCHANGED heap

tda_hmap_swap(d, e) ==
    /\ Alive(d) /\ Alive(e)
    /\ maps' = [maps EXCEPT ![d] = maps[e], ![e] = maps[d]]
    /\ call' = [op |-> "swap", from |-> e, d |-> d, ok |-> TRUE]
    /\ UNCHANGED heap

tda_hmap_insert(d, key, val) ==
    LET is_new == Find(maps[d], heap, key) = Null
    IN  \E r \in InsertOutcomes(maps[d], heap, key, val) :
            Ends([op |-> "insert", key |-> key, val |-> val, is_new |-> is_new], d, r)

tda_hmap_extend(d, kvs) ==
    \E r \in ExtendOutcomes(maps[d], heap, kvs) : Ends([op |-> "extend", kvs |-> kvs], d, r)

tda_hmap_get_or_insert(d, key, val) ==
    LET m == maps[d]
        outcomes == IF Find(m, heap, key) # Null THEN {Outcome(m, heap, TRUE)}
                    ELSE AddNode(m, heap, key, val, Hash[m.hasher][key])
    IN  \E r \in outcomes : Ends([op |-> "get_or_insert", key |-> key, val |-> val], d, r)

\* the caller writes the value node_val_mut points to
tda_hmap_node_val_mut(d, p, val) ==
    Ends([op |-> "set_val", class |-> Class[heap.nodes[p].key], val |-> val], d,
         Outcome(maps[d], [heap EXCEPT !.nodes[p].val = val], TRUE))

\* get_mut and find_mut, and the write of the caller
tda_hmap_get_mut(d, key, val) ==
    /\ Find(maps[d], heap, key) # Null
    /\ tda_hmap_node_val_mut(d, Find(maps[d], heap, key), val)

tda_hmap_remove(d, key) ==
    Ends([op |-> "remove", key |-> key, out |-> Find(maps[d], heap, key) # Null], d,
         Removed(maps[d], heap, key))

\* out is the entry handed over, with the key as stored
tda_hmap_take(d, key) ==
    Ends([op |-> "take", key |-> key, out |-> EntryIf(heap, Find(maps[d], heap, key))], d,
         Removed(maps[d], heap, key))

tda_hmap_remove_node(d, p) ==
    Ends([op |-> "remove_node", class |-> Class[heap.nodes[p].key]], d,
         RemoveAtLink(maps[d], heap, BucketOf(maps[d], heap.nodes[p].hash), p))

tda_hmap_retain(d, keep) ==
    Ends([op |-> "retain", keep |-> keep], d,
         Retained(maps[d], heap,
                  {p \in DOMAIN heap.nodes : <<heap.nodes[p].key, heap.nodes[p].val>> \in keep}))

\* one turn of the safe walk: the node to go on from is taken before the body runs, and the
\* body drops the node it is on unless its entry is in keep
SafeTurn(t, keep) ==
    LET m == t.r.m
        h == t.r.heap
        node == h.nodes[t.node]
    IN  [r |-> IF <<node.key, node.val>> \in keep THEN t.r
               ELSE RemoveAtLink(m, h, BucketOf(m, node.hash), t.node),
         node |-> NextNode(m, h, t.node)]

\* a caller drops entries as it walks: while there is a node, a turn
TDA_HMAP_FOR_EACH_SAFE(d, keep) ==
    LET end == FoldLeft(LAMBDA t, p : IF t.node = Null THEN t ELSE SafeTurn(t, keep),
                        [r |-> Outcome(maps[d], heap, TRUE), node |-> FirstFrom(maps[d], 0)],
                        NodesOf(maps[d]))
    IN  Ends([op |-> "retain", keep |-> keep], d, end.r)

tda_hmap_clear(d) == Ends([op |-> "clear"], d, Cleared(maps[d], heap))

tda_hmap_reserve(d, cap) ==
    \E r \in ReserveBuckets(maps[d], heap, cap) : Ends([op |-> "reserve"], d, r)

tda_hmap_shrink_to_fit(d) ==
    LET m == maps[d]
        want == BucketsFor(m.len)
        outcomes == IF m.len = 0 THEN {ReleaseBuckets(m, heap)}
                    ELSE IF want = 0 \/ want >= m.count THEN {Outcome(m, heap, TRUE)}
                    ELSE Rehash(m, heap, want)
    IN  \E r \in outcomes : Ends([op |-> "shrink_to_fit"], d, r)

\* the call c, made on d, answers and changes nothing
Answers(c, d) == Ends(c, d, Outcome(maps[d], heap, TRUE))

tda_hmap_get(d, key) ==
    LET p == Find(maps[d], heap, key)
    IN  Answers([op |-> "get", key |-> key,
                 out |-> IF p = Null THEN {} ELSE {heap.nodes[p].val}], d)

\* find, with node_key and node_val of what it finds
tda_hmap_find(d, key) ==
    Answers([op |-> "find", key |-> key, out |-> EntryIf(heap, Find(maps[d], heap, key))], d)

tda_hmap_contains(d, key) ==
    Answers([op |-> "contains", key |-> key, out |-> Find(maps[d], heap, key) # Null], d)

\* a caller's walk with first_node and node_next, reading node_key and node_val
TDA_HMAP_FOR_EACH(d) ==
    LET nodes == Walk(maps[d], heap)
    IN  Answers([op |-> "walk", out |-> [i \in DOMAIN nodes |-> EntryOf(heap, nodes[i])]], d)

\* fprint and print make the same walk
tda_hmap_fprint(d) == TDA_HMAP_FOR_EACH(d)

\* a map is equal to itself, whatever the caller's equality makes of its values
tda_hmap_eq_by(d, e, same) ==
    Answers([op |-> "eq", from |-> e, same |-> same,
             out |-> d = e \/ EqImpl(maps[d], maps[e], heap, same)], d)

tda_hmap_eq(d, e) == tda_hmap_eq_by(d, e, SameVals)

Lifetime(d) ==
    \/ \E al \in Als, hasher \in Hashers, kvs \in Pairs, cap \in Sizes :
          tda_hmap_make(d, al, hasher, kvs, cap)
    \/ tda_hmap_deinit(d)

Between(d, e) ==
    \/ \E al \in Als : tda_hmap_copy_with(d, al, e)
    \/ tda_hmap_copy_assign(d, e) \/ tda_hmap_move_assign(d, e) \/ tda_hmap_swap(d, e)
    \/ /\ Alive(d) /\ Alive(e)
       /\ tda_hmap_eq(d, e) \/ \E same \in ValEqs : tda_hmap_eq_by(d, e, same)

Mods(d) ==
    \/ \E key \in Keys, val \in Vals :
          \/ tda_hmap_insert(d, key, val) \/ tda_hmap_get_or_insert(d, key, val)
          \/ tda_hmap_get_mut(d, key, val)
    \/ \E kvs \in Pairs : tda_hmap_extend(d, kvs)
    \/ \E key \in Keys : tda_hmap_remove(d, key) \/ tda_hmap_take(d, key)
    \/ \E p \in NodeSet(maps[d]) :
          tda_hmap_remove_node(d, p) \/ \E val \in Vals : tda_hmap_node_val_mut(d, p, val)
    \/ \E keep \in Keeps : tda_hmap_retain(d, keep) \/ TDA_HMAP_FOR_EACH_SAFE(d, keep)
    \/ tda_hmap_clear(d) \/ tda_hmap_shrink_to_fit(d)
    \/ \E cap \in Sizes : tda_hmap_reserve(d, cap)

Reads(d) ==
    \/ \E key \in Keys : tda_hmap_get(d, key) \/ tda_hmap_find(d, key) \/ tda_hmap_contains(d, key)
    \/ TDA_HMAP_FOR_EACH(d) \/ tda_hmap_fprint(d)

Next ==
    \/ \E d, e \in Names : Between(d, e)
    \/ \E d \in Names : Lifetime(d) \/ (Alive(d) /\ (Mods(d) \/ Reads(d)))

-----------------------------------------------------------------------------
(* The sets of src/ds/hset.c: a set is a map whose nodes hold no value,     *)
(* with the operations of the map it forwards and the set operations it     *)
(* makes of them.  Two sets may have different hashers: each is searched    *)
(* with its own.                                                            *)

\* a set's nodes hold no value
NoVal == Null

\* the spans of keys, and a predicate of keys alone as a set's map takes them
KeySpans == {[i \in DOMAIN kvs |-> <<kvs[i][1], NoVal>>] : kvs \in Pairs}
KeyPasses(keep) == {kv[1] : kv \in keep} \X {NoVal}

-----------------------------------------------------------------------------
(* m is the map of the set an operation is made on, o that of the other.    *)

InsertKey(m, h, key) == InsertOutcomes(m, h, key, NoVal)

\* the loop over the nodes of o, up to the first step that is refused
ForEach(m, o, h, step(_, _)) ==
    FoldLeft(LAMBDA rs, p : Then(rs, LAMBDA r : step(r, h.nodes[p].key)),
             {Outcome(m, h, TRUE)}, NodesOf(o))

Held(m, h, key) == Find(m, h, key) # Null

\* the nodes whose key is in m
HeldNodes(m, h) == {p \in DOMAIN h.nodes : Held(m, h, h.nodes[p].key)}

\* either side may drive, so the shorter one does
DifferenceOf(m, o, h) ==
    IF o.len < m.len
    THEN ForEach(m, o, h, LAMBDA r, key : {Removed(r.m, r.heap, key)})
    ELSE {Retained(m, h, DOMAIN h.nodes \ HeldNodes(o, h))}

\* a key of the other flips: removed if it is there, inserted if it is not
Flipped(r, key) ==
    IF Held(r.m, r.heap, key) THEN {Removed(r.m, r.heap, key)} ELSE InsertKey(r.m, r.heap, key)

KeysAllIn(a, b, h) == \A p \in NodeSet(a) : Held(b, h, h.nodes[p].key)

-----------------------------------------------------------------------------
(* What the set forwards to its map.                                        *)

\* init and init_cap
tda_hset_init_cap(d, al, hasher, cap) == tda_hmap_make(d, al, hasher, <<>>, cap)
tda_hset_from_span(d, al, hasher, src) == tda_hmap_make(d, al, hasher, src, Len(src))
tda_hset_deinit(d) == tda_hmap_deinit(d)
\* copy and copy_with
tda_hset_copy_with(d, al, e) == tda_hmap_copy_with(d, al, e)
tda_hset_copy_assign(d, e) == tda_hmap_copy_assign(d, e)
tda_hset_move_assign(d, e) == tda_hmap_move_assign(d, e)
tda_hset_swap(d, e) == tda_hmap_swap(d, e)

tda_hset_insert(d, key) == tda_hmap_insert(d, key, NoVal)
tda_hset_extend(d, src) == tda_hmap_extend(d, src)
tda_hset_remove(d, key) == tda_hmap_remove(d, key)
tda_hset_take(d, key) == tda_hmap_take(d, key)
tda_hset_remove_node(d, p) == tda_hmap_remove_node(d, p)
tda_hset_retain(d, keep) == tda_hmap_retain(d, KeyPasses(keep))
\* node_key read by the body, remove_node called by it
TDA_HSET_FOR_EACH_SAFE(d, keep) == TDA_HMAP_FOR_EACH_SAFE(d, KeyPasses(keep))
tda_hset_clear(d) == tda_hmap_clear(d)
tda_hset_reserve(d, cap) == tda_hmap_reserve(d, cap)
tda_hset_shrink_to_fit(d) == tda_hmap_shrink_to_fit(d)

tda_hset_contains(d, key) == tda_hmap_contains(d, key)
\* find and find_mut, with node_key of what they find
tda_hset_find(d, key) == tda_hmap_find(d, key)
\* a caller's walk with first_node and node_next, reading node_key
TDA_HSET_FOR_EACH(d) == TDA_HMAP_FOR_EACH(d)
\* fprint and print make the same walk
tda_hset_fprint(d) == TDA_HSET_FOR_EACH(d)

-----------------------------------------------------------------------------
(* The set operations.                                                      *)

\* not the map's eq: there are no values to compare
tda_hset_eq(d, e) ==
    LET a == maps[d]
        b == maps[e]
    IN  Answers([op |-> "same_keys", from |-> e,
                 out |-> d = e \/ (a.len = b.len /\ KeysAllIn(a, b, heap))], d)

tda_hset_union(d, e) ==
    \E r \in IF d = e THEN {Outcome(maps[d], heap, TRUE)}
             ELSE ForEach(maps[d], maps[e], heap, LAMBDA r, key : InsertKey(r.m, r.heap, key)) :
        Ends([op |-> "union", from |-> e], d, r)

tda_hset_intersection(d, e) ==
    Ends([op |-> "intersection", from |-> e], d,
         IF d = e THEN Outcome(maps[d], heap, TRUE)
         ELSE Retained(maps[d], heap, HeldNodes(maps[e], heap)))

tda_hset_difference(d, e) ==
    \E r \in IF d = e THEN {Cleared(maps[d], heap)} ELSE DifferenceOf(maps[d], maps[e], heap) :
        Ends([op |-> "difference", from |-> e], d, r)

tda_hset_symmetric_difference(d, e) ==
    \E r \in IF d = e THEN {Cleared(maps[d], heap)}
             ELSE ForEach(maps[d], maps[e], heap, Flipped) :
        Ends([op |-> "symmetric_difference", from |-> e], d, r)

\* the lengths are compared first
tda_hset_is_subset(d, e) ==
    LET a == maps[d]
        b == maps[e]
    IN  Answers([op |-> "is_subset", from |-> e,
                 out |-> d = e \/ (a.len <= b.len /\ KeysAllIn(a, b, heap))], d)

\* the shorter set is walked and the longer one asked
tda_hset_intersects(d, e) ==
    LET a == maps[d]
        b == maps[e]
        walked == IF b.len < a.len THEN b ELSE a
        asked == IF b.len < a.len THEN a ELSE b
    IN  Answers([op |-> "intersects", from |-> e,
                 out |-> \E p \in NodeSet(walked) : Held(asked, heap, heap.nodes[p].key)], d)

-----------------------------------------------------------------------------
SetLifetime(d) ==
    \/ \E al \in Als, hasher \in Hashers :
          \/ \E cap \in Sizes : tda_hset_init_cap(d, al, hasher, cap)
          \/ \E src \in KeySpans : tda_hset_from_span(d, al, hasher, src)
    \/ tda_hset_deinit(d)

SetBetween(d, e) ==
    \/ \E al \in Als : tda_hset_copy_with(d, al, e)
    \/ tda_hset_copy_assign(d, e) \/ tda_hset_move_assign(d, e) \/ tda_hset_swap(d, e)

SetMods(d) ==
    \/ \E key \in Keys : tda_hset_insert(d, key) \/ tda_hset_remove(d, key) \/ tda_hset_take(d, key)
    \/ \E src \in KeySpans : tda_hset_extend(d, src)
    \/ \E p \in NodeSet(maps[d]) : tda_hset_remove_node(d, p)
    \/ \E keep \in Keeps : tda_hset_retain(d, keep) \/ TDA_HSET_FOR_EACH_SAFE(d, keep)
    \/ tda_hset_clear(d) \/ tda_hset_shrink_to_fit(d)
    \/ \E cap \in Sizes : tda_hset_reserve(d, cap)

SetReads(d) ==
    \/ \E key \in Keys : tda_hset_find(d, key) \/ tda_hset_contains(d, key)
    \/ TDA_HSET_FOR_EACH(d) \/ tda_hset_fprint(d)

SetOps(d, e) ==
    \/ tda_hset_union(d, e) \/ tda_hset_intersection(d, e)
    \/ tda_hset_difference(d, e) \/ tda_hset_symmetric_difference(d, e)
    \/ tda_hset_eq(d, e) \/ tda_hset_is_subset(d, e) \/ tda_hset_intersects(d, e)

SetNext ==
    \/ \E d, e \in Names : SetBetween(d, e) \/ (Alive(d) /\ Alive(e) /\ SetOps(d, e))
    \/ \E d \in Names : SetLifetime(d) \/ (Alive(d) /\ (SetMods(d) \/ SetReads(d)))

HashInit == Init /\ kind \in Kinds

HashNext ==
    /\ UNCHANGED kind
    /\ (kind = "hmap" /\ Next) \/ (kind = "hset" /\ SetNext)

HashSpec == HashInit /\ [][HashNext]_<<vars, kind>>

-----------------------------------------------------------------------------
(* Properties.                                                              *)

\* The fields keep what ASSERT_HMAP checks on entry to and exit from every call.
TypeOK ==
    \A d \in Names :
        LET m == maps[d]
        IN  /\ m.al \in Als \cup {Null} /\ m.hasher \in Hashers \cup {Null}
            /\ m.count \in {0} \cup {BucketsBase * Factor^n : n \in 0 .. HashBits}
            /\ DOMAIN m.buckets = 0 .. m.count - 1
            /\ (m.count = 0) = (m.data = Null)
            /\ m.len \in Nat
            /\ ~Alive(d) => m = Zeroed

\* Each node lies, once, in the bucket its hash has among the buckets there are now, under
\* the hash of its key: what lookups, and walks that step on from a node, go by.  The length
\* counts the nodes, and the load stays at one per bucket, which reserve_one's sum relies on.
NodesInPlace ==
    \A d \in Names :
        LET m == maps[d]
        IN  /\ Len(NodesOf(m)) = Cardinality(NodeSet(m))
            /\ m.len = Len(NodesOf(m)) /\ m.len <= m.count
            /\ \A b \in 0 .. m.count - 1 : \A p \in ToSet(m.buckets[b]) :
                  /\ heap.nodes[p].hash = Hash[m.hasher][heap.nodes[p].key]
                  /\ BucketOf(m, heap.nodes[p].hash) = b

\* all that the allocators have out has one holder
HeldOnce ==
    LET owners == {d \in Names : maps[d].data # Null}
    IN  /\ heap.arrays = {ArrayOf(maps[d]) : d \in owners}
        /\ Cardinality({maps[d].data : d \in owners}) = Cardinality(owners)
        /\ \A p \in DOMAIN heap.nodes :
              \E d \in Names :
                  /\ p \in NodeSet(maps[d]) /\ heap.nodes[p].al = maps[d].al
                  /\ \A e \in Names \ {d} : p \notin NodeSet(maps[e])

\* The fields are sound, and everything the allocators have out belongs to one map: its
\* array, with its length, and its nodes, all from the map's own allocator.  Whatever was
\* refused half done, copied, moved or swapped, nothing is leaked, shared, or given back
\* twice or elsewhere.
MemoryOwned == TypeOK /\ HeldOnce

\* the node of each class that has an entry
EntryNodes(m, h) ==
    LET ps == NodeSet(m)
    IN  [c \in {Class[h.nodes[p].key] : p \in ps} |-> CHOOSE p \in ps : Class[h.nodes[p].key] = c]

\* the entries of a map, by class
Entries(m, h) ==
    LET entries == {[key |-> h.nodes[p].key, val |-> h.nodes[p].val] : p \in NodeSet(m)}
    IN  [c \in {Class[e.key] : e \in entries} |-> CHOOSE e \in entries : Class[e.key] = c]

\* An entry never moves: through inserts, growth and shrinking, refused or not, and the
\* removal of others, an entry keeps its node, so that a caller may hold on to it.
EntriesStay ==
    [][call'.op \in {"insert", "extend", "get_or_insert", "set_val", "take", "remove_node",
                     "retain", "reserve", "shrink_to_fit"}
       => LET was == EntryNodes(maps[call'.d], heap)
              is == EntryNodes(maps'[call'.d], heap')
          IN  \A c \in DOMAIN was \cap DOMAIN is : is[c] = was[c]]_vars

MapsSpec == INSTANCE MapSpec WITH ents <- [d \in Names |-> Entries(maps[d], heap)]

\* A map is a function from classes of keys to entries: every call does to it what its name
\* says and answers accordingly, eq and walks from the entries alone, whatever hashers, buckets
\* and chains there are, and a call that is refused memory, after its buckets grew
\* as well as before, leaves the entries as they were, or, where it takes many keys, as its
\* first steps left them (hmap.c, hset.c).
ImplementsMap == MapsSpec!Spec
=============================================================================
