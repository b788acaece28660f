# Verification of terse-dsa

TLA+ specifications, TLC runs and TLAPS proofs for terse-dsa ("tda"), a C23 library of
type-erased containers, algorithms and allocators. Paths below are relative to the
repository.

## The system

The library is sequential: `docs/conventions.md` says that nothing is thread-safe, no call
waits, and nothing is persisted. What is hard in it is not concurrency but memory:

- every allocation may be refused, at every point of an operation, and a refused operation
  must leave its container as it was;
- blocks carry no header, so every `dealloc` repeats the layout, and an allocator must find
  from it what it did at the `alloc`;
- free lists, chunk links and quarantined blocks live in memory the callers may write;
- a value given to a container may be one of its own elems, in a block that growth frees;
- rings wrap, counters and sizes meet `SIZE_MAX`, capacities overflow when doubled;
- long legal sequences of calls (mark, resize, rewind; free in any order; insert and remove
  on a wrapped ring) reach states no unit test sets up.

### Components

| component | state | operations | correct when |
|---|---|---|---|
| `core/layout`, `core/align` | none | checked sums, products, padding, rounding | no result wraps |
| `alloc/alloc` | a view: hooks and context | alloc, alloc_zeroed, resize, remap, realloc, dealloc | the hook contract holds: live blocks are apart and aligned, a refusal touches nothing |
| `alloc/arena` | block, capacity, offset, floor | init, mark, rewind, reset, hooks | no live block is cut off, overlapped or misaligned |
| `alloc/pool` | array of blocks, free list inside them, count | init, reset, hooks | the list is exactly the free blocks |
| `alloc/slab` | per class a free list and a carving ground, chunk list | hooks on a parent | a free finds its class; lists and chunks are exact |
| `alloc/debug` | table of live blocks, quarantine ring, serials | hooks, flush, fail_after, break_at, leak report | every misuse is reported, no report is false |
| `alloc/default` | none | libc's malloc, realloc, free, aligned_alloc | every block is as aligned as its layout asks |
| `alloc/log` | a stream, a parent | print a line and pass on | the blocks its lines leave out are those the callers hold |
| `ds/vec`, `ds/arr`, `ds/stack` | block, len, cap | insert, remove, resize, ... | a sequence, one owner per block, spare room is used |
| `ds/deque`, `ds/queue` | ring, head, len, cap | the same, at both ends | a sequence wherever the seam lies |
| `ds/list` | doubly linked nodes | insert, remove, splice, sort, merge | links agree both ways; a sequence; a refused call changes nothing |
| `ds/hmap`, `ds/hset` | buckets of chained nodes | put, get, remove, rehash | a map; every node in its bucket |
| `ds/pqueue` | a vec kept as a heap | push, pop, replace_top | a bag that serves its greatest elem |
| `ds/bitset` | words | set, flip, union, copy, scan | a set; no bit past nbits |
| `algo/*` | none | sort, search, merge, set, permute, ... | the textbook result |
| `core/rng`, `hash`, `cmp`, `print`, `span` | generator state; none | draws, hashes, orders | uniform; equal keys hash alike |

Containers call the allocator interface only (`tda_Al`: a vtable and a context), and
allocators stack on a parent through the same interface. Callbacks (comparators, hashers,
predicates) are pure functions of their arguments.

## The modules

| module | models |
|---|---|
| `Layout`, `LayoutProofs` | the size arithmetic of `core/align.h` and `core/layout.h`, with overflow, and the layout of list and map nodes; lemmas the other proofs share |
| `Allocator` | abstract: the hook contract of `alloc/alloc.h` |
| `Arena`, `ArenaProofs` | `src/alloc/arena.c` through the wrappers of `src/alloc/alloc.c`; the theorems about it |
| `Pool` | `src/alloc/pool.c` |
| `Log` | `src/alloc/default.c` over libc's heap, and `src/alloc/log.c` over it |
| `PoolOnLog`, `PoolProofs` | composition: a pool whose parent is a log other callers use too; the theorems about pool and log |
| `Slab`, `SlabProofs` | `src/alloc/slab.c` on a parent that may refuse; the theorems about it |
| `Debug`, `DebugProofs` | `src/alloc/debug.c`: its open-addressing table as operators, and the callers' misuses as actions; the theorems about it |
| `SeqSpec` | abstract: what a sequence container promises |
| `Deque`, `DequeProofs` | `src/ds/deque.c`, and `src/ds/queue.c` on it; the theorems about them |
| `Vec` | `src/ds/vec.c` over `tda_realloc` |
| `Arrays` | `src/ds/arr.c` and `src/ds/stack.c` on it, and the composition: vecs, arrs and stacks that hand their blocks to one another |
| `PQueueSpec`, `PQueue` | abstract: a bag under an order; `src/ds/pqueue.c` on `Vec` and `Heap` |
| `VecProofs` | the theorems about `Arrays` and `PQueue`, which share those about `Vec` |
| `MapSpec`, `HMap` | abstract: what a map, and a set, promise; `src/ds/hmap.c`, and `src/ds/hset.c` on it |
| `Order`, `ListSpec`, `List` | elems in an order of keys; abstract: a sequence with stable nodes; `src/ds/list.c` |
| `BitSetSpec`, `BitSet`, `BitSetProofs` | abstract: a set of indices; `src/ds/bitset.c`; the theorems about it |
| `Span` | `core/span`: sub-spans, splits, overlap, the walk over a span; the searches and comparisons of `src/algo/` as operators |
| `Heap`, `Sort`, `Modify` | the other files of `src/algo/`: heaps; sorts, merges and set operations; passes and permutations |
| `Scalar` | `src/core/rng.c`, `cmp.c`, `hash.c` and `print.c` |
| `AlgoSpec`, `Algo` | abstract: what the algorithms' headers promise; a program that calls them |
| `MC*` | constants and bounds for TLC (the arena needs none: `Arena.cfg` and `ArenaReuse.cfg` run it as it is) |

### How state and actions correspond to the code

*Allocators.* The fields of the C struct are variables (`Arena`, `Pool`) or the fields of one
record (`Slab`, `Debug`), under their own names. Beside them each module keeps what the code
cannot see but its callers can: `blocks`, the blocks handed out and not given back, and `lent`,
what the parent has out. There is one action per public function and per hook; a hook is
modelled together with the wrapper of `alloc.c` that calls it, so `tda_realloc` is the whole
ladder of resize, remap, and alloc-copy-dealloc. A refusal changes no state and is a stuttering
step, except where it leaves something behind (`Debug` counts refused requests). Links that the
code keeps inside blocks are kept in a memory (`link` in `Pool`, `mem` in `Slab`), and a block
handed out becomes `Garbage` there, since its owner may write it: following such a link is a
type error that the invariants catch.

*Debug.* `report` prints and aborts: it is modelled as the field `stop`, after which nothing
happens. Bytes are abstracted to `torn`, the set of addresses whose guard (of a live block) or
fill (of a freed one) has been written. `misuse` collects the reports the callers have earned;
`budget` and `due` count down, in requests, to the refusal and the break the caller asked for, apart
from the allocator's own counters, which only go up.
A parent that repeats an address it has out is one of the misuses the code looks for.

*Deque.* A handle is the C struct with its block's contents as `ring`. Helpers that may be
refused memory return the set of their outcomes `[q, heap, ok]`, so that every allocation can
fail at every point and the fallback from doubling to the exact size is followed step by step.
Free slots hold `Garbage`. A value is an elem, or one of the deque's own by index; the code's
`alias_idx` is applied to its slot before growth and its result after it. The loops of
`move_elems` are there twice: as the loop (`MoveLoop`) and as the parallel move it amounts to
(`MoveElems`), which the other definitions use; `LoopsMoveAtOnce` checks that they agree on
every reachable ring. `call` records the last call, so that the refinement of `SeqSpec` ties
each step to what its name promises and not merely to some change of the sequence.

*Walks.* The `FOR_EACH` macros of `list.h`, `deque.h`, `hmap.h` and `hset.h` are the turns of their
loops. The safe ones take the next node before the body runs, so the body may remove the node it
holds: they are modelled with a body that drops some of the elems it visits. The deque's walk keeps
the flag by which a `break` in its inner loop leaves the outer one.

*Log, PoolOnLog.* libc is external: a heap of byte addresses that may refuse, and that owes
a block of n bytes only the alignment of the types of n bytes or less, as C lets `malloc` do.
A line of the log is the record it prints; `told` is what a reader who starts at the first line
takes to be out. In `PoolOnLog` a pool's request to its parent is a call on the log in the same
step, and other callers use the log in between.

*Vec, Arrays.* The same construction as `Deque`, with `slots` for the block. `tda_realloc` is
a choice between the same block, a new one, and a refusal. A `memcpy` of an elem onto itself is
undefined and yields `Garbage`. Blocks handed out by `into_raw` are kept in `raws`, with what
their callers must remember of them, until an `init_raw` takes them up. `kinds` says which type a
handle has. A stack or a queue is its vec or deque, and each of its calls the one it passes to. An
arr frees its block by its length, so it takes over only blocks with no room to spare.

*PQueue.* The vec of `Vec` with the comparator in `cmps`: it travels with a move or a swap, and the
heap calls of `Heap` rearrange the vec after the call of `Vec` has made room. A sift is a walk of as
many turns as the span has elems: once the elem that sinks or rises stays where it is, further
turns leave it there, as the `break` of the code does.

*List.* The nodes are records of a memory `mem`, linked both ways by number, each with the
allocator it came from. A helper takes and gives a world `[mem, lists]`, with the local list of a
call that makes its nodes first (`Spare`): what it still holds at the end of the call has leaked,
and `NodesOwned` finds it. A call that makes several nodes may be refused at each. A sort splits
and merges the runs of the code, and the splice between allocators copies and then frees.

*BitSet.* A word is the set of its one bits, so the bit operations are those of sets and the masks
are ranges of bits; the loops over words, the scans from word to word and the clearing of
the tail are the code's.

*HMap.* A handle is the C struct with its bucket array as `buckets`: for each bucket the
sequence of its nodes, which are numbers of `heap.nodes`, so that a node is the same node wherever
it is linked. Hashes and the multiplicative mixing keep their arithmetic, on `HashBits` bits. Keys
have a `Class`, the equality of the map's `eq`: two spellings of a key are equal and not the same,
and the map keeps the first. A helper returns its outcomes as in `Deque`: an insert may be served,
refused its buckets, or refused its node once the buckets have grown. The set operations are the
loops of `hset.c` over the outcomes of the map's calls; the hash of a key is taken with the hasher
of the map that is asked. `kind` says whether the handles are maps or sets.

*Reads.* Accessors, lookups, walks, comparisons and statistics change nothing. They are actions
that leave their answer in `call.out`, which the abstract specification constrains; those of the
allocators are conjuncts of the invariants that say what their numbers count.

*Algo.* A program holds a span and a generator. A call is made, its result stands in `call` for one
state, where `AlgoSpec`'s promises are compared with it, and `Return` goes on with what it left of
the span. Each algorithm is an operator that follows its loop, as a recursive function of the
loop's indices or as a fold; the promise is written without the loop (a sort is the permutation
that is in order, a lower bound the number of smaller elems, a draw is uniform when each result
has as many preimages as any other and none is left out). Two loops whose end is not in their shape are behaviours
of their own (`loop`): the walk through all arrangements with `next_permutation`, and the bounded
draw that rejects and draws again. Words have 2 to 4 bits and keep their arithmetic. A float is
printed as `%g` does it, rounded to its first digits (`Significant`; binary ones here): several
floats share a text, and of the printers only those of ints, chars and strings are said to tell
values apart.

## The runs

| run | bounds | what it shows |
|---|---|---|
| `arena` | capacity 6, `SIZE_MAX` 7, bases on and off alignment 4, 3 blocks, 2 marks | overflow of every sum, last and inner blocks, rewinds over one and two marks; the arena refines `Allocator` |
| `arena_reuse` | as above, marks usable twice | expected violation, see Findings |
| `pool` | `SIZE_MAX` 15; pools of up to 4 blocks with a link of 2 bytes, over buffers off their alignment and over a heap of 14 bytes; 2 blocks on the log | exact free list under every order of frees; the log's lines add up; pool and log refine `Allocator` |
| `slab` | classes of 2, 4 and 6 bytes in chunks of 8, 3 live blocks, large blocks | classes found again, chunks reached at deinit; refines `Allocator` |
| `debug` | 4 addresses whose homes collide and wrap, table of 4 that grows, quarantine of 2, counters up to 7, 4 requests | all misuses, injected faults and breaks mixed with legal calls; the ring laps, the table grows and is refused growth |
| `bitset` | two bitsets, two allocators, up to 5 = `SIZE_MAX` bits in words of 2 | word boundaries, tails, scans across words |
| `deque` | two deques or queues, two allocators, up to 5 = `SIZE_MAX` slots between them | doubling, counting and exact fallback at the limit, every head position, ownership across copy, move and swap |
| `hash` | two maps or two sets, two allocators, two hashers, 4 keys in 3 classes, hashes of 3 bits, `SIZE_MAX` 11, 2 or 4 buckets (the array of 8 passes it, and so does doubling 8); spans of up to two entries | growth, chains, walks, ownership; every call refused at every allocation, an extend half way too; set operations between sets that hash otherwise and on one set twice |
| `list` | two lists, two allocators, 3 elems of 2 keys, 5 nodes in all | links, splices, merges and sorts; a refusal at every node |
| `vec` | two vecs, arrs or stacks and a raw block, two allocators, up to 4 = `SIZE_MAX` slots between them | growth in place, moved, refused and at the limit; aliased values; ownership across copy, move, swap and hand-overs |
| `pqueue` | two queues, 3 elems, up to 5 slots between them, two orders | heaps under the comparator each queue holds |
| `algo` | spans of up to 4 elems of 3 keys, some of 7 and 8 for the sorts; insertion threshold 2, depth slack 0, 1 and 2 (the limit is met on a whole range and on a part of one); words of 1 to 4 bits | every algorithm against its promise; draws, shuffles, prefixes and samples uniform; the stepped loops end |

The bounds are small because the structures are: every case distinction in the code compares
two sizes or two positions, and each run has room for both outcomes of each comparison, the
wrap of each ring and the overflow of each sum. The code's thresholds are lowered with the sizes
(`InsertionThreshold`, `GuardSize`, `QuarantineLen`), so that both sides of each are met.
Elems are one byte in the runs of the containers, where a count meets `SIZE_MAX` before its block does:
that count times size passes it too is met in the runs for the buckets of `hash` alone, and for elems
of every size in the proofs about the vecs and deques.

`CHECK_DEADLOCK FALSE` is set for `debug` only: a report ends the program, and so does the deinit.
The container runs use a view without `call`, on which no next state depends; step properties are
still checked on every step. The views also leave out the numbers of blocks and nodes, as long as
each has one owner (`HeldOnce`, or `NodesOwned` for lists): only their being equal or different
matters then. Handles are alike, and so are allocators, hence the symmetry. Some runs have a
CONSTRAINT that checks their largest states without going on from them; each says in its MC module
which: two rings that fill all memory (`deque`), full maps on two allocators (`hash`), several
blocks with a fault injected (`debug`), several pool blocks beside other callers of the log (`pool`).

### Fairness

The library is called and does not act on its own: nothing makes a program call it again, so no
call is fair, and all properties but one are of safety. The exception is `LoopsEnd` in `algo`. A
loop that has been entered is run on, since nothing else runs in a sequential program, which is
weak fairness of its step: `ArrangeStep` for the walk over the arrangements, `DrawStep` for the
bounded draw. For the draw the generator itself has to leave the rejected values, which the small
generator does from every state the run seeds it with: this is where a `bound` handled wrongly
would loop for ever.

### What the properties say

- `arena`: `RewindCutsNoBlock`, `LiveBlocksApart`, `ParentIsOwed`, the type invariant `TypeOK`, and
  `ImplementsAllocator`: each step gives a block apart from the live ones and aligned, takes
  blocks back, resizes one in place, or moves one.
- `pool`: `PoolSound` (the list threaded through the blocks is the free ones, blocks lie in the
  region, the parent is given back what it lent), `ImplementsAllocator`; `LogAddsUp` and
  `LogImplementsAllocator` for the log, with the default allocator below.
- `slab`: `DeallocFindsClass`, `ListsExact` (free lists, carving ground and chunk list share out the
  chunks), `ImplementsAllocator`.
- `debug`: `ReportsExact` (a misuse stops the program with its report, and no other report is
  made; breaks aside), `OverrunStops`, `TableIsBlocks` (probes find exactly the live blocks), `ParentIsOwed`,
  `InjectionExact` (the requests past the number are refused, the one asked for breaks, no other).
- `bitset`: `WordsSound`, `ImplementsBitSet`.
- `deque`: `BlocksOwned`, `LoopsMoveAtOnce`, `ImplementsSeq`.
- `vec`: `BlocksOwned`, `RoomServes` (a call that has room is not refused), `ImplementsSeq`.
- `hash`: `MemoryOwned`, `NodesInPlace`, `EntriesStay`, `ImplementsMap`.
- `list`: `NodesOwned`, `NodesStay` (a node in hand names the same elem until it is removed),
  `ImplementsList`.
- `pqueue`: `HeapKept`, `ImplementsPQueue`.
- `algo`: `SearchesAnswer`, `SortsInOrder`, `PassesWriteRight`, `DrawsUniform`
  (all draws but those from a range of floats, which are only said to lie in it), `ScalarsAgree`
  (comparators are total orders, NaN included, equal values hash alike and print alike but for the
  two zeros, printers say what failed), `LoopsEnd`.

The `Implements...` properties are refinements: every step, refused or not, is what the abstract
specification lets a call of that name do, its answer included. The type invariant of a module is
checked as `TypeOK` (`Arena`) or as a conjunct of another invariant (`PoolSound`, `ListsExact`,
`TableIsBlocks`, `BlocksOwned`, `MemoryOwned`, `NodesOwned`, `WordsSound`).

Each property has a mutant: a plausible slip in the code (named after it in the module and
marked "broken") under which TLC finds the property violated.

### Findings

`arena_reuse`: `arena.h` says that a rewind never cuts off the tail of a block that outlives
the mark, and lets a caller rewind to a mark that was "not since passed by a rewind to an
earlier mark or a reset". A mark that has been rewound to once is such a mark, but the first
rewind lowers the floor below it; a block from before the mark may then grow in place past it,
and a second rewind to the mark cuts it. All other runs, and the proofs, assume that a mark is
rewound to at most once (`ReuseMarks = FALSE`), under which the claim holds.

## The proofs

Each theorem holds for every value of the constants its module's assumption allows: any
`SIZE_MAX`, sizes, number of handles and elems, not only those of the runs. The assumptions say
that constants are of their kinds, with what the code asserts or its types give: alignments are
powers of two (`tda_layout_is_align`), a capacity and a caller's span fit `size_t`, handles are
finitely many, the memory behind a slab's parent is finite, every class is smaller than a chunk, and
`CHUNK_ALIGN` is a power of two that covers the lowest bit of every class, as the tables at the
head of `slab.c` have it; the least capacity of the debug table is more than one (the code's is 64,
and the table doubles when half full), and its mark of an empty slot is no record of a block; a comparator
orders the elems by a key (`Orders \subseteq [Elem -> Nat]`), so it is the
strict weak order that `core/cmp.h` speaks of.

| module | theorem | says |
|---|---|---|
| `ArenaProofs` | `ArenaTypeCorrect`, `ArenaRewindSafe`, `ArenaBlocksApart`, `ArenaBlocksAligned`, `ArenaParentIsOwed` | the invariants of the run `arena`, and the alignment of live blocks |
| | `ArenaImplementsAllocator` | every step of an arena is one of `Allocator`, or a stutter |
| `PoolProofs` | `PoolIsSound` | the free list is exact, whoever the parent is |
| | `PoolImplementsAllocator` | the pool refines `Allocator` |
| | `LogAddsUpAlways` | the log's lines, the blocks held and libc's chunks agree |
| | `LogImplements` | the log over libc refines `Allocator` |
| `SlabProofs` | `SlabListsExact` | each class's list, and the list of chunks, are exact |
| | `SlabFindsClass` | a free finds its class from the layout; the statistics add up |
| | `SlabImplementsAllocator` | the slab refines `Allocator` |
| `DebugProofs` | `DebugBooks` | the inductive invariant: ring, table, misuses and reports agree |
| | `DebugTableIsBlocks` | probes find exactly the live blocks, whatever the hash and the capacity |
| | `DebugReportsExact` | every misuse stops the program with its report, and but for a break nothing else does |
| | `DebugParentIsOwed` | the parent is owed the live and the quarantined blocks, guards included |
| | `DebugInjection` | exactly the requests past the number are refused, and exactly the one asked for breaks |
| | `DebugOverrunStops` | no block written past its end goes unreported (a step property) |
| `DequeProofs` | `QueueInvariant` | the inductive invariant: sound rings full of elems, on blocks of different numbers |
| | `QueueOwnsBlocks` | one holder per block, across deques and queues, and no slot of the contents unwritten (`OwnsBlocks`: the same of the deques alone) |
| | `QueueLoopsMoveAtOnce` | the loops of `move_elems` lose no elem, whichever way they go and wherever the seam lies |
| | `QueueImplementsSeq` | every step of deques and queues is a step of `SeqSpec`, or a stutter (`ImplementsSequence`: the same of the deques alone) |
| `BitSetProofs` | `BitSetWordsSound` | no bit past the last live one, one holder per block |
| `VecProofs` | `ArraysOwnBlocks` | one holder per block, across vec, arr, stack and raw blocks |
| | `ArraysRoomServes` | a call that has room is not refused (a step property) |
| | `PQueueInvariant` | the inductive invariant: blocks have one holder, and each queue's elems are in heap order |
| | `PQueueKeepsHeaps` | the vec of every queue is a heap under the comparator that queue holds, whatever calls were made and refused |
| | `PQueueImplements` | every step of `PQueueSpec` is a step of a bag under an order: no elem is lost, doubled or made up, and `top`, `pop` and `replace_top` give an elem no other is greater than |

All are theorems of the specification a run checks (`Spec`, `SpecBoth`, `QueueSpec`, `ArraysSpec` or `PQueueSpec`); those
about the arena but `ArenaParentIsOwed` assume `~ReuseMarks`, see Findings.

### The inductive invariants

*Arena.* `IInv == TypeOK /\ FloorIsLatestMark /\ MarksSeparate /\ RewindCutsNoBlock /\ LiveBlocksApart`.
No conjunct is inductive alone. That a rewind leaves the older blocks whole needs every mark to
separate older blocks from newer ones (`MarksSeparate`). That a resize in place keeps this needs
the block it moves the offset for to lie above the floor, and the floor to be the latest mark
(`FloorIsLatestMark`), which in turn needs each mark to have saved the floor below it. That the
resize stays clear of other blocks needs the last block to be the topmost
(`RewindCutsNoBlock` with `LiveBlocksApart`). Alignment is proved beside it, from the lemma that
padding an address lands on the alignment (`AlignPadLands`). `ParentIsOwed` is inductive alone.

*Pool.* `PoolInv == PoolSound /\ Cut /\ HeldExact`. `PoolSound` says that the list reaches just the
free blocks, but not that a block given back is one cut from the array, held by one caller and
counted in `used`: `HeldExact` says so, and `Cut` that an inert pool has no blocks, a live one a
block size above zero and an alignment the code lets through. The
list is an enumeration of the free blocks in the order of the links, and each proof gives the new
enumeration: one longer after a free, one shorter after an alloc, the array itself after a reset.
That a block is as aligned as was asked needs an alignment to divide the greater one the array was
rounded to, which holds for powers of two (`AlignDivides`).

*Slab.* `SlabInv` says that for some set `K` of chunks `SlabOK(slab, blocks, K)` holds, and that a slab
without a parent is inert. `ListsExact` and `DeallocFindsClass` are not inductive: they do not say
where blocks lie, and so not that an owner who writes over its block leaves the links of the free
blocks and of the chunks whole, nor that a fresh block is nobody's. `SlabOK` says it: every block
cut lies in one chunk, before its link, at a multiple of its class from the start (`CutFrom`), apart
from all others cut and from what is left to carve (`CutOK`); chunks and large blocks lie apart
(`ChunksOK`, `LargeOK`); each small block held is one cut for its class, held once (`SmallOK`). The
lists are enumerations in the order of the links, as for the pool (`Listed`), one per class over
the blocks cut and not held and one over the chunks; that the walk of the model (`Chain`) reaches
their members and nothing else is `ListedChain`. Alignment follows from `CutAligned`: a multiple of
the class from an aligned chunk is on every alignment up to the lowest bit of the class. The sums
of sizes in the statistics are folds over sets; that a sum does not depend on the order
(`SizesTake`) is proved by the smallest set for which it fails.

*Log.* `LogInv` adds to `LogAddsUp` that the chunks of libc lie apart and that each chunk is the
block of one caller, by its address; otherwise a free would not be known to take out the chunk of
its own block. `BothInv` joins it with the pool's invariant by `ArrayLogged`: the array of the
pool is one of the blocks on the log, which nobody else gives back.

*Debug.* `DebugInv` joins what the three properties each leave out. While the allocator runs, the
ring holds exactly the blocks freed last, what the parent has lent is the live and the quarantined
blocks with their guards, and every torn address is explained by a misuse that has not come up for
its check yet (`Explained`); a misuse that is reported at once cannot have happened. Once it has
stopped, its report is one of the misuses that did happen, or a break. `ReportsExact` alone is not
inductive, as it does not say that a torn guard or fill will still be there to be found. The table
is kept `Tabled`: at most half full, every record `Reached` by the probe from its home with no hole
on the way, one record per address, the records those of the live blocks and `live_bytes` their
sum. That a removal keeps this is the proof about the shift back: each of its turns moves the hole,
a table with a hole is `Sound` but for the records that the hole is on the way of, and the
loop ends at a hole that is on the way of none. Growth inserts the records one by one into an
empty table of twice the size. `InjectionExact` speaks of the next request, so `Injects` says that
the budget left is the distance from the counter to `fail_after` as long as that does not pass
`UINT64_MAX`, for all requests to come, and `Awaits` that the requests due up to the break end at its
serial, which is behind when none are due. `OverrunStops` needs that the new block of a realloc is not
the torn one, which follows from the lookup that precedes each.

*BitSet, Deque, Arrays.* `BlocksOwned` and `WordsSound` count blocks and holders. Counting is not
inductive, since a free takes out a number; that the holders have different numbers (`HeldApart`)
is, and the count follows (`OneEach`). An arr frees and resizes by its length, so `ArraysInv` adds
`ArrFull`: its length is its capacity, also after `init_raw` took its block over from a vec. The
loop of `tda_vec_retain` is a recursive function of its turns (`RetainLoop`).

*Deque.* `DequeInv` is `HeldApart` with, for each handle, `IsDeque`: `TypeOK` and the shape of the
record. `BlocksOwned` follows, and needs no more, but a call does not preserve it by looking at the slots: the proof
speaks of indices. Indices and slots correspond one to one, whatever the head (`SlotIn`, `IdxIn`), so each helper on the ring is first
shown to do what it is meant to do to the elem at each index: a move of a range (`ElemsMoved`), a copy
in at most two runs out of the ring (`CopiedOut`) or into it (`CopiedIn`), a head that goes forward
or back (`HeadOn`, `HeadOff`). From then on the seam does not occur. That no slot of the contents is
left unwritten is where it matters which side slides: a gap leaves each elem where it was or
as many places on (`Gapped`), so what is written into it fills the contents (`GapFilled`), and an
elem of the deque given as the value is found again by its index (`InsertedIs`). Each outcome of a request for
memory is a refusal that changes nothing or the same elems in at least the room asked for
(`Grown`), also when the doubled capacity was refused and the exact one was not. Blocks that change hands between two
deques are an exchange of handles and one block given up (`Exchange`).

The refinement `ImplementsSeq` maps a handle to the sequence of its elems by index (`Seqs`), and the
lemmas about indices carry it: each helper is shown a second time to make of the contents what the
call's name says (`InsertDoes`, `RemoveRangeDoes`, ...), as a sequence, not as a set of slots. A
refused call ends with the ring it started with (`EndsRefused`) and a served one with the ring whose contents
were computed (`EndsServed`); in both the sequences of all other handles stand. An elem of the deque
given as the value must be the one that stood at its index when the call was made, which holds as it is
read before the gap moves it or is found again behind the gap (`InsertedIs`). The loop of
`tda_deque_retain` is compared with the abstract filter turn by turn: the elems written so far are the
elems kept of those read so far, and none that is still to be read has been written over. That `eq` answers what the
sequences say, wherever the two seams lie, is by indices also.

That the loops of `move_elems` move all at once is an induction over their turns (`Moved`): the
places written so far hold what they should and the others what they held, and the place a turn
reads is not yet written to (`WritesOneMore`), which is where a loop in the wrong direction fails.

*PQueue.* `PQueueInv` joins the invariant of the vecs (`VecInv`, shared with `ArraysInv`) with:
each handle is inert or a queue under one of the orders, and the keys of its elems are in heap
order (`Heaped`). `HeapKept` alone is not inductive: it counts blocks and holders, and does not
say that the order a queue holds is one of the callers'. The proof is in two layers. A sift is argued about the keys alone:
on the way down they are in order but at one place, whose children are not after its parent
(`HeapedButBelow`), and a turn mends the order there and breaks it at the greater child
(`DownMends`), until the place has no greater child (`DownEnds`); likewise on the way up
(`HeapedButAbove`). Such a walk cannot outlast its turns, as the place moves away by at least one with
each. `heapify` runs the sift from the last parent to the root, and each run extends the heap by one
place. A call, then, is the vec's call followed by a sift: the vec's call leaves the elems it does
not name (`Carries`), a sift rearranges those it is given and no others (`Rearranged`), and neither
changes which handle holds which block. A refused growth leaves the handle as it was, which is where
a push that had written before it made room would fail.

The refinement `ImplementsPQueue` maps a queue to the number of times each elem stands in its block.
`Tally` counts in a sequence: elems that change places count the same (`TallyRearranged`, from one-to-one
maps between the places), one elem more at the end counts once (`TallyPushed`), a span at the end counts beside the
elems before it (`TallyJoined`), and another root exchanges one count for another (`TallyRerooted`).
That the root of a heap is an elem no other is greater than (`RootGreatest`) makes what `top` shows
and `pop` and `replace_top` give the `Greatest` of the bag. Each lemma of a call proves that it
`Works`: it keeps `PQueueInv` and does to the bags what `Queues!Does` says of the call.

Induction over a loop's turns (`RetainLoop`, `MoveLoop`, the walk that breaks off, the sifts, `heapify`, the shift back, the growth of the table, the flush of the
quarantine) is done with the least
counterexample: the set of turns at which the claim fails, if not empty, has a least element
(`LeastNat`), and the turn before it refutes it.

### Only model-checked

- `hash` and `list`: `MemoryOwned`, `NodesInPlace` and `NodesOwned` are not proved, nor the step
  properties `EntriesStay` and `NodesStay`. Their chains are walked by recursion and relinked by folds over data
  (`Rehash`, the merges of `List`).
- `ImplementsSeq` of the vecs (of deques and queues it is proved) and `ImplementsBitSet`, whose scans
  and counts need an induction of their own for each. `ImplementsMap` and `ImplementsList` rest on the chains
  above.
- `algo`: its modules use `Bitwise` and compute by folds.
- `LoopsEnd`, which is liveness.

## Not modelled

- `core/status` (a table of names), `core/check`, `core/export`, `core/util` and `core/version`
  (macros of the build); `hash_combine`; the typed macros of the headers that only pass a type's size
  and alignment on (the walks are modelled); the Windows branch of `default.c`.
- The bytes of elems and the format of numbers, which is libc's.
- Precondition failures (`TDA_EXPECT`, `assert`) other than the misuses the debug allocator
  reports: callers keep the preconditions, which are the guards of the actions.
- Constructors and accessors of spans, which name the same sequence another way.
- Tests, examples, benchmarks and third-party code (Unity, ubench): none is part of the library.

## Plan

Every component with state is modelled. What is left are proofs, in this order: `MemoryOwned` of the
maps, `NodesOwned` of the lists, then `ImplementsSeq` of the vecs, along the lines of that of the deque
and without its seam.
