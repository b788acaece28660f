------------------------------- MODULE Debug --------------------------------
(***************************************************************************)
(* The debug allocator of src/alloc/debug.c: it records every live block,   *)
(* guards its end, holds freed blocks in a quarantine, refuses requests on  *)
(* demand, and stops the program (report) at every misuse it sees.          *)
(*                                                                         *)
(* debug holds the fields of tda_Debug, and with them what they reach: lent *)
(* (what the parent has out), torn (the addresses whose checked bytes, the  *)
(* guard of a live block or the fill of a freed one, have been written) and *)
(* stop (the report that ended the program, or Running).                    *)
(*                                                                         *)
(* The callers hold blocks, and may misuse them: misuse is the set of       *)
(* reports they have earned.  history is the addresses freed last, oldest   *)
(* first, budget the requests fail_after has left to let through, and due   *)
(* those up to the one break_at names, Null when that one does not come.    *)
(* Blocks at different addresses never overlap here: that is the parent's   *)
(* contract, and the debug allocator looks at addresses only.               *)
(***************************************************************************)
EXTENDS Layout, SequencesExt

-----------------------------------------------------------------------------
(* The table of live blocks: open addressing over block addresses, linear   *)
(* probing, at most half full, a removal closing its hole by shifting later *)
(* entries back.  A table is [slots, cap, len]; a slot holds a record or    *)
(* Empty.  Hash stands for tda_hash_u64: only the slot it leads to matters. *)

CONSTANTS
    Addrs,        \* the addresses blocks may have
    Hash,         \* [Addrs -> Nat]
    TableMinCap,  \* TABLE_MIN_CAP, a power of two
    Empty         \* the slot whose addr is 0

\* an entry of the table
BlockRecord == [addr : Addrs, size : Nat, align : Nat, serial : Nat]

\* a table of one slot would be full with its first record, and a probe would not stop
ASSUME TableAssumption ==
    /\ Hash \in [Addrs -> Nat]
    /\ TableMinCap \in Nat \ {0, 1}
    /\ Empty \notin BlockRecord

NewTable == [slots |-> <<>>, cap |-> 0, len |-> 0]

Slots(cap) == 0 .. cap - 1

\* the records in a table
Records(t) == {t.slots[i] : i \in Slots(t.cap)} \ {Empty}

-----------------------------------------------------------------------------
TableHome(t, addr) == Hash[addr] % t.cap

\* the slot that holds 'addr', or the first empty one, walking up from its home
TableProbe(t, addr) ==
    LET At(d) == (TableHome(t, addr) + d) % t.cap
        Stops(d) == t.slots[At(d)] = Empty \/ t.slots[At(d)].addr = addr
    IN  At(CHOOSE d \in Slots(t.cap) : Stops(d) /\ \A e \in 0 .. d - 1 : ~Stops(e))

TablePut(t, r) == [t EXCEPT !.slots[TableProbe(t, r.addr)] = r]

\* twice the slots, none of them filled yet
Bare(t) ==
    LET new_cap == IF t.cap = 0 THEN TableMinCap ELSE 2 * t.cap
    IN  [slots |-> [i \in Slots(new_cap) |-> Empty], cap |-> new_cap, len |-> t.len]

\* every record put where the new capacity sends it
TableGrown(t) ==
    LET After[n \in 0 .. t.cap] ==
            IF n = 0 THEN Bare(t)
            ELSE IF t.slots[n - 1] = Empty THEN After[n - 1]
            ELSE TablePut(After[n - 1], t.slots[n - 1])
    IN  After[t.cap]

TableFull(t) == 2 * (t.len + 1) > t.cap

\* the tables a record may end up in; none of them when growth is needed and 'grows' is
\* FALSE, the default allocator's refusal
TableInsert(t, r, grows) ==
    LET u == IF TableFull(t) THEN TableGrown(t) ELSE t
    IN  IF TableFull(t) /\ ~grows THEN {} ELSE {[TablePut(u, r) EXCEPT !.len = @ + 1]}

\* the record for 'addr', or Empty
TableFind(t, addr) == IF t.cap = 0 THEN Empty ELSE t.slots[TableProbe(t, addr)]

\* broken: every entry of the run moves, past its home too
MovesBackAlways(t, i, hole) == TRUE

\* whether the entry at i may fill the hole: its home does not lie after it, counted
\* around the ring
MovesBack(t, i, hole) ==
    (i - TableHome(t, t.slots[i].addr)) % t.cap >= (i - hole) % t.cap

Moved(t, i, hole) == [t EXCEPT !.slots[hole] = t.slots[i], !.slots[i] = Empty]

\* backward shift, at the slot i: the run ends there, or its entry may fill the hole and
\* leaves a hole of its own, or it stays
ShiftStep(s, i) ==
    CASE s.done \/ s.t.slots[i] = Empty -> [s EXCEPT !.done = TRUE]
      [] ~s.done /\ s.t.slots[i] # Empty /\ MovesBack(s.t, i, s.hole) ->
            [t |-> Moved(s.t, i, s.hole), hole |-> i, done |-> FALSE]
      [] OTHER -> s

\* up from the hole, once around the ring at most
ShiftBack(t, hole) ==
    LET After[d \in Slots(t.cap)] ==
            IF d = 0 THEN [t |-> t, hole |-> hole, done |-> FALSE]
            ELSE ShiftStep(After[d - 1], (hole + d) % t.cap)
    IN  After[t.cap - 1].t

\* the table without the record for 'addr', which is in it
TableTake(t, addr) ==
    LET hole == TableProbe(t, addr)
    IN  ShiftBack([t EXCEPT !.slots[hole] = Empty, !.len = @ - 1], hole)

-----------------------------------------------------------------------------
(* The allocator.                                                           *)

CONSTANTS
    Layouts,       \* the layouts asked for
    GuardSize,     \* GUARD_SIZE
    QuarantineLen, \* QUARANTINE_LEN
    CountMax,      \* UINT64_MAX
    MaxRequests,   \* bound on the requests made
    FailAfter,     \* the counts given to tda_debug_fail_after
    BreakAt        \* the serials given to tda_debug_break_at

ASSUME DebugAssumption ==
    /\ Addrs \subseteq Nat \ {0}
    /\ Layouts \subseteq [size : Nat \ {0}, align : Nat \ {0}]
    /\ GuardSize \in Nat \ {0} /\ QuarantineLen \in Nat \ {0}
    /\ FailAfter \subseteq 0 .. CountMax /\ BreakAt \subseteq 0 .. CountMax
    /\ CountMax \in Nat /\ MaxRequests \in Nat /\ MaxRequests < CountMax
    /\ Null \notin Nat

VARIABLES debug, blocks, misuse, history, budget, due

vars == <<debug, blocks, misuse, history, budget, due>>

Running == "running"
\* what report says, in a word
Reports == {"break", "past end", "after free", "freed twice", "not ours", "layout",
            "parent repeats"}
\* the misuses that are reported by the call that makes them
AtOnce == Reports \ {"break", "past end", "after free"}

LayoutOf(b) == [size |-> b.size, align |-> b.align]
AddrsOf(S) == {b.addr : b \in S}

-----------------------------------------------------------------------------
(* Helpers.                                                                 *)

Report(d, what) == [d EXCEPT !.stop = what]

\* broken: the head is left out
QuarantinedAt0(d, i) == d.quarantine[i % QuarantineLen]

\* the i-th quarantined block, oldest first
Quarantined(d, i) == d.quarantine[(d.quarantine_head + i) % QuarantineLen]

Quarantine(d) == {Quarantined(d, i) : i \in 0 .. d.quarantine_len - 1}

\* the layout asked of the parent, guard included; Null on overflow
CkdParentLayout(l) ==
    LET size == CkdAdd(l.size, GuardSize)
    IN  IF size = Null THEN Null ELSE [size |-> size, align |-> l.align]

\* a block as it goes back to the parent
WithGuard(b) == [addr |-> b.addr, size |-> b.size + GuardSize, align |-> b.align]

\* release_oldest; nothing more happens once the program has stopped
ReleaseOldest(d) ==
    LET freed == Quarantined(d, 0)
        e == [d EXCEPT !.quarantine_head = (@ + 1) % QuarantineLen, !.quarantine_len = @ - 1]
    IN  CASE d.stop # Running -> d
          [] d.stop = Running /\ freed.addr \in d.torn -> Report(e, "after free")
          [] OTHER -> [e EXCEPT !.lent = @ \ {WithGuard(freed)}]

Released(d, count) ==
    LET After[n \in 0 .. QuarantineLen] ==
            IF n = 0 THEN d ELSE ReleaseOldest(After[n - 1])
    IN  After[count]

QuarantinePush(d, b) ==
    LET e == IF d.quarantine_len = QuarantineLen THEN ReleaseOldest(d) ELSE d
    IN  [e EXCEPT !.quarantine_len = @ + 1,
                  !.quarantine[(e.quarantine_head + e.quarantine_len) % QuarantineLen] = b]

Breaks(d) == d.requests = d.break_at

\* broken: one request too many goes through
RefusesLate(d) == d.requests > d.fail_after + 1

\* whether next_serial refuses the request it has just counted
Refuses(d) == d.requests > d.fail_after

\* debug_alloc once the parent has answered with 'a': the states it may end in, a refusal
\* by the table giving the block back
Recorded(d, l, a) ==
    LET r == [addr |-> a, size |-> l.size, align |-> l.align, serial |-> d.requests]
        live == d.live_bytes + l.size
        Grow(grows) ==
            {[d EXCEPT !.table = t, !.live_bytes = live,
                       !.peak_bytes = Larger(@, live),
                       !.torn = @ \ {a},
                       !.lent = @ \cup {[addr |-> a, size |-> CkdParentLayout(l).size,
                                          align |-> l.align]}] : t \in TableInsert(d.table, r, grows)}
    IN  IF TableFind(d.table, a) # Empty \/ a \in AddrsOf(Quarantine(d))
        THEN {[debug |-> Report(d, "parent repeats"), addr |-> Null, answered |-> TRUE]}
        ELSE {[debug |-> e, addr |-> a, answered |-> TRUE] : e \in Grow(TRUE)}
             \cup IF Grow(FALSE) # {} THEN {}
                  ELSE {[debug |-> d, addr |-> Null, answered |-> TRUE]}

\* debug_alloc: the states it may end in and the address it answers with.  The parent may
\* refuse; 'a' is what it answers otherwise
DebugAlloc(d, l, a) ==
    LET counted == [d EXCEPT !.requests = @ + 1]
        refusal == {[debug |-> counted, addr |-> Null, answered |-> FALSE]}
    IN  CASE Breaks(counted) ->
                {[debug |-> Report(counted, "break"), addr |-> Null, answered |-> FALSE]}
          [] ~Breaks(counted) /\ (Refuses(counted) \/ CkdParentLayout(l) = Null) ->
                refusal
          [] OTHER -> refusal \cup Recorded(counted, l, a)

\* broken: the layout is not compared
CheckedEntryAnyLayout(d, a, l) ==
    CASE TableFind(d.table, a) # Empty -> Running
      [] a \in AddrsOf(Quarantine(d)) -> "freed twice"
      [] OTHER -> "not ours"

\* what checked_entry reports of the block at 'a', said to have layout l
CheckedEntry(d, a, l) ==
    LET r == TableFind(d.table, a)
    IN  CASE r # Empty /\ LayoutOf(r) = l -> Running
          [] r # Empty /\ LayoutOf(r) # l -> "layout"
          [] r = Empty /\ a \in AddrsOf(Quarantine(d)) -> "freed twice"
          [] OTHER -> "not ours"

\* debug_remap looks and moves nothing
DebugRemap(d, a, l) == [d EXCEPT !.stop = CheckedEntry(d, a, l)]

\* broken: the guard is not looked at
DeallocUnguarded(d, a, l) ==
    IF CheckedEntry(d, a, l) # Running THEN Report(d, CheckedEntry(d, a, l))
    ELSE QuarantinePush([d EXCEPT !.table = TableTake(d.table, a), !.live_bytes = @ - l.size,
                                  !.torn = @ \ {a}],
                        [addr |-> a, size |-> l.size, align |-> l.align])

\* debug_dealloc fills the whole block, guard included, before it waits
DebugDealloc(d, a, l) ==
    CASE CheckedEntry(d, a, l) # Running -> Report(d, CheckedEntry(d, a, l))
      [] CheckedEntry(d, a, l) = Running /\ a \in d.torn -> Report(d, "past end")
      [] OTHER -> QuarantinePush([d EXCEPT !.table = TableTake(d.table, a),
                                           !.live_bytes = @ - l.size],
                                 [addr |-> a, size |-> l.size, align |-> l.align])

\* the addresses freed last, at most as many as the quarantine holds
Freed(a) ==
    LET h == Append(history, a)
    IN  IF Len(h) > QuarantineLen THEN Tail(h) ELSE h

\* what is left of a number of requests once one more is made
Spent(n) == IF n = Null \/ n = 0 THEN n ELSE n - 1

-----------------------------------------------------------------------------
(* The allocator, used as its contract says.                                *)

\* tda_debug_init
Init ==
    /\ debug = [parent |-> TRUE, table |-> NewTable,
                quarantine |-> [i \in 0 .. QuarantineLen - 1 |-> Null],
                quarantine_head |-> 0, quarantine_len |-> 0,
                live_bytes |-> 0, peak_bytes |-> 0,
                requests |-> 0, fail_after |-> CountMax, break_at |-> 0,
                lent |-> {}, torn |-> {}, stop |-> Running]
    /\ blocks = {} /\ misuse = {} /\ history = <<>> /\ budget = Null /\ due = Null

Runs == debug.parent /\ debug.stop = Running

\* the blocks still live stay with the parent
tda_debug_deinit ==
    /\ Runs
    /\ LET d == Released(debug, debug.quarantine_len)
       IN  debug' = IF d.stop # Running THEN d
                    ELSE [d EXCEPT !.parent = FALSE, !.table = NewTable,
                                   !.live_bytes = 0, !.peak_bytes = 0, !.requests = 0,
                                   !.fail_after = 0, !.break_at = 0]
    /\ history' = <<>>
    /\ UNCHANGED <<blocks, misuse, budget, due>>

tda_debug_flush_quarantine ==
    /\ Runs
    /\ debug' = Released(debug, debug.quarantine_len)
    /\ history' = <<>>
    /\ UNCHANGED <<blocks, misuse, budget, due>>

FailAt(count) == IF debug.requests + count > CountMax THEN CountMax ELSE debug.requests + count

tda_debug_fail_after(count) ==
    /\ Runs
    /\ debug' = [debug EXCEPT !.fail_after = FailAt(count)]
    /\ budget' = count
    /\ UNCHANGED <<blocks, misuse, history, due>>

tda_debug_break_at(serial) ==
    /\ Runs
    /\ debug' = [debug EXCEPT !.break_at = serial]
    /\ due' = IF serial > debug.requests THEN serial - debug.requests ELSE Null
    /\ UNCHANGED <<blocks, misuse, history, budget>>

\* the parent answers with any address, also, against its contract, one it has out
tda_alloc(l, a) ==
    /\ Runs /\ debug.requests < MaxRequests
    /\ \E r \in DebugAlloc(debug, l, a) :
          /\ debug' = r.debug
          /\ blocks' = IF r.addr = Null THEN blocks
                       ELSE blocks \cup {[addr |-> a, size |-> l.size, align |-> l.align]}
          /\ misuse' = misuse \cup IF r.answered /\ a \in AddrsOf(debug.lent) THEN {"parent repeats"} ELSE {}
    /\ budget' = Spent(budget) /\ due' = Spent(due)
    /\ UNCHANGED history

tda_dealloc(b) ==
    /\ Runs
    /\ debug' = DebugDealloc(debug, b.addr, LayoutOf(b))
    /\ blocks' = blocks \ {b}
    /\ history' = Freed(b.addr)
    /\ UNCHANGED <<misuse, budget, due>>

\* no resize, and a remap that only looks: a new block, a copy and a free
tda_realloc(b, size, a) ==
    /\ Runs /\ debug.requests < MaxRequests
    /\ a \notin AddrsOf(debug.lent)
    /\ DebugRemap(debug, b.addr, LayoutOf(b)) = debug
    /\ \E r \in DebugAlloc(debug, [size |-> size, align |-> b.align], a) :
          IF r.addr = Null
          THEN debug' = r.debug /\ UNCHANGED <<blocks, history>>
          ELSE /\ debug' = DebugDealloc(r.debug, b.addr, LayoutOf(b))
               /\ blocks' = (blocks \ {b}) \cup {[b EXCEPT !.addr = a, !.size = size]}
               /\ history' = Freed(b.addr)
    /\ budget' = Spent(budget) /\ due' = Spent(due)
    /\ UNCHANGED misuse

-----------------------------------------------------------------------------
(* The misuses of the header's list.                                        *)

WritePastEnd(b) ==
    /\ Runs
    /\ debug' = [debug EXCEPT !.torn = @ \cup {b.addr}]
    /\ misuse' = misuse \cup {"past end"}
    /\ UNCHANGED <<blocks, history, budget, due>>

WriteAfterFree(a) ==
    /\ Runs
    /\ a \in AddrsOf(Quarantine(debug))
    /\ debug' = [debug EXCEPT !.torn = @ \cup {a}]
    /\ misuse' = misuse \cup {"after free"}
    /\ UNCHANGED <<blocks, history, budget, due>>

\* a free or a realloc of what is not live: one of the blocks freed last, or any other address
UseStray(a, l) ==
    /\ Runs
    /\ a \notin AddrsOf(blocks)
    /\ debug' \in {DebugDealloc(debug, a, l), DebugRemap(debug, a, l)}
    /\ misuse' = misuse \cup
          {IF \E i \in 1 .. Len(history) : history[i] = a THEN "freed twice" ELSE "not ours"}
    /\ UNCHANGED <<blocks, history, budget, due>>

UseWrongLayout(b, l) ==
    /\ Runs
    /\ LayoutOf(b) # l
    /\ debug' \in {DebugDealloc(debug, b.addr, l), DebugRemap(debug, b.addr, l)}
    /\ misuse' = misuse \cup {"layout"}
    /\ UNCHANGED <<blocks, history, budget, due>>

Next ==
    \/ tda_debug_deinit
    \/ tda_debug_flush_quarantine
    \/ \E count \in FailAfter : tda_debug_fail_after(count)
    \/ \E serial \in BreakAt : tda_debug_break_at(serial)
    \/ \E l \in Layouts, a \in Addrs : tda_alloc(l, a) \/ UseStray(a, l)
    \/ \E b \in blocks :
          \/ tda_dealloc(b)
          \/ WritePastEnd(b)
          \/ \E l \in Layouts, a \in Addrs : tda_realloc(b, l.size, a)
          \/ \E l \in Layouts : UseWrongLayout(b, l)
    \/ \E a \in Addrs : WriteAfterFree(a)

Spec == Init /\ [][Next]_vars

-----------------------------------------------------------------------------
(* Properties.                                                              *)

Block == [addr : Addrs, size : Nat \ {0}, align : Nat \ {0}]

tda_debug_stats ==
    [live_blocks |-> debug.table.len, live_bytes |-> debug.live_bytes,
     peak_bytes |-> debug.peak_bytes, requests |-> debug.requests]

\* the blocks tda_debug_fprint_leaks names, slot by slot; its last line has the totals
tda_debug_fprint_leaks ==
    {[addr |-> r.addr, size |-> r.size, align |-> r.align] : r \in Records(debug.table)}

\* The fields have their types and the ring its bounds.
TypeOK ==
    /\ debug.parent \in BOOLEAN
    /\ debug.stop \in Reports \cup {Running}
    /\ debug.quarantine \in [0 .. QuarantineLen - 1 -> Block \cup {Null}]
    /\ debug.quarantine_head \in 0 .. QuarantineLen - 1
    /\ debug.quarantine_len \in 0 .. QuarantineLen
    /\ debug.live_bytes \in Nat /\ tda_debug_stats.live_bytes <= tda_debug_stats.peak_bytes
    /\ debug.requests \in 0 .. MaxRequests /\ debug.fail_after \in 0 .. CountMax
    /\ blocks \subseteq Block

\* a probe of the table, which is at most half full and so stops it, finds each live block
\* and no other address
ProbesFind ==
    /\ 2 * debug.table.len <= debug.table.cap
    /\ \A a \in Addrs : TableFind(debug.table, a) # Empty <=> a \in AddrsOf(blocks)

\* The fields are sound and, while the program runs, the table records exactly the blocks
\* the callers hold, each under its layout and where a probe finds it: no removal leaves a
\* hole between an entry and its home, around the end of the table and after growth too.
\* The counts tda_debug_stats and the leak report give are those of the blocks.
TableIsBlocks ==
    TypeOK /\ (Runs =>
        /\ ProbesFind
        /\ tda_debug_fprint_leaks = blocks
        /\ tda_debug_stats.live_blocks = Cardinality(blocks)
        /\ tda_debug_stats.live_bytes = MapThenSumSet(LAMBDA b : b.size, blocks))

\* the quarantine holds the blocks freed last, in the order they were freed
QuarantineIsHistory ==
    /\ Len(history) = debug.quarantine_len
    /\ \A i \in 1 .. Len(history) : Quarantined(debug, i - 1).addr = history[i]

\* While the program runs, the parent has out the live blocks and those freed last, guards
\* included, and no other: blocks leave the quarantine in the order of their frees, around
\* the end of its ring too, and go back with the layout they were asked with, and a refused
\* growth of the table gives its block back.
ParentIsOwed ==
    debug.stop = Running =>
        /\ QuarantineIsHistory
        /\ debug.lent = {[b EXCEPT !.size = @ + GuardSize] : b \in blocks \cup Quarantine(debug)}

\* A bad pointer, a bad layout and a parent's repeat stop the program at once, a block
\* written past its end or after its free stays under the allocator's eye until it is
\* checked (it is not back with the parent or handed out again), and no report is false:
\* the program stops only for a misuse that did happen, and says which one.  (A break is no
\* misuse: InjectionExact has it.)
ReportsExact ==
    IF debug.stop # Running THEN debug.stop \in misuse \cup {"break"}
    ELSE /\ misuse \cap AtOnce = {}
         /\ debug.torn \subseteq AddrsOf(blocks \cup Quarantine(debug))

\* No block written past its end is given back unseen, in a free of the caller's or in the
\* one at the end of tda_realloc.
OverrunStops ==
    [][\A b \in blocks \ blocks' : b.addr \in debug.torn => debug'.stop # Running]_vars

\* Fault injection refuses exactly the requests past the number it was told, refused and
\* failed ones counted, however large that number and whenever it was given.  The program
\* breaks at the request break_at names last and at no other, it does not run past that one,
\* refused or not, and a serial already behind never breaks.
InjectionExact ==
    /\ Runs => (Refuses([debug EXCEPT !.requests = @ + 1]) <=> budget = 0)
    /\ debug.stop = "break" <=> due = 0
=============================================================================
