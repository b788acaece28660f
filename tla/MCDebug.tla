------------------------------ MODULE MCDebug ------------------------------
(* Four addresses whose homes meet at the end of the table and wrap around  *)
(* it, a table that grows at its third record, a quarantine of two, and a   *)
(* request whose guard overflows size_t.                                    *)
EXTENDS Debug, TLC

MCHash == [a \in Addrs |-> CASE a = 8 -> 7 [] a = 16 -> 15 [] a = 24 -> 6 [] a = 32 -> 0]
MCLayouts == {[size |-> 1, align |-> 1], [size |-> 2, align |-> 2], [size |-> 14, align |-> 1]}

\* a record but for its serial, which only a report prints
Unnumbered(t) ==
    [i \in Slots(t.cap) |-> IF t.slots[i] = Empty THEN Empty ELSE [t.slots[i] EXCEPT !.serial = 0]]

\* states that differ only in serials, in the peak or in what a slot of the ring held before it
\* was freed have the same future
StateView ==
    <<[debug EXCEPT !.table.slots = Unnumbered(debug.table), !.peak_bytes = (@ >= debug.live_bytes),
                    !.quarantine = [i \in 0 .. debug.quarantine_len - 1 |-> Quarantined(debug, i)]],
      blocks, misuse, history, budget, due>>

\* faults are injected with one block at most live or in the quarantine: more are checked and
\* not gone on from
FewWhenTold ==
    budget # Null \/ debug.break_at # 0 => Cardinality(blocks) + debug.quarantine_len <= 1
=============================================================================
