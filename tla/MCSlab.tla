------------------------------- MODULE MCSlab -------------------------------
(* Three classes that keep the shape of CLASS_SIZES (an odd multiple whose  *)
(* alignment is below the class before it), chunks that no class fills up,  *)
(* and memory behind the parent for three chunks or large blocks.           *)
EXTENDS Slab, TLC

MCClassSizes == <<2, 4, 6>>
MCWords == 8 .. 31
MCLayouts ==
    {[size |-> 1, align |-> 1], [size |-> 3, align |-> 1], [size |-> 5, align |-> 2],
     [size |-> 5, align |-> 4], [size |-> 7, align |-> 1]}
=============================================================================
