---------------------------- MODULE MCVdecBlocks ----------------------------
(* Small instances of VdecBlocks for TLC: how many starts, formats, pictures, *)
(* ends of stream and flushes.                                                *)
EXTENDS VdecBlocks, TLC

Symmetry == Permutations(Names) \cup Permutations(Sizes)

Calls(formats, pictures, ends, flushes) ==
    [c \in Call |-> CASE c = "start"   -> 1
                      [] c = "format"  -> formats
                      [] c = "picture" -> pictures
                      [] c = "eos"     -> ends
                      [] c = "flush"   -> flushes]

MCBudgets == {Calls(2, 2, 0, 0), Calls(1, 2, 1, 1), Calls(2, 1, 1, 1)}
=============================================================================
