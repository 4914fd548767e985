---------------------------- MODULE MCVdecTunnel ----------------------------
(* Small instances of VdecTunnel for TLC: what may happen in a behaviour.   *)
EXTENDS VdecTunnel

Fmt(size, num) == [size |-> size, num |-> num]

Small(realloc, n, kinds, changes, drops, flushes) ==
    [realloc |-> realloc, formats |-> {Fmt(1, 2), Fmt(2, IF realloc THEN 3 ELSE 2)},
     works |-> n, kinds |-> kinds, changes |-> changes, drops |-> drops, flushes |-> flushes]

\* Not together, as the code does not cope with it: a frame that
\* is dropped after a change with H264, a flush after a change, a flush and a pending
\* end of stream.
MCSessions ==
    {Small(TRUE, 3, {"frame"}, 1, 0, 0),
     Small(TRUE, 2, {"frame"}, 2, 0, 0),
     Small(TRUE, 2, {"frame", "drop", "error"}, 0, 1, 1),
     Small(FALSE, 3, {"frame", "eos"}, 1, 1, 0)}

MCFlushAfterChange ==
    {[Small(TRUE, 3, {"frame"}, 1, 0, 1) EXCEPT !.formats = {Fmt(1, 2), Fmt(2, 2)}]}
=============================================================================
