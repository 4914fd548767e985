------------------------- MODULE MCC2VdecComponent -------------------------
(* Small instances of C2VdecComponent for TLC: how many calls of start,     *)
(* flush_sm and drain_nb, how many errors of the decoder and how many waits *)
(* of flush_sm() that end early.                                            *)
EXTENDS C2VdecComponent

Calls(starts, flushes, drains, halErrors, earlyTimeouts) ==
    [c \in Call |-> CASE c = "start"        -> starts
                      [] c = "flush"        -> flushes
                      [] c = "drain"        -> drains
                      [] c = "halError"     -> halErrors
                      [] c = "earlyTimeout" -> earlyTimeouts]

MCCalls11000 == Calls(1, 1, 0, 0, 0)
MCCalls21100 == Calls(2, 1, 1, 0, 0)
MCCalls22011 == Calls(2, 2, 0, 1, 1)
=============================================================================
