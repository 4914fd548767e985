------------------------- MODULE MCC2VencComponent -------------------------
(* Small instances of C2VencComponent for TLC: how many calls and failures. *)
EXTENDS C2VencComponent

MCCalls == [c \in Call |-> IF c = "start" THEN 2 ELSE 1]
=============================================================================
