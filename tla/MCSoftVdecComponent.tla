------------------------ MODULE MCSoftVdecComponent ------------------------
(* Small instances of SoftVdecComponent for TLC: how many calls and failures. *)
EXTENDS SoftVdecComponent

Budget(more) == [c \in Call |-> IF c \in DOMAIN more THEN more[c] ELSE IF c = "start" THEN 1 ELSE 0]

MCBudgets ==
    {Budget([flush |-> 2, corrupt |-> 1]),
     Budget([flush |-> 1, drain |-> 1, poolError |-> 1, initError |-> 1]),
     Budget([flush |-> 1, fetchError |-> 1, mapError |-> 1]),
     Budget([start |-> 2, flush |-> 1, stop |-> 1, corrupt |-> 1]),
     Budget([start |-> 2, reset |-> 1, drain |-> 1])}
=============================================================================
