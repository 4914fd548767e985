--------------------------- MODULE MCVencEncoders ---------------------------
(* Small instances of VencEncoders for TLC.                                 *)
EXTENDS VencEncoders

Size(width, height) == [width |-> width, height |-> height]
Qp(min, max)        == [min |-> min, max |-> max]

MCSizes         == {Size(1280, 720), Size(1920, 1080), Size(4096, 2160)}
MCQuantizations == {[t \in {"I"} |-> Qp(0, 60)], [t \in {"P", "B"} |-> Qp(20, 30)]}
MCCalls == [c \in Call |-> CASE c = "config" -> 2
                             [] c = "start" -> 2
                             [] c = "frame" -> 3
                             [] OTHER -> 1]
=============================================================================
