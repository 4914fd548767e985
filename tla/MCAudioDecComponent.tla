------------------------ MODULE MCAudioDecComponent ------------------------
(* Small instances of AudioDecComponent for TLC: how many calls and failures.  *)
(* What does not depend on the decoder is left to AAC and one or two others.   *)
EXTENDS AudioDecComponent

AllCalls == [start |-> 2, stop |-> 1, reset |-> 1, flush |-> 1, drain |-> 1,
             decodeError |-> 1, poolError |-> 1, initError |-> 1]

MCCalls == [d \in Decoders |->
    CASE d = "AAC" -> AllCalls
      [] d = "AC4" -> [AllCalls EXCEPT !["poolError"] = 0, !["flush"] = 0]
      [] d \in {"EAC3", "FFMPEG"} -> [AllCalls EXCEPT !["poolError"] = 0, !["drain"] = 0]
      [] OTHER -> [AllCalls EXCEPT !["poolError"] = 0, !["drain"] = 0, !["flush"] = 0]]
=============================================================================
