---------------------------- MODULE WorkContract ----------------------------
(***************************************************************************)
(* What a Codec 2.0 component promises to a client that makes one call at  *)
(* a time: each work the component accepts comes back once, reported or    *)
(* flushed; nothing comes back outside a session; flush_sm() takes back    *)
(* all works at once, and stop() ends the session with none left.  Only    *)
(* after a flush_sm() that timed out does the component owe nothing.       *)
(***************************************************************************)
CONSTANT Work

VARIABLES
    session,   \* between start() and stop(), or not, or over for good
    place,     \* who has each work
    excused    \* a flush_sm() has timed out

vars == <<session, place, excused>>

Session == {"stopped", "running", "released"}
Place   == {"client", "held", "reported", "flushed", "lost"}
HeldWorks == {w \in Work : place[w] = "held"}
Move(S, to) == place' = [w \in Work |-> IF w \in S THEN to ELSE place[w]]

Init ==
    /\ session = "stopped"
    /\ place = [w \in Work |-> "client"]
    /\ excused = FALSE

Start ==
    /\ session = "stopped"
    /\ session' = "running"
    /\ UNCHANGED <<place, excused>>

Accept(w) ==
    /\ session = "running"
    /\ place[w] = "client"
    /\ Move({w}, "held")
    /\ UNCHANGED <<session, excused>>

\* Several works may be reported in one call of the listener.
Report(S) ==
    /\ session = "running"
    /\ S # {} /\ S \subseteq HeldWorks
    /\ Move(S, "reported")
    /\ UNCHANGED <<session, excused>>

\* flush_sm() returns C2_OK; works reported before it are not in its list.
Flush ==
    /\ session = "running"
    /\ \/ Move(HeldWorks, "flushed")
       \/ excused /\ \E S \in SUBSET HeldWorks : Move(S, "flushed")
    /\ UNCHANGED <<session, excused>>

FlushTimesOut ==
    /\ session = "running"
    /\ excused' = TRUE
    /\ UNCHANGED <<session, place>>

Lose(S) ==
    /\ excused
    /\ S \subseteq HeldWorks
    /\ Move(S, "lost")
    /\ UNCHANGED <<session, excused>>

Stop ==
    /\ session = "running"
    /\ excused \/ HeldWorks = {}
    /\ session' = "stopped"
    /\ UNCHANGED <<place, excused>>

Release ==
    /\ session = "stopped"
    /\ session' = "released"
    /\ UNCHANGED <<place, excused>>

Next ==
    \/ Start \/ Flush \/ FlushTimesOut \/ Stop \/ Release
    \/ \E w \in Work : Accept(w)
    \/ \E S \in SUBSET Work : Report(S) \/ Lose(S)

Spec == Init /\ [][Next]_vars
=============================================================================
