--------------------------- MODULE VdecInstances ---------------------------
(***************************************************************************)
(* Admission control of the hardware video decoder: the static counters of *)
(* C2VdecComponent that bound how many decoders of each kind exist.         *)
(*                                                                         *)
(* create() runs under a static mutex, so two creations never overlap; but *)
(* the counters are also changed without the mutex, by onDestroy() on the  *)
(* thread of the component that goes away and by config() of a component   *)
(* that already exists.  A creation is therefore two steps, the checks and *)
(* the constructor, between which those two may run.  onDestroy() gives    *)
(* its counters back one after the other; it is one step here, because a   *)
(* creation that reads between them can only see more instances and refuse.*)
(* The framework does not configure a component it has released.           *)
(*                                                                         *)
(* An operator with a suffix, as AcceptSecure_OwnLimit, is the operator    *)
(* named before the suffix with a plausible bug in it: the properties are  *)
(* tested by putting it in the place of the correct one.                   *)
(***************************************************************************)
EXTENDS Integers, FiniteSets

CONSTANTS
    Component,               \* the C2VdecComponent objects that may be created
    kMaxConcurrentInstances, \* limit on all decoders; negative: not checked
    kMaxSecureConcurrentInstances,   \* limit on the secure ones
    kMaxHighResConcurrentInstances,  \* limit checked against max-resolution ones
    ThreadMayFail            \* TRUE: a constructor may give up before its thread runs

ASSUME ComponentAssumption == IsFiniteSet(Component)
ASSUME LimitAssumption ==
    /\ kMaxConcurrentInstances \in Int
    /\ kMaxSecureConcurrentInstances \in Int
    /\ kMaxHighResConcurrentInstances \in Int
ASSUME ThreadMayFailAssumption == ThreadMayFail \in BOOLEAN

\* What create() reads from the component's name: ".secure", ".vc1" or neither.
Kind == {"plain", "vc1", "secure"}

\* absent: not created; checked: create() passed its checks and holds the mutex;
\* running: constructed; threadless: constructed, but mThread never started;
\* destroyed: onDestroy() ran; leaked: a threadless object, deleted without it.
Life == {"absent", "checked", "running", "threadless", "destroyed", "leaked"}

VARIABLES
    life,               \* life[c]: how far object c has come
    kind,               \* kind[c]: fixed by the name it is created with
    mIsMaxResolution,   \* mIsMaxResolution[c]: counted as a max-resolution instance
    sConcurrentInstances, sConcurrentInstanceSecures,
    sConcurrentVc1Instance, sConcurrentMaxResolutionInstance

counters == <<sConcurrentInstances, sConcurrentInstanceSecures,
              sConcurrentVc1Instance, sConcurrentMaxResolutionInstance>>
vars == <<life, kind, mIsMaxResolution, counters>>

Exists(c) == life[c] \in {"running", "threadless"}
Secure    == {c \in Component : Exists(c) /\ kind[c] = "secure"}
NonSecure == {c \in Component : Exists(c) /\ kind[c] # "secure"}
Vc1       == {c \in Component : Exists(c) /\ kind[c] = "vc1"}
MaxRes    == {c \in Component : Exists(c) /\ mIsMaxResolution[c]}
-----------------------------------------------------------------------------
Init ==
    /\ life = [c \in Component |-> "absent"]
    /\ kind = [c \in Component |-> "plain"]
    /\ mIsMaxResolution = [c \in Component |-> FALSE]
    /\ sConcurrentInstances = 0
    /\ sConcurrentInstanceSecures = 0
    /\ sConcurrentVc1Instance = 0
    /\ sConcurrentMaxResolutionInstance = 0

AllInstances == sConcurrentInstances + sConcurrentInstanceSecures

AcceptSecure_OwnLimit ==
    kMaxSecureConcurrentInstances >= 0 =>
        sConcurrentInstanceSecures < kMaxSecureConcurrentInstances

\* The checks of create() for a secure component: the limit on all decoders is
\* looked at only if there is a limit on secure ones.
AcceptSecure ==
    kMaxSecureConcurrentInstances >= 0 =>
        /\ sConcurrentInstanceSecures < kMaxSecureConcurrentInstances
        /\ AllInstances < kMaxConcurrentInstances

AcceptNonSecure_OnlyNewVc1(k) ==
    /\ kMaxConcurrentInstances >= 0 => AllInstances < kMaxConcurrentInstances
    /\ k = "vc1" => AllInstances = 0

\* The checks of create() for the others: vc1 decodes alone.
AcceptNonSecure(k) ==
    /\ kMaxConcurrentInstances >= 0 => AllInstances < kMaxConcurrentInstances
    /\ sConcurrentVc1Instance = 0
    /\ k = "vc1" => AllInstances = 0

AcceptMaxRes ==
    kMaxHighResConcurrentInstances >= 0 =>
        sConcurrentMaxResolutionInstance < kMaxHighResConcurrentInstances

\* create(): takes the static mutex and passes every check.
CreateCheck(c, k) ==
    /\ life[c] = "absent"
    /\ \A d \in Component : life[d] # "checked"
    /\ IF k = "secure" THEN AcceptSecure ELSE AcceptNonSecure(k)
    /\ AcceptMaxRes
    /\ life' = [life EXCEPT ![c] = "checked"]
    /\ kind' = [kind EXCEPT ![c] = k]
    /\ UNCHANGED <<mIsMaxResolution, counters>>

\* A secure object or another, n = 1 for one more and -1 for one less.
CountInstance(c, n) ==
    /\ IF kind[c] = "secure"
       THEN /\ sConcurrentInstanceSecures' = sConcurrentInstanceSecures + n
            /\ UNCHANGED sConcurrentInstances
       ELSE /\ sConcurrentInstances' = sConcurrentInstances + n
            /\ UNCHANGED sConcurrentInstanceSecures
    /\ sConcurrentVc1Instance' =
           IF kind[c] = "vc1" THEN sConcurrentVc1Instance + n ELSE sConcurrentVc1Instance

\* The constructor counts the new object in Init(), before anything can fail;
\* then the interface or the thread may fail, which leaves an object without
\* thread that create() returns all the same.
Construct(c, threadRuns) ==
    /\ life[c] = "checked"
    /\ life' = [life EXCEPT ![c] = IF threadRuns THEN "running" ELSE "threadless"]
    /\ CountInstance(c, 1)
    /\ UNCHANGED <<kind, mIsMaxResolution, sConcurrentMaxResolutionInstance>>

ConfigMaxResolution_CountsAgain(c) ==
    /\ Exists(c)
    /\ mIsMaxResolution' = [mIsMaxResolution EXCEPT ![c] = TRUE]
    /\ sConcurrentMaxResolutionInstance' = sConcurrentMaxResolutionInstance + 1
    /\ UNCHANGED <<life, kind, sConcurrentInstances, sConcurrentInstanceSecures,
                   sConcurrentVc1Instance>>

\* config() of a picture size that is the largest the codec supports: counted
\* once per object, with no look at the limit.
ConfigMaxResolution(c) ==
    /\ Exists(c)
    /\ ~mIsMaxResolution[c]
    /\ mIsMaxResolution' = [mIsMaxResolution EXCEPT ![c] = TRUE]
    /\ sConcurrentMaxResolutionInstance' = sConcurrentMaxResolutionInstance + 1
    /\ UNCHANGED <<life, kind, sConcurrentInstances, sConcurrentInstanceSecures,
                   sConcurrentVc1Instance>>

GiveBackMaxResolution_Always(c) ==
    sConcurrentMaxResolutionInstance' = sConcurrentMaxResolutionInstance - 1

\* Only what config() counted is given back.
GiveBackMaxResolution(c) ==
    sConcurrentMaxResolutionInstance' =
        IF mIsMaxResolution[c] THEN sConcurrentMaxResolutionInstance - 1
        ELSE sConcurrentMaxResolutionInstance

\* onDestroy(), posted by release() or by the destructor, whichever comes first:
\* the thread is stopped right after, so it never runs twice.
OnDestroy(c) ==
    /\ life[c] = "running"
    /\ life' = [life EXCEPT ![c] = "destroyed"]
    /\ CountInstance(c, -1)
    /\ GiveBackMaxResolution(c)
    /\ UNCHANGED <<kind, mIsMaxResolution>>

\* The destructor of an object whose thread never ran skips onDestroy(): the object
\* stays counted for ever.
DeleteThreadless(c) ==
    /\ life[c] = "threadless"
    /\ life' = [life EXCEPT ![c] = "leaked"]
    /\ UNCHANGED <<kind, mIsMaxResolution, counters>>

Next ==
    \E c \in Component :
        \/ \E k \in Kind : CreateCheck(c, k)
        \/ Construct(c, TRUE)
        \/ ThreadMayFail /\ Construct(c, FALSE)
        \/ ConfigMaxResolution(c)
        \/ OnDestroy(c)
        \/ DeleteThreadless(c)

Spec == Init /\ [][Next]_vars
-----------------------------------------------------------------------------
\* Every variable has its type; a component that is constructed is counted, so
\* the counters are numbers of objects and never negative.
TypeOK ==
    /\ life \in [Component -> Life]
    /\ kind \in [Component -> Kind]
    /\ mIsMaxResolution \in [Component -> BOOLEAN]
    /\ sConcurrentInstances \in Nat
    /\ sConcurrentInstanceSecures \in Nat
    /\ sConcurrentVc1Instance \in Nat
    /\ sConcurrentMaxResolutionInstance \in Nat

NoneLeaked == \A c \in Component : life[c] # "leaked"

\* As long as no object without thread was deleted, each counter is the number of
\* objects of its kind that exist: what the constructor and config() add is what
\* onDestroy() takes away, once.
CountersMatchObjects ==
    NoneLeaked =>
    /\ sConcurrentInstances = Cardinality(NonSecure)
    /\ sConcurrentInstanceSecures = Cardinality(Secure)
    /\ sConcurrentVc1Instance = Cardinality(Vc1)
    /\ sConcurrentMaxResolutionInstance = Cardinality(MaxRes)

\* However creations, configurations and destructions interleave, no more
\* decoders exist than the limits allow (the limit on all of them is enforced
\* for secure ones only if these have a limit of their own).
LimitsRespected ==
    /\ kMaxSecureConcurrentInstances >= 0 =>
           Cardinality(Secure) <= kMaxSecureConcurrentInstances
    /\ kMaxSecureConcurrentInstances >= 0 /\ kMaxConcurrentInstances >= 0 =>
           Cardinality(Secure) + Cardinality(NonSecure) <= kMaxConcurrentInstances

\* A vc1 decoder is the only non-secure decoder while it exists, even if the
\* others came and went while it was being created.
Vc1AloneAmongNonSecure ==
    Vc1 # {} => Cardinality(NonSecure) = 1
=============================================================================
