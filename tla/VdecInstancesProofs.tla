------------------------ MODULE VdecInstancesProofs ------------------------
(***************************************************************************)
(* The counters of the decoder instances, for any number of components and *)
(* any limits.                                                             *)
(***************************************************************************)
EXTENDS VdecInstances, FiniteSetTheorems, TLAPS

\* Objects that are counted: those that exist and those leaked.
IsCounted(c) == Exists(c) \/ life[c] = "leaked"
CountedSecure    == {c \in Component : IsCounted(c) /\ kind[c] = "secure"}
CountedNonSecure == {c \in Component : IsCounted(c) /\ kind[c] # "secure"}
CountedVc1       == {c \in Component : IsCounted(c) /\ kind[c] = "vc1"}
CountedMaxRes    == {c \in Component : IsCounted(c) /\ mIsMaxResolution[c]}

\* Each counter is the number of the objects that are counted.
CountersExact ==
    /\ sConcurrentInstances = Cardinality(CountedNonSecure)
    /\ sConcurrentInstanceSecures = Cardinality(CountedSecure)
    /\ sConcurrentVc1Instance = Cardinality(CountedVc1)
    /\ sConcurrentMaxResolutionInstance = Cardinality(CountedMaxRes)

\* The mutex of create() lets one creation at a time through.
OneCreation ==
    \A c, d \in Component : life[c] = "checked" /\ life[d] = "checked" => c = d

\* What create() checked still holds when the constructor runs.
RoomForOne ==
    \A c \in Component : life[c] = "checked" =>
        IF kind[c] = "secure" THEN AcceptSecure ELSE AcceptNonSecure(kind[c])

CountersInLimits ==
    /\ kMaxSecureConcurrentInstances >= 0 =>
           sConcurrentInstanceSecures <= kMaxSecureConcurrentInstances
    /\ kMaxSecureConcurrentInstances >= 0 /\ kMaxConcurrentInstances >= 0 =>
           AllInstances <= kMaxConcurrentInstances

OnlyVc1 == \A c \in CountedVc1 : CountedNonSecure = {c}

FreshNotMax == \A c \in Component : life[c] \in {"absent", "checked"} => ~mIsMaxResolution[c]

IInv ==
    /\ TypeOK
    /\ CountersExact
    /\ OneCreation
    /\ RoomForOne
    /\ CountersInLimits
    /\ OnlyVc1
    /\ FreshNotMax
-----------------------------------------------------------------------------
\* The sets of objects are finite, whatever the objects are.
LEMMA ObjectsFinite ==
    ASSUME NEW S \in SUBSET Component
    PROVE  IsFiniteSet(S) /\ Cardinality(S) \in Nat
  BY ComponentAssumption, FS_Subset, FS_CardinalityType

\* A new object makes a set of objects one larger.
LEMMA AddObject ==
    ASSUME NEW S \in SUBSET Component, NEW c \in Component, c \notin S
    PROVE  Cardinality(S \cup {c}) = Cardinality(S) + 1
  BY ObjectsFinite, FS_AddElement

\* An object that goes makes a set of objects one smaller; there was one to go.
LEMMA RemoveObject ==
    ASSUME NEW S \in SUBSET Component, NEW c \in S
    PROVE  Cardinality(S \ {c}) = Cardinality(S) - 1 /\ Cardinality(S) >= 1
<1>1. Cardinality(S \ {c}) = Cardinality(S) - 1
  BY ObjectsFinite, FS_RemoveElement
<1>2. Cardinality(S \ {c}) \in Nat
  BY ObjectsFinite, S \ {c} \in SUBSET Component
<1> QED BY <1>1, <1>2, ObjectsFinite

\* No object, no count.
LEMMA NoObject ==
    ASSUME NEW S \in SUBSET Component, Cardinality(S) = 0
    PROVE  S = {}
<1> SUFFICES ASSUME NEW c \in S PROVE FALSE
  OBVIOUS
<1>1. Cardinality(S) >= 1
  BY RemoveObject
<1>2. Cardinality(S) \in Nat
  BY ObjectsFinite
<1> QED BY <1>1, <1>2

\* Counting one more object, as the constructor and config() do, keeps a counter right.
LEMMA CountOneMore ==
    ASSUME NEW n \in Nat, NEW S \in SUBSET Component, NEW c \in Component, c \notin S,
           n = Cardinality(S)
    PROVE  n + 1 \in Nat /\ n + 1 = Cardinality(S \cup {c})
<1>1. Cardinality(S \cup {c}) = Cardinality(S) + 1
  BY AddObject
<1>2. Cardinality(S) \in Nat
  BY ObjectsFinite
<1> QED BY <1>1, <1>2

\* Giving one object back, as onDestroy() does, keeps a counter right and natural.
LEMMA CountOneLess ==
    ASSUME NEW n \in Nat, NEW S \in SUBSET Component, NEW c \in S, n = Cardinality(S)
    PROVE  n - 1 \in Nat /\ n - 1 = Cardinality(S \ {c})
<1>1. Cardinality(S \ {c}) = Cardinality(S) - 1 /\ Cardinality(S) >= 1
  BY RemoveObject
<1>2. Cardinality(S) \in Nat
  BY ObjectsFinite
<1> QED BY <1>1, <1>2
-----------------------------------------------------------------------------
\* No component exists and every counter is zero.
LEMMA InitIInv == Init => IInv
<1> SUFFICES ASSUME Init PROVE IInv
  OBVIOUS
<1>1. CountedNonSecure = {} /\ CountedSecure = {} /\ CountedVc1 = {} /\ CountedMaxRes = {}
  BY DEF Init, CountedNonSecure, CountedSecure, CountedVc1, CountedMaxRes, IsCounted, Exists
<1>2. Cardinality({}) = 0
  BY FS_EmptySet
<1>3. CountersExact
  BY <1>1, <1>2 DEF Init, CountersExact
<1> QED
  BY <1>1, <1>3, LimitAssumption DEF Init, IInv, TypeOK, Life, Kind, OneCreation, RoomForOne,
     CountersInLimits, AllInstances, OnlyVc1, FreshNotMax

\* A step that leaves the objects and the counters as they are, only, perhaps,
\* with another creation under way.
LEMMA SameCounts ==
    ASSUME IInv, UNCHANGED <<counters, mIsMaxResolution>>,
           \A c \in Component : IsCounted(c)' = IsCounted(c),
           \A c \in Component : IsCounted(c) => kind'[c] = kind[c]
    PROVE  CountersExact' /\ CountersInLimits' /\ OnlyVc1'
<1>1. CountedNonSecure' = CountedNonSecure /\ CountedSecure' = CountedSecure /\ CountedVc1' = CountedVc1 /\ CountedMaxRes' = CountedMaxRes
  BY DEF CountedNonSecure, CountedSecure, CountedVc1, CountedMaxRes
<1> QED
  BY <1>1 DEF IInv, counters, CountersExact, CountersInLimits, AllInstances, OnlyVc1

\* create() that passes its checks leaves room for the one object it is about to make.
LEMMA CreateCheckStep ==
    ASSUME IInv, NEW c \in Component, NEW k \in Kind, CreateCheck(c, k)
    PROVE  IInv'
<1> USE DEF CreateCheck
<1>1. TypeOK'
  BY DEF IInv, TypeOK, Life, counters
<1>2. \A d \in Component : IsCounted(d)' = IsCounted(d) /\ (IsCounted(d) => kind'[d] = kind[d])
  BY DEF IInv, TypeOK, IsCounted, Exists
<1>3. CountersExact' /\ CountersInLimits' /\ OnlyVc1'
  BY <1>2, SameCounts
<1>4. OneCreation'
  BY DEF IInv, TypeOK, OneCreation
<1>5. RoomForOne'
  BY DEF IInv, TypeOK, RoomForOne, AcceptSecure, AcceptNonSecure, AllInstances, counters
<1>6. FreshNotMax'
  BY DEF IInv, TypeOK, FreshNotMax
<1> QED BY <1>1, <1>3, <1>4, <1>5, <1>6 DEF IInv

\* The constructor uses the room its create() has found, and counts what it adds.
LEMMA ConstructStep ==
    ASSUME IInv, NEW c \in Component, NEW threadRuns \in BOOLEAN, Construct(c, threadRuns)
    PROVE  IInv'
<1> USE DEF Construct, CountInstance
<1>1. TypeOK'
  BY DEF IInv, TypeOK, Life
<1>2. IsCounted(c)' /\ ~IsCounted(c) /\ \A d \in Component \ {c} : IsCounted(d)' = IsCounted(d)
  BY DEF IInv, TypeOK, IsCounted, Exists
<1>3. kind' = kind /\ mIsMaxResolution' = mIsMaxResolution
  OBVIOUS
<1>4. CountedSecure' = (IF kind[c] = "secure" THEN CountedSecure \cup {c} ELSE CountedSecure) /\ c \notin CountedSecure
  BY <1>2, <1>3 DEF CountedSecure
<1>5. CountedNonSecure' = (IF kind[c] = "secure" THEN CountedNonSecure ELSE CountedNonSecure \cup {c}) /\ c \notin CountedNonSecure
  BY <1>2, <1>3 DEF CountedNonSecure
<1>6. CountedVc1' = (IF kind[c] = "vc1" THEN CountedVc1 \cup {c} ELSE CountedVc1) /\ c \notin CountedVc1
  BY <1>2, <1>3 DEF CountedVc1
<1>7. CountedMaxRes' = CountedMaxRes
  BY <1>2, <1>3 DEF IInv, FreshNotMax, CountedMaxRes
<1>8. CountedSecure \in SUBSET Component /\ CountedNonSecure \in SUBSET Component /\ CountedVc1 \in SUBSET Component
  BY DEF CountedSecure, CountedNonSecure, CountedVc1
<1>9. /\ sConcurrentInstances \in Nat /\ sConcurrentInstanceSecures \in Nat
      /\ sConcurrentVc1Instance \in Nat
  BY DEF IInv, TypeOK
<1>10. CountersExact'
  <2>1. CASE kind[c] = "secure"
    BY <2>1, <1>4, <1>5, <1>6, <1>7, <1>8, <1>9, CountOneMore DEF IInv, CountersExact
  <2>2. CASE kind[c] = "vc1"
    <3>1. sConcurrentInstances' = Cardinality(CountedNonSecure')
      BY <2>2, <1>5, <1>8, <1>9, CountOneMore DEF IInv, CountersExact
    <3>2. sConcurrentVc1Instance' = Cardinality(CountedVc1')
      BY <2>2, <1>6, <1>8, <1>9, CountOneMore DEF IInv, CountersExact
    <3> QED BY <3>1, <3>2, <2>2, <1>4, <1>7 DEF IInv, CountersExact
  <2>3. CASE kind[c] = "plain"
    <3>1. sConcurrentInstances' = Cardinality(CountedNonSecure')
      BY <2>3, <1>5, <1>8, <1>9, CountOneMore DEF IInv, CountersExact
    <3> QED BY <3>1, <2>3, <1>4, <1>6, <1>7 DEF IInv, CountersExact
  <2> QED BY <2>1, <2>2, <2>3 DEF IInv, TypeOK, Kind
<1>11. OneCreation' /\ FreshNotMax'
  BY DEF IInv, TypeOK, OneCreation, FreshNotMax
<1>12. RoomForOne'
  BY DEF IInv, TypeOK, RoomForOne, OneCreation
<1>13. CountersInLimits'
  BY <1>9, LimitAssumption
  DEF IInv, RoomForOne, CountersInLimits, AcceptSecure, AcceptNonSecure, AllInstances
<1>15. OnlyVc1'
  <2>1. CASE kind[c] = "secure"
    BY <2>1, <1>5, <1>6 DEF IInv, OnlyVc1
  <2>2. CASE kind[c] = "vc1"
    <3>1. sConcurrentInstances = 0
      BY <2>2, <1>9 DEF IInv, RoomForOne, AcceptNonSecure, AllInstances
    <3>2. CountedNonSecure = {}
      BY <3>1, <1>8, NoObject DEF IInv, CountersExact
    <3>3. CountedVc1 = {}
      BY <3>2 DEF CountedVc1, CountedNonSecure
    <3> QED BY <3>2, <3>3, <2>2, <1>5, <1>6 DEF OnlyVc1
  <2>3. CASE kind[c] = "plain"
    <3>1. sConcurrentVc1Instance = 0
      BY <2>3 DEF IInv, RoomForOne, AcceptNonSecure
    <3>2. CountedVc1 = {}
      BY <3>1, <1>8, NoObject DEF IInv, CountersExact
    <3> QED BY <3>2, <2>3, <1>6 DEF OnlyVc1
  <2> QED BY <2>1, <2>2, <2>3 DEF IInv, TypeOK, Kind
<1> QED BY <1>1, <1>10, <1>11, <1>12, <1>13, <1>15 DEF IInv

\* config() counts an object as max-resolution once.
LEMMA ConfigMaxResolutionStep ==
    ASSUME IInv, NEW c \in Component, ConfigMaxResolution(c)
    PROVE  IInv'
<1> USE DEF ConfigMaxResolution
<1>1. TypeOK'
  BY DEF IInv, TypeOK
<1>2. CountedNonSecure' = CountedNonSecure /\ CountedSecure' = CountedSecure /\ CountedVc1' = CountedVc1
  BY DEF CountedNonSecure, CountedSecure, CountedVc1, IsCounted, Exists
<1>3. CountedMaxRes' = CountedMaxRes \cup {c} /\ c \notin CountedMaxRes /\ CountedMaxRes \in SUBSET Component
  BY DEF IInv, TypeOK, CountedMaxRes, IsCounted, Exists
<1>4. sConcurrentMaxResolutionInstance' = Cardinality(CountedMaxRes')
  BY <1>3, CountOneMore DEF IInv, TypeOK, CountersExact
<1>5. CountersExact' /\ CountersInLimits' /\ OnlyVc1'
  BY <1>2, <1>4 DEF IInv, CountersExact, CountersInLimits, AllInstances, OnlyVc1
<1>6. OneCreation' /\ FreshNotMax'
  BY DEF IInv, TypeOK, OneCreation, FreshNotMax, IsCounted, Exists
<1>7. RoomForOne'
  BY DEF IInv, RoomForOne, AcceptSecure, AcceptNonSecure, AllInstances
<1> QED BY <1>1, <1>5, <1>6, <1>7 DEF IInv

\* onDestroy() gives back exactly what its object was counted for.
LEMMA OnDestroyStep ==
    ASSUME IInv, NEW c \in Component, OnDestroy(c)
    PROVE  IInv'
<1> USE DEF OnDestroy, CountInstance, GiveBackMaxResolution
<1>1. IsCounted(c) /\ ~IsCounted(c)' /\ \A d \in Component \ {c} : IsCounted(d)' = IsCounted(d)
  BY DEF IInv, TypeOK, IsCounted, Exists
<1>2. kind' = kind /\ mIsMaxResolution' = mIsMaxResolution
  OBVIOUS
<1>3. CountedSecure' = CountedSecure \ {c} /\ (c \in CountedSecure <=> kind[c] = "secure")
  BY <1>1, <1>2 DEF CountedSecure
<1>4. CountedNonSecure' = CountedNonSecure \ {c} /\ (c \in CountedNonSecure <=> kind[c] # "secure")
  BY <1>1, <1>2 DEF CountedNonSecure
<1>5. CountedVc1' = CountedVc1 \ {c} /\ (c \in CountedVc1 <=> kind[c] = "vc1")
  BY <1>1, <1>2 DEF CountedVc1
<1>6. CountedMaxRes' = CountedMaxRes \ {c} /\ (c \in CountedMaxRes <=> mIsMaxResolution[c])
  BY <1>1, <1>2 DEF CountedMaxRes
<1>7. /\ CountedSecure \in SUBSET Component /\ CountedNonSecure \in SUBSET Component
      /\ CountedVc1 \in SUBSET Component /\ CountedMaxRes \in SUBSET Component
  BY DEF CountedSecure, CountedNonSecure, CountedVc1, CountedMaxRes
<1>8. /\ sConcurrentInstances \in Nat /\ sConcurrentInstanceSecures \in Nat
      /\ sConcurrentVc1Instance \in Nat /\ sConcurrentMaxResolutionInstance \in Nat
  BY DEF IInv, TypeOK
<1>9. sConcurrentInstanceSecures' \in Nat /\ sConcurrentInstanceSecures' = Cardinality(CountedSecure')
      /\ sConcurrentInstanceSecures' <= sConcurrentInstanceSecures
  <2>1. CASE kind[c] = "secure"
    BY <2>1, <1>3, <1>7, <1>8, CountOneLess DEF IInv, CountersExact
  <2>2. CASE kind[c] # "secure"
    <3>1. CountedSecure' = CountedSecure
      BY <2>2, <1>3
    <3> QED BY <2>2, <3>1, <1>8 DEF IInv, CountersExact
  <2> QED BY <2>1, <2>2
<1>10. sConcurrentInstances' \in Nat /\ sConcurrentInstances' = Cardinality(CountedNonSecure')
       /\ sConcurrentInstances' <= sConcurrentInstances
  <2>1. CASE kind[c] # "secure"
    BY <2>1, <1>4, <1>7, <1>8, CountOneLess DEF IInv, CountersExact
  <2>2. CASE kind[c] = "secure"
    BY <2>2, <1>4, <1>8 DEF IInv, CountersExact
  <2> QED BY <2>1, <2>2
<1>11. sConcurrentVc1Instance' \in Nat /\ sConcurrentVc1Instance' = Cardinality(CountedVc1')
       /\ sConcurrentVc1Instance' <= sConcurrentVc1Instance
  <2>1. CASE kind[c] = "vc1"
    BY <2>1, <1>5, <1>7, <1>8, CountOneLess DEF IInv, CountersExact
  <2>2. CASE kind[c] # "vc1"
    BY <2>2, <1>5, <1>8 DEF IInv, CountersExact
  <2> QED BY <2>1, <2>2
<1>12. /\ sConcurrentMaxResolutionInstance' \in Nat
       /\ sConcurrentMaxResolutionInstance' = Cardinality(CountedMaxRes')
  <2>1. CASE mIsMaxResolution[c]
    BY <2>1, <1>6, <1>7, <1>8, CountOneLess DEF IInv, CountersExact
  <2>2. CASE ~mIsMaxResolution[c]
    BY <2>2, <1>6, <1>8 DEF IInv, CountersExact
  <2> QED BY <2>1, <2>2
<1>13. TypeOK'
  BY <1>9, <1>10, <1>11, <1>12 DEF IInv, TypeOK, Life
<1>14. CountersExact'
  BY <1>9, <1>10, <1>11, <1>12 DEF CountersExact
<1>15. OneCreation' /\ FreshNotMax'
  BY DEF IInv, TypeOK, OneCreation, FreshNotMax
<1>16. CountersInLimits'
  BY <1>8, <1>9, <1>10, LimitAssumption DEF IInv, CountersInLimits, AllInstances
<1>17. OnlyVc1'
  BY <1>4, <1>5 DEF IInv, OnlyVc1, CountedVc1, CountedNonSecure
<1>18. RoomForOne'
  <2> SUFFICES ASSUME NEW d \in Component, life'[d] = "checked"
               PROVE  IF kind[d] = "secure" THEN AcceptSecure' ELSE AcceptNonSecure(kind[d])'
    BY <1>2 DEF RoomForOne
  <2>1. life[d] = "checked"
    BY DEF IInv, TypeOK
  <2>2. IF kind[d] = "secure" THEN AcceptSecure ELSE AcceptNonSecure(kind[d])
    BY <2>1 DEF IInv, RoomForOne
  <2>3. AllInstances' \in Nat /\ AllInstances \in Nat /\ AllInstances' <= AllInstances
    BY <1>8, <1>9, <1>10 DEF AllInstances
  <2>4. CASE kind[d] = "secure"
    <3> HIDE DEF OnDestroy
    <3> QED BY <2>2, <2>3, <2>4, <1>8, <1>9, LimitAssumption DEF AcceptSecure
  <2>5. CASE kind[d] # "secure"
    <3> HIDE DEF OnDestroy
    <3>1. /\ kMaxConcurrentInstances >= 0 => AllInstances' < kMaxConcurrentInstances
          /\ sConcurrentVc1Instance' = 0
          /\ kind[d] = "vc1" => AllInstances' = 0
      BY <2>2, <2>3, <2>5, <1>8, <1>11, LimitAssumption DEF AcceptNonSecure
    <3> QED BY <2>5, <3>1, <1>2 DEF AcceptNonSecure
  <2> QED BY <2>4, <2>5
<1> QED BY <1>13, <1>14, <1>15, <1>16, <1>17, <1>18 DEF IInv

\* An object deleted without onDestroy() stays counted.
LEMMA DeleteThreadlessStep ==
    ASSUME IInv, NEW c \in Component, DeleteThreadless(c)
    PROVE  IInv'
<1> USE DEF DeleteThreadless
<1>1. TypeOK'
  BY DEF IInv, TypeOK, Life, counters
<1>2. \A d \in Component : IsCounted(d)' = IsCounted(d) /\ (IsCounted(d) => kind'[d] = kind[d])
  BY DEF IInv, TypeOK, IsCounted, Exists
<1>3. CountersExact' /\ CountersInLimits' /\ OnlyVc1'
  BY <1>2, SameCounts
<1>4. OneCreation' /\ FreshNotMax'
  BY DEF IInv, TypeOK, OneCreation, FreshNotMax
<1>5. RoomForOne'
  BY DEF IInv, TypeOK, RoomForOne, AcceptSecure, AcceptNonSecure, AllInstances, counters
<1> QED BY <1>1, <1>3, <1>4, <1>5 DEF IInv

\* Every step keeps the invariant.
LEMMA NextIInv == IInv /\ [Next]_vars => IInv'
<1> SUFFICES ASSUME IInv, [Next]_vars PROVE IInv'
  OBVIOUS
<1>1. CASE UNCHANGED vars
  BY <1>1 DEF IInv, vars, counters, TypeOK, CountersExact, OneCreation, RoomForOne,
     CountersInLimits, OnlyVc1, FreshNotMax, AcceptSecure, AcceptNonSecure,
     AllInstances, CountedSecure, CountedNonSecure, CountedVc1, CountedMaxRes, IsCounted, Exists
<1>2. ASSUME NEW c \in Component, NEW k \in Kind, CreateCheck(c, k) PROVE IInv'
  BY <1>2, CreateCheckStep
<1>3. ASSUME NEW c \in Component, Construct(c, TRUE) PROVE IInv'
  BY <1>3, ConstructStep
<1>4. ASSUME NEW c \in Component, ThreadMayFail /\ Construct(c, FALSE) PROVE IInv'
  BY <1>4, ConstructStep
<1>5. ASSUME NEW c \in Component, ConfigMaxResolution(c) PROVE IInv'
  BY <1>5, ConfigMaxResolutionStep
<1>6. ASSUME NEW c \in Component, OnDestroy(c) PROVE IInv'
  BY <1>6, OnDestroyStep
<1>7. ASSUME NEW c \in Component, DeleteThreadless(c) PROVE IInv'
  BY <1>7, DeleteThreadlessStep
<1> QED BY <1>1, <1>2, <1>3, <1>4, <1>5, <1>6, <1>7 DEF Next

\* The invariant holds in every reachable state.
LEMMA Invariance == Spec => []IInv
  BY InitIInv, NextIInv, PTL DEF Spec
-----------------------------------------------------------------------------
\* The counters are numbers: onDestroy() never gives back what was not counted.
THEOREM TypeCorrect == Spec => []TypeOK
<1>1. IInv => TypeOK
  BY DEF IInv
<1> QED BY <1>1, Invariance, PTL

\* As long as no object without thread was deleted, each counter is the number of
\* the objects that exist, in every order of creations, configurations and
\* destructions.
THEOREM CountersCorrect == Spec => []CountersMatchObjects
<1>1. IInv => CountersMatchObjects
  <2> SUFFICES ASSUME IInv, NoneLeaked PROVE CountersMatchObjects
    BY DEF CountersMatchObjects
  <2>1. /\ CountedSecure = Secure /\ CountedNonSecure = NonSecure
        /\ CountedVc1 = Vc1 /\ CountedMaxRes = MaxRes
    BY DEF NoneLeaked, IsCounted, CountedSecure, CountedNonSecure, CountedVc1, CountedMaxRes,
       Secure, NonSecure, Vc1, MaxRes
  <2> QED BY <2>1 DEF IInv, CountersExact, CountersMatchObjects
<1> QED BY <1>1, Invariance, PTL

\* The limits hold for any number of components, whatever the constructors do.
THEOREM LimitsCorrect == Spec => []LimitsRespected
<1>1. IInv => LimitsRespected
  <2> SUFFICES ASSUME IInv PROVE LimitsRespected
    OBVIOUS
  <2>1. /\ Secure \in SUBSET CountedSecure /\ NonSecure \in SUBSET CountedNonSecure
        /\ CountedSecure \in SUBSET Component /\ CountedNonSecure \in SUBSET Component
    BY DEF IsCounted, Secure, NonSecure, CountedSecure, CountedNonSecure
  <2>2. sConcurrentInstances \in Nat /\ sConcurrentInstanceSecures \in Nat
    BY DEF IInv, TypeOK
  <2>3. /\ Cardinality(Secure) <= sConcurrentInstanceSecures
        /\ Cardinality(NonSecure) <= sConcurrentInstances
    BY <2>1, ObjectsFinite, FS_Subset DEF IInv, CountersExact
  <2>4. Cardinality(Secure) \in Nat /\ Cardinality(NonSecure) \in Nat
    BY <2>1, ObjectsFinite
  <2> QED
    BY <2>2, <2>3, <2>4, LimitAssumption DEF IInv, CountersInLimits, AllInstances, LimitsRespected
<1> QED BY <1>1, Invariance, PTL

\* A vc1 decoder is alone among the non-secure ones.
THEOREM Vc1Correct == Spec => []Vc1AloneAmongNonSecure
<1>1. IInv => Vc1AloneAmongNonSecure
  <2> SUFFICES ASSUME IInv, NEW c \in Vc1 PROVE Cardinality(NonSecure) = 1
    BY DEF Vc1AloneAmongNonSecure
  <2>1. c \in NonSecure /\ c \in CountedVc1
    BY DEF Vc1, NonSecure, CountedVc1, IsCounted
  <2>2. NonSecure \in SUBSET CountedNonSecure
    BY DEF NonSecure, CountedNonSecure, IsCounted
  <2>3. NonSecure = {c}
    BY <2>1, <2>2 DEF IInv, OnlyVc1
  <2> QED BY <2>3, FS_Singleton
<1> QED BY <1>1, Invariance, PTL
=============================================================================
