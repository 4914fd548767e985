----------------------- MODULE C2VencComponentProofs -----------------------
(***************************************************************************)
(* Proofs about C2VencComponent for any number of works and any number of  *)
(* calls, failures and timeouts: types, that the encoder is open while the *)
(* worker uses it, that no request of a sync frame is lost, that nothing   *)
(* is reported when the component is stopped, and that the codec config    *)
(* comes first.                                                            *)
(***************************************************************************)
EXTENDS C2VencComponent, TLAPS

\* What the client and the worker do to mQueue keeps it a sequence of entries.
LEMMA QueueSteps ==
    ASSUME NEW q \in Seq(Entry), q # <<>>
    PROVE  /\ Len(q) \in Nat \ {0}
           /\ Head(q) \in Entry
           /\ Head(q) = q[1]
           /\ Tail(q) \in Seq(Entry)
           /\ Len(Tail(q)) = Len(q) - 1
           /\ \A i \in 1..Len(Tail(q)) : Tail(q)[i] = q[i + 1]
           /\ <<0>> \o Tail(q) \in Seq(Entry)
           /\ Len(<<0>> \o Tail(q)) = Len(q)
           /\ (<<0>> \o Tail(q))[1] = 0
           /\ \A i \in 2..Len(q) : (<<0>> \o Tail(q))[i] = q[i]
<1>1. /\ Head(q) \in Entry
      /\ Head(q) = q[1]
      /\ Tail(q) \in Seq(Entry)
      /\ Len(Tail(q)) = Len(q) - 1
      /\ \A i \in 1..Len(Tail(q)) : Tail(q)[i] = q[i + 1]
      /\ Len(q) \in Nat \ {0}
  OBVIOUS
<1>2. <<0>> \in Seq(Entry) /\ Len(<<0>>) = 1 /\ <<0>>[1] = 0
  BY WorksAssumption DEF Entry
<1>3. QED
  BY <1>1, <1>2

\* Where the worker has no work.
LEMMA AtType ==
    ASSUME NEW pc \in Pc
    PROVE  At(pc) \in WorkerSet /\ At(pc).pc = pc /\ At(pc).work = 0
  BY WorksAssumption DEF At, WorkerSet, Entry

\* The worker goes on with its work.
LEMMA GoOnType ==
    ASSUME worker \in WorkerSet, NEW pc \in Pc
    PROVE  /\ [worker EXCEPT !.pc = pc] \in WorkerSet
           /\ [worker EXCEPT !.pc = pc].pc = pc
           /\ [worker EXCEPT !.pc = pc].work = worker.work
  BY DEF WorkerSet

\* A work that leaves leaves the worker without one.
LEMMA LeaveType ==
    ASSUME TypeOK, NEW place \in Loc, worker.pc \in Encoding, Leave(place)
    PROVE  /\ worker' \in WorkerSet /\ HasWork' /\ worker'.pc = "loop"
           /\ loc' \in [Works -> Loc]
           /\ loc' = [loc EXCEPT ![worker.work] = place]
           /\ worker.work \in Works
<1>1. worker' \in WorkerSet /\ worker'.pc = "loop"
  BY AtType DEF Leave, Pc
<1>2. worker.work \in Works
  BY DEF TypeOK, HasWork
<1>3. QED
  BY <1>1, <1>2 DEF TypeOK, Leave, HasWork, Encoding

\* A call or failure is counted.
LEMMA FailType ==
    ASSUME TypeOK, NEW c \in Call, Fail(c)
    PROVE  calls' \in [Call -> Nat]
  BY DEF TypeOK, Fail

\* The component with pool and block is one.
LEMMA WithBlockType ==
    ASSUME enc \in EncSet
    PROVE  WithBlock \in EncSet
  BY DEF WithBlock, EncSet

\* The component as created.
LEMMA TypeInit == Init => TypeOK
<1> SUFFICES ASSUME Init PROVE TypeOK
  OBVIOUS
<1>1. worker \in WorkerSet /\ HasWork
  BY AtType DEF Init, NoThread, HasWork, Pc, Encoding
<1>2. enc \in EncSet /\ sync \in SyncSet /\ thread \in ThreadSet
  BY DEF Init, EncSet, SyncSet, ThreadSet
<1>3. loc \in [Works -> Loc] /\ flushing \in Entry /\ mQueue \in Seq(Entry)
  BY WorksAssumption DEF Init, Loc, Entry
<1>4. calls \in [Call -> Nat]
  BY DEF Init
<1>5. QED
  BY <1>1, <1>2, <1>3, <1>4 DEF Init, TypeOK

\* Every step keeps the types.
LEMMA TypeStep == TypeOK /\ [Next]_vars => TypeOK'
<1> SUFFICES ASSUME TypeOK, [Next]_vars PROVE TypeOK'
  OBVIOUS
<1>1. ASSUME NEW w \in Works, queue_nb(w) PROVE TypeOK'
  <2>1. w \in Entry /\ loc' \in [Works -> Loc]
    BY <1>1, WorksAssumption DEF queue_nb, TypeOK, Works, Entry, Loc
  <2>2. QED
    BY <1>1, <2>1 DEF queue_nb, TypeOK, clientVars, HasWork
<1>2. ASSUME NEW created \in BOOLEAN, start(created) PROVE TypeOK'
  <2>1. worker' \in WorkerSet /\ worker'.pc \in {"loop", "none"}
    BY <1>2, AtType DEF start, Open, ThreadStart, NoThread, Pc
  <2>2. HasWork'
    BY <2>1 DEF HasWork, Encoding
  <2>3. calls' \in [Call -> Nat]
    BY <1>2 DEF start, Open, ThreadStart, TypeOK
  <2>4. enc' \in EncSet /\ thread' \in ThreadSet
    BY <1>2 DEF start, Open, ThreadStart, TypeOK, EncSet, ThreadSet
  <2>5. QED
    BY <1>2, <2>1, <2>2, <2>3, <2>4 DEF start, Open, ThreadStart, TypeOK, queueVars
<1>3. ASSUME NEW keepsBlock \in BOOLEAN, stop(keepsBlock) PROVE TypeOK'
  <2>1. calls' \in [Call -> Nat]
    BY <1>3, FailType DEF stop, Call
  <2>2. loc' \in [Works -> Loc]
    BY <1>3 DEF stop, TypeOK, Loc
  <2>3. enc' \in EncSet /\ thread' \in ThreadSet
    BY <1>3 DEF stop, RequestExit, Close, TypeOK, EncSet, ThreadSet
  <2>4. QED
    BY <1>3, <2>1, <2>2, <2>3 DEF stop, TypeOK, HasWork
<1>4. CASE FlushFront
  <2>1. calls' \in [Call -> Nat]
    BY <1>4, FailType DEF FlushFront, TypeOK, Call
  <2>2. loc' \in [Works -> Loc]
    BY <1>4 DEF FlushFront, TypeOK, Loc
  <2>3. QED
    BY <1>4, <2>1, <2>2, QueueSteps DEF FlushFront, TypeOK, HasWork
<1>5. CASE FlushPop
  <2>1. loc' \in [Works -> Loc]
    BY <1>5 DEF FlushPop, PopFront, TypeOK, Loc
  <2>2. mQueue' \in Seq(Entry) /\ flushing' \in Entry
    <3>1. mQueue' \in Seq(Entry)
      BY <1>5, QueueSteps DEF FlushPop, PopFront, TypeOK
    <3>2. flushing' \in Entry
      BY <1>5, WorksAssumption DEF FlushPop, Entry
    <3>3. QED
      BY <3>1, <3>2
  <2>3. QED
    BY <1>5, <2>1, <2>2 DEF FlushPop, PopFront, TypeOK, HasWork
<1>6. CASE FlushReturn \/ StopSignalled
  BY <1>6 DEF FlushReturn, StopSignalled, TypeOK, queueVars, HasWork
<1>7. CASE Request
  <2>1. calls' \in [Call -> Nat]
    BY <1>7, FailType DEF Request, Call
  <2>2. QED
    BY <1>7, <2>1 DEF Request, TypeOK, SyncSet, queueVars, clientVars, HasWork
<1>8. CASE StopTimeout
  <2>1. calls' \in [Call -> Nat]
    BY <1>8, FailType DEF StopTimeout, Call
  <2>2. QED
    BY <1>8, <2>1 DEF StopTimeout, TypeOK, queueVars, HasWork
<1>9. ASSUME NEW keepsBlock \in BOOLEAN, Join(keepsBlock) PROVE TypeOK'
  <2>1. worker' \in WorkerSet /\ worker'.pc = "none"
    BY <1>9, AtType DEF Join, NoThread, Pc
  <2>2. enc' \in EncSet /\ thread' \in ThreadSet
    BY <1>9 DEF Join, Close, TypeOK, EncSet, ThreadSet
  <2>3. QED
    BY <1>9, <2>1, <2>2 DEF Join, TypeOK, queueVars, HasWork, Encoding
<1>10. CASE LoopCheck \/ Signal
  <2>1. worker' \in WorkerSet /\ worker'.pc \in {"signal", "take", "exited"}
    BY <1>10, AtType DEF LoopCheck, Signal, Pc
  <2>2. QED
    BY <1>10, <2>1 DEF LoopCheck, Signal, TypeOK, queueVars, clientVars, HasWork, Encoding
<1>11. CASE Take
  <2>1. worker' \in WorkerSet /\ worker'.pc \in {"loop", "pop"}
    <3>1. CASE mQueue = <<>>
      BY <1>11, <3>1, AtType DEF Take, Pc
    <3>2. CASE mQueue # <<>>
      <4>1. At("pop") \in WorkerSet /\ At("pop").pc = "pop"
        BY AtType DEF Pc
      <4>2. Head(mQueue) \in Entry
        BY <3>2, QueueSteps DEF TypeOK
      <4>3. QED
        BY <1>11, <3>2, <4>1, <4>2 DEF Take, WorkerSet
    <3>3. QED
      BY <3>1, <3>2
  <2>2. loc' \in [Works -> Loc]
    BY <1>11 DEF Take, TypeOK, Loc, queueVars
  <2>3. QED
    BY <1>11, <2>1, <2>2, QueueSteps DEF Take, TypeOK, queueVars, clientVars, HasWork, Encoding
<1>12. CASE Pop
  <2>1. worker' \in WorkerSet /\ HasWork'
    <3>1. CASE worker.work = 0
      BY <1>12, <3>1, AtType DEF Pop, HasWork, Encoding, Pc
    <3>2. CASE worker.work # 0
      <4>1. worker.work \in Works
        BY <3>2, WorksAssumption DEF TypeOK, WorkerSet, Entry, Works
      <4>2. worker' \in WorkerSet /\ worker'.work = worker.work
        BY <1>12, <3>2, GoOnType DEF Pop, TypeOK, Pc
      <4>3. QED
        BY <4>1, <4>2 DEF HasWork
    <3>3. QED
      BY <3>1, <3>2
  <2>2. loc' \in [Works -> Loc]
    BY <1>12 DEF Pop, PopFront, TypeOK, Loc
  <2>3. mQueue' \in Seq(Entry)
    BY <1>12, QueueSteps DEF Pop, PopFront, TypeOK
  <2>4. QED
    BY <1>12, <2>1, <2>2, <2>3 DEF Pop, PopFront, TypeOK, clientVars
<1>13. CASE Configure
  <2>1. worker' \in WorkerSet /\ HasWork'
    BY <1>13, GoOnType DEF Configure, TypeOK, HasWork, Encoding, Pc
  <2>2. QED
    BY <1>13, <2>1 DEF Configure, TypeOK, SyncSet, queueVars, clientVars
<1>14. CASE EmptyInput
  BY <1>14, LeaveType DEF EmptyInput, TypeOK, clientVars, Loc, Encoding
<1>15. CASE PoolError
  <2>1. calls' \in [Call -> Nat]
    BY <1>15, FailType DEF PoolError, Call
  <2>2. QED
    BY <1>15, <2>1 DEF PoolError, TypeOK, queueVars, clientVars, HasWork
<1>16. ASSUME NEW place \in {"empty", "dropped"}, InputError(place) PROVE TypeOK'
  <2>1. calls' \in [Call -> Nat]
    BY <1>16, FailType DEF InputError, Call
  <2>2. QED
    BY <1>16, <2>1, LeaveType DEF InputError, TypeOK, clientVars, Loc, Encoding
<1>17. ASSUME NEW fetched \in BOOLEAN, OutputError(fetched) PROVE TypeOK'
  <2>1. calls' \in [Call -> Nat]
    BY <1>17, FailType DEF OutputError, Call
  <2>2. enc' \in EncSet
    BY <1>17, WithBlockType DEF OutputError, TypeOK, EncSet
  <2>3. QED
    BY <1>17, <2>1, <2>2, LeaveType DEF OutputError, TypeOK, clientVars, Loc, Encoding
<1>18. CASE HeaderError \/ CsdError
  <2>1. calls' \in [Call -> Nat]
    BY <1>18, FailType DEF HeaderError, CsdError, Call
  <2>2. enc' \in EncSet
    BY <1>18, WithBlockType DEF HeaderError, CsdError, TypeOK, EncSet
  <2>3. QED
    BY <1>18, <2>1, <2>2, LeaveType
       DEF HeaderError, CsdError, TypeOK, clientVars, Loc, Encoding
<1>19. CASE Prepare
  <2>1. enc' \in EncSet
    BY <1>19, WithBlockType DEF Prepare, TypeOK, EncSet
  <2>2. worker' \in WorkerSet /\ HasWork'
    BY <1>19 DEF Prepare, TypeOK, EncSet, WorkerSet, HasWork, Encoding, Pc
  <2>3. QED
    BY <1>19, <2>1, <2>2 DEF Prepare, TypeOK, queueVars, clientVars
<1>20. CASE ReadRequest \/ ClearRequest
  <2>1. worker' \in WorkerSet /\ HasWork'
    BY <1>20 DEF ReadRequest, ClearRequest, TypeOK, WorkerSet, HasWork, Encoding, Pc
  <2>2. sync' \in SyncSet
    BY <1>20 DEF ReadRequest, ClearRequest, TypeOK, SyncSet
  <2>3. QED
    BY <1>20, <2>1, <2>2 DEF ReadRequest, ClearRequest, TypeOK, queueVars, clientVars
<1>21. CASE Encode
  <2>1. enc' \in EncSet /\ sync' \in SyncSet /\ csdSent' \in BOOLEAN
    BY <1>21 DEF Encode, finishWork, TypeOK, EncSet, SyncSet, WorkerSet
  <2>2. QED
    BY <1>21, <2>1, LeaveType DEF Encode, finishWork, TypeOK, clientVars, Loc, Encoding
<1>22. CASE EncodeError
  <2>1. calls' \in [Call -> Nat]
    BY <1>22, FailType DEF EncodeError, Call
  <2>2. QED
    BY <1>22, <2>1, LeaveType DEF EncodeError, TypeOK, clientVars, Loc, Encoding
<1>23. CASE UNCHANGED vars
  BY <1>23 DEF vars, queueVars, clientVars, TypeOK, HasWork
<1>24. QED
  BY <1>1, <1>2, <1>3, <1>4, <1>5, <1>6, <1>7, <1>8, <1>9, <1>10, <1>11, <1>12, <1>13, <1>14,
     <1>15, <1>16, <1>17, <1>18, <1>19, <1>20, <1>21, <1>22, <1>23
     DEF Next, Client, Worker, InsideCall

\* The variables keep their types, for any works and bounds.
THEOREM TypeCorrect == Spec => []TypeOK
<1>1. Init => TypeOK
  BY TypeInit
<1>2. TypeOK /\ [Next]_vars => TypeOK'
  BY TypeStep
<1>3. QED
  BY <1>1, <1>2, PTL DEF Spec
-----------------------------------------------------------------------------
(* The encoder is open while there is a worker.                             *)

\* There is a worker only between start() and the join in stop().
WorkerAlive ==
    worker.pc # "none" =>
        thread.mRunning /\ enc.mCodecHandle /\ mComponentState # "UNINITIALIZED"

\* start() makes the worker after it opened the encoder; stop() joins it before it
\* closes the encoder; no other step changes either.
LEMMA AliveStep == TypeOK /\ WorkerAlive /\ [Next]_vars => WorkerAlive'
<1> SUFFICES ASSUME TypeOK, WorkerAlive, [Next]_vars PROVE WorkerAlive'
  OBVIOUS
<1> USE DEF WorkerAlive
<1>1. CASE Client
  <2>1. ASSUME NEW w \in Works, queue_nb(w) PROVE WorkerAlive'
    BY <2>1 DEF queue_nb, clientVars
  <2>2. ASSUME NEW created \in BOOLEAN, start(created) PROVE WorkerAlive'
    BY <2>2 DEF start, Open, ThreadStart, At, NoThread, TypeOK, EncSet
  <2>3. ASSUME NEW keepsBlock \in BOOLEAN, stop(keepsBlock) PROVE WorkerAlive'
    BY <2>3 DEF stop, RequestExit, TypeOK, ThreadSet
  <2>4. CASE FlushFront \/ FlushPop \/ FlushReturn \/ Request \/ StopTimeout \/ StopSignalled
    BY <2>4 DEF FlushFront, FlushPop, FlushReturn, Request, StopTimeout, StopSignalled, clientVars
  <2>5. ASSUME NEW keepsBlock \in BOOLEAN, Join(keepsBlock) PROVE WorkerAlive'
    BY <2>5 DEF Join, At, NoThread
  <2>6. QED
    BY <1>1, <2>1, <2>2, <2>3, <2>4, <2>5 DEF Client, InsideCall
<1>2. CASE Worker
  <2>1. worker.pc # "none"
    BY <1>2 DEF Worker, LoopCheck, Signal, Take, Pop, Configure, EmptyInput, PoolError,
                HeaderError, CsdError, Prepare, InputError, OutputError, ReadRequest,
                ClearRequest, Encode, finishWork, EncodeError
  <2>2. mComponentState' = mComponentState /\ thread' = thread
    BY <1>2 DEF Worker, LoopCheck, Signal, Take, Pop, Configure, EmptyInput, PoolError,
                HeaderError, CsdError, Prepare, InputError, OutputError, ReadRequest,
                ClearRequest, Encode, finishWork, EncodeError, clientVars
  <2>3. CASE LoopCheck \/ Signal \/ Take \/ Pop \/ Configure \/ EmptyInput \/ PoolError
             \/ ReadRequest \/ ClearRequest \/ EncodeError
    BY <2>1, <2>2, <2>3 DEF LoopCheck, Signal, Take, Pop, Configure, EmptyInput, PoolError,
                            ReadRequest, ClearRequest, EncodeError
  <2>4. CASE HeaderError \/ CsdError \/ Prepare \/ Encode
    BY <2>1, <2>2, <2>4 DEF HeaderError, CsdError, Prepare, Encode, finishWork, WithBlock,
        TypeOK, EncSet
  <2>5. ASSUME NEW place \in {"empty", "dropped"}, InputError(place) PROVE WorkerAlive'
    BY <2>1, <2>2, <2>5 DEF InputError
  <2>6. ASSUME NEW fetched \in BOOLEAN, OutputError(fetched) PROVE WorkerAlive'
    BY <2>1, <2>2, <2>6 DEF OutputError, WithBlock, TypeOK, EncSet
  <2>7. QED
    BY <1>2, <2>3, <2>4, <2>5, <2>6 DEF Worker
<1>3. CASE UNCHANGED vars
  BY <1>3 DEF vars, clientVars
<1>4. QED
  BY <1>1, <1>2, <1>3 DEF Next

\* The worker never uses an encoder that stop() has closed, whenever stop() comes and
\* whether or not its wait times out.
THEOREM EncoderCorrect == Spec => []EncoderOpenWhileUsed
<1>1. Init => TypeOK /\ WorkerAlive
  BY TypeInit DEF Init, NoThread, At, WorkerAlive
<1>2. TypeOK /\ WorkerAlive /\ [Next]_vars => (TypeOK /\ WorkerAlive)'
  BY TypeStep, AliveStep
<1>3. TypeOK /\ WorkerAlive => EncoderOpenWhileUsed
  BY DEF WorkerAlive, EncoderOpenWhileUsed, Encoding
<1>4. QED
  BY <1>1, <1>2, <1>3, PTL DEF Spec
-----------------------------------------------------------------------------
(* No request of a sync frame is lost.                                      *)

\* Every step keeps a request, or is the frame that honours it.
LEMMA SyncStep ==
    TypeOK /\ WorkerAlive /\ SyncRequestHonoured /\ [Next]_vars => SyncRequestHonoured'
<1> SUFFICES ASSUME TypeOK, WorkerAlive, SyncRequestHonoured, [Next]_vars,
                    sync.wanted', calls'["encodeError"] = 0
             PROVE  SyncRequestHonoured'
  BY DEF SyncRequestHonoured
<1> USE DEF SyncRequestHonoured
<1>1. CASE Client
  <2>1. ASSUME NEW w \in Works, queue_nb(w) PROVE SyncRequestHonoured'
    BY <2>1 DEF queue_nb, clientVars
  <2>2. ASSUME NEW created \in BOOLEAN, start(created) PROVE SyncRequestHonoured'
    <3>1. calls'["encodeError"] = calls["encodeError"]
      BY <2>2 DEF start, Open, ThreadStart, Call, TypeOK
    <3>2. worker.pc = "none"
      BY <2>2 DEF start, Open, ThreadStart, WorkerAlive
    <3>3. QED
      BY <2>2, <3>1, <3>2 DEF start, Open, ThreadStart
  <2>3. CASE Request
    BY <2>3 DEF Request
  <2>4. CASE \/ FlushFront \/ FlushPop \/ FlushReturn \/ StopTimeout \/ StopSignalled
             \/ \E keepsBlock \in BOOLEAN : stop(keepsBlock)
    <3>1. calls'["encodeError"] = calls["encodeError"]
      BY <2>4 DEF FlushFront, FlushPop, FlushReturn, StopTimeout, StopSignalled, stop, Fail,
                  Call, TypeOK
    <3>2. UNCHANGED <<worker, sync>>
      BY <2>4 DEF FlushFront, FlushPop, FlushReturn, StopTimeout, StopSignalled, stop
    <3>3. QED
      BY <3>1, <3>2
  <2>5. ASSUME NEW keepsBlock \in BOOLEAN, Join(keepsBlock) PROVE SyncRequestHonoured'
    BY <2>5 DEF Join
  <2>6. QED
    BY <1>1, <2>1, <2>2, <2>3, <2>4, <2>5 DEF Client, InsideCall
<1>2. CASE Worker
  <2>1. CASE \/ LoopCheck \/ Signal \/ Take \/ Pop \/ EmptyInput \/ PoolError
             \/ HeaderError \/ CsdError \/ Prepare
             \/ \E place \in {"empty", "dropped"} : InputError(place)
             \/ \E fetched \in BOOLEAN : OutputError(fetched)
    <3>1. calls'["encodeError"] = calls["encodeError"] /\ sync' = sync
      BY <2>1 DEF LoopCheck, Signal, Take, Pop, EmptyInput, PoolError, HeaderError, CsdError,
                  Prepare, InputError, OutputError, Fail, Call, TypeOK
    <3>2. worker.pc \notin {"clear", "encode"}
      BY <2>1 DEF LoopCheck, Signal, Take, Pop, EmptyInput, PoolError, HeaderError, CsdError,
                  Prepare, InputError, OutputError
    <3>3. QED
      BY <3>1, <3>2
  <2>2. CASE Configure
    BY <2>2 DEF Configure
  <2>3. CASE ReadRequest
    BY <2>3 DEF ReadRequest, TypeOK, SyncSet, WorkerSet
  <2>4. CASE ClearRequest
    BY <2>4 DEF ClearRequest, TypeOK, WorkerSet
  <2>5. CASE Encode
    BY <2>5 DEF Encode, finishWork, TypeOK, SyncSet
  <2>6. CASE EncodeError
    BY <2>6 DEF EncodeError, Fail, Call, TypeOK
  <2>7. QED
    BY <1>2, <2>1, <2>2, <2>3, <2>4, <2>5, <2>6 DEF Worker
<1>3. CASE UNCHANGED vars
  BY <1>3 DEF vars
<1>4. QED
  BY <1>1, <1>2, <1>3 DEF Next

\* A sync frame that is asked for is encoded, or still to be, as long as no frame fails.
THEOREM SyncCorrect == Spec => []SyncRequestHonoured
<1>1. Init => TypeOK /\ WorkerAlive /\ SyncRequestHonoured
  BY TypeInit DEF Init, NoThread, At, WorkerAlive, SyncRequestHonoured
<1>2. TypeOK /\ WorkerAlive /\ SyncRequestHonoured /\ [Next]_vars
      => (TypeOK /\ WorkerAlive /\ SyncRequestHonoured)'
  BY TypeStep, AliveStep, SyncStep
<1>3. QED
  BY <1>1, <1>2, PTL DEF Spec
-----------------------------------------------------------------------------
(* Nothing is reported when the component is stopped.                       *)

\* A work has one entry in mQueue and is there, or is in the hands that moved it out.
OneEntryEach ==
    \A i \in 1..Len(mQueue) : mQueue[i] # 0 =>
        /\ loc[mQueue[i]] = "queue"
        /\ \A j \in 1..Len(mQueue) : mQueue[j] = mQueue[i] => i = j
InHands ==
    /\ flushing # 0 => loc[flushing] = "flushing"
    /\ worker.work # 0 => loc[worker.work] = "worker"
QueueRight == OneEntryEach /\ InHands

\* Whether the first work of q is a work.
LEMMA HeadIsWork ==
    ASSUME TypeOK, mQueue # <<>>
    PROVE  /\ Head(mQueue) = 0 \/ Head(mQueue) \in Works
           /\ QueueRight /\ Head(mQueue) # 0 => loc[Head(mQueue)] = "queue"
  BY QueueSteps, WorksAssumption DEF TypeOK, Entry, Works, QueueRight, OneEntryEach

\* Moving the first work out of its entry.
MovesOut == mQueue' = <<0>> \o Tail(mQueue)
LEMMA MoveOut ==
    ASSUME TypeOK, QueueRight, mQueue # <<>>, NEW place \in Loc, MovesOut,
           loc' = [w \in Works |-> IF w = Head(mQueue) THEN place ELSE loc[w]]
    PROVE  OneEntryEach'
<1> SUFFICES ASSUME NEW i \in 1..Len(mQueue'), mQueue'[i] # 0
             PROVE  /\ loc'[mQueue'[i]] = "queue"
                    /\ \A j \in 1..Len(mQueue') : mQueue'[j] = mQueue'[i] => i = j
  BY DEF OneEntryEach
<1>1. /\ Len(mQueue') = Len(mQueue) /\ mQueue'[1] = 0 /\ mQueue[1] = Head(mQueue)
      /\ \A j \in 2..Len(mQueue) : mQueue'[j] = mQueue[j]
      /\ Len(mQueue) \in Nat \ {0}
  BY QueueSteps DEF TypeOK, MovesOut
<1>2. i \in 2..Len(mQueue) /\ mQueue'[i] = mQueue[i]
  BY <1>1
<1>3. mQueue[i] \in Works
  BY <1>2, WorksAssumption DEF TypeOK, Entry, Works
<1>4. mQueue[i] # Head(mQueue) /\ loc[mQueue[i]] = "queue"
  BY <1>1, <1>2 DEF QueueRight, OneEntryEach
<1>5. \A j \in 1..Len(mQueue') : mQueue'[j] = mQueue'[i] => i = j
  BY <1>1, <1>2 DEF QueueRight, OneEntryEach
<1>6. QED
  BY <1>2, <1>3, <1>4, <1>5

\* Removing the first entry.
LEMMA PopOut ==
    ASSUME TypeOK, QueueRight, NEW done \in Entry, NEW place \in Loc, PopFront(done, place),
           done # 0 => loc[done] # "queue"
    PROVE  OneEntryEach'
<1> SUFFICES ASSUME NEW i \in 1..Len(mQueue'), mQueue'[i] # 0
             PROVE  /\ loc'[mQueue'[i]] = "queue"
                    /\ \A j \in 1..Len(mQueue') : mQueue'[j] = mQueue'[i] => i = j
  BY DEF OneEntryEach
<1>1. mQueue # <<>> /\ mQueue' = Tail(mQueue)
  BY DEF PopFront
<1>2. /\ Len(mQueue') = Len(mQueue) - 1 /\ mQueue[1] = Head(mQueue)
      /\ \A j \in 1..Len(mQueue') : mQueue'[j] = mQueue[j + 1]
      /\ Len(mQueue) \in Nat \ {0}
  BY <1>1, QueueSteps DEF TypeOK
<1>3. i + 1 \in 2..Len(mQueue) /\ mQueue'[i] = mQueue[i + 1]
  BY <1>2
<1>4. mQueue[i + 1] \in Works
  BY <1>3, WorksAssumption DEF TypeOK, Entry, Works
<1>5. mQueue[i + 1] # Head(mQueue) /\ loc[mQueue[i + 1]] = "queue"
  BY <1>2, <1>3 DEF QueueRight, OneEntryEach
<1>6. \A j \in 1..Len(mQueue') : mQueue'[j] = mQueue'[i] => i = j
  <2> SUFFICES ASSUME NEW j \in 1..Len(mQueue'), mQueue'[j] = mQueue'[i] PROVE i = j
    OBVIOUS
  <2>1. j + 1 \in 1..Len(mQueue) /\ mQueue[j + 1] = mQueue[i + 1]
    BY <1>2, <1>3
  <2>2. j + 1 = i + 1
    BY <1>3, <2>1 DEF QueueRight, OneEntryEach
  <2>3. QED
    BY <2>2
<1>7. mQueue[i + 1] # done
  BY <1>5, <1>4, WorksAssumption DEF Works
<1>8. QED
  BY <1>1, <1>3, <1>4, <1>5, <1>6, <1>7 DEF PopFront

\* Every step of the client and of the worker keeps one entry for each work.
LEMMA QueueStep == TypeOK /\ QueueRight /\ [Next]_vars => QueueRight'
<1> SUFFICES ASSUME TypeOK, QueueRight, [Next]_vars PROVE QueueRight'
  OBVIOUS
<1>1. ASSUME NEW w \in Works, queue_nb(w) PROVE QueueRight'
  <2>1. /\ Len(mQueue') = Len(mQueue) + 1 /\ mQueue'[Len(mQueue')] = w
        /\ \A i \in 1..Len(mQueue) : mQueue'[i] = mQueue[i]
        /\ Len(mQueue) \in Nat
    BY <1>1 DEF queue_nb, TypeOK
  <2>2. loc[w] = "client" /\ loc' = [loc EXCEPT ![w] = "queue"]
        /\ UNCHANGED <<flushing, worker>>
    BY <1>1 DEF queue_nb, clientVars
  <2>3. w # 0 /\ \A i \in 1..Len(mQueue) : mQueue[i] # 0 => mQueue[i] \in Works /\ mQueue[i] # w
    BY <2>2, WorksAssumption DEF TypeOK, Entry, Works, QueueRight, OneEntryEach
  <2>4. InHands'
    BY <2>2, WorksAssumption
       DEF QueueRight, InHands, TypeOK, Works, Entry, WorkerSet
  <2>5. OneEntryEach'
    <3> SUFFICES ASSUME NEW i \in 1..Len(mQueue'), mQueue'[i] # 0
                 PROVE  /\ loc'[mQueue'[i]] = "queue"
                        /\ \A j \in 1..Len(mQueue') : mQueue'[j] = mQueue'[i] => i = j
      BY DEF OneEntryEach
    <3>1. CASE i = Len(mQueue')
      BY <2>1, <2>2, <2>3, <3>1 DEF TypeOK
    <3>2. CASE i # Len(mQueue')
      <4>1. i \in 1..Len(mQueue) /\ mQueue'[i] = mQueue[i]
        BY <2>1, <3>2
      <4>2. QED
        <5>1. /\ mQueue[i] \in Works /\ loc[mQueue[i]] = "queue" /\ mQueue[i] # w
              /\ \A j \in 1..Len(mQueue) : mQueue[j] = mQueue[i] => i = j
          BY <2>3, <4>1 DEF QueueRight, OneEntryEach
        <5>2. loc'[mQueue[i]] = "queue"
          BY <2>2, <5>1 DEF TypeOK
        <5>3. ASSUME NEW j \in 1..Len(mQueue'), mQueue'[j] = mQueue'[i] PROVE i = j
          BY <2>1, <4>1, <5>1, <5>3
        <5>4. QED
          BY <4>1, <5>2, <5>3
    <3>3. QED
      BY <3>1, <3>2
  <2>6. QED
    BY <2>4, <2>5 DEF QueueRight
<1>2. ASSUME NEW created \in BOOLEAN, start(created) PROVE QueueRight'
  BY <1>2 DEF start, Open, ThreadStart, queueVars, At, NoThread, QueueRight, OneEntryEach, InHands
<1>3. ASSUME NEW keepsBlock \in BOOLEAN, stop(keepsBlock) PROVE QueueRight'
  <2>1. OneEntryEach'
    BY <1>3 DEF stop, OneEntryEach
  <2>2. InHands'
    BY <1>3, WorksAssumption DEF stop, QueueRight, InHands, TypeOK, Entry, Works, WorkerSet
  <2>3. QED
    BY <2>1, <2>2 DEF QueueRight
<1>4. CASE FlushFront
  <2>1. OneEntryEach'
    BY <1>4, MoveOut DEF FlushFront, MovesOut, Loc
  <2>2. InHands'
    BY <1>4, HeadIsWork, WorksAssumption
       DEF FlushFront, QueueRight, InHands, TypeOK, Entry, Works, WorkerSet
  <2>3. QED
    BY <2>1, <2>2 DEF QueueRight
<1>5. CASE FlushPop
  <2>1. OneEntryEach'
    BY <1>5, PopOut DEF FlushPop, TypeOK, Loc, QueueRight, InHands
  <2>2. InHands'
    <3>1. worker.work # 0 => worker.work \in Works /\ worker.work # flushing
                             /\ loc[worker.work] = "worker"
      BY WorksAssumption DEF QueueRight, InHands, TypeOK, Entry, Works, WorkerSet
    <3>2. QED
      BY <1>5, <3>1, HeadIsWork DEF FlushPop, PopFront, InHands
  <2>3. QED
    BY <2>1, <2>2 DEF QueueRight
<1>6. CASE FlushReturn \/ StopSignalled \/ StopTimeout \/ Request
  BY <1>6 DEF FlushReturn, StopSignalled, StopTimeout, Request, queueVars, clientVars,
              QueueRight, OneEntryEach, InHands
<1>7. ASSUME NEW keepsBlock \in BOOLEAN, Join(keepsBlock) PROVE QueueRight'
  BY <1>7 DEF Join, At, NoThread, queueVars, QueueRight, OneEntryEach, InHands
<1>8. CASE LoopCheck \/ Signal
  BY <1>8 DEF LoopCheck, Signal, At, queueVars, clientVars, QueueRight, OneEntryEach, InHands
<1>9. CASE Take
  <2>1. CASE mQueue = <<>>
    BY <1>9, <2>1 DEF Take, At, queueVars, clientVars, QueueRight, OneEntryEach, InHands
  <2>2. CASE mQueue # <<>>
    <3>1. OneEntryEach'
      BY <1>9, <2>2, MoveOut DEF Take, MovesOut, Loc
    <3>2. worker'.work = Head(mQueue) /\ flushing' = flushing
          /\ loc' = [w \in Works |-> IF w = Head(mQueue) THEN "worker" ELSE loc[w]]
      BY <1>9, <2>2 DEF Take, At, clientVars
    <3>3. InHands'
      BY <2>2, <3>2, HeadIsWork, WorksAssumption
         DEF QueueRight, InHands, TypeOK, Entry, Works
    <3>4. QED
      BY <3>1, <3>3 DEF QueueRight
  <2>3. QED
    BY <2>1, <2>2
<1>10. CASE Pop
  <2>1. OneEntryEach'
    BY <1>10, PopOut, WorksAssumption DEF Pop, Entry, Loc
  <2>2. worker'.work = worker.work /\ flushing' = flushing
    BY <1>10 DEF Pop, At, clientVars, TypeOK, WorkerSet
  <2>3. InHands'
    <3>1. /\ worker.work # 0 => worker.work \in Works /\ loc[worker.work] = "worker"
          /\ flushing # 0 => flushing \in Works /\ loc[flushing] = "flushing"
      BY WorksAssumption DEF QueueRight, InHands, TypeOK, Entry, Works, WorkerSet
    <3>2. \A w \in Works : loc[w] # "queue" => loc'[w] = loc[w]
      BY <1>10, HeadIsWork, WorksAssumption DEF Pop, PopFront, Works
    <3>3. QED
      BY <2>2, <3>1, <3>2 DEF InHands
  <2>4. QED
    BY <2>1, <2>3 DEF QueueRight
<1>11. CASE Configure \/ PoolError \/ Prepare \/ ReadRequest \/ ClearRequest
  <2>1. worker'.work = worker.work
    BY <1>11 DEF Configure, PoolError, Prepare, ReadRequest, ClearRequest, TypeOK, WorkerSet
  <2>2. UNCHANGED <<loc, mQueue, flushing>>
    BY <1>11 DEF Configure, PoolError, Prepare, ReadRequest, ClearRequest, queueVars, clientVars
  <2>3. QED
    BY <2>1, <2>2 DEF QueueRight, OneEntryEach, InHands
<1>12. CASE \/ EmptyInput \/ HeaderError \/ CsdError \/ Encode \/ EncodeError
            \/ \E place \in {"empty", "dropped"} : InputError(place)
            \/ \E fetched \in BOOLEAN : OutputError(fetched)
  <2>1. /\ \E place \in {"empty", "dropped", "done"} : Leave(place)
        /\ UNCHANGED <<mQueue, flushing>>
        /\ worker.pc \in Encoding
    BY <1>12 DEF EmptyInput, HeaderError, CsdError, Encode, finishWork, EncodeError, InputError,
        OutputError,
                 clientVars, Encoding
  <2>2. worker.work \in Works /\ worker.work # 0 /\ loc[worker.work] = "worker"
        /\ \A w \in Works : w # worker.work => loc'[w] = loc[w]
    BY <2>1, WorksAssumption DEF Leave, TypeOK, HasWork, QueueRight, InHands, Works
  <2>3. OneEntryEach'
    BY <2>1, <2>2, WorksAssumption DEF QueueRight, OneEntryEach, TypeOK, Entry, Works
  <2>4. InHands'
    BY <2>1, <2>2, WorksAssumption DEF QueueRight, InHands, TypeOK, Entry, Works, Leave, At
  <2>5. QED
    BY <2>3, <2>4 DEF QueueRight
<1>13. CASE UNCHANGED vars
  BY <1>13 DEF vars, queueVars, clientVars, QueueRight, OneEntryEach, InHands
<1>14. QED
  BY <1>1, <1>2, <1>3, <1>4, <1>5, <1>6, <1>7, <1>8, <1>9, <1>10, <1>11, <1>12, <1>13
     DEF Next, Client, Worker, InsideCall

\* Without a worker a step leaves the reported works alone.
LEMMA NoReport ==
    ASSUME TypeOK, WorkerAlive, QueueRight, Next, mComponentState = "UNINITIALIZED"
    PROVE  Reported' = Reported
<1> SUFFICES ASSUME NEW w \in Works
             PROVE  loc'[w] \in {"done", "empty"} <=> loc[w] \in {"done", "empty"}
  BY DEF Reported, In
<1>1. worker.pc = "none"
  BY DEF WorkerAlive
<1>2. CASE Client
  <2>1. ASSUME NEW v \in Works, queue_nb(v)
        PROVE  loc'[w] \in {"done", "empty"} <=> loc[w] \in {"done", "empty"}
    BY <2>1 DEF queue_nb, TypeOK
  <2>2. CASE FlushFront
    BY <2>2, HeadIsWork, WorksAssumption DEF FlushFront, Works
  <2>3. CASE FlushPop
    <3>1. flushing # 0 => loc[flushing] = "flushing"
      BY DEF QueueRight, InHands
    <3>2. w # 0
      BY WorksAssumption DEF Works
    <3>3. QED
      BY <2>3, <3>1, <3>2, HeadIsWork DEF FlushPop, PopFront
  <2>4. CASE \/ FlushReturn \/ StopSignalled \/ StopTimeout \/ Request
             \/ \E created \in BOOLEAN : start(created)
             \/ \E keepsBlock \in BOOLEAN : stop(keepsBlock)
             \/ \E keepsBlock \in BOOLEAN : Join(keepsBlock)
    BY <2>4 DEF FlushReturn, StopSignalled, StopTimeout, Request, start, Open, ThreadStart, stop,
        Join, queueVars
  <2>5. QED
    BY <1>2, <2>1, <2>2, <2>3, <2>4 DEF Client, InsideCall
<1>3. CASE Worker
  BY <1>1, <1>3 DEF Worker, LoopCheck, Signal, Take, Pop, Configure, EmptyInput, PoolError,
                    HeaderError, CsdError, Prepare, InputError, OutputError, ReadRequest,
                    ClearRequest, Encode, finishWork, EncodeError
<1>4. QED
  BY <1>2, <1>3 DEF Next

\* The listener hears of no work between the return of stop() and the next start().
THEOREM ReportCorrect == Spec => NothingReportedWhenStopped
<1> DEFINE Inv == TypeOK /\ WorkerAlive /\ QueueRight
<1>1. Init => Inv
  BY TypeInit DEF Init, NoThread, At, WorkerAlive, QueueRight, OneEntryEach, InHands
<1>2. Inv /\ [Next]_vars => Inv'
  BY TypeStep, AliveStep, QueueStep
<1>3. Inv /\ [Next]_vars
      => [mComponentState = "UNINITIALIZED" => Reported' = Reported]_vars
  BY NoReport
<1>4. QED
  BY <1>1, <1>2, <1>3, PTL DEF Spec, NothingReportedWhenStopped
-----------------------------------------------------------------------------
(* The codec config comes with the first frame.                             *)

CsdLost  == calls["encodeError"] > 0 \/ calls["csdError"] > 0
Framing  == {"read", "clear", "encode"}
\* A work that is encoded comes after the header or has it.
HeaderFirst == worker.pc \in Framing => enc.mSpsPpsHeaderReceived
\* The header that was made is with the client or with the worker.
CsdKept == enc.mSpsPpsHeaderReceived => csdSent \/ (worker.pc \in Framing /\ worker.csd) \/ CsdLost
CsdInv  == HeaderFirst /\ CsdKept /\ CsdComesFirst

\* Most steps neither touch the header nor the reported frames.
LEMMA CsdKeep ==
    ASSUME TypeOK, CsdInv,
           enc'.mSpsPpsHeaderReceived = enc.mSpsPpsHeaderReceived,
           csdSent' = csdSent, CsdLost => CsdLost',
           In("done")' \subseteq In("done"),
           \/ worker.pc \notin Framing /\ worker'.pc \notin Framing
           \/ worker.pc \in Framing /\ worker'.pc \in Framing /\ worker'.csd = worker.csd
    PROVE  CsdInv'
<1>1. HeaderFirst' /\ CsdKept'
  BY DEF CsdInv, HeaderFirst, CsdKept
<1>2. CsdComesFirst'
  BY DEF CsdInv, CsdComesFirst, CsdLost
<1>3. QED
  BY <1>1, <1>2 DEF CsdInv

\* No call or failure is taken back.
LEMMA LostForEver ==
    ASSUME TypeOK, Next
    PROVE  CsdLost => CsdLost'
<1>1. ASSUME NEW c \in Call, NEW d \in Call, Fail(c), calls[d] > 0
      PROVE  calls'[d] > 0
  BY <1>1 DEF Fail, TypeOK
<1>2. ASSUME NEW created \in BOOLEAN, start(created) PROVE UNCHANGED CsdLost
  BY <1>2 DEF start, Open, ThreadStart, Call, TypeOK, CsdLost
<1>3. CASE \E c \in Call : Fail(c)
  <2>1. {"encodeError", "csdError"} \subseteq Call
    BY DEF Call
  <2>2. QED
    BY <1>1, <1>3, <2>1 DEF CsdLost
<1>4. CASE UNCHANGED calls
  BY <1>4 DEF CsdLost
<1>5. Next => \/ UNCHANGED calls
              \/ \E c \in Call : Fail(c)
              \/ \E created \in BOOLEAN : start(created)
  BY DEF Next, Client, Worker, InsideCall, queue_nb, stop, FlushFront, FlushPop, FlushReturn,
         Request, StopTimeout, StopSignalled, Join, LoopCheck, Signal, Take, Pop, Configure,
         EmptyInput, PoolError, HeaderError, CsdError, Prepare, InputError, OutputError,
         ReadRequest, ClearRequest, Encode, finishWork, EncodeError, Call
<1>6. QED
  BY <1>2, <1>3, <1>4, <1>5

\* Every step keeps the header with the client or the worker.
LEMMA CsdStep == TypeOK /\ WorkerAlive /\ CsdInv /\ [Next]_vars => CsdInv'
<1> SUFFICES ASSUME TypeOK, WorkerAlive, CsdInv, Next PROVE CsdInv'
  BY DEF vars, CsdInv, HeaderFirst, CsdKept, CsdComesFirst, CsdLost, In, queueVars
<1>1. CASE Client
  <2>1. In("done")' \subseteq In("done")
    BY <1>1 DEF Client, InsideCall, queue_nb, start, Open, ThreadStart, stop, FlushFront,
        FlushPop, PopFront,
                FlushReturn, Request, StopTimeout, StopSignalled, Join, In, TypeOK, queueVars
  <2>2. enc'.mSpsPpsHeaderReceived = enc.mSpsPpsHeaderReceived
    BY <1>1 DEF Client, InsideCall, queue_nb, start, Open, ThreadStart, stop, Close, FlushFront,
        FlushPop,
                FlushReturn, Request, StopTimeout, StopSignalled, Join, TypeOK, EncSet
  <2>3. csdSent' = csdSent
    BY <1>1 DEF Client, InsideCall, queue_nb, start, Open, ThreadStart, stop, FlushFront, FlushPop,
                FlushReturn, Request, StopTimeout, StopSignalled, Join
  <2>4. \/ UNCHANGED worker
        \/ worker.pc \notin Framing /\ worker'.pc \notin Framing
    <3>1. CASE \E created \in BOOLEAN : start(created)
      BY <3>1 DEF start, Open, ThreadStart, WorkerAlive, At, NoThread, Framing
    <3>2. CASE \E keepsBlock \in BOOLEAN : Join(keepsBlock)
      BY <3>2 DEF Join, At, NoThread, Framing
    <3>3. CASE \/ \E w \in Works : queue_nb(w)
               \/ \E keepsBlock \in BOOLEAN : stop(keepsBlock)
               \/ FlushFront \/ FlushPop \/ FlushReturn \/ Request
               \/ StopTimeout \/ StopSignalled
      BY <3>3 DEF queue_nb, stop, FlushFront, FlushPop, FlushReturn, Request, StopTimeout,
                  StopSignalled
    <3>4. QED
      BY <1>1, <3>1, <3>2, <3>3 DEF Client, InsideCall
  <2>5. QED
    BY <2>1, <2>2, <2>3, <2>4, CsdKeep, LostForEver DEF Framing
<1>2. CASE Worker
  <2>1. CASE \/ LoopCheck \/ Signal \/ Take \/ Pop \/ Configure \/ EmptyInput \/ PoolError
             \/ HeaderError \/ \E place \in {"empty", "dropped"} : InputError(place)
             \/ \E fetched \in BOOLEAN : OutputError(fetched)
    <3>1. worker.pc \notin Framing /\ worker'.pc \notin Framing
      BY <2>1 DEF LoopCheck, Signal, Take, Pop, Configure, EmptyInput, PoolError, HeaderError,
                  InputError, OutputError, Leave, At, Framing, TypeOK, WorkerSet
    <3>2. enc'.mSpsPpsHeaderReceived = enc.mSpsPpsHeaderReceived /\ csdSent' = csdSent
      BY <2>1 DEF LoopCheck, Signal, Take, Pop, Configure, EmptyInput, PoolError, HeaderError,
                  InputError, OutputError, WithBlock, TypeOK, EncSet
    <3>3. In("done")' \subseteq In("done")
      BY <2>1 DEF LoopCheck, Signal, Take, Pop, PopFront, Configure, EmptyInput, PoolError,
                  HeaderError, InputError, OutputError, Leave, In, TypeOK, queueVars
    <3>4. QED
      BY <3>1, <3>2, <3>3, CsdKeep, LostForEver
  <2>2. CASE CsdError
    <3>1. worker'.pc \notin Framing /\ In("done")' \subseteq In("done")
      BY <2>2 DEF CsdError, Leave, At, Framing, In, TypeOK
    <3>2. CsdLost'
      BY <2>2 DEF CsdError, Fail, CsdLost, Call, TypeOK
    <3>3. QED
      BY <3>1, <3>2 DEF CsdInv, HeaderFirst, CsdKept, CsdComesFirst, CsdLost
  <2>3. CASE Prepare
    <3>1. /\ worker'.pc \in Framing /\ worker'.csd = ~enc.mSpsPpsHeaderReceived
          /\ enc'.mSpsPpsHeaderReceived
          /\ worker.pc \notin Framing
          /\ UNCHANGED <<csdSent, calls, loc>>
      BY <2>3 DEF Prepare, WithBlock, TypeOK, WorkerSet, EncSet, Framing, queueVars
    <3>2. QED
      BY <3>1 DEF CsdInv, HeaderFirst, CsdKept, CsdComesFirst, CsdLost, In
  <2>4. CASE ReadRequest \/ ClearRequest
    <3>1. worker.pc \in Framing /\ worker'.pc \in Framing /\ worker'.csd = worker.csd
      BY <2>4 DEF ReadRequest, ClearRequest, Framing, TypeOK, WorkerSet
    <3>2. UNCHANGED <<enc, csdSent, loc>>
      BY <2>4 DEF ReadRequest, ClearRequest, queueVars
    <3>3. QED
      BY <3>1, <3>2, CsdKeep, LostForEver DEF In
  <2>5. CASE Encode
    <3>1. worker.pc \in Framing /\ worker'.pc \notin Framing
      BY <2>5 DEF Encode, finishWork, Leave, At, Framing
    <3>2. csdSent' = (csdSent \/ worker.csd) /\ calls' = calls
          /\ enc'.mSpsPpsHeaderReceived = enc.mSpsPpsHeaderReceived
      BY <2>5 DEF Encode, finishWork, TypeOK, EncSet
    <3>3. csdSent' \/ CsdLost'
      BY <3>1, <3>2 DEF CsdInv, HeaderFirst, CsdKept, CsdLost
    <3>4. QED
      BY <3>1, <3>3 DEF CsdInv, HeaderFirst, CsdKept, CsdComesFirst, CsdLost
  <2>6. CASE EncodeError
    <3>1. worker'.pc \notin Framing
      BY <2>6 DEF EncodeError, Leave, At, Framing
    <3>2. CsdLost'
      BY <2>6 DEF EncodeError, Fail, CsdLost, Call, TypeOK
    <3>3. QED
      BY <3>1, <3>2 DEF CsdInv, HeaderFirst, CsdKept, CsdComesFirst, CsdLost
  <2>7. QED
    BY <1>2, <2>1, <2>2, <2>3, <2>4, <2>5, <2>6 DEF Worker
<1>3. QED
  BY <1>1, <1>2 DEF Next

\* The first frame comes with or after the codec config, unless that was lost.
THEOREM CsdCorrect == Spec => []CsdComesFirst
<1> DEFINE Inv == TypeOK /\ WorkerAlive /\ CsdInv
<1>1. Init => Inv
  BY TypeInit DEF Init, NoThread, At, WorkerAlive, CsdInv, HeaderFirst, CsdKept, CsdComesFirst,
                  Framing, In
<1>2. Inv /\ [Next]_vars => Inv'
  BY TypeStep, AliveStep, CsdStep
<1>3. Inv => CsdComesFirst
  BY DEF CsdInv
<1>4. QED
  BY <1>1, <1>2, <1>3, PTL DEF Spec
=============================================================================
